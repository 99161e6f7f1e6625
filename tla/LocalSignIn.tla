----------------------------- MODULE LocalSignIn -----------------------------
(***************************************************************************)
(* What an adapter other than PortaSwitch keeps itself of its users: their *)
(* sessions (LocalSessions) and the codes they sign in with (LocalOtp).    *)
(* The two share the threads and the kind of store, but no key of it, so   *)
(* each keeps its specification; this module brings their properties       *)
(* together.                                                               *)
(***************************************************************************)
EXTENDS LocalSessions

CONSTANT MaxAttempts

\* MAX_ATTEMPTS is a number, and the threads are those of a pool.
ASSUME AttemptsAssumption == MaxAttempts \in Nat /\ IsFiniteSet(Thread)

VARIABLES stored, attempts, expired, verify, wrong, granted, crowded

Otp == INSTANCE LocalOtp

\* Sessions, tables and codes are what they should be: TypeOK of both.
TypesOK == TypeOK /\ Otp!TypeOK

\* GuessesAreBounded of LocalOtp: so many wrong codes can be tried on one code,
\* however the threads overlap.
GuessesAreBounded == Otp!GuessesAreBounded

\* OneAtATime of LocalOtp: verified one after the other, a code is good for one
\* session, and for no more wrong ones than the limit and two.
OneAtATime == Otp!OneAtATime
=============================================================================
