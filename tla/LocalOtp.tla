------------------------------ MODULE LocalOtp ------------------------------
(***************************************************************************)
(* One code of the OTP handler of the adapters other than PortaSwitch      *)
(* (adapters/otp.py, SampleOTPHandler), verified by several threads: what  *)
(* generate_otp memorized, and validate_otp between its calls of the       *)
(* store.  In memory every thread holds the stored object itself, which    *)
(* others may change between its looks; from a file or Firestore each gets *)
(* a copy of its own.  No call of the store fails.                         *)
(***************************************************************************)
EXTENDS Naturals, FiniteSets, Combinatorics

CONSTANTS Thread,
          MaxAttempts  \* MAX_ATTEMPTS

VARIABLES kind,     \* the store: "memory", "file", "firestore"
          stored,   \* whether the code is in the store
          attempts, \* the failed attempts it counts
          expired,  \* whether its time is up
          verify,   \* per thread, its verification
          wrong,    \* history: how many wrong codes were compared with it
          granted,  \* history: how many sessions the code was good for
          crowded   \* history: whether two verifications overlapped

ovars == <<kind, stored, attempts, expired, verify, wrong, granted, crowded>>

\* "exhausting": to be erased for the wrong codes; "erasing": for any other reason.
\* seen: the attempts of the copy, or those an increment has read of the object.
Idle == [pc |-> "idle", right |-> FALSE, seen |-> 0]

TypeOK ==
    /\ kind \in {"memory", "file", "firestore"}
    /\ stored \in BOOLEAN /\ expired \in BOOLEAN /\ crowded \in BOOLEAN
    /\ attempts \in Nat
    /\ verify \in [Thread -> [pc: {"idle", "judging", "adding", "counting",
                                   "exhausting", "erasing"},
                              right: BOOLEAN, seen: Nat]]
    /\ wrong \in Nat /\ granted \in Nat

\* The code was made and sent.
Init ==
    /\ kind \in {"memory", "file", "firestore"}
    /\ stored = TRUE /\ attempts = 0 /\ expired = FALSE
    /\ verify = [k \in Thread |-> Idle]
    /\ wrong = 0 /\ granted = 0 /\ crowded = FALSE

At(k, pc) == verify[k].pc = pc
Goes(k, pc) == verify' = [verify EXCEPT ![k].pc = pc]

\* A code is entered, and the stored one read.  One that is not found is refused.
Reads(k, right) ==
    /\ At(k, "idle") /\ stored
    /\ verify' = [verify EXCEPT ![k] =
                     [pc |-> "judging", right |-> right,
                      seen |-> IF kind = "memory" THEN 0 ELSE attempts]]
    /\ crowded' = (crowded \/ \E j \in Thread : ~At(j, "idle"))
    /\ UNCHANGED <<kind, stored, attempts, expired, wrong, granted>>

\* The attempts before this one.
Counted(k) == IF kind = "memory" THEN attempts ELSE verify[k].seen

Expired(k) ==
    /\ At(k, "judging") /\ expired
    /\ Goes(k, "erasing")
    /\ UNCHANGED <<kind, stored, attempts, expired, wrong, granted, crowded>>

\* A wrong code, compared first, and there were too many before it: more than
\* MaxAttempts.
Exhausted(k) ==
    /\ At(k, "judging") /\ ~expired /\ ~verify[k].right /\ Counted(k) > MaxAttempts
    /\ wrong' = wrong + 1
    /\ Goes(k, "exhausting")
    /\ UNCHANGED <<kind, stored, attempts, expired, granted, crowded>>

BugWrongResets(k) ==
    /\ At(k, "judging") /\ ~expired /\ ~verify[k].right
    /\ wrong' = wrong + 1
    /\ verify' = [verify EXCEPT ![k].pc = "counting", ![k].seen = 0]
    /\ UNCHANGED <<kind, stored, attempts, expired, granted, crowded>>

\* A wrong code, to be counted.
Wrong(k) ==
    /\ At(k, "judging") /\ ~expired /\ ~verify[k].right /\ Counted(k) <= MaxAttempts
    /\ wrong' = wrong + 1
    /\ Goes(k, IF kind = "memory" THEN "adding" ELSE "counting")
    /\ UNCHANGED <<kind, stored, attempts, expired, granted, crowded>>

\* The increment of an object that threads share reads it once more.
Adds(k) ==
    /\ At(k, "adding")
    /\ verify' = [verify EXCEPT ![k].pc = "counting", ![k].seen = attempts]
    /\ UNCHANGED <<kind, stored, attempts, expired, wrong, granted, crowded>>

\* The attempt is counted and the code stored, be it there any more or not.
Counts(k) ==
    /\ At(k, "counting")
    /\ attempts' = verify[k].seen + 1 /\ stored' = TRUE
    /\ verify' = [verify EXCEPT ![k] = Idle]
    /\ UNCHANGED <<kind, expired, wrong, granted, crowded>>

BugRightKeepsCode(k) ==
    /\ At(k, "judging") /\ ~expired /\ verify[k].right
    /\ granted' = granted + 1
    /\ verify' = [verify EXCEPT ![k] = Idle]
    /\ UNCHANGED <<kind, stored, attempts, expired, wrong, crowded>>

\* The right code makes a session, before it is erased.
Right(k) ==
    /\ At(k, "judging") /\ ~expired /\ verify[k].right
    /\ granted' = granted + 1
    /\ Goes(k, "erasing")
    /\ UNCHANGED <<kind, stored, attempts, expired, wrong, crowded>>

\* A code that is gone is a KeyError but for Firestore; it fails the request only.
Erases(k) ==
    /\ At(k, "erasing") \/ At(k, "exhausting")
    /\ stored' = FALSE
    /\ verify' = [verify EXCEPT ![k] = Idle]
    /\ UNCHANGED <<kind, attempts, expired, wrong, granted, crowded>>

Expires ==
    /\ ~expired /\ expired' = TRUE
    /\ UNCHANGED <<kind, stored, attempts, verify, wrong, granted, crowded>>

Next ==
    \/ \E k \in Thread, right \in BOOLEAN : Reads(k, right)
    \/ \E k \in Thread :
          \/ Expired(k) \/ Exhausted(k) \/ Wrong(k) \/ Adds(k) \/ Counts(k)
          \/ Right(k) \/ Erases(k)
    \/ Expires

Spec == Init /\ [][Next]_ovars

----------------------------------------------------------------------------

\* However the threads overlap, and whatever one of them puts back that another
\* had erased, the wrong codes that are compared with one code are bounded.  The
\* code is compared before the limit is looked at, so the one that finds too many
\* attempts and has the code erased is a guess as well.  A thread that was
\* overtaken sets the count back to where it read it, and each of the threads below
\* it can do so again: one thread has MaxAttempts + 2 guesses, two have
\* C(MaxAttempts + 4, 2) - 1 (validate_otp, the attempts counter).
GuessesAreBounded ==
    LET n == Cardinality(Thread)
    IN wrong < choose(MaxAttempts + 2 + n, n)

\* Verified one after the other, a code is good for one session, and for no more
\* than MaxAttempts + 2 wrong ones: MaxAttempts + 1 that are counted, and the one
\* that then has it erased.
OneAtATime == ~crowded => granted <= 1 /\ wrong <= MaxAttempts + 2
=============================================================================
