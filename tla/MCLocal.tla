------------------------------ MODULE MCLocal ------------------------------
(* LocalSignIn for TLC: a behaviour is about the sessions or about one code. *)
EXTENDS LocalSignIn, TLC

VARIABLE part

code == <<stored, attempts, expired, verify, wrong, granted, crowded>>
sessions == <<entry, thread, line, dismissed, known, over, contended, interrupted>>

MCInit == Init /\ Otp!Init /\ part \in {"sessions", "code"}
MCNext ==
    \/ part = "sessions" /\ Next /\ UNCHANGED <<part, code>>
    \/ part = "code" /\ Otp!Next /\ UNCHANGED <<part, sessions>>
MCSpec == MCInit /\ [][MCNext]_<<part, kind, code, sessions>>

Symmetry == Permutations(Thread)
=============================================================================
