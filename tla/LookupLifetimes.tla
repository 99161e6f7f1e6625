-------------------------- MODULE LookupLifetimes --------------------------
(* What LookupCaches and its instances are told of lifetimes and sizes.     *)
EXTENDS Naturals

CONSTANTS TTL,         \* of a stored answer
          RetryAfter,  \* of a failure
          ReadTimeout, \* the longest a read takes
          CacheMax     \* entries of a table

\* A failure is kept for no longer than an answer, and a table has an entry.
ASSUME LookupAssumption ==
    /\ TTL \in Nat \ {0} /\ RetryAfter \in 1..TTL /\ ReadTimeout \in Nat
    /\ CacheMax \in Nat \ {0}
=============================================================================
