---------------------------- MODULE LookupCaches ----------------------------
(***************************************************************************)
(* Four things one adapter process reads from the switch and keeps for a   *)
(* while (adapters/portaswitch/adapter.py):                                *)
(*   "release"  the PortaSwitch release, a failure is kept as well         *)
(*   "email"    the sender of OTP codes, failures are not kept             *)
(*   "limits"   device limits by account or customer, failures not kept    *)
(*   "crm"      the CRM address of a customer, failures in their own table *)
(* Requests look up side by side, without a lock: each lookup is the steps *)
(* before and after the await of its read.  A lookup answered at once      *)
(* changes nothing and is not a step.                                      *)
(*                                                                         *)
(* Values are told apart by their age alone: how long ago the switch gave  *)
(* the answer, and how long ago it was stored.  Times are in units of the  *)
(* lifetimes, and stop counting at Cap, past the lifetime of an answer.    *)
(***************************************************************************)
EXTENDS LookupLifetimes, Sequences, FiniteSets, SequencesExt

CONSTANTS Key,     \* accounts or customers
          Reader   \* lookups in flight

Cap == TTL + ReadTimeout

VARIABLES kind,     \* which of the four caches this is
          entries,  \* the table, in store order
          failed,   \* _crm_host_failed_at, in store order
          reader,   \* per lookup, its progress
          refusal   \* history: per key, its last failed read

lvars == <<kind, entries, failed, reader, refusal>>

Time == 0..Cap

\* One process keeps one release and one address.
Keys == IF kind \in {"release", "email"} THEN {CHOOSE k \in Key : TRUE} ELSE Key
Limit == IF kind \in {"release", "email"} THEN 1 ELSE CacheMax

\* "answered": the answer is on its way back from the switch.  last: when the switch
\* gave the answer that was kept when the lookup began, which the CRM address falls
\* back to when the read fails.
Idle == [pc |-> "idle", key |-> "none", seen |-> Cap, running |-> 0, last |-> Cap]

LongAgo == [age |-> Cap, others |-> {}]

TypeOK ==
    /\ kind \in {"release", "email", "limits", "crm"}
    /\ entries \in Seq([key: Keys, age: Time, seen: Time, ok: BOOLEAN])
    /\ failed \in Seq([key: Keys, age: Time])
    /\ \A i, j \in DOMAIN entries : entries[i].key = entries[j].key => i = j
    /\ \A i, j \in DOMAIN failed : failed[i].key = failed[j].key => i = j
    /\ Len(entries) <= Limit /\ Len(failed) <= Limit
    /\ reader \in [Reader -> [pc: {"asked", "answered"}, key: Keys, seen: Time,
                             running: 0..ReadTimeout, last: Time] \cup {Idle}]
    /\ refusal \in [Key -> [age: Time, others: SUBSET Key]]

Init ==
    /\ kind \in {"release", "email", "limits", "crm"}
    /\ entries = <<>>
    /\ failed = <<>>
    /\ reader = [r \in Reader |-> Idle]
    /\ refusal = [k \in Key |-> LongAgo]

----------------------------------------------------------------------------
(* The tables.                                                             *)

\* dict.pop: a key has one entry at most.
Without(table, k) ==
    IF \E i \in DOMAIN table : table[i].key = k
    THEN RemoveAt(table, CHOOSE i \in DOMAIN table : table[i].key = k)
    ELSE table

\* An entry assigned in place keeps the position it had.
BugPutInPlace(table, e) ==
    LET longer == IF \E i \in DOMAIN table : table[i].key = e.key
                  THEN [i \in DOMAIN table |-> IF table[i].key = e.key THEN e ELSE table[i]]
                  ELSE Append(table, e)
    IN IF Len(longer) > Limit THEN Tail(longer) ELSE longer

\* A dict in store order: the entry is taken out before it is put in, and the
\* first ones go while there are too many.
Put(table, e) ==
    LET longer == Append(Without(table, e.key), e)
    IN IF Len(longer) > Limit THEN Tail(longer) ELSE longer

\* An entry is served within the lifetime of what it holds.
Lifetime(e) == IF e.ok THEN TTL ELSE RetryAfter
Served(k) == \E e \in ToSet(entries) : e.key = k /\ e.age < Lifetime(e)
Resting(k) == \E f \in ToSet(failed) : f.key = k /\ f.age < RetryAfter

----------------------------------------------------------------------------
(* A lookup.                                                               *)

\* cached: what the table has for a key, however old.
Kept(k) ==
    IF kind = "crm" /\ \E e \in ToSet(entries) : e.key = k
    THEN (CHOOSE e \in ToSet(entries) : e.key = k).seen ELSE Cap

\* It finds nothing to serve and no failure that keeps it from asking.
Ask(r, k) ==
    /\ reader[r] = Idle
    /\ ~Served(k) /\ ~Resting(k)
    /\ reader' = [reader EXCEPT ![r] = [pc |-> "asked", key |-> k, seen |-> Cap,
                                        running |-> 0, last |-> Kept(k)]]
    /\ UNCHANGED <<kind, entries, failed, refusal>>

\* The switch answers.
Answer(r) ==
    /\ reader[r].pc = "asked"
    /\ reader' = [reader EXCEPT ![r].pc = "answered", ![r].seen = 0]
    /\ UNCHANGED <<kind, entries, failed, refusal>>

\* The answer is stored, whatever another lookup stored meanwhile.
Stores(r) ==
    LET k == reader[r].key
    IN /\ reader[r].pc = "answered"
       /\ entries' = Put(entries, [key |-> k, age |-> 0, seen |-> reader[r].seen, ok |-> TRUE])
       /\ failed' = Without(failed, k)
       /\ refusal' = [refusal EXCEPT ![k] = LongAgo]
       /\ reader' = [reader EXCEPT ![r] = Idle]
       /\ UNCHANGED kind

\* The last answer, served again, counts as a new one.
BugFailsRenews(r) ==
    LET k == reader[r].key
    IN /\ reader[r].pc \in {"asked", "answered"}
       /\ entries' = [i \in DOMAIN entries |->
                         IF entries[i].key = k THEN [entries[i] EXCEPT !.age = 0] ELSE entries[i]]
       /\ failed' = IF kind = "crm" THEN Put(failed, [key |-> k, age |-> 0]) ELSE failed
       /\ reader' = [reader EXCEPT ![r] = Idle]
       /\ UNCHANGED <<kind, refusal>>

\* The read fails, or its answer says nothing: the release stores that in place
\* of what it had, the CRM address notes when and is given `last`, the other two
\* forget it.
Fails(r) ==
    LET k == reader[r].key
    IN /\ reader[r].pc \in {"asked", "answered"}
       /\ entries' = IF kind = "release"
                     THEN Put(entries, [key |-> k, age |-> 0, seen |-> reader[r].seen, ok |-> FALSE])
                     ELSE entries
       /\ failed' = IF kind = "crm" THEN Put(failed, [key |-> k, age |-> 0]) ELSE failed
       /\ refusal' = IF kind \in {"release", "crm"}
                     THEN [j \in Key |-> IF j = k THEN [age |-> 0, others |-> {}]
                                         ELSE [refusal[j] EXCEPT !.others = @ \cup {k}]]
                     ELSE refusal
       /\ reader' = [reader EXCEPT ![r] = Idle]
       /\ UNCHANGED kind

\* The request around it is cancelled.
Cancel(r) ==
    /\ reader[r] # Idle
    /\ reader' = [reader EXCEPT ![r] = Idle]
    /\ UNCHANGED <<kind, entries, failed, refusal>>

----------------------------------------------------------------------------
(* Time.                                                                   *)

Later(t) == IF t < Cap THEN t + 1 ELSE Cap

\* A unit of time passes; no read outlives its timeout.
Tick ==
    /\ \A r \in Reader : reader[r].running < ReadTimeout
    /\ entries' = [i \in DOMAIN entries |->
                     [entries[i] EXCEPT !.age = Later(@), !.seen = Later(@)]]
    /\ failed' = [i \in DOMAIN failed |-> [failed[i] EXCEPT !.age = Later(@)]]
    /\ reader' = [r \in Reader |->
                    IF reader[r] = Idle THEN Idle
                    ELSE [reader[r] EXCEPT !.seen = Later(@), !.last = Later(@), !.running = @ + 1]]
    /\ refusal' = [k \in Key |->
                     IF refusal[k].age + 1 >= RetryAfter THEN LongAgo
                     ELSE [refusal[k] EXCEPT !.age = @ + 1]]
    /\ UNCHANGED kind

Next ==
    \/ \E r \in Reader : Answer(r) \/ Stores(r) \/ Fails(r) \/ Cancel(r)
    \/ \E r \in Reader, k \in Keys : Ask(r, k)
    \/ Tick

Spec == Init /\ [][Next]_lvars

----------------------------------------------------------------------------
(* Properties.                                                             *)

\* What lookups of a key are given at once: an answer within its lifetime, and the
\* last CRM address while its failure rests.
Given(k) ==
    {e \in ToSet(entries) : e.key = k /\ e.ok /\ (e.age < TTL \/ (kind = "crm" /\ Resting(k)))}

\* Failures alone let an answer be served that is more than a lifetime and one read
\* old (a slow read may store an old answer over a newer one): lookups that do not
\* ask are given such a one for a CRM address only, and less than RetryAfter after
\* its last finished read, which failed.  A lookup whose own read fails is given the
\* address kept when it began, however old, but never one that was replaced before.
OldOnlyBehindFailure ==
    /\ \A k \in Keys : \A e \in Given(k) :
          e.seen >= TTL + ReadTimeout => kind = "crm" /\ refusal[k].age < RetryAfter
    /\ \A r \in Reader : \A e \in ToSet(entries) :
          /\ kind = "crm" /\ reader[r] # Idle /\ reader[r].key = e.key
          /\ reader[r].running < e.age
          => reader[r].last = e.seen

\* After a failed read the switch is left alone for RetryAfter, unless a read
\* in flight succeeds, or as many other customers failed since as the table of
\* failures holds.  The order of that table decides who is forgotten.
LeftAloneAfterFailure ==
    [][\A r \in Reader :
          reader[r] = Idle /\ reader'[r].pc = "asked" =>
             LET last == refusal[reader'[r].key]
             IN last.age >= RetryAfter \/ Cardinality(last.others) >= CacheMax]_lvars

\* What a full table drops is the entry stored longest ago, however the reads
\* of several keys overlap.
StalestGoesFirst ==
    [][\A e \in ToSet(entries) :
          e.key \notin {f.key : f \in ToSet(entries')} =>
             \A f \in ToSet(entries) : f.age <= e.age]_lvars
=============================================================================
