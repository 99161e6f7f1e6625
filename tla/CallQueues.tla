----------------------------- MODULE CallQueues -----------------------------
(***************************************************************************)
(* The live counters of one adapter process behind "My Queues"             *)
(* (adapters/portaswitch/adapter.py, _fetch_callers_waiting and under it): *)
(* how many callers wait in the queues of a customer.  They are read from  *)
(* the switch through a call state subscription that belongs to the admin  *)
(* session, cached for a short while, and read by one request at a time    *)
(* through a lock per customer, in a table that is trimmed.                *)
(*                                                                         *)
(* What counts is whether a number may be believed: the first answer after *)
(* a subscription misses the callers that were already queued.             *)
(***************************************************************************)
EXTENDS Naturals, Sequences, FiniteSets, SequencesExt, FiniteSetsExt, Functions

CONSTANTS Customer,  \* i_customer
          Request,   \* requests in flight
          Lock,      \* identities of lock objects: numbers, reused once free
          CacheMax   \* CALL_QUEUE_COUNTERS_CACHE_MAX

NoLock == 0
NoOne == "no one"
NoCustomer == "no customer"

VARIABLES subscription, \* at the switch, per customer: "none", "young", "old"
          orphaned,     \* young subscriptions whose maker has given up
          stored,       \* the cached customers, the stalest entry first
          waiting,      \* what each entry says of the callers waiting
          fresh,        \* the customers whose entry is within its TTL
          lockOf,       \* _call_queue_counters_locks
          holder,       \* per lock object, the request inside it
          queue,        \* per lock object, the requests queued for it
          req           \* per request, its progress

qvars == <<subscription, orphaned, stored, waiting, fresh, lockOf, holder, queue, req>>

Idle == [pc |-> "idle", customer |-> NoCustomer, lock |-> NoLock]

\* pc: "locking" queued for the lock, "reading" the calls in progress,
\*   "subscribing", "rereading" the calls after it.
Progress == [pc: {"locking", "reading", "subscribing", "rereading"},
             customer: Customer, lock: Lock] \cup {Idle}

At(pcs) == {k \in Request : req[k].pc \in pcs}
InsideLock == {"reading", "subscribing", "rereading"}

TypeOK ==
    /\ subscription \in [Customer -> {"none", "young", "old"}]
    /\ orphaned \subseteq {c \in Customer : subscription[c] = "young"}
    /\ stored \in Seq(Customer) /\ IsInjective(stored)
    /\ waiting \in [Customer -> {"no entry", "unknown", "counted", "undercounted"}]
    /\ \A c \in Customer : waiting[c] = "no entry" <=> c \notin ToSet(stored)
    /\ fresh \subseteq ToSet(stored)
    /\ lockOf \in [Customer -> Lock \cup {NoLock}]
    /\ holder \in [Lock -> Request \cup {NoOne}]
    /\ queue \in [Lock -> Seq(Request)]
    /\ req \in [Request -> Progress]
    /\ \A l \in Lock :
          /\ IsInjective(queue[l])
          /\ ToSet(queue[l]) = {k \in At({"locking"}) : req[k].lock = l}
          /\ {k \in At(InsideLock) : req[k].lock = l} = {holder[l]} \ {NoOne}

Init ==
    /\ subscription = [c \in Customer |-> "none"]
    /\ orphaned = {}
    /\ stored = <<>>
    /\ waiting = [c \in Customer |-> "no entry"]
    /\ fresh = {}
    /\ lockOf = [c \in Customer |-> NoLock]
    /\ holder = [l \in Lock |-> NoOne]
    /\ queue = [l \in Lock |-> <<>>]
    /\ req = [k \in Request |-> Idle]

----------------------------------------------------------------------------
(* The lock of a customer and the entry behind it.                         *)

NewLock ==
    CHOOSE l \in Lock : l \notin Range(lockOf) /\ \A k \in Request : req[k].lock # l

Tabled == {c \in Customer : lockOf[c] # NoLock}

BugWithLockNeverTrims(c) ==
    IF c \in Tabled THEN lockOf ELSE [lockOf EXCEPT ![c] = NewLock]

\* _counters_lock: a new lock enters the table, and the others that nobody
\* holds leave it when there are too many.
WithLock(c) ==
    IF c \in Tabled THEN lockOf
    ELSE LET crowded == Cardinality(Tabled) + 1 > CacheMax
         IN [d \in Customer |->
               IF d = c THEN NewLock
               ELSE IF crowded /\ d \in Tabled /\ holder[lockOf[d]] = NoOne THEN NoLock
               ELSE lockOf[d]]

BugLeaveKeepsLock(k) ==
    /\ UNCHANGED holder
    /\ req' = [req EXCEPT ![k] = Idle]

\* A request leaves the lock: it is free until the one at its head runs.
Leave(k) ==
    /\ holder' = [holder EXCEPT ![req[k].lock] = NoOne]
    /\ req' = [req EXCEPT ![k] = Idle]

\* _store_callers_waiting: the entry is the newest one; over the limit the
\* stalest one goes.
Store(c, what) ==
    LET order == Append(RemoveFirst(stored, c), c)
        crowded == Len(order) > CacheMax
        gone == IF crowded THEN {Head(order)} ELSE {}
    IN /\ stored' = IF crowded THEN Tail(order) ELSE order
       /\ waiting' = [d \in Customer |-> IF d \in gone THEN "no entry"
                                         ELSE IF d = c THEN what ELSE waiting[d]]
       /\ fresh' = (fresh \cup {c}) \ gone

\* Between the release of a lock and its next holder: a woken request is at the
\* head of a free lock.  What is ready to run may come in between and queue up,
\* but no answer of the switch does.
HandingOver == \E l \in Lock : holder[l] = NoOne /\ queue[l] # <<>>

----------------------------------------------------------------------------
(* Requests.                                                               *)

\* retrieve_call_queues and both logins come to the counters of a customer
\* without a fresh entry (a fresh one is served and changes nothing).
Poll(k, c) ==
    LET l == WithLock(c)[c]
    IN /\ req[k].pc = "idle" /\ c \notin fresh
       /\ lockOf' = WithLock(c)
       /\ IF holder[l] = NoOne /\ queue[l] = <<>>
          THEN /\ holder' = [holder EXCEPT ![l] = k]
               /\ req' = [req EXCEPT ![k] = [pc |-> "reading", customer |-> c, lock |-> l]]
               /\ UNCHANGED queue
          ELSE /\ queue' = [queue EXCEPT ![l] = Append(@, k)]
               /\ req' = [req EXCEPT ![k] = [pc |-> "locking", customer |-> c, lock |-> l]]
               /\ UNCHANGED holder
       /\ UNCHANGED <<subscription, orphaned, stored, waiting, fresh>>

\* The woken request looks at the entry again.
Resume(k) ==
    LET l == req[k].lock
    IN /\ req[k].pc = "locking"
       /\ holder[l] = NoOne /\ Head(queue[l]) = k
       /\ queue' = [queue EXCEPT ![l] = Tail(@)]
       /\ IF req[k].customer \in fresh
          THEN req' = [req EXCEPT ![k] = Idle] /\ UNCHANGED holder
          ELSE req' = [req EXCEPT ![k].pc = "reading"] /\ holder' = [holder EXCEPT ![l] = k]
       /\ UNCHANGED <<subscription, orphaned, stored, waiting, fresh, lockOf>>

\* The switch answers a read: a young subscription has caught up by the next one.
CaughtUp(c) ==
    /\ subscription' = [subscription EXCEPT ![c] = "old"]
    /\ orphaned' = orphaned \ {c}

\* The first read: counted, or refused because nothing is subscribed.
Read(k) ==
    LET c == req[k].customer
    IN /\ req[k].pc = "reading" /\ ~HandingOver
       /\ IF subscription[c] = "none"
          THEN /\ req' = [req EXCEPT ![k].pc = "subscribing"]
               /\ UNCHANGED <<subscription, orphaned, stored, waiting, fresh, holder>>
          ELSE /\ Store(c, IF subscription[c] = "young" THEN "undercounted" ELSE "counted")
               /\ CaughtUp(c)
               /\ Leave(k)
       /\ UNCHANGED <<lockOf, queue>>

\* enable_api_notifications.
Subscribe(k) ==
    LET c == req[k].customer
    IN /\ req[k].pc = "subscribing" /\ ~HandingOver
       /\ subscription' = [subscription EXCEPT ![c] = IF @ = "old" THEN @ ELSE "young"]
       /\ orphaned' = orphaned \ {c}
       /\ req' = [req EXCEPT ![k].pc = "rereading"]
       /\ UNCHANGED <<stored, waiting, fresh, lockOf, holder, queue>>

BugRereadCounts(k) ==
    LET c == req[k].customer
    IN /\ req[k].pc = "rereading" /\ ~HandingOver
       /\ Store(c, IF subscription[c] = "young" THEN "undercounted" ELSE "unknown")
       /\ IF subscription[c] = "none" THEN UNCHANGED <<subscription, orphaned>> ELSE CaughtUp(c)
       /\ Leave(k)
       /\ UNCHANGED <<lockOf, queue>>

\* The read after it: whatever it counts is unknown; refused again, it gives up.
Reread(k) ==
    LET c == req[k].customer
    IN /\ req[k].pc = "rereading" /\ ~HandingOver
       /\ Store(c, "unknown")
       /\ IF subscription[c] = "none" THEN UNCHANGED <<subscription, orphaned>> ELSE CaughtUp(c)
       /\ Leave(k)
       /\ UNCHANGED <<lockOf, queue>>

\* A young subscription loses the request that made it.
GivenUp(k) ==
    orphaned' = IF req[k].pc = "rereading" /\ subscription[req[k].customer] = "young"
                THEN orphaned \cup {req[k].customer} ELSE orphaned

\* Any of the calls fails: the counters are unknown, which is cached as well.
Fail(k) ==
    /\ req[k].pc \in InsideLock /\ ~HandingOver
    /\ Store(req[k].customer, "unknown")
    /\ GivenUp(k)
    /\ Leave(k)
    /\ UNCHANGED <<subscription, lockOf, queue>>

\* The deadline of the HTTP request ends it wherever it awaits.
Cancel(k) ==
    /\ req[k].pc # "idle" /\ ~HandingOver
    /\ GivenUp(k)
    /\ IF req[k].pc = "locking"
       THEN /\ queue' = [queue EXCEPT ![req[k].lock] = RemoveFirst(@, k)]
            /\ req' = [req EXCEPT ![k] = Idle]
            /\ UNCHANGED holder
       ELSE Leave(k) /\ UNCHANGED queue
    /\ UNCHANGED <<subscription, stored, waiting, fresh, lockOf>>

----------------------------------------------------------------------------
(* The admin session and time.                                             *)

\* The admin session is established anew: its subscriptions are gone.
SessionRenewed ==
    /\ subscription' = [c \in Customer |-> "none"]
    /\ orphaned' = {}
    /\ UNCHANGED <<stored, waiting, fresh, lockOf, holder, queue, req>>

\* The oldest entry still within its TTL passes it.
Expire(i) ==
    /\ stored[i] \in fresh
    /\ \A j \in 1..i - 1 : stored[j] \notin fresh
    /\ fresh' = fresh \ {stored[i]}
    /\ UNCHANGED <<subscription, orphaned, stored, waiting, lockOf, holder, queue, req>>

Runs(k) == Resume(k) \/ Read(k) \/ Subscribe(k) \/ Reread(k) \/ Fail(k)

Next ==
    \/ \E k \in Request : Runs(k) \/ Cancel(k)
    \/ \E k \in Request, c \in Customer : Poll(k, c)
    \/ \E i \in DOMAIN stored : Expire(i)
    \/ SessionRenewed

Spec == Init /\ [][Next]_qvars

----------------------------------------------------------------------------
(* Properties.                                                             *)

\* No number is taken from a subscription that has not caught up, except where
\* the request that subscribed gave up before its own read, or where two read
\* side by side, which takes a lock trimmed between its release and its next
\* holder.  Whoever reads then cannot know that the subscription is young.
NoConfidentZero ==
    [][\A c \in Customer :
          waiting'[c] = "undercounted" /\ waiting[c] # "undercounted" =>
             \/ c \in orphaned
             \/ \E j, k \in At(InsideLock) : j # k /\ req[j].customer = c /\ req[k].customer = c]_qvars

\* The table of locks is bounded by its limit or by the requests in flight,
\* however many customers come by: trimming may never be able to drop a lock
\* in use, but it always gets rid of the others.
LockTableIsBounded ==
    Cardinality(Tabled) <= Max({CacheMax, Cardinality(Request)})
=============================================================================
