--------------------------- MODULE ContactsCache ---------------------------
(***************************************************************************)
(* The account lists one adapter process caches behind contacts            *)
(* (adapters/portaswitch/adapter.py, _get_all_accounts_by_customer and the *)
(* methods under it), with CONTACTS_CACHE_TTL set: a fresh list is served, *)
(* a stale one is served and re-read by a background task, and otherwise   *)
(* the request waits for a read.  Reads of one customer go through one     *)
(* asyncio.Lock, kept in a table that eviction trims.                      *)
(*                                                                         *)
(* A request served at once changes nothing and is not a step.  A step is  *)
(* the code between two awaits; a lock that is free and has no waiters is  *)
(* taken without one.  Python's Lock hands over in two steps: release()    *)
(* frees it and wakes the first waiter, which takes it when it runs, and   *)
(* until then locked() is False.  What is ready to run by then may run in  *)
(* between; a read started in between does not end before the waiter runs, *)
(* and is taken to start after it.                                         *)
(***************************************************************************)
EXTENDS Naturals, Sequences, FiniteSets, SequencesExt, FiniteSetsExt, Functions

CONSTANTS Customer,   \* i_customer
          Coroutine,  \* slots for requests that wait and background tasks
          Lock,       \* identities of lock objects: numbers, reused once free
          RowCount,   \* how many accounts a read may bring
          MaxRows     \* ACCOUNTS_CACHE_MAX_ROWS

NoLock == 0
NoOne == "no one"
NoCustomer == "no customer"

\* There is always a lock object to spare.
ASSUME CacheAssumption ==
    /\ NoOne \notin Coroutine
    /\ IsFiniteSet(Customer) /\ IsFiniteSet(Coroutine)
    /\ RowCount \subseteq Nat /\ MaxRows \in Nat
    /\ Lock \subseteq Nat \ {NoLock}
    /\ Cardinality(Lock) > Cardinality(Customer) + Cardinality(Coroutine)

VARIABLES cached,   \* the customers with an entry, the oldest entry first
          rows,     \* accounts in each entry
          age,      \* "fresh", "stale" (past the TTL), "expired" (past serving)
          lockOf,   \* _accounts_cache_locks
          holder,   \* per lock object, the coroutine inside it
          waiters,  \* per lock object, the coroutines queued for it
          task,     \* _accounts_refresh_tasks
          co        \* per slot, the coroutine's progress

vars == <<cached, rows, age, lockOf, holder, waiters, task, co>>

\* pc: "created" task that has not run yet, "waiting" for the lock, "reading"
\*   from the switch, "done" task whose done-callback is still to run.
\* background: the slot is a refresh task, not a request.
Idle == [pc |-> "idle", customer |-> NoCustomer, lock |-> NoLock, background |-> FALSE]

\* A refresh task before and after its read.
TaskState(pc, c) == [pc |-> pc, customer |-> c, lock |-> NoLock, background |-> TRUE]

Progress == [pc: {"created", "waiting", "reading", "done"},
             customer: Customer,
             lock: Lock \cup {NoLock},
             background: BOOLEAN] \cup {Idle}

At(pc) == {k \in Coroutine : co[k].pc = pc}

TypeOK ==
    /\ cached \in Seq(Customer) /\ IsInjective(cached)
    /\ rows \in [Customer -> RowCount \cup {0}]
    /\ age \in [Customer -> {"none", "fresh", "stale", "expired"}]
    /\ \A c \in Customer : age[c] = "none" <=> c \notin ToSet(cached)
    /\ lockOf \in [Customer -> Lock \cup {NoLock}]
    /\ holder \in [Lock -> Coroutine \cup {NoOne}]
    /\ waiters \in [Lock -> Seq(Coroutine)]
    /\ co \in [Coroutine -> Progress]
    /\ \A l \in Lock :
          /\ IsInjective(waiters[l])
          /\ ToSet(waiters[l]) = {k \in At("waiting") : co[k].lock = l}
          /\ {k \in At("reading") : co[k].lock = l} = {holder[l]} \ {NoOne}
    /\ task \in [Customer -> Coroutine \cup {NoOne}]
    /\ \A c \in Customer : task[c] # NoOne =>
          /\ co[task[c]].customer = c
          /\ co[task[c]].background

Init ==
    /\ cached = <<>>
    /\ rows = [c \in Customer |-> 0]
    /\ age = [c \in Customer |-> "none"]
    /\ lockOf = [c \in Customer |-> NoLock]
    /\ holder = [l \in Lock |-> NoOne]
    /\ waiters = [l \in Lock |-> <<>>]
    /\ task = [c \in Customer |-> NoOne]
    /\ co = [k \in Coroutine |-> Idle]

----------------------------------------------------------------------------
(* The lock of a customer.                                                 *)

\* A lock object nobody refers to: a new one.
NewLock ==
    CHOOSE l \in Lock : /\ l \notin Range(lockOf)
                        /\ \A k \in Coroutine : co[k].lock # l

\* setdefault: the lock in the table, or a new one put there.
LockFor(c) == IF lockOf[c] = NoLock THEN NewLock ELSE lockOf[c]

\* The coroutine returns: a request frees its slot, a task leaves its callback.
Returned(k, background, c) ==
    [co EXCEPT ![k] = IF background
                      THEN TaskState("done", c)
                      ELSE Idle]

HandingOver == \E l \in Lock : holder[l] = NoOne /\ waiters[l] # <<>>

\* _read_accounts_into_cache up to its first await: queue for the lock, or take
\* it and look again at the entry, which another read may have made fresh.
EnterRead(k, c, background) ==
    LET l == LockFor(c)
        at(pc) == [pc |-> pc, customer |-> c, lock |-> l, background |-> background]
    IN /\ lockOf' = [lockOf EXCEPT ![c] = l]
       /\ IF holder[l] # NoOne
          THEN /\ waiters' = [waiters EXCEPT ![l] = Append(@, k)]
               /\ co' = [co EXCEPT ![k] = at("waiting")]
               /\ UNCHANGED holder
          ELSE /\ IF age[c] = "fresh"
                  THEN co' = Returned(k, background, c) /\ UNCHANGED holder
                  ELSE co' = [co EXCEPT ![k] = at("reading")] /\ holder' = [holder EXCEPT ![l] = k]
               /\ UNCHANGED waiters

----------------------------------------------------------------------------
(* Requests and background tasks.                                          *)

\* A request for a customer without an entry that can still be served.
Miss(k, c) ==
    /\ co[k].pc = "idle"
    /\ age[c] \in {"none", "expired"}
    /\ ~HandingOver
    /\ EnterRead(k, c, FALSE)
    /\ UNCHANGED <<cached, rows, age, task>>

RefreshRunning(c) == \E j \in Coroutine : task[c] = j /\ co[j].pc # "done"

\* A request is served a stale entry; it starts a refresh task in slot k unless
\* one is still running.
StaleHit(k, c) ==
    /\ co[k].pc = "idle"
    /\ age[c] = "stale"
    /\ ~RefreshRunning(c)
    /\ task' = [task EXCEPT ![c] = k]
    /\ co' = [co EXCEPT ![k] = TaskState("created", c)]
    /\ UNCHANGED <<cached, rows, age, lockOf, holder, waiters>>

\* The task runs for the first time.
TaskStarts(k) ==
    /\ co[k].pc = "created"
    /\ ~HandingOver
    /\ EnterRead(k, co[k].customer, TRUE)
    /\ UNCHANGED <<cached, rows, age, task>>

\* The woken waiter takes the lock and looks again at the entry; if that is
\* fresh now the coroutine returns, freeing the lock for the next waiter.
Resume(k) ==
    LET l == co[k].lock
        c == co[k].customer
    IN /\ co[k].pc = "waiting"
       /\ holder[l] = NoOne /\ Head(waiters[l]) = k
       /\ waiters' = [waiters EXCEPT ![l] = Tail(@)]
       /\ IF age[c] = "fresh"
          THEN co' = Returned(k, co[k].background, c) /\ UNCHANGED holder
          ELSE co' = [co EXCEPT ![k].pc = "reading"] /\ holder' = [holder EXCEPT ![l] = k]
       /\ UNCHANGED <<cached, rows, age, lockOf, task>>

TotalRows(order, count) == FoldFunction(+, 0, Restrict(count, ToSet(order)))

BugDroppedKeepsTwo(order, count) ==
    LET stops(d) == \/ ~(TotalRows(SubSeq(order, d + 1, Len(order)), count) > MaxRows)
                    \/ d + 2 >= Len(order)
                    \/ count[order[d + 1]] = 0
    IN Min({d \in 0..Len(order) - 1 : stops(d)})

\* _evict_accounts_over_limit: how many of the oldest entries go.  It stops
\* within the budget, at the entry just stored, and at an empty entry.
Dropped(order, count) ==
    LET stops(d) == \/ ~(TotalRows(SubSeq(order, d + 1, Len(order)), count) > MaxRows)
                    \/ d + 1 = Len(order)
                    \/ count[order[d + 1]] = 0
    IN Min({d \in 0..Len(order) - 1 : stops(d)})

\* The read has brought n accounts: the entry is stored as the newest one, the
\* oldest ones are dropped while over budget, each with its lock if that is not
\* held, and the lock is released.
ReadDone(k, n) ==
    LET c == co[k].customer
        order == Append(RemoveFirst(cached, c), c)
        count == [rows EXCEPT ![c] = n]
        drop == Dropped(order, count)
        gone == ToSet(SubSeq(order, 1, drop))
    IN /\ co[k].pc = "reading"
       /\ cached' = SubSeq(order, drop + 1, Len(order))
       /\ rows' = [d \in Customer |-> IF d \in gone THEN 0 ELSE count[d]]
       /\ age' = [d \in Customer |-> IF d = c THEN "fresh"
                                     ELSE IF d \in gone THEN "none" ELSE age[d]]
       /\ lockOf' = [d \in Customer |->
                       IF d \in gone /\ lockOf[d] # NoLock /\ holder[lockOf[d]] = NoOne
                       THEN NoLock ELSE lockOf[d]]
       /\ holder' = [holder EXCEPT ![co[k].lock] = NoOne]
       /\ co' = Returned(k, co[k].background, c)
       /\ UNCHANGED <<waiters, task>>

BugReadFailedKeepsLock(k) ==
    /\ co[k].pc = "reading"
    /\ co' = Returned(k, co[k].background, co[k].customer)
    /\ UNCHANGED <<cached, rows, age, lockOf, holder, waiters, task>>

\* The read fails, or the request's deadline cancels it: the entry stays.
ReadFailed(k) ==
    /\ co[k].pc = "reading"
    /\ holder' = [holder EXCEPT ![co[k].lock] = NoOne]
    /\ co' = Returned(k, co[k].background, co[k].customer)
    /\ UNCHANGED <<cached, rows, age, lockOf, waiters, task>>

\* The deadline cancels a request that waits; refresh tasks are not part of one.
Cancelled(k) ==
    /\ co[k].pc = "waiting" /\ ~co[k].background
    /\ waiters' = [waiters EXCEPT ![co[k].lock] = RemoveFirst(@, k)]
    /\ co' = [co EXCEPT ![k] = Idle]
    /\ UNCHANGED <<cached, rows, age, lockOf, holder, task>>

BugForgottenPopsBlindly(k) ==
    /\ co[k].pc = "done"
    /\ task' = [task EXCEPT ![co[k].customer] = NoOne]
    /\ co' = [co EXCEPT ![k] = Idle]
    /\ UNCHANGED <<cached, rows, age, lockOf, holder, waiters>>

BugForgottenKeepsTask(k) ==
    /\ co[k].pc = "done"
    /\ co' = [co EXCEPT ![k] = Idle]
    /\ UNCHANGED <<cached, rows, age, lockOf, holder, waiters, task>>

\* The done-callback of a task: it leaves the table unless it was replaced there
\* between its end and the callback.
Forgotten(k) ==
    LET c == co[k].customer
    IN /\ co[k].pc = "done"
       /\ task' = IF task[c] = k THEN [task EXCEPT ![c] = NoOne] ELSE task
       /\ co' = [co EXCEPT ![k] = Idle]
       /\ UNCHANGED <<cached, rows, age, lockOf, holder, waiters>>

----------------------------------------------------------------------------
(* Time.                                                                   *)

Rank(a) == CASE a = "fresh" -> 1 [] a = "stale" -> 2 [] a = "expired" -> 3

\* An entry passes the TTL, or the multiple of it past which it is not served.
\* An older entry has passed it before.
Ages(i) ==
    LET c == cached[i]
        next == IF age[c] = "fresh" THEN "stale" ELSE "expired"
    IN /\ age[c] # "expired"
       /\ \A j \in 1..i - 1 : Rank(age[cached[j]]) >= Rank(next)
       /\ age' = [age EXCEPT ![c] = next]
       /\ UNCHANGED <<cached, rows, lockOf, holder, waiters, task, co>>

Runs(k) ==
    \/ TaskStarts(k) \/ Resume(k) \/ ReadFailed(k) \/ Forgotten(k)
    \/ \E n \in RowCount : ReadDone(k, n)

Next ==
    \/ \E k \in Coroutine : Runs(k) \/ Cancelled(k)
    \/ \E k \in Coroutine, c \in Customer : Miss(k, c) \/ StaleHit(k, c)
    \/ \E i \in DOMAIN cached : Ages(i)

\* The event loop runs what is ready, and a read is bounded by the timeouts of
\* its HTTP requests.  A new task is ready however often a lock is handed over
\* before its turn, which strong fairness says and weak fairness would not.
Fairness == \A k \in Coroutine : WF_vars(Runs(k)) /\ SF_vars(TaskStarts(k))

Spec == Init /\ [][Next]_vars /\ Fairness

----------------------------------------------------------------------------
(* Properties.                                                             *)

\* A refresh task that has not ended is the one in the table: the loop itself
\* keeps only a weak reference to it, and a second one is not started beside it.
\* This must survive a task that ends, is replaced, and only then has its
\* callback run.
RefreshIsReferenced ==
    \A k \in Coroutine :
        co[k].background /\ co[k].pc # "done" => task[co[k].customer] = k

\* The cache exceeds its row budget only by the entry just stored, when that is
\* alone or has the rest behind an empty oldest entry.
OverBudgetOnlyBehindEmptyEntry ==
    TotalRows(cached, rows) > MaxRows =>
        Len(cached) = 1 \/ rows[Head(cached)] = 0

\* Every request that waits or reads gets through, and every refresh task ends
\* and leaves the table: a failed or cancelled reader gives its lock on.
EveryReaderEnds == \A k \in Coroutine : co[k].pc # "idle" ~> co[k].pc = "idle"

\* "One lock per customer, so a burst of contacts requests costs one read": no
\* two reads of one customer's list at once.  An eviction between the release
\* of the lock and its next holder drops the lock, and a newcomer makes another.
OneReadPerCustomer ==
    \A k, j \in At("reading") : co[k].customer = co[j].customer => k = j
=============================================================================
