------------------------- MODULE SwitchReadsProofs -------------------------
(***************************************************************************)
(* Proofs about what an adapter process reads from the switch, for any     *)
(* finite number of customers and coroutines, tables and pages of any      *)
(* size, and any lifetimes.  One inductive invariant per part:             *)
(*                                                                         *)
(* Inv, the cached account lists.  It takes the queues and holders of the  *)
(* locks slot by slot: a coroutine refers to a lock object exactly while   *)
(* it waits for it or reads under it, and it is then in its queue or its   *)
(* holder.  That no lock is taken for a new one while somebody refers to   *)
(* it is a matter of counting (SpareLockLemma).  RefreshIsReferenced is a  *)
(* part of Inv together with its converse, that a task in the table is a   *)
(* task of that customer: without it, the callback of a replaced task      *)
(* could remove another's.                                                 *)
(*                                                                         *)
(* LookupsInv, the single answers.  A failure is remembered by its entry,  *)
(* or is the oldest of those the table dropped: the tables are in store    *)
(* order, and the failures noted behind one are of others since.           *)
(*                                                                         *)
(* QueuesInv, the counters.  A subscription that has not caught up has its *)
(* maker inside the lock, or had one that gave up.                         *)
(*                                                                         *)
(* PagesInv, the lists that come page by page.  What was in the list and   *)
(* is neither brought nor still ahead of the reading is no more than the   *)
(* entries that left: each of them moves one entry over the edge.          *)
(***************************************************************************)
EXTENDS SwitchReads, SequenceLemmas, FiniteSetTheorems, FunctionTheorems,
        WellFoundedInduction

----------------------------------------------------------------------------
(* Lock objects.                                                           *)

\* A lock object is neither in a table of locks nor referred to by a coroutine.
HasSpareLock(table, refer) ==
    \E l \in Lock : l \notin Range(table) /\ \A k \in Coroutine : refer[k] # l

\* There is a lock object to spare: a table of locks and what the coroutines
\* refer to are fewer than there are.
LEMMA SpareLockLemma ==
  ASSUME NEW S, NEW T, NEW table \in [Customer -> S], NEW refer \in [Coroutine -> T]
  PROVE  HasSpareLock(table, refer)
  <1> DEFINE used == Range(table)
             inUse == Range(refer)
  <1>1. table \in Surjection(Customer, used) /\ refer \in Surjection(Coroutine, inUse)
    BY Fun_RangeProperties
  <1>2. /\ IsFiniteSet(used) /\ Cardinality(used) <= Cardinality(Customer)
    BY <1>1, FS_Surjection, CacheAssumption
  <1>3. /\ IsFiniteSet(inUse) /\ Cardinality(inUse) <= Cardinality(Coroutine)
    BY <1>1, FS_Surjection, CacheAssumption
  <1>4. /\ IsFiniteSet(used \cup inUse)
        /\ Cardinality(used \cup inUse) <= Cardinality(Customer) + Cardinality(Coroutine)
    <2>1. /\ IsFiniteSet(used \cup inUse)
          /\ Cardinality(used \cup inUse) =
                Cardinality(used) + Cardinality(inUse) - Cardinality(used \cap inUse)
      BY <1>2, <1>3, FS_Union
    <2>2. used \cap inUse \in SUBSET used
      OBVIOUS
    <2>3. Cardinality(used \cap inUse) \in Nat
      BY <1>2, <2>2, FS_Subset, FS_CardinalityType
    <2>4. /\ Cardinality(used) \in Nat /\ Cardinality(inUse) \in Nat
          /\ Cardinality(Customer) \in Nat /\ Cardinality(Coroutine) \in Nat
      BY <1>2, <1>3, FS_CardinalityType, CacheAssumption
    <2> HIDE DEF used, inUse
    <2> QED
      BY <1>2, <1>3, <2>1, <2>3, <2>4
  <1>5. \E l \in Lock : l \notin used \cup inUse
    <2> SUFFICES ASSUME Lock \subseteq used \cup inUse PROVE FALSE
      OBVIOUS
    <2>1. Cardinality(Lock) <= Cardinality(used \cup inUse)
          /\ IsFiniteSet(Lock)
      <3> HIDE DEF used, inUse
      <3> QED
        BY <1>4, FS_Subset
    <2>2. /\ Cardinality(Lock) \in Nat /\ Cardinality(used \cup inUse) \in Nat
          /\ Cardinality(Customer) \in Nat /\ Cardinality(Coroutine) \in Nat
      BY <1>4, <2>1, FS_CardinalityType, CacheAssumption
    <2> HIDE DEF used, inUse
    <2> QED
      BY <1>4, <2>1, <2>2, CacheAssumption
  <1>6. \A k \in Coroutine : refer[k] \in inUse
    BY DEF Range
  <1> QED
    BY <1>5, <1>6 DEF HasSpareLock

----------------------------------------------------------------------------
(* The cached account lists.                                               *)

\* Slot k waits for lock l, or reads under it.
Waits(k, l) == co[k].pc = "waiting" /\ co[k].lock = l
Reads(k, l) == co[k].pc = "reading" /\ co[k].lock = l

\* The table of lists.
TableOK ==
    /\ cached \in Seq(Customer) /\ IsInjective(cached)
    /\ rows \in [Customer -> RowCount \cup {0}]
    /\ age \in [Customer -> {"none", "fresh", "stale", "expired"}]
    /\ \A c \in Customer : age[c] = "none" <=> c \notin ToSet(cached)
    /\ OverBudgetOnlyBehindEmptyEntry

\* The queue and the holder of each lock are who waits and who reads.
LocksOK ==
    /\ holder \in [Lock -> Coroutine \cup {NoOne}]
    /\ waiters \in [Lock -> Seq(Coroutine)]
    /\ \A l \in Lock :
          /\ IsInjective(waiters[l])
          /\ \A k \in Coroutine : (k \in ToSet(waiters[l]) <=> Waits(k, l))
                                  /\ (k = holder[l] <=> Reads(k, l))

\* A coroutine refers to a lock while it waits for it or reads under it.
SlotOK(t) ==
    /\ t \in Progress
    /\ t.lock \in Lock <=> t.pc \in {"waiting", "reading"}
    /\ t.pc \in {"created", "done"} => t.background

\* Every slot.
SlotsOK ==
    /\ co \in [Coroutine -> Progress]
    /\ \A k \in Coroutine : SlotOK(co[k])

\* The table of tasks: each entry is a task of its customer, each task that has
\* not ended is an entry.
TasksOK ==
    /\ task \in [Customer -> Coroutine \cup {NoOne}]
    /\ \A c \in Customer : task[c] # NoOne =>
          co[task[c]].customer = c /\ co[task[c]].background
    /\ RefreshIsReferenced

\* The inductive invariant.
Inv ==
    /\ TableOK /\ LocksOK /\ SlotsOK /\ TasksOK
    /\ lockOf \in [Customer -> Lock \cup {NoLock}]

\* The parts of Inv make up TypeOK.
LEMMA TypesLemma == Inv => TypeOK
  <1> SUFFICES ASSUME Inv PROVE TypeOK
    OBVIOUS
  <1>1. ASSUME NEW l \in Lock
        PROVE  /\ IsInjective(waiters[l])
               /\ ToSet(waiters[l]) = {k \in At("waiting") : co[k].lock = l}
               /\ {k \in At("reading") : co[k].lock = l} = {holder[l]} \ {NoOne}
    <2>1. /\ IsInjective(waiters[l]) /\ waiters[l] \in Seq(Coroutine)
          /\ holder[l] \in Coroutine \cup {NoOne}
          /\ \A k \in Coroutine : (k \in ToSet(waiters[l]) <=> Waits(k, l))
                                  /\ (k = holder[l] <=> Reads(k, l))
      BY DEF Inv, LocksOK
    <2>2. ToSet(waiters[l]) \subseteq Coroutine
      BY <2>1 DEF ToSet
    <2> QED
      BY <2>1, <2>2, CacheAssumption DEF At, Waits, Reads
  <1> QED
    BY <1>1 DEF Inv, TableOK, LocksOK, SlotsOK, TasksOK, TypeOK

\* There is a lock object to spare.
LEMMA NewLockLemma ==
  ASSUME Inv
  PROVE  /\ NewLock \in Lock /\ NewLock \notin Range(lockOf)
         /\ \A k \in Coroutine : co[k].lock # NewLock
  <1> DEFINE refer == [k \in Coroutine |-> co[k].lock]
  <1>1. refer \in [Coroutine -> {co[k].lock : k \in Coroutine}]
    OBVIOUS
  <1>2. lockOf \in [Customer -> Lock \cup {NoLock}]
    BY DEF Inv
  <1>3. \E l \in Lock : l \notin Range(lockOf) /\ \A k \in Coroutine : refer[k] # l
    <2> HIDE DEF refer
    <2>1. HasSpareLock(lockOf, refer)
      BY <1>1, <1>2, SpareLockLemma
    <2> QED
      BY <2>1 DEF HasSpareLock
  <1>4. \E l \in Lock : l \notin Range(lockOf) /\ \A k \in Coroutine : co[k].lock # l
    BY <1>3
  <1> HIDE DEF refer
  <1> QED
    BY <1>4 DEF NewLock

----------------------------------------------------------------------------
(* The parts a step of one slot can disturb.                               *)

\* Slot k goes to state t.
Moves(k, t) == SlotOK(t) /\ co' = [co EXCEPT ![k] = t]

\* What a step of slot k leaves alone.
LEMMA MovesLemma ==
  ASSUME SlotsOK, NEW k \in Coroutine, NEW t, Moves(k, t)
  PROVE  /\ SlotsOK'
         /\ co'[k] = t /\ \A j \in Coroutine \ {k} : co'[j] = co[j]
  BY DEF SlotsOK, SlotOK, Moves

\* Slot k is in a queue, or holds a lock, as its state t says; the others are
\* where they were.
LocksFollow(k, t) ==
    /\ holder' \in [Lock -> Coroutine \cup {NoOne}]
    /\ waiters' \in [Lock -> Seq(Coroutine)]
    /\ \A l \in Lock :
          /\ IsInjective(waiters'[l])
          /\ \A j \in Coroutine \ {k} : /\ j \in ToSet(waiters'[l]) <=> j \in ToSet(waiters[l])
                                        /\ j = holder'[l] <=> j = holder[l]
          /\ k \in ToSet(waiters'[l]) <=> t.pc = "waiting" /\ t.lock = l
          /\ k = holder'[l] <=> t.pc = "reading" /\ t.lock = l

\* The queue and the holder of every lock follow what k does.
LEMMA LocksLemma ==
  ASSUME Inv, NEW k \in Coroutine, NEW t, Moves(k, t), LocksFollow(k, t)
  PROVE  LocksOK'
  <1>1. co'[k] = t /\ \A j \in Coroutine \ {k} : co'[j] = co[j]
    BY MovesLemma DEF Inv
  <1>2. ASSUME NEW l \in Lock, NEW j \in Coroutine
        PROVE  (j \in ToSet(waiters'[l]) <=> Waits(j, l)') /\ (j = holder'[l] <=> Reads(j, l)')
    <2>1. CASE j = k
      BY <1>1, <2>1 DEF LocksFollow, Waits, Reads
    <2>2. CASE j # k
      <3>1. (j \in ToSet(waiters[l]) <=> Waits(j, l)) /\ (j = holder[l] <=> Reads(j, l))
        BY DEF Inv, LocksOK
      <3> QED
        BY <1>1, <2>2, <3>1 DEF LocksFollow, Waits, Reads
    <2> QED
      BY <2>1, <2>2
  <1> QED
    BY <1>2 DEF LocksFollow, LocksOK

\* A task keeps its place in the table until it ends.
LEMMA TasksLemma ==
  ASSUME Inv, NEW k \in Coroutine, NEW t, Moves(k, t), task' = task,
         t.background <=> co[k].background,
         t.background => t.customer = co[k].customer,
         t.background /\ t.pc # "done" => co[k].pc # "done"
  PROVE  TasksOK'
  <1>1. co'[k] = t /\ \A j \in Coroutine \ {k} : co'[j] = co[j]
    BY MovesLemma DEF Inv
  <1>2. \A c \in Customer : task[c] # NoOne => task[c] \in Coroutine
    BY DEF Inv, TasksOK
  <1> QED
    BY <1>1, <1>2 DEF Inv, TasksOK, RefreshIsReferenced

\* The lists do not change.
LEMMA TableLemma ==
  ASSUME TableOK, UNCHANGED <<cached, rows, age>>
  PROVE  TableOK'
  BY DEF TableOK, OverBudgetOnlyBehindEmptyEntry

\* The state of a slot.
LEMMA SlotLemma ==
  ASSUME Inv, NEW k \in Coroutine
  PROVE  /\ co[k] \in Progress /\ SlotOK(co[k])
         /\ co[k].pc # "idle" => co[k].customer \in Customer
         /\ co[k].pc \in {"waiting", "reading"} => co[k].lock \in Lock
         /\ co[k].pc = "idle" => co[k].background = FALSE
         /\ co[k].background \in BOOLEAN
  <1>1. co[k] \in Progress /\ SlotOK(co[k])
    BY DEF Inv, SlotsOK
  <1>2. CASE co[k] = Idle
    BY <1>1, <1>2 DEF Idle
  <1>3. CASE co[k] \in [pc: {"created", "waiting", "reading", "done"}, customer: Customer,
                       lock: Lock \cup {NoLock}, background: BOOLEAN]
    BY <1>1, <1>3 DEF SlotOK
  <1> QED
    BY <1>1, <1>2, <1>3 DEF Progress

----------------------------------------------------------------------------
(* Requests and tasks.                                                     *)

\* A request that returns frees its slot, a task is left to its callback.
LEMMA ReturnedLemma ==
  ASSUME Inv, NEW k \in Coroutine, NEW background \in BOOLEAN, NEW c \in Customer,
         co' = Returned(k, background, c)
  PROVE  \E t : /\ Moves(k, t) /\ t.background = background
                /\ background => t.customer = c /\ t.pc = "done"
                /\ t.pc \in {"idle", "done"}
  <1> DEFINE t == IF background THEN TaskState("done", c) ELSE Idle
  <1>1. NoLock \notin Lock
    BY CacheAssumption
  <1>2. SlotOK(t)
    BY <1>1 DEF SlotOK, TaskState, Idle, Progress
  <1>3. /\ t.background = background /\ t.pc \in {"idle", "done"}
        /\ background => t.customer = c /\ t.pc = "done"
    BY DEF TaskState, Idle
  <1>4. co' = [co EXCEPT ![k] = t]
    BY DEF Returned
  <1> HIDE DEF t
  <1> QED
    BY <1>2, <1>3, <1>4 DEF Moves

\* A coroutine queues for the lock of its customer, takes it, or finds the list
\* fresh under it.
LEMMA EnterReadLemma ==
  ASSUME Inv, NEW k \in Coroutine, NEW c \in Customer, NEW background \in BOOLEAN,
         co[k].pc \in {"idle", "created"}, background = co[k].background,
         background => co[k].customer = c,
         EnterRead(k, c, background), UNCHANGED <<cached, rows, age, task>>
  PROVE  Inv'
  <1> DEFINE l == LockFor(c)
             at(pc) == [pc |-> pc, customer |-> c, lock |-> l, background |-> background]
  <1>1. l \in Lock
    BY NewLockLemma DEF LockFor, Inv
  <1>2. \A m \in Lock : k \notin ToSet(waiters[m]) /\ k # holder[m]
    BY DEF Inv, LocksOK, Waits, Reads
  <1>3. /\ lockOf' = [lockOf EXCEPT ![c] = l]
        /\ \/ /\ holder[l] # NoOne
              /\ waiters' = [waiters EXCEPT ![l] = Append(@, k)]
              /\ co' = [co EXCEPT ![k] = at("waiting")]
              /\ UNCHANGED holder
           \/ /\ holder[l] = NoOne
              /\ co' = Returned(k, background, c)
              /\ UNCHANGED <<holder, waiters>>
           \/ /\ holder[l] = NoOne
              /\ co' = [co EXCEPT ![k] = at("reading")]
              /\ holder' = [holder EXCEPT ![l] = k]
              /\ UNCHANGED waiters
    BY DEF EnterRead
  <1>4. \A pc \in {"waiting", "reading"} :
           SlotOK(at(pc)) /\ at(pc).pc = pc /\ at(pc).lock = l
           /\ at(pc).background = background /\ at(pc).customer = c
    BY <1>1 DEF SlotOK, Progress
  <1>5. /\ holder \in [Lock -> Coroutine \cup {NoOne}]
        /\ waiters \in [Lock -> Seq(Coroutine)]
        /\ \A m \in Lock : IsInjective(waiters[m])
        /\ lockOf \in [Customer -> Lock \cup {NoLock}]
    BY DEF Inv, LocksOK
  <1>6. TableOK' /\ task' = task /\ lockOf' \in [Customer -> Lock \cup {NoLock}]
    BY <1>1, <1>3, <1>5, TableLemma DEF Inv
  <1> HIDE DEF l, at
  <1>7. CASE /\ holder[l] # NoOne
             /\ waiters' = [waiters EXCEPT ![l] = Append(@, k)]
             /\ co' = [co EXCEPT ![k] = at("waiting")]
             /\ UNCHANGED holder
    <2>1. Moves(k, at("waiting"))
      BY <1>4, <1>7 DEF Moves
    <2>2. /\ Append(waiters[l], k) \in Seq(Coroutine) /\ IsInjective(Append(waiters[l], k))
          /\ ToSet(Append(waiters[l], k)) = ToSet(waiters[l]) \cup {k}
      BY <1>1, <1>2, <1>5, AppendLemma
    <2>3. /\ waiters' \in [Lock -> Seq(Coroutine)]
          /\ waiters'[l] = Append(waiters[l], k)
          /\ \A m \in Lock \ {l} : waiters'[m] = waiters[m]
      BY <1>1, <1>5, <1>7, <2>2
    <2>4. PICK t : /\ Moves(k, t) /\ t.pc = "waiting" /\ t.lock = l
                   /\ t.background = background /\ t.customer = c
      BY <1>4, <2>1
    <2>5. \A m \in Lock :
            /\ IsInjective(waiters'[m])
            /\ \A j \in Coroutine \ {k} : j \in ToSet(waiters'[m]) <=> j \in ToSet(waiters[m])
            /\ k \in ToSet(waiters'[m]) <=> l = m
      BY <1>2, <1>5, <2>2, <2>3
    <2>6. LocksOK'
      <3>1. LocksFollow(k, t)
        BY <1>2, <1>5, <1>7, <2>3, <2>4, <2>5 DEF LocksFollow
      <3> QED
        BY <2>4, <3>1, LocksLemma
    <2> QED
      BY <1>6, <2>4, <2>6, MovesLemma, TasksLemma DEF Inv
  <1>8. CASE /\ holder[l] = NoOne
             /\ co' = Returned(k, background, c)
             /\ UNCHANGED <<holder, waiters>>
    <2>1. PICK t : /\ Moves(k, t) /\ t.background = background
                   /\ background => t.customer = c /\ t.pc = "done"
                   /\ t.pc \in {"idle", "done"}
      BY <1>8, ReturnedLemma
    <2>2. LocksOK'
      <3>1. LocksFollow(k, t)
        BY <1>2, <1>5, <1>8, <2>1 DEF LocksFollow
      <3> QED
        BY <2>1, <3>1, LocksLemma
    <2> QED
      BY <1>6, <2>1, <2>2, MovesLemma, TasksLemma DEF Inv
  <1>9. CASE /\ holder[l] = NoOne
             /\ co' = [co EXCEPT ![k] = at("reading")]
             /\ holder' = [holder EXCEPT ![l] = k]
             /\ UNCHANGED waiters
    <2>1. Moves(k, at("reading"))
      BY <1>4, <1>9 DEF Moves
    <2>2. /\ holder' \in [Lock -> Coroutine \cup {NoOne}]
          /\ holder'[l] = k /\ holder[l] \notin Coroutine
          /\ \A m \in Lock \ {l} : holder'[m] = holder[m]
      BY <1>1, <1>5, <1>9, CacheAssumption
    <2>3. LocksOK'
      <3>1. LocksFollow(k, at("reading"))
        BY <1>1, <1>2, <1>4, <1>5, <1>9, <2>2 DEF LocksFollow
      <3> QED
        BY <2>1, <3>1, LocksLemma
    <2> QED
      BY <1>4, <1>6, <2>1, <2>3, MovesLemma, TasksLemma DEF Inv
  <1> QED
    BY <1>3, <1>7, <1>8, <1>9

\* A request finds no list that can be served.
LEMMA MissLemma ==
  ASSUME Inv, NEW k \in Coroutine, NEW c \in Customer, Miss(k, c)
  PROVE  Inv'
  <1>1. /\ co[k].pc = "idle" /\ co[k].background = FALSE /\ EnterRead(k, c, FALSE)
        /\ UNCHANGED <<cached, rows, age, task>>
    BY SlotLemma DEF Miss
  <1> QED
    BY <1>1, EnterReadLemma

\* A refresh task runs for the first time.
LEMMA TaskStartsLemma ==
  ASSUME Inv, NEW k \in Coroutine, TaskStarts(k)
  PROVE  Inv'
  <1>1. co[k].pc = "created" /\ co[k].background = TRUE /\ co[k].customer \in Customer
    BY SlotLemma DEF TaskStarts, SlotOK, Progress, Idle
  <1> QED
    BY <1>1, EnterReadLemma DEF TaskStarts

\* A new task replaces only one that has ended.
LEMMA StaleHitLemma ==
  ASSUME Inv, NEW k \in Coroutine, NEW c \in Customer, StaleHit(k, c)
  PROVE  Inv'
  <1> DEFINE t == TaskState("created", c)
  <1>1. /\ co[k].pc = "idle" /\ ~co[k].background
        /\ task' = [task EXCEPT ![c] = k]
        /\ UNCHANGED <<cached, rows, age, lockOf, holder, waiters>>
    BY SlotLemma DEF StaleHit
  <1>2. /\ Moves(k, t) /\ t.pc = "created" /\ t.customer = c /\ t.background
    BY CacheAssumption DEF StaleHit, Moves, SlotOK, Progress, TaskState
  <1>3. co'[k] = t /\ \A j \in Coroutine \ {k} : co'[j] = co[j]
    BY <1>2, MovesLemma DEF Inv
  <1> HIDE DEF t
  <1>4. \A m \in Lock : k \notin ToSet(waiters[m]) /\ k # holder[m]
    BY <1>1 DEF Inv, LocksOK, Waits, Reads
  <1>5. LocksOK'
    <2>1. /\ holder \in [Lock -> Coroutine \cup {NoOne}] /\ waiters \in [Lock -> Seq(Coroutine)]
          /\ \A m \in Lock : IsInjective(waiters[m])
      BY DEF Inv, LocksOK
    <2>2. LocksFollow(k, t)
      BY <1>1, <1>2, <1>4, <2>1 DEF LocksFollow
    <2> QED
      BY <1>2, <2>2, LocksLemma
  <1>6. TasksOK'
    <2>1. /\ task \in [Customer -> Coroutine \cup {NoOne}] /\ task' = [task EXCEPT ![c] = k]
          /\ task' \in [Customer -> Coroutine \cup {NoOne}]
      BY <1>1 DEF Inv, TasksOK
    <2>2. \A d \in Customer : task'[d] # NoOne =>
             co'[task'[d]].customer = d /\ co'[task'[d]].background
      BY <1>1, <1>2, <1>3, <2>1 DEF Inv, TasksOK
    <2>3. ASSUME NEW j \in Coroutine, co'[j].background, co'[j].pc # "done"
          PROVE  task'[co'[j].customer] = j
      <3>1. CASE j = k
        BY <1>2, <1>3, <2>1, <3>1
      <3>2. CASE j # k
        <4>1. co[j].background /\ co[j].pc # "done" /\ task[co[j].customer] = j
          BY <1>3, <2>3, <3>2 DEF Inv, TasksOK, RefreshIsReferenced
        <4>2. co[j].customer # c
          BY <4>1 DEF StaleHit, RefreshRunning
        <4> QED
          BY <1>3, <2>1, <3>2, <4>1, <4>2
      <3> QED
        BY <3>1, <3>2
    <2> QED
      BY <2>1, <2>2, <2>3 DEF TasksOK, RefreshIsReferenced
  <1> QED
    BY <1>1, <1>2, <1>5, <1>6, MovesLemma, TableLemma DEF Inv

\* The callback of a task removes that task from the table, and no other.
LEMMA ForgottenLemma ==
  ASSUME Inv, NEW k \in Coroutine, Forgotten(k)
  PROVE  Inv'
  <1> DEFINE c == co[k].customer
  <1>1. /\ co[k].pc = "done" /\ co[k].background /\ c \in Customer
        /\ task' = IF task[c] = k THEN [task EXCEPT ![c] = NoOne] ELSE task
        /\ UNCHANGED <<cached, rows, age, lockOf, holder, waiters>>
    BY SlotLemma DEF Forgotten, SlotOK
  <1>2. Moves(k, Idle) /\ Idle.pc = "idle" /\ ~Idle.background
    BY CacheAssumption DEF Forgotten, Moves, SlotOK, Progress, Idle
  <1>3. co'[k] = Idle /\ \A j \in Coroutine \ {k} : co'[j] = co[j]
    BY <1>2, MovesLemma DEF Inv
  <1>4. \A m \in Lock : k \notin ToSet(waiters[m]) /\ k # holder[m]
    BY <1>1 DEF Inv, LocksOK, Waits, Reads
  <1>5. LocksOK'
    <2>1. /\ holder \in [Lock -> Coroutine \cup {NoOne}] /\ waiters \in [Lock -> Seq(Coroutine)]
          /\ \A m \in Lock : IsInjective(waiters[m])
      BY DEF Inv, LocksOK
    <2>2. LocksFollow(k, Idle)
      BY <1>1, <1>2, <1>4, <2>1 DEF LocksFollow
    <2> QED
      BY <1>2, <2>2, LocksLemma
  <1>6. TasksOK'
    <2>1. /\ task \in [Customer -> Coroutine \cup {NoOne}]
          /\ \A d \in Customer : task[d] # NoOne => co[task[d]].customer = d
                                                  /\ co[task[d]].background
      BY DEF Inv, TasksOK
    <2>2. /\ task' \in [Customer -> Coroutine \cup {NoOne}]
          /\ \A d \in Customer : task'[d] # k
          /\ \A d \in Customer : task[d] # k => task'[d] = task[d]
          /\ \A d \in Customer : task'[d] # NoOne => task'[d] = task[d]
      BY <1>1, <2>1, CacheAssumption
    <2>3. \A j \in Coroutine : co'[j].background /\ co'[j].pc # "done" =>
             /\ j # k /\ task[co[j].customer] = j /\ co[j].customer \in Customer
      BY <1>2, <1>3, SlotLemma DEF Inv, TasksOK, RefreshIsReferenced
    <2> QED
      BY <1>3, <2>1, <2>2, <2>3 DEF TasksOK, RefreshIsReferenced
  <1> QED
    BY <1>1, <1>2, <1>5, <1>6, MovesLemma, TableLemma DEF Inv

\* The end of a read, whatever came of it, frees the lock.
LEMMA ReleaseLemma ==
  ASSUME Inv, NEW k \in Coroutine, co[k].pc = "reading",
         holder' = [holder EXCEPT ![co[k].lock] = NoOne],
         co' = Returned(k, co[k].background, co[k].customer),
         UNCHANGED <<waiters, task>>
  PROVE  LocksOK' /\ SlotsOK' /\ TasksOK'
  <1> DEFINE l == co[k].lock
  <1>1. /\ l \in Lock /\ co[k].customer \in Customer /\ co[k].background \in BOOLEAN
        /\ holder[l] = k /\ \A m \in Lock : k \notin ToSet(waiters[m])
        /\ \A m \in Lock \ {l} : k # holder[m]
    <2>1. l \in Lock /\ co[k].customer \in Customer /\ co[k].background \in BOOLEAN
      BY SlotLemma
    <2>2. \A m \in Lock : ~Waits(k, m) /\ (Reads(k, m) <=> m = l)
      BY DEF Waits, Reads
    <2> QED
      BY <2>1, <2>2 DEF Inv, LocksOK
  <1>2. PICK t : /\ Moves(k, t) /\ t.background = co[k].background
                 /\ t.background => t.customer = co[k].customer /\ t.pc = "done"
                 /\ t.pc \in {"idle", "done"}
    BY <1>1, ReturnedLemma
  <1>3. /\ holder' \in [Lock -> Coroutine \cup {NoOne}]
        /\ holder'[l] = NoOne /\ NoOne \notin Coroutine
        /\ \A m \in Lock \ {l} : holder'[m] = holder[m]
    BY <1>1, CacheAssumption DEF Inv, LocksOK
  <1>4. waiters \in [Lock -> Seq(Coroutine)] /\ \A m \in Lock : IsInjective(waiters[m])
    BY DEF Inv, LocksOK
  <1>5. LocksOK'
    <2>1. \A m \in Lock, j \in Coroutine \ {k} : j = holder'[m] <=> j = holder[m]
      BY <1>1, <1>3
    <2>2. \A m \in Lock : k # holder'[m]
      BY <1>1, <1>3
    <2>3. LocksFollow(k, t)
      BY <1>1, <1>2, <1>3, <1>4, <2>1, <2>2 DEF LocksFollow
    <2> QED
      BY <1>2, <2>3, LocksLemma
  <1> QED
    BY <1>1, <1>2, <1>5, MovesLemma, TasksLemma DEF Inv

\* A read fails or is cancelled.
LEMMA ReadFailedLemma ==
  ASSUME Inv, NEW k \in Coroutine, ReadFailed(k)
  PROVE  Inv'
  BY ReleaseLemma, TableLemma DEF ReadFailed, Inv

\* The first waiter runs after the lock was freed.
LEMMA ResumeLemma ==
  ASSUME Inv, NEW k \in Coroutine, Resume(k)
  PROVE  Inv'
  <1> DEFINE l == co[k].lock
             c == co[k].customer
  <1>1. /\ co[k].pc = "waiting" /\ holder[l] = NoOne /\ Head(waiters[l]) = k
        /\ waiters' = [waiters EXCEPT ![l] = Tail(@)]
        /\ UNCHANGED <<cached, rows, age, lockOf, task>>
        /\ l \in Lock /\ c \in Customer /\ co[k].background \in BOOLEAN
    BY SlotLemma DEF Resume
  <1>2. /\ waiters \in [Lock -> Seq(Coroutine)] /\ holder \in [Lock -> Coroutine \cup {NoOne}]
        /\ \A m \in Lock : IsInjective(waiters[m]) /\ k # holder[m]
        /\ \A m \in Lock : k \in ToSet(waiters[m]) <=> m = l
        /\ NoOne \notin Coroutine
    BY <1>1, CacheAssumption DEF Inv, LocksOK, Waits, Reads
  <1>3. waiters[l] # <<>>
    BY <1>1, <1>2 DEF ToSet
  <1>4. /\ Tail(waiters[l]) \in Seq(Coroutine) /\ IsInjective(Tail(waiters[l]))
        /\ ToSet(Tail(waiters[l])) = ToSet(waiters[l]) \ {k}
    BY <1>1, <1>2, <1>3, TailLemma
  <1>5. /\ waiters' \in [Lock -> Seq(Coroutine)]
        /\ \A m \in Lock :
              /\ IsInjective(waiters'[m]) /\ k \notin ToSet(waiters'[m])
              /\ \A j \in Coroutine \ {k} : j \in ToSet(waiters'[m]) <=> j \in ToSet(waiters[m])
    BY <1>1, <1>2, <1>4
  <1>6. CASE co' = Returned(k, co[k].background, c) /\ UNCHANGED holder
    <2>1. PICK t : /\ Moves(k, t) /\ t.background = co[k].background
                   /\ t.background => t.customer = c /\ t.pc = "done"
                   /\ t.pc \in {"idle", "done"}
      BY <1>1, <1>6, ReturnedLemma
    <2>2. LocksOK'
      <3>1. LocksFollow(k, t)
        BY <1>2, <1>5, <1>6, <2>1 DEF LocksFollow
      <3> QED
        BY <2>1, <3>1, LocksLemma
    <2> QED
      BY <1>1, <2>1, <2>2, MovesLemma, TasksLemma, TableLemma DEF Inv
  <1>7. CASE co' = [co EXCEPT ![k].pc = "reading"] /\ holder' = [holder EXCEPT ![l] = k]
    <2>1. PICK t : /\ Moves(k, t) /\ t.background = co[k].background
                   /\ t.customer = c /\ t.pc = "reading" /\ t.lock = l
      <3> DEFINE t == [pc |-> "reading", customer |-> c, lock |-> l,
                       background |-> co[k].background]
      <3>1. co' = [co EXCEPT ![k] = t]
        <4>1. co[k] \in [pc: {"created", "waiting", "reading", "done"}, customer: Customer,
                         lock: Lock \cup {NoLock}, background: BOOLEAN]
          BY <1>1, SlotLemma DEF Progress, Idle
        <4>2. [co[k] EXCEPT !.pc = "reading"] = t
          BY <4>1
        <4> QED
          BY <1>7, <4>2
      <3>2. SlotOK(t) /\ t.background = co[k].background
            /\ t.customer = c /\ t.pc = "reading" /\ t.lock = l
        BY <1>1 DEF SlotOK, Progress
      <3> HIDE DEF t
      <3> QED
        BY <3>1, <3>2 DEF Moves
    <2>2. /\ holder' \in [Lock -> Coroutine \cup {NoOne}]
          /\ \A m \in Lock : k = holder'[m] <=> m = l
          /\ \A m \in Lock, j \in Coroutine \ {k} : j = holder'[m] <=> j = holder[m]
      BY <1>1, <1>2, <1>7
    <2>3. LocksOK'
      <3>1. LocksFollow(k, t)
        BY <1>2, <1>5, <2>1, <2>2 DEF LocksFollow
      <3> QED
        BY <2>1, <3>1, LocksLemma
    <2> QED
      BY <1>1, <2>1, <2>3, MovesLemma, TasksLemma, TableLemma DEF Inv
  <1> QED
    BY <1>6, <1>7 DEF Resume

\* A request that waits is cancelled and leaves the queue.
LEMMA CancelledLemma ==
  ASSUME Inv, NEW k \in Coroutine, Cancelled(k)
  PROVE  Inv'
  <1> DEFINE l == co[k].lock
  <1>1. /\ co[k].pc = "waiting" /\ ~co[k].background
        /\ waiters' = [waiters EXCEPT ![l] = RemoveFirst(@, k)]
        /\ co' = [co EXCEPT ![k] = Idle]
        /\ UNCHANGED <<cached, rows, age, lockOf, holder, task>>
        /\ l \in Lock
    BY SlotLemma DEF Cancelled
  <1>2. /\ waiters \in [Lock -> Seq(Coroutine)] /\ holder \in [Lock -> Coroutine \cup {NoOne}]
        /\ \A m \in Lock : IsInjective(waiters[m]) /\ k # holder[m]
        /\ \A m \in Lock : k \in ToSet(waiters[m]) <=> m = l
    BY <1>1 DEF Inv, LocksOK, Waits, Reads
  <1>3. /\ RemoveFirst(waiters[l], k) \in Seq(Coroutine)
        /\ IsInjective(RemoveFirst(waiters[l], k))
        /\ ToSet(RemoveFirst(waiters[l], k)) = ToSet(waiters[l]) \ {k}
    BY <1>1, <1>2, RemoveFirstLemma
  <1>4. /\ waiters' \in [Lock -> Seq(Coroutine)]
        /\ \A m \in Lock :
              /\ IsInjective(waiters'[m]) /\ k \notin ToSet(waiters'[m])
              /\ \A j \in Coroutine \ {k} : j \in ToSet(waiters'[m]) <=> j \in ToSet(waiters[m])
    BY <1>1, <1>2, <1>3
  <1>5. Moves(k, Idle) /\ Idle.pc = "idle" /\ ~Idle.background
    BY <1>1, CacheAssumption DEF Moves, SlotOK, Progress, Idle
  <1>6. LocksOK'
    <2>1. LocksFollow(k, Idle)
      BY <1>1, <1>2, <1>4, <1>5 DEF LocksFollow
    <2> QED
      BY <1>5, <2>1, LocksLemma
  <1> QED
    BY <1>1, <1>5, <1>6, MovesLemma, TasksLemma, TableLemma DEF Inv

\* An entry grows older.
LEMMA AgesLemma ==
  ASSUME Inv, NEW i \in DOMAIN cached, Ages(i)
  PROVE  Inv'
  <1>1. cached[i] \in Customer /\ cached[i] \in ToSet(cached)
    BY DEF Inv, TableOK, ToSet
  <1>2. TableOK'
    BY <1>1 DEF Ages, Inv, TableOK, OverBudgetOnlyBehindEmptyEntry
  <1> QED
    BY <1>2 DEF Ages, Inv, LocksOK, SlotsOK, TasksOK, RefreshIsReferenced, Waits, Reads

----------------------------------------------------------------------------
(* Storing a list.                                                         *)

\* Where the eviction stops.
Stops(order, count, d) ==
    \/ ~(TotalRows(SubSeq(order, d + 1, Len(order)), count) > MaxRows)
    \/ d + 1 = Len(order)
    \/ count[order[d + 1]] = 0

\* A set of numbers has a least element.
LEMMA MinLemma ==
  ASSUME NEW S \in SUBSET Nat, S # {}
  PROVE  Min(S) \in S
  <1> DEFINE R == OpToRel(<, Nat)
  <1>1. IsWellFoundedOn(R, Nat)
    BY NatLessThanWellFounded
  <1>2. \A i, j \in Nat : i < j => <<i, j>> \in R
    BY DEF OpToRel
  <1> HIDE DEF R
  <1>3. \E i \in S : \A j \in S : ~(<<j, i>> \in R)
    BY <1>1, WFMin
  <1>4. \E i \in S : \A j \in S : i =< j
    <2>1. PICK i \in S : \A j \in S : ~(<<j, i>> \in R)
      BY <1>3
    <2>2. \A j \in S : j \in Nat /\ i \in Nat /\ ~(j < i)
      BY <1>2, <2>1
    <2> QED
      BY <2>2
  <1> QED
    BY <1>4 DEF Min

\* The eviction stops, at the latest before the entry just stored.
LEMMA DroppedLemma ==
  ASSUME NEW order \in Seq(Customer), order # <<>>, NEW count
  PROVE  /\ Dropped(order, count) \in 0..Len(order) - 1
         /\ Stops(order, count, Dropped(order, count))
  <1> DEFINE D == {d \in 0..Len(order) - 1 : Stops(order, count, d)}
  <1>1. Dropped(order, count) = Min(D)
    BY DEF Dropped, Stops
  <1>2. Len(order) - 1 \in D
    BY DEF Stops
  <1>3. D \subseteq Nat
    OBVIOUS
  <1> HIDE DEF D
  <1>4. Min(D) \in D
    BY <1>2, <1>3, MinLemma
  <1> QED
    BY <1>1, <1>4 DEF D

\* The total is of the entries, whatever is counted for the others.
LEMMA TotalLemma ==
  ASSUME NEW order, NEW f, NEW g, \A c \in ToSet(order) : f[c] = g[c]
  PROVE  TotalRows(order, f) = TotalRows(order, g)
  <1>1. Restrict(f, ToSet(order)) = Restrict(g, ToSet(order))
    BY DEF Restrict
  <1> QED
    BY <1>1 DEF TotalRows

\* The total of no entries: the fold, unrolled over the empty set.
LEMMA NoRowsLemma ==
  ASSUME NEW count
  PROVE  TotalRows(<<>>, count) = 0
  <1> DEFINE none == Restrict(count, ToSet(<<>>))
             iter[s \in SUBSET {}] ==
                 IF s = {} THEN 0
                 ELSE LET c == CHOOSE c \in s : TRUE
                      IN  none[c] + iter[s \ {c}]
  <1>1. DOMAIN none = {}
    BY DEF Restrict, ToSet
  <1> HIDE DEF none
  <1>2. TotalRows(<<>>, count) = iter[{}]
    BY <1>1 DEF none, TotalRows, FoldFunction, FoldFunctionOnSet, MapThenFoldSet
  <1>3. \E f : f = [s \in SUBSET {} |->
                      IF s = {} THEN 0
                      ELSE LET c == CHOOSE c \in s : TRUE
                           IN  none[c] + f[s \ {c}]]
    <2>1. [s \in SUBSET {} |-> 0] =
              [s \in SUBSET {} |->
                  IF s = {} THEN 0
                  ELSE LET c == CHOOSE c \in s : TRUE
                       IN  none[c] + ([r \in SUBSET {} |-> 0])[s \ {c}]]
      OBVIOUS
    <2> QED
      BY <2>1
  <1>4. iter = [s \in SUBSET {} |->
                   IF s = {} THEN 0
                   ELSE LET c == CHOOSE c \in s : TRUE
                        IN  none[c] + iter[s \ {c}]]
    BY <1>3 DEF iter
  <1>5. iter[{}] = 0
    <2> HIDE DEF iter
    <2> QED
      BY <1>4
  <1> QED
    BY <1>2, <1>5

\* A list is stored and the oldest entries are dropped.
LEMMA ReadDoneLemma ==
  ASSUME Inv, NEW k \in Coroutine, NEW n \in RowCount, ReadDone(k, n)
  PROVE  Inv'
  <1> DEFINE c == co[k].customer
             order == Append(RemoveFirst(cached, c), c)
             count == [rows EXCEPT ![c] = n]
             drop == Dropped(order, count)
             gone == ToSet(SubSeq(order, 1, drop))
             rest == SubSeq(order, drop + 1, Len(order))
  <1>1. /\ co[k].pc = "reading" /\ c \in Customer
        /\ cached' = rest
        /\ rows' = [d \in Customer |-> IF d \in gone THEN 0 ELSE count[d]]
        /\ age' = [d \in Customer |-> IF d = c THEN "fresh"
                                      ELSE IF d \in gone THEN "none" ELSE age[d]]
        /\ lockOf' = [d \in Customer |->
                        IF d \in gone /\ lockOf[d] # NoLock /\ holder[lockOf[d]] = NoOne
                        THEN NoLock ELSE lockOf[d]]
    BY SlotLemma DEF ReadDone
  <1>2. LocksOK' /\ SlotsOK' /\ TasksOK'
    BY ReleaseLemma DEF ReadDone
  <1>3. /\ order \in Seq(Customer) /\ IsInjective(order) /\ order # <<>>
        /\ ToSet(order) = ToSet(cached) \cup {c} /\ order[Len(order)] = c
    <2> DEFINE others == RemoveFirst(cached, c)
    <2>1. /\ others \in Seq(Customer) /\ IsInjective(others)
          /\ ToSet(others) = ToSet(cached) \ {c}
      BY RemoveFirstLemma DEF Inv, TableOK
    <2> HIDE DEF others
    <2>2. /\ Append(others, c) \in Seq(Customer) /\ IsInjective(Append(others, c))
          /\ Append(others, c) # <<>> /\ ToSet(Append(others, c)) = ToSet(others) \cup {c}
      BY <1>1, <2>1, AppendLemma
    <2>3. Append(others, c)[Len(Append(others, c))] = c
      BY <1>1, <2>1
    <2> QED
      BY <2>1, <2>2, <2>3 DEF others
  <1>4. count \in [Customer -> RowCount \cup {0}]
    BY DEF Inv, TableOK
  <1> HIDE DEF order, count
  <1>5. drop \in 0..Len(order) - 1 /\ Stops(order, count, drop)
    BY <1>3, DroppedLemma
  <1> HIDE DEF drop
  <1>6. /\ rest \in Seq(Customer) /\ IsInjective(rest) /\ rest # <<>>
        /\ Len(rest) = Len(order) - drop /\ Head(rest) = order[drop + 1]
        /\ ToSet(rest) = ToSet(order) \ gone /\ c \in ToSet(rest)
    BY <1>3, <1>5, CutLemma
  <1>7. \A d \in ToSet(rest) : rows'[d] = count[d]
    <2>1. ToSet(rest) \subseteq Customer
      <3> HIDE DEF rest
      <3>1. rest \in Seq(Customer)
        BY <1>6
      <3> QED
        BY <3>1 DEF ToSet
    <2> QED
      BY <1>1, <1>6, <2>1
  <1>8. OverBudgetOnlyBehindEmptyEntry'
    <2>1. TotalRows(rest, rows') = TotalRows(rest, count)
      BY <1>7, TotalLemma
    <2>2. Head(rest) \in ToSet(rest)
      <3> HIDE DEF rest
      <3>1. rest \in Seq(Customer) /\ rest # <<>>
        BY <1>6
      <3> QED
        BY <3>1 DEF ToSet
    <2>3. rows'[Head(rest)] = count[Head(rest)]
      BY <1>7, <2>2
    <2>4. SubSeq(order, drop + 1, Len(order)) = rest
      OBVIOUS
    <2> HIDE DEF rest
    <2>5. \/ ~(TotalRows(rest, count) > MaxRows) \/ Len(rest) = 1 \/ count[Head(rest)] = 0
      <3>1. CASE drop + 1 = Len(order)
        BY <1>3, <1>5, <1>6, <3>1
      <3>2. CASE count[order[drop + 1]] = 0
        BY <1>6, <3>2
      <3>3. CASE ~(TotalRows(SubSeq(order, drop + 1, Len(order)), count) > MaxRows)
        BY <2>4, <3>3, Zenon
      <3> QED
        BY <1>5, <3>1, <3>2, <3>3 DEF Stops
    <2>6. TotalRows(rest, rows') > MaxRows => Len(rest) = 1 \/ rows'[Head(rest)] = 0
      BY <2>1, <2>3, <2>5, Zenon
    <2> QED
      BY <1>1, <2>6 DEF OverBudgetOnlyBehindEmptyEntry
  <1> HIDE DEF rest, gone
  <1>9. TableOK'
    <2>1. \A d \in Customer : age'[d] = "none" <=> d \notin ToSet(rest)
      BY <1>1, <1>3, <1>6 DEF Inv, TableOK
    <2>2. /\ rows' \in [Customer -> RowCount \cup {0}]
          /\ age' \in [Customer -> {"none", "fresh", "stale", "expired"}]
      BY <1>1, <1>4 DEF Inv, TableOK
    <2> QED
      BY <1>1, <1>6, <1>8, <2>1, <2>2 DEF TableOK
  <1>10. lockOf' \in [Customer -> Lock \cup {NoLock}]
    BY <1>1 DEF Inv
  <1> QED
    BY <1>2, <1>9, <1>10 DEF Inv

----------------------------------------------------------------------------
(* Theorems.                                                               *)

\* The cache is empty at first.
LEMMA InitLemma == Init => Inv
  <1> SUFFICES ASSUME Init PROVE Inv
    OBVIOUS
  <1>1. <<>> \in Seq(Customer) /\ <<>> \in Seq(Coroutine)
        /\ ToSet(<<>>) = {} /\ IsInjective(<<>>)
    BY DEF ToSet, IsInjective
  <1>2. \A k \in Coroutine : SlotOK(co[k]) /\ co[k].pc = "idle" /\ ~co[k].background
    BY CacheAssumption DEF Init, Idle, SlotOK, Progress
  <1>3. OverBudgetOnlyBehindEmptyEntry
    <2>1. TotalRows(<<>>, rows) = 0
      BY NoRowsLemma
    <2>2. ~(0 > MaxRows)
      BY CacheAssumption
    <2> QED
      BY <2>1, <2>2, Zenon DEF Init, OverBudgetOnlyBehindEmptyEntry
  <1>4. TableOK
    BY <1>1, <1>3 DEF Init, TableOK
  <1>5. LocksOK
    BY <1>1, <1>2, CacheAssumption DEF Init, LocksOK, Waits, Reads
  <1>6. SlotsOK
    BY <1>2 DEF Init, SlotsOK, Progress
  <1>7. TasksOK
    BY <1>2 DEF Init, TasksOK, RefreshIsReferenced
  <1> QED
    BY <1>4, <1>5, <1>6, <1>7 DEF Init, Inv

\* Every step keeps the invariant.
LEMMA StepLemma == Inv /\ [Next]_vars => Inv'
  <1> SUFFICES ASSUME Inv, [Next]_vars PROVE Inv'
    OBVIOUS
  <1>1. CASE UNCHANGED vars
    BY <1>1 DEF vars, Inv, TableOK, LocksOK, SlotsOK, TasksOK, Waits, Reads,
                OverBudgetOnlyBehindEmptyEntry, RefreshIsReferenced
  <1>2. ASSUME NEW k \in Coroutine, Runs(k) PROVE Inv'
    BY <1>2, TaskStartsLemma, ResumeLemma, ReadFailedLemma, ForgottenLemma, ReadDoneLemma DEF Runs
  <1> QED
    BY <1>1, <1>2, CancelledLemma, MissLemma, StaleHitLemma, AgesLemma DEF Next

\* The inductive invariant holds in every interleaving of requests, tasks and their
\* callbacks.
THEOREM Invariance == Spec => []Inv
  BY InitLemma, StepLemma, PTL DEF Spec

\* Each lock has at most one coroutine inside, and its queue is of those who wait
\* for it; the task table refers to tasks of its customer
\* (_read_accounts_into_cache, _schedule_accounts_refresh).
THEOREM CacheTypes == Spec => []TypeOK
  BY TypesLemma, Invariance, PTL

\* A refresh task that has not ended is the one in the table, even when a task
\* ends, is replaced, and only then has its callback run (_forget_refresh_task).
THEOREM RefreshKeepsItsReference == Spec => []RefreshIsReferenced
  <1>1. Inv => RefreshIsReferenced
    BY DEF Inv, TasksOK
  <1> QED
    BY <1>1, Invariance, PTL

\* The lists exceed the row budget only by the one just stored, when it is alone or
\* has the rest behind an empty oldest entry (_evict_accounts_over_limit).
THEOREM BudgetIsKept == Spec => []OverBudgetOnlyBehindEmptyEntry
  <1>1. Inv => OverBudgetOnlyBehindEmptyEntry
    BY DEF Inv, TableOK
  <1> QED
    BY <1>1, Invariance, PTL

----------------------------------------------------------------------------
(* Single answers that are kept.                                           *)

\* The instance has its own copies of the community modules' operators.
LEMMA LookupsLibrary ==
  /\ \A s, i : Lookups!RemoveAt(s, i) = RemoveAt(s, i)
  /\ \A s : Lookups!ToSet(s) = ToSet(s)
  /\ \A T : Lookups!Cardinality(T) = Cardinality(T)
  BY DEF Lookups!RemoveAt, RemoveAt, Lookups!ToSet, ToSet, Lookups!Cardinality, Cardinality

\* A key has one entry at most.
Distinct(table) == \A i, j \in DOMAIN table : table[i].key = table[j].key => i = j

\* r is the table without the entry at p, and that is the entry of k.
Closes(table, r, k, p) ==
    /\ \A i \in 1..Len(table) : table[i].key = k <=> i = p
    /\ Len(r) = Len(table) - 1
    /\ \A i \in 1..Len(table) - 1 : r[i] = IF i < p THEN table[i] ELSE table[i + 1]

\* Taking out the entry of a key moves up those behind it.
LEMMA WithoutLemma ==
  ASSUME NEW S, NEW table \in Seq(S), Distinct(table), NEW k,
         NEW r, r = Lookups!Without(table, k)
  PROVE  /\ r \in Seq(S)
         /\ \/ r = table /\ \A i \in 1..Len(table) : table[i].key # k
            \/ \E p \in 1..Len(table) : Closes(table, r, k, p)
  <1>1. CASE \A i \in 1..Len(table) : table[i].key # k
    BY <1>1 DEF Lookups!Without
  <1>2. CASE \E i \in 1..Len(table) : table[i].key = k
    <2> DEFINE p == CHOOSE i \in DOMAIN table : table[i].key = k
    <2>1. p \in 1..Len(table) /\ table[p].key = k
      BY <1>2
    <2>2. r = RemoveAt(table, p)
      BY <1>2, LookupsLibrary DEF Lookups!Without
    <2> HIDE DEF p
    <2>3. \A i \in 1..Len(table) : table[i].key = k <=> i = p
      BY <2>1 DEF Distinct
    <2> QED
      BY <2>1, <2>2, <2>3, RemoveAtLemma DEF Closes
  <1> QED
    BY <1>1, <1>2

\* at says where the entries of new but its last were in the table, in the
\* order they were in.
Follows(table, new, e, at) ==
    /\ at \in [1..Len(new) - 1 -> 1..Len(table)]
    /\ \A m, n \in 1..Len(new) - 1 : m < n => at[m] < at[n]
    /\ \A n \in 1..Len(new) - 1 : new[n] = table[at[n]] /\ new[n].key # e.key
    /\ new # <<>> /\ new[Len(new)] = e

\* What an entry put in a table leaves of it: all but the entry of its key, or,
\* when the table is full of others, all but the first.
Leaves(table, new, e, at) ==
    /\ Follows(table, new, e, at)
    /\ \/ \A m \in 1..Len(table) :
             table[m].key # e.key => \E n \in 1..Len(new) - 1 : at[n] = m
       \/ /\ Len(new) = Lookups!Limit /\ Len(table) = Lookups!Limit
          /\ \A n \in 1..Len(new) - 1 : at[n] = n + 1

\* Putting an entry in takes out the one of its key, or the first one when the table
\* is full, and adds it at the end.
LEMMA PutLemma ==
  ASSUME NEW S, NEW table \in Seq(S), Distinct(table), NEW e \in S,
         Lookups!Limit \in Nat \ {0}, Len(table) <= Lookups!Limit,
         NEW new, new = Lookups!Put(table, e)
  PROVE  /\ new \in Seq(S) /\ Len(new) <= Lookups!Limit
         /\ \E at : Leaves(table, new, e, at)
  <1> DEFINE r == Lookups!Without(table, e.key)
             longer == Append(r, e)
  <1>1. /\ r \in Seq(S)
        /\ \/ r = table /\ \A i \in 1..Len(table) : table[i].key # e.key
           \/ \E p \in 1..Len(table) : Closes(table, r, e.key, p)
    BY WithoutLemma
  <1> HIDE DEF r
  <1>2. /\ longer \in Seq(S) /\ Len(longer) = Len(r) + 1 /\ longer[Len(r) + 1] = e
        /\ Len(r) \in Nat /\ Len(table) \in Nat
        /\ \A i \in 1..Len(r) : longer[i] = r[i]
    BY <1>1
  <1>3. new = IF Len(longer) > Lookups!Limit THEN Tail(longer) ELSE longer
    BY DEF Lookups!Put, r, longer
  <1> HIDE DEF longer
  <1>4. CASE r = table /\ (\A i \in 1..Len(table) : table[i].key # e.key)
       /\ Len(table) = Lookups!Limit
    <2> DEFINE at == [n \in 1..Len(new) - 1 |-> n + 1]
    <2>1. /\ new \in Seq(S) /\ Len(new) = Lookups!Limit /\ new[Len(new)] = e /\ new # <<>>
          /\ \A n \in 1..Len(new) - 1 : new[n] = table[n + 1]
      BY <1>2, <1>3, <1>4
    <2>2. Follows(table, new, e, at)
      BY <1>4, <2>1 DEF Follows
    <2>3. Len(new) = Lookups!Limit /\ Len(table) = Lookups!Limit
          /\ \A n \in 1..Len(new) - 1 : at[n] = n + 1
      BY <1>4, <2>1
    <2> HIDE DEF at
    <2>4. Leaves(table, new, e, at)
      BY <2>2, <2>3 DEF Leaves
    <2> QED
      BY <1>2, <2>1, <2>3, <2>4
  <1>5. CASE r = table /\ (\A i \in 1..Len(table) : table[i].key # e.key)
       /\ Len(table) < Lookups!Limit
    <2> DEFINE at == [n \in 1..Len(new) - 1 |-> n]
    <2>1. /\ new \in Seq(S) /\ Len(new) = Len(table) + 1 /\ new[Len(new)] = e /\ new # <<>>
          /\ \A n \in 1..Len(new) - 1 : new[n] = table[n]
      BY <1>2, <1>3, <1>5
    <2>2. Follows(table, new, e, at)
      BY <1>5, <2>1 DEF Follows
    <2>3. \A m \in 1..Len(table) : \E n \in 1..Len(new) - 1 : at[n] = m
      BY <2>1
    <2> HIDE DEF at
    <2>4. Leaves(table, new, e, at)
      BY <2>2, <2>3 DEF Leaves
    <2> QED
      BY <1>5, <2>1, <2>4
  <1>6. ASSUME NEW p \in 1..Len(table), Closes(table, r, e.key, p)
        PROVE  /\ new \in Seq(S) /\ Len(new) <= Lookups!Limit
               /\ \E at : Leaves(table, new, e, at)
    <2> DEFINE at == [n \in 1..Len(new) - 1 |-> IF n < p THEN n ELSE n + 1]
    <2>1. /\ new \in Seq(S) /\ Len(new) = Len(table) /\ new[Len(new)] = e /\ new # <<>>
          /\ \A n \in 1..Len(new) - 1 : new[n] = table[IF n < p THEN n ELSE n + 1]
      BY <1>2, <1>3, <1>6 DEF Closes
    <2>2. Follows(table, new, e, at)
      <3>1. at \in [1..Len(new) - 1 -> 1..Len(table)]
        BY <1>2, <2>1
      <3>2. \A n \in 1..Len(new) - 1 : new[n] = table[at[n]] /\ at[n] # p
        BY <1>2, <2>1
      <3>3. \A m, n \in 1..Len(new) - 1 : m < n => at[m] < at[n]
        BY <1>2, <2>1
      <3> HIDE DEF at
      <3>4. ASSUME NEW n \in 1..Len(new) - 1
            PROVE  new[n].key # e.key
        <4>1. at[n] \in 1..Len(table) /\ at[n] # p /\ new[n] = table[at[n]]
          BY <3>1, <3>2
        <4> QED
          BY <1>6, <4>1 DEF Closes
      <3> QED
        BY <2>1, <3>1, <3>2, <3>3, <3>4 DEF Follows
    <2>3. ASSUME NEW m \in 1..Len(table), table[m].key # e.key
          PROVE  \E n \in 1..Len(new) - 1 : at[n] = m
      <3>1. m # p
        BY <1>6, <2>3 DEF Closes
      <3>2. CASE m < p
        BY <1>2, <2>1, <3>2, m \in 1..Len(new) - 1, at[m] = m
      <3>3. CASE m > p
        BY <1>2, <2>1, <3>3, m - 1 \in 1..Len(new) - 1, at[m - 1] = m
      <3> QED
        BY <3>1, <3>2, <3>3
    <2> HIDE DEF at
    <2> QED
      BY <1>6, <2>1, <2>2, <2>3 DEF Leaves
  <1> QED
    BY <1>1, <1>2, <1>4, <1>5, <1>6

\* The entries of a table are in store order: the stalest one is the first.
StoreOrder(table) == \A i, j \in DOMAIN table : i < j => table[i].age >= table[j].age

\* An entry of now, put in, goes last; the others were there before, and what
\* went was as old as any of them.
Renewed(table, new, e) ==
    /\ new # <<>> /\ new[Len(new)] = e
    /\ \A n \in 1..Len(new) - 1 : \E m \in 1..Len(table) : new[n] = table[m]
    /\ \A m \in 1..Len(table) :
          \/ table[m].key = e.key
          \/ \E n \in 1..Len(new) - 1 : new[n] = table[m]
          \/ \A j \in 1..Len(table) : table[j].age <= table[m].age

\* A table stays in store order when an entry is put in.
LEMMA PutOrder ==
  ASSUME NEW S, NEW table \in Seq(S), Distinct(table), StoreOrder(table),
         NEW e \in S, e.age = 0, \A x \in S : x.age \in Nat,
         Lookups!Limit \in Nat \ {0}, Len(table) <= Lookups!Limit,
         NEW new, new = Lookups!Put(table, e)
  PROVE  /\ new \in Seq(S) /\ Len(new) <= Lookups!Limit
         /\ Distinct(new) /\ StoreOrder(new) /\ Renewed(table, new, e)
  <1>1. PICK at : Leaves(table, new, e, at)
    BY PutLemma
  <1>2. /\ new \in Seq(S) /\ Len(new) <= Lookups!Limit
        /\ \/ \A m \in 1..Len(table) :
                 table[m].key # e.key => \E n \in 1..Len(new) - 1 : at[n] = m
           \/ /\ Len(new) = Lookups!Limit /\ Len(table) = Lookups!Limit
              /\ \A n \in 1..Len(new) - 1 : at[n] = n + 1
    BY <1>1, PutLemma DEF Leaves
  <1>3. /\ at \in [1..Len(new) - 1 -> 1..Len(table)]
        /\ \A m, n \in 1..Len(new) - 1 : m < n => at[m] < at[n]
        /\ \A n \in 1..Len(new) - 1 : new[n] = table[at[n]] /\ new[n].key # e.key
        /\ new # <<>> /\ new[Len(new)] = e
    BY <1>1 DEF Leaves, Follows
  <1>4. Len(new) \in Nat \ {0} /\ Len(table) \in Nat /\ DOMAIN new = 1..Len(new)
        /\ DOMAIN table = 1..Len(table)
    BY <1>2, <1>3
  <1>5. Distinct(new)
    <2> SUFFICES ASSUME NEW i \in 1..Len(new), NEW j \in 1..Len(new), i < j, new[i].key = new[j].key
                 PROVE  FALSE
      BY <1>4 DEF Distinct
    <2>1. i \in 1..Len(new) - 1
      BY <1>4
    <2>2. j \in 1..Len(new) - 1
      BY <1>3, <1>4, <2>1
    <2>3. at[i] \in 1..Len(table) /\ at[j] \in 1..Len(table) /\ at[i] < at[j]
          /\ table[at[i]].key = table[at[j]].key
      BY <1>3, <2>1, <2>2
    <2> QED
      BY <1>4, <2>3 DEF Distinct
  <1>6. StoreOrder(new)
    <2> SUFFICES ASSUME NEW i \in 1..Len(new), NEW j \in 1..Len(new), i < j
                 PROVE  new[i].age >= new[j].age
      BY <1>4 DEF StoreOrder
    <2>1. i \in 1..Len(new) - 1 /\ new[i] \in S
      <3>1. new \in Seq(S) /\ Len(new) \in Nat
        BY <1>2, <1>4
      <3> QED
        BY <3>1
    <2>2. CASE j = Len(new)
      BY <1>3, <2>1, <2>2
    <2>3. CASE j # Len(new)
      <3>1. j \in 1..Len(new) - 1
        <4>1. Len(new) \in Nat
          BY <1>4
        <4> QED
          BY <2>3, <4>1
      <3>2. at[i] \in 1..Len(table) /\ at[j] \in 1..Len(table) /\ at[i] < at[j]
            /\ new[i] = table[at[i]] /\ new[j] = table[at[j]]
        BY <1>3, <2>1, <3>1
      <3> QED
        BY <1>4, <3>2 DEF StoreOrder
    <2> QED
      BY <2>2, <2>3
  <1>7. \A n \in 1..Len(new) - 1 : \E m \in 1..Len(table) : new[n] = table[m]
    BY <1>3
  <1>8. ASSUME NEW m \in 1..Len(table), table[m].key # e.key,
               \A n \in 1..Len(new) - 1 : new[n] # table[m],
               NEW j \in 1..Len(table)
        PROVE  table[j].age <= table[m].age
    <2>1. \A n \in 1..Len(new) - 1 : at[n] # m
      BY <1>3, <1>8
    <2>2. /\ Len(new) = Lookups!Limit /\ Len(table) = Lookups!Limit
          /\ \A n \in 1..Len(new) - 1 : at[n] = n + 1
      BY <1>2, <1>8, <2>1
    <2>3. m = 1
      <3> SUFFICES ASSUME m # 1 PROVE FALSE
        OBVIOUS
      <3>1. m - 1 \in 1..Len(new) - 1
        BY <1>4, <2>2
      <3> QED
        BY <2>1, <2>2, <3>1, m - 1 + 1 = m
    <2>4. table[j].age \in Nat /\ table[m].age \in Nat
      BY <1>8
    <2>5. CASE j = m
      BY <2>4, <2>5
    <2>6. CASE j # m
      <3>1. m < j
        BY <1>4, <2>3, <2>6
      <3>2. m \in DOMAIN table /\ j \in DOMAIN table
        BY <1>4
      <3> QED
        BY <3>1, <3>2 DEF StoreOrder
    <2> QED
      BY <2>5, <2>6
  <1> QED
    BY <1>2, <1>3, <1>5, <1>6, <1>7, <1>8 DEF Renewed

\* A set that holds the keys of a table is no smaller than the table.
LEMMA KeysLemma ==
  ASSUME NEW S, NEW table \in Seq(S), Distinct(table),
         NEW T, IsFiniteSet(T), \A i \in 1..Len(table) : table[i].key \in T
  PROVE  Cardinality(T) \in Nat /\ Len(table) <= Cardinality(T)
  <1> DEFINE f == [i \in 1..Len(table) |-> table[i].key]
  <1>1. f \in Injection(1..Len(table), T)
    <2>1. f \in [1..Len(table) -> T]
      OBVIOUS
    <2>2. \A i, j \in 1..Len(table) : f[i] = f[j] => i = j
      BY DEF Distinct
    <2> HIDE DEF f
    <2> QED
      BY <2>1, <2>2 DEF Injection, IsInjective
  <1>2. IsFiniteSet(1..Len(table)) /\ Cardinality(1..Len(table)) = Len(table)
    <2>1. 1 \in Int /\ Len(table) \in Nat
      OBVIOUS
    <2>2. /\ IsFiniteSet(1..Len(table))
          /\ Cardinality(1..Len(table)) = IF 1 > Len(table) THEN 0 ELSE Len(table) - 1 + 1
      BY <2>1, FS_Interval
    <2> QED
      BY <2>1, <2>2
  <1> HIDE DEF f
  <1>3. Cardinality(1..Len(table)) <= Cardinality(T)
    BY <1>1, FS_Injection
  <1> QED
    BY <1>2, <1>3, FS_CardinalityType

\* What the tables hold, and what a reader does.
Entry == [key: Lookups!Keys, age: Lookups!Time, seen: Lookups!Time, ok: BOOLEAN]
Failure == [key: Lookups!Keys, age: Lookups!Time]
Reading == [pc: {"asked", "answered"}, key: Lookups!Keys, seen: Lookups!Time,
     running: 0..ReadTimeout, last: Lookups!Time]

\* An answer is older than its entry by one read at most.
Recent == \A i \in DOMAIN entries : entries[i].ok => entries[i].seen <= entries[i].age + ReadTimeout

\* An answer on its way is no older than its read.
OnTime == \A r \in Coroutine : reader[r].pc = "answered" => reader[r].seen <= reader[r].running

\* Only the CRM address notes failures, and its last finished read was the one noted.
Backed ==
    /\ kind # "crm" => failed = <<>>
    /\ \A i \in DOMAIN failed :
          failed[i].age < RetryAfter => refusal[failed[i].key].age = failed[i].age

\* What a lookup falls back to is the entry of its key from before it began.
FallsBack(r, e) ==
    kind = "crm" /\ reader[r] # Lookups!Idle /\ reader[r].key = e.key /\ reader[r].running < e.age =>
       reader[r].last = e.seen
FallBacks == \A r \in Coroutine : \A i \in DOMAIN entries : FallsBack(r, entries[i])

\* The failures noted behind that of a customer are of others that failed since.
Noted(k) ==
    \E i \in DOMAIN failed :
       /\ failed[i].key = k /\ failed[i].age = refusal[k].age
       /\ \A j \in DOMAIN failed : i < j => failed[j].key \in refusal[k].others

\* A failure of late is in the table, or as many others as that holds failed since.
Remembered(k) ==
    \/ kind = "release" /\ \E i \in DOMAIN entries :
                              /\ entries[i].key = k /\ ~entries[i].ok
                              /\ entries[i].age = refusal[k].age
    \/ kind = "crm" /\ (Noted(k) \/ Cardinality(refusal[k].others) >= CacheMax)

\* The types, with a key in a table once.
LookupsTypes ==
    /\ kind \in {"release", "email", "limits", "crm"}
    /\ entries \in Seq(Entry) /\ Distinct(entries) /\ Len(entries) <= Lookups!Limit
    /\ failed \in Seq(Failure) /\ Distinct(failed) /\ Len(failed) <= Lookups!Limit
    /\ reader \in [Coroutine -> Reading \cup {Lookups!Idle}]
    /\ refusal \in [Customer -> [age: Lookups!Time, others: SUBSET Customer]]

\* The inductive invariant.
LookupsInv ==
    /\ LookupsTypes
    /\ StoreOrder(entries) /\ StoreOrder(failed)
    /\ Recent /\ OnTime /\ Backed /\ FallBacks
    /\ \A k \in Customer : refusal[k].age < RetryAfter => Remembered(k)

\* The types are those of LookupCaches.
LEMMA LookupsTypesLemma == LookupsTypes <=> Lookups!TypeOK
  BY DEF LookupsTypes, Lookups!TypeOK, Distinct, Entry, Failure, Reading

\* The clock counts up to Cap.
LEMMA TimeLemma ==
  /\ Lookups!Cap \in Nat /\ RetryAfter <= Lookups!Cap /\ RetryAfter \in Nat \ {0}
  /\ TTL \in Nat /\ ReadTimeout \in Nat /\ Lookups!Cap = TTL + ReadTimeout
  /\ Lookups!Time = 0..Lookups!Cap /\ {0, Lookups!Cap} \subseteq Lookups!Time
  /\ \A t \in Lookups!Time : Lookups!Later(t) \in Lookups!Time
          /\ Lookups!Later(t) = IF t < Lookups!Cap THEN t + 1 ELSE t
  BY LookupAssumption DEF Lookups!Cap, Lookups!Time, Lookups!Later

\* Time keeps what is older older, and no answer outruns the clock.
LEMMA LaterLemma ==
  ASSUME NEW s \in Lookups!Time, NEW t \in Lookups!Time
  PROVE  /\ s <= t => Lookups!Later(s) <= Lookups!Later(t)
         /\ s <= t + ReadTimeout => Lookups!Later(s) <= Lookups!Later(t) + ReadTimeout
         /\ \A n \in Nat : s <= n => Lookups!Later(s) <= n + 1
         /\ s \in Nat /\ Lookups!Later(s) \in Nat /\ Lookups!Later(s) \in Lookups!Time
         /\ s < RetryAfter => Lookups!Later(s) = s + 1
  <1>1. /\ Lookups!Later(s) = IF s < Lookups!Cap THEN s + 1 ELSE s
        /\ Lookups!Later(t) = IF t < Lookups!Cap THEN t + 1 ELSE t
        /\ Lookups!Later(s) \in Lookups!Time
    BY TimeLemma
  <1>2. /\ s \in 0..Lookups!Cap /\ t \in 0..Lookups!Cap
        /\ Lookups!Cap \in Nat /\ RetryAfter <= Lookups!Cap /\ RetryAfter \in Nat
        /\ ReadTimeout \in Nat
    BY TimeLemma
  <1> QED
    BY <1>1, <1>2

\* Each kind has a key and a place for it; two kinds have one key only.
LEMMA LimitLemma ==
  /\ Lookups!Keys \subseteq Customer /\ Lookups!Limit \in Nat \ {0}
  /\ kind \in {"release", "email"} => \A j, k \in Lookups!Keys : j = k
  /\ kind \notin {"release", "email"} => Lookups!Limit = CacheMax
  <1>1. Customer # {} /\ CacheMax \in Nat \ {0}
    BY ReadsAssumption, LookupAssumption
  <1>2. (CHOOSE k \in Customer : TRUE) \in Customer
    BY <1>1
  <1>3. Lookups!Keys = IF kind \in {"release",
       "email"} THEN {CHOOSE k \in Customer : TRUE} ELSE Customer
    BY DEF Lookups!Keys
  <1>4. Lookups!Limit = IF kind \in {"release", "email"} THEN 1 ELSE CacheMax
    BY DEF Lookups!Limit
  <1>5. CASE kind \in {"release", "email"}
    <2> DEFINE one == CHOOSE k \in Customer : TRUE
    <2>1. Lookups!Keys = {one} /\ one \in Customer
      BY <1>2, <1>3, <1>5
    <2> HIDE DEF one
    <2> QED
      BY <1>4, <1>5, <2>1
  <1>6. CASE kind \notin {"release", "email"}
    BY <1>1, <1>3, <1>4, <1>6
  <1> QED
    BY <1>5, <1>6

\* The tables start empty, with no failure of late.
LEMMA LookupsInit == Lookups!Init => LookupsInv
  <1> SUFFICES ASSUME Lookups!Init PROVE LookupsInv
    OBVIOUS
  <1>1. LookupsTypes
    BY TimeLemma, LimitLemma DEF Lookups!Init, LookupsTypes, Distinct, Lookups!LongAgo
  <1>2. StoreOrder(entries) /\ StoreOrder(failed) /\ Recent /\ OnTime /\ Backed /\ FallBacks
    BY DEF Lookups!Init, StoreOrder, Recent, OnTime, Backed, FallBacks, Lookups!Idle
  <1>3. \A k \in Customer : ~(refusal[k].age < RetryAfter)
    BY TimeLemma DEF Lookups!Init, Lookups!LongAgo
  <1> QED
    BY <1>1, <1>2, <1>3 DEF LookupsInv

\* What a step of the tables leaves alone.
LEMMA SameKind ==
  ASSUME kind' = kind
  PROVE  /\ Lookups!Keys' = Lookups!Keys /\ Lookups!Limit' = Lookups!Limit
         /\ Entry' = Entry /\ Failure' = Failure /\ Reading' = Reading
  BY DEF Lookups!Keys, Lookups!Limit, Entry, Failure, Reading

\* What a table kept of a key is its entry.
LEMMA KeptLemma ==
  ASSUME LookupsTypes, NEW k
  PROVE  /\ Lookups!Kept(k) \in Lookups!Time
         /\ kind = "crm" =>
               \A i \in DOMAIN entries : entries[i].key = k => Lookups!Kept(k) = entries[i].seen
  <1>1. CASE kind = "crm" /\ \E i \in DOMAIN entries : entries[i].key = k
    <2>1. PICK i \in DOMAIN entries : entries[i].key = k
      BY <1>1
    <2>2. entries[i] \in Entry /\ entries[i] \in ToSet(entries)
      BY <2>1 DEF LookupsTypes, ToSet
    <2>3. \A e \in ToSet(entries) : e.key = k => e = entries[i]
      BY <2>1 DEF LookupsTypes, Distinct, ToSet
    <2>4. \A j \in DOMAIN entries : entries[j].key = k => entries[j] = entries[i]
      BY <2>1 DEF LookupsTypes, Distinct
    <2>5. (CHOOSE e \in ToSet(entries) : e.key = k) = entries[i]
      BY <2>1, <2>2, <2>3
    <2>6. Lookups!Kept(k) = entries[i].seen
      BY <1>1, <2>1, <2>2, <2>5, LookupsLibrary DEF Lookups!Kept
    <2> QED
      BY <2>2, <2>4, <2>6 DEF Entry
  <1>2. CASE ~(kind = "crm" /\ \E i \in DOMAIN entries : entries[i].key = k)
    <2>1. ~(kind = "crm" /\ \E e \in ToSet(entries) : e.key = k)
      BY <1>2 DEF ToSet
    <2> QED
      BY <1>2, <2>1, LookupsLibrary, TimeLemma DEF Lookups!Kept
  <1> QED
    BY <1>1, <1>2

\* What a reader does without touching the tables.
LEMMA ReaderSteps ==
  ASSUME LookupsInv, NEW r \in Coroutine, NEW k \in Lookups!Keys,
         Lookups!Ask(r, k) \/ Lookups!Answer(r) \/ Lookups!Cancel(r)
  PROVE  LookupsInv'
  <1>1. UNCHANGED <<kind, entries, failed, refusal>>
    BY DEF Lookups!Ask, Lookups!Answer, Lookups!Cancel
  <1>2. reader' \in [Coroutine -> Reading \cup {Lookups!Idle}]
    <2>1. CASE Lookups!Ask(r, k)
      <3>1. reader' = [reader EXCEPT ![r] = [pc |-> "asked", key |-> k, seen |-> Lookups!Cap,
           running |-> 0, last |-> Lookups!Kept(k)]]
        BY <2>1 DEF Lookups!Ask
      <3>2. [pc |-> "asked", key |-> k, seen |-> Lookups!Cap, running |-> 0,
             last |-> Lookups!Kept(k)] \in Reading
        BY TimeLemma, KeptLemma DEF LookupsInv, Reading
      <3> QED
        BY <3>1, <3>2 DEF LookupsInv, LookupsTypes
    <2>2. CASE Lookups!Answer(r)
      <3>1. reader' = [reader EXCEPT ![r] = [reader[r] EXCEPT !.pc = "answered", !.seen = 0]]
            /\ reader[r].pc = "asked"
        BY <2>2 DEF Lookups!Answer
      <3>2. reader[r] \in Reading
        BY <3>1 DEF LookupsInv, LookupsTypes, Lookups!Idle
      <3>3. [reader[r] EXCEPT !.pc = "answered", !.seen = 0] \in Reading
        <4>1. 0 \in Lookups!Time
          BY TimeLemma
        <4> QED
          BY <3>2, <4>1 DEF Reading
      <3> QED
        BY <3>1, <3>3 DEF LookupsInv, LookupsTypes
    <2>3. CASE Lookups!Cancel(r)
      BY <2>3 DEF LookupsInv, LookupsTypes, Lookups!Cancel
    <2> QED
      BY <2>1, <2>2, <2>3
  <1>3. OnTime'
    <2> SUFFICES ASSUME NEW s \in Coroutine, reader'[s].pc = "answered"
                 PROVE  reader'[s].seen <= reader'[s].running
      BY DEF OnTime
    <2>1. reader'[s] \in Reading /\ reader'[s].running \in 0..ReadTimeout
      BY <1>2 DEF Lookups!Idle, Reading
    <2>2. CASE reader'[s] = reader[s]
      BY <2>2 DEF LookupsInv, OnTime
    <2>3. CASE reader'[s] # reader[s]
      <3>1. reader'[s].seen = 0
        <4>1. reader \in [Coroutine -> Reading \cup {Lookups!Idle}]
          BY DEF LookupsInv, LookupsTypes
        <4>2. CASE Lookups!Ask(r, k)
          BY <2>3, <4>1, <4>2 DEF Lookups!Ask
        <4>3. CASE Lookups!Answer(r)
          BY <2>3, <4>1, <4>3 DEF Lookups!Answer
        <4>4. CASE Lookups!Cancel(r)
          BY <2>3, <4>1, <4>4 DEF Lookups!Cancel, Lookups!Idle
        <4> QED
          BY <4>2, <4>3, <4>4
      <3> QED
        BY <2>1, <3>1, TimeLemma
    <2> QED
      BY <2>2, <2>3
  <1>4. LookupsTypes'
    BY <1>1, <1>2, SameKind DEF LookupsInv, LookupsTypes, Distinct
  <1>5. (StoreOrder(entries) /\ StoreOrder(failed) /\ Recent)'
    BY <1>1 DEF LookupsInv, StoreOrder, Recent
  <1>6. \A j \in Customer : Remembered(j)' <=> Remembered(j)
    BY <1>1 DEF Remembered, Noted
  <1>7. Backed'
    BY <1>1 DEF LookupsInv, Backed
  <1>8. FallBacks'
    <2> SUFFICES ASSUME NEW s \in Coroutine, NEW i \in DOMAIN entries, kind = "crm",
                        reader'[s] # Lookups!Idle, reader'[s].key = entries[i].key,
                        reader'[s].running < entries[i].age
                 PROVE  reader'[s].last = entries[i].seen
      BY <1>1 DEF FallBacks, FallsBack
    <2>1. FallsBack(s, entries[i]) /\ reader \in [Coroutine -> Reading \cup {Lookups!Idle}]
      BY DEF LookupsInv, FallBacks, LookupsTypes
    <2>2. CASE reader'[s] = reader[s]
      BY <2>1, <2>2 DEF FallsBack
    <2>3. CASE Lookups!Ask(r, k) /\ s = r
      BY <2>1, <2>3, KeptLemma DEF LookupsInv, Lookups!Ask
    <2>4. CASE Lookups!Answer(r) /\ s = r
      <3>1. reader'[s] = [reader[s] EXCEPT !.pc = "answered", !.seen = 0] /\ reader[s].pc = "asked"
        BY <2>1, <2>4 DEF Lookups!Answer
      <3>2. reader[s] \in Reading /\ reader[s] # Lookups!Idle
        BY <2>1, <3>1 DEF Lookups!Idle
      <3>3. /\ reader'[s].key = reader[s].key /\ reader'[s].running = reader[s].running
            /\ reader'[s].last = reader[s].last
        BY <3>1, <3>2 DEF Reading
      <3> QED
        BY <2>1, <3>2, <3>3 DEF FallsBack
    <2>5. CASE s # r \/ Lookups!Cancel(r)
      BY <2>1, <2>2, <2>5 DEF Lookups!Ask, Lookups!Answer, Lookups!Cancel
    <2> QED
      BY <2>2, <2>3, <2>4, <2>5
  <1> QED
    BY <1>1, <1>3, <1>4, <1>5, <1>6, <1>7, <1>8 DEF LookupsInv

\* The entries of other keys are still there, behind them what was behind them.
Shortened(table, r, k) ==
    \A i \in 1..Len(table) :
       table[i].key # k =>
         \E n \in 1..Len(r) :
            /\ r[n] = table[i]
            /\ \A j \in 1..Len(r) : n < j => \E m \in 1..Len(table) : i < m /\ r[j] = table[m]

\* A table that loses the entry of a key keeps the others in their order.
LEMMA WithoutOrder ==
  ASSUME NEW S, NEW table \in Seq(S), Distinct(table), StoreOrder(table), NEW k,
         NEW r, r = Lookups!Without(table, k)
  PROVE  /\ r \in Seq(S) /\ Len(r) <= Len(table) /\ Distinct(r) /\ StoreOrder(r)
         /\ Shortened(table, r, k)
  <1>1. CASE r = table
    <2>1. \A i \in 1..Len(table) : r[i] = table[i] /\ \A j \in 1..Len(r) : i < j => r[j] = table[j]
      BY <1>1
    <2> QED
      BY <1>1, <2>1 DEF Shortened
  <1>2. ASSUME NEW p \in 1..Len(table), r \in Seq(S), Closes(table, r, k, p)
        PROVE  /\ Len(r) <= Len(table) /\ Distinct(r) /\ StoreOrder(r)
               /\ Shortened(table, r, k)
    <2> DEFINE at(n) == IF n < p THEN n ELSE n + 1
    <2>1. /\ Len(table) \in Nat /\ Len(r) \in Nat /\ DOMAIN r = 1..Len(r)
         /\ DOMAIN table = 1..Len(table)
          /\ Len(r) = Len(table) - 1
      BY <1>2 DEF Closes
    <2>2. \A n \in 1..Len(r) : at(n) \in 1..Len(table) /\ r[n] = table[at(n)]
      BY <1>2, <2>1 DEF Closes
    <2>3. \A m, n \in 1..Len(r) : m < n <=> at(m) < at(n)
      BY <2>1
    <2>4. ASSUME NEW i \in 1..Len(table), i # p
          PROVE  \E n \in 1..Len(r) : at(n) = i
      <3>1. CASE i < p
        BY <1>2, <2>1, <2>4, <3>1, i \in 1..Len(r), at(i) = i
      <3>2. CASE i > p
        BY <1>2, <2>1, <2>4, <3>2, i - 1 \in 1..Len(r), at(i - 1) = i
      <3> QED
        BY <2>4, <3>1, <3>2
    <2> HIDE DEF at
    <2>5. Distinct(r)
      <3> SUFFICES ASSUME NEW i \in 1..Len(r), NEW j \in 1..Len(r), i < j, r[i].key = r[j].key
                   PROVE  FALSE
        BY <2>1 DEF Distinct
      <3>1. at(i) = at(j)
        BY <2>1, <2>2 DEF Distinct
      <3> QED
        BY <2>2, <2>3, <3>1
    <2>6. StoreOrder(r)
      BY <2>1, <2>2, <2>3 DEF StoreOrder
    <2>7. ASSUME NEW i \in 1..Len(table), table[i].key # k
          PROVE  \E n \in 1..Len(r) :
                    /\ r[n] = table[i]
                    /\ \A j \in 1..Len(r) : n < j => \E m \in 1..Len(table) : i < m
                            /\ r[j] = table[m]
      <3>1. PICK n \in 1..Len(r) : at(n) = i
        BY <1>2, <2>4, <2>7 DEF Closes
      <3> QED
        BY <2>2, <2>3, <3>1
    <2> QED
      BY <2>1, <2>5, <2>6, <2>7 DEF Shortened
  <1> QED
    BY <1>1, <1>2, WithoutLemma

\* What is left of a table is of the other keys.
LEMMA WithoutKey ==
  ASSUME NEW S, NEW table \in Seq(S), Distinct(table), NEW k,
         NEW r, r = Lookups!Without(table, k), NEW i \in DOMAIN r
  PROVE  r[i].key # k /\ \E m \in 1..Len(table) : r[i] = table[m]
  <1>1. CASE \E j \in DOMAIN table : table[j].key = k
    <2>1. PICK p \in 1..Len(table) : r \in Seq(S) /\ Closes(table, r, k, p)
      BY <1>1, WithoutLemma
    <2>2. i \in 1..Len(r) /\ Len(r) = Len(table) - 1
      BY <2>1 DEF Closes
    <2> QED
      BY <2>1, <2>2 DEF Closes, Distinct
  <1>2. CASE ~\E j \in DOMAIN table : table[j].key = k
    BY <1>2 DEF Lookups!Without
  <1> QED
    BY <1>1, <1>2

\* An answer is stored: it replaces the entry of its key.
LEMMA StoresStep ==
  ASSUME LookupsInv, NEW r \in Coroutine, Lookups!Stores(r)
  PROVE  LookupsInv'
  <1> DEFINE k == reader[r].key
             e == [key |-> k, age |-> 0, seen |-> reader[r].seen, ok |-> TRUE]
  <1>1. /\ reader[r] \in Reading /\ reader[r].seen \in Lookups!Time
        /\ reader[r].seen <= ReadTimeout /\ k \in Lookups!Keys
    <2>1. reader[r].pc = "answered" /\ reader[r] \in Reading
      BY DEF Lookups!Stores, LookupsInv, LookupsTypes, Lookups!Idle
    <2>2. reader[r].seen \in Lookups!Time /\ reader[r].running \in 0..ReadTimeout
         /\ k \in Lookups!Keys
      BY <2>1 DEF Reading
    <2> QED
      <3>1. reader[r].seen <= reader[r].running
        BY <2>1 DEF LookupsInv, OnTime
      <3>2. ReadTimeout \in Nat /\ reader[r].seen \in Nat
        BY <2>2, TimeLemma
      <3> QED
        BY <2>1, <2>2, <3>1, <3>2
  <1>2. e \in Entry /\ e.key = k /\ e.age = 0 /\ e.seen <= e.age + ReadTimeout
    BY <1>1, TimeLemma DEF Entry
  <1>3. entries' = Lookups!Put(entries, e) /\ failed' = Lookups!Without(failed, k) /\ kind' = kind
        /\ refusal' = [refusal EXCEPT ![k] = Lookups!LongAgo]
        /\ reader' = [reader EXCEPT ![r] = Lookups!Idle]
    BY DEF Lookups!Stores
  <1> HIDE DEF e, k
  <1>4. /\ entries \in Seq(Entry) /\ Distinct(entries) /\ Len(entries) <= Lookups!Limit
        /\ StoreOrder(entries) /\ Lookups!Limit \in Nat \ {0} /\ \A x \in Entry : x.age \in Nat
        /\ failed \in Seq(Failure) /\ Distinct(failed) /\ StoreOrder(failed)
        /\ Len(failed) <= Lookups!Limit
    BY LimitLemma, TimeLemma DEF LookupsInv, LookupsTypes, Entry
  <1>5. /\ entries' \in Seq(Entry) /\ Len(entries') <= Lookups!Limit
        /\ Distinct(entries') /\ StoreOrder(entries') /\ Renewed(entries, entries', e)
    BY <1>2, <1>3, <1>4, PutOrder
  <1>6. /\ failed' \in Seq(Failure) /\ Len(failed') <= Len(failed)
        /\ Distinct(failed') /\ StoreOrder(failed') /\ Shortened(failed, failed', k)
    BY <1>3, <1>4, WithoutOrder
  <1>7. LookupsTypes'
    <2>1. k \in Customer /\ Lookups!LongAgo \in [age: Lookups!Time, others: SUBSET Customer]
      BY <1>1, LimitLemma, TimeLemma DEF Lookups!LongAgo
    <2>2. refusal' \in [Customer -> [age: Lookups!Time, others: SUBSET Customer]]
      BY <1>3, <2>1 DEF LookupsInv, LookupsTypes
    <2>3. reader' \in [Coroutine -> Reading \cup {Lookups!Idle}]
      BY <1>3 DEF LookupsInv, LookupsTypes
    <2>4. Len(failed') <= Lookups!Limit
      BY <1>4, <1>6
    <2> QED
      BY <1>3, <1>5, <1>6, <2>2, <2>3, <2>4, SameKind DEF LookupsInv, LookupsTypes, Distinct
  <1>8. Recent'
    <2> SUFFICES ASSUME NEW i \in 1..Len(entries'), entries'[i].ok
                 PROVE  entries'[i].seen <= entries'[i].age + ReadTimeout
      BY <1>5 DEF Recent
    <2>1. CASE i = Len(entries')
      BY <1>2, <1>5, <2>1 DEF Renewed
    <2>2. CASE i # Len(entries')
      <3>1. i \in 1..Len(entries') - 1
        BY <1>5, <2>2
      <3>2. PICK m \in 1..Len(entries) : entries'[i] = entries[m]
        BY <1>5, <3>1 DEF Renewed
      <3> QED
        BY <1>4, <3>2 DEF LookupsInv, Recent
    <2> QED
      BY <2>1, <2>2
  <1>9. OnTime'
    BY <1>3 DEF LookupsInv, LookupsTypes, OnTime, Lookups!Idle
  <1>10. ASSUME NEW j \in Customer, refusal'[j].age < RetryAfter
         PROVE  Remembered(j)'
    <2>1. j # k
      <3>1. ~(Lookups!LongAgo.age < RetryAfter)
        BY TimeLemma DEF Lookups!LongAgo
      <3> QED
        BY <1>3, <1>10, <3>1 DEF LookupsInv, LookupsTypes
    <2>2. refusal'[j] = refusal[j] /\ Remembered(j)
      BY <1>3, <1>10, <2>1 DEF LookupsInv, LookupsTypes
    <2>3. CASE kind = "release"
      <3>1. PICK i \in 1..Len(entries) : entries[i].key = j
        BY <1>4, <2>2, <2>3 DEF Remembered
      <3>2. entries[i] \in Entry
        BY <1>4
      <3>3. entries[i].key \in Lookups!Keys
        BY <3>2 DEF Entry
      <3> QED
        BY <1>1, <2>1, <2>3, <3>1, <3>3, LimitLemma
    <2>4. CASE kind = "crm" /\ Cardinality(refusal[j].others) >= CacheMax
      BY <1>3, <2>2, <2>4 DEF Remembered
    <2>5. CASE kind = "crm" /\ Noted(j)
      <3>1. PICK i \in 1..Len(failed) :
               /\ failed[i].key = j /\ failed[i].age = refusal[j].age
               /\ \A m \in 1..Len(failed) : i < m => failed[m].key \in refusal[j].others
        BY <1>4, <2>5 DEF Noted
      <3>2. PICK n \in 1..Len(failed') :
               /\ failed'[n] = failed[i]
               /\ \A l \in 1..Len(failed') : n < l => \E m \in 1..Len(failed) : i < m
                       /\ failed'[l] = failed[m]
        BY <1>6, <2>1, <3>1 DEF Shortened
      <3>3. \A l \in 1..Len(failed') : n < l => failed'[l].key \in refusal[j].others
        BY <3>1, <3>2
      <3>4. Noted(j)'
        BY <1>6, <2>2, <3>1, <3>2, <3>3 DEF Noted
      <3> QED
        BY <1>3, <2>5, <3>4 DEF Remembered
    <2> QED
      BY <2>2, <2>3, <2>4, <2>5 DEF Remembered
  <1>11. Backed'
    <2>1. kind # "crm" => failed' = <<>>
      <3>1. kind # "crm" => Len(failed) = 0
        BY DEF LookupsInv, Backed
      <3>2. kind # "crm" => Len(failed') = 0
        BY <1>4, <1>6, <3>1
      <3> QED
        BY <1>6, <3>2
    <2>2. ASSUME NEW i \in DOMAIN failed', failed'[i].age < RetryAfter
          PROVE  refusal'[failed'[i].key].age = failed'[i].age
      <3>1. failed'[i].key # k /\ \E m \in 1..Len(failed) : failed'[i] = failed[m]
        BY <1>3, <1>4, <2>2, WithoutKey
      <3>2. PICK m \in 1..Len(failed) : failed'[i] = failed[m]
        BY <3>1
      <3>3. failed[m] \in Failure
        BY <1>4
      <3>4. failed[m].key \in Customer
        BY <3>3, LimitLemma DEF Failure
      <3>5. refusal[failed[m].key].age = failed[m].age
        BY <1>4, <2>2, <3>2 DEF LookupsInv, Backed
      <3>6. refusal'[failed[m].key] = refusal[failed[m].key]
        BY <1>3, <3>1, <3>2, <3>4 DEF LookupsInv, LookupsTypes
      <3> QED
        BY <3>2, <3>5, <3>6
    <2> QED
      BY <1>3, <2>1, <2>2 DEF Backed
  <1>12. FallBacks'
    <2> SUFFICES ASSUME NEW s \in Coroutine, NEW i \in DOMAIN entries', kind = "crm",
                        reader'[s] # Lookups!Idle, reader'[s].key = entries'[i].key,
                        reader'[s].running < entries'[i].age
                 PROVE  reader'[s].last = entries'[i].seen
      BY <1>3 DEF FallBacks, FallsBack
    <2>1. reader'[s] = reader[s] /\ reader[s] \in Reading
      BY <1>3 DEF LookupsInv, LookupsTypes
    <2>2. i # Len(entries')
      <3>1. reader[s].running \in Nat
        BY <2>1, TimeLemma DEF Reading
      <3> QED
        BY <1>2, <1>5, <2>1, <3>1 DEF Renewed
    <2>3. i \in 1..Len(entries') - 1
      BY <1>5, <2>2
    <2>4. PICK m \in 1..Len(entries) : entries'[i] = entries[m]
      BY <1>5, <2>3 DEF Renewed
    <2>5. FallsBack(s, entries[m])
      BY <1>4, <2>4 DEF LookupsInv, FallBacks
    <2> QED
      BY <2>1, <2>4, <2>5 DEF FallsBack
  <1> QED
    BY <1>5, <1>6, <1>7, <1>8, <1>9, <1>10, <1>11, <1>12 DEF LookupsInv

\* What a failure noted does to what is noted of another customer.
LEMMA NotedLemma ==
  ASSUME LookupsTypes, kind' = kind, kind = "crm",
         NEW j \in Customer, NEW k \in Lookups!Keys, j # k, Noted(j),
         NEW f \in Failure, f.key = k, failed' = Lookups!Put(failed, f),
         refusal'[j] = [refusal[j] EXCEPT !.others = @ \cup {k}],
         failed' \in Seq(Failure), Distinct(failed')
  PROVE  Noted(j)' \/ Cardinality(refusal'[j].others) >= CacheMax
  <1>1. /\ failed \in Seq(Failure) /\ Distinct(failed) /\ Len(failed) <= Lookups!Limit
        /\ Lookups!Limit = CacheMax /\ Lookups!Limit \in Nat \ {0}
        /\ refusal[j] \in [age: Lookups!Time, others: SUBSET Customer]
        /\ k \in Customer
    BY LimitLemma DEF LookupsTypes
  <1>2. /\ refusal'[j].age = refusal[j].age
        /\ refusal'[j].others = refusal[j].others \cup {k}
    BY <1>1
  <1>3. PICK at : Leaves(failed, failed', f, at)
    BY <1>1, PutLemma
  <1>4. /\ at \in [1..Len(failed') - 1 -> 1..Len(failed)]
        /\ \A m, n \in 1..Len(failed') - 1 : m < n => at[m] < at[n]
        /\ \A n \in 1..Len(failed') - 1 : failed'[n] = failed[at[n]]
        /\ failed' # <<>> /\ failed'[Len(failed')] = f
    BY <1>3 DEF Leaves, Follows
  <1>5. Len(failed') \in Nat \ {0} /\ Len(failed) \in Nat
    BY <1>1, <1>4
  <1>6. PICK i \in 1..Len(failed) :
           /\ failed[i].key = j /\ failed[i].age = refusal[j].age
           /\ \A m \in 1..Len(failed) : i < m => failed[m].key \in refusal[j].others
    <2>1. failed \in Seq(Failure)
      BY <1>1
    <2>2. DOMAIN failed = 1..Len(failed)
      BY <2>1
    <2> QED
      BY <2>2 DEF Noted
  <1>7. ASSUME NEW n \in 1..Len(failed') - 1, at[n] = i
        PROVE  Noted(j)'
    <2>1. \A l \in 1..Len(failed') : n < l => failed'[l].key \in refusal'[j].others
      <3> SUFFICES ASSUME NEW l \in 1..Len(failed'), n < l
                   PROVE  failed'[l].key \in refusal'[j].others
        OBVIOUS
      <3>1. CASE l = Len(failed')
        BY <1>2, <1>4, <3>1
      <3>2. CASE l # Len(failed')
        <4>1. l \in 1..Len(failed') - 1
          BY <1>5, <3>2
        <4>2. at[l] \in 1..Len(failed) /\ i < at[l] /\ failed'[l] = failed[at[l]]
          BY <1>4, <1>7, <4>1
        <4> QED
          BY <1>2, <1>6, <4>2
      <3> QED
        BY <3>1, <3>2
    <2>2. n \in 1..Len(failed') /\ failed'[n] = failed[i] /\ DOMAIN failed' = 1..Len(failed')
      BY <1>4, <1>5, <1>7
    <2> QED
      BY <1>2, <1>6, <2>1, <2>2 DEF Noted
  <1>8. ASSUME \A n \in 1..Len(failed') - 1 : at[n] # i
        PROVE  Cardinality(refusal'[j].others) >= CacheMax
    <2>1. /\ Len(failed') = CacheMax /\ Len(failed) = CacheMax
          /\ \A n \in 1..Len(failed') - 1 : at[n] = n + 1
      BY <1>1, <1>3, <1>6, <1>8 DEF Leaves
    <2>2. i = 1
      <3> SUFFICES ASSUME i # 1 PROVE FALSE
        OBVIOUS
      <3>1. i - 1 \in 1..Len(failed') - 1 /\ i - 1 + 1 = i
        BY <1>5, <2>1
      <3> QED
        BY <1>8, <2>1, <3>1
    <2>3. \A n \in 1..Len(failed') : failed'[n].key \in refusal'[j].others
      <3> SUFFICES ASSUME NEW n \in 1..Len(failed')
                   PROVE  failed'[n].key \in refusal'[j].others
        OBVIOUS
      <3>1. CASE n = Len(failed')
        BY <1>2, <1>4, <3>1
      <3>2. CASE n # Len(failed')
        <4>1. n \in 1..Len(failed') - 1
          BY <1>5, <3>2
        <4>2. at[n] \in 1..Len(failed) /\ 1 < at[n] /\ failed'[n] = failed[at[n]]
          BY <1>4, <2>1, <4>1
        <4> QED
          BY <1>2, <1>6, <2>2, <4>2
      <3> QED
        BY <3>1, <3>2
    <2>4. IsFiniteSet(refusal'[j].others)
      <3>1. refusal'[j].others \subseteq Customer
        BY <1>1, <1>2
      <3> QED
        BY <3>1, CacheAssumption, FS_Subset
    <2> QED
      BY <1>5, <2>1, <2>3, <2>4, KeysLemma
  <1> QED
    BY <1>7, <1>8

\* A failure is noted: the release keeps it as its entry, the CRM address in the table
\* of failures, and it counts for those that failed before.
LEMMA FailsStep ==
  ASSUME LookupsInv, NEW r \in Coroutine, Lookups!Fails(r)
  PROVE  LookupsInv'
  <1> DEFINE k == reader[r].key
             e == [key |-> k, age |-> 0, seen |-> reader[r].seen, ok |-> FALSE]
             f == [key |-> k, age |-> 0]
  <1>1. k \in Lookups!Keys /\ reader[r].seen \in Lookups!Time
    BY DEF Lookups!Fails, LookupsInv, LookupsTypes, Lookups!Idle, Reading
  <1>2. /\ e \in Entry /\ e.key = k /\ e.age = 0 /\ ~e.ok
        /\ f \in Failure /\ f.key = k /\ f.age = 0
    BY <1>1, TimeLemma DEF Entry, Failure
  <1>3. /\ kind' = kind /\ reader' = [reader EXCEPT ![r] = Lookups!Idle]
        /\ entries' = IF kind = "release" THEN Lookups!Put(entries, e) ELSE entries
        /\ failed' = IF kind = "crm" THEN Lookups!Put(failed, f) ELSE failed
        /\ refusal' = IF kind \in {"release", "crm"}
                      THEN [j \in Customer |-> IF j = k THEN [age |-> 0, others |-> {}]
                                               ELSE [refusal[j] EXCEPT !.others = @ \cup {k}]]
                      ELSE refusal
    BY DEF Lookups!Fails
  <1> HIDE DEF e, f, k
  <1>4. /\ entries \in Seq(Entry) /\ Distinct(entries) /\ Len(entries) <= Lookups!Limit
        /\ StoreOrder(entries) /\ Lookups!Limit \in Nat \ {0} /\ \A x \in Entry : x.age \in Nat
        /\ failed \in Seq(Failure) /\ Distinct(failed) /\ StoreOrder(failed)
        /\ Len(failed) <= Lookups!Limit /\ \A x \in Failure : x.age \in Nat
    BY LimitLemma, TimeLemma DEF LookupsInv, LookupsTypes, Entry, Failure
  <1>5. /\ entries' \in Seq(Entry) /\ Len(entries') <= Lookups!Limit
        /\ Distinct(entries') /\ StoreOrder(entries')
        /\ kind = "release" => Renewed(entries, entries', e)
    BY <1>2, <1>3, <1>4, PutOrder
  <1>6. /\ failed' \in Seq(Failure) /\ Len(failed') <= Lookups!Limit
        /\ Distinct(failed') /\ StoreOrder(failed')
        /\ kind = "crm" => Renewed(failed, failed', f)
    BY <1>2, <1>3, <1>4, PutOrder
  <1>7. LookupsTypes'
    <2>1. k \in Customer /\ 0 \in Lookups!Time
      BY <1>1, LimitLemma, TimeLemma
    <2>2. refusal' \in [Customer -> [age: Lookups!Time, others: SUBSET Customer]]
      BY <1>3, <2>1 DEF LookupsInv, LookupsTypes
    <2>3. reader' \in [Coroutine -> Reading \cup {Lookups!Idle}]
      BY <1>3 DEF LookupsInv, LookupsTypes
    <2> QED
      BY <1>3, <1>5, <1>6, <2>2, <2>3, SameKind DEF LookupsInv, LookupsTypes, Distinct
  <1>8. Recent'
    <2>1. CASE kind # "release"
      BY <1>3, <2>1 DEF LookupsInv, Recent
    <2>2. CASE kind = "release"
      <3> SUFFICES ASSUME NEW i \in 1..Len(entries'), entries'[i].ok
                   PROVE  entries'[i].seen <= entries'[i].age + ReadTimeout
        BY <1>5 DEF Recent
      <3>1. i \in 1..Len(entries') - 1
        BY <1>2, <1>5, <2>2 DEF Renewed
      <3>2. PICK m \in 1..Len(entries) : entries'[i] = entries[m]
        BY <1>5, <2>2, <3>1 DEF Renewed
      <3> QED
        BY <1>4, <3>2 DEF LookupsInv, Recent
    <2> QED
      BY <2>1, <2>2
  <1>9. OnTime'
    BY <1>3 DEF LookupsInv, LookupsTypes, OnTime, Lookups!Idle
  <1>10. ASSUME NEW j \in Customer, refusal'[j].age < RetryAfter
         PROVE  Remembered(j)'
    <2>1. CASE kind \notin {"release", "crm"}
      BY <1>3, <1>10, <2>1 DEF LookupsInv, Remembered
    <2>2. CASE kind = "release" /\ j = k
      <3>1. refusal'[j].age = 0
        BY <1>3, <2>2
      <3>2. entries' # <<>> /\ entries'[Len(entries')] = e
        BY <1>5, <2>2 DEF Renewed
      <3>3. Len(entries') \in DOMAIN entries'
        BY <1>5, <3>2
      <3> QED
        BY <1>2, <1>3, <2>2, <3>1, <3>2, <3>3 DEF Remembered
    <2>3. CASE kind = "release" /\ j # k
      <3>1. refusal'[j].age = refusal[j].age
        BY <1>3, <2>3 DEF LookupsInv, LookupsTypes
      <3>2. PICK i \in 1..Len(entries) : entries[i].key = j
        BY <1>4, <1>10, <2>3, <3>1 DEF LookupsInv, Remembered
      <3>3. entries[i] \in Entry
        BY <1>4
      <3>4. entries[i].key \in Lookups!Keys
        BY <3>3 DEF Entry
      <3> QED
        BY <1>1, <2>3, <3>2, <3>4, LimitLemma
    <2>4. CASE kind = "crm" /\ j = k
      <3>1. refusal'[j].age = 0
        BY <1>3, <2>4
      <3>2. failed' # <<>> /\ failed'[Len(failed')] = f
        BY <1>6, <2>4 DEF Renewed
      <3>3. Len(failed') \in DOMAIN failed' /\ \A l \in DOMAIN failed' : ~(Len(failed') < l)
        BY <1>6, <3>2
      <3>4. Noted(j)'
        BY <1>2, <2>4, <3>1, <3>2, <3>3 DEF Noted
      <3> QED
        BY <1>3, <2>4, <3>4 DEF Remembered
    <2>5. CASE kind = "crm" /\ j # k
      <3>1. refusal'[j] = [refusal[j] EXCEPT !.others = @ \cup {k}]
        BY <1>3, <2>5
      <3>2. refusal[j] \in [age: Lookups!Time, others: SUBSET Customer]
        BY DEF LookupsInv, LookupsTypes
      <3>3. Remembered(j)
        BY <1>10, <3>1, <3>2 DEF LookupsInv
      <3>4. CASE Cardinality(refusal[j].others) >= CacheMax
        <4>1. refusal'[j].others = refusal[j].others \cup {k}
             /\ refusal'[j].others \subseteq Customer
          BY <1>1, <3>1, <3>2, LimitLemma
        <4>2. IsFiniteSet(refusal'[j].others) /\ IsFiniteSet(refusal[j].others)
          BY <3>2, <4>1, CacheAssumption, FS_Subset
        <4>3. /\ Cardinality(refusal[j].others) <= Cardinality(refusal'[j].others)
              /\ Cardinality(refusal[j].others) \in Nat /\ Cardinality(refusal'[j].others) \in Nat
          BY <4>1, <4>2, FS_Subset, FS_CardinalityType
        <4> QED
          BY <1>3, <2>5, <3>4, <4>3, LookupAssumption DEF Remembered
      <3>5. CASE Noted(j)
        <4>1. failed' = Lookups!Put(failed, f)
          BY <1>3, <2>5
        <4>2. Noted(j)' \/ Cardinality(refusal'[j].others) >= CacheMax
          BY <1>1, <1>2, <1>3, <1>6, <2>5, <3>1, <3>5, <4>1, NotedLemma DEF LookupsInv
        <4> QED
          BY <1>3, <2>5, <4>2 DEF Remembered
      <3> QED
        BY <2>5, <3>3, <3>4, <3>5 DEF Remembered
    <2> QED
      BY <2>1, <2>2, <2>3, <2>4, <2>5
  <1>11. Backed'
    <2>1. CASE kind # "crm"
      BY <1>3, <2>1 DEF LookupsInv, Backed
    <2>2. CASE kind = "crm"
      <3> SUFFICES ASSUME NEW i \in 1..Len(failed'), failed'[i].age < RetryAfter
                   PROVE  refusal'[failed'[i].key].age = failed'[i].age
        <4>1. kind' = "crm" /\ DOMAIN failed' = 1..Len(failed')
          BY <1>3, <1>6, <2>2
        <4> QED
          BY <4>1 DEF Backed
      <3>1. k \in Customer /\ refusal'[k].age = 0
        BY <1>1, <1>3, <2>2, LimitLemma
      <3>2. CASE i = Len(failed')
        BY <1>2, <1>6, <2>2, <3>1, <3>2 DEF Renewed
      <3>3. CASE i # Len(failed')
        <4>1. i \in 1..Len(failed') - 1
          BY <1>6, <3>3
        <4>2. PICK m \in 1..Len(failed) : failed'[i] = failed[m]
          BY <1>6, <2>2, <4>1 DEF Renewed
        <4>3. failed[m] \in Failure
          BY <1>4
        <4>4. failed[m].key \in Customer
          BY <4>3, LimitLemma DEF Failure
        <4>5. failed'[i].key # k
          <5>1. failed'[Len(failed')].key = k /\ Len(failed') \in DOMAIN failed' /\ i \in DOMAIN failed'
            BY <1>2, <1>6, <2>2 DEF Renewed
          <5> QED
            BY <1>6, <3>3, <5>1 DEF Distinct
        <4>6. refusal'[failed[m].key].age = refusal[failed[m].key].age
          BY <1>3, <2>2, <4>2, <4>4, <4>5 DEF LookupsInv, LookupsTypes
        <4>7. refusal[failed[m].key].age = failed[m].age
          BY <1>4, <4>2 DEF LookupsInv, Backed
        <4> QED
          BY <4>2, <4>6, <4>7
      <3> QED
        BY <3>2, <3>3
    <2> QED
      BY <2>1, <2>2
  <1>12. FallBacks'
    <2> SUFFICES ASSUME NEW s \in Coroutine, NEW i \in DOMAIN entries', kind = "crm",
                        reader'[s] # Lookups!Idle, reader'[s].key = entries'[i].key,
                        reader'[s].running < entries'[i].age
                 PROVE  reader'[s].last = entries'[i].seen
      BY <1>3 DEF FallBacks, FallsBack
    <2>1. reader'[s] = reader[s] /\ entries' = entries
      BY <1>3 DEF LookupsInv, LookupsTypes
    <2> QED
      BY <2>1 DEF LookupsInv, FallBacks, FallsBack
  <1> QED
    BY <1>5, <1>6, <1>7, <1>8, <1>9, <1>10, <1>11, <1>12 DEF LookupsInv

\* Everything gets older by one, up to the cap.
LEMMA LookupsTick ==
  ASSUME LookupsInv, Lookups!Tick
  PROVE  LookupsInv'
  <1>1. /\ kind' = kind /\ entries \in Seq(Entry) /\ failed \in Seq(Failure)
        /\ Len(entries) \in Nat /\ Len(failed) \in Nat
        /\ DOMAIN entries = 1..Len(entries) /\ DOMAIN failed = 1..Len(failed)
    <2>1. kind' = kind
      BY DEF Lookups!Tick
    <2>2. entries \in Seq(Entry) /\ failed \in Seq(Failure)
      BY DEF LookupsInv, LookupsTypes
    <2> QED
      BY <2>1, <2>2
  <1>2. \A i \in 1..Len(entries) :
           /\ entries[i].key \in Lookups!Keys /\ entries[i].ok \in BOOLEAN
           /\ entries[i].age \in Lookups!Time /\ entries[i].seen \in Lookups!Time
    <2> SUFFICES ASSUME NEW i \in 1..Len(entries)
                 PROVE  /\ entries[i].key \in Lookups!Keys /\ entries[i].ok \in BOOLEAN
                        /\ entries[i].age \in Lookups!Time /\ entries[i].seen \in Lookups!Time
      OBVIOUS
    <2>1. entries[i] \in Entry
      BY <1>1
    <2> QED
      BY <2>1 DEF Entry
  <1>3. /\ entries' \in Seq(Entry) /\ Len(entries') = Len(entries)
        /\ DOMAIN entries' = 1..Len(entries)
        /\ \A i \in 1..Len(entries) :
              /\ entries'[i].key = entries[i].key /\ entries'[i].ok = entries[i].ok
              /\ entries'[i].age = Lookups!Later(entries[i].age)
              /\ entries'[i].seen = Lookups!Later(entries[i].seen)
    <2>1. entries' = [i \in 1..Len(entries) |->
                        [entries[i] EXCEPT !.age = Lookups!Later(@), !.seen = Lookups!Later(@)]]
      BY <1>1 DEF Lookups!Tick
    <2>2. ASSUME NEW i \in 1..Len(entries)
          PROVE  /\ entries'[i] \in Entry
                 /\ entries'[i].key = entries[i].key /\ entries'[i].ok = entries[i].ok
                 /\ entries'[i].age = Lookups!Later(entries[i].age)
                 /\ entries'[i].seen = Lookups!Later(entries[i].seen)
      <3>1. entries[i] \in Entry
        BY <1>1
      <3>2. /\ Lookups!Later(entries[i].age) \in Lookups!Time
            /\ Lookups!Later(entries[i].seen) \in Lookups!Time
        BY <1>2, TimeLemma
      <3>3. entries'[i] = [entries[i] EXCEPT !.age = Lookups!Later(@), !.seen = Lookups!Later(@)]
        BY <2>1
      <3> QED
        BY <3>1, <3>2, <3>3 DEF Entry
    <2>3. entries' \in [1..Len(entries) -> Entry]
      BY <2>1, <2>2
    <2>4. entries' \in Seq(Entry) /\ Len(entries') = Len(entries)
      BY <1>1, <2>3
    <2> QED
      BY <2>2, <2>4
  <1>4. /\ failed' \in Seq(Failure) /\ Len(failed') = Len(failed)
        /\ DOMAIN failed' = 1..Len(failed)
        /\ \A i \in 1..Len(failed) :
              /\ failed'[i].key = failed[i].key
              /\ failed[i].age \in Lookups!Time /\ failed'[i].age = Lookups!Later(failed[i].age)
    <2>1. failed' = [i \in 1..Len(failed) |-> [failed[i] EXCEPT !.age = Lookups!Later(@)]]
      BY <1>1 DEF Lookups!Tick
    <2>2. ASSUME NEW i \in 1..Len(failed)
          PROVE  /\ failed'[i] \in Failure /\ failed'[i].key = failed[i].key
                 /\ failed[i].age \in Lookups!Time /\ failed'[i].age = Lookups!Later(failed[i].age)
      <3>1. failed[i] \in Failure
        BY <1>1
      <3>2. failed[i].age \in Lookups!Time /\ Lookups!Later(failed[i].age) \in Lookups!Time
        BY <3>1, TimeLemma DEF Failure
      <3>3. failed'[i] = [failed[i] EXCEPT !.age = Lookups!Later(@)]
        BY <2>1
      <3> QED
        BY <3>1, <3>2, <3>3 DEF Failure
    <2>3. failed' \in [1..Len(failed) -> Failure]
      BY <2>1, <2>2
    <2>4. failed' \in Seq(Failure) /\ Len(failed') = Len(failed)
      BY <1>1, <2>3
    <2> QED
      BY <2>2, <2>4
  <1>5. Distinct(entries') /\ Distinct(failed')
    <2>2. Distinct(entries) /\ Distinct(failed)
      BY DEF LookupsInv, LookupsTypes
    <2>3. Distinct(entries')
      BY <1>1, <1>3, <2>2 DEF Distinct
    <2>4. Distinct(failed')
      BY <1>1, <1>4, <2>2 DEF Distinct
    <2> QED
      BY <2>3, <2>4
  <1>6. StoreOrder(entries')
    <2> SUFFICES ASSUME NEW i \in 1..Len(entries), NEW j \in 1..Len(entries), i < j
                 PROVE  Lookups!Later(entries[i].age) >= Lookups!Later(entries[j].age)
      BY <1>1, <1>3 DEF StoreOrder
    <2>1. entries[i].age >= entries[j].age
      BY <1>1 DEF LookupsInv, StoreOrder
    <2> QED
      BY <1>2, <2>1, LaterLemma
  <1>7. StoreOrder(failed')
    <2> SUFFICES ASSUME NEW i \in 1..Len(failed), NEW j \in 1..Len(failed), i < j
                 PROVE  Lookups!Later(failed[i].age) >= Lookups!Later(failed[j].age)
      BY <1>1, <1>4 DEF StoreOrder
    <2>1. failed[i].age >= failed[j].age
      BY <1>1 DEF LookupsInv, StoreOrder
    <2> QED
      BY <1>4, <2>1, LaterLemma
  <1>8. Recent'
    <2> SUFFICES ASSUME NEW i \in 1..Len(entries), entries[i].ok
                 PROVE  Lookups!Later(entries[i].seen)
                      <= Lookups!Later(entries[i].age) + ReadTimeout
      BY <1>1, <1>3 DEF Recent
    <2>1. entries[i].seen <= entries[i].age + ReadTimeout
      BY <1>1 DEF LookupsInv, Recent
    <2> QED
      BY <1>2, <2>1, LaterLemma
  <1>9. reader' \in [Coroutine -> Reading \cup {Lookups!Idle}] /\ OnTime'
    <2>1. /\ reader \in [Coroutine -> Reading \cup {Lookups!Idle}]
          /\ reader' = [r \in Coroutine |->
                          IF reader[r] = Lookups!Idle THEN Lookups!Idle
                          ELSE [reader[r] EXCEPT !.seen = Lookups!Later(@), !.last = Lookups!Later(@),
                                            !.running = @ + 1]]
      BY DEF LookupsInv, LookupsTypes, Lookups!Tick
    <2>2. ASSUME NEW r \in Coroutine
          PROVE  /\ reader'[r] \in Reading \cup {Lookups!Idle}
                 /\ reader'[r].pc = "answered" => reader'[r].seen <= reader'[r].running
      <3>1. CASE reader[r] = Lookups!Idle
        BY <2>1, <3>1 DEF Lookups!Idle
      <3>2. CASE reader[r] # Lookups!Idle
        <4>1. reader[r] \in Reading
          BY <2>1, <3>2
        <4>2. /\ Lookups!Later(reader[r].seen) \in Lookups!Time /\ reader[r].seen \in Lookups!Time
              /\ reader[r].running \in 0..ReadTimeout /\ reader[r].running + 1 \in 0..ReadTimeout
              /\ Lookups!Later(reader[r].last) \in Lookups!Time
          <5>1. /\ reader[r].seen \in Lookups!Time /\ reader[r].running \in 0..ReadTimeout
                /\ reader[r].last \in Lookups!Time
            BY <4>1 DEF Reading
          <5>2. reader[r].running < ReadTimeout
            BY DEF Lookups!Tick
          <5> QED
            <6>1. reader[r].running + 1 \in 0..ReadTimeout
              BY <5>1, <5>2, LookupAssumption
            <6> QED
              BY <5>1, <6>1, LaterLemma
        <4>3. reader'[r] = [reader[r] EXCEPT !.seen = Lookups!Later(@), !.last = Lookups!Later(@),
                                             !.running = @ + 1]
          BY <2>1, <3>2
        <4>4. reader'[r] \in Reading
          BY <4>1, <4>2, <4>3 DEF Reading
        <4>5. /\ reader'[r].pc = reader[r].pc /\ reader'[r].seen = Lookups!Later(reader[r].seen)
              /\ reader'[r].running = reader[r].running + 1
          BY <4>1, <4>3 DEF Reading
        <4>6. reader[r].pc = "answered" => reader[r].seen <= reader[r].running
          BY DEF LookupsInv, OnTime
        <4> QED
          <5>1. reader[r].running \in Nat
            BY <4>2, TimeLemma
          <5> QED
            BY <4>2, <4>4, <4>5, <4>6, <5>1, LaterLemma
      <3> QED
        BY <3>1, <3>2
    <2> QED
      BY <2>1, <2>2 DEF OnTime
  <1>10. ASSUME NEW j \in Customer
         PROVE  /\ refusal'[j] \in [age: Lookups!Time, others: SUBSET Customer]
                /\ refusal'[j].age < RetryAfter => Remembered(j)'
    <2>1. /\ refusal[j] \in [age: Lookups!Time, others: SUBSET Customer]
          /\ refusal'[j] = IF refusal[j].age + 1 >= RetryAfter THEN Lookups!LongAgo
                           ELSE [refusal[j] EXCEPT !.age = @ + 1]
      BY DEF LookupsInv, LookupsTypes, Lookups!Tick
    <2>2. CASE refusal[j].age + 1 >= RetryAfter
      BY <2>1, <2>2, TimeLemma DEF Lookups!LongAgo
    <2>3. CASE ~(refusal[j].age + 1 >= RetryAfter)
      <3>1. /\ refusal'[j].age = refusal[j].age + 1 /\ refusal'[j].others = refusal[j].others
            /\ refusal[j].age < RetryAfter /\ refusal'[j].age = Lookups!Later(refusal[j].age)
            /\ refusal'[j].age \in Lookups!Time
        BY <2>1, <2>3, TimeLemma
      <3>2. Remembered(j)
        BY <3>1 DEF LookupsInv
      <3>3. ASSUME kind = "release" PROVE Remembered(j)'
        <4>1. PICK i \in 1..Len(entries) : entries[i].key = j /\ ~entries[i].ok
             /\ entries[i].age = refusal[j].age
          BY <1>1, <3>2, <3>3 DEF Remembered
        <4>2. entries'[i].key = j /\ ~entries'[i].ok /\ entries'[i].age = refusal'[j].age
          BY <1>3, <3>1, <4>1
        <4> QED
          BY <1>1, <1>3, <3>3, <4>2 DEF Remembered
      <3>4. ASSUME kind = "crm", Noted(j) PROVE Remembered(j)'
        <4>1. PICK i \in 1..Len(failed) :
                 /\ failed[i].key = j /\ failed[i].age = refusal[j].age
                 /\ \A m \in 1..Len(failed) : i < m => failed[m].key \in refusal[j].others
          BY <1>1, <3>4 DEF Noted
        <4>2. failed'[i].key = j /\ failed'[i].age = refusal'[j].age
          BY <1>4, <3>1, <4>1
        <4>3. \A m \in 1..Len(failed) : i < m => failed'[m].key \in refusal'[j].others
          BY <1>4, <3>1, <4>1
        <4>4. Noted(j)'
          BY <1>4, <4>2, <4>3 DEF Noted
        <4> QED
          BY <1>1, <3>4, <4>4 DEF Remembered
      <3>5. ASSUME kind = "crm", Cardinality(refusal[j].others) >= CacheMax PROVE Remembered(j)'
        <4>1. kind' = kind /\ refusal'[j].others = refusal[j].others
          BY <1>1, <3>1
        <4> QED
          BY <3>5, <4>1 DEF Remembered
      <3>6. refusal'[j] \in [age: Lookups!Time, others: SUBSET Customer]
        BY <2>1, <2>3, <3>1
      <3> QED
        BY <3>2, <3>3, <3>4, <3>5, <3>6 DEF Remembered
    <2> QED
      BY <2>2, <2>3
  <1>11. refusal' \in [Customer -> [age: Lookups!Time, others: SUBSET Customer]]
    BY <1>10 DEF Lookups!Tick
  <1>12. Len(entries') <= Lookups!Limit /\ Len(failed') <= Lookups!Limit
    BY <1>3, <1>4 DEF LookupsInv, LookupsTypes
  <1>13. LookupsTypes'
    BY <1>1, <1>3, <1>4, <1>5, <1>9, <1>11, <1>12, SameKind DEF LookupsInv, LookupsTypes, Distinct
  <1>14. Backed'
    <2>1. kind # "crm" => failed' = <<>>
      <3>1. kind # "crm" => Len(failed') = 0
        BY <1>4 DEF LookupsInv, Backed
      <3> QED
        BY <1>4, <3>1
    <2>2. ASSUME NEW i \in 1..Len(failed), failed'[i].age < RetryAfter
          PROVE  refusal'[failed'[i].key].age = failed'[i].age
      <3>1. failed[i] \in Failure
        BY <1>1
      <3>2. failed[i].key \in Customer
        BY <3>1, LimitLemma DEF Failure
      <3>3. failed[i].age < RetryAfter /\ failed'[i].age = failed[i].age + 1
        <4>1. failed[i].age \in Lookups!Time /\ failed'[i].age = Lookups!Later(failed[i].age)
          BY <1>4
        <4>2. ASSUME NEW s \in Lookups!Time, Lookups!Later(s) < RetryAfter
              PROVE  s < RetryAfter /\ Lookups!Later(s) = s + 1
          <5>1. /\ Lookups!Cap \in Nat /\ RetryAfter \in Nat /\ RetryAfter <= Lookups!Cap
                /\ s \in Nat /\ Lookups!Later(s) = IF s < Lookups!Cap THEN s + 1 ELSE s
            BY TimeLemma
          <5> QED
            BY <4>2, <5>1
        <4> QED
          BY <2>2, <4>1, <4>2
      <3>4. refusal[failed[i].key].age = failed[i].age
        BY <1>1, <3>3 DEF LookupsInv, Backed
      <3>5. refusal'[failed[i].key] =
               IF refusal[failed[i].key].age + 1 >= RetryAfter THEN Lookups!LongAgo
               ELSE [refusal[failed[i].key] EXCEPT !.age = @ + 1]
        BY <3>2 DEF Lookups!Tick
      <3>6. refusal[failed[i].key] \in [age: Lookups!Time, others: SUBSET Customer]
        BY <3>2 DEF LookupsInv, LookupsTypes
      <3>7. refusal'[failed[i].key].age = refusal[failed[i].key].age + 1
        BY <1>4, <2>2, <3>3, <3>4, <3>5, <3>6, TimeLemma
      <3> QED
        BY <1>4, <3>3, <3>4, <3>7
    <2> QED
      BY <1>1, <1>4, <2>1, <2>2 DEF Backed
  <1>15. FallBacks'
    <2> SUFFICES ASSUME NEW r \in Coroutine, NEW i \in 1..Len(entries), kind = "crm",
                        reader'[r] # Lookups!Idle, reader'[r].key = entries'[i].key,
                        reader'[r].running < entries'[i].age
                 PROVE  reader'[r].last = entries'[i].seen
      BY <1>1, <1>3 DEF FallBacks, FallsBack
    <2>1. /\ reader[r] # Lookups!Idle /\ reader[r] \in Reading
          /\ reader'[r] = [reader[r] EXCEPT !.seen = Lookups!Later(@), !.last = Lookups!Later(@),
                                            !.running = @ + 1]
      BY DEF LookupsInv, LookupsTypes, Lookups!Tick
    <2>2. /\ reader'[r].key = reader[r].key /\ reader'[r].running = reader[r].running + 1
          /\ reader'[r].last = Lookups!Later(reader[r].last) /\ reader[r].running \in 0..ReadTimeout
      BY <2>1 DEF Reading
    <2>3. reader[r].running < entries[i].age
      <3>1. entries[i].age \in Nat /\ entries'[i].age <= entries[i].age + 1 /\ entries'[i].age \in Nat
        BY <1>2, <1>3, LaterLemma
      <3>2. reader[r].running \in Nat
        BY <2>2, TimeLemma
      <3> QED
        BY <2>2, <3>1, <3>2
    <2>4. FallsBack(r, entries[i])
      BY <1>1 DEF LookupsInv, FallBacks
    <2>5. reader[r].last = entries[i].seen
      BY <1>3, <2>1, <2>2, <2>3, <2>4 DEF FallsBack
    <2> QED
      BY <1>3, <2>2, <2>5
  <1> QED
    BY <1>6, <1>7, <1>8, <1>9, <1>10, <1>13, <1>14, <1>15 DEF LookupsInv

\* The tables of the lookups stay in store order, and remember what failed.
THEOREM LookupsInvariance == Lookups!Spec => []LookupsInv
  <1>1. LookupsInv /\ [Lookups!Next]_(Lookups!lvars) => LookupsInv'
    <2> SUFFICES ASSUME LookupsInv, [Lookups!Next]_(Lookups!lvars) PROVE LookupsInv'
      OBVIOUS
    <2>1. PICK k : k \in Lookups!Keys
      BY ReadsAssumption DEF Lookups!Keys
    <2>2. ASSUME NEW r \in Coroutine, Lookups!Answer(r) \/ Lookups!Cancel(r)
          PROVE  LookupsInv'
      BY <2>1, <2>2, ReaderSteps
    <2>3. ASSUME NEW r \in Coroutine, NEW j \in Lookups!Keys, Lookups!Ask(r, j)
          PROVE  LookupsInv'
      BY <2>3, ReaderSteps
    <2>4. CASE UNCHANGED Lookups!lvars
      BY <2>4, SameKind DEF Lookups!lvars, LookupsInv, LookupsTypes, Distinct, StoreOrder,
         Recent, OnTime, Backed, FallBacks, FallsBack,
         Remembered, Noted
    <2> QED
      BY <2>2, <2>3, <2>4, StoresStep, FailsStep, LookupsTick DEF Lookups!Next
  <1> QED
    BY <1>1, LookupsInit, PTL DEF Lookups!Spec

\* Failures alone let an answer be served that is more than a lifetime and one read
\* old: of a CRM address only, to those that do not ask within RetryAfter of its
\* failed read, and to the lookup whose own read fails, which is given what was kept
\* when it began (adapter.py, the four lookups).
THEOREM OldBehindFailures == Lookups!Spec => []OldOnlyBehindFailure
  <1>1. ASSUME LookupsInv, NEW k \in Lookups!Keys, NEW e \in Lookups!Given(k),
               e.seen >= TTL + ReadTimeout
        PROVE  kind = "crm" /\ refusal[k].age < RetryAfter
    <2>1. /\ e \in ToSet(entries) /\ e.key = k /\ e.ok
          /\ e.age < TTL \/ (kind = "crm" /\ Lookups!Resting(k))
      BY <1>1, LookupsLibrary DEF Lookups!Given
    <2>2. PICK i \in DOMAIN entries : e = entries[i]
      BY <2>1 DEF ToSet
    <2>3. e \in Entry /\ e.seen <= e.age + ReadTimeout
      BY <1>1, <2>1, <2>2 DEF LookupsInv, LookupsTypes, Recent
    <2>4. e.age \in Nat /\ e.seen \in Nat
      BY <2>3, LaterLemma DEF Entry
    <2>5. ~(e.age < TTL)
      <3>1. TTL \in Nat /\ ReadTimeout \in Nat
        BY TimeLemma
      <3> QED
        BY <1>1, <2>3, <2>4, <3>1
    <2>6. PICK f \in ToSet(failed) : f.key = k /\ f.age < RetryAfter
      BY <2>1, <2>5, LookupsLibrary DEF Lookups!Resting
    <2>7. refusal[k].age = f.age
      BY <1>1, <2>6 DEF LookupsInv, Backed, ToSet
    <2> QED
      BY <2>1, <2>5, <2>6, <2>7
  <1>2. ASSUME LookupsInv, NEW r \in Coroutine, NEW e \in ToSet(entries),
               kind = "crm", reader[r] # Lookups!Idle, reader[r].key = e.key,
               reader[r].running < e.age
        PROVE  reader[r].last = e.seen
    <2>1. PICK i \in DOMAIN entries : e = entries[i]
      BY DEF ToSet
    <2> QED
      BY <1>2, <2>1 DEF LookupsInv, FallBacks, FallsBack
  <1>3. LookupsInv => OldOnlyBehindFailure
    BY <1>1, <1>2, LookupsLibrary DEF OldOnlyBehindFailure, Lookups!OldOnlyBehindFailure
  <1> QED
    BY <1>3, LookupsInvariance, PTL

\* After a failed read the switch is left alone for RetryAfter, unless a read in
\* flight succeeds or the table of failures is full of others since (adapter.py,
\* the release and the CRM address).
THEOREM RefusalsHold == Lookups!Spec => LeftAloneAfterFailure
  <1>1. ASSUME LookupsInv, Lookups!Next, NEW r \in Coroutine,
               reader[r] = Lookups!Idle, reader'[r].pc = "asked",
               ~(refusal[reader'[r].key].age >= RetryAfter)
        PROVE  Cardinality(refusal[reader'[r].key].others) >= CacheMax
    <2>1. reader \in [Coroutine -> Reading \cup {Lookups!Idle}]
      BY <1>1 DEF LookupsInv, LookupsTypes
    <2>2. reader[r].pc # "asked" /\ reader[r].pc = "idle"
      BY <1>1 DEF Lookups!Idle
    <2>3. PICK k \in Lookups!Keys : Lookups!Ask(r, k)
      <3>1. ASSUME NEW s \in Coroutine,
                   Lookups!Answer(s) \/ Lookups!Stores(s) \/ Lookups!Fails(s) \/ Lookups!Cancel(s)
            PROVE  FALSE
        BY <1>1, <2>1, <2>2, <3>1 DEF Lookups!Answer, Lookups!Stores, Lookups!Fails,
           Lookups!Cancel, Lookups!Idle
      <3>2. ASSUME Lookups!Tick PROVE FALSE
        BY <1>1, <2>1, <2>2, <3>2 DEF Lookups!Tick
      <3>3. ASSUME NEW s \in Coroutine, NEW j \in Lookups!Keys, Lookups!Ask(s, j), s # r PROVE FALSE
        BY <1>1, <2>1, <2>2, <3>3 DEF Lookups!Ask
      <3> QED
        BY <1>1, <3>1, <3>2, <3>3 DEF Lookups!Next
    <2>4. reader'[r].key = k /\ ~Lookups!Served(k) /\ ~Lookups!Resting(k) /\ k \in Customer
      BY <2>1, <2>3, LimitLemma DEF Lookups!Ask
    <2>5. Remembered(k) /\ refusal[k].age < RetryAfter
      <3>1. refusal[k].age \in Lookups!Time
        BY <1>1, <2>4 DEF LookupsInv, LookupsTypes
      <3>2. refusal[k].age < RetryAfter
        <4>1. refusal[k].age \in Nat /\ RetryAfter \in Nat
          BY <3>1, TimeLemma, LaterLemma
        <4>2. ~(refusal[k].age >= RetryAfter)
          BY <1>1, <2>4
        <4> QED
          BY <4>1, <4>2
      <3> QED
        BY <1>1, <2>4, <3>2 DEF LookupsInv
    <2>6. ASSUME kind = "release", NEW i \in DOMAIN entries, entries[i].key = k,
                 ~entries[i].ok, entries[i].age = refusal[k].age
          PROVE  FALSE
      BY <2>4, <2>5, <2>6, LookupsLibrary DEF Lookups!Served, Lookups!Lifetime, ToSet
    <2>7. ~Noted(k)
      BY <2>4, <2>5, LookupsLibrary DEF Lookups!Resting, Noted, ToSet
    <2> QED
      BY <2>4, <2>5, <2>6, <2>7 DEF Remembered
  <1>2. LookupsInv /\ [Lookups!Next]_(Lookups!lvars) =>
          [\A r \in Coroutine :
              reader[r] = Lookups!Idle /\ reader'[r].pc = "asked" =>
                 LET last == refusal[reader'[r].key]
                 IN last.age >= RetryAfter
                    \/ Lookups!Cardinality(last.others) >= CacheMax]_(Lookups!lvars)
    <2> QED
      BY <1>1, LookupsLibrary
  <1> QED
    BY <1>2, LookupsInvariance, PTL DEF LeftAloneAfterFailure, Lookups!LeftAloneAfterFailure,
       Lookups!Spec

\* What a full table drops is the entry stored longest ago, however the reads of
\* several keys overlap (adapter.py, the tables in store order).
THEOREM TheStalestIsDropped == Lookups!Spec => StalestGoesFirst
  <1>1. LookupsInv /\ [Lookups!Next]_(Lookups!lvars) =>
          [\A e \in Lookups!ToSet(entries) :
              e.key \notin {f.key : f \in Lookups!ToSet(entries')} =>
                 \A f \in Lookups!ToSet(entries) : f.age <= e.age]_(Lookups!lvars)
    <2> SUFFICES ASSUME LookupsInv, Lookups!Next, NEW i \in 1..Len(entries),
         NEW j \in 1..Len(entries),
                        \A n \in DOMAIN entries' : entries'[n].key # entries[i].key
                 PROVE  entries[j].age <= entries[i].age
      BY LookupsLibrary DEF ToSet, LookupsInv, LookupsTypes
    <2>1. /\ entries \in Seq(Entry) /\ Distinct(entries) /\ Len(entries) <= Lookups!Limit
          /\ StoreOrder(entries) /\ Lookups!Limit \in Nat \ {0}
      BY LimitLemma DEF LookupsInv, LookupsTypes
    <2>2. \A x \in Entry : x.age \in Nat
      BY TimeLemma DEF Entry
    <2>3. CASE entries' = entries
      BY <2>1, <2>3
    <2>4. ASSUME NEW e \in Entry, e.age = 0, entries' = Lookups!Put(entries, e)
          PROVE  entries[j].age <= entries[i].age
      <3>1. Renewed(entries, entries', e) /\ entries' \in Seq(Entry)
        BY <2>1, <2>2, <2>4, PutOrder
      <3>2. entries[i].key # e.key
        <4>1. Len(entries') \in DOMAIN entries' /\ entries'[Len(entries')] = e
          BY <3>1 DEF Renewed
        <4> QED
          BY <4>1
      <3>3. \A n \in 1..Len(entries') - 1 : entries'[n] # entries[i]
        BY <3>1
      <3> QED
        BY <3>1, <3>2, <3>3 DEF Renewed
    <2>5. ASSUME NEW r \in Coroutine, Lookups!Stores(r) \/ Lookups!Fails(r)
          PROVE  entries[j].age <= entries[i].age
      <3> DEFINE e(ok) == [key |-> reader[r].key, age |-> 0, seen |-> reader[r].seen, ok |-> ok]
      <3>1. reader[r].key \in Lookups!Keys /\ reader[r].seen \in Lookups!Time /\ 0 \in Lookups!Time
        BY <2>5, TimeLemma DEF Lookups!Stores, Lookups!Fails, LookupsInv, LookupsTypes,
           Lookups!Idle, Reading
      <3>2. \A ok \in BOOLEAN : e(ok) \in Entry /\ e(ok).age = 0
        BY <3>1 DEF Entry
      <3>3. \/ entries' = entries
            \/ \E ok \in BOOLEAN : entries' = Lookups!Put(entries, e(ok))
        BY <2>5 DEF Lookups!Stores, Lookups!Fails
      <3> QED
        BY <2>3, <2>4, <3>2, <3>3
    <2>6. ASSUME Lookups!Tick PROVE entries[j].age <= entries[i].age
      <3>1. i \in DOMAIN entries' /\ entries'[i].key = entries[i].key
        <4>1. entries' = [n \in DOMAIN entries |->
                            [entries[n] EXCEPT !.age = Lookups!Later(@), !.seen = Lookups!Later(@)]]
          BY <2>6 DEF Lookups!Tick
        <4>2. entries[i] \in Entry /\ i \in DOMAIN entries
          BY <2>1
        <4> QED
          BY <4>1, <4>2 DEF Entry
      <3> QED
        BY <3>1
    <2>7. ASSUME NEW r \in Coroutine, NEW k \in Lookups!Keys,
                 Lookups!Answer(r) \/ Lookups!Cancel(r) \/ Lookups!Ask(r, k)
          PROVE  entries' = entries
      BY <2>7 DEF Lookups!Answer, Lookups!Cancel, Lookups!Ask
    <2>8. PICK k : k \in Lookups!Keys
      BY ReadsAssumption DEF Lookups!Keys
    <2> QED
      BY <2>3, <2>5, <2>6, <2>7, <2>8 DEF Lookups!Next
  <1> QED
    BY <1>1, LookupsInvariance, PTL DEF StalestGoesFirst, Lookups!StalestGoesFirst, Lookups!Spec

----------------------------------------------------------------------------
(* The counters of the call queues.                                        *)

\* The instance has its own copies of the community modules' operators.
LEMMA QueuesLibrary ==
  /\ \A s : Queues!ToSet(s) = ToSet(s)
  /\ \A s : Queues!IsInjective(s) = IsInjective(s)
  /\ \A s, e : Queues!RemoveFirst(s, e) = RemoveFirst(s, e)
  /\ \A f : Queues!Range(f) = Range(f)
  /\ \A T : Queues!Cardinality(T) = Cardinality(T)
  /\ Queues!NoOne = NoOne /\ Queues!NoLock = NoLock
  <1>1. \A s : Queues!ToSet(s) = ToSet(s)
    BY DEF Queues!ToSet, ToSet
  <1>2. \A s : Queues!IsInjective(s) = IsInjective(s)
    BY DEF Queues!IsInjective, IsInjective
  <1>3. \A s, e : Queues!RemoveFirst(s, e) = RemoveFirst(s, e)
    BY DEF Queues!RemoveFirst, RemoveFirst, Queues!SelectInSeq, SelectInSeq,
       Queues!RemoveAt, RemoveAt, Queues!Min, Min
  <1>4. \A f : Queues!Range(f) = Range(f)
    BY DEF Queues!Range, Range
  <1>5. \A T : Queues!Cardinality(T) = Cardinality(T)
    BY DEF Queues!Cardinality, Cardinality
  <1>6. Queues!NoOne = NoOne /\ Queues!NoLock = NoLock
    BY DEF Queues!NoOne, NoOne, Queues!NoLock, NoLock
  <1> QED
    BY <1>1, <1>2, <1>3, <1>4, <1>5, <1>6

\* Request k is queued for lock l, or inside it.
Queued(k, l) == req[k].pc = "locking" /\ req[k].lock = l
Inside(k, l) == req[k].pc \in Queues!InsideLock /\ req[k].lock = l

\* The cached counters.
CountersOK ==
    /\ stored \in Seq(Customer) /\ IsInjective(stored)
    /\ waiting \in [Customer -> {"no entry", "unknown", "counted", "undercounted"}]
    /\ \A c \in Customer : waiting[c] = "no entry" <=> c \notin ToSet(stored)
    /\ fresh \subseteq ToSet(stored)

\* The queue and the holder of each lock are who is queued and who is inside.
CounterLocksOK ==
    /\ counterHolder \in [Lock -> Coroutine \cup {NoOne}]
    /\ queue \in [Lock -> Seq(Coroutine)]
    /\ \A l \in Lock :
          /\ IsInjective(queue[l])
          /\ \A k \in Coroutine : (k \in ToSet(queue[l]) <=> Queued(k, l))
                                  /\ (k = counterHolder[l] <=> Inside(k, l))

\* The requests.
ReqsOK == req \in [Coroutine -> Queues!Progress]

\* A young subscription has a maker that is still to read, or had one.
SubscriptionsOK ==
    /\ subscription \in [Customer -> {"none", "young", "old"}]
    /\ orphaned \subseteq {c \in Customer : subscription[c] = "young"}
    /\ \A c \in Customer : subscription[c] = "young" =>
          c \in orphaned \/ \E k \in Coroutine : req[k].pc = "rereading" /\ req[k].customer = c

\* Each customer in the table has a lock of its own.
LockTableOK ==
    /\ counterLock \in [Customer -> Lock \cup {NoLock}]
    /\ \A c, d \in Customer : counterLock[c] # NoLock /\ counterLock[c] = counterLock[d] => c = d
    /\ LockTableIsBounded

\* The inductive invariant.
QueuesInv == CountersOK /\ CounterLocksOK /\ ReqsOK /\ SubscriptionsOK /\ LockTableOK

\* Its parts make up TypeOK of CallQueues.
LEMMA QueuesTypesLemma == QueuesInv => Queues!TypeOK
  <1> SUFFICES ASSUME QueuesInv PROVE Queues!TypeOK
    OBVIOUS
  <1>1. ASSUME NEW l \in Lock
        PROVE  /\ IsInjective(queue[l])
               /\ ToSet(queue[l]) = {k \in Queues!At({"locking"}) : req[k].lock = l}
               /\ {k \in Queues!At(Queues!InsideLock) : req[k].lock = l}
                       = {counterHolder[l]} \ {NoOne}
    <2>1. /\ IsInjective(queue[l]) /\ queue[l] \in Seq(Coroutine)
          /\ counterHolder[l] \in Coroutine \cup {NoOne}
          /\ \A k \in Coroutine : (k \in ToSet(queue[l]) <=> Queued(k, l))
                                  /\ (k = counterHolder[l] <=> Inside(k, l))
      BY DEF QueuesInv, CounterLocksOK
    <2>2. ToSet(queue[l]) \subseteq Coroutine
      BY <2>1 DEF ToSet
    <2> QED
      BY <2>1, <2>2, CacheAssumption DEF Queues!At, Queued, Inside
  <1> QED
    BY <1>1, QueuesLibrary DEF QueuesInv, CountersOK, CounterLocksOK, ReqsOK, SubscriptionsOK,
       LockTableOK,
       Queues!TypeOK

\* The state of a request.
LEMMA ReqLemma ==
  ASSUME ReqsOK, NEW k \in Coroutine
  PROVE  /\ req[k] \in Queues!Progress
         /\ req[k].pc \in {"idle", "locking"} \cup Queues!InsideLock
         /\ req[k].pc # "idle" =>
               /\ req[k].customer \in Customer /\ req[k].lock \in Lock
               /\ req[k] \in [pc: {"locking", "reading", "subscribing", "rereading"},
                              customer: Customer, lock: Lock]
         /\ req[k].pc = "idle" => req[k].lock \notin Lock
  <1>1. NoLock \notin Lock
    BY CacheAssumption
  <1> QED
    BY <1>1, QueuesLibrary DEF ReqsOK, Queues!Progress, Queues!Idle, Queues!InsideLock

\* Request k goes to state t.
ReqMoves(k, t) == t \in Queues!Progress /\ req' = [req EXCEPT ![k] = t]

\* What a step of request k leaves alone.
LEMMA ReqMovesLemma ==
  ASSUME ReqsOK, NEW k \in Coroutine, NEW t, ReqMoves(k, t)
  PROVE  /\ ReqsOK'
         /\ req'[k] = t /\ \A j \in Coroutine \ {k} : req'[j] = req[j]
  BY DEF ReqsOK, ReqMoves

\* Request k is in a queue, or holds a lock, as its state t says; the others are
\* where they were.
CounterLocksFollow(k, t) ==
    /\ counterHolder' \in [Lock -> Coroutine \cup {NoOne}]
    /\ queue' \in [Lock -> Seq(Coroutine)]
    /\ \A l \in Lock :
          /\ IsInjective(queue'[l])
          /\ \A j \in Coroutine \ {k} : /\ j \in ToSet(queue'[l]) <=> j \in ToSet(queue[l])
                                        /\ j = counterHolder'[l] <=> j = counterHolder[l]
          /\ k \in ToSet(queue'[l]) <=> t.pc = "locking" /\ t.lock = l
          /\ k = counterHolder'[l] <=> t.pc \in Queues!InsideLock /\ t.lock = l

\* The queue and the holder of every lock follow what k does.
LEMMA CounterLocksLemma ==
  ASSUME QueuesInv, NEW k \in Coroutine, NEW t, ReqMoves(k, t), CounterLocksFollow(k, t)
  PROVE  CounterLocksOK'
  <1>1. req'[k] = t /\ \A j \in Coroutine \ {k} : req'[j] = req[j]
    BY ReqMovesLemma DEF QueuesInv
  <1>2. ASSUME NEW l \in Lock, NEW j \in Coroutine
        PROVE  (j \in ToSet(queue'[l]) <=> Queued(j, l)')
             /\ (j = counterHolder'[l] <=> Inside(j, l)')
    <2>1. CASE j = k
      BY <1>1, <2>1 DEF CounterLocksFollow, Queued, Inside
    <2>2. CASE j # k
      <3>1. (j \in ToSet(queue[l]) <=> Queued(j, l)) /\ (j = counterHolder[l] <=> Inside(j, l))
        BY DEF QueuesInv, CounterLocksOK
      <3> QED
        BY <1>1, <2>2, <3>1 DEF CounterLocksFollow, Queued, Inside
    <2> QED
      BY <2>1, <2>2
  <1> QED
    BY <1>2 DEF CounterLocksFollow, CounterLocksOK

\* A step of a request that neither makes a subscription nor forgets one.
LEMMA SubscriptionsLemma ==
  ASSUME QueuesInv, NEW k \in Coroutine, NEW t, ReqMoves(k, t),
         UNCHANGED <<subscription, orphaned>>,
         req[k].pc = "rereading" => subscription[req[k].customer] # "young"
  PROVE  SubscriptionsOK'
  <1>1. req'[k] = t /\ \A j \in Coroutine \ {k} : req'[j] = req[j]
    BY ReqMovesLemma DEF QueuesInv
  <1> QED
    BY <1>1 DEF QueuesInv, SubscriptionsOK

\* The cached counters, or the table of locks, do not change.
LEMMA CountersLemma ==
  ASSUME CountersOK, UNCHANGED <<stored, waiting, fresh>>
  PROVE  CountersOK'
  BY DEF CountersOK

\* A step that leaves the table of locks alone.
LEMMA LockTableLemma ==
  ASSUME LockTableOK, UNCHANGED counterLock
  PROVE  LockTableOK'
  BY DEF LockTableOK, LockTableIsBounded, Queues!LockTableIsBounded, Queues!Tabled

\* There is a lock object to spare.
LEMMA CountersNewLock ==
  ASSUME QueuesInv
  PROVE  /\ Queues!NewLock \in Lock /\ Queues!NewLock \notin Range(counterLock)
         /\ \A k \in Coroutine : req[k].lock # Queues!NewLock
  <1> DEFINE refer == [k \in Coroutine |-> req[k].lock]
  <1>1. refer \in [Coroutine -> {req[k].lock : k \in Coroutine}]
    OBVIOUS
  <1>2. counterLock \in [Customer -> Lock \cup {NoLock}]
    BY DEF QueuesInv, LockTableOK
  <1>3. \E l \in Lock : l \notin Range(counterLock) /\ \A k \in Coroutine : refer[k] # l
    <2> HIDE DEF refer
    <2>1. HasSpareLock(counterLock, refer)
      BY <1>1, <1>2, SpareLockLemma
    <2> QED
      BY <2>1 DEF HasSpareLock
  <1>4. \E l \in Lock : l \notin Range(counterLock) /\ \A k \in Coroutine : req[k].lock # l
    BY <1>3
  <1> HIDE DEF refer
  <1> QED
    BY <1>4, QueuesLibrary DEF Queues!NewLock

\* An entry is put in as the newest one, and the stalest one may go.
LEMMA StoreLemma ==
  ASSUME CountersOK, NEW c \in Customer, NEW what \in {"unknown", "counted", "undercounted"},
         Queues!Store(c, what)
  PROVE  /\ CountersOK'
         /\ \A d \in Customer : \/ waiting'[d] \in {"no entry", waiting[d]}
                                \/ d = c /\ waiting'[d] = what
  <1> DEFINE rest == RemoveFirst(stored, c)
             order == Append(rest, c)
             crowded == Len(order) > CountersMax
             gone == IF crowded THEN {Head(order)} ELSE {}
  <1>1. /\ rest \in Seq(Customer) /\ IsInjective(rest) /\ ToSet(rest) = ToSet(stored) \ {c}
    BY RemoveFirstLemma DEF CountersOK
  <1>2. /\ stored' = IF crowded THEN Tail(order) ELSE order
        /\ waiting' = [d \in Customer |-> IF d \in gone THEN "no entry"
                                          ELSE IF d = c THEN what ELSE waiting[d]]
        /\ fresh' = (fresh \cup {c}) \ gone
    BY QueuesLibrary DEF Queues!Store
  <1> HIDE DEF rest
  <1>3. /\ order \in Seq(Customer) /\ IsInjective(order) /\ ToSet(order) = ToSet(stored) \cup {c}
        /\ order # <<>>
    BY <1>1, AppendLemma
  <1> HIDE DEF order
  <1>4. /\ stored' \in Seq(Customer) /\ IsInjective(stored')
        /\ ToSet(stored') = (ToSet(stored) \cup {c}) \ gone
    <2>1. CASE crowded
      BY <1>2, <1>3, <2>1, TailLemma
    <2>2. CASE ~crowded
      BY <1>2, <1>3, <2>2
    <2> QED
      BY <2>1, <2>2
  <1> HIDE DEF gone, crowded
  <1>5. /\ waiting \in [Customer -> {"no entry", "unknown", "counted", "undercounted"}]
        /\ \A d \in Customer : waiting[d] = "no entry" <=> d \notin ToSet(stored)
        /\ fresh \subseteq ToSet(stored)
    BY DEF CountersOK
  <1>6. waiting' \in [Customer -> {"no entry", "unknown", "counted", "undercounted"}]
    BY <1>2, <1>5
  <1>7. \A d \in Customer : waiting'[d] = "no entry" <=> d \notin ToSet(stored')
    BY <1>2, <1>4, <1>5
  <1>8. fresh' \subseteq ToSet(stored')
    BY <1>2, <1>4, <1>5
  <1>9. \A d \in Customer : \/ waiting'[d] \in {"no entry", waiting[d]}
                            \/ d = c /\ waiting'[d] = what
    BY <1>2
  <1> QED
    BY <1>4, <1>6, <1>7, <1>8, <1>9 DEF CountersOK

\* A request inside a lock leaves it.
LEMMA LeaveLemma ==
  ASSUME QueuesInv, NEW k \in Coroutine, req[k].pc \in Queues!InsideLock,
         Queues!Leave(k), UNCHANGED queue
  PROVE  CounterLocksOK' /\ ReqMoves(k, Queues!Idle)
  <1> DEFINE l == req[k].lock
  <1>1. /\ counterHolder' = [counterHolder EXCEPT ![l] = NoOne]
        /\ ReqMoves(k, Queues!Idle)
        /\ Queues!Idle.pc \notin {"locking"} \cup Queues!InsideLock
    BY QueuesLibrary DEF Queues!Leave, ReqMoves, Queues!Progress, Queues!Idle, Queues!InsideLock
  <1>2. l \in Lock /\ req[k].pc # "locking"
    BY ReqLemma DEF QueuesInv, Queues!InsideLock
  <1>3. /\ counterHolder \in [Lock -> Coroutine \cup {NoOne}]
        /\ queue \in [Lock -> Seq(Coroutine)] /\ \A m \in Lock : IsInjective(queue[m])
    BY DEF QueuesInv, CounterLocksOK
  <1>4. \A m \in Lock : k \notin ToSet(queue[m]) /\ (k = counterHolder[m] <=> m = l)
    BY <1>2 DEF QueuesInv, CounterLocksOK, Queued, Inside
  <1>5. \A m \in Lock : counterHolder'[m] = IF m = l THEN NoOne ELSE counterHolder[m]
    BY <1>1, <1>2, <1>3
  <1> HIDE DEF l
  <1>6. NoOne \notin Coroutine
    BY CacheAssumption
  <1>7. CounterLocksFollow(k, Queues!Idle)
    BY <1>1, <1>2, <1>3, <1>4, <1>5, <1>6 DEF CounterLocksFollow
  <1> QED
    BY <1>1, <1>7, CounterLocksLemma

\* Request k goes on to pc for the same customer, under the same lock.
GoesOn(k, pc) ==
    \E t : ReqMoves(k, t) /\ t.pc = pc /\ t.lock = req[k].lock /\ t.customer = req[k].customer

\* A request goes on inside its lock.
LEMMA StaysInsideLemma ==
  ASSUME QueuesInv, NEW k \in Coroutine, req[k].pc \in Queues!InsideLock,
         NEW pc \in Queues!InsideLock, req' = [req EXCEPT ![k].pc = pc],
         UNCHANGED <<counterHolder, queue>>
  PROVE  CounterLocksOK' /\ GoesOn(k, pc)
  <1> DEFINE t == [req[k] EXCEPT !.pc = pc]
  <1>1. req[k] \in [pc: {"locking", "reading", "subscribing", "rereading"},
                    customer: Customer, lock: Lock]
    BY ReqLemma DEF QueuesInv, Queues!InsideLock
  <1>2. t \in Queues!Progress /\ t.pc = pc /\ t.lock = req[k].lock /\ t.customer = req[k].customer
    BY <1>1 DEF Queues!Progress, Queues!InsideLock
  <1>3. ReqMoves(k, t)
    BY <1>2 DEF ReqMoves
  <1>4. req[k].pc # "locking" /\ pc # "locking"
    BY DEF Queues!InsideLock
  <1>5. \A m \in Lock : /\ k \notin ToSet(queue[m]) /\ IsInjective(queue[m])
                        /\ (k = counterHolder[m] <=> m = req[k].lock)
    BY <1>4 DEF QueuesInv, CounterLocksOK, Queued, Inside
  <1> HIDE DEF t
  <1>6. CounterLocksOK'
    <2>1. counterHolder \in [Lock -> Coroutine \cup {NoOne}] /\ queue \in [Lock -> Seq(Coroutine)]
      BY DEF QueuesInv, CounterLocksOK
    <2>2. CounterLocksFollow(k, t)
      BY <1>2, <1>4, <1>5, <2>1 DEF CounterLocksFollow
    <2> QED
      BY <1>3, <2>2, CounterLocksLemma
  <1> QED
    BY <1>2, <1>3, <1>6 DEF GoesOn

\* The switch answers a read of customer c by request k, which is not the maker
\* of a young subscription of another customer.
LEMMA CaughtUpLemma ==
  ASSUME QueuesInv, NEW k \in Coroutine, req[k].pc \in Queues!InsideLock,
         ReqMoves(k, Queues!Idle), Queues!CaughtUp(req[k].customer)
  PROVE  SubscriptionsOK'
  <1>1. req'[k] = Queues!Idle /\ \A j \in Coroutine \ {k} : req'[j] = req[j]
    BY ReqMovesLemma DEF QueuesInv
  <1>2. req[k].customer \in Customer
    BY ReqLemma DEF QueuesInv, Queues!InsideLock
  <1> QED
    BY <1>1, <1>2 DEF QueuesInv, SubscriptionsOK, Queues!CaughtUp

\* A request is gone before its read, and leaves its young subscription behind.
LEMMA GivenUpLemma ==
  ASSUME QueuesInv, NEW k \in Coroutine, req[k].pc # "idle",
         ReqMoves(k, Queues!Idle), Queues!GivenUp(k), UNCHANGED subscription
  PROVE  SubscriptionsOK'
  <1>1. req'[k] = Queues!Idle /\ \A j \in Coroutine \ {k} : req'[j] = req[j]
    BY ReqMovesLemma DEF QueuesInv
  <1>2. req[k].customer \in Customer
    BY ReqLemma DEF QueuesInv
  <1> QED
    BY <1>1, <1>2 DEF QueuesInv, SubscriptionsOK, Queues!GivenUp

\* A request gets the lock, or finds its counter stored meanwhile.
LEMMA ResumeCounters ==
  ASSUME QueuesInv, NEW k \in Coroutine, Queues!Resume(k)
  PROVE  QueuesInv'
  <1> DEFINE l == req[k].lock
  <1>1. /\ req[k].pc = "locking" /\ counterHolder[l] = NoOne /\ Head(queue[l]) = k
        /\ queue' = [queue EXCEPT ![l] = Tail(@)]
        /\ \/ req' = [req EXCEPT ![k] = Queues!Idle] /\ UNCHANGED counterHolder
           \/ /\ req' = [req EXCEPT ![k].pc = "reading"]
              /\ counterHolder' = [counterHolder EXCEPT ![l] = k]
        /\ UNCHANGED <<subscription, orphaned, stored, waiting, fresh, counterLock>>
    BY QueuesLibrary DEF Queues!Resume
  <1>2. l \in Lock /\ req[k] \in [pc: {"locking", "reading", "subscribing", "rereading"},
                                  customer: Customer, lock: Lock]
    BY <1>1, ReqLemma DEF QueuesInv
  <1>3. /\ counterHolder \in [Lock -> Coroutine \cup {NoOne}]
        /\ queue \in [Lock -> Seq(Coroutine)] /\ \A m \in Lock : IsInjective(queue[m])
    BY DEF QueuesInv, CounterLocksOK
  <1>4. \A m \in Lock : (k \in ToSet(queue[m]) <=> m = l) /\ k # counterHolder[m]
    BY <1>1, <1>2 DEF QueuesInv, CounterLocksOK, Queued, Inside, Queues!InsideLock
  <1>5. /\ Tail(queue[l]) \in Seq(Coroutine) /\ IsInjective(Tail(queue[l]))
        /\ ToSet(Tail(queue[l])) = ToSet(queue[l]) \ {k}
    <2>1. queue[l] # <<>>
      BY <1>2, <1>4 DEF ToSet
    <2> QED
      BY <1>1, <1>2, <1>3, <2>1, TailLemma
  <1>6. /\ queue' \in [Lock -> Seq(Coroutine)]
        /\ \A m \in Lock : queue'[m] = IF m = l THEN Tail(queue[l]) ELSE queue[m]
    BY <1>1, <1>2, <1>3, <1>5
  <1>7. CountersOK' /\ LockTableOK'
    BY <1>1, CountersLemma, LockTableLemma DEF QueuesInv
  <1> HIDE DEF l
  <1>8. \A m \in Lock : /\ IsInjective(queue'[m]) /\ k \notin ToSet(queue'[m])
                        /\ \A j \in Coroutine \ {k} :
                              j \in ToSet(queue'[m]) <=> j \in ToSet(queue[m])
    BY <1>3, <1>4, <1>5, <1>6
  <1>9. CASE req' = [req EXCEPT ![k] = Queues!Idle] /\ UNCHANGED counterHolder
    <2>1. ReqMoves(k, Queues!Idle) /\ Queues!Idle.pc \notin {"locking"} \cup Queues!InsideLock
      BY <1>9 DEF ReqMoves, Queues!Progress, Queues!Idle, Queues!InsideLock
    <2>2. CounterLocksOK'
      <3>1. CounterLocksFollow(k, Queues!Idle)
        BY <1>3, <1>4, <1>6, <1>8, <1>9, <2>1 DEF CounterLocksFollow
      <3> QED
        BY <2>1, <3>1, CounterLocksLemma
    <2> QED
      BY <1>1, <1>7, <2>1, <2>2, ReqMovesLemma, SubscriptionsLemma DEF QueuesInv
  <1>10. CASE req' = [req EXCEPT ![k].pc = "reading"]
       /\ counterHolder' = [counterHolder EXCEPT ![l] = k]
    <2> DEFINE t == [req[k] EXCEPT !.pc = "reading"]
    <2>1. t \in Queues!Progress /\ t.pc = "reading" /\ t.lock = l
      BY <1>2 DEF Queues!Progress, l
    <2>2. ReqMoves(k, t)
      BY <1>10, <2>1 DEF ReqMoves
    <2> HIDE DEF t
    <2>3. /\ counterHolder' \in [Lock -> Coroutine \cup {NoOne}]
          /\ counterHolder'[l] = k /\ counterHolder[l] \notin Coroutine
          /\ \A m \in Lock \ {l} : counterHolder'[m] = counterHolder[m]
      BY <1>1, <1>2, <1>3, <1>10, CacheAssumption DEF l
    <2>4. "reading" \in Queues!InsideLock /\ "reading" # "locking"
      BY DEF Queues!InsideLock
    <2>5. CounterLocksOK'
      <3>1. CounterLocksFollow(k, t)
        BY <1>2, <1>3, <1>4, <1>6, <1>8, <2>1, <2>3, <2>4 DEF CounterLocksFollow
      <3> QED
        BY <2>2, <3>1, CounterLocksLemma
    <2> QED
      BY <1>1, <1>7, <2>2, <2>5, ReqMovesLemma, SubscriptionsLemma DEF QueuesInv
  <1> QED
    BY <1>1, <1>9, <1>10

\* The number is read from the subscription, or there is none yet.
LEMMA ReadCounters ==
  ASSUME QueuesInv, NEW k \in Coroutine, Queues!Read(k)
  PROVE  QueuesInv'
  <1> DEFINE c == req[k].customer
  <1>1. /\ req[k].pc = "reading" /\ req[k].pc \in Queues!InsideLock /\ c \in Customer
        /\ UNCHANGED <<counterLock, queue>>
    BY ReqLemma DEF QueuesInv, Queues!Read, Queues!InsideLock
  <1>2. CASE subscription[c] = "none"
    <2>1. /\ req' = [req EXCEPT ![k].pc = "subscribing"] /\ "subscribing" \in Queues!InsideLock
          /\ UNCHANGED <<subscription, orphaned, stored, waiting, fresh, counterHolder>>
      BY <1>2 DEF Queues!Read, Queues!InsideLock
    <2>2. PICK t : ReqMoves(k, t)
      <3>1. GoesOn(k, "subscribing")
        BY <1>1, <2>1, StaysInsideLemma
      <3> QED
        BY <3>1 DEF GoesOn
    <2> QED
      BY <1>1, <2>1, <2>2, StaysInsideLemma, ReqMovesLemma, SubscriptionsLemma, CountersLemma,
         LockTableLemma
      DEF QueuesInv
  <1>3. CASE subscription[c] # "none"
    <2>1. PICK what \in {"unknown", "counted", "undercounted"} :
             Queues!Store(c, what) /\ Queues!CaughtUp(c) /\ Queues!Leave(k)
      BY <1>3 DEF Queues!Read
    <2> QED
      BY <1>1, <2>1, StoreLemma, LeaveLemma, ReqMovesLemma, CaughtUpLemma, LockTableLemma
         DEF QueuesInv
  <1> QED
    BY <1>2, <1>3

\* A subscription is made: its maker is still to read.
LEMMA SubscribeCounters ==
  ASSUME QueuesInv, NEW k \in Coroutine, Queues!Subscribe(k)
  PROVE  QueuesInv'
  <1> DEFINE c == req[k].customer
  <1>1. /\ req[k].pc = "subscribing" /\ req[k].pc \in Queues!InsideLock /\ c \in Customer
        /\ "rereading" \in Queues!InsideLock
        /\ subscription' = [subscription EXCEPT ![c] = IF @ = "old" THEN @ ELSE "young"]
        /\ orphaned' = orphaned \ {c}
        /\ req' = [req EXCEPT ![k].pc = "rereading"]
        /\ UNCHANGED <<stored, waiting, fresh, counterLock, counterHolder, queue>>
    BY ReqLemma DEF QueuesInv, Queues!Subscribe, Queues!InsideLock
  <1>2. PICK t : ReqMoves(k, t) /\ t.pc = "rereading" /\ t.customer = c
    <2>1. GoesOn(k, "rereading")
      BY <1>1, StaysInsideLemma
    <2> QED
      BY <2>1 DEF GoesOn
  <1>3. /\ CounterLocksOK' /\ ReqsOK' /\ req'[k] = t
        /\ \A j \in Coroutine \ {k} : req'[j] = req[j]
    BY <1>1, <1>2, StaysInsideLemma, ReqMovesLemma DEF QueuesInv
  <1> HIDE DEF c
  <1>4. SubscriptionsOK'
    <2>1. /\ subscription \in [Customer -> {"none", "young", "old"}]
          /\ orphaned \subseteq {d \in Customer : subscription[d] = "young"}
          /\ \A d \in Customer : subscription[d] = "young" =>
                d \in orphaned \/ \E j \in Coroutine : req[j].pc = "rereading"
                     /\ req[j].customer = d
      BY DEF QueuesInv, SubscriptionsOK
    <2>2. /\ subscription' \in [Customer -> {"none", "young", "old"}]
          /\ \A d \in Customer \ {c} : subscription'[d] = subscription[d]
      BY <1>1, <2>1
    <2>3. orphaned' \subseteq {d \in Customer : subscription'[d] = "young"}
      BY <1>1, <2>1, <2>2
    <2>4. ASSUME NEW d \in Customer, subscription'[d] = "young"
          PROVE  d \in orphaned' \/ \E j \in Coroutine : req'[j].pc = "rereading"
               /\ req'[j].customer = d
      <3>1. CASE d = c
        BY <1>2, <1>3, <3>1
      <3>2. CASE d # c
        <4>1. d \in orphaned \/ \E j \in Coroutine : req[j].pc = "rereading" /\ req[j].customer = d
          BY <2>1, <2>2, <2>4, <3>2
        <4> QED
          BY <1>1, <1>3, <3>2, <4>1
      <3> QED
        BY <3>1, <3>2
    <2> QED
      BY <2>2, <2>3, <2>4 DEF SubscriptionsOK
  <1> QED
    BY <1>1, <1>3, <1>4, CountersLemma, LockTableLemma DEF QueuesInv

\* The number is read once more.
LEMMA RereadCounters ==
  ASSUME QueuesInv, NEW k \in Coroutine, Queues!Reread(k)
  PROVE  QueuesInv'
  <1> DEFINE c == req[k].customer
  <1>1. /\ req[k].pc = "rereading" /\ req[k].pc \in Queues!InsideLock /\ c \in Customer
        /\ Queues!Store(c, "unknown") /\ Queues!Leave(k)
        /\ \/ subscription[c] = "none" /\ UNCHANGED <<subscription, orphaned>>
           \/ Queues!CaughtUp(c)
        /\ UNCHANGED <<counterLock, queue>>
    BY ReqLemma DEF QueuesInv, Queues!Reread, Queues!InsideLock
  <1>2. CounterLocksOK' /\ ReqsOK' /\ ReqMoves(k, Queues!Idle)
    BY <1>1, LeaveLemma, ReqMovesLemma DEF QueuesInv
  <1>3. SubscriptionsOK'
    BY <1>1, <1>2, CaughtUpLemma, SubscriptionsLemma
  <1> QED
    BY <1>1, <1>2, <1>3, StoreLemma, LockTableLemma DEF QueuesInv

\* A call to the switch fails inside the lock.
LEMMA FailCounters ==
  ASSUME QueuesInv, NEW k \in Coroutine, Queues!Fail(k)
  PROVE  QueuesInv'
  <1>1. /\ req[k].pc \in Queues!InsideLock /\ req[k].pc # "idle" /\ req[k].customer \in Customer
        /\ Queues!Store(req[k].customer, "unknown") /\ Queues!Leave(k) /\ Queues!GivenUp(k)
        /\ UNCHANGED <<subscription, counterLock, queue>>
    BY ReqLemma DEF QueuesInv, Queues!Fail, Queues!InsideLock
  <1>2. CounterLocksOK' /\ ReqsOK' /\ ReqMoves(k, Queues!Idle)
    BY <1>1, LeaveLemma, ReqMovesLemma DEF QueuesInv
  <1> QED
    BY <1>1, <1>2, GivenUpLemma, StoreLemma, LockTableLemma DEF QueuesInv

\* A request is cancelled, in the queue or inside the lock.
LEMMA CancelCounters ==
  ASSUME QueuesInv, NEW k \in Coroutine, Queues!Cancel(k)
  PROVE  QueuesInv'
  <1> DEFINE l == req[k].lock
  <1>1. /\ req[k].pc # "idle" /\ Queues!GivenUp(k)
        /\ UNCHANGED <<subscription, stored, waiting, fresh, counterLock>>
    BY DEF Queues!Cancel
  <1>2. CASE req[k].pc # "locking"
    <2>1. req[k].pc \in Queues!InsideLock /\ Queues!Leave(k) /\ UNCHANGED queue
      BY <1>1, <1>2, ReqLemma DEF QueuesInv, Queues!Cancel
    <2>2. CounterLocksOK' /\ ReqsOK' /\ ReqMoves(k, Queues!Idle)
      BY <2>1, LeaveLemma, ReqMovesLemma DEF QueuesInv
    <2> QED
      BY <1>1, <2>2, GivenUpLemma, CountersLemma, LockTableLemma DEF QueuesInv
  <1>3. CASE req[k].pc = "locking"
    <2>1. /\ queue' = [queue EXCEPT ![l] = RemoveFirst(@, k)]
          /\ req' = [req EXCEPT ![k] = Queues!Idle] /\ UNCHANGED counterHolder
      BY <1>3, QueuesLibrary DEF Queues!Cancel
    <2>2. l \in Lock
      BY <1>3, ReqLemma DEF QueuesInv
    <2>3. /\ counterHolder \in [Lock -> Coroutine \cup {NoOne}]
          /\ queue \in [Lock -> Seq(Coroutine)] /\ \A m \in Lock : IsInjective(queue[m])
      BY DEF QueuesInv, CounterLocksOK
    <2>4. \A m \in Lock : (k \in ToSet(queue[m]) <=> m = l) /\ k # counterHolder[m]
      BY <1>3, <2>2 DEF QueuesInv, CounterLocksOK, Queued, Inside, Queues!InsideLock
    <2>5. /\ RemoveFirst(queue[l], k) \in Seq(Coroutine) /\ IsInjective(RemoveFirst(queue[l], k))
          /\ ToSet(RemoveFirst(queue[l], k)) = ToSet(queue[l]) \ {k}
      BY <2>2, <2>3, RemoveFirstLemma
    <2>6. ReqMoves(k, Queues!Idle) /\ Queues!Idle.pc \notin {"locking"} \cup Queues!InsideLock
      BY <2>1 DEF ReqMoves, Queues!Progress, Queues!Idle, Queues!InsideLock
    <2> HIDE DEF l
    <2>7. /\ queue' \in [Lock -> Seq(Coroutine)]
          /\ \A m \in Lock : queue'[m] = IF m = l THEN RemoveFirst(queue[l], k) ELSE queue[m]
      BY <2>1, <2>2, <2>3, <2>5
    <2>8. \A m \in Lock : /\ IsInjective(queue'[m]) /\ k \notin ToSet(queue'[m])
                          /\ \A j \in Coroutine \ {k} :
                                j \in ToSet(queue'[m]) <=> j \in ToSet(queue[m])
      BY <2>3, <2>4, <2>5, <2>7
    <2>9. CounterLocksOK' /\ ReqsOK'
      <3>1. CounterLocksFollow(k, Queues!Idle)
        BY <2>1, <2>3, <2>4, <2>6, <2>7, <2>8 DEF CounterLocksFollow
      <3> QED
        BY <2>6, <3>1, CounterLocksLemma, ReqMovesLemma DEF QueuesInv
    <2> QED
      BY <1>1, <2>6, <2>9, GivenUpLemma, CountersLemma, LockTableLemma DEF QueuesInv
  <1> QED
    BY <1>2, <1>3

\* The admin session is renewed, or an entry passes its lifetime.
LEMMA TimeCounters ==
  ASSUME QueuesInv, Queues!SessionRenewed \/ \E i \in DOMAIN stored : Queues!Expire(i)
  PROVE  QueuesInv'
  <1>1. UNCHANGED <<stored, waiting, counterLock, counterHolder, queue, req>>
       /\ fresh' \subseteq fresh
    BY DEF Queues!SessionRenewed, Queues!Expire
  <1>2. CountersOK' /\ LockTableOK'
    BY <1>1, LockTableLemma DEF QueuesInv, CountersOK
  <1>3. CounterLocksOK' /\ ReqsOK'
    BY <1>1 DEF QueuesInv, CounterLocksOK, ReqsOK, Queued, Inside
  <1>4. SubscriptionsOK'
    BY <1>1 DEF QueuesInv, SubscriptionsOK, Queues!SessionRenewed, Queues!Expire
  <1> QED
    BY <1>2, <1>3, <1>4 DEF QueuesInv

\* The larger of two numbers bounds both.
LEMMA MaxLemma ==
  ASSUME NEW a \in Nat, NEW b \in Nat
  PROVE  /\ Queues!Max({a, b}) \in Nat
         /\ a <= Queues!Max({a, b}) /\ b <= Queues!Max({a, b})
  <1>1. PICK x \in {a, b} : \A y \in {a, b} : x >= y
    <2>1. CASE a >= b
      BY <2>1
    <2>2. CASE b >= a
      BY <2>2
    <2> QED
      BY <2>1, <2>2
  <1>2. Queues!Max({a, b}) \in {a, b} /\ \A y \in {a, b} : Queues!Max({a, b}) >= y
    BY <1>1 DEF Queues!Max
  <1> QED
    BY <1>2

\* A set is bounded when it is within the limit, or no larger than the requests.
LEMMA BoundedLemma ==
  ASSUME NEW T, IsFiniteSet(T),
         Cardinality(T) <= CountersMax \/ Cardinality(T) <= Cardinality(Coroutine)
  PROVE  Cardinality(T) <= Queues!Max({CountersMax, Cardinality(Coroutine)})
  <1>1. Cardinality(T) \in Nat /\ Cardinality(Coroutine) \in Nat /\ CountersMax \in Nat
    BY FS_CardinalityType, CacheAssumption, ReadsAssumption
  <1>2. /\ Queues!Max({CountersMax, Cardinality(Coroutine)}) \in Nat
        /\ CountersMax <= Queues!Max({CountersMax, Cardinality(Coroutine)})
        /\ Cardinality(Coroutine) <= Queues!Max({CountersMax, Cardinality(Coroutine)})
    BY <1>1, MaxLemma
  <1> QED
    BY <1>1, <1>2

\* The lock of customer c enters the table, and those nobody holds leave it
\* when there are too many.  The ones that stay then have a holder each.
LEMMA WithLockLemma ==
  ASSUME QueuesInv, NEW k \in Coroutine, req[k].pc = "idle", NEW c \in Customer,
         counterLock' = Queues!WithLock(c)
  PROVE  counterLock'[c] \in Lock /\ LockTableOK'
  <1>1. /\ counterLock \in [Customer -> Lock \cup {NoLock}] /\ NoLock \notin Lock
        /\ \A d, e \in Customer : counterLock[d] # NoLock
                /\ counterLock[d] = counterLock[e] => d = e
        /\ Queues!Tabled = {d \in Customer : counterLock[d] # NoLock}
        /\ Queues!Tabled' = {d \in Customer : counterLock'[d] # NoLock}
    BY QueuesLibrary, CacheAssumption DEF QueuesInv, LockTableOK, Queues!Tabled
  <1>2. CASE c \in Queues!Tabled
    <2>1. counterLock' = counterLock
      BY <1>2 DEF Queues!WithLock
    <2> QED
      BY <1>1, <1>2, <2>1, LockTableLemma DEF QueuesInv
  <1>3. CASE c \notin Queues!Tabled
    <2> DEFINE crowded == Cardinality(Queues!Tabled) + 1 > CountersMax
               l == Queues!NewLock
    <2>1. l \in Lock /\ l \notin Range(counterLock)
      BY CountersNewLock
    <2>2. counterLock' = [d \in Customer |->
             IF d = c THEN l
             ELSE IF crowded /\ d \in Queues!Tabled
                  /\ counterHolder[counterLock[d]] = NoOne THEN NoLock
             ELSE counterLock[d]]
      BY <1>3, QueuesLibrary DEF Queues!WithLock
    <2>3. \A d \in Customer : counterLock[d] # l
      BY <1>1, <2>1 DEF Range
    <2> HIDE DEF l, crowded
    <2>4. /\ counterLock' \in [Customer -> Lock \cup {NoLock}] /\ counterLock'[c] = l
          /\ \A d \in Customer \ {c} : counterLock'[d] \in {NoLock, counterLock[d]}
      BY <1>1, <2>1, <2>2
    <2>5. \A d, e \in Customer : counterLock'[d] # NoLock
         /\ counterLock'[d] = counterLock'[e] => d = e
      BY <1>1, <2>1, <2>3, <2>4
    <2>6. /\ IsFiniteSet(Queues!Tabled) /\ IsFiniteSet(Queues!Tabled')
          /\ Queues!Tabled' \subseteq Queues!Tabled \cup {c}
      <3>1. Queues!Tabled \in SUBSET Customer /\ Queues!Tabled' \in SUBSET Customer
        BY <1>1
      <3> QED
        BY <1>1, <2>4, <3>1, FS_Subset, CacheAssumption
    <2>7. CASE ~crowded
      <3>1. Cardinality(Queues!Tabled \cup {c}) <= CountersMax
           /\ IsFiniteSet(Queues!Tabled \cup {c})
        <4>1. Cardinality(Queues!Tabled) \in Nat
          BY <2>6, FS_CardinalityType
        <4>2. /\ IsFiniteSet(Queues!Tabled \cup {c})
              /\ Cardinality(Queues!Tabled \cup {c}) = Cardinality(Queues!Tabled) + 1
          BY <1>3, <2>6, FS_AddElement
        <4> QED
          BY <2>7, <4>1, <4>2, ReadsAssumption DEF crowded
      <3>2. Cardinality(Queues!Tabled') <= Cardinality(Queues!Tabled \cup {c})
        BY <2>6, <3>1, FS_Subset
      <3>3. Cardinality(Queues!Tabled') <= CountersMax
        <4>1. Cardinality(Queues!Tabled') \in Nat /\ Cardinality(Queues!Tabled \cup {c}) \in Nat
          BY <2>6, <3>1, FS_CardinalityType
        <4> QED
          BY <3>1, <3>2, <4>1, ReadsAssumption
      <3>4. LockTableIsBounded'
        BY <2>6, <3>3, BoundedLemma, QueuesLibrary DEF LockTableIsBounded, Queues!LockTableIsBounded
      <3> QED
        BY <2>1, <2>4, <2>5, <3>4 DEF LockTableOK
    <2>8. CASE crowded
      <3> DEFINE g == [d \in Queues!Tabled' |-> IF d = c THEN k ELSE counterHolder[counterLock[d]]]
      <3>1. ASSUME NEW d \in Queues!Tabled', d # c
            PROVE  /\ d \in Customer /\ counterLock[d] \in Lock
                   /\ counterHolder[counterLock[d]] \in Coroutine
                   /\ counterHolder[counterLock[d]] # k
                   /\ Inside(counterHolder[counterLock[d]], counterLock[d])
        <4>1. d \in Customer /\ counterLock[d] \in Lock /\ counterHolder[counterLock[d]] # NoOne
          BY <1>1, <2>2, <2>8, <3>1
        <4>2. counterHolder[counterLock[d]] \in Coroutine
          BY <4>1 DEF QueuesInv, CounterLocksOK
        <4>3. Inside(counterHolder[counterLock[d]], counterLock[d])
          BY <4>1, <4>2 DEF QueuesInv, CounterLocksOK
        <4> QED
          BY <4>1, <4>2, <4>3 DEF Inside, Queues!InsideLock
      <3>2. g \in [Queues!Tabled' -> Coroutine]
        BY <3>1
      <3>3. ASSUME NEW d \in Queues!Tabled', NEW e \in Queues!Tabled', g[d] = g[e]
            PROVE  d = e
        <4>1. CASE d = c \/ e = c
          BY <3>1, <3>3, <4>1
        <4>2. CASE d # c /\ e # c
          <5>1. counterHolder[counterLock[d]] = counterHolder[counterLock[e]]
            BY <3>3, <4>2
          <5>2. counterLock[d] = counterLock[e]
            BY <3>1, <4>2, <5>1 DEF Inside
          <5> QED
            BY <1>1, <3>1, <4>2, <5>2
        <4> QED
          BY <4>1, <4>2
      <3> HIDE DEF g
      <3>4. g \in Injection(Queues!Tabled', Coroutine)
        BY <3>2, <3>3 DEF Injection, IsInjective
      <3>5. Cardinality(Queues!Tabled') <= Cardinality(Coroutine)
        BY <3>4, FS_Injection, CacheAssumption
      <3>6. LockTableIsBounded'
        BY <2>6, <3>5, BoundedLemma, QueuesLibrary DEF LockTableIsBounded, Queues!LockTableIsBounded
      <3> QED
        BY <2>1, <2>4, <2>5, <3>6 DEF LockTableOK
    <2> QED
      BY <2>7, <2>8
  <1> QED
    BY <1>2, <1>3

\* A request comes for a customer.
LEMMA PollCounters ==
  ASSUME QueuesInv, NEW k \in Coroutine, NEW c \in Customer, Queues!Poll(k, c)
  PROVE  QueuesInv'
  <1> DEFINE l == counterLock'[c]
  <1>1. /\ req[k].pc = "idle" /\ counterLock' = Queues!WithLock(c)
        /\ UNCHANGED <<subscription, orphaned, stored, waiting, fresh>>
    BY DEF Queues!Poll
  <1>2. l \in Lock /\ LockTableOK'
    BY <1>1, WithLockLemma
  <1>3. /\ counterHolder \in [Lock -> Coroutine \cup {NoOne}]
        /\ queue \in [Lock -> Seq(Coroutine)] /\ \A m \in Lock : IsInjective(queue[m])
    BY DEF QueuesInv, CounterLocksOK
  <1>4. \A m \in Lock : k \notin ToSet(queue[m]) /\ k # counterHolder[m]
    BY <1>1 DEF QueuesInv, CounterLocksOK, Queued, Inside, Queues!InsideLock
  <1>5. CountersOK'
    BY <1>1, CountersLemma DEF QueuesInv
  <1>6. ASSUME NEW t, ReqMoves(k, t), CounterLocksOK' PROVE QueuesInv'
    BY <1>1, <1>2, <1>5, <1>6, ReqMovesLemma, SubscriptionsLemma DEF QueuesInv
  <1> DEFINE t(pc) == [pc |-> pc, customer |-> c, lock |-> l]
  <1>7. /\ t("reading") \in Queues!Progress /\ t("reading").pc = "reading" /\ t("reading").lock = l
        /\ t("locking") \in Queues!Progress /\ t("locking").pc = "locking" /\ t("locking").lock = l
        /\ "reading" \in Queues!InsideLock /\ "locking" \notin Queues!InsideLock
    BY <1>2 DEF Queues!Progress, Queues!InsideLock
  <1>8. \/ /\ counterHolder[l] = NoOne
           /\ counterHolder' = [counterHolder EXCEPT ![l] = k]
           /\ req' = [req EXCEPT ![k] = t("reading")] /\ UNCHANGED queue
        \/ /\ queue' = [queue EXCEPT ![l] = Append(@, k)]
           /\ req' = [req EXCEPT ![k] = t("locking")] /\ UNCHANGED counterHolder
    BY <1>1, QueuesLibrary DEF Queues!Poll
  <1> HIDE DEF l, t
  <1>9. CASE /\ counterHolder[l] = NoOne
             /\ counterHolder' = [counterHolder EXCEPT ![l] = k]
             /\ req' = [req EXCEPT ![k] = t("reading")] /\ UNCHANGED queue
    <2>1. ReqMoves(k, t("reading"))
      BY <1>7, <1>9 DEF ReqMoves
    <2>2. /\ counterHolder' \in [Lock -> Coroutine \cup {NoOne}]
          /\ counterHolder'[l] = k /\ counterHolder[l] \notin Coroutine
          /\ \A m \in Lock \ {l} : counterHolder'[m] = counterHolder[m]
      BY <1>2, <1>3, <1>9, CacheAssumption
    <2>3. CounterLocksOK'
      <3>1. CounterLocksFollow(k, t("reading"))
        BY <1>2, <1>3, <1>4, <1>7, <1>9, <2>2 DEF CounterLocksFollow
      <3> QED
        BY <2>1, <3>1, CounterLocksLemma
    <2> QED
      BY <1>6, <2>1, <2>3
  <1>10. CASE /\ queue' = [queue EXCEPT ![l] = Append(@, k)]
              /\ req' = [req EXCEPT ![k] = t("locking")] /\ UNCHANGED counterHolder
    <2>1. ReqMoves(k, t("locking"))
      BY <1>7, <1>10 DEF ReqMoves
    <2>2. /\ Append(queue[l], k) \in Seq(Coroutine) /\ IsInjective(Append(queue[l], k))
          /\ ToSet(Append(queue[l], k)) = ToSet(queue[l]) \cup {k}
      BY <1>2, <1>3, <1>4, AppendLemma
    <2>3. /\ queue' \in [Lock -> Seq(Coroutine)]
          /\ \A m \in Lock : queue'[m] = IF m = l THEN Append(queue[l], k) ELSE queue[m]
      BY <1>2, <1>3, <1>10, <2>2
    <2>4. \A m \in Lock : /\ IsInjective(queue'[m]) /\ (k \in ToSet(queue'[m]) <=> m = l)
                          /\ \A j \in Coroutine \ {k} :
                                j \in ToSet(queue'[m]) <=> j \in ToSet(queue[m])
      BY <1>3, <1>4, <2>2, <2>3
    <2>5. CounterLocksOK'
      <3>1. CounterLocksFollow(k, t("locking"))
        BY <1>2, <1>3, <1>4, <1>7, <1>10, <2>3, <2>4 DEF CounterLocksFollow
      <3> QED
        BY <2>1, <3>1, CounterLocksLemma
    <2> QED
      BY <1>6, <2>1, <2>5
  <1> QED
    BY <1>8, <1>9, <1>10

\* Nothing is cached, subscribed, locked or asked at first.
LEMMA QueuesInit == Queues!Init => QueuesInv
  <1> SUFFICES ASSUME Queues!Init PROVE QueuesInv
    OBVIOUS
  <1>1. CountersOK
    <2>1. stored = <<>> /\ fresh = {} /\ waiting = [c \in Customer |-> "no entry"]
      BY DEF Queues!Init
    <2>2. <<>> \in Seq(Customer) /\ IsInjective(<<>>) /\ ToSet(<<>>) = {}
      BY DEF IsInjective, ToSet
    <2> QED
      BY <2>1, <2>2 DEF CountersOK
  <1>2. /\ \A l \in Lock : queue[l] = <<>> /\ counterHolder[l] = NoOne
        /\ \A k \in Coroutine : req[k] = Queues!Idle /\ req[k].pc = "idle"
    BY QueuesLibrary DEF Queues!Init, Queues!Idle
  <1>3. CounterLocksOK
    <2>1. IsInjective(<<>>) /\ ToSet(<<>>) = {}
      BY DEF IsInjective, ToSet
    <2>2. counterHolder \in [Lock -> Coroutine \cup {NoOne}] /\ queue \in [Lock -> Seq(Coroutine)]
      <3>1. counterHolder = [l \in Lock |-> NoOne] /\ queue = [l \in Lock |-> <<>>]
        BY QueuesLibrary DEF Queues!Init
      <3>2. <<>> \in Seq(Coroutine)
        OBVIOUS
      <3> QED
        BY <3>1, <3>2
    <2> QED
      BY <1>2, <2>1, <2>2, CacheAssumption DEF CounterLocksOK, Queued, Inside, Queues!InsideLock
  <1>4. ReqsOK
    BY DEF Queues!Init, ReqsOK, Queues!Progress
  <1>5. SubscriptionsOK
    BY DEF Queues!Init, SubscriptionsOK
  <1>6. LockTableOK
    <2>1. counterLock = [c \in Customer |-> NoLock]
      BY QueuesLibrary DEF Queues!Init
    <2>2. Queues!Tabled = {}
      BY <2>1, QueuesLibrary DEF Queues!Tabled
    <2>3. LockTableIsBounded
      BY <2>2, BoundedLemma, FS_EmptySet, ReadsAssumption, QueuesLibrary
      DEF LockTableIsBounded, Queues!LockTableIsBounded
    <2> QED
      BY <2>1, <2>3 DEF LockTableOK
  <1> QED
    BY <1>1, <1>3, <1>4, <1>5, <1>6 DEF QueuesInv

\* The counters' locks are held by one request each, their table is trimmed, and
\* a young subscription has its maker (adapter.py, _fetch_callers_waiting).
THEOREM QueuesInvariance == Queues!Spec => []QueuesInv
  <1>1. ASSUME QueuesInv, [Queues!Next]_(Queues!qvars) PROVE QueuesInv'
    <2>1. CASE UNCHANGED Queues!qvars
      <3>1. UNCHANGED <<subscription, orphaned, stored, waiting, fresh, counterLock,
                        counterHolder, queue, req>>
        BY <2>1 DEF Queues!qvars
      <3>2. CountersOK' /\ LockTableOK'
        BY <1>1, <3>1, CountersLemma, LockTableLemma DEF QueuesInv
      <3>3. CounterLocksOK' /\ ReqsOK' /\ SubscriptionsOK'
        BY <1>1, <3>1 DEF QueuesInv, CounterLocksOK, ReqsOK, SubscriptionsOK, Queued, Inside
      <3> QED
        BY <3>2, <3>3 DEF QueuesInv
    <2>2. ASSUME NEW k \in Coroutine, Queues!Runs(k) \/ Queues!Cancel(k) PROVE QueuesInv'
      BY <1>1, <2>2, ResumeCounters, ReadCounters, SubscribeCounters, RereadCounters, FailCounters,
         CancelCounters DEF Queues!Runs
    <2>3. ASSUME NEW k \in Coroutine, NEW c \in Customer, Queues!Poll(k, c) PROVE QueuesInv'
      BY <1>1, <2>3, PollCounters
    <2>4. CASE Queues!SessionRenewed \/ \E i \in DOMAIN stored : Queues!Expire(i)
      BY <1>1, <2>4, TimeCounters
    <2> QED
      BY <1>1, <2>1, <2>2, <2>3, <2>4 DEF Queues!Next
  <1> QED
    BY <1>1, QueuesInit, PTL DEF Queues!Spec

\* Locks in the table never outnumber both its limit and the requests in flight
\* (adapter.py, _counters_lock).
THEOREM CountersLocksAreBounded == Queues!Spec => []LockTableIsBounded
  <1>1. QueuesInv => LockTableIsBounded
    BY DEF QueuesInv, LockTableOK
  <1> QED
    BY <1>1, QueuesInvariance, PTL

\* A number from a subscription that has not caught up is shown only behind a
\* request that gave up between subscribing and reading, or behind two readers
\* (adapter.py, _read_callers_waiting).
THEOREM NoZeroIsConfident == Queues!Spec => NoConfidentZero
  <1>1. QueuesInv /\ [Queues!Next]_(Queues!qvars) =>
          [\A c \in Customer :
              waiting'[c] = "undercounted" /\ waiting[c] # "undercounted" =>
                 \/ c \in orphaned
                 \/ \E j, k \in Queues!At(Queues!InsideLock) :
                       j # k /\ req[j].customer = c /\ req[k].customer = c]_(Queues!qvars)
    <2> SUFFICES ASSUME QueuesInv, Queues!Next, NEW c \in Customer,
                        waiting'[c] = "undercounted", waiting[c] # "undercounted", c \notin orphaned
                 PROVE  \E j, k \in Queues!At(Queues!InsideLock) :
                           j # k /\ req[j].customer = c /\ req[k].customer = c
      OBVIOUS
    <2>1. ASSUME NEW d \in Customer, NEW what \in {"unknown", "counted", "undercounted"},
                 Queues!Store(d, what)
          PROVE  what = "undercounted" /\ d = c
      BY <2>1, StoreLemma DEF QueuesInv
    <2>2. ASSUME NEW k \in Coroutine, Queues!Read(k)
          PROVE  \E j, i \in Queues!At(Queues!InsideLock) :
                    j # i /\ req[j].customer = c /\ req[i].customer = c
      <3>1. req[k].pc = "reading" /\ req[k].customer \in Customer
        BY <2>2, ReqLemma DEF QueuesInv, Queues!Read
      <3>2. subscription[req[k].customer] # "none"
        BY <2>2 DEF Queues!Read
      <3>3. subscription[c] = "young" /\ req[k].customer = c
        <4> DEFINE what == IF subscription[req[k].customer]
             = "young" THEN "undercounted" ELSE "counted"
        <4>1. Queues!Store(req[k].customer, what) /\ what \in {"unknown", "counted", "undercounted"}
          BY <2>2, <3>2 DEF Queues!Read
        <4>2. what = "undercounted" => subscription[req[k].customer] = "young"
          OBVIOUS
        <4> HIDE DEF what
        <4> QED
          BY <2>1, <3>1, <4>1, <4>2
      <3>4. PICK j \in Coroutine : req[j].pc = "rereading" /\ req[j].customer = c
        BY <3>3 DEF QueuesInv, SubscriptionsOK
      <3> QED
        BY <3>1, <3>3, <3>4 DEF Queues!At, Queues!InsideLock
    <2>3. ASSUME NEW k \in Coroutine, Queues!Reread(k) \/ Queues!Fail(k) PROVE FALSE
      <3>1. Queues!Store(req[k].customer, "unknown") /\ req[k].customer \in Customer
        BY <2>3, ReqLemma DEF QueuesInv, Queues!Reread, Queues!Fail, Queues!InsideLock
      <3> QED
        BY <2>1, <3>1
    <2>4. ASSUME NEW k \in Coroutine, NEW d \in Customer,
                 \/ Queues!Poll(k, d) \/ Queues!Resume(k) \/ Queues!Subscribe(k) \/ Queues!Cancel(k)
                 \/ Queues!SessionRenewed \/ \E i \in DOMAIN stored : Queues!Expire(i)
          PROVE  FALSE
      <3>1. waiting' = waiting
        BY <2>4 DEF Queues!Poll, Queues!Resume, Queues!Subscribe, Queues!Cancel,
           Queues!SessionRenewed, Queues!Expire
      <3> QED
        BY <3>1
    <2>5. CASE Queues!SessionRenewed \/ \E i \in DOMAIN stored : Queues!Expire(i)
      BY <2>5 DEF Queues!SessionRenewed, Queues!Expire
    <2> QED
      BY <2>2, <2>3, <2>4, <2>5 DEF Queues!Next, Queues!Runs
  <1> QED
    BY <1>1, QueuesInvariance, PTL DEF NoConfidentZero, Queues!NoConfidentZero, Queues!Spec

----------------------------------------------------------------------------
(* The lists that come page by page.                                       *)

\* The instance has its own copies of the community modules' operators.
LEMMA PagesLibrary ==
  /\ \A s : Pages!ToSet(s) = ToSet(s)
  /\ \A s : Pages!IsInjective(s) = IsInjective(s)
  /\ \A s, i : Pages!RemoveAt(s, i) = RemoveAt(s, i)
  /\ \A s, i, e : Pages!InsertAt(s, i, e) = InsertAt(s, i, e)
  /\ \A T : Pages!Cardinality(T) = Cardinality(T)
  /\ \A T : Pages!SetToSeq(T) = SetToSeq(T)
  BY DEF Pages!ToSet, ToSet, Pages!IsInjective, IsInjective, Pages!RemoveAt, RemoveAt,
     Pages!InsertAt, InsertAt, Pages!Cardinality, Cardinality, Pages!SetToSeq, SetToSeq

\* The list at the switch: entries of Row, each once.
ListOK(l) == l \in Seq(Row) /\ IsInjective(l)

\* As many different entries as there are at most.
LEMMA ListsLemma ==
  ASSUME NEW l
  PROVE  l \in Pages!Lists <=> ListOK(l)
  <1>1. ASSUME l \in Pages!Lists PROVE ListOK(l)
    <2>1. PICK n \in 0..Cardinality(Row) : l \in [1..n -> Row]
      BY <1>1, PagesLibrary DEF Pages!Lists
    <2>2. l \in Seq(Row)
      BY <2>1, SeqDef, FS_CardinalityType, ReadsAssumption
    <2> QED
      BY <1>1, <2>2, PagesLibrary DEF Pages!Lists, ListOK
  <1>2. ASSUME ListOK(l) PROVE l \in Pages!Lists
    <2>1. l \in [1..Len(l) -> Row] /\ Len(l) \in Nat
      BY <1>2 DEF ListOK
    <2>2. l \in Injection(1..Len(l), Row)
      BY <1>2, <2>1 DEF ListOK, IsInjective, Injection
    <2>3. IsFiniteSet(1..Len(l)) /\ Cardinality(1..Len(l)) = Len(l)
      <3>1. 1 \in Int /\ Len(l) \in Nat
        BY <2>1
      <3>2. /\ IsFiniteSet(1..Len(l))
            /\ Cardinality(1..Len(l)) = IF 1 > Len(l) THEN 0 ELSE Len(l) - 1 + 1
        BY <3>1, FS_Interval
      <3> QED
        BY <3>1, <3>2
    <2>4. Len(l) <= Cardinality(Row) /\ Cardinality(Row) \in Nat
      BY <2>2, <2>3, FS_Injection, FS_CardinalityType, ReadsAssumption
    <2> QED
      BY <1>2, <2>1, <2>4, PagesLibrary DEF Pages!Lists, ListOK
  <1> QED
    BY <1>1, <1>2

\* The kinds of readings.
LEMMA QueryLemma ==
  ASSUME query \in Pages!Query
  PROVE  /\ query.what \in {"email", "accounts", "phonebook", "pages"}
         /\ query.custom \in Nat /\ query.items \in Nat \ {0} /\ query.custom <= query.items
         /\ query.what # "pages" => query.custom = 0 /\ query.items = PageSize
  <1>1. CASE query.what = "pages"
    <2>1. query \in [what: {"pages"}, counted: {TRUE}, ordered: BOOLEAN, custom: 0..MaxItems,
                     items: 1..MaxItems]
          /\ query.custom <= query.items
      BY <1>1 DEF Pages!Query
    <2>2. query.custom \in 0..MaxItems /\ query.items \in 1..MaxItems
      BY <2>1
    <2> QED
      BY <1>1, <2>1, <2>2, ReadsAssumption
  <1>2. CASE query.what # "pages"
    <2>1. query \in [what: {"email"}, counted: BOOLEAN, ordered: BOOLEAN, custom: {0},
                     items: {PageSize}]
                    \cup [what: {"accounts", "phonebook"}, counted: {TRUE}, ordered: BOOLEAN,
                         custom: {0}, items: {PageSize}]
      BY <1>2 DEF Pages!Query
    <2>2. query.what \in {"email", "accounts", "phonebook"} /\ query.custom = 0
         /\ query.items = PageSize
      BY <2>1
    <2> QED
      BY <1>2, <2>2, ReadsAssumption
  <1> QED
    BY <1>1, <1>2

\* page has the entries of the list after place o, n of them at most.
IsPage(page, o, n) ==
    /\ page \in Seq(Row)
    /\ Len(page) = IF o >= Len(list) THEN 0 ELSE IF o + n < Len(list) THEN n ELSE Len(list) - o
    /\ \A i \in 1..Len(page) : page[i] = list[o + i]

\* The entries of a page follow each other.
LEMMA ChunkLemma ==
  ASSUME ListOK(list), NEW o \in Nat, NEW n \in Nat
  PROVE  IsPage(Pages!Chunk(o, n), o, n)
  <1> DEFINE page == Pages!Chunk(o, n)
  <1> DEFINE m == IF o + n < Len(list) THEN o + n ELSE Len(list)
  <1>1. page = SubSeq(list, o + 1, m)
    BY DEF Pages!Chunk
  <1>2. list \in Seq(Row) /\ m \in Int /\ o + 1 \in Int /\ Len(list) \in Nat /\ m <= Len(list)
    BY DEF ListOK
  <1>3. \A i \in o + 1..m : list[i] \in Row
    BY <1>2
  <1> HIDE DEF m, page
  <1>4. /\ page \in Seq(Row) /\ Len(page) = IF o + 1 <= m THEN m - (o + 1) + 1 ELSE 0
        /\ \A i \in 1..m - (o + 1) + 1 : page[i] = list[o + 1 + i - 1]
    BY <1>1, <1>2, <1>3, SubSeqProperties
  <1>5. Len(page) = IF o >= Len(list) THEN 0
                    ELSE IF o + n < Len(list) THEN n ELSE Len(list) - o
    BY <1>2, <1>4 DEF m
  <1>6. ASSUME NEW i \in 1..Len(page) PROVE page[i] = list[o + i]
    <2>1. i \in 1..m - (o + 1) + 1 /\ o + 1 + i - 1 = o + i
      BY <1>2, <1>4
    <2> QED
      BY <1>4, <2>1
  <1> QED
    BY <1>4, <1>5, <1>6 DEF IsPage, page

\* What a reading brings: entries of the list, and contacts of the configuration.
Contacts == Row \cup {"custom"}

\* The types: an account list is read side by side, the others page after page.
PagesTypes ==
    /\ query \in Pages!Query /\ ListOK(list)
    /\ read \in [pc: {"reading", "done", "refused"}, got: Seq(Contacts), offset: Nat,
                 todo: SUBSET Nat]
    /\ read.todo # {} => query.what = "accounts" /\ read.pc = "reading"
    /\ since \in [began: Seq(Row), left: Nat, joined: Nat]
    /\ since.left + since.joined <= MaxChanges

\* How many places of the list are behind the reading.
Passed ==
    IF query.what # "pages" THEN read.offset
    ELSE IF read.offset = 0 THEN 0
    ELSE read.offset * query.items - query.custom

\* The entries of list l after place n, and those that were in the list when the
\* reading began, were not brought, and will not be.
Ahead(l, n) == {l[i] : i \in {j \in 1..Len(l) : j > n}}
Missed(began, got, l, n) == (ToSet(began) \ ToSet(got)) \ Ahead(l, n)

\* In one order, a list read page after page misses no more entries than left it.
MissesFew ==
    query.what # "accounts" =>
       /\ Passed \in Nat
       /\ query.ordered =>
             Cardinality(Missed(since.began, read.got, list, Passed)) <= since.left
       /\ read.pc = "done" =>
             Len(list) <= Passed /\ (query.what = "pages" => read.offset > 0)

\* What was brought and is not in the list, and how many contacts of the
\* configuration came with it.
Stray == ToSet(read.got) \ (ToSet(Pages!Custom) \cup ToSet(list))
Added == IF query.what = "pages" /\ read.offset = 0 THEN 0 ELSE query.custom

\* In any order, a reading brings as many entries as the list has places, and from
\* the list only.
Counts ==
    query.what # "accounts" =>
       /\ Cardinality(Stray) <= since.left
       /\ read.pc = "reading" => Passed + Added <= Len(read.got)
       /\ read.pc = "done" => Len(list) + query.custom <= Len(read.got)

\* What comes before the phonebook: nothing, but for the first page of a client.
Intro ==
    IF query.what # "pages" \/ read.offset = 0 THEN <<>>
    ELSE Pages!Custom \o (IF query.custom = query.items THEN Pages!Chunk(0, 1) ELSE <<>>)

\* Nothing joined or left since the reading began.
Still == since.left + since.joined = 0

\* Page after page, a list that stands still is read from its beginning on.
SerialWhole ==
    Still /\ query.what # "accounts" =>
       /\ query.what = "email" => read.offset <= Len(list)
       /\ query.ordered /\ read.pc # "refused" => read.got = Intro \o Pages!Chunk(0, Passed)
       /\ read.pc = "refused" =>
             Cardinality(Pages!Matches(list)) > 1 \/ Len(list) >= LookupMaxRows

\* A list that stands still and fits a page comes with the first one.
OnePage == Still /\ Len(list) + query.custom <= query.items
OnePageWhole ==
    OnePage /\ read.pc # "refused" =>
       \/ read.got = <<>> /\ read.offset = 0 /\ read.todo = {} /\ read.pc = "reading"
       \/ /\ ToSet(read.got) = ToSet(Pages!Custom) \cup ToSet(list)
          /\ read.pc = "reading" => query.what # "accounts" /\ Len(list) <= Passed

\* The offset of the page of place i.
OffsetOf(i) == (i - 1) - ((i - 1) % PageSize)

\* The entries of the pages that are not asked for any more.
Brought == {list[i] : i \in {j \in 1..Len(list) : OffsetOf(j) \notin read.todo}}

\* Side by side, a list that stands still is brought but for the pages to come.
AccountsWhole ==
    query.what = "accounts" =>
       /\ read.pc # "refused" /\ (read.pc = "done" => IsInjective(read.got))
       /\ Still /\ query.ordered =>
             \/ read.pc = "reading" /\ read.got = <<>> /\ read.todo = {}
             \/ /\ read.todo \subseteq Pages!RemainingOffsets(Len(list))
                /\ read.pc = IF read.todo = {} THEN "done" ELSE "reading"
                /\ ToSet(read.got) = Brought

\* The inductive invariant.
PagesInv == PagesTypes /\ MissesFew /\ Counts /\ SerialWhole /\ OnePageWhole /\ AccountsWhole

\* The types are those of PagedReads.
LEMMA PagesTypesLemma == PagesTypes => Pages!TypeOK
  <1> SUFFICES ASSUME PagesTypes PROVE Pages!TypeOK
    OBVIOUS
  <1>1. read.got \in Seq(Contacts)
    BY DEF PagesTypes
  <1>2. ToSet(read.got) \subseteq Contacts
    BY <1>1 DEF ToSet
  <1> QED
    BY <1>2, ListsLemma, PagesLibrary DEF PagesTypes, Pages!TypeOK, Contacts

\* What is missed is a set of entries of the list, which is no larger when it has
\* no more of them.
LEMMA FewerLemma ==
  ASSUME NEW began \in Seq(Row), NEW got, NEW l, NEW f, NEW left \in Nat,
         Cardinality(Missed(began, got, l, f)) <= left, NEW T, T \subseteq Missed(began, got, l, f)
  PROVE  Cardinality(T) <= left
  <1> DEFINE M == Missed(began, got, l, f)
  <1>1. M \in SUBSET Row
    BY DEF Missed, ToSet
  <1>2. IsFiniteSet(M) /\ Cardinality(M) \in Nat
    BY <1>1, FS_Subset, FS_CardinalityType, ReadsAssumption
  <1> HIDE DEF M
  <1>3. T \in SUBSET M /\ Cardinality(M) <= left
    BY DEF M
  <1>4. IsFiniteSet(T) /\ Cardinality(T) <= Cardinality(M) /\ Cardinality(T) \in Nat
    BY <1>2, <1>3, FS_Subset, FS_CardinalityType
  <1> QED
    BY <1>2, <1>3, <1>4

\* A sequence with no entry twice is as long as the set of its entries.
LEMMA EntriesLemma ==
  ASSUME NEW S, NEW s \in Seq(S), IsInjective(s)
  PROVE  IsFiniteSet(ToSet(s)) /\ Cardinality(ToSet(s)) = Len(s)
  <1>1. s \in [1..Len(s) -> ToSet(s)] /\ Len(s) \in Nat /\ DOMAIN s = 1..Len(s)
    BY DEF ToSet
  <1>2. s \in Bijection(1..Len(s), ToSet(s))
    BY <1>1 DEF Bijection, Injection, Surjection, ToSet
  <1>3. IsFiniteSet(1..Len(s)) /\ Cardinality(1..Len(s)) = Len(s)
    <2>1. 1 \in Int /\ Len(s) \in Int
      BY <1>1
    <2>2. Cardinality(1..Len(s)) = IF 1 > Len(s) THEN 0 ELSE Len(s) - 1 + 1
      BY <2>1, FS_Interval
    <2> QED
      BY <1>1, <2>1, <2>2, FS_Interval
  <1> QED
    BY <1>2, <1>3, FS_Bijection DEF ExistsBijection

\* Of a set with no more outside than `left`, another has all but so many more.
LEMMA OutsideLemma ==
  ASSUME NEW L, NEW G, IsFiniteSet(L), IsFiniteSet(G), NEW left \in Nat,
         Cardinality(G \ L) <= left
  PROVE  /\ Cardinality(L \ G) <= Cardinality(L) - Cardinality(G) + left
         /\ Cardinality(L) \in Nat /\ Cardinality(G) \in Nat /\ Cardinality(L \ G) \in Nat
  <1>1. /\ Cardinality(L \ G) = Cardinality(L) - Cardinality(L \cap G)
        /\ Cardinality(G \ L) = Cardinality(G) - Cardinality(G \cap L)
        /\ IsFiniteSet(L \ G) /\ IsFiniteSet(G \ L) /\ IsFiniteSet(L \cap G)
    BY FS_Difference, FS_Intersection
  <1>2. /\ Cardinality(L) \in Nat /\ Cardinality(G) \in Nat /\ Cardinality(L \ G) \in Nat
        /\ Cardinality(G \ L) \in Nat /\ Cardinality(L \cap G) \in Nat
    BY <1>1, FS_CardinalityType
  <1>3. G \cap L = L \cap G
    OBVIOUS
  <1>4. Cardinality(G \ L) = Cardinality(G) - Cardinality(L \cap G)
    BY <1>1, <1>3
  <1> QED
    BY <1>1, <1>2, <1>4

\* A set put in some order has each entry once.
LEMMA OnceLemma ==
  ASSUME NEW S, NEW s \in Seq(S), IsFiniteSet(S)
  PROVE  /\ Pages!Once(s) \in Seq(S) /\ IsInjective(Pages!Once(s))
         /\ ToSet(Pages!Once(s)) = ToSet(s)
  <1> DEFINE T == ToSet(s)
             r == SetToSeq(T)
  <1>1. T \in SUBSET S
    BY DEF ToSet
  <1> HIDE DEF T
  <1>2. IsFiniteSet(T) /\ Cardinality(T) \in Nat /\ Bijection(1..Cardinality(T), T) # {}
    <2>1. IsFiniteSet(T)
      BY <1>1, FS_Subset
    <2> QED
      BY <2>1, FS_CardinalityType DEF ExistsBijection
  <1>3. \E f \in [1..Cardinality(T) -> T] : IsInjective(f)
    BY <1>2 DEF Bijection, Injection
  <1>4. r \in [1..Cardinality(T) -> T] /\ IsInjective(r)
    BY <1>3 DEF SetToSeq
  <1> HIDE DEF r
  <1>5. r \in Seq(S) /\ DOMAIN r = 1..Cardinality(T)
    BY <1>1, <1>2, <1>4, SeqDef
  <1>6. r \in Injection(1..Cardinality(T), T)
    BY <1>4 DEF Injection
  <1>7. Cardinality(1..Cardinality(T)) = Cardinality(T)
    <2>1. 1 \in Int /\ Cardinality(T) \in Int
      BY <1>2
    <2>2. Cardinality(1..Cardinality(T)) =
             IF 1 > Cardinality(T) THEN 0 ELSE Cardinality(T) - 1 + 1
      BY <2>1, FS_Interval
    <2> QED
      BY <1>2, <2>2
  <1>8. r \in Surjection(1..Cardinality(T), T)
    BY <1>2, <1>6, <1>7, FS_Injection
  <1>9. ToSet(r) = T
    <2>1. T \subseteq ToSet(r)
      BY <1>5, <1>8 DEF Surjection, ToSet
    <2>2. ToSet(r) \subseteq T
      BY <1>4, <1>5 DEF ToSet
    <2> QED
      BY <2>1, <2>2
  <1>10. Pages!Once(s) = r
    BY PagesLibrary DEF Pages!Once, r, T
  <1> QED
    BY <1>4, <1>5, <1>9, <1>10 DEF T

\* A page has places of the list only, and no more than it may have.
LEMMA PlacesLemma ==
  ASSUME NEW page, NEW o \in Nat, Len(list) \in Nat, NEW n \in Nat, IsPage(page, o, n)
  PROVE  /\ page \in Seq(Row) /\ DOMAIN page = 1..Len(page) /\ Len(page) \in Nat
         /\ \A i \in 1..Len(page) : page[i] = list[o + i] /\ o + i \in 1..Len(list) /\ i <= n
         /\ o = 0 /\ Len(list) <= n => Len(page) = Len(list)
  <1>1. /\ page \in Seq(Row)
        /\ Len(page) = IF o >= Len(list) THEN 0
                       ELSE IF o + n < Len(list) THEN n ELSE Len(list) - o
        /\ \A i \in 1..Len(page) : page[i] = list[o + i]
    BY DEF IsPage
  <1>2. DOMAIN page = 1..Len(page) /\ Len(page) \in Nat
    BY <1>1
  <1>3. Len(page) = 0 \/ (Len(page) <= n /\ Len(page) <= Len(list) - o)
    BY <1>1
  <1>4. ASSUME NEW i \in 1..Len(page) PROVE o + i \in 1..Len(list) /\ i <= n
    BY <1>2, <1>3
  <1>5. ASSUME o = 0, Len(list) <= n PROVE Len(page) = Len(list)
    BY <1>1, <1>5
  <1> QED
    BY <1>1, <1>2, <1>4, <1>5

\* Entries as many as on a page, each once, of a list that has each once: all of it
\* when the page has it all.
LEMMA SomeOrderLemma ==
  ASSUME ListOK(list), NEW m \in Nat, NEW part \in [1..m -> ToSet(list)], IsInjective(part)
  PROVE  /\ part \in Seq(Row) /\ Len(part) = m /\ ToSet(part) \subseteq ToSet(list)
         /\ m = Len(list) => ToSet(part) = ToSet(list)
  <1>1. list \in Seq(Row) /\ IsInjective(list)
    BY DEF ListOK
  <1>2. ToSet(list) \subseteq Row
    BY <1>1 DEF ToSet
  <1>3. part \in [1..m -> Row]
    BY <1>2
  <1>4. part \in Seq(Row) /\ Len(part) = m /\ DOMAIN part = 1..m
    BY <1>3, SeqDef
  <1>5. ToSet(part) \in SUBSET ToSet(list)
    BY <1>4 DEF ToSet
  <1>6. /\ IsFiniteSet(ToSet(list)) /\ Cardinality(ToSet(list)) = Len(list)
        /\ Cardinality(ToSet(part)) = m
    BY <1>1, <1>4, EntriesLemma
  <1>7. m = Len(list) => ToSet(part) = ToSet(list)
    BY <1>5, <1>6, FS_Subset
  <1> QED
    BY <1>4, <1>5, <1>7

\* What the switch may answer: as many entries of the list as the page has, all of
\* them when it has them all.
IsAnswer(part, o, n) ==
    /\ part \in Seq(Row) /\ IsInjective(part) /\ ToSet(part) \subseteq ToSet(list)
    /\ Len(part) = IF o >= Len(list) THEN 0 ELSE IF o + n < Len(list) THEN n ELSE Len(list) - o
    /\ query.ordered => part = Pages!Chunk(o, n)
    /\ o = 0 /\ Len(list) <= n => ToSet(part) = ToSet(list)

LEMMA AnswerLemma ==
  ASSUME ListOK(list), NEW o \in Nat, NEW n \in Nat, NEW part, part \in Pages!Answers(o, n)
  PROVE  IsAnswer(part, o, n)
  <1> DEFINE page == Pages!Chunk(o, n)
             m == Len(page)
  <1>1. IsPage(page, o, n)
    BY ChunkLemma
  <1>2. \/ query.ordered /\ part = page
        \/ ~query.ordered /\ part \in [DOMAIN page -> ToSet(list)] /\ IsInjective(part)
    BY PagesLibrary DEF Pages!Answers
  <1>3. list \in Seq(Row) /\ IsInjective(list) /\ Len(list) \in Nat /\ DOMAIN list = 1..Len(list)
    BY DEF ListOK
  <1> HIDE DEF page
  <1>4. /\ page \in Seq(Row) /\ DOMAIN page = 1..m /\ m \in Nat
        /\ \A i \in 1..m : page[i] = list[o + i] /\ o + i \in 1..Len(list) /\ i <= n
        /\ o = 0 /\ Len(list) <= n => m = Len(list)
    BY <1>1, <1>3, PlacesLemma
  <1>5. page \in [1..m -> ToSet(list)] /\ IsInjective(page)
    <2>1. \A i \in 1..m : page[i] \in ToSet(list)
      BY <1>3, <1>4 DEF ToSet
    <2>2. page \in [1..m -> ToSet(list)]
      BY <1>4, <2>1
    <2>3. ASSUME NEW i \in 1..m, NEW j \in 1..m, page[i] = page[j] PROVE i = j
      <3>1. o + i = o + j
        BY <1>3, <1>4, <2>3 DEF IsInjective
      <3> QED
        BY <1>4, <3>1
    <2> QED
      BY <1>4, <2>2, <2>3 DEF IsInjective
  <1>6. part \in [1..m -> ToSet(list)] /\ IsInjective(part)
    BY <1>2, <1>4, <1>5
  <1> HIDE DEF m
  <1>7. /\ part \in Seq(Row) /\ Len(part) = m /\ ToSet(part) \subseteq ToSet(list)
        /\ m = Len(list) => ToSet(part) = ToSet(list)
    BY <1>4, <1>6, SomeOrderLemma
  <1>8. m = IF o >= Len(list) THEN 0 ELSE IF o + n < Len(list) THEN n ELSE Len(list) - o
    BY <1>1 DEF IsPage, m
  <1> QED
    BY <1>2, <1>4, <1>6, <1>7, <1>8 DEF IsAnswer, page

\* A page brings what is ahead up to where the next begins.
LEMMA ReadOnLemma ==
  ASSUME ListOK(list), NEW f \in Nat, NEW n \in Nat, NEW began,
         NEW got \in Seq(Contacts), NEW more \in Seq(Contacts),
         ToSet(Pages!Chunk(f, n)) \subseteq ToSet(more), NEW g \in Nat, g <= f + n
  PROVE  Missed(began, got \o more, list, g) \subseteq Missed(began, got, list, f)
  <1> DEFINE page == Pages!Chunk(f, n)
             all == got \o more
  <1>1. /\ page \in Seq(Row)
        /\ Len(page) = IF f >= Len(list) THEN 0
                        ELSE IF f + n < Len(list) THEN n ELSE Len(list) - f
        /\ \A i \in 1..Len(page) : page[i] = list[f + i]
    BY ChunkLemma DEF IsPage
  <1>2. ToSet(got) \subseteq ToSet(all) /\ ToSet(more) \subseteq ToSet(all)
    BY JoinedLemma
  <1> HIDE DEF all
  <1>3. ASSUME NEW i \in 1..Len(list), i > f, ~(i > g) PROVE list[i] \in ToSet(page)
    <2>1. Len(list) \in Nat
      BY DEF ListOK
    <2>2. i - f \in 1..Len(page) /\ f + (i - f) = i
      BY <1>1, <1>3, <2>1
    <2>3. page[i - f] = list[i] /\ DOMAIN page = 1..Len(page)
      BY <1>1, <2>2
    <2> HIDE DEF page
    <2> QED
      BY <2>2, <2>3 DEF ToSet
  <1> HIDE DEF page
  <1>4. ASSUME NEW e, e \in Missed(began, all, list, g), e \in Ahead(list, f) PROVE FALSE
    <2>1. PICK i \in 1..Len(list) : i > f /\ list[i] = e
      BY <1>4 DEF Ahead
    <2>2. ~(i > g)
      BY <1>4, <2>1 DEF Missed, Ahead
    <2>3. e \in ToSet(all)
      BY <1>2, <1>3, <2>1, <2>2 DEF page
    <2> QED
      BY <1>4, <2>3 DEF Missed
  <1> QED
    BY <1>2, <1>4 DEF Missed, all

\* An entry that joins puts none behind the reading.
LEMMA JoinLemma ==
  ASSUME ListOK(list), NEW f \in Nat, NEW i \in 1..Len(list) + 1, NEW row \in Row \ ToSet(list)
  PROVE  /\ ListOK(InsertAt(list, i, row))
         /\ Ahead(list, f) \subseteq Ahead(InsertAt(list, i, row), f)
  <1> DEFINE new == InsertAt(list, i, row)
  <1>1. list \in Seq(Row) /\ IsInjective(list) /\ Len(list) \in Nat /\ DOMAIN list = 1..Len(list)
    BY DEF ListOK
  <1>2. /\ new \in Seq(Row) /\ Len(new) = Len(list) + 1 /\ DOMAIN new = 1..Len(list) + 1
        /\ \A j \in 1..Len(list) + 1 :
              new[j] = IF j < i THEN list[j] ELSE IF j = i THEN row ELSE list[j - 1]
    BY <1>1, InsertAtLemma
  <1> HIDE DEF new
  <1>3. IsInjective(new)
    <2> SUFFICES ASSUME NEW j \in 1..Len(list) + 1, NEW k \in 1..Len(list) + 1, new[j] = new[k]
                 PROVE  j = k
      BY <1>2 DEF IsInjective
    <2> DEFINE at(m) == IF m < i THEN m ELSE m - 1
    <2>1. \A m \in 1..Len(list) + 1 : m # i => at(m) \in 1..Len(list) /\ new[m] = list[at(m)]
      BY <1>1, <1>2
    <2>2. \A m \in 1..Len(list) : list[m] # row
      BY <1>1 DEF ToSet
    <2>3. new[i] = row
      BY <1>1, <1>2
    <2>4. CASE j = i \/ k = i
      BY <2>1, <2>2, <2>3, <2>4
    <2>5. CASE j # i /\ k # i
      <3>1. at(j) = at(k)
        BY <1>1, <2>1, <2>5 DEF IsInjective
      <3> QED
        BY <2>5, <3>1
    <2> QED
      BY <2>4, <2>5
  <1>4. ASSUME NEW j \in 1..Len(list), j > f
        PROVE  \E k \in 1..Len(new) : k > f /\ new[k] = list[j]
    <2>1. CASE j < i
      BY <1>1, <1>2, <1>4, <2>1
    <2>2. CASE j >= i
      BY <1>1, <1>2, <1>4, <2>2, j + 1 \in 1..Len(new), new[j + 1] = list[j], j + 1 > f
    <2> QED
      BY <2>1, <2>2
  <1> QED
    BY <1>2, <1>3, <1>4 DEF ListOK, Ahead, new

\* An entry that leaves takes at most one from those ahead.
LEMMA LeftLemma ==
  ASSUME ListOK(list), NEW f \in Nat, NEW i \in 1..Len(list)
  PROVE  /\ ListOK(RemoveAt(list, i))
         /\ Ahead(list, f) \subseteq Ahead(RemoveAt(list, i), f)
                                     \cup {list[IF i > f THEN i ELSE f + 1]}
  <1> DEFINE new == RemoveAt(list, i)
             x == list[IF i > f THEN i ELSE f + 1]
  <1>1. list \in Seq(Row) /\ IsInjective(list) /\ Len(list) \in Nat /\ DOMAIN list = 1..Len(list)
    BY DEF ListOK
  <1>2. /\ new \in Seq(Row) /\ Len(new) = Len(list) - 1 /\ DOMAIN new = 1..Len(list) - 1
        /\ \A j \in 1..Len(list) - 1 : new[j] = IF j < i THEN list[j] ELSE list[j + 1]
    <2>1. /\ new \in Seq(Row) /\ Len(new) = Len(list) - 1
          /\ \A j \in 1..Len(list) - 1 : new[j] = IF j < i THEN list[j] ELSE list[j + 1]
      BY <1>1, RemoveAtLemma
    <2> HIDE DEF new
    <2> QED
      BY <2>1
  <1> HIDE DEF new
  <1>3. IsInjective(new)
    <2> SUFFICES ASSUME NEW j \in 1..Len(list) - 1, NEW k \in 1..Len(list) - 1, new[j] = new[k]
                 PROVE  j = k
      BY <1>2 DEF IsInjective
    <2> DEFINE at(m) == IF m < i THEN m ELSE m + 1
    <2>1. at(j) \in 1..Len(list) /\ at(k) \in 1..Len(list) /\ list[at(j)] = list[at(k)]
      BY <1>1, <1>2
    <2>2. at(j) = at(k)
      BY <1>1, <2>1 DEF IsInjective
    <2> QED
      BY <2>2
  <1>4. ASSUME NEW j \in 1..Len(list), j > f, list[j] # x
        PROVE  \E k \in 1..Len(new) : k > f /\ new[k] = list[j]
    <2>1. j # IF i > f THEN i ELSE f + 1
      BY <1>4
    <2>2. CASE j < i
      BY <1>1, <1>2, <1>4, <2>2
    <2>3. CASE j > i
      BY <1>1, <1>2, <1>4, <2>1, <2>3, j - 1 \in 1..Len(new), new[j - 1] = list[j], j - 1 > f
    <2>4. CASE j = i
      BY <1>4, <2>1, <2>4
    <2> QED
      BY <2>2, <2>3, <2>4
  <1> QED
    BY <1>2, <1>3, <1>4 DEF ListOK, Ahead, new

\* What the parts of a reading are.
LEMMA PartsLemma ==
  ASSUME PagesTypes
  PROVE  /\ Intro \in Seq(Contacts) /\ Pages!Custom \in Seq(Contacts)
         /\ read.got \in Seq(Contacts) /\ read.offset \in Nat /\ ListOK(list)
         /\ \A o, n \in Nat : /\ Pages!Chunk(o, n) \in Seq(Contacts)
                              /\ IsPage(Pages!Chunk(o, n), o, n)
  <1>1. query.custom \in Nat /\ read.got \in Seq(Contacts) /\ read.offset \in Nat /\ ListOK(list)
    BY QueryLemma DEF PagesTypes
  <1>2. Pages!Custom \in Seq(Contacts)
    <2>1. Pages!Custom \in [1..query.custom -> Contacts]
      BY DEF Pages!Custom, Contacts
    <2> QED
      BY <1>1, <2>1, SeqDef
  <1>3. ASSUME NEW o \in Nat, NEW n \in Nat
        PROVE  Pages!Chunk(o, n) \in Seq(Contacts) /\ IsPage(Pages!Chunk(o, n), o, n)
    <2>1. Pages!Chunk(o, n) \in Seq(Row) /\ IsPage(Pages!Chunk(o, n), o, n)
      BY <1>1, ChunkLemma DEF IsPage
    <2>2. Row \subseteq Contacts
      BY DEF Contacts
    <2> QED
      BY <2>1, <2>2, SeqMonotonic
  <1>4. Intro \in Seq(Contacts)
    <2>1. Pages!Chunk(0, 1) \in Seq(Contacts)
      BY <1>3
    <2> QED
      BY <1>2, <2>1 DEF Intro
  <1> QED
    BY <1>1, <1>2, <1>3, <1>4

\* What comes in three parts can be put together either way.
LEMMA ContactsJoin ==
  ASSUME NEW r \in Seq(Contacts), NEW s \in Seq(Contacts), NEW t \in Seq(Contacts)
  PROVE  (r \o s) \o t = r \o (s \o t)
  BY ConcatAssociative

\* What is missed of a list, in numbers: all that did not come are no more than there
\* are places less those that came, and what has left.
LEMMA MissedSum ==
  ASSUME NEW missed \in Nat, NEW out \in Nat, NEW places \in Nat, NEW custom \in Nat,
         NEW length \in Nat, NEW distinct \in Nat, NEW left \in Nat,
         missed <= out, out <= places - distinct + left, places + custom <= length
  PROVE  missed <= left + (length - custom - distinct)
  OBVIOUS

\* There is room in what was brought for all the places behind the reading.
LEMMA RoomSum ==
  ASSUME NEW x \in Nat, NEW part \in Nat, NEW more \in Nat, NEW before \in Nat,
         NEW passed \in Nat, NEW added \in Nat, NEW custom \in Nat,
         x <= passed + part \/ x <= passed,
         more + added = part + custom, passed + added <= before
  PROVE  x + custom <= before + more
  OBVIOUS

\* A page continues what was read from the beginning.
LEMMA ChunksJoin ==
  ASSUME PagesTypes, NEW f \in Nat, NEW n \in Nat
  PROVE  Pages!Chunk(0, f) \o Pages!Chunk(f, n) = Pages!Chunk(0, f + n)
  <1> DEFINE a == Pages!Chunk(0, f)
             b == Pages!Chunk(f, n)
             c == Pages!Chunk(0, f + n)
             r == a \o b
  <1>1. IsPage(a, 0, f) /\ IsPage(b, f, n) /\ IsPage(c, 0, f + n) /\ Len(list) \in Nat
    <2>1. ListOK(list) /\ 0 \in Nat /\ f + n \in Nat
      BY DEF PagesTypes
    <2> QED
      BY <2>1, ChunkLemma DEF ListOK
  <1> HIDE DEF a, b, c
  <1>6. a \in Seq(Row) /\ b \in Seq(Row)
    BY <1>1 DEF IsPage
  <1>2. /\ r \in Seq(Row) /\ Len(r) = Len(a) + Len(b)
        /\ \A i \in 1..Len(a) + Len(b) : r[i] = IF i <= Len(a) THEN a[i] ELSE b[i - Len(a)]
    BY <1>6, ConcatProperties
  <1> HIDE DEF r
  <1>3. Len(r) = Len(c) /\ c \in Seq(Row) /\ Len(a) \in Nat /\ Len(b) \in Nat
    <2>1. /\ Len(a) = IF 0 >= Len(list) THEN 0 ELSE IF 0 + f < Len(list) THEN f ELSE Len(list) - 0
          /\ Len(b) = IF f >= Len(list) THEN 0 ELSE IF f + n < Len(list) THEN n ELSE Len(list) - f
          /\ Len(c) = IF 0 >= Len(list) THEN 0
                      ELSE IF 0 + (f + n) < Len(list) THEN f + n ELSE Len(list) - 0
          /\ c \in Seq(Row)
      BY <1>1 DEF IsPage
    <2>2. Len(a) \in Nat /\ Len(b) \in Nat /\ Len(r) = Len(a) + Len(b)
      BY <1>2, <1>6
    <2>3. Len(a) + Len(b) = Len(c)
      <3>1. Len(list) \in Nat /\ f \in Nat /\ n \in Nat
        BY <1>1
      <3>2. CASE f >= Len(list)
        BY <2>1, <3>1, <3>2
      <3>3. CASE f < Len(list)
        <4>1. Len(a) = f /\ f + n \in Nat /\ 0 + (f + n) = f + n
          BY <2>1, <3>1, <3>3
        <4>2. CASE f + n < Len(list)
          BY <2>1, <3>1, <3>3, <4>1, <4>2
        <4>3. CASE ~(f + n < Len(list))
          <5>1. Len(b) = Len(list) - f
            BY <2>1, <3>1, <3>3, <4>3
          <5>2. Len(c) = Len(list) - 0
            BY <2>1, <3>1, <3>3, <4>1, <4>3
          <5> QED
            BY <3>1, <4>1, <5>1, <5>2
        <4> QED
          BY <4>2, <4>3
      <3> QED
        BY <3>1, <3>2, <3>3
    <2> QED
      BY <2>1, <2>2, <2>3
  <1>4. ASSUME NEW i \in 1..Len(r) PROVE r[i] = c[i]
    <2>1. c[i] = list[i]
      BY <1>1, <1>3 DEF IsPage
    <2>2. CASE i <= Len(a)
      <3>1. i \in 1..Len(a) /\ r[i] = a[i] /\ 0 + i = i
        BY <1>2, <1>3, <2>2
      <3> QED
        BY <1>1, <2>1, <3>1 DEF IsPage
    <2>3. CASE ~(i <= Len(a))
      <3>1. i - Len(a) \in 1..Len(b) /\ r[i] = b[i - Len(a)]
        BY <1>2, <1>3, <2>3
      <3>2. b[i - Len(a)] = list[f + (i - Len(a))]
        BY <1>1, <3>1 DEF IsPage
      <3>3. Len(a) = f
        BY <1>1, <1>3, <3>1 DEF IsPage
      <3> QED
        BY <1>3, <2>1, <3>1, <3>2, <3>3
    <2> QED
      BY <2>2, <2>3
  <1>5. r = c
    BY <1>2, <1>3, <1>4, SeqEqual
  <1> QED
    BY <1>5 DEF r, a, b, c

\* What a step brings: the answer to it, after the contacts of the configuration on
\* the first page of a client.
More(part) == IF query.what = "pages" /\ read.offset = 0 THEN Pages!Custom \o part ELSE part

LEMMA MoreLemma ==
  ASSUME PagesTypes, query.what # "accounts", NEW part \in Seq(Row)
  PROVE  /\ More(part) \in Seq(Contacts) /\ Len(More(part)) \in Nat /\ Len(part) \in Nat
         /\ Len(More(part)) + Added = Len(part) + query.custom
         /\ Added \in Nat /\ query.custom \in Nat /\ Added <= query.custom
         /\ ToSet(part) \subseteq ToSet(More(part))
         /\ ToSet(More(part)) \subseteq ToSet(Pages!Custom) \cup ToSet(part)
         /\ read.offset = 0 => ToSet(More(part)) = ToSet(Pages!Custom) \cup ToSet(part)
  <1>1. /\ query.custom \in Nat /\ Len(part) \in Nat
        /\ query.what # "pages" => query.custom = 0
    BY QueryLemma DEF PagesTypes
  <1>2. /\ Pages!Custom \in Seq(Contacts) /\ Len(Pages!Custom) = query.custom
        /\ query.custom = 0 => ToSet(Pages!Custom) = {}
    <2>1. Pages!Custom \in [1..query.custom -> Contacts]
      BY DEF Pages!Custom, Contacts
    <2>2. Pages!Custom \in Seq(Contacts) /\ Len(Pages!Custom) = query.custom
      BY <1>1, <2>1, SeqDef
    <2>3. DOMAIN Pages!Custom = 1..query.custom
      BY <2>1
    <2>4. query.custom = 0 => ToSet(Pages!Custom) = {}
      BY <2>3 DEF ToSet
    <2> QED
      BY <2>2, <2>4
  <1>3. part \in Seq(Contacts)
    BY SeqMonotonic DEF Contacts
  <1> DEFINE custom == Pages!Custom
             joint == custom \o part
  <1>4. /\ joint \in Seq(Contacts) /\ Len(joint) = Len(custom) + Len(part)
        /\ ToSet(joint) = ToSet(custom) \cup ToSet(part)
    <2>1. custom \in Seq(Contacts)
      BY <1>2
    <2> HIDE DEF custom
    <2> QED
      BY <1>3, <2>1, ConcatProperties, JoinedLemma
  <1>5. CASE query.what = "pages" /\ read.offset = 0
    <2>1. More(part) = joint /\ Added = 0
      BY <1>5 DEF More, Added
    <2> HIDE DEF joint, custom
    <2>2. Len(More(part)) = query.custom + Len(part)
      BY <1>2, <1>4, <2>1 DEF custom
    <2>3. ToSet(More(part)) = ToSet(Pages!Custom) \cup ToSet(part)
      BY <1>4, <2>1 DEF custom
    <2>4. /\ Len(More(part)) + Added = Len(part) + query.custom /\ Len(More(part)) \in Nat
          /\ Added \in Nat /\ Added <= query.custom
      BY <1>1, <2>1, <2>2
    <2>5. More(part) \in Seq(Contacts)
      BY <1>4, <2>1
    <2>6. ToSet(part) \subseteq ToSet(More(part))
      BY <2>3
    <2> QED
      BY <1>1, <2>3, <2>4, <2>5, <2>6
  <1>6. CASE ~(query.what = "pages" /\ read.offset = 0)
    <2>1. More(part) = part /\ Added = query.custom
      BY <1>6 DEF More, Added
    <2>2. read.offset = 0 => ToSet(Pages!Custom) = {}
      BY <1>1, <1>2, <1>6
    <2>3. Len(More(part)) + Added = Len(part) + query.custom /\ Added <= query.custom
      BY <1>1, <2>1
    <2>4. ToSet(More(part)) = ToSet(part) /\ Len(More(part)) = Len(part)
      BY <2>1
    <2>5. More(part) \in Seq(Contacts) /\ Added = query.custom
      BY <1>3, <2>1
    <2> QED
      BY <1>1, <2>2, <2>3, <2>4, <2>5
  <1> QED
    BY <1>5, <1>6

\* What strays is finite.
LEMMA StrayLemma ==
  ASSUME PagesTypes
  PROVE  IsFiniteSet(Stray) /\ Cardinality(Stray) \in Nat
  <1>1. Stray \in SUBSET Contacts
    BY DEF PagesTypes, Stray, ToSet
  <1>2. IsFiniteSet(Contacts)
    BY FS_AddElement, ReadsAssumption DEF Contacts
  <1> QED
    BY <1>1, <1>2, FS_Subset, FS_CardinalityType

\* A step that reads on: it leaves more places of the list behind, and no more than
\* it asked for.
ReadsOn(part, n, offset, pc) ==
    /\ query.what # "accounts" /\ read.pc = "reading"
    /\ n \in Nat /\ IsAnswer(part, Passed, n)
    /\ offset \in Nat /\ pc \in {"reading", "done", "refused"}
    /\ query.what = "pages" => offset # 0
    /\ Pages!Brings(More(part), offset, pc)

LEMMA SerialStep ==
  ASSUME PagesInv, NEW part, NEW n, NEW offset, NEW pc, ReadsOn(part, n, offset, pc),
         NEW passed \in Nat, passed = Passed', passed <= Passed + n,
         pc = "done" => Len(list) <= passed,
         pc = "reading" => passed <= Passed + Len(part),
         OnePage => /\ read.offset = 0 => Len(list) <= n
                    /\ pc # "refused" => Len(list) <= passed
  PROVE  PagesTypes' /\ MissesFew' /\ Counts' /\ OnePageWhole' /\ AccountsWhole'
  <1>1. /\ PagesTypes /\ ListOK(list) /\ Passed \in Nat /\ Len(list) \in Nat
        /\ read.got \in Seq(Contacts) /\ since.began \in Seq(Row) /\ since.left \in Nat
        /\ query.ordered =>
              Cardinality(Missed(since.began, read.got, list, Passed)) <= since.left
    BY DEF PagesInv, PagesTypes, MissesFew, ListOK, ReadsOn
  <1>2. /\ query.what # "accounts" /\ read.pc = "reading" /\ n \in Nat
        /\ offset \in Nat /\ pc \in {"reading", "done", "refused"}
        /\ query.what = "pages" => offset # 0
        /\ query' = query /\ list' = list /\ since' = since
        /\ read' = [read EXCEPT !.got = @ \o More(part), !.offset = offset, !.pc = pc]
    BY DEF ReadsOn, Pages!Brings
  <1>3. /\ part \in Seq(Row) /\ ToSet(part) \subseteq ToSet(list) /\ Len(part) \in Nat
        /\ Len(part) = IF Passed >= Len(list) THEN 0
                       ELSE IF Passed + n < Len(list) THEN n ELSE Len(list) - Passed
        /\ query.ordered => part = Pages!Chunk(Passed, n)
        /\ Passed = 0 /\ Len(list) <= n => ToSet(part) = ToSet(list)
    BY DEF ReadsOn, IsAnswer
  <1> DEFINE more == More(part)
             got == read.got \o more
  <1>4. /\ more \in Seq(Contacts) /\ Len(more) \in Nat
        /\ Len(more) + Added = Len(part) + query.custom
        /\ Added \in Nat /\ query.custom \in Nat /\ Added <= query.custom
        /\ ToSet(part) \subseteq ToSet(more)
        /\ ToSet(more) \subseteq ToSet(Pages!Custom) \cup ToSet(part)
        /\ read.offset = 0 => ToSet(more) = ToSet(Pages!Custom) \cup ToSet(part)
    BY <1>1, <1>2, <1>3, MoreLemma
  <1> HIDE DEF more
  <1>5. /\ got \in Seq(Contacts) /\ Len(got) = Len(read.got) + Len(more)
        /\ ToSet(got) = ToSet(read.got) \cup ToSet(more) /\ Len(read.got) \in Nat
    BY <1>1, <1>4, ConcatProperties, JoinedLemma
  <1>6. /\ read' \in [pc: {"reading", "done", "refused"}, got: Seq(Contacts), offset: Nat,
                      todo: SUBSET Nat]
        /\ read'.got = got /\ read'.todo = {} /\ read'.pc = pc /\ read'.offset = offset
    <2>1. read' = [read EXCEPT !.got = got, !.offset = offset, !.pc = pc]
      BY <1>2 DEF more
    <2> HIDE DEF got
    <2> QED
      BY <1>1, <1>2, <1>5, <2>1 DEF PagesTypes
  <1>7. PagesTypes'
    BY <1>1, <1>2, <1>6 DEF PagesTypes, ListOK
  <1> HIDE DEF got
  <1>8. MissesFew'
    <2>1. ASSUME query.ordered
          PROVE  Cardinality(Missed(since.began, got, list, passed)) <= since.left
      <3>1. ToSet(Pages!Chunk(Passed, n)) \subseteq ToSet(more)
        BY <1>3, <1>4, <2>1
      <3>2. Missed(since.began, got, list, passed)
               \subseteq Missed(since.began, read.got, list, Passed)
        BY <1>1, <1>2, <1>4, <3>1, ReadOnLemma DEF got
      <3> QED
        BY <1>1, <2>1, <3>2, FewerLemma
    <2>2. Missed(since.began, read.got, list, Passed)' = Missed(since.began, got, list, passed)
      <3>1. since'.began = since.began /\ read'.got = got /\ list' = list /\ Passed' = passed
        BY <1>2, <1>6
      <3> QED
        BY <3>1 DEF Missed, Ahead
    <2>3. pc = "done" => Len(list) <= passed /\ (query.what = "pages" => offset > 0)
      BY <1>2
    <2> QED
      BY <1>2, <1>6, <2>1, <2>2, <2>3 DEF MissesFew
  <1>9. Pages!Custom' = Pages!Custom /\ Added' = query.custom
    <2>1. query.what # "pages" => query.custom = 0
      BY <1>1, QueryLemma DEF PagesTypes
    <2> QED
      BY <1>2, <1>6, <2>1 DEF Pages!Custom, Added
  <1>10. Counts'
    <2>1. Stray' \in SUBSET Stray
      BY <1>2, <1>3, <1>4, <1>5, <1>6, <1>9 DEF Stray
    <2>2. IsFiniteSet(Stray) /\ Cardinality(Stray) <= since.left
      BY <1>1, <1>2, StrayLemma DEF PagesInv, Counts
    <2>3. Cardinality(Stray') <= since'.left
      <3>1. /\ Cardinality(Stray') <= Cardinality(Stray)
            /\ Cardinality(Stray) \in Nat /\ Cardinality(Stray') \in Nat
        BY <2>1, <2>2, FS_Subset, FS_CardinalityType
      <3> QED
        BY <1>1, <1>2, <2>2, <3>1
    <2>4. Passed + Added <= Len(read.got)
      BY <1>2 DEF PagesInv, Counts
    <2>5. ASSUME NEW x \in Nat, x <= Passed + Len(part) \/ x <= Passed
          PROVE  x + query.custom <= Len(got)
      <3>1. /\ Len(got) = Len(read.got) + Len(more) /\ Len(more) + Added = Len(part) + query.custom
            /\ Passed \in Nat /\ Len(read.got) \in Nat /\ Len(more) \in Nat
            /\ Len(part) \in Nat /\ Added \in Nat /\ query.custom \in Nat
        BY <1>1, <1>3, <1>4, <1>5
      <3> DEFINE a == Len(part)
                 b == Len(more)
                 c == Len(read.got)
                 custom == query.custom
      <3>2. /\ a \in Nat /\ b \in Nat /\ c \in Nat /\ custom \in Nat
            /\ x <= Passed + a \/ x <= Passed
            /\ b + Added = a + custom /\ Passed + Added <= c /\ Len(got) = c + b
        BY <2>4, <2>5, <3>1
      <3> HIDE DEF a, b, c, custom
      <3>3. x + custom <= c + b
        BY <3>1, <3>2, RoomSum
      <3> QED
        BY <3>2, <3>3 DEF custom
    <2>6. pc = "reading" => passed + query.custom <= Len(got)
      BY <2>5
    <2>7. pc = "done" => Len(list) + query.custom <= Len(got)
      <3>1. CASE Passed >= Len(list)
        BY <1>1, <2>5, <3>1
      <3>2. CASE Passed < Len(list)
        <4>1. pc = "done" => Len(part) = Len(list) - Passed
          BY <1>1, <1>2, <1>3, <3>2
        <4>2. pc = "done" => Len(list) <= Passed + Len(part)
          BY <1>1, <4>1
        <4> QED
          BY <1>1, <2>5, <4>2
      <3> QED
        BY <1>1, <3>1, <3>2
    <2> QED
      BY <1>2, <1>6, <1>9, <2>3, <2>6, <2>7 DEF Counts
  <1>11. OnePageWhole'
    <2> SUFFICES ASSUME OnePage, pc # "refused"
                 PROVE  ToSet(got) = ToSet(Pages!Custom) \cup ToSet(list)
      <3>1. OnePage' <=> OnePage
        BY <1>2 DEF OnePage, Still
      <3> QED
        BY <1>2, <1>6, <1>9, <3>1 DEF OnePageWhole
    <2>1. CASE read.got = <<>> /\ read.offset = 0
      <3>1. Passed = 0
        BY <1>2, <2>1 DEF Passed
      <3>2. ToSet(more) = ToSet(Pages!Custom) \cup ToSet(list)
        BY <1>3, <1>4, <2>1, <3>1
      <3>3. ToSet(read.got) = {}
        BY <2>1 DEF ToSet
      <3> QED
        BY <1>5, <3>2, <3>3
    <2>2. CASE ToSet(read.got) = ToSet(Pages!Custom) \cup ToSet(list)
      BY <1>3, <1>4, <1>5, <2>2
    <2> QED
      BY <1>2, <2>1, <2>2 DEF PagesInv, OnePageWhole
  <1> QED
    BY <1>2, <1>7, <1>8, <1>10, <1>11 DEF AccountsWhole

\* A list that stands still, and in one order, is read on from where the reading was.
LEMMA WholeStep ==
  ASSUME PagesInv, query.what # "accounts", read.pc = "reading", Still, query.ordered,
         NEW n \in Nat, NEW offset, NEW pc, Pages!Brings(Pages!Chunk(Passed, n), offset, pc),
         Intro' = Intro, NEW g \in Nat, Passed' = g,
         Pages!Chunk(0, g) = Pages!Chunk(0, Passed + n)
  PROVE  (read.got = Intro \o Pages!Chunk(0, Passed))'
  <1>1. list' = list /\ read'.got = read.got \o Pages!Chunk(Passed, n)
    BY DEF Pages!Brings, PagesInv, PagesTypes
  <1>2. PagesTypes /\ Passed \in Nat
    BY DEF PagesInv, MissesFew
  <1>3. Pages!Chunk(0, g)' = Pages!Chunk(0, g)
    BY <1>1 DEF Pages!Chunk
  <1>4. read.got = Intro \o Pages!Chunk(0, Passed)
    BY DEF PagesInv, SerialWhole
  <1>5. /\ Intro \in Seq(Contacts) /\ Pages!Chunk(0, Passed) \in Seq(Contacts)
        /\ Pages!Chunk(Passed, n) \in Seq(Contacts)
    BY <1>2, PartsLemma
  <1>6. read'.got = Intro \o (Pages!Chunk(0, Passed) \o Pages!Chunk(Passed, n))
    <2> DEFINE got == Pages!Chunk(0, Passed)
               next == Pages!Chunk(Passed, n)
               intro == Intro
    <2>1. intro \in Seq(Contacts) /\ got \in Seq(Contacts) /\ next \in Seq(Contacts)
      BY <1>5
    <2> HIDE DEF got, next, intro
    <2>2. (intro \o got) \o next = intro \o (got \o next)
      BY <2>1, ContactsJoin
    <2> QED
      BY <1>1, <1>4, <2>2 DEF got, next, intro
  <1>7. read'.got = Intro \o Pages!Chunk(0, g)
    BY <1>2, <1>6, ChunksJoin
  <1> QED
    BY <1>3, <1>7

\* A list that fits a page is all behind after the first one.
LEMMA OnePageLemma ==
  ASSUME PagesInv, OnePage, query.what # "pages", query.what # "accounts", read.pc = "reading"
  PROVE  /\ Len(list) <= PageSize
         /\ Len(list) <= read.offset \/ read.offset = 0
  <1>1. query.custom = 0 /\ query.items = PageSize /\ Len(list) \in Nat /\ PageSize \in Nat
    BY QueryLemma, ReadsAssumption DEF PagesInv, PagesTypes, ListOK
  <1>2. Len(list) + 0 <= PageSize
    BY <1>1 DEF OnePage
  <1>3. read.offset = 0 \/ Len(list) <= Passed
    BY DEF PagesInv, OnePageWhole
  <1> QED
    BY <1>1, <1>2, <1>3 DEF Passed

\* Of a list that stands still, nothing but its entries is brought.
LEMMA NoStrays ==
  ASSUME PagesInv, Still, query.what # "accounts", query.what # "pages"
  PROVE  ToSet(read.got) \subseteq ToSet(list)
  <1>1. /\ since.left \in Nat /\ since.joined \in Nat /\ query.custom = 0
        /\ read.got \in Seq(Contacts)
    BY QueryLemma DEF PagesInv, PagesTypes
  <1>2. since.left = 0
    BY <1>1 DEF Still
  <1>3. IsFiniteSet(Stray) /\ Cardinality(Stray) \in Nat /\ Cardinality(Stray) <= 0
    BY <1>2, StrayLemma DEF PagesInv, Counts
  <1>4. Stray = {}
    <2>1. Cardinality(Stray) = 0
      BY <1>3
    <2> QED
      BY <1>3, <2>1, FS_EmptySet
  <1>5. ToSet(Pages!Custom) = {}
    BY <1>1 DEF Pages!Custom, ToSet
  <1> QED
    BY <1>4, <1>5 DEF Stray

\* One more page of candidates.
LEMMA EmailStep ==
  ASSUME PagesInv, Pages!EmailPage
  PROVE  PagesInv'
  <1>1. /\ query.what = "email" /\ read.pc = "reading" /\ PagesTypes /\ Passed = read.offset
        /\ read.offset \in Nat /\ PageSize \in Nat \ {0} /\ LookupMaxRows \in Nat
        /\ Len(list) \in Nat /\ ListOK(list) /\ list \in Seq(Row) /\ read.got \in Seq(Contacts)
    BY ReadsAssumption DEF Pages!EmailPage, Pages!Reading, Passed, PagesInv, PagesTypes, ListOK
  <1>2. PICK part :
           /\ part \in Pages!Answers(read.offset, PageSize)
           /\ \/ /\ Cardinality(Pages!Matches(read.got \o part)) > 1
                 /\ Pages!Brings(part, read.offset, "refused")
              \/ /\ Pages!LookedThrough(part)
                 /\ Pages!Brings(part, read.offset + Len(part), "done")
              \/ Pages!Brings(part, read.offset + Len(part),
                              IF read.offset + Len(part) >= LookupMaxRows THEN "refused"
                              ELSE "reading")
    BY PagesLibrary DEF Pages!EmailPage
  <1>3. IsAnswer(part, read.offset, PageSize)
    BY <1>1, <1>2, AnswerLemma
  <1> DEFINE next == read.offset + Len(part)
  <1>4. /\ part \in Seq(Row) /\ ToSet(part) \subseteq ToSet(list) /\ Len(part) \in Nat
        /\ Len(part) = IF read.offset >= Len(list) THEN 0
                       ELSE IF read.offset + PageSize < Len(list) THEN PageSize
                       ELSE Len(list) - read.offset
        /\ query.ordered => part = Pages!Chunk(read.offset, PageSize)
    BY <1>3 DEF IsAnswer
  <1>5. /\ next \in Nat /\ Len(part) <= PageSize /\ read.offset <= next
        /\ read.offset <= Len(list) => next <= Len(list)
        /\ Len(part) < PageSize => Len(list) <= next
        /\ read.offset <= Len(list) => next = IF read.offset + PageSize < Len(list)
                                              THEN read.offset + PageSize ELSE Len(list)
    BY <1>1, <1>4
  <1>6. Pages!LookedThrough(part) => Len(list) <= next
    BY <1>5 DEF Pages!LookedThrough
  <1>7. More(part) = part
    BY <1>1 DEF More
  <1>8. OnePage => Len(list) <= PageSize /\ Len(list) <= next
    <2>1. OnePage => /\ Len(list) <= PageSize
                     /\ Len(list) <= read.offset \/ read.offset = 0
      BY <1>1, OnePageLemma
    <2>2. Len(list) <= PageSize /\ read.offset = 0 => Len(list) <= next
      BY <1>1, <1>4, <1>5
    <2> QED
      BY <1>1, <1>5, <2>1, <2>2
  <1> HIDE DEF next
  <1>9. ASSUME NEW offset, NEW pc, Pages!Brings(part, offset, pc)
        PROVE  /\ Passed' = offset /\ Intro' = Intro /\ (Still' <=> Still) /\ list' = list
               /\ query' = query /\ read'.pc = pc /\ read'.offset = offset
               /\ Pages!Matches(list)' = Pages!Matches(list)
    BY <1>1, <1>9 DEF Pages!Brings, Passed, Intro, Still, PagesTypes, Pages!Matches
  <1>10. ASSUME NEW offset \in Nat, NEW pc \in {"reading", "done", "refused"},
                Pages!Brings(part, offset, pc),
                offset = next \/ (offset = read.offset /\ pc = "refused"),
                pc = "done" => Len(list) <= next
         PROVE  PagesTypes' /\ MissesFew' /\ Counts' /\ OnePageWhole' /\ AccountsWhole'
    <2>1. ReadsOn(part, PageSize, offset, pc)
      BY <1>1, <1>3, <1>7, <1>10 DEF ReadsOn
    <2>2. Passed' = offset
      BY <1>9, <1>10
    <2>3. offset <= Passed + PageSize /\ (pc = "reading" => offset <= Passed + Len(part))
      BY <1>1, <1>4, <1>5, <1>10 DEF next
    <2>4. OnePage => /\ read.offset = 0 => Len(list) <= PageSize
                     /\ pc # "refused" => Len(list) <= offset
      BY <1>8, <1>10
    <2>5. pc = "done" => Len(list) <= offset
      BY <1>10
    <2> QED
      BY <2>1, <2>2, <2>3, <2>4, <2>5, SerialStep
  <1>11. CASE Cardinality(Pages!Matches(read.got \o part)) > 1
              /\ Pages!Brings(part, read.offset, "refused")
    <2>1. PagesTypes' /\ MissesFew' /\ Counts' /\ OnePageWhole' /\ AccountsWhole'
      BY <1>1, <1>10, <1>11
    <2>2. ASSUME Still PROVE Cardinality(Pages!Matches(list)) > 1
      <3> DEFINE all == read.got \o part
      <3>1. ToSet(all) = ToSet(read.got) \cup ToSet(part)
        <4>1. part \in Seq(Contacts)
          BY <1>4, SeqMonotonic DEF Contacts
        <4> QED
          BY <1>1, <4>1, JoinedLemma
      <3> HIDE DEF all
      <3>2. ToSet(read.got) \subseteq ToSet(list)
        BY <1>1, <2>2, NoStrays
      <3>3. Pages!Matches(all) \in SUBSET Pages!Matches(list) /\ Pages!Matches(list) \in SUBSET Row
        <4>1. ToSet(list) \subseteq Row
          BY <1>1 DEF ToSet
        <4> QED
          BY <1>4, <3>1, <3>2, <4>1, PagesLibrary DEF Pages!Matches
      <3>4. /\ IsFiniteSet(Pages!Matches(list)) /\ IsFiniteSet(Pages!Matches(all))
            /\ Cardinality(Pages!Matches(all)) <= Cardinality(Pages!Matches(list))
        BY <3>3, FS_Subset, ReadsAssumption
      <3>5. Cardinality(Pages!Matches(list)) \in Nat /\ Cardinality(Pages!Matches(all)) \in Nat
        BY <3>4, FS_CardinalityType
      <3> QED
        BY <1>11, <3>4, <3>5 DEF all
    <2>3. SerialWhole'
      <3>1. ASSUME Still'
            PROVE  /\ read'.offset <= Len(list') /\ read'.pc = "refused"
                   /\ Cardinality(Pages!Matches(list))' > 1
        BY <1>1, <1>9, <1>11, <2>2, <3>1 DEF PagesInv, SerialWhole
      <3> QED
        BY <3>1 DEF SerialWhole
    <2> QED
      BY <2>1, <2>3 DEF PagesInv
  <1>12. CASE Pages!Brings(part, next, "refused") /\ next >= LookupMaxRows
    <2>1. PagesTypes' /\ MissesFew' /\ Counts' /\ OnePageWhole' /\ AccountsWhole'
      BY <1>5, <1>10, <1>12
    <2>2. SerialWhole'
      <3>1. ASSUME Still'
            PROVE  read'.offset <= Len(list') /\ read'.pc = "refused" /\ Len(list') >= LookupMaxRows
        <4>1. read'.offset = next /\ read'.pc = "refused" /\ Still /\ list' = list
          BY <1>9, <1>12, <3>1
        <4>2. next <= Len(list)
          BY <1>1, <1>5, <4>1 DEF PagesInv, SerialWhole
        <4> QED
          BY <1>1, <1>5, <1>12, <4>1, <4>2
      <3> QED
        BY <3>1 DEF SerialWhole
    <2> QED
      BY <2>1, <2>2 DEF PagesInv
  <1>13. ASSUME NEW pc \in {"reading", "done"}, Pages!Brings(part, next, pc),
                pc = "done" => Len(list) <= next
         PROVE  PagesInv'
    <2>1. PagesTypes' /\ MissesFew' /\ Counts' /\ OnePageWhole' /\ AccountsWhole'
      BY <1>5, <1>10, <1>13
    <2>2. CASE ~Still
      BY <1>9, <1>13, <2>1, <2>2 DEF PagesInv, SerialWhole
    <2>3. CASE Still
      <3>1. read.offset <= Len(list) /\ next <= Len(list)
        BY <1>1, <1>5, <2>3 DEF PagesInv, SerialWhole
      <3>2. ASSUME query.ordered PROVE (read.got = Intro \o Pages!Chunk(0, Passed))'
        <4>1. Pages!Chunk(0, next) = Pages!Chunk(0, Passed + PageSize)
          BY <1>1, <1>5, <3>1 DEF Pages!Chunk
        <4>2. Pages!Brings(Pages!Chunk(Passed, PageSize), next, pc)
          BY <1>1, <1>4, <1>13, <3>2
        <4>3. Intro' = Intro /\ Passed' = next
          BY <1>9, <1>13
        <4> QED
          BY <1>1, <1>5, <2>3, <3>2, <4>1, <4>2, <4>3, WholeStep
      <3>3. read'.offset = next /\ read'.pc = pc /\ list' = list /\ query' = query
        BY <1>9, <1>13
      <3>4. SerialWhole'
        BY <3>1, <3>2, <3>3 DEF SerialWhole
      <3> QED
        BY <2>1, <3>4 DEF PagesInv
    <2> QED
      BY <2>2, <2>3
  <1> QED
    BY <1>2, <1>6, <1>11, <1>12, <1>13 DEF next

\* The next batch of the phonebook.
LEMMA BatchStep ==
  ASSUME PagesInv, Pages!PhonebookBatch
  PROVE  PagesInv'
  <1> DEFINE next == read.offset + PageSize
  <1>1. /\ query.what = "phonebook" /\ read.pc = "reading" /\ PagesTypes /\ Passed = read.offset
        /\ read.offset \in Nat /\ PageSize \in Nat \ {0} /\ next \in Nat /\ Len(list) \in Nat
        /\ ListOK(list)
    BY ReadsAssumption DEF Pages!PhonebookBatch, Pages!Reading, Passed, PagesInv, PagesTypes, ListOK
  <1>2. PICK part : /\ part \in Pages!Answers(read.offset, PageSize)
                    /\ Pages!Brings(part, next, IF Len(part) < PageSize THEN "done" ELSE "reading")
    BY DEF Pages!PhonebookBatch
  <1>3. PICK pc \in {"reading", "done"} : /\ Pages!Brings(part, next, pc)
                                          /\ pc = "done" <=> Len(part) < PageSize
    BY <1>2
  <1>4. IsAnswer(part, read.offset, PageSize)
    BY <1>1, <1>2, AnswerLemma
  <1>5. /\ part \in Seq(Row) /\ Len(part) \in Nat
        /\ Len(part) = IF read.offset >= Len(list) THEN 0
                       ELSE IF read.offset + PageSize < Len(list) THEN PageSize
                       ELSE Len(list) - read.offset
        /\ query.ordered => part = Pages!Chunk(read.offset, PageSize)
    BY <1>4 DEF IsAnswer
  <1>6. /\ Len(part) < PageSize => Len(list) <= next
        /\ Len(part) >= PageSize => next <= read.offset + Len(part)
    BY <1>1, <1>5
  <1>7. ReadsOn(part, PageSize, next, pc)
    <2>1. More(part) = part
      BY <1>1 DEF More
    <2> QED
      BY <1>1, <1>3, <1>4, <2>1 DEF ReadsOn
  <1>8. /\ Passed' = next /\ Intro' = Intro /\ (Still' <=> Still)
        /\ read'.pc = pc /\ query' = query
    BY <1>1, <1>3 DEF Pages!Brings, Passed, Intro, PagesTypes, Still
  <1>9. OnePage => /\ read.offset = 0 => Len(list) <= PageSize
                   /\ pc # "refused" => Len(list) <= next
    <2>1. OnePage => /\ Len(list) <= PageSize
                     /\ Len(list) <= read.offset \/ read.offset = 0
      BY <1>1, OnePageLemma
    <2> QED
      BY <1>1, <2>1
  <1>10. pc = "done" => Len(list) <= next
    BY <1>3, <1>6
  <1>11. pc = "reading" => next <= Passed + Len(part)
    BY <1>1, <1>3, <1>5, <1>6
  <1>12. next <= Passed + PageSize
    BY <1>1
  <1>13. Pages!Chunk(0, next) = Pages!Chunk(0, Passed + PageSize)
    BY <1>1
  <1> HIDE DEF next
  <1>14. PagesTypes' /\ MissesFew' /\ Counts' /\ OnePageWhole' /\ AccountsWhole'
    BY <1>1, <1>7, <1>8, <1>9, <1>10, <1>11, <1>12, SerialStep
  <1>15. ASSUME Still, query.ordered PROVE (read.got = Intro \o Pages!Chunk(0, Passed))'
    <2>1. Pages!Brings(Pages!Chunk(Passed, PageSize), next, pc)
      BY <1>1, <1>3, <1>5, <1>15
    <2> QED
      BY <1>1, <1>8, <1>13, <1>15, <2>1, WholeStep
  <1>16. SerialWhole'
    BY <1>1, <1>3, <1>8, <1>15 DEF SerialWhole
  <1> QED
    BY <1>14, <1>16 DEF PagesInv

\* The next page of a client.
LEMMA PageStep ==
  ASSUME PagesInv, Pages!PhonebookPage
  PROVE  PagesInv'
  <1> DEFINE p == read.offset + 1
             total == Len(list) + query.custom
             pc == IF p * query.items >= total THEN "done" ELSE "reading"
             o == Pages!PhonebookOffset(p)
             n == Pages!PhonebookLimit(p)
  <1>1. /\ query.what = "pages" /\ read.pc = "reading" /\ PagesTypes /\ ListOK(list)
        /\ read.offset \in Nat /\ query.custom \in Nat /\ query.items \in Nat \ {0}
        /\ query.custom <= query.items /\ Passed \in Nat /\ Len(list) \in Nat
        /\ p \in Nat /\ p > 0 /\ pc \in {"reading", "done"}
    <2>1. query.what = "pages" /\ read.pc = "reading" /\ PagesTypes
      BY DEF Pages!PhonebookPage, Pages!Reading, PagesInv
    <2>2. query \in Pages!Query /\ ListOK(list) /\ read.offset \in Nat /\ Len(list) \in Nat
      BY <2>1 DEF PagesTypes, ListOK
    <2>3. Passed \in Nat
      BY <2>1 DEF PagesInv, MissesFew
    <2>4. p \in Nat /\ p > 0
      BY <2>2
    <2>5. pc \in {"reading", "done"}
      OBVIOUS
    <2> QED
      BY <2>1, <2>2, <2>3, <2>4, <2>5, QueryLemma
  <1>2. PICK part : /\ part \in Pages!Answers(o, n)
                    /\ Pages!Brings(IF p = 1 THEN Pages!Custom \o part ELSE part, p, pc)
    BY DEF Pages!PhonebookPage
  <1>3. Pages!Brings(More(part), p, pc)
    <2>1. p = 1 <=> read.offset = 0
      BY <1>1
    <2>2. More(part) = IF p = 1 THEN Pages!Custom \o part ELSE part
      BY <1>1, <2>1 DEF More
    <2> QED
      BY <1>2, <2>2
  <1>4. /\ query' = query /\ list' = list /\ since' = since /\ read'.offset = p /\ read'.pc = pc
        /\ read'.got = read.got \o More(part)
    BY <1>1, <1>3 DEF Pages!Brings, PagesTypes
  <1>5. Passed' = p * query.items - query.custom /\ (Still' <=> Still)
    BY <1>1, <1>4 DEF Passed, Still
  <1>6. CASE read.offset = 0
    <2> DEFINE passed == query.items - query.custom
    <2>1. p = 1 /\ Passed = 0 /\ 1 * query.items = query.items
      BY <1>1, <1>6 DEF Passed
    <2>2. Passed' = passed /\ passed \in Nat
      <3>1. p * query.items = query.items
        BY <2>1
      <3> HIDE DEF p
      <3>2. Passed' = query.items - query.custom
        BY <1>5, <3>1
      <3> QED
        BY <1>1, <3>2
    <2>3. o = Passed /\ n = (IF query.items > query.custom THEN passed ELSE 1)
      BY <2>1 DEF Pages!PhonebookOffset, Pages!PhonebookLimit
    <2>4. n \in Nat /\ passed <= n /\ passed <= Passed + n
      <3> HIDE DEF n, o
      <3>1. CASE query.items > query.custom
        BY <2>1, <2>2, <2>3, <3>1
      <3>2. CASE ~(query.items > query.custom)
        <4>1. passed = 0 /\ n = 1
          BY <1>1, <2>3, <3>2
        <4> QED
          BY <2>1, <4>1
      <3> QED
        BY <3>1, <3>2
    <2>5. pc = "done" <=> Len(list) <= passed
      <3>1. p * query.items = query.items
        BY <2>1
      <3> HIDE DEF p
      <3>2. pc = "done" <=> query.items >= Len(list) + query.custom
        BY <3>1
      <3> QED
        BY <1>1, <3>2
    <2> HIDE DEF p, pc, o, n, passed
    <2>6. part \in Pages!Answers(Passed, n)
      BY <1>2, <2>3
    <2>7. IsAnswer(part, Passed, n)
      BY <1>1, <2>4, <2>6, AnswerLemma
    <2>8. /\ part \in Seq(Row) /\ Len(part) \in Nat
          /\ Len(part) = IF Passed >= Len(list) THEN 0
                         ELSE IF Passed + n < Len(list) THEN n ELSE Len(list) - Passed
          /\ query.ordered => part = Pages!Chunk(Passed, n)
      BY <2>7 DEF IsAnswer
    <2>9. pc = "reading" => passed <= Passed + Len(part)
      <3>1. ASSUME Len(list) > passed PROVE passed <= Len(part)
        BY <1>1, <2>1, <2>2, <2>4, <2>8, <3>1
      <3> QED
        BY <1>1, <2>1, <2>2, <2>5, <2>8, <3>1
    <2>10. OnePage => Len(list) <= n /\ Len(list) <= passed
      <3>1. OnePage => Len(list) <= passed
        BY <1>1 DEF OnePage, passed
      <3> QED
        BY <1>1, <2>2, <2>4, <3>1
    <2>11. ReadsOn(part, n, p, pc)
      BY <1>1, <1>3, <2>1, <2>4, <2>7 DEF ReadsOn
    <2>12. PagesTypes' /\ MissesFew' /\ Counts' /\ OnePageWhole' /\ AccountsWhole'
      BY <2>2, <2>4, <2>5, <2>9, <2>10, <2>11, SerialStep
    <2>13. ASSUME Still, query.ordered PROVE read'.got = Intro' \o Pages!Chunk(0, passed)
      <3> DEFINE page == Pages!Chunk(0, n)
      <3>1. part = page /\ More(part) = Pages!Custom \o page
        BY <1>1, <1>6, <2>1, <2>8, <2>13 DEF More
      <3>2. read.got = <<>>
        <4>1. read.got = <<>> \o Pages!Chunk(0, 0)
          BY <1>1, <1>6, <2>1, <2>13 DEF PagesInv, SerialWhole, Intro
        <4>2. IsPage(Pages!Chunk(0, 0), 0, 0)
          BY <1>1, ChunkLemma
        <4> QED
          BY <1>1, <4>1, <4>2 DEF IsPage
      <3>3. /\ page \in Seq(Contacts) /\ Pages!Custom \in Seq(Contacts)
            /\ More(part) \in Seq(Contacts)
        <4>1. page \in Seq(Contacts) /\ Pages!Custom \in Seq(Contacts)
          BY <1>1, <2>4, PartsLemma
        <4> HIDE DEF page
        <4> QED
          BY <3>1, <4>1, ConcatProperties
      <3> HIDE DEF page
      <3>4. read'.got = Pages!Custom \o page
        BY <1>4, <3>1, <3>2, <3>3, ConcatEmptySeq
      <3>5. Intro' = Pages!Custom \o (IF query.custom = query.items THEN Pages!Chunk(0, 1)
                                      ELSE <<>>)
        <4>1. Pages!Custom' = Pages!Custom /\ Pages!Chunk(0, 1)' = Pages!Chunk(0, 1)
          BY <1>4 DEF Pages!Custom, Pages!Chunk
        <4>2. query'.what = "pages" /\ read'.offset # 0
          BY <1>1, <1>4, <2>1
        <4> QED
          BY <1>4, <4>1, <4>2 DEF Intro
      <3>6. CASE query.custom = query.items
        <4>1. passed = 0 /\ page = Pages!Chunk(0, 1)
          BY <1>1, <2>3, <3>6 DEF page, passed
        <4>2. IsPage(Pages!Chunk(0, 0), 0, 0)
          BY <1>1, ChunkLemma
        <4>3. Pages!Chunk(0, 0) = <<>>
          BY <1>1, <4>2 DEF IsPage
        <4>4. Pages!Custom \o page \in Seq(Contacts)
          BY <3>1, <3>3
        <4> QED
          BY <3>4, <3>5, <3>6, <4>1, <4>3, <4>4, ConcatEmptySeq
      <3>7. CASE query.custom # query.items
        <4>1. page = Pages!Chunk(0, passed)
          BY <1>1, <2>3, <3>7 DEF page, passed
        <4>2. Intro' = Pages!Custom
          BY <3>3, <3>5, <3>7, ConcatEmptySeq
        <4> QED
          BY <3>4, <4>1, <4>2
      <3> QED
        BY <3>6, <3>7
    <2>14. Pages!Chunk(0, Passed)' = Pages!Chunk(0, passed)
      BY <1>4, <2>2 DEF Pages!Chunk
    <2>15. SerialWhole'
      BY <1>1, <1>4, <1>5, <2>2, <2>13, <2>14 DEF SerialWhole
    <2> QED
      BY <2>12, <2>15 DEF PagesInv
  <1>7. CASE read.offset # 0
    <2> DEFINE g == Passed + n
    <2>1. p # 1 /\ p > 1 /\ Passed = read.offset * query.items - query.custom /\ p - 1 = read.offset
      BY <1>1, <1>7 DEF Passed
    <2>2. n = query.items /\ o = Passed
      BY <2>1 DEF Pages!PhonebookOffset, Pages!PhonebookLimit
    <2>3. read.offset * query.items \in Nat
          /\ p * query.items = read.offset * query.items + query.items
      BY <1>1
    <2>4. g \in Nat /\ n \in Nat /\ Passed' = g /\ p * query.items = g + query.custom
      <3> DEFINE x == read.offset * query.items
                 y == p * query.items
      <3>1. /\ Passed = x - query.custom /\ y = x + query.items /\ x \in Nat
            /\ Passed' = y - query.custom
        BY <1>5, <2>1, <2>3
      <3>2. query.custom \in Nat /\ Passed \in Nat /\ query.items \in Nat
        BY <1>1
      <3> HIDE DEF x, p, n
      <3>3. g = Passed + query.items
        BY <2>2
      <3> HIDE DEF y, g
      <3>4. y = g + query.custom
        BY <3>1, <3>2, <3>3
      <3>5. Passed' = g /\ g \in Nat /\ n \in Nat
        BY <2>2, <3>1, <3>2, <3>3
      <3> QED
        BY <3>4, <3>5 DEF y
    <2>5. pc = "done" <=> Len(list) <= g
      <3> HIDE DEF g, n, p
      <3> QED
        BY <1>1, <2>4
    <2> HIDE DEF p, pc, o, n
    <2>6. part \in Pages!Answers(Passed, n)
      BY <1>2, <2>2
    <2>7. IsAnswer(part, Passed, n)
      BY <1>1, <2>4, <2>6, AnswerLemma
    <2>8. /\ part \in Seq(Row) /\ Len(part) \in Nat
          /\ Len(part) = IF Passed >= Len(list) THEN 0
                         ELSE IF Passed + n < Len(list) THEN n ELSE Len(list) - Passed
          /\ query.ordered => part = Pages!Chunk(Passed, n)
      BY <2>7 DEF IsAnswer
    <2>9. pc = "reading" => g <= Passed + Len(part)
      <3>1. Len(list) > g => Len(part) = n
        BY <1>1, <2>4, <2>8
      <3> QED
        BY <1>1, <2>4, <2>5, <3>1
    <2>10. OnePage => Len(list) <= g
      <3>1. OnePage => Len(list) <= Passed
        BY <1>1, <1>7 DEF PagesInv, OnePageWhole
      <3> QED
        BY <1>1, <2>4, <3>1
    <2>11. ReadsOn(part, n, p, pc)
      BY <1>1, <1>3, <2>4, <2>7 DEF ReadsOn
    <2>12. Intro' = Intro /\ More(part) = part
      <3>1. Pages!Custom' = Pages!Custom /\ Pages!Chunk(0, 1)' = Pages!Chunk(0, 1)
        BY <1>4 DEF Pages!Custom, Pages!Chunk
      <3>2. query.what = "pages" /\ query' = query /\ read'.offset # 0 /\ read.offset # 0
        BY <1>1, <1>4, <1>7
      <3> QED
        BY <3>1, <3>2 DEF Intro, More
    <2>13. Pages!Chunk(0, g) = Pages!Chunk(0, Passed + n) /\ g <= Passed + n
      BY <2>4
    <2> HIDE DEF g
    <2>14. PagesTypes' /\ MissesFew' /\ Counts' /\ OnePageWhole' /\ AccountsWhole'
      BY <1>7, <2>4, <2>5, <2>9, <2>10, <2>11, <2>13, SerialStep
    <2>15. ASSUME Still, query.ordered PROVE (read.got = Intro \o Pages!Chunk(0, Passed))'
      <3>1. Pages!Brings(Pages!Chunk(Passed, n), p, pc)
        BY <1>3, <2>8, <2>12, <2>15
      <3> QED
        BY <1>1, <2>4, <2>12, <2>13, <2>15, <3>1, WholeStep
    <2>16. SerialWhole'
      BY <1>1, <1>4, <1>5, <2>15 DEF SerialWhole
    <2> QED
      BY <2>14, <2>16 DEF PagesInv
  <1> QED
    BY <1>6, <1>7

\* All of a list is ahead of the first place.
LEMMA AllAhead ==
  ASSUME NEW l \in Seq(Row)
  PROVE  Ahead(l, 0) = ToSet(l)
  BY DEF Ahead, ToSet

\* An entry joins the list.
LEMMA JoinsStep ==
  ASSUME PagesInv, NEW row \in Row, NEW i \in 1..Cardinality(Row), Pages!Joins(row, i)
  PROVE  PagesInv'
  <1>1. /\ read.pc = "reading" /\ since.left + since.joined < MaxChanges
        /\ row \notin ToSet(list) /\ i <= Len(list) + 1
        /\ list' = InsertAt(list, i, row)
        /\ since' = [since EXCEPT !.joined = @ + 1]
        /\ query' = query /\ read' = read
    BY PagesLibrary DEF Pages!Joins
  <1>2. /\ PagesTypes /\ ListOK(list) /\ Len(list) \in Nat /\ since.left \in Nat
        /\ since.joined \in Nat /\ since.began \in Seq(Row) /\ i \in 1..Len(list) + 1
    BY <1>1, FS_CardinalityType, ReadsAssumption DEF PagesInv, PagesTypes, ListOK
  <1>3. /\ since' \in [began: Seq(Row), left: Nat, joined: Nat]
        /\ since'.began = since.began /\ since'.left = since.left
        /\ since'.joined = since.joined + 1
    BY <1>1, <1>2 DEF PagesTypes
  <1>4. ListOK(list') /\ \A f \in Nat : Ahead(list, f) \subseteq Ahead(list', f)
    BY <1>1, <1>2, JoinLemma
  <1>5. PagesTypes'
    <2>1. since'.left + since'.joined <= MaxChanges
      BY <1>1, <1>2, <1>3, ReadsAssumption
    <2> QED
      BY <1>1, <1>2, <1>3, <1>4, <2>1 DEF PagesTypes
  <1>6. Passed' = Passed /\ ~Still'
    BY <1>1, <1>2, <1>3 DEF Passed, Still
  <1>7. MissesFew'
    <2>1. CASE query.what = "accounts"
      BY <1>1, <2>1 DEF MissesFew
    <2>2. CASE query.what # "accounts"
      <3>1. /\ Passed \in Nat
            /\ query.ordered =>
                  Cardinality(Missed(since.began, read.got, list, Passed)) <= since.left
        BY <2>2 DEF PagesInv, MissesFew
      <3>2. Missed(since.began, read.got, list', Passed) \subseteq Missed(since.began, read.got,
           list, Passed)
        BY <1>4, <3>1 DEF Missed
      <3>3. query.ordered =>
               Cardinality(Missed(since.began, read.got, list', Passed)) <= since.left
        BY <1>2, <3>1, <3>2, FewerLemma
      <3> QED
        BY <1>1, <1>3, <1>6, <3>1, <3>3 DEF MissesFew
    <2> QED
      BY <2>1, <2>2
  <1>8. Counts'
    <2>1. Ahead(list, 0) = ToSet(list) /\ Ahead(list', 0) = ToSet(list')
      BY <1>2, <1>4, AllAhead DEF ListOK
    <2>2. ToSet(list) \subseteq ToSet(list')
      BY <1>4, <2>1
    <2>3. Pages!Custom' = Pages!Custom /\ Added' = Added
      BY <1>1 DEF Pages!Custom, Added
    <2>4. Stray' \in SUBSET Stray
      BY <1>1, <2>2, <2>3 DEF Stray
    <2>5. /\ Cardinality(Stray') <= Cardinality(Stray) /\ Cardinality(Stray') \in Nat
          /\ Cardinality(Stray) \in Nat
      BY <1>2, <2>4, StrayLemma, FS_Subset, FS_CardinalityType
    <2>6. query.what # "accounts" =>
             Cardinality(Stray) <= since.left /\ Passed + Added <= Len(read.got)
      BY <1>1 DEF PagesInv, Counts
    <2>7. query.what # "accounts" => Cardinality(Stray') <= since.left
      BY <1>2, <2>5, <2>6
    <2> QED
      BY <1>1, <1>3, <1>6, <2>3, <2>6, <2>7 DEF Counts
  <1>9. AccountsWhole' /\ OnePageWhole' /\ SerialWhole'
    BY <1>1, <1>6 DEF AccountsWhole, OnePageWhole, OnePage, SerialWhole
  <1> QED
    BY <1>5, <1>7, <1>8, <1>9 DEF PagesInv

\* An entry leaves the list.
LEMMA LeavesStep ==
  ASSUME PagesInv, NEW i \in DOMAIN list, Pages!Leaves(i)
  PROVE  PagesInv'
  <1>1. /\ read.pc = "reading" /\ since.left + since.joined < MaxChanges
        /\ list' = RemoveAt(list, i)
        /\ since' = [since EXCEPT !.left = @ + 1]
        /\ query' = query /\ read' = read
    BY PagesLibrary DEF Pages!Leaves
  <1>2. /\ PagesTypes /\ ListOK(list) /\ Len(list) \in Nat /\ since.left \in Nat
        /\ since.joined \in Nat /\ since.began \in Seq(Row) /\ i \in 1..Len(list)
    BY <1>1 DEF PagesInv, PagesTypes, ListOK
  <1>3. /\ since' \in [began: Seq(Row), left: Nat, joined: Nat]
        /\ since'.began = since.began /\ since'.left = since.left + 1
        /\ since'.joined = since.joined
    <2>1. since \in [began: Seq(Row), left: Nat, joined: Nat]
      BY <1>2 DEF PagesTypes
    <2> QED
      BY <1>1, <2>1
  <1>4. /\ ListOK(list')
        /\ \A f \in Nat : Ahead(list, f) \subseteq Ahead(list',
                f) \cup {list[IF i > f THEN i ELSE f + 1]}
    BY <1>1, <1>2, LeftLemma
  <1>5. PagesTypes'
    <2>1. since'.left + since'.joined <= MaxChanges
      BY <1>1, <1>2, <1>3, ReadsAssumption
    <2> QED
      BY <1>1, <1>2, <1>3, <1>4, <2>1 DEF PagesTypes
  <1>6. Passed' = Passed /\ ~Still'
    BY <1>1, <1>2, <1>3 DEF Passed, Still
  <1>7. MissesFew'
    <2>1. CASE query.what = "accounts"
      BY <1>1, <2>1 DEF MissesFew
    <2>2. CASE query.what # "accounts"
      <3> DEFINE M == Missed(since.began, read.got, list, Passed)
                 x == list[IF i > Passed THEN i ELSE Passed + 1]
      <3>1. Passed \in Nat /\ (query.ordered => Cardinality(M) <= since.left)
        BY <2>2 DEF PagesInv, MissesFew
      <3>2. Missed(since.began, read.got, list', Passed) \in SUBSET (M \cup {x})
        BY <1>4, <3>1 DEF Missed
      <3>3. M \in SUBSET Row
        BY <1>2 DEF Missed, ToSet
      <3> HIDE DEF M, x
      <3>4. IsFiniteSet(M) /\ Cardinality(M) \in Nat
        BY <3>3, FS_Subset, FS_CardinalityType, ReadsAssumption
      <3>5. IsFiniteSet(M \cup {x}) /\ Cardinality(M \cup {x}) <= Cardinality(M) + 1
            /\ Cardinality(M \cup {x}) \in Nat
        <4>1. /\ IsFiniteSet(M \cup {x})
              /\ Cardinality(M \cup {x}) = IF x \in M THEN Cardinality(M) ELSE Cardinality(M) + 1
          BY <3>4, FS_AddElement
        <4> QED
          BY <3>4, <4>1
      <3>6. /\ Cardinality(Missed(since.began, read.got, list', Passed)) <= Cardinality(M \cup {x})
            /\ Cardinality(Missed(since.began, read.got, list', Passed)) \in Nat
        BY <3>2, <3>5, FS_Subset, FS_CardinalityType
      <3>7. query.ordered =>
               Cardinality(Missed(since.began, read.got, list', Passed)) <= since.left + 1
        BY <1>2, <3>1, <3>4, <3>5, <3>6
      <3> QED
        BY <1>1, <1>3, <1>6, <3>1, <3>7 DEF MissesFew
    <2> QED
      BY <2>1, <2>2
  <1>8. Counts'
    <2> DEFINE x == list[IF i > 0 THEN i ELSE 0 + 1]
               strays == Stray
    <2>1. Ahead(list, 0) = ToSet(list) /\ Ahead(list', 0) = ToSet(list')
      BY <1>2, <1>4, AllAhead DEF ListOK
    <2>2. ToSet(list) \subseteq ToSet(list') \cup {x}
      BY <1>4, <2>1
    <2>3. Pages!Custom' = Pages!Custom /\ Added' = Added
      BY <1>1 DEF Pages!Custom, Added
    <2>4. Stray' \in SUBSET (strays \cup {x})
      BY <1>1, <2>2, <2>3 DEF Stray
    <2>5. IsFiniteSet(strays) /\ Cardinality(strays) \in Nat
      BY <1>2, StrayLemma
    <2> HIDE DEF x, strays
    <2>6. /\ IsFiniteSet(strays \cup {x}) /\ Cardinality(strays \cup {x}) <= Cardinality(strays) + 1
          /\ Cardinality(strays \cup {x}) \in Nat
      <3>1. /\ IsFiniteSet(strays \cup {x})
            /\ Cardinality(strays \cup {x}) = IF x \in strays THEN Cardinality(strays)
                                               ELSE Cardinality(strays) + 1
        BY <2>5, FS_AddElement
      <3> QED
        BY <2>5, <3>1
    <2>7. Cardinality(Stray') <= Cardinality(strays \cup {x}) /\ Cardinality(Stray') \in Nat
      BY <2>4, <2>6, FS_Subset, FS_CardinalityType
    <2>8. query.what # "accounts" =>
             Cardinality(strays) <= since.left /\ Passed + Added <= Len(read.got)
      BY <1>1 DEF PagesInv, Counts, strays
    <2>9. query.what # "accounts" => Cardinality(Stray') <= since.left + 1
      BY <1>2, <2>5, <2>6, <2>7, <2>8
    <2> QED
      BY <1>1, <1>3, <1>6, <2>3, <2>8, <2>9 DEF Counts
  <1>9. AccountsWhole' /\ OnePageWhole' /\ SerialWhole'
    BY <1>1, <1>6 DEF AccountsWhole, OnePageWhole, OnePage, SerialWhole
  <1> QED
    BY <1>5, <1>7, <1>8, <1>9 DEF PagesInv

\* A place is on one page.
LEMMA OffsetLemma ==
  ASSUME NEW i \in Nat \ {0}
  PROVE  /\ OffsetOf(i) \in Nat /\ OffsetOf(i) % PageSize = 0
         /\ OffsetOf(i) < i /\ i <= OffsetOf(i) + PageSize
         /\ \A o \in Nat : o % PageSize = 0 => (OffsetOf(i) = o <=> o < i /\ i <= o + PageSize)
  <1> DEFINE a == i - 1
  <1>1. a \in Nat /\ PageSize \in Nat \ {0} /\ i = a + 1 /\ OffsetOf(i) = a - (a % PageSize)
    BY ReadsAssumption DEF OffsetOf
  <1> HIDE DEF a
  <1>2. a % PageSize \in 0..PageSize - 1 /\ a % PageSize <= a
    <2>1. a % PageSize \in 0..PageSize - 1
      BY <1>1
    <2>2. CASE a < PageSize
      <3>1. a % PageSize = a
        BY <1>1, <2>2
      <3> QED
        BY <1>1, <2>1, <3>1
    <2>3. CASE ~(a < PageSize)
      BY <1>1, <2>1, <2>3
    <2> QED
      BY <2>2, <2>3
  <1>3. (a - (a % PageSize)) % PageSize = 0
    BY <1>1
  <1>4. ASSUME NEW o \in Nat, o % PageSize = 0, o < i, i <= o + PageSize PROVE OffsetOf(i) = o
    <2> DEFINE r == a - o
    <2>1. r \in 0..PageSize - 1 /\ a = o + r
      BY <1>1, <1>4
    <2> HIDE DEF r
    <2>2. (o + r) % PageSize = r
      BY <1>1, <1>4, <2>1
    <2> QED
      BY <1>1, <2>1, <2>2
  <1> DEFINE b == a % PageSize
  <1>5. OffsetOf(i) = a - b /\ b \in 0..PageSize - 1 /\ b <= a
    BY <1>1, <1>2
  <1> HIDE DEF b
  <1>6. OffsetOf(i) \in Nat /\ OffsetOf(i) < i /\ i <= OffsetOf(i) + PageSize
    BY <1>1, <1>5
  <1> QED
    BY <1>1, <1>3, <1>4, <1>6

\* Pages begin a page apart.
LEMMA SmallOffset ==
  ASSUME NEW o \in Nat, o % PageSize = 0, o # 0
  PROVE  o >= PageSize
  <1>1. PageSize \in Nat \ {0}
    BY ReadsAssumption
  <1>2. o < PageSize => o % PageSize = o
    BY <1>1
  <1> QED
    BY <1>1, <1>2

\* The places on the page that begins after place o.
LEMMA OnPageLemma ==
  ASSUME ListOK(list), NEW o \in Nat, o % PageSize = 0
  PROVE  /\ Pages!Chunk(o, PageSize) \in Seq(Row) /\ IsInjective(Pages!Chunk(o, PageSize))
         /\ ToSet(Pages!Chunk(o, PageSize))
                 = {list[i] : i \in {j \in 1..Len(list) : OffsetOf(j) = o}}
  <1> DEFINE page == Pages!Chunk(o, PageSize)
  <1>1. /\ PageSize \in Nat \ {0} /\ Len(list) \in Nat /\ IsInjective(list)
        /\ DOMAIN list = 1..Len(list) /\ IsPage(page, o, PageSize)
    <2>1. PageSize \in Nat
      BY ReadsAssumption
    <2> QED
      BY <2>1, ReadsAssumption, ChunkLemma DEF ListOK
  <1> HIDE DEF page
  <1>2. /\ page \in Seq(Row) /\ DOMAIN page = 1..Len(page) /\ Len(page) \in Nat
        /\ \A i \in 1..Len(page) : page[i] = list[o + i] /\ o + i \in 1..Len(list) /\ i <= PageSize
    BY <1>1, PlacesLemma
  <1>3. IsInjective(page)
    <2> SUFFICES ASSUME NEW i \in 1..Len(page), NEW j \in 1..Len(page), page[i] = page[j]
                 PROVE  i = j
      BY <1>2 DEF IsInjective
    <2>1. o + i = o + j
      BY <1>1, <1>2 DEF IsInjective
    <2> QED
      BY <1>2, <2>1
  <1>4. ASSUME NEW i \in 1..Len(page)
        PROVE  o + i \in 1..Len(list) /\ OffsetOf(o + i) = o /\ page[i] = list[o + i]
    <2>1. o + i \in Nat \ {0} /\ o < o + i /\ o + i <= o + PageSize
      BY <1>1, <1>2
    <2>2. OffsetOf(o + i) = o
      BY <2>1, OffsetLemma
    <2> QED
      BY <1>2, <2>2
  <1>5. ASSUME NEW i \in 1..Len(list), OffsetOf(i) = o
        PROVE  \E j \in 1..Len(page) : page[j] = list[i]
    <2>1. i \in Nat \ {0} /\ o < i /\ i <= o + PageSize
      BY <1>5, OffsetLemma
    <2>2. i - o \in 1..Len(page) /\ o + (i - o) = i
      <3>1. Len(page) = IF o >= Len(list) THEN 0
                        ELSE IF o + PageSize < Len(list) THEN PageSize ELSE Len(list) - o
        BY <1>1 DEF IsPage
      <3>2. CASE o + PageSize < Len(list)
        BY <1>1, <2>1, <3>1, <3>2
      <3>3. CASE ~(o + PageSize < Len(list))
        <4>1. ~(o >= Len(list)) /\ o \in Nat
          BY <1>1, <2>1
        <4>2. Len(page) = Len(list) - o
          BY <3>1, <3>3, <4>1
        <4> QED
          BY <1>1, <2>1, <4>2
      <3> QED
        BY <3>2, <3>3
    <2> QED
      BY <1>2, <2>2
  <1>6. ToSet(page) = {list[i] : i \in {j \in 1..Len(list) : OffsetOf(j) = o}}
    <2>1. ToSet(page) \subseteq {list[i] : i \in {j \in 1..Len(list) : OffsetOf(j) = o}}
      BY <1>2, <1>4 DEF ToSet
    <2>2. {list[i] : i \in {j \in 1..Len(list) : OffsetOf(j) = o}} \subseteq ToSet(page)
      <3> SUFFICES ASSUME NEW i \in 1..Len(list), OffsetOf(i) = o PROVE list[i] \in ToSet(page)
        OBVIOUS
      <3>1. PICK j \in 1..Len(page) : page[j] = list[i]
        BY <1>5
      <3> QED
        BY <1>2, <3>1 DEF ToSet
    <2> QED
      BY <2>1, <2>2
  <1> QED
    BY <1>2, <1>3, <1>6 DEF page

\* A step of the pages read side by side keeps the types, and says nothing of
\* those read page after page.
LEMMA SideStep ==
  ASSUME PagesInv, query.what = "accounts", NEW got \in Seq(Contacts),
         NEW pc \in {"reading", "done"}, NEW todo \in SUBSET Nat, todo # {} => pc = "reading",
         read' = [read EXCEPT !.got = got, !.pc = pc, !.todo = todo],
         UNCHANGED <<query, list, since>>
  PROVE  /\ PagesTypes' /\ MissesFew' /\ Counts' /\ SerialWhole'
         /\ (Still' <=> Still) /\ (OnePage' <=> OnePage) /\ Pages!Custom' = Pages!Custom
         /\ read'.got = got /\ read'.pc = pc /\ read'.todo = todo /\ list' = list
         /\ query' = query
  <1>1. /\ read \in [pc: {"reading", "done", "refused"}, got: Seq(Contacts), offset: Nat,
                     todo: SUBSET Nat]
        /\ PagesTypes
    BY DEF PagesInv, PagesTypes
  <1>2. /\ read' \in [pc: {"reading", "done", "refused"}, got: Seq(Contacts), offset: Nat,
                      todo: SUBSET Nat]
        /\ read'.got = got /\ read'.pc = pc /\ read'.todo = todo
    BY <1>1
  <1>3. PagesTypes'
    BY <1>1, <1>2 DEF PagesTypes, ListOK
  <1> QED
    BY <1>2, <1>3 DEF MissesFew, Counts, SerialWhole, Still, OnePage, Pages!Custom

\* The first page of the accounts, which tells how many more there are.
LEMMA FirstStep ==
  ASSUME PagesInv, Pages!FirstAccounts
  PROVE  PagesInv'
  <1> DEFINE page == Pages!Chunk(0, PageSize)
  <1>1. /\ query.what = "accounts" /\ PagesTypes /\ ListOK(list) /\ Len(list) \in Nat
        /\ PageSize \in Nat \ {0} /\ list \in Seq(Row) /\ query.custom = 0
        /\ query.items = PageSize
    BY ReadsAssumption, QueryLemma
    DEF Pages!FirstAccounts, Pages!Reading, PagesInv, PagesTypes, ListOK
  <1>2. PICK part :
           /\ part \in Pages!Answers(0, PageSize)
           /\ LET whole == Len(part) < PageSize \/ Len(part) >= Len(list)
              IN read' = [read EXCEPT !.got = part, !.pc = IF whole THEN "done" ELSE "reading",
                                      !.todo = IF whole THEN {}
                                               ELSE Pages!RemainingOffsets(Len(list))]
           /\ UNCHANGED <<query, list, since>>
    BY DEF Pages!FirstAccounts
  <1> DEFINE whole == Len(part) < PageSize \/ Len(part) >= Len(list)
             todo == IF whole THEN {} ELSE Pages!RemainingOffsets(Len(list))
             pc == IF whole THEN "done" ELSE "reading"
  <1>3. /\ read' = [read EXCEPT !.got = part, !.pc = pc, !.todo = todo]
        /\ UNCHANGED <<query, list, since>>
    BY <1>2
  <1>4. IsAnswer(part, 0, PageSize)
    <2>1. part \in Pages!Answers(0, PageSize) /\ 0 \in Nat /\ PageSize \in Nat
      BY <1>1, <1>2
    <2> QED
      BY <1>1, <2>1, AnswerLemma
  <1>5. /\ part \in Seq(Contacts) /\ IsInjective(part) /\ Len(part) \in Nat
        /\ Len(part) = IF 0 >= Len(list) THEN 0
                       ELSE IF 0 + PageSize < Len(list) THEN PageSize ELSE Len(list) - 0
        /\ query.ordered => part = page
        /\ Len(list) <= PageSize => ToSet(part) = ToSet(list)
    <2>1. Row \subseteq Contacts
      BY DEF Contacts
    <2> QED
      BY <1>4, <2>1, SeqMonotonic DEF IsAnswer
  <1>6. ToSet(page) = {list[i] : i \in {j \in 1..Len(list) : OffsetOf(j) = 0}}
    <2>1. 0 \in Nat /\ 0 % PageSize = 0
      BY <1>1
    <2> QED
      BY <1>1, <2>1, OnPageLemma
  <1> HIDE DEF page
  <1>7. todo \in SUBSET Nat /\ pc \in {"reading", "done"} /\ (todo # {} => pc = "reading")
    BY <1>1 DEF Pages!RemainingOffsets
  <1>8. /\ PagesTypes' /\ MissesFew' /\ Counts' /\ SerialWhole'
        /\ (Still' <=> Still) /\ (OnePage' <=> OnePage) /\ Pages!Custom' = Pages!Custom
        /\ read'.got = part /\ read'.pc = pc /\ read'.todo = todo /\ list' = list
        /\ query' = query
    <2> HIDE DEF pc, todo, whole
    <2> QED
      BY <1>1, <1>3, <1>5, <1>7, SideStep
  <1>9. whole <=> Len(list) <= PageSize
    BY <1>1, <1>5
  <1>10. pc = IF todo = {} THEN "done" ELSE "reading"
    <2>1. CASE whole
      BY <2>1
    <2>2. CASE ~whole
      <3>1. PageSize % PageSize = 0
        BY <1>1
      <3>2. PageSize \in PageSize..Len(list) - 1
        BY <1>1, <1>9, <2>2
      <3> QED
        BY <2>2, <3>1, <3>2 DEF Pages!RemainingOffsets
    <2> QED
      BY <2>1, <2>2
  <1>11. ASSUME NEW i \in 1..Len(list) PROVE OffsetOf(i) \notin todo <=> OffsetOf(i) = 0
    <2>1. /\ i \in Nat \ {0} /\ OffsetOf(i) \in Nat /\ OffsetOf(i) % PageSize = 0 /\ OffsetOf(i) < i
          /\ (OffsetOf(i) = 0 <=> 0 < i /\ i <= 0 + PageSize)
          /\ (OffsetOf(i) = PageSize <=> PageSize < i /\ i <= PageSize + PageSize)
      <3>1. i \in Nat \ {0} /\ 0 \in Nat /\ 0 % PageSize = 0 /\ PageSize \in Nat
           /\ PageSize % PageSize = 0
        BY <1>1
      <3> QED
        BY <3>1, OffsetLemma
    <2>2. i <= OffsetOf(i) + PageSize
      BY <2>1, OffsetLemma
    <2>3. CASE whole
      <3>1. i <= PageSize
        BY <1>1, <1>9, <2>3
      <3> QED
        BY <1>1, <2>1, <2>3, <3>1
    <2>4. CASE ~whole
      <3>1. CASE OffsetOf(i) = 0
        BY <1>1, <2>4, <3>1 DEF Pages!RemainingOffsets
      <3>2. CASE OffsetOf(i) # 0
        <4>1. PageSize < i
          BY <1>1, <2>1, <3>2
        <4>2. OffsetOf(i) >= PageSize
          BY <1>1, <2>1, <2>2, <3>2, <4>1, SmallOffset
        <4>3. OffsetOf(i) \in PageSize..Len(list) - 1
          BY <1>1, <2>1, <4>2
        <4> QED
          BY <2>1, <2>4, <3>2, <4>3 DEF Pages!RemainingOffsets
      <3> QED
        BY <3>1, <3>2
    <2> QED
      BY <2>3, <2>4
  <1>12. OnePage => todo = {} /\ pc = "done" /\ ToSet(part) = ToSet(list)
    <2>1. OnePage => Len(list) <= PageSize
      BY <1>1 DEF OnePage
    <2> QED
      BY <1>5, <1>9, <2>1
  <1>13. todo \subseteq Pages!RemainingOffsets(Len(list))
    OBVIOUS
  <1> HIDE DEF pc, todo, whole
  <1>14. query.ordered => ToSet(part) = Brought'
    BY <1>5, <1>6, <1>8, <1>11 DEF Brought
  <1>15. AccountsWhole'
    BY <1>5, <1>7, <1>8, <1>10, <1>13, <1>14 DEF AccountsWhole
  <1>16. OnePageWhole'
    <2>1. ToSet(Pages!Custom) = {}
      BY <1>1 DEF Pages!Custom, ToSet
    <2> QED
      BY <1>8, <1>12, <2>1 DEF OnePageWhole
  <1> QED
    BY <1>8, <1>15, <1>16 DEF PagesInv

\* Another page of the accounts.
LEMMA MoreStep ==
  ASSUME PagesInv, NEW o \in read.todo, Pages!MoreAccounts(o)
  PROVE  PagesInv'
  <1> DEFINE page == Pages!Chunk(o, PageSize)
             todo == read.todo \ {o}
             last == read.todo = {o}
             pc == IF last THEN "done" ELSE "reading"
  <1>1. /\ query.what = "accounts" /\ PagesTypes /\ ListOK(list) /\ Len(list) \in Nat
        /\ PageSize \in Nat \ {0} /\ o \in Nat /\ read.todo \in SUBSET Nat /\ read.pc = "reading"
        /\ read.got \in Seq(Contacts) /\ IsInjective(list) /\ DOMAIN list = 1..Len(list)
    BY ReadsAssumption DEF Pages!MoreAccounts, Pages!Reading, PagesInv, PagesTypes, ListOK
  <1>2. PICK part :
           /\ part \in Pages!Answers(o, PageSize)
           /\ read' = [read EXCEPT !.got = IF last THEN Pages!Once(read.got \o part)
                                           ELSE read.got \o part,
                                   !.pc = pc, !.todo = todo]
           /\ UNCHANGED <<query, list, since>>
    BY DEF Pages!MoreAccounts
  <1> DEFINE all == read.got \o part
             got == IF last THEN Pages!Once(all) ELSE all
  <1>3. /\ part \in Seq(Contacts)
        /\ query.ordered => part = page
    <2>1. IsAnswer(part, o, PageSize)
      BY <1>1, <1>2, AnswerLemma
    <2>2. Row \subseteq Contacts
      BY DEF Contacts
    <2> QED
      BY <2>1, <2>2, SeqMonotonic DEF IsAnswer
  <1>4. /\ all \in Seq(Contacts) /\ ToSet(all) = ToSet(read.got) \cup ToSet(part)
    BY <1>1, <1>3, ConcatProperties, JoinedLemma
  <1> HIDE DEF all
  <1>5. got \in Seq(Contacts) /\ ToSet(got) = ToSet(all) /\ (last => IsInjective(got))
    <2>1. IsFiniteSet(Contacts)
      BY FS_AddElement, ReadsAssumption DEF Contacts
    <2>2. /\ Pages!Once(all) \in Seq(Contacts) /\ IsInjective(Pages!Once(all))
          /\ ToSet(Pages!Once(all)) = ToSet(all)
      BY <1>4, <2>1, OnceLemma
    <2> QED
      BY <1>4, <2>2
  <1>6. /\ todo \in SUBSET Nat /\ pc \in {"reading", "done"} /\ (todo # {} => pc = "reading")
        /\ pc = IF todo = {} THEN "done" ELSE "reading"
        /\ pc = "done" => last
    BY <1>1
  <1>7. /\ PagesTypes' /\ MissesFew' /\ Counts' /\ SerialWhole'
        /\ (Still' <=> Still) /\ (OnePage' <=> OnePage) /\ Pages!Custom' = Pages!Custom
        /\ read'.got = got /\ read'.pc = pc /\ read'.todo = todo /\ list' = list
        /\ query' = query
    <2>1. /\ read' = [read EXCEPT !.got = got, !.pc = pc, !.todo = todo]
          /\ UNCHANGED <<query, list, since>>
      BY <1>2 DEF all
    <2> HIDE DEF pc, todo, got
    <2> QED
      BY <1>1, <1>5, <1>6, <2>1, SideStep
  <1>8. ASSUME Still, query.ordered
        PROVE  todo \subseteq Pages!RemainingOffsets(Len(list)) /\ ToSet(got) = Brought'
    <2>1. read.todo \subseteq Pages!RemainingOffsets(Len(list)) /\ ToSet(read.got) = Brought
      BY <1>1, <1>8 DEF PagesInv, AccountsWhole
    <2>2. o % PageSize = 0
      BY <2>1 DEF Pages!RemainingOffsets
    <2>3. ToSet(page) = {list[i] : i \in {j \in 1..Len(list) : OffsetOf(j) = o}}
      BY <1>1, <2>2, OnPageLemma
    <2>4. ToSet(got) = ToSet(read.got) \cup ToSet(page)
      BY <1>3, <1>4, <1>5, <1>8
    <2> HIDE DEF page, got
    <2>5. Brought' = {list[i] : i \in {j \in 1..Len(list) : OffsetOf(j) \notin todo}}
      BY <1>7 DEF Brought
    <2>6. ToSet(got) = Brought'
      BY <2>1, <2>3, <2>4, <2>5 DEF Brought
    <2> QED
      BY <2>1, <2>6
  <1> HIDE DEF pc, todo, got, last
  <1>9. AccountsWhole'
    BY <1>5, <1>6, <1>7, <1>8 DEF AccountsWhole
  <1>10. OnePageWhole'
    <2>1. ~OnePage
      BY <1>1 DEF PagesInv, OnePageWhole
    <2> QED
      BY <1>7, <2>1 DEF OnePageWhole
  <1> QED
    BY <1>7, <1>9, <1>10 DEF PagesInv

\* A reading begins with a list, and nothing of it.
LEMMA PagesInit == Pages!Init => PagesInv
  <1> SUFFICES ASSUME Pages!Init PROVE PagesInv
    OBVIOUS
  <1>1. /\ query \in Pages!Query /\ ListOK(list)
        /\ read = [pc |-> "reading", got |-> <<>>, offset |-> 0, todo |-> {}]
        /\ since = [began |-> list, left |-> 0, joined |-> 0]
        /\ list \in Seq(Row) /\ Len(list) \in Nat /\ DOMAIN list = 1..Len(list)
    <2>1. /\ query \in Pages!Query /\ ListOK(list)
          /\ read = [pc |-> "reading", got |-> <<>>, offset |-> 0, todo |-> {}]
          /\ since = [began |-> list, left |-> 0, joined |-> 0]
      BY ListsLemma DEF Pages!Init
    <2> QED
      BY <2>1 DEF ListOK
  <1>2. /\ read.pc = "reading" /\ read.got = <<>> /\ read.offset = 0 /\ read.todo = {}
        /\ since.began = list /\ since.left = 0 /\ since.joined = 0
    BY <1>1
  <1>3. PagesTypes
    <2>1. <<>> \in Seq(Contacts) /\ {} \in SUBSET Nat /\ 0 \in Nat /\ 0 <= MaxChanges
      BY ReadsAssumption
    <2> QED
      BY <1>1, <1>2, <2>1 DEF PagesTypes
  <1>4. Passed = 0 /\ Intro = <<>>
    BY <1>2 DEF Passed, Intro
  <1>5. MissesFew
    <2>1. Missed(list, <<>>, list, 0) = {}
      <3>1. ToSet(list) \subseteq Ahead(list, 0)
        BY <1>1 DEF ToSet, Ahead
      <3> QED
        BY <3>1 DEF Missed
    <2>2. Cardinality(Missed(list, <<>>, list, 0)) = 0
      BY <2>1, FS_EmptySet
    <2> QED
      BY <1>2, <1>4, <2>2 DEF MissesFew
  <1>6. SerialWhole
    <2>1. Pages!Chunk(0, 0) = <<>>
      <3>1. IsPage(Pages!Chunk(0, 0), 0, 0)
        BY <1>1, ChunkLemma
      <3> QED
        BY <1>1, <3>1 DEF IsPage
    <2>2. <<>> \o <<>> = <<>>
      <3>1. <<>> \in Seq(Contacts)
        OBVIOUS
      <3> QED
        BY <3>1, ConcatEmptySeq
    <2> QED
      BY <1>1, <1>2, <1>4, <2>1, <2>2 DEF SerialWhole
  <1>7. AccountsWhole /\ OnePageWhole
    BY <1>2 DEF AccountsWhole, OnePageWhole
  <1>8. Counts
    <2>1. Stray = {} /\ Cardinality({}) = 0
      BY <1>2, FS_EmptySet DEF Stray, ToSet
    <2>2. query.what # "accounts" => Added = 0
      BY <1>1, <1>2, QueryLemma DEF Added
    <2>3. Len(read.got) = 0
      BY <1>2
    <2> QED
      BY <1>2, <1>4, <2>1, <2>2, <2>3 DEF Counts
  <1> QED
    BY <1>3, <1>5, <1>6, <1>7, <1>8 DEF PagesInv

\* A reading keeps count of what it misses, and of what it has (adapter.py, the
\* lists read page by page).
THEOREM PagesInvariance == Pages!Spec => []PagesInv
  <1>1. ASSUME PagesInv, [Pages!Next]_(Pages!pvars) PROVE PagesInv'
    <2>1. CASE UNCHANGED Pages!pvars
      <3>1. UNCHANGED <<query, list, read, since>>
        BY <2>1 DEF Pages!pvars
      <3>2. Passed' = Passed /\ Brought' = Brought /\ Intro' = Intro
            /\ Pages!Chunk(0, Passed)' = Pages!Chunk(0, Passed)
            /\ Pages!Matches(list)' = Pages!Matches(list) /\ (Still' <=> Still)
            /\ Pages!Custom' = Pages!Custom /\ Stray' = Stray /\ Added' = Added
            /\ (OnePage' <=> OnePage)
        BY <3>1 DEF Passed, Brought, Intro, Pages!Custom, Pages!Chunk, Pages!Matches, Still, Stray,
           Added, OnePage
      <3>3. PagesTypes' /\ MissesFew' /\ AccountsWhole' /\ Counts' /\ OnePageWhole'
        <4>1. PagesTypes' /\ MissesFew'
          BY <1>1, <3>1, <3>2 DEF PagesInv, PagesTypes, ListOK, MissesFew
        <4>2. AccountsWhole' /\ OnePageWhole'
          BY <1>1, <3>1, <3>2 DEF PagesInv, AccountsWhole, OnePageWhole
        <4>3. Counts'
          BY <1>1, <3>1, <3>2 DEF PagesInv, Counts
        <4> QED
          BY <4>1, <4>2, <4>3
      <3>4. SerialWhole'
        BY <1>1, <3>1, <3>2 DEF PagesInv, SerialWhole, Still
      <3> QED
        BY <3>3, <3>4 DEF PagesInv
    <2>2. CASE Pages!EmailPage
      BY <1>1, <2>2, EmailStep
    <2>3. CASE Pages!FirstAccounts
      BY <1>1, <2>3, FirstStep
    <2>4. CASE Pages!PhonebookBatch
      BY <1>1, <2>4, BatchStep
    <2>5. CASE Pages!PhonebookPage
      BY <1>1, <2>5, PageStep
    <2>6. ASSUME NEW o \in read.todo, Pages!MoreAccounts(o) PROVE PagesInv'
      BY <1>1, <2>6, MoreStep
    <2>7. ASSUME NEW row \in Row, NEW i \in 1..Cardinality(Row), Pages!Joins(row, i) PROVE PagesInv'
      BY <1>1, <2>7, JoinsStep
    <2>8. ASSUME NEW i \in DOMAIN list, Pages!Leaves(i) PROVE PagesInv'
      BY <1>1, <2>8, LeavesStep
    <2> QED
      BY <1>1, <2>1, <2>2, <2>3, <2>4, <2>5, <2>6, <2>7, <2>8, PagesLibrary DEF Pages!Next
  <1> QED
    BY <1>1, PagesInit, PTL DEF Pages!Spec

\* However entries join and leave, and in whatever order its pages come, a list
\* read page after page misses no more entries than left it meanwhile and came twice;
\* and in one order none that was in it all along, but one for each that left
\* (adapter.py, _find_account_by_email and the phonebook).
THEOREM FewAreMissed == Pages!Spec => []MissedForThoseWhoLeft
  <1>1. ASSUME PagesInv, read.pc = "done", query.what # "accounts"
        PROVE  Cardinality(ToSet(list) \ ToSet(read.got)) <= since.left + Pages!Repeats
    <2> DEFINE came == ToSet(read.got) \ {"custom"}
               L == ToSet(list)
    <2>1. /\ ListOK(list) /\ list \in Seq(Row) /\ IsInjective(list) /\ Len(list) \in Nat
          /\ read.got \in Seq(Contacts) /\ Len(read.got) \in Nat /\ since.left \in Nat
          /\ query.custom \in Nat
      BY <1>1, QueryLemma DEF PagesInv, PagesTypes, ListOK
    <2>2. IsFiniteSet(L) /\ Cardinality(L) = Len(list)
      BY <2>1, EntriesLemma
    <2>3. IsFiniteSet(came)
      <3>1. came \in SUBSET Row
        BY <2>1 DEF ToSet, Contacts
      <3> QED
        BY <3>1, FS_Subset, ReadsAssumption
    <2>4. came \ L \in SUBSET Stray
      <3>1. ToSet(Pages!Custom) \subseteq {"custom"}
        BY DEF Pages!Custom, ToSet
      <3> QED
        BY <3>1 DEF Stray
    <2>5. Cardinality(came \ L) <= since.left
      <3>1. IsFiniteSet(Stray) /\ Cardinality(Stray) \in Nat /\ Cardinality(Stray) <= since.left
        BY <1>1, StrayLemma DEF PagesInv, Counts
      <3>2. Cardinality(came \ L) <= Cardinality(Stray) /\ Cardinality(came \ L) \in Nat
        BY <2>4, <3>1, FS_Subset, FS_CardinalityType
      <3> QED
        BY <2>1, <3>1, <3>2
    <2>6. L \ ToSet(read.got) \in SUBSET (L \ came)
      OBVIOUS
    <2> HIDE DEF came, L
    <2>7. /\ Cardinality(L \ came) <= Cardinality(L) - Cardinality(came) + since.left
          /\ Cardinality(L) \in Nat /\ Cardinality(came) \in Nat /\ Cardinality(L \ came) \in Nat
      BY <2>1, <2>2, <2>3, <2>5, OutsideLemma
    <2>8. /\ Cardinality(L \ ToSet(read.got)) <= Cardinality(L \ came)
          /\ Cardinality(L \ ToSet(read.got)) \in Nat
      <3>1. IsFiniteSet(L \ came)
        BY <2>2, FS_Difference
      <3> QED
        BY <2>6, <3>1, FS_Subset, FS_CardinalityType
    <2>9. Len(list) + query.custom <= Len(read.got)
      BY <1>1 DEF PagesInv, Counts
    <2>10. Pages!Repeats = Len(read.got) - query.custom - Cardinality(came)
      BY PagesLibrary DEF Pages!Repeats, came
    <2>11. Cardinality(L \ ToSet(read.got)) <= since.left + Pages!Repeats
      <3> DEFINE missed == Cardinality(L \ ToSet(read.got))
                 out == Cardinality(L \ came)
                 length == Len(read.got)
                 distinct == Cardinality(came)
      <3>1. /\ missed <= out /\ out <= Len(list) - distinct + since.left
            /\ Len(list) + query.custom <= length
            /\ Pages!Repeats = length - query.custom - distinct
        BY <2>2, <2>7, <2>8, <2>9, <2>10
      <3>2. /\ missed \in Nat /\ out \in Nat /\ length \in Nat /\ distinct \in Nat
            /\ Len(list) \in Nat /\ query.custom \in Nat /\ since.left \in Nat
        BY <2>1, <2>7, <2>8
      <3> HIDE DEF missed, out, length, distinct
      <3>3. missed <= since.left + (length - query.custom - distinct)
        BY <3>1, <3>2, MissedSum
      <3>4. missed <= since.left + Pages!Repeats
        BY <3>1, <3>3
      <3> QED
        BY <3>4 DEF missed
    <2> QED
      BY <2>11 DEF L
  <1>2. ASSUME PagesInv, read.pc = "done", query.what # "accounts", query.ordered
        PROVE  Cardinality((ToSet(since.began) \cap ToSet(list)) \ ToSet(read.got)) <= since.left
    <2>1. /\ since.began \in Seq(Row) /\ since.left \in Nat /\ Len(list) \in Nat /\ Passed \in Nat
          /\ Len(list) <= Passed
          /\ Cardinality(Missed(since.began, read.got, list, Passed)) <= since.left
      BY <1>2 DEF PagesInv, PagesTypes, MissesFew, ListOK
    <2>2. Ahead(list, Passed) = {}
      BY <2>1 DEF Ahead
    <2>3. (ToSet(since.began) \cap ToSet(list)) \ ToSet(read.got)
             \subseteq Missed(since.began, read.got, list, Passed)
      BY <2>2 DEF Missed
    <2> QED
      BY <2>1, <2>3, FewerLemma
  <1>3. PagesInv => MissedForThoseWhoLeft
    BY <1>1, <1>2, PagesLibrary DEF MissedForThoseWhoLeft, Pages!MissedForThoseWhoLeft
  <1> QED
    BY <1>3, PagesInvariance, PTL

\* An account of a customer is listed once, in whatever order the pages come; a list
\* that does not change is read whole when it fits a page, and when the switch keeps
\* to one order whatever its length (adapter.py, _fetch_accounts_by_customer,
\* _find_account_by_email and the phonebook).
THEOREM StillListsAreWhole == Pages!Spec => []ListsAreWhole
  <1>1. ASSUME PagesInv, read.pc = "done", query.what = "accounts" PROVE IsInjective(read.got)
    BY <1>1 DEF PagesInv, AccountsWhole
  <1>2. ASSUME PagesInv, Still, read.pc = "refused"
        PROVE  Cardinality(Pages!Matches(list)) > 1 \/ Len(list) >= LookupMaxRows
    <2>1. query.what # "accounts"
      BY <1>2 DEF PagesInv, AccountsWhole
    <2> QED
      BY <1>2, <2>1 DEF PagesInv, SerialWhole
  <1> DEFINE head == IF query.custom = query.items THEN Pages!Chunk(0, 1) ELSE <<>>
  <1>3. ASSUME PagesInv, Still, read.pc = "done", query.ordered, query.what # "accounts"
        PROVE  /\ read.got = Pages!Custom \o head \o list
               /\ ToSet(read.got) = ToSet(Pages!Custom) \cup ToSet(list)
    <2>1. /\ PagesTypes /\ ListOK(list) /\ Len(list) \in Nat /\ list \in Seq(Row)
          /\ query.what \in {"email", "accounts", "phonebook", "pages"}
          /\ query.custom \in Nat /\ query.items \in Nat \ {0}
          /\ query.what # "pages" => query.custom = 0
      BY <1>3, QueryLemma DEF PagesInv, PagesTypes, ListOK
    <2>2. /\ read.got = Intro \o Pages!Chunk(0, Passed) /\ Passed \in Nat /\ Len(list) <= Passed
          /\ query.what = "pages" => read.offset > 0
      BY <1>3 DEF PagesInv, SerialWhole, MissesFew
    <2>3. Pages!Chunk(0, Passed) = list
      <3>1. Pages!Chunk(0, Passed) = SubSeq(list, 1, Len(list))
        <4>1. 0 + 1 = 1 /\ ~(0 + Passed < Len(list))
          BY <2>1, <2>2
        <4> QED
          BY <4>1 DEF Pages!Chunk
      <3> QED
        BY <2>1, <3>1, SubSeqFull
    <2>4. /\ Intro \in Seq(Contacts) /\ list \in Seq(Contacts) /\ Pages!Custom \in Seq(Contacts)
          /\ Pages!Chunk(0, 1) \in Seq(Contacts) /\ IsPage(Pages!Chunk(0, 1), 0, 1)
      <3>1. list \in Seq(Contacts)
        BY <2>1, SeqMonotonic DEF Contacts
      <3> QED
        BY <2>1, <3>1, PartsLemma
    <2>5. Intro = Pages!Custom \o head
      <3>1. CASE query.what = "pages"
        <4>1. read.offset # 0
          BY <2>1, <2>2, <3>1 DEF PagesTypes
        <4> QED
          BY <3>1, <4>1 DEF Intro
      <3>2. CASE query.what # "pages"
        <4>1. query.custom = 0 /\ query.custom # query.items
          BY <2>1, <3>2
        <4>2. Pages!Custom = <<>>
          BY <4>1 DEF Pages!Custom
        <4>3. Pages!Custom \o head = <<>>
          BY <2>4, <4>1, <4>2, ConcatEmptySeq
        <4> QED
          BY <3>2, <4>3 DEF Intro
      <3> QED
        BY <3>1, <3>2
    <2>6. head \in Seq(Contacts) /\ ToSet(head) \subseteq ToSet(list)
      <3>1. CASE query.custom = query.items
        <4>1. head = Pages!Chunk(0, 1)
          BY <3>1
        <4>2. \A i \in 1..Len(head) : head[i] = list[0 + i] /\ 0 + i \in 1..Len(list)
          BY <2>1, <2>4, <4>1, PlacesLemma
        <4>3. DOMAIN head = 1..Len(head) /\ DOMAIN list = 1..Len(list) /\ head \in Seq(Contacts)
          BY <2>1, <2>4, <4>1
        <4> HIDE DEF head
        <4> QED
          BY <4>2, <4>3 DEF ToSet
      <3>2. CASE query.custom # query.items
        <4>1. head = <<>>
          BY <3>2
        <4> HIDE DEF head
        <4> QED
          BY <4>1 DEF ToSet
      <3> QED
        BY <3>1, <3>2
    <2> HIDE DEF head
    <2>7. read.got = (Pages!Custom \o head) \o list
      BY <2>2, <2>3, <2>5
    <2>8. ToSet((Pages!Custom \o head) \o list) = ToSet(Pages!Custom \o head) \cup ToSet(list)
      <3> DEFINE intro == Pages!Custom \o head
      <3>1. intro \in Seq(Contacts)
        BY <2>4, <2>5
      <3> HIDE DEF intro
      <3>2. ToSet(intro \o list) = ToSet(intro) \cup ToSet(list)
        BY <2>4, <3>1, JoinedLemma
      <3> QED
        BY <3>2 DEF intro
    <2>9. ToSet(Pages!Custom \o head) = ToSet(Pages!Custom) \cup ToSet(head)
      BY <2>4, <2>6, JoinedLemma
    <2> QED
      BY <2>6, <2>7, <2>8, <2>9
  <1>4. ASSUME PagesInv, Still, read.pc = "done",
               query.ordered \/ Len(list) + query.custom <= query.items
        PROVE  ToSet(read.got) = ToSet(Pages!Custom) \cup ToSet(list)
    <2>1. CASE Len(list) + query.custom <= query.items
      BY <1>4, <2>1 DEF PagesInv, OnePageWhole, OnePage
    <2>2. CASE query.ordered /\ query.what # "accounts"
      BY <1>3, <1>4, <2>2
    <2>3. CASE query.ordered /\ query.what = "accounts"
      <3>1. read.todo = {} /\ ToSet(read.got) = Brought
        BY <1>4, <2>3 DEF PagesInv, PagesTypes, AccountsWhole
      <3>2. DOMAIN list = 1..Len(list)
        BY <1>4 DEF PagesInv, PagesTypes, ListOK
      <3>3. Brought = ToSet(list)
        BY <3>1, <3>2 DEF Brought, ToSet
      <3>4. query.custom = 0
        BY <1>4, <2>3, QueryLemma DEF PagesInv, PagesTypes
      <3>5. ToSet(Pages!Custom) = {}
        BY <3>4 DEF Pages!Custom, ToSet
      <3> QED
        BY <3>1, <3>3, <3>5
    <2> QED
      BY <1>4, <2>1, <2>2, <2>3
  <1>5. PagesInv => ListsAreWhole
    <2> SUFFICES ASSUME PagesInv PROVE Pages!ListsAreWhole
      BY DEF ListsAreWhole
    <2>1. read.pc = "done" /\ query.what = "accounts" => Pages!IsInjective(read.got)
      BY <1>1, PagesLibrary
    <2>2. Still /\ read.pc = "refused" =>
             Pages!Cardinality(Pages!Matches(list)) > 1 \/ Len(list) >= LookupMaxRows
      BY <1>2, PagesLibrary
    <2>3. Still /\ read.pc = "done" /\ (query.ordered \/ Len(list) + query.custom <= query.items) =>
             Pages!ToSet(read.got) = Pages!ToSet(Pages!Custom) \cup Pages!ToSet(list)
      BY <1>4, PagesLibrary
    <2>4. Still /\ read.pc = "done" /\ query.ordered /\ query.what # "accounts" =>
             read.got = Pages!Custom \o head \o list
      BY <1>3
    <2> HIDE DEF head
    <2> QED
      BY <2>1, <2>2, <2>3, <2>4 DEF Pages!ListsAreWhole, Still, head
  <1> QED
    BY <1>5, PagesInvariance, PTL

----------------------------------------------------------------------------

\* Every table and lock of what a process reads is consistent, in each of the four
\* parts.
THEOREM TablesAreSound ==
  Spec /\ Lookups!Spec /\ Queues!Spec /\ Pages!Spec => []TablesOK
  <1>1. LookupsInv => Lookups!TypeOK
    BY LookupsTypesLemma DEF LookupsInv
  <1>2. PagesInv => Pages!TypeOK
    BY PagesTypesLemma DEF PagesInv
  <1>3. TypeOK /\ Lookups!TypeOK /\ Queues!TypeOK /\ Pages!TypeOK => TablesOK
    BY DEF TablesOK
  <1> QED
    BY <1>1, <1>2, <1>3, QueuesTypesLemma, CacheTypes, LookupsInvariance, QueuesInvariance,
       PagesInvariance, PTL
=============================================================================
