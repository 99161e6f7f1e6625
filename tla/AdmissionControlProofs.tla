----------------------- MODULE AdmissionControlProofs -----------------------
(***************************************************************************)
(* Proofs about the permits and the connections of one adapter process,    *)
(* for any number of requests and probes and pools of any size.            *)
(*                                                                         *)
(* TypeOK is inductive once the permits and connections in use are known   *)
(* to be finite: its bounds on both are what FullOnlyOfStreams needs.  A   *)
(* request in the queue of a full pool holds a permit, so at most          *)
(* Permits - 1 others are sent there, and Permits + Headroom is the size   *)
(* of the pool: more than Headroom connections are with streamed bodies,   *)
(* or lost.                                                                *)
(***************************************************************************)
EXTENDS AdmissionControl, SequenceLemmas, FiniteSetTheorems

----------------------------------------------------------------------------
(* The permits.                                                            *)

\* How many requests are admitted at once.
Permits == inflight_limit(MaxConnections)

\* The larger of two numbers.
LEMMA MaxLemma ==
  ASSUME NEW i \in Int, NEW j \in Int
  PROVE  Max({i, j}) = IF i >= j THEN i ELSE j
  <1>1. \A k \in {i, j} : k \in Int
    OBVIOUS
  <1>2. \E k \in {i, j} : \A m \in {i, j} : k >= m
    OBVIOUS
  <1>3. Max({i, j}) \in {i, j} /\ \A m \in {i, j} : Max({i, j}) >= m
    BY <1>2 DEF Max
  <1> QED
    BY <1>3

\* What inflight_limit leaves free of a pool, of any size.
LEMMA PermitsLemma ==
  /\ Permits \in Nat /\ Headroom \in Nat
  /\ Permits + Headroom = MaxConnections
  <1> DEFINE tenth == MaxConnections \div 10
             room == MaxConnections - Max({2, tenth})
  <1>1. MaxConnections \in Nat \ {0}
    BY PoolAssumption
  <1>2. tenth \in Nat /\ (MaxConnections > 2 => tenth < MaxConnections)
    BY <1>1
  <1> HIDE DEF tenth
  <1>3. Max({2, tenth}) = IF 2 >= tenth THEN 2 ELSE tenth
    BY <1>2, MaxLemma
  <1>4. room \in Int
    BY <1>1, <1>2, <1>3
  <1>5. Permits = Max({1, room})
    BY DEF Permits, inflight_limit, tenth
  <1>6. Permits = IF 1 >= room THEN 1 ELSE room
    <2> HIDE DEF room
    <2> QED
      BY <1>4, <1>5, MaxLemma
  <1>7. Headroom = IF MaxConnections <= 2 THEN MaxConnections - 1 ELSE Max({2, tenth})
    BY DEF Headroom, tenth
  <1> QED
    BY <1>1, <1>2, <1>3, <1>6, <1>7

----------------------------------------------------------------------------
(* What a step of one slot changes.                                        *)

\* The inductive invariant.
Inv ==
    /\ TypeOK
    /\ IsFiniteSet(Holding)
    /\ \A pool \in Site : IsFiniteSet(Connected(pool))

\* A slot in state t holds a permit, or a connection of the pool.
Holds(t) == t.pc \in {"queued", "sent"}
HasOne(t, pool) == t.pc \in {"sent", "body"} /\ Pool(t.site) = pool
One(b) == IF b THEN 1 ELSE 0

\* How the size of a set changes when s enters or leaves it.
LEMMA CountLemma ==
  ASSUME NEW S, NEW T, NEW s, IsFiniteSet(S), T \ {s} = S \ {s}
  PROVE  /\ IsFiniteSet(T)
         /\ Cardinality(S) \in Nat /\ Cardinality(T) \in Nat
         /\ Cardinality(T) = Cardinality(S) + One(s \in T) - One(s \in S)
  <1>1. Cardinality(S) \in Nat
    BY FS_CardinalityType
  <1>2. CASE s \in T
    <2>1. T = S \cup {s}
      BY <1>2
    <2>2. /\ IsFiniteSet(S \cup {s})
          /\ Cardinality(S \cup {s}) = IF s \in S THEN Cardinality(S) ELSE Cardinality(S) + 1
      BY FS_AddElement
    <2> QED
      BY <1>1, <1>2, <2>1, <2>2 DEF One
  <1>3. CASE s \notin T
    <2>1. T = S \ {s}
      BY <1>3
    <2>2. /\ IsFiniteSet(S \ {s})
          /\ Cardinality(S \ {s}) = IF s \in S THEN Cardinality(S) - 1 ELSE Cardinality(S)
      BY FS_RemoveElement
    <2>3. Cardinality(S \ {s}) \in Nat
      BY <2>2, FS_CardinalityType
    <2> QED
      BY <1>1, <1>3, <2>1, <2>2, <2>3 DEF One
  <1> QED
    BY <1>2, <1>3

\* What a step of slot s to t makes of the permits and connections that are held.
Recounted(s, t) ==
    /\ slot' \in [Slot -> Progress]
    /\ IsFiniteSet(Holding') /\ Cardinality(Holding) \in Nat /\ Cardinality(Holding') \in Nat
    /\ Cardinality(Holding') = Cardinality(Holding) + One(Holds(t)) - One(Holds(slot[s]))
    /\ \A pool \in Site :
          /\ IsFiniteSet(Connected(pool)')
          /\ Cardinality(Connected(pool)) \in Nat /\ Cardinality(Connected(pool)') \in Nat
          /\ Cardinality(Connected(pool)') = Cardinality(Connected(pool))
                 + One(HasOne(t, pool)) - One(HasOne(slot[s], pool))
    /\ \A pc : At(pc)' = (At(pc) \ {s}) \cup (IF t.pc = pc THEN {s} ELSE {})

\* How the permits and connections in use change with the state of slot s.
LEMMA MovesLemma ==
  ASSUME Inv, NEW s \in Slot, NEW t \in Progress, slot' = [slot EXCEPT ![s] = t],
         apart' = apart
  PROVE  Recounted(s, t)
  <1>1. slot \in [Slot -> Progress] /\ IsFiniteSet(Holding)
        /\ \A pool \in Site : IsFiniteSet(Connected(pool))
    BY DEF Inv, TypeOK
  <1>2. /\ slot' \in [Slot -> Progress] /\ slot'[s] = t
        /\ \A r \in Slot \ {s} : slot'[r] = slot[r]
    BY <1>1
  <1>3. /\ Holding' \ {s} = Holding \ {s}
        /\ s \in Holding <=> Holds(slot[s])
        /\ s \in Holding' <=> Holds(t)
    BY <1>2 DEF Holding, At, Holds
  <1>4. ASSUME NEW pool \in Site
        PROVE  /\ Connected(pool)' \ {s} = Connected(pool) \ {s}
               /\ s \in Connected(pool) <=> HasOne(slot[s], pool)
               /\ s \in Connected(pool)' <=> HasOne(t, pool)
    BY <1>2 DEF Connected, In, At, HasOne, Pool
  <1>5. \A pc : At(pc)' = (At(pc) \ {s}) \cup (IF t.pc = pc THEN {s} ELSE {})
    BY <1>2 DEF At
  <1>6. /\ IsFiniteSet(Holding') /\ Cardinality(Holding) \in Nat /\ Cardinality(Holding') \in Nat
        /\ Cardinality(Holding') = Cardinality(Holding) + One(s \in Holding') - One(s \in Holding)
    BY <1>1, <1>3, CountLemma
  <1>7. ASSUME NEW pool \in Site
        PROVE  /\ IsFiniteSet(Connected(pool)')
               /\ Cardinality(Connected(pool)) \in Nat /\ Cardinality(Connected(pool)') \in Nat
               /\ Cardinality(Connected(pool)') = Cardinality(Connected(pool))
                      + One(s \in Connected(pool)') - One(s \in Connected(pool))
    BY <1>1, <1>4, CountLemma
  <1> QED
    BY <1>2, <1>3, <1>4, <1>5, <1>6, <1>7 DEF Recounted, One

\* A step of slot s keeps the bounds if it takes a permit or a connection only where
\* one is free.
LEMMA InvLemma ==
  ASSUME Inv, NEW s \in Slot, NEW t \in Progress, slot' = [slot EXCEPT ![s] = t],
         apart' = apart,
         line' \in Seq(Slot), IsInjective(line'),
         ToSet(line') = (ToSet(line) \ {s}) \cup (IF t.pc = "line" THEN {s} ELSE {}),
         lost' \in [Site -> Nat], unsent' \subseteq Probe,
         Holds(t) /\ ~Holds(slot[s]) => PermitFree,
         \A pool \in Site :
            \/ lost'[pool] = lost[pool] /\ (HasOne(t, pool) => HasOne(slot[s], pool))
            \/ lost'[pool] = lost[pool] /\ ~Full(pool)
            \/ lost'[pool] = lost[pool] + 1 /\ ~Full(pool) /\ ~HasOne(t, pool)
  PROVE  Inv'
  <1>0. Recounted(s, t)
    BY MovesLemma
  <1>1. /\ slot' \in [Slot -> Progress]
        /\ IsFiniteSet(Holding') /\ Cardinality(Holding) \in Nat /\ Cardinality(Holding') \in Nat
        /\ Cardinality(Holding') = Cardinality(Holding) + One(Holds(t)) - One(Holds(slot[s]))
        /\ At("line")' = (At("line") \ {s}) \cup (IF t.pc = "line" THEN {s} ELSE {})
    BY <1>0 DEF Recounted
  <1>2. ToSet(line) = At("line") /\ apart \in BOOLEAN
    BY DEF Inv, TypeOK
  <1>3. Cardinality(Holding') <= inflight_limit(MaxConnections)
    <2>1. Cardinality(Holding) <= Permits /\ Permits \in Nat
      BY PermitsLemma DEF Inv, TypeOK, Permits
    <2>2. Cardinality(Holding') <= Permits
      BY <1>1, <2>1 DEF PermitFree, Permits, One
    <2> QED
      BY <2>2 DEF Permits
  <1>4. ASSUME NEW pool \in Site
        PROVE  /\ Taken(pool)' <= MaxConnections
               /\ lost'[pool] \in 0..MaxConnections
               /\ IsFiniteSet(Connected(pool)')
    <2>1. /\ IsFiniteSet(Connected(pool)')
          /\ Cardinality(Connected(pool)) \in Nat /\ Cardinality(Connected(pool)') \in Nat
          /\ Cardinality(Connected(pool)') = Cardinality(Connected(pool))
                 + One(HasOne(t, pool)) - One(HasOne(slot[s], pool))
      BY <1>0 DEF Recounted
    <2>2. /\ Cardinality(Connected(pool)) + lost[pool] <= MaxConnections
          /\ lost[pool] \in Nat /\ MaxConnections \in Nat
          /\ lost'[pool] \in Nat
      BY PoolAssumption DEF Inv, TypeOK, Taken
    <2>3. ~Full(pool) => Cardinality(Connected(pool)) + lost[pool] < MaxConnections
      BY <2>1, <2>2 DEF Full, Taken
    <2>4. Cardinality(Connected(pool)') + lost'[pool] <= MaxConnections
      <3>1. CASE lost'[pool] = lost[pool] /\ (HasOne(t, pool) => HasOne(slot[s], pool))
        BY <2>1, <2>2, <3>1 DEF One
      <3>2. CASE lost'[pool] = lost[pool] /\ ~Full(pool)
        BY <2>1, <2>2, <2>3, <3>2 DEF One
      <3>3. CASE lost'[pool] = lost[pool] + 1 /\ ~Full(pool) /\ ~HasOne(t, pool)
        BY <2>1, <2>2, <2>3, <3>3 DEF One
      <3> QED
        BY <3>1, <3>2, <3>3
    <2> QED
      BY <2>1, <2>2, <2>4 DEF Taken
  <1>5. lost' \in [Site -> 0..MaxConnections]
    BY <1>4
  <1> QED
    BY <1>1, <1>2, <1>3, <1>4, <1>5 DEF Inv, TypeOK

----------------------------------------------------------------------------
(* Each action.                                                            *)

\* The state of a slot.
LEMMA SlotLemma ==
  ASSUME Inv, NEW s \in Slot
  PROVE  /\ slot[s] \in Progress /\ slot[s].site \in Site /\ slot[s].last \in BOOLEAN
         /\ slot[s].pc \in {"line", "queued", "sent", "body", "idle"}
         /\ Pool(slot[s].site) \in Site
         /\ lost \in [Site -> Nat] /\ unsent \subseteq Probe
         /\ line \in Seq(Slot) /\ IsInjective(line)
         /\ s \in ToSet(line) <=> slot[s].pc = "line"
         /\ \A pc \in {"line", "queued", "sent", "body"} :
               LET t == [pc |-> pc, site |-> slot[s].site, last |-> slot[s].last]
               IN [slot EXCEPT ![s].pc = pc] = [slot EXCEPT ![s] = t] /\ t \in Progress
  <1>1. slot \in [Slot -> Progress] /\ slot[s] \in Progress
    BY DEF Inv, TypeOK
  <1>2. /\ slot[s].site \in Site /\ slot[s].last \in BOOLEAN
        /\ slot[s].pc \in {"line", "queued", "sent", "body", "idle"}
    <2>1. CASE slot[s] = Idle
      BY <2>1 DEF Idle, Site
    <2>2. CASE slot[s] \in [pc: {"line", "queued", "sent", "body"}, site: Site, last: BOOLEAN]
      BY <2>2
    <2> QED
      BY <1>1, <2>1, <2>2 DEF Progress
  <1>3. Pool(slot[s].site) \in Site
    BY <1>2 DEF Pool, Site
  <1>4. /\ lost \in [Site -> Nat] /\ unsent \subseteq Probe
        /\ line \in Seq(Slot) /\ IsInjective(line)
        /\ s \in ToSet(line) <=> slot[s].pc = "line"
    BY DEF Inv, TypeOK, At
  <1>5. ASSUME NEW pc \in {"line", "queued", "sent", "body"}
        PROVE  LET t == [pc |-> pc, site |-> slot[s].site, last |-> slot[s].last]
               IN [slot EXCEPT ![s].pc = pc] = [slot EXCEPT ![s] = t] /\ t \in Progress
    <2> DEFINE t == [pc |-> pc, site |-> slot[s].site, last |-> slot[s].last]
    <2>1. t \in Progress
      BY <1>2 DEF Progress
    <2>2. [slot[s] EXCEPT !.pc = pc] = t
      BY <1>1 DEF Progress, Idle
    <2> QED
      BY <2>1, <2>2
  <1> QED
    BY <1>1, <1>2, <1>3, <1>4, <1>5

\* A slot comes to its end.
LEMMA EndsLemma ==
  ASSUME Inv, NEW s \in Slot, Ends(s), apart' = apart, unsent' \subseteq Probe,
         line' \in Seq(Slot), IsInjective(line'), ToSet(line') = ToSet(line) \ {s},
         \/ lost' = lost
         \/ /\ ~Full(Pool(slot[s].site))
            /\ lost' = [lost EXCEPT ![Pool(slot[s].site)] = @ + 1]
  PROVE  Inv'
  <1> DEFINE own == Pool(slot[s].site)
  <1>1. slot' = [slot EXCEPT ![s] = Idle] /\ Idle \in Progress
    BY DEF Ends, Progress
  <1>2. Idle.pc # "line" /\ ~Holds(Idle) /\ \A pool : ~HasOne(Idle, pool)
    BY DEF Idle, Holds, HasOne
  <1>3. lost \in [Site -> Nat] /\ own \in Site
    BY SlotLemma
  <1> HIDE DEF own
  <1>4. lost' = lost \/ (~Full(own) /\ lost' = [lost EXCEPT ![own] = @ + 1])
    BY DEF own
  <1>5. /\ lost' \in [Site -> Nat]
        /\ \A pool \in Site : lost'[pool] = lost[pool]
                              \/ (lost'[pool] = lost[pool] + 1 /\ ~Full(pool))
    BY <1>3, <1>4
  <1>6. ToSet(line') = (ToSet(line) \ {s}) \cup (IF Idle.pc = "line" THEN {s} ELSE {})
    BY <1>2
  <1> QED
    BY <1>1, <1>2, <1>5, <1>6, InvLemma

\* A request joins the line for a permit.
LEMMA BeginLemma ==
  ASSUME Inv, NEW s \in Slot, Begin(s)
  PROVE  Inv'
  <1> DEFINE t == [pc |-> "line", site |-> slot[s].site, last |-> slot[s].last]
  <1>1. /\ slot[s].pc = "idle" /\ slot' = [slot EXCEPT ![s] = t] /\ t \in Progress
        /\ line' = Append(line, s)
        /\ UNCHANGED <<apart, lost, unsent>>
    BY SlotLemma DEF Begin
  <1>2. t.pc = "line" /\ ~Holds(t) /\ \A pool : ~HasOne(t, pool)
    BY DEF Holds, HasOne
  <1> HIDE DEF t
  <1>3. /\ line \in Seq(Slot) /\ IsInjective(line) /\ s \notin ToSet(line)
        /\ lost \in [Site -> Nat] /\ unsent \subseteq Probe
    BY <1>1, SlotLemma
  <1>4. /\ line' \in Seq(Slot) /\ IsInjective(line') /\ ToSet(line') = ToSet(line) \cup {s}
    BY <1>1, <1>3, AppendLemma
  <1>5. ToSet(line') = (ToSet(line) \ {s}) \cup (IF t.pc = "line" THEN {s} ELSE {})
    BY <1>2, <1>4
  <1>6. \A pool \in Site :
           lost'[pool] = lost[pool] /\ (HasOne(t, pool) => HasOne(slot[s], pool))
    BY <1>1, <1>2
  <1> QED
    BY <1>1, <1>2, <1>3, <1>4, <1>5, <1>6, InvLemma

\* A slot with a permit goes on, out of the line if it was in it.
LEMMA GoesOnLemma ==
  ASSUME Inv, NEW s \in Slot, NEW t \in Progress, slot' = [slot EXCEPT ![s] = t],
         t.pc \in {"queued", "sent", "body"},
         UNCHANGED <<apart, lost, unsent>>,
         line' \in Seq(Slot), IsInjective(line'), ToSet(line') = ToSet(line) \ {s},
         Holds(t) /\ ~Holds(slot[s]) => PermitFree,
         \A pool \in Site : HasOne(t, pool) => HasOne(slot[s], pool) \/ ~Full(pool)
  PROVE  Inv'
  <1>1. lost \in [Site -> Nat] /\ unsent \subseteq Probe
    BY SlotLemma
  <1>2. ToSet(line') = (ToSet(line) \ {s}) \cup (IF t.pc = "line" THEN {s} ELSE {})
    OBVIOUS
  <1>3. \A pool \in Site :
           \/ lost'[pool] = lost[pool] /\ (HasOne(t, pool) => HasOne(slot[s], pool))
           \/ lost'[pool] = lost[pool] /\ ~Full(pool)
           \/ lost'[pool] = lost[pool] + 1 /\ ~Full(pool) /\ ~HasOne(t, pool)
    OBVIOUS
  <1> QED
    BY <1>1, <1>2, <1>3, InvLemma

\* A slot asks a pool for a connection, maybe the one it has.
LEMMA ChecksOutLemma ==
  ASSUME Inv, NEW s \in Slot, NEW site \in Site, NEW last \in BOOLEAN, ChecksOut(s, site, last),
         UNCHANGED <<apart, lost, unsent>>,
         line' \in Seq(Slot), IsInjective(line'), ToSet(line') = ToSet(line) \ {s},
         ~Holds(slot[s]) => PermitFree
  PROVE  Inv'
  <1>1. PICK pc \in {"queued", "sent"} :
           /\ slot' = [slot EXCEPT ![s] = [pc |-> pc, site |-> site, last |-> last]]
           /\ pc = "sent" => s \in Connected(Pool(site)) \/ ~Full(Pool(site))
    BY DEF ChecksOut
  <1> DEFINE t == [pc |-> pc, site |-> site, last |-> last]
  <1>2. t \in Progress /\ t.pc = pc /\ t.site = site
    BY DEF Progress
  <1>3. \A pool \in Site : s \in Connected(pool) => HasOne(slot[s], pool)
    BY DEF Connected, In, At, HasOne
  <1> HIDE DEF t
  <1>4. \A pool \in Site : HasOne(t, pool) => HasOne(slot[s], pool) \/ ~Full(pool)
    BY <1>1, <1>2, <1>3 DEF HasOne
  <1> QED
    BY <1>1, <1>2, <1>4, GoesOnLemma DEF t

\* The first in line is admitted.
LEMMA AdmittedLemma ==
  ASSUME Inv, NEW s \in Slot, NEW site \in Site, NEW last \in BOOLEAN, Admitted(s, site, last)
  PROVE  Inv'
  <1>1. /\ PermitFree /\ line # <<>> /\ s = Head(line) /\ line' = Tail(line)
        /\ ChecksOut(s, site, last) /\ UNCHANGED <<apart, lost, unsent>>
    BY DEF Admitted
  <1>2. /\ line' \in Seq(Slot) /\ IsInjective(line') /\ ToSet(line') = ToSet(line) \ {s}
    BY <1>1, SlotLemma, TailLemma
  <1> QED
    BY <1>1, <1>2, ChecksOutLemma

\* The next target is asked under the same permit.
LEMMA UnreachableLemma ==
  ASSUME Inv, NEW s \in Slot, Unreachable(s)
  PROVE  Inv'
  <1>1. PICK site \in Site : /\ slot[s].pc = "sent" /\ ChecksOut(s, site, TRUE)
                             /\ UNCHANGED <<apart, line, lost, unsent>>
    BY DEF Unreachable, Site
  <1>2. /\ line' \in Seq(Slot) /\ IsInjective(line') /\ ToSet(line') = ToSet(line) \ {s}
        /\ Holds(slot[s])
    BY <1>1, SlotLemma DEF Holds
  <1> QED
    BY <1>1, <1>2, ChecksOutLemma

\* A slot gets the connection it queued for, or begins to stream.
LEMMA ConnectsLemma ==
  ASSUME Inv, NEW s \in Slot, Connects(s) \/ Streams(s)
  PROVE  Inv'
  <1>1. PICK pc \in {"sent", "body"} :
           /\ slot' = [slot EXCEPT ![s].pc = pc]
           /\ slot[s].pc \in {"queued", "sent"}
           /\ slot[s].pc = "queued" => ~Full(Pool(slot[s].site))
           /\ UNCHANGED <<apart, line, lost, unsent>>
    BY DEF Connects, Streams
  <1> DEFINE t == [pc |-> pc, site |-> slot[s].site, last |-> slot[s].last]
  <1>2. /\ slot' = [slot EXCEPT ![s] = t] /\ t \in Progress
        /\ t.pc = pc /\ t.site = slot[s].site
    BY <1>1, SlotLemma
  <1>3. /\ line' \in Seq(Slot) /\ IsInjective(line') /\ ToSet(line') = ToSet(line) \ {s}
        /\ Holds(slot[s])
    BY <1>1, SlotLemma DEF Holds
  <1> HIDE DEF t
  <1>4. \A pool \in Site : HasOne(t, pool) => HasOne(slot[s], pool) \/ ~Full(pool)
    BY <1>1, <1>2 DEF HasOne
  <1> QED
    BY <1>1, <1>2, <1>3, <1>4, GoesOnLemma

\* A call or a probe is cancelled; the connection it was assigned may be lost.
LEMMA CancelledLemma ==
  ASSUME Inv, NEW s \in Slot, Cancelled(s)
  PROVE  Inv'
  <1>1. /\ Ends(s) /\ line' = RemoveFirst(line, s) /\ apart' = apart
        /\ unsent' \subseteq Probe
        /\ \/ lost' = lost
           \/ /\ ~Full(Pool(slot[s].site))
              /\ lost' = [lost EXCEPT ![Pool(slot[s].site)] = @ + 1]
    BY SlotLemma DEF Cancelled
  <1>2. /\ line' \in Seq(Slot) /\ IsInjective(line') /\ ToSet(line') = ToSet(line) \ {s}
    BY <1>1, SlotLemma, RemoveFirstLemma
  <1> QED
    BY <1>1, <1>2, EndsLemma

----------------------------------------------------------------------------
(* Theorems.                                                               *)

\* All is free at first.
LEMMA InitLemma == Init => Inv
  <1> SUFFICES ASSUME Init PROVE Inv
    OBVIOUS
  <1>1. /\ <<>> \in Seq(Slot) /\ IsInjective(<<>>) /\ ToSet(<<>>) = {}
    BY DEF IsInjective, ToSet
  <1>2. /\ slot \in [Slot -> Progress] /\ \A s \in Slot : slot[s].pc = "idle"
    BY DEF Init, Progress, Idle
  <1>3. Holding = {} /\ At("line") = {} /\ \A pool \in Site : Connected(pool) = {}
    BY <1>2 DEF Holding, At, Connected
  <1>4. Permits \in Nat /\ 0 <= Permits
    BY PermitsLemma
  <1>5. lost \in [Site -> 0..MaxConnections] /\ \A pool \in Site : Taken(pool) <= MaxConnections
    BY <1>3, FS_EmptySet, PoolAssumption DEF Init, Taken
  <1> QED
    BY <1>1, <1>2, <1>3, <1>4, <1>5, FS_EmptySet DEF Init, Inv, TypeOK, Permits

\* Every step keeps the invariant.
LEMMA StepLemma == Inv /\ [Next]_avars => Inv'
  <1> SUFFICES ASSUME Inv, [Next]_avars PROVE Inv'
    OBVIOUS
  <1>1. CASE UNCHANGED avars
    BY <1>1 DEF avars, Inv, TypeOK, Holding, Connected, In, At, Pool, Taken
  <1>2. ASSUME NEW s \in Slot, PoolTimeout(s) \/ Answered(s) \/ BodyEnds(s) PROVE Inv'
    <2>1. /\ Ends(s) /\ slot[s].pc # "line" /\ unsent' \subseteq Probe
          /\ UNCHANGED <<apart, line, lost>>
      BY <1>2, SlotLemma DEF PoolTimeout, Answered, BodyEnds
    <2>2. /\ line' \in Seq(Slot) /\ IsInjective(line') /\ ToSet(line') = ToSet(line) \ {s}
      BY <2>1, SlotLemma
    <2> QED
      BY <2>1, <2>2, EndsLemma
  <1>3. ASSUME NEW s \in Slot, Serves(s) PROVE Inv'
    BY <1>2, <1>3, AdmittedLemma, ConnectsLemma, UnreachableLemma DEF Serves
  <1> QED
    BY <1>1, <1>2, <1>3, BeginLemma, CancelledLemma DEF Next

\* The inductive invariant holds.
THEOREM Invariance == Spec => []Inv
  BY InitLemma, StepLemma, PTL DEF Spec

\* The permits given out never exceed inflight_limit, the connections of a pool never
\* exceed MAX_CONNECTIONS, and the line is of the slots that wait, each once
\* (send_rest_request over the semaphore and the pools of the clients).
THEOREM PoolTypes == Spec => []TypeOK
  <1>1. Inv => TypeOK
    BY DEF Inv
  <1> QED
    BY <1>1, Invariance, PTL

\* The count above.
LEMMA FullLemma == Inv => FullOnlyOfStreams
  <1> SUFFICES ASSUME Inv, NEW s \in At("queued"), Full(Pool(slot[s].site))
               PROVE  Cardinality(In(Pool(slot[s].site)) \cap At("body"))
                      + lost[Pool(slot[s].site)] > Headroom
    BY DEF FullOnlyOfStreams
  <1> DEFINE pool == Pool(slot[s].site)
             sent == In(pool) \cap At("sent")
             body == In(pool) \cap At("body")
  <1>1. s \in Slot /\ slot[s].pc = "queued" /\ pool \in Site
    BY SlotLemma DEF At
  <1>2. /\ sent \in SUBSET (Holding \ {s}) /\ s \in Holding
        /\ sent \in SUBSET Connected(pool) /\ body \in SUBSET Connected(pool)
        /\ sent \cup body = Connected(pool) /\ sent \cap body = {}
    BY <1>1 DEF Holding, At, Connected
  <1>3. Cardinality(Connected(pool)) + lost[pool] >= MaxConnections
    BY DEF Full, Taken
  <1>4. IsFiniteSet(Holding) /\ IsFiniteSet(Connected(pool))
        /\ lost[pool] \in Nat /\ MaxConnections \in Nat
    BY <1>1, SlotLemma, PoolAssumption DEF Inv
  <1>5. Cardinality(Holding) <= Permits
    BY DEF Inv, TypeOK, Permits
  <1> HIDE DEF pool, sent, body
  <1>6. /\ IsFiniteSet(sent) /\ IsFiniteSet(body)
        /\ Cardinality(sent) \in Nat /\ Cardinality(body) \in Nat
    BY <1>2, <1>4, FS_Subset, FS_CardinalityType
  <1>7. Cardinality(Connected(pool)) = Cardinality(sent) + Cardinality(body)
    <2>1. Cardinality(sent \cup body) =
             Cardinality(sent) + Cardinality(body) - Cardinality(sent \cap body)
      BY <1>6, FS_Union
    <2>2. Cardinality(sent \cap body) = 0
      BY <1>2, FS_EmptySet
    <2>3. Cardinality(sent \cup body) = Cardinality(Connected(pool))
      BY <1>2
    <2> QED
      BY <1>6, <2>1, <2>2, <2>3
  <1>8. Cardinality(sent) <= Permits - 1
    <2>1. /\ IsFiniteSet(Holding \ {s})
          /\ Cardinality(Holding \ {s}) = Cardinality(Holding) - 1
      BY <1>2, <1>4, FS_RemoveElement
    <2>2. Cardinality(sent) <= Cardinality(Holding \ {s})
      BY <1>2, <2>1, FS_Subset
    <2>3. Cardinality(Holding) \in Nat
      BY <1>4, FS_CardinalityType
    <2> QED
      BY <1>5, <1>6, <2>1, <2>2, <2>3, PermitsLemma
  <1>9. Cardinality(body) + lost[pool] > Headroom
    BY <1>3, <1>4, <1>6, <1>7, <1>8, PermitsLemma
  <1> QED
    BY <1>9 DEF pool, body

\* A request finds a pool full only behind more than the headroom of streamed bodies
\* and lost connections, whatever MAX_CONNECTIONS is, whether or not the standby has
\* a pool of its own, and through every retry on the other site (inflight_limit).
THEOREM RequestsFillNoPool == Spec => []FullOnlyOfStreams
  BY FullLemma, Invariance, PTL
=============================================================================
