-------------------------- MODULE LocalSignInProofs --------------------------
(***************************************************************************)
(* Proofs about the sessions and codes an adapter keeps itself, for every  *)
(* set of sessions and threads, every expiry, every number of attempts and *)
(* whichever of the three stores.                                          *)
(*                                                                         *)
(* The sessions.  None of the three safety properties is inductive.  A     *)
(* store call says nothing of what its operation did before, so Structure  *)
(* ties what a thread has left to do to what is stored of the two sessions *)
(* it works on: a session is given out only once both tokens are stored,   *)
(* and a client hears that one is over only once both are deleted.         *)
(* OneHolder needs to know of the renewals that are under way:             *)
(* OneExchanged says that the session being exchanged is the only one of   *)
(* its line that clients can renew, OneExchanges that one thread exchanges *)
(* it.                                                                     *)
(*                                                                         *)
(* The same invariant gives the refinement: each step of a thread is a     *)
(* step of SessionService or changes nothing a client can use. A session   *)
(* that is made is named by its thread alone until the client has it       *)
(* (NewLemma), so that an answer that is lost takes just that one          *)
(* (FailsStep, RestartStep).                                               *)
(*                                                                         *)
(* The codes. CodeInv says of threads that take turns that each counts     *)
(* from where the code is (InTurn): what a thread read of it is what is    *)
(* stored, so no wrong code goes uncounted but the one that has the code   *)
(* erased, and a code that made a session is gone before it is read again. *)
(*                                                                         *)
(* Of threads that overlap, Tried bounds the wrong codes by a count. Each  *)
(* thread is on a level, the number it would count from (Levels); how many *)
(* threads are below each level makes a climb, a sequence that never goes  *)
(* down (Depths). The climbs are ordered by the first place where they     *)
(* differ. A wrong code makes its thread pending; when it has been         *)
(* counted, or has had the code erased, its thread has moved up past all   *)
(* that it moved down, so that the climb it leads to comes before          *)
(* (CountedLemma), and no other step leads to a later one (HigherLemma).   *)
(* So no more wrong codes were tried than there are climbs after the       *)
(* present one, and threads pending; and the pending ones have a climb     *)
(* left each (RaisedLemma). Of m steps up to n there are choose(m + n, n)  *)
(* climbs (ChooseLemma): the bound of GuessesAreBounded.                   *)
(***************************************************************************)
EXTENDS LocalSignIn, FiniteSetTheorems, FunctionTheorems, SequenceTheorems,
        WellFoundedInduction, TLAPS

----------------------------------------------------------------------------
(* What is left to do of an operation.                                     *)

\* The suffixes of what the operations do, apart from store_session and
\* delete_session themselves, and of a pop that has read its entry.
RefreshFirst == <<<<"store", "access">>, <<"store", "renewal">>,
                  <<"pop", "renewal">>, <<"pop", "access">>>>
RefreshSecond == <<<<"store", "renewal">>, <<"pop", "renewal">>, <<"pop", "access">>>>
LoginSecond == <<<<"store", "renewal">>>>
DeleteRenewal == <<<<"del", "renewal">>, <<"pop", "access">>>>
PopAccess == <<<<"pop", "access">>>>
DeleteAccess == <<<<"del", "access">>>>

\* The refresh token is gone, or both are still there.
AccessLeft == {PopAccess, DeleteAccess, <<>>}
DeletingLeft == {delete_session, DeleteRenewal} \cup AccessLeft
StoringLeft == {store_session, LoginSecond, RefreshFirst, RefreshSecond}

\* What may be left to do of each operation.
Left(op) ==
    CASE op = "login" -> {store_session, LoginSecond, <<>>}
      [] op = "refresh" -> {RefreshFirst, RefreshSecond} \cup DeletingLeft
      [] op \in {"expired", "close"} -> DeletingLeft
      [] op = "stale" -> AccessLeft
      [] OTHER -> {<<>>}

\* What is left to do is a sequence of calls of the store.
LEMMA TodoTypes ==
  StoringLeft \cup DeletingLeft \subseteq Seq(StoreCall)
  BY DEF StoringLeft, DeletingLeft, AccessLeft, store_session, LoginSecond, RefreshFirst,
         RefreshSecond, delete_session, DeleteRenewal, PopAccess, DeleteAccess, StoreCall, Table

\* The call an operation makes next.
LEMMA TodoHeads ==
  /\ Head(store_session) = <<"store", "access">> /\ Head(RefreshFirst) = <<"store", "access">>
  /\ Head(LoginSecond) = <<"store", "renewal">> /\ Head(RefreshSecond) = <<"store", "renewal">>
  /\ Head(delete_session) = <<"pop", "renewal">> /\ Head(DeleteRenewal) = <<"del", "renewal">>
  /\ Head(PopAccess) = <<"pop", "access">> /\ Head(DeleteAccess) = <<"del", "access">>
  /\ <<>> \notin {store_session, LoginSecond, RefreshFirst, RefreshSecond, delete_session,
                  DeleteRenewal, PopAccess, DeleteAccess}
  BY DEF store_session, LoginSecond, RefreshFirst, RefreshSecond, delete_session, DeleteRenewal,
         PopAccess, DeleteAccess

\* What is left to do after that call.
LEMMA TodoTails ==
  /\ Tail(store_session) = LoginSecond /\ Tail(LoginSecond) = <<>>
  /\ Tail(RefreshFirst) = RefreshSecond /\ Tail(RefreshSecond) = delete_session
  /\ Tail(delete_session) = PopAccess /\ Tail(DeleteRenewal) = PopAccess
  /\ Tail(PopAccess) = <<>> /\ Tail(DeleteAccess) = <<>>
  /\ <<>> \o PopAccess = PopAccess /\ <<>> \o <<>> = <<>>
  /\ <<<<"del", "access">>>> \o <<>> = DeleteAccess
  BY DEF store_session, LoginSecond, RefreshFirst, RefreshSecond, delete_session, DeleteRenewal,
         PopAccess, DeleteAccess

\* A renewal does what store_session and delete_session do, one after the other;
\* a pop that reads first deletes next.
LEMMA TodoJoins ==
  /\ store_session \o delete_session = RefreshFirst
  /\ <<<<"del", "renewal">>>> \o PopAccess = DeleteRenewal
  <1>1. ASSUME NEW first, first = store_session, NEW second, second = delete_session
        PROVE  first \o second = RefreshFirst
    <2> DEFINE both == first \o second
    <2>1. first \in Seq(StoreCall) /\ second \in Seq(StoreCall) /\ RefreshFirst \in Seq(StoreCall)
      BY <1>1, TodoTypes DEF StoringLeft, DeletingLeft
    <2>2. /\ Len(first) = 2 /\ Len(second) = 2 /\ Len(RefreshFirst) = 4
          /\ first[1] = RefreshFirst[1] /\ first[2] = RefreshFirst[2]
          /\ second[1] = RefreshFirst[3] /\ second[2] = RefreshFirst[4]
      BY <1>1 DEF store_session, delete_session, RefreshFirst
    <2>3. /\ both \in Seq(StoreCall) /\ Len(both) = 4
          /\ \A i \in 1..4 : both[i] = IF i <= 2 THEN first[i] ELSE second[i - 2]
      <3>1. /\ both \in Seq(StoreCall)
            /\ Len(both) = Len(first) + Len(second)
            /\ \A i \in 1..Len(first) + Len(second) :
                  both[i] = IF i <= Len(first) THEN first[i] ELSE second[i - Len(first)]
        BY <2>1, ConcatProperties, Zenon
      <3> HIDE DEF both
      <3> QED
        BY <2>2, <3>1
    <2>4. \A i \in 1..4 : both[i] = RefreshFirst[i]
      BY <2>2, <2>3
    <2> HIDE DEF both
    <2>5. both = RefreshFirst
      BY <2>1, <2>2, <2>3, <2>4, SeqEqual
    <2> QED
      BY <2>5 DEF both
  <1>2. ASSUME NEW one, one = <<<<"del", "renewal">>>>
        PROVE  one \o PopAccess = DeleteRenewal
    <2> DEFINE both == one \o PopAccess
    <2>1. PopAccess \in Seq(StoreCall) /\ DeleteRenewal \in Seq(StoreCall)
      BY TodoTypes DEF DeletingLeft, AccessLeft
    <2>2. one \in Seq(StoreCall)
      BY <1>2, <<"del", "renewal">> \in StoreCall DEF StoreCall, Table
    <2>3. /\ Len(one) = 1 /\ Len(PopAccess) = 1 /\ Len(DeleteRenewal) = 2
          /\ one[1] = DeleteRenewal[1] /\ PopAccess[1] = DeleteRenewal[2]
      BY <1>2 DEF PopAccess, DeleteRenewal
    <2>4. /\ both \in Seq(StoreCall) /\ Len(both) = 2
          /\ \A i \in 1..2 : both[i] = IF i <= 1 THEN one[i] ELSE PopAccess[i - 1]
      BY <2>1, <2>2, <2>3, ConcatProperties
    <2>5. \A i \in 1..2 : both[i] = DeleteRenewal[i]
      BY <2>3, <2>4
    <2> HIDE DEF both
    <2>6. both = DeleteRenewal
      BY <2>1, <2>3, <2>4, <2>5, SeqEqual
    <2> QED
      BY <2>6 DEF both
  <1> QED
    BY <1>1, <1>2

\* A list of calls that stores is none that deletes.
LEMMA TodoDistinct ==
  /\ StoringLeft \cap DeletingLeft = {} /\ <<>> \notin StoringLeft
  /\ delete_session \notin AccessLeft /\ DeleteRenewal \notin AccessLeft
  /\ PopAccess # <<>> /\ DeleteAccess # <<>>
  BY TodoHeads DEF StoringLeft, DeletingLeft, AccessLeft

\* Which operations store a refresh token and delete one.
LEMMA TodoStores ==
  ASSUME NEW todo \in {<<>>} \cup StoringLeft \cup DeletingLeft
  PROVE  (\E i \in DOMAIN todo : todo[i] = <<"store", "renewal">>) <=> todo \in StoringLeft
  BY DEF StoringLeft, DeletingLeft, AccessLeft, store_session, LoginSecond, RefreshFirst,
         RefreshSecond, delete_session, DeleteRenewal, PopAccess, DeleteAccess

----------------------------------------------------------------------------
(* The inductive invariant.                                                *)

\* What the operation of a thread does with sessions: it makes one, it is to end
\* the one it works on, it works on one, it has yet to store the refresh token.
Creates(k) == thread[k].op \in {"login", "refresh"}
Ends(k) == thread[k].op \in {"refresh", "expired", "close"}
Uses(k) == thread[k].op \in {"refresh", "expired", "close", "stale"}
Storing(k) == thread[k].todo \in StoringLeft

\* How far a thread is, and what that says of the sessions it is busy with.
ThreadOK(k) ==
    LET t == thread[k]
    IN /\ t.todo \in Left(t.op)
       /\ Creates(k) => t.new \in Session \ known
       /\ ~Creates(k) => t.new = None
       /\ Uses(k) => t.session \in known
       /\ ~Uses(k) => t.session = None
       /\ Storing(k) => line[t.new] = None
       /\ Creates(k) /\ ~Storing(k) =>
             /\ Found("renewal", t.new)
             /\ line[t.new] = IF t.op = "login" THEN t.new ELSE line[t.session]
       /\ Ends(k) /\ t.todo \in AccessLeft => ~Found("renewal", t.session)
       /\ Uses(k) /\ t.todo = <<>> => ~Found("access", t.session)
       /\ t.op \in {"expired", "close"} => line[t.session] \in dismissed

ThreadsOK ==
    /\ \A k \in Thread : ThreadOK(k)
    /\ \A j, k \in Thread : j # k /\ Creates(j) => thread[j].new # thread[k].new

\* A session goes back to itself, or to a login that a client knows.
LinesOK == \A s \in Made : line[s] = s \/ line[s] \in known

Structure == TypeOK /\ ThreadsOK /\ LinesOK

\* Of a line nobody contended for, clients can renew no session but the one
\* that is being exchanged, and one thread exchanges it.
Exchanges(k) == thread[k].op = "refresh" /\ line[thread[k].session] \notin contended
OneExchanged ==
    \A k \in Thread : Exchanges(k) =>
        \A s \in known : line[s] = line[thread[k].session] /\ Found("renewal", s)
                         => s = thread[k].session
OneExchanges ==
    \A j, k \in Thread : Exchanges(j) /\ Exchanges(k)
                         /\ line[thread[j].session] = line[thread[k].session] => j = k

Holding == GoneForGood /\ OneHolder /\ OneExchanged /\ OneExchanges

Inv == Structure /\ Holding /\ StraysComeOfInterruption

----------------------------------------------------------------------------
(* What is common to the steps.                                            *)

ThreadState == [op: Ops \cup {"idle"}, session: Session \cup {None}, new: Session \cup {None},
                found: BOOLEAN, todo: Seq(StoreCall)]

\* The state of a thread; it is idle when it has no operation.
LEMMA ThreadLemma ==
  ASSUME TypeOK, NEW k \in Thread
  PROVE  /\ thread \in [Thread -> ThreadState] /\ thread[k] \in ThreadState
         /\ thread[k] = Idle <=> thread[k].op = "idle"
         /\ thread[k] = Idle => thread[k].session = None /\ thread[k].new = None
                                /\ thread[k].todo = <<>>
         /\ None \notin Session
  <1>1. Idle \in ThreadState /\ None \notin Session
    BY SessionAssumption DEF Idle, ThreadState, None
  <1>2. \A j \in Thread : thread[j] \in ThreadState
                          /\ (thread[j] = Idle <=> thread[j].op = "idle")
    BY <1>1 DEF TypeOK, ThreadState, Ops, Idle
  <1> QED
    BY <1>1, <1>2 DEF TypeOK, Idle

\* A thread that does not move stays as it is, if the step creates no session of
\* its own in its place and stores none that a client knows.
LEMMA StableLemma ==
  ASSUME Structure, NEW k \in Thread, thread'[k] = thread[k],
         known \subseteq known', dismissed \subseteq dismissed',
         \A s \in known : line'[s] = line[s]
                          /\ \A table \in Table : Found(table, s)' => Found(table, s),
         Creates(k) => LET t == thread[k].new
                       IN /\ t \notin known'
                          /\ line'[t] = line[t]
                          /\ Found("renewal", t) => Found("renewal", t)'
  PROVE  ThreadOK(k)'
  <1>1. ThreadOK(k) /\ thread[k] \in ThreadState
    BY ThreadLemma DEF Structure, ThreadsOK
  <1>2. /\ Creates(k)' = Creates(k) /\ Uses(k)' = Uses(k) /\ Ends(k)' = Ends(k)
        /\ Storing(k)' = Storing(k)
    BY DEF Creates, Uses, Ends, Storing
  <1>3. Ends(k) => Uses(k)
    BY DEF Ends, Uses
  <1>4. Storing(k) => Creates(k)
    BY <1>1, TodoHeads DEF ThreadOK, Storing, Creates, StoringLeft, Left, DeletingLeft, AccessLeft
  <1>5. /\ thread[k].op \in {"expired", "close"} => Uses(k)
        /\ Creates(k) /\ thread[k].op # "login" => Uses(k)
    BY DEF Creates, Uses
  <1>6. "renewal" \in Table /\ "access" \in Table
    BY DEF Table
  <1> QED
    BY <1>1, <1>2, <1>3, <1>4, <1>5, <1>6 DEF ThreadOK

\* A thread goes from one state to another.
LEMMA MovesLemma ==
  ASSUME TypeOK, NEW k \in Thread, NEW t \in ThreadState, t.op = "idle" => t = Idle,
         thread' = [thread EXCEPT ![k] = t]
  PROVE  /\ thread'[k] = t
         /\ \A j \in Thread \ {k} : thread'[j] = thread[j]
         /\ thread' \in [Thread -> [op: Ops, session: Session \cup {None},
                                    new: Session \cup {None}, found: BOOLEAN,
                                    todo: Seq(StoreCall)] \cup {Idle}]
  BY DEF TypeOK, ThreadState

\* What holds of the sessions clients know keeps to hold, if none is stored
\* again, none is given out, and no exchange begins.
LEMMA HoldingLemma ==
  ASSUME Structure, Holding, known' = known, over' = over, contended \subseteq contended',
         \A s \in known : line'[s] = line[s]
                          /\ \A table \in Table : Found(table, s)' => Found(table, s),
         \A k \in Thread : thread'[k].op = "refresh" =>
             thread[k].op = "refresh" /\ thread'[k].session = thread[k].session
  PROVE  Holding'
  <1>1. over \subseteq known /\ "renewal" \in Table
    BY DEF Structure, TypeOK, Table
  <1>2. \A k \in Thread : thread[k].op = "refresh" => thread[k].session \in known
    BY DEF Structure, ThreadsOK, ThreadOK, Uses
  <1>3. \A k \in Thread : Exchanges(k)' =>
            /\ Exchanges(k) /\ thread'[k].session = thread[k].session
            /\ thread[k].session \in known
    BY <1>2 DEF Exchanges
  <1>4. GoneForGood'
    BY <1>1 DEF Holding, GoneForGood
  <1>5. OneHolder'
    BY <1>1 DEF Holding, OneHolder
  <1>6. OneExchanged'
    BY <1>1, <1>3 DEF Holding, OneExchanged
  <1>7. OneExchanges'
    BY <1>3 DEF Holding, OneExchanges
  <1> QED
    BY <1>4, <1>5, <1>6, <1>7 DEF Holding

\* Some thread works on the session.
Held(s) == \E k \in Thread : s \in {thread[k].session, thread[k].new}

\* Firestore may drop the entries of the session.
Past(s) == kind = "firestore" /\ entry["access"][s] <= 0

\* No stray access token appears if none is stored for a session nobody holds, a
\* thread that lets a session go leaves it to a client or without its token, and
\* only one past its time loses the other token.
LEMMA StraysLemma ==
  ASSUME StraysComeOfInterruption, known \subseteq known', interrupted => interrupted',
         ~interrupted' => \A s \in Session : Found("access", s)' =>
             /\ Found("access", s) \/ Held(s)'
             /\ Held(s) => Held(s)' \/ (s \in known' /\ Found("renewal", s)')
             /\ s \in known /\ Found("renewal", s) =>
                   Found("renewal", s)' \/ Held(s)' \/ Past(s)'
             /\ Past(s) => Past(s)' \/ Held(s)'
  PROVE  StraysComeOfInterruption'
  <1> SUFFICES ASSUME ~interrupted', NEW s \in Session, Found("access", s)'
               PROVE  (s \in known' /\ Found("renewal", s)') \/ Held(s)' \/ Past(s)'
    BY DEF StraysComeOfInterruption, Held, Past
  <1>1. Found("access", s) => (s \in known /\ Found("renewal", s)) \/ Held(s) \/ Past(s)
    BY DEF StraysComeOfInterruption, Held, Past
  <1> HIDE DEF Held, Past
  <1> QED
    BY <1>1

----------------------------------------------------------------------------
(* An operation starts.                                                    *)

\* The start of any operation keeps the structure; that of a renewal is left to
\* RefreshLemma for what it does to the holders.
LEMMA StartsLemma ==
  ASSUME Inv, NEW k \in Thread, thread[k] = Idle, NEW op \in Ops,
         NEW s \in known \cup {None}, NEW t \in Session \cup {None},
         NEW calls \in Seq(StoreCall), Starts(k, op, s, t, calls),
         t # None => t \notin Taken,
         UNCHANGED <<kind, entry, line, known, over, interrupted>>,
         dismissed \subseteq dismissed', dismissed' \subseteq Made,
         contended \subseteq contended', contended' \subseteq Made,
         ThreadOK(k)'
  PROVE  /\ Structure' /\ StraysComeOfInterruption'
         /\ thread'[k] = [op |-> op, session |-> s, new |-> t, found |-> FALSE, todo |-> calls]
         /\ \A j \in Thread \ {k} : thread'[j] = thread[j]
         /\ op # "refresh" => Holding'
  <1> DEFINE state == [op |-> op, session |-> s, new |-> t, found |-> FALSE, todo |-> calls]
  <1>1. Structure /\ TypeOK /\ ThreadsOK /\ LinesOK
    BY DEF Inv, Structure
  <1>2. thread' = [thread EXCEPT ![k] = state]
    BY DEF Starts
  <1>3. known \subseteq Session
    BY <1>1 DEF TypeOK, Made
  <1>4. state \in ThreadState /\ state.op # "idle"
    BY <1>3 DEF ThreadState, Ops
  <1>5. /\ thread'[k] = state
        /\ \A j \in Thread \ {k} : thread'[j] = thread[j]
        /\ thread' \in [Thread -> [op: Ops, session: Session \cup {None},
                                    new: Session \cup {None}, found: BOOLEAN,
                                    todo: Seq(StoreCall)] \cup {Idle}]
    BY <1>1, <1>2, <1>4, MovesLemma
  <1>6. state.op = op /\ state.session = s /\ state.new = t
    OBVIOUS
  <1> HIDE DEF state
  <1>7. Made' = Made /\ \A table \in Table : \A u : Found(table, u)' = Found(table, u)
    BY DEF Made, Found
  <1>8. TypeOK'
    BY <1>1, <1>5, <1>7 DEF TypeOK, Table
  <1>9. \A j \in Thread \ {k} : ThreadOK(j)'
    <2>1. \A j \in Thread : Creates(j) => thread[j].new \in Session \ known
      BY <1>1 DEF ThreadsOK, ThreadOK
    <2> QED
      BY <1>1, <1>5, <1>7, <2>1, StableLemma, "renewal" \in Table DEF Table
  <1>10. ThreadsOK'
    <2>1. \A j \in Thread \ {k} : t # None => thread[j].new # t
      BY DEF Taken
    <2>3. \A j \in Thread : Creates(j) => thread[j].new # None
      BY <1>1, ThreadLemma DEF ThreadsOK, ThreadOK
    <2>4. t = None => ~Creates(k)'
      BY <1>1, <1>5, <1>6, ThreadLemma DEF ThreadOK
    <2>2. \A j \in Thread \ {k} : Creates(j)' = Creates(j)
      BY <1>5 DEF Creates
    <2> QED
      BY <1>1, <1>5, <1>6, <1>9, <2>1, <2>2, <2>3, <2>4 DEF ThreadsOK
  <1>11. LinesOK'
    BY <1>1, <1>7 DEF LinesOK
  <1>12. StraysComeOfInterruption'
    <2>1. \A u \in Session : Held(u) => Held(u)'
      BY <1>1, <1>5, ThreadLemma DEF Held
    <2>2. \A u \in Session : Past(u) => Past(u)'
      BY DEF Past
    <2> QED
      BY <1>7, <2>1, <2>2, StraysLemma, "renewal" \in Table, "access" \in Table DEF Inv, Table
  <1>13. ASSUME op # "refresh" PROVE Holding'
    BY <1>1, <1>5, <1>6, <1>7, <1>13, HoldingLemma DEF Inv
  <1> QED
    BY <1>5, <1>8, <1>10, <1>11, <1>12, <1>13 DEF Structure, state

\* A login takes a session that is not stored.
LEMMA LoginLemma ==
  ASSUME Inv, NEW k \in Thread, NEW t \in Session, Login(k, t)
  PROVE  /\ Inv'
         /\ thread'[k].op = "login"
         /\ \A j \in Thread \ {k} : thread'[j] = thread[j]
  <1>1. /\ thread[k] = Idle /\ t \notin Taken /\ Starts(k, "login", None, t, store_session)
        /\ UNCHANGED <<kind, entry, line, dismissed, known, over, contended, interrupted>>
    BY DEF Login, Fresh
  <1>2. /\ TypeOK /\ t \notin known /\ line[t] = None
    BY <1>1 DEF Inv, Structure, TypeOK, Taken, Made
  <1>3. store_session \in Seq(StoreCall) /\ store_session \in StoringLeft
        /\ store_session \in Left("login")
    BY TodoTypes DEF StoringLeft, Left
  <1>4. thread'[k] = [op |-> "login", session |-> None, new |-> t, found |-> FALSE,
                      todo |-> store_session]
    BY <1>1, <1>2 DEF Starts, TypeOK
  <1>5. ThreadOK(k)'
    BY <1>1, <1>2, <1>3, <1>4 DEF ThreadOK, Creates, Uses, Ends, Storing
  <1>6. dismissed \subseteq Made /\ contended \subseteq Made
    BY <1>2 DEF TypeOK
  <1>7. Structure' /\ StraysComeOfInterruption' /\ Holding'
    BY <1>1, <1>3, <1>5, <1>6, StartsLemma, "login" \in Ops DEF Ops
  <1>8. \A j \in Thread \ {k} : thread'[j] = thread[j]
    BY <1>1, <1>2 DEF Starts, TypeOK
  <1> QED
    BY <1>4, <1>7, <1>8 DEF Inv

\* A validation of an expired token is about to delete its entry.
LEMMA ValidateExpiredLemma ==
  ASSUME Inv, NEW k \in Thread, NEW s \in Session, ValidateExpired(k, s)
  PROVE  /\ Inv'
         /\ thread'[k].op = "stale"
         /\ \A j \in Thread \ {k} : thread'[j] = thread[j]
  <1>1. /\ thread[k] = Idle /\ Starts(k, "stale", s, None, PopAccess) /\ s \in known
        /\ UNCHANGED <<kind, entry, line, dismissed, known, over, contended, interrupted>>
    BY DEF ValidateExpired, PopAccess
  <1>2. TypeOK
    BY DEF Inv, Structure
  <1>3. PopAccess \in Seq(StoreCall) /\ PopAccess \notin StoringLeft /\ PopAccess # <<>>
        /\ PopAccess \in Left("stale")
    BY TodoTypes, TodoDistinct DEF Left, DeletingLeft, AccessLeft
  <1>4. thread'[k] = [op |-> "stale", session |-> s, new |-> None, found |-> FALSE,
                      todo |-> PopAccess]
    BY <1>1, <1>2 DEF Starts, TypeOK
  <1>5. ThreadOK(k)'
    BY <1>1, <1>2, <1>3, <1>4 DEF ThreadOK, Creates, Uses, Ends, Storing
  <1>6. dismissed \subseteq Made /\ contended \subseteq Made
    BY <1>2 DEF TypeOK
  <1>7. Structure' /\ StraysComeOfInterruption' /\ Holding'
    BY <1>1, <1>3, <1>5, <1>6, StartsLemma, "stale" \in Ops DEF Ops
  <1>8. \A j \in Thread \ {k} : thread'[j] = thread[j]
    BY <1>1, <1>2 DEF Starts, TypeOK
  <1> QED
    BY <1>4, <1>7, <1>8 DEF Inv

\* A client knows sessions whose line goes back to a login.
LEMMA KnownLemma ==
  ASSUME Structure, NEW s \in known
  PROVE  s \in Session /\ s \in Made /\ line[s] \in Made
  <1>1. s \in Session /\ s \in Made /\ known \subseteq Made
    BY DEF Structure, TypeOK, Made
  <1> QED
    BY <1>1 DEF Structure, LinesOK

\* An expired refresh and a close mark the line before they delete.
LEMMA EndingLemma ==
  ASSUME Inv, NEW k \in Thread, NEW s \in Session, RefreshExpired(k, s) \/ Close(k, s)
  PROVE  /\ Inv'
         /\ thread'[k].op # "refresh"
         /\ \A j \in Thread \ {k} : thread'[j] = thread[j]
  <1>1. PICK op \in {"expired", "close"} :
           /\ thread[k] = Idle /\ Starts(k, op, s, None, delete_session) /\ s \in known
           /\ dismissed' = dismissed \cup {line[s]}
           /\ UNCHANGED <<kind, entry, line, known, over, contended, interrupted>>
    BY DEF RefreshExpired, Close
  <1>2. TypeOK /\ line[s] \in Made
    BY <1>1, KnownLemma DEF Inv, Structure
  <1>3. delete_session \in Seq(StoreCall) /\ delete_session \notin StoringLeft
        /\ delete_session # <<>> /\ delete_session \notin AccessLeft
        /\ delete_session \in Left(op)
    BY TodoTypes, TodoDistinct DEF Left, DeletingLeft, AccessLeft
  <1>4. thread'[k] = [op |-> op, session |-> s, new |-> None, found |-> FALSE,
                      todo |-> delete_session]
    BY <1>1, <1>2 DEF Starts, TypeOK
  <1>5. ThreadOK(k)'
    BY <1>1, <1>2, <1>3, <1>4 DEF ThreadOK, Creates, Uses, Ends, Storing
  <1>6. dismissed' \subseteq Made /\ contended \subseteq Made
    BY <1>1, <1>2 DEF TypeOK
  <1>7. Structure' /\ StraysComeOfInterruption' /\ Holding'
    BY <1>1, <1>3, <1>5, <1>6, StartsLemma, op \in Ops, op # "refresh" DEF Ops
  <1>8. \A j \in Thread \ {k} : thread'[j] = thread[j]
    BY <1>1, <1>2 DEF Starts, TypeOK
  <1> QED
    BY <1>4, <1>7, <1>8 DEF Inv

\* A renewal: another thread that exchanges the same session makes its line
\* contended.
LEMMA RefreshLemma ==
  ASSUME Inv, NEW k \in Thread, NEW s \in Session, NEW t \in Session, Refresh(k, s, t)
  PROVE  /\ Inv'
         /\ thread'[k].op = "refresh" /\ thread'[k].session = s /\ Storing(k)'
         /\ \A j \in Thread \ {k} : thread'[j] = thread[j]
  <1>1. /\ thread[k] = Idle /\ Starts(k, "refresh", s, t, RefreshFirst)
        /\ s \in known /\ t \notin Taken /\ Found("renewal", s)
        /\ contended' = IF \E j \in Working("refresh") : thread[j].session = s
                        THEN contended \cup {line[s]} ELSE contended
        /\ UNCHANGED <<kind, entry, line, dismissed, known, over, interrupted>>
    BY TodoJoins DEF Refresh, StillActive, Fresh
  <1>2. /\ Structure /\ TypeOK /\ line[s] \in Made /\ t \notin known /\ line[t] = None
    BY <1>1, KnownLemma DEF Inv, Structure, TypeOK, Taken, Made
  <1>3. RefreshFirst \in Seq(StoreCall) /\ RefreshFirst \in StoringLeft
        /\ RefreshFirst # <<>> /\ RefreshFirst \notin AccessLeft
        /\ RefreshFirst \in Left("refresh")
    BY TodoTypes, TodoDistinct DEF Left, DeletingLeft, StoringLeft
  <1>4. thread'[k] = [op |-> "refresh", session |-> s, new |-> t, found |-> FALSE,
                      todo |-> RefreshFirst]
        /\ \A j \in Thread \ {k} : thread'[j] = thread[j]
    BY <1>1, <1>2 DEF Starts, TypeOK
  <1>5. ThreadOK(k)'
    BY <1>1, <1>2, <1>3, <1>4 DEF ThreadOK, Creates, Uses, Ends, Storing
  <1>6. dismissed \subseteq Made /\ contended' \subseteq Made /\ contended \subseteq contended'
    BY <1>1, <1>2 DEF TypeOK
  <1>7. Structure' /\ StraysComeOfInterruption'
    BY <1>1, <1>3, <1>5, <1>6, StartsLemma, "refresh" \in Ops DEF Ops
  <1>8. \A table \in Table : \A u : Found(table, u)' = Found(table, u)
    BY <1>1 DEF Found
  <1>9. GoneForGood' /\ OneHolder'
    BY <1>1, <1>6, <1>8, "renewal" \in Table DEF Inv, Holding, GoneForGood, OneHolder, Table
  <1>10. \A j \in Thread \ {k} : Exchanges(j)' =>
            Exchanges(j) /\ thread'[j].session = thread[j].session /\ thread[j].session # s
    BY <1>1, <1>4, <1>6 DEF Exchanges, Working
  <1>11. OneExchanged'
    <2> SUFFICES ASSUME NEW j \in Thread, Exchanges(j)', NEW u \in known,
                        line[u] = line[thread'[j].session], Found("renewal", u)
                 PROVE  u = thread'[j].session
      BY <1>1, <1>8, "renewal" \in Table DEF OneExchanged, Table
    <2>1. CASE j = k
      BY <1>1, <1>4, <1>6, <2>1 DEF Exchanges, Inv, Holding, OneHolder
    <2>2. CASE j # k
      BY <1>10, <2>2 DEF Inv, Holding, OneExchanged
    <2> QED
      BY <2>1, <2>2
  <1>12. \A j \in Thread \ {k} : Exchanges(j)' => line[thread[j].session] # line[s]
    BY <1>1, <1>10 DEF Inv, Holding, OneExchanged
  <1>13. OneExchanges'
    <2> SUFFICES ASSUME NEW i \in Thread, NEW j \in Thread, Exchanges(i)', Exchanges(j)',
                        line[thread'[i].session] = line[thread'[j].session], i # j
                 PROVE  FALSE
      BY <1>1 DEF OneExchanges
    <2>1. CASE i = k
      BY <1>4, <1>10, <1>12, <2>1
    <2>2. CASE j = k
      BY <1>4, <1>10, <1>12, <2>2
    <2>3. CASE i # k /\ j # k
      BY <1>10, <2>3 DEF Inv, Holding, OneExchanges
    <2> QED
      BY <2>1, <2>2, <2>3
  <1> QED
    BY <1>3, <1>4, <1>7, <1>9, <1>11, <1>13 DEF Inv, Holding, Storing

----------------------------------------------------------------------------
(* The calls of the store.                                                 *)

\* Which operation makes a call of the store, and what it has left to do then.
LEMMA DoesLemma ==
  ASSUME Structure, NEW k \in Thread
  PROVE  LET t == thread[k]
             rest == Tail(t.todo)
         IN /\ Does(k, "store", "access") =>
                 \/ t.op = "login" /\ rest = LoginSecond
                 \/ t.op = "refresh" /\ rest = RefreshSecond
            /\ Does(k, "store", "renewal") =>
                 \/ t.op = "login" /\ rest = <<>>
                 \/ t.op = "refresh" /\ rest = delete_session
            /\ Does(k, "pop", "renewal") => Ends(k) /\ rest = PopAccess
            /\ Does(k, "del", "renewal") => Ends(k) /\ rest = PopAccess
            /\ Does(k, "pop", "access") => Uses(k) /\ t.todo \in AccessLeft /\ rest = <<>>
            /\ Does(k, "del", "access") => Uses(k) /\ t.todo \in AccessLeft /\ rest = <<>>
            /\ \A table \in Table : Does(k, "store", table) => Storing(k)
            /\ \A what \in {"pop", "del"}, table \in Table : Does(k, what, table) => ~Storing(k)
  <1> DEFINE t == thread[k]
             head == Head(t.todo)
  <1>1. t.todo \in Left(t.op)
    BY DEF Structure, ThreadsOK, ThreadOK
  <1>2. \/ t.todo = <<>>
        \/ t.op = "login" /\ t.todo = store_session
        \/ t.op = "login" /\ t.todo = LoginSecond
        \/ t.op = "refresh" /\ t.todo = RefreshFirst
        \/ t.op = "refresh" /\ t.todo = RefreshSecond
        \/ Ends(k) /\ t.todo = delete_session
        \/ Ends(k) /\ t.todo = DeleteRenewal
        \/ Uses(k) /\ t.todo = PopAccess
        \/ Uses(k) /\ t.todo = DeleteAccess
    BY <1>1 DEF Left, DeletingLeft, AccessLeft, Ends, Uses
  <1>3. /\ Does(k, "store", "access") => t.todo \in {store_session, RefreshFirst}
        /\ Does(k, "store", "renewal") => t.todo \in {LoginSecond, RefreshSecond}
        /\ Does(k, "pop", "renewal") => t.todo = delete_session
        /\ Does(k, "del", "renewal") => t.todo = DeleteRenewal
        /\ Does(k, "pop", "access") => t.todo = PopAccess
        /\ Does(k, "del", "access") => t.todo = DeleteAccess
    BY <1>2, TodoHeads DEF Does
  <1>4. /\ t.todo = store_session => t.op = "login"
        /\ t.todo = LoginSecond => t.op = "login"
        /\ t.todo = RefreshFirst => t.op = "refresh"
        /\ t.todo = RefreshSecond => t.op = "refresh"
        /\ t.todo \in {delete_session, DeleteRenewal} => Ends(k)
        /\ t.todo \in {PopAccess, DeleteAccess} => Uses(k)
    <2>1. \A x \in StoringLeft, y \in DeletingLeft : x # y
      BY TodoDistinct
    <2>2. store_session # RefreshFirst /\ LoginSecond # RefreshSecond
          /\ store_session # LoginSecond /\ store_session # RefreshSecond
          /\ LoginSecond # RefreshFirst /\ RefreshFirst # RefreshSecond
      BY DEF store_session, RefreshFirst, LoginSecond, RefreshSecond
    <2>3. delete_session # PopAccess /\ delete_session # DeleteAccess
          /\ DeleteRenewal # PopAccess /\ DeleteRenewal # DeleteAccess
          /\ PopAccess # <<>> /\ DeleteAccess # <<>> /\ delete_session # <<>>
          /\ DeleteRenewal # <<>>
      BY TodoDistinct DEF AccessLeft
    <2> QED
      BY <1>2, <2>1, <2>2, <2>3, TodoDistinct DEF StoringLeft, DeletingLeft, AccessLeft, Ends
  <1>5. /\ {store_session, LoginSecond, RefreshFirst, RefreshSecond} = StoringLeft
        /\ {PopAccess, DeleteAccess} \subseteq AccessLeft
        /\ {delete_session, DeleteRenewal, PopAccess, DeleteAccess} \cap StoringLeft = {}
    BY TodoDistinct DEF StoringLeft, DeletingLeft, AccessLeft
  <1> QED
    BY <1>3, <1>4, <1>5, TodoTails DEF Storing, Table

\* A thread makes a call of the store and keeps the sessions it works on.
LEMMA GoesOnLemma ==
  ASSUME TypeOK, NEW k \in Thread, thread[k] # Idle, NEW todo \in Seq(StoreCall),
         \/ thread' = [thread EXCEPT ![k].todo = todo]
         \/ \E found \in BOOLEAN :
               thread' = [thread EXCEPT ![k].todo = todo, ![k].found = found]
  PROVE  /\ thread'[k].op = thread[k].op /\ thread'[k].session = thread[k].session
         /\ thread'[k].new = thread[k].new /\ thread'[k].todo = todo
         /\ \A j \in Thread \ {k} : thread'[j] = thread[j]
         /\ thread' \in [Thread -> [op: Ops, session: Session \cup {None},
                                    new: Session \cup {None}, found: BOOLEAN,
                                    todo: Seq(StoreCall)] \cup {Idle}]
  <1> DEFINE T == [op: Ops, session: Session \cup {None}, new: Session \cup {None},
                   found: BOOLEAN, todo: Seq(StoreCall)]
  <1>1. thread \in [Thread -> T \cup {Idle}] /\ thread[k] \in T
    BY DEF TypeOK
  <1>2. CASE thread' = [thread EXCEPT ![k].todo = todo]
    BY <1>1, <1>2
  <1>3. ASSUME NEW found \in BOOLEAN,
               thread' = [thread EXCEPT ![k].todo = todo, ![k].found = found]
        PROVE  /\ thread'[k].op = thread[k].op /\ thread'[k].session = thread[k].session
               /\ thread'[k].new = thread[k].new /\ thread'[k].todo = todo
               /\ \A j \in Thread \ {k} : thread'[j] = thread[j]
               /\ thread' \in [Thread -> T \cup {Idle}]
    BY <1>1, <1>3
  <1> QED
    BY <1>2, <1>3

\* A token is stored.  With the refresh token the session enters its line.
LEMMA StoresLemma ==
  ASSUME Inv, NEW k \in Thread, NEW table \in Table, Stores(k, table)
  PROVE  /\ Inv'
         /\ Storing(k) /\ (Storing(k)' <=> table = "access")
         /\ thread'[k].op = thread[k].op /\ thread'[k].session = thread[k].session
         /\ \A j \in Thread \ {k} : thread'[j] = thread[j]
  <1> DEFINE t == thread[k].new
             s == thread[k].session
             origin == IF thread[k].op = "login" THEN t ELSE line[s]
             rest == Tail(thread[k].todo)
  <1>1. /\ Structure /\ TypeOK /\ ThreadsOK /\ LinesOK /\ ThreadOK(k) /\ thread[k] \in ThreadState
        /\ Does(k, "store", table) /\ Storing(k)
        /\ UNCHANGED <<kind, dismissed, known, over, contended, interrupted>>
    BY DoesLemma, ThreadLemma DEF Inv, Structure, ThreadsOK, Stores
  <1>2. /\ thread[k] # Idle /\ Creates(k) /\ thread[k].op \in {"login", "refresh"}
        /\ t \in Session \ known /\ line[t] = None
    BY <1>1, DoesLemma DEF Creates, ThreadOK, Table, Idle
  <1>3. thread[k].op = "refresh" => s \in known /\ s # t /\ line[s] \in Made /\ line[s] \in known
    BY <1>1, <1>2, KnownLemma DEF ThreadOK, Uses, LinesOK
  <1>4. /\ rest \in Seq(StoreCall) /\ rest \in Left(thread[k].op)
        /\ rest \in StoringLeft <=> table = "access"
        /\ rest = <<>> => thread[k].op = "login"
        /\ thread[k].op = "refresh" => rest \notin AccessLeft
    BY <1>1, DoesLemma, TodoTypes, TodoDistinct
    DEF Left, StoringLeft, DeletingLeft, AccessLeft, Table
  <1>5. /\ thread'[k].op = thread[k].op /\ thread'[k].session = s
        /\ thread'[k].new = t /\ thread'[k].todo = rest
        /\ \A j \in Thread \ {k} : thread'[j] = thread[j]
        /\ thread' \in [Thread -> [op: Ops, session: Session \cup {None},
                                    new: Session \cup {None}, found: BOOLEAN,
                                    todo: Seq(StoreCall)] \cup {Idle}]
    BY <1>1, <1>2, <1>4, GoesOnLemma DEF Stores
  <1>6. /\ entry' \in [Table -> [Session -> Stored \cup {Absent}]]
        /\ \A b \in Table, u \in Session :
              Found(b, u)' <=> Found(b, u) \/ (b = table /\ u = t)
        /\ \A u \in Session \ {t} : entry'["access"][u] = entry["access"][u]
    <2> DEFINE left == IF table = "access" THEN Life ELSE RenewalLife
    <2>1. left \in Stored /\ left # Absent
      BY SessionAssumption DEF Stored, Absent
    <2>2. /\ entry' = [entry EXCEPT ![table][t] = left]
          /\ entry \in [Table -> [Session -> Stored \cup {Absent}]]
      BY <1>1 DEF Stores, TypeOK
    <2> HIDE DEF left
    <2> QED
      BY <1>2, <2>1, <2>2 DEF Found
  <1>7. /\ line' \in [Session -> Session \cup {None}]
        /\ \A u \in Session \ {t} : line'[u] = line[u]
        /\ line'[t] = IF table = "renewal" THEN origin ELSE None
    <2>1. line \in [Session -> Session \cup {None}] /\ origin \in Session
      BY <1>1, <1>2, <1>3 DEF TypeOK, Made
    <2>2. line' = IF table = "access" THEN line ELSE [line EXCEPT ![t] = origin]
      BY <1>1 DEF Stores
    <2> HIDE DEF origin
    <2> QED
      BY <1>2, <2>1, <2>2 DEF Table
  <1>8. /\ origin \in Session /\ origin # None
        /\ origin = t \/ origin \in known
    BY <1>2, <1>3, ThreadLemma, <1>1 DEF Made
  <1>9. Made \subseteq Made' /\ (table = "renewal" => Made' = Made \cup {t})
        /\ (table = "access" => Made' = Made)
    BY <1>2, <1>7, <1>8 DEF Made, Table
  <1> HIDE DEF origin
  <1>10. TypeOK'
    BY <1>1, <1>2, <1>5, <1>6, <1>7, <1>9 DEF TypeOK, Table
  <1>11. \A u \in known : line'[u] = line[u] /\ u \in Session
                          /\ \A b \in Table : Found(b, u)' => Found(b, u)
    BY <1>1, <1>2, <1>6, <1>7, KnownLemma
  <1>12. ThreadOK(k)'
    <2>1. Creates(k)' /\ (Uses(k)' <=> thread[k].op = "refresh")
          /\ (Ends(k)' <=> thread[k].op = "refresh") /\ (Storing(k)' <=> table = "access")
      BY <1>2, <1>4, <1>5 DEF Creates, Uses, Ends, Storing
    <2>2. thread[k].op = "refresh" => line'[s] = line[s] /\ s \in known
      BY <1>3, <1>11
    <2>3. table = "renewal" => Found("renewal", t)' /\ line'[t] = origin
      <3>1. \A u \in Session : u = t => Found(table, u)'
        BY <1>6
      <3> QED
        BY <1>2, <1>5, <1>7, <3>1
    <2>4. thread[k].op = "login" => s = None
      BY <1>1 DEF ThreadOK, Uses
    <2> QED
      BY <1>1, <1>2, <1>4, <1>5, <1>7, <2>1, <2>2, <2>3, <2>4 DEF ThreadOK, Table, origin
  <1>13. \A j \in Thread \ {k} : ThreadOK(j)'
    <2>1. \A j \in Thread \ {k} : Creates(j) => thread[j].new \in Session \ known
                                                /\ thread[j].new # t
      BY <1>1, <1>2 DEF ThreadsOK, ThreadOK
    <2> QED
      BY <1>1, <1>5, <1>6, <1>7, <1>11, <2>1, StableLemma DEF Table
  <1>14. ThreadsOK'
    <2>1. \A j \in Thread : Creates(j)' = Creates(j) /\ thread'[j].new = thread[j].new
      BY <1>5 DEF Creates
    <2> QED
      BY <1>1, <1>12, <1>13, <2>1 DEF ThreadsOK
  <1>15. LinesOK'
    BY <1>1, <1>7, <1>8, <1>9 DEF LinesOK, Made, Table
  <1>16. Holding'
    BY <1>1, <1>5, <1>11, HoldingLemma DEF Inv
  <1>17. StraysComeOfInterruption'
    <2>1. \A u \in Session : Held(u) \/ u = t => Held(u)'
      BY <1>5 DEF Held
    <2>2. \A u \in Session : /\ Found("access", u)' => Found("access", u) \/ Held(u)'
                             /\ Found("renewal", u) => Found("renewal", u)'
      BY <1>6, <2>1 DEF Table
    <2>3. \A u \in Session : Past(u) => Past(u)' \/ Held(u)'
      BY <1>1, <1>6, <2>1 DEF Past
    <2> QED
      BY <1>1, <2>1, <2>2, <2>3, StraysLemma DEF Inv
  <1> QED
    BY <1>1, <1>4, <1>5, <1>10, <1>14, <1>15, <1>16, <1>17 DEF Inv, Structure, Storing

\* A thread with nothing to do says nothing of any session.
LEMMA IdleLemma ==
  ASSUME NEW k \in Thread, thread'[k] = Idle
  PROVE  ThreadOK(k)'
  BY TodoDistinct DEF ThreadOK, Idle, Creates, Uses, Ends, Storing, Left

\* A thread reads or deletes what is stored of the session it works on.
LEMMA RemovesLemma ==
  ASSUME Inv, NEW k \in Thread, Uses(k), NEW table \in Table,
         entry' \in {entry, Without(table, thread[k].session)},
         UNCHANGED <<kind, line, known, over, contended>>,
         dismissed \subseteq dismissed', dismissed' \subseteq Made,
         interrupted => interrupted',
         \A j \in Thread \ {k} : thread'[j] = thread[j],
         thread' \in [Thread -> [op: Ops, session: Session \cup {None},
                                 new: Session \cup {None}, found: BOOLEAN,
                                 todo: Seq(StoreCall)] \cup {Idle}],
         \/ /\ thread'[k].op = thread[k].op /\ thread'[k].session = thread[k].session
            /\ thread'[k].new = thread[k].new /\ ~Storing(k)
            /\ thread'[k].todo \in Left(thread[k].op) \ StoringLeft
            /\ Ends(k) /\ thread'[k].todo \in AccessLeft =>
                  entry'["renewal"][thread[k].session] = Absent
            /\ thread'[k].todo = <<>> => entry'["access"][thread[k].session] = Absent
         \/ thread'[k] = Idle /\ interrupted'
  PROVE  Inv'
  <1> DEFINE s == thread[k].session
  <1>1. /\ Structure /\ TypeOK /\ ThreadsOK /\ LinesOK /\ s \in known /\ s \in Session
        /\ thread[k] \in ThreadState
    BY KnownLemma, ThreadLemma DEF Inv, Structure, ThreadsOK, ThreadOK
  <1>2. /\ entry' \in [Table -> [Session -> Stored \cup {Absent}]]
        /\ \A b \in Table, u \in Session : /\ Found(b, u)' => Found(b, u)
                                           /\ Found(b, u) /\ u # s => Found(b, u)'
        /\ \A u \in Session : Found("access", u)' => entry'["access"][u] = entry["access"][u]
    <2>1. entry \in [Table -> [Session -> Stored \cup {Absent}]]
      BY <1>1 DEF TypeOK
    <2>2. CASE entry' = entry
      BY <2>1, <2>2 DEF Found
    <2>3. CASE entry' = [entry EXCEPT ![table][s] = Absent]
      BY <1>1, <2>1, <2>3 DEF Found
    <2> QED
      BY <2>2, <2>3 DEF Without
  <1>3. Made' = Made
    BY DEF Made
  <1>4. TypeOK'
    BY <1>1, <1>2, <1>3 DEF TypeOK, Table
  <1>5. \A u \in known : line'[u] = line[u] /\ u \in Session
                          /\ \A b \in Table : Found(b, u)' => Found(b, u)
    BY <1>1, <1>2, KnownLemma
  <1>6. \A j \in Thread : Creates(j) => thread[j].new \in Session \ known
    BY <1>1 DEF ThreadsOK, ThreadOK
  <1>7. \A j \in Thread : ThreadOK(j)'
    <2>1. \A j \in Thread : Creates(j) /\ Found("renewal", thread[j].new) =>
             entry'["renewal"][thread[j].new] # Absent
      BY <1>1, <1>2, <1>6 DEF Found, Table
    <2>2. \A j \in Thread \ {k} : ThreadOK(j)'
      BY <1>1, <1>5, <1>6, <2>1, StableLemma DEF Found
    <2>3. ASSUME thread'[k] # Idle
          PROVE  ThreadOK(k)'
      <3>1. /\ (Creates(k)' <=> Creates(k)) /\ (Uses(k)' <=> Uses(k)) /\ (Ends(k)' <=> Ends(k))
            /\ ~Storing(k)' /\ ~Storing(k)
        BY <2>3 DEF Creates, Uses, Ends, Storing
      <3>2. /\ Ends(k) /\ thread'[k].todo \in AccessLeft => ~Found("renewal", s)'
            /\ thread'[k].todo = <<>> => ~Found("access", s)'
        BY <2>3 DEF Found
      <3>3. Creates(k) => Found("renewal", thread[k].new)'
        BY <1>1, <2>1, <2>3, <3>1 DEF Found, ThreadsOK, ThreadOK
      <3>4. ThreadOK(k) /\ UNCHANGED <<line, known>> /\ dismissed \subseteq dismissed'
        BY <1>1 DEF ThreadsOK
      <3> QED
        BY <2>3, <3>1, <3>2, <3>3, <3>4 DEF ThreadOK
    <2> QED
      BY <2>2, <2>3, IdleLemma
  <1>8. ThreadsOK'
    <2>1. \A j \in Thread : Creates(j)' => Creates(j) /\ thread'[j].new = thread[j].new
      BY DEF Creates, Idle
    <2>2. \A j \in Thread : thread'[j].new \in {thread[j].new, None}
      BY DEF Idle
    <2> QED
      BY <1>1, <1>6, <1>7, <2>1, <2>2, ThreadLemma DEF ThreadsOK
  <1>9. LinesOK'
    BY <1>1, <1>3 DEF LinesOK
  <1>10. Holding'
    <2>1. \A j \in Thread : thread'[j].op = "refresh" =>
             thread[j].op = "refresh" /\ thread'[j].session = thread[j].session
      BY DEF Idle
    <2> QED
      BY <1>1, <1>5, <2>1, HoldingLemma DEF Inv
  <1>11. StraysComeOfInterruption'
    <2>1. ASSUME ~interrupted'
          PROVE  \A u \in Session : Held(u) \/ u = s => Held(u)'
      BY <2>1 DEF Held
    <2>2. \A u \in Session : /\ Found("access", u)' => Found("access", u)
                             /\ Found("renewal", u) /\ u # s => Found("renewal", u)'
      BY <1>2 DEF Table
    <2>3. \A u \in Session : Found("access", u)' /\ Past(u) => Past(u)'
      BY <1>2 DEF Past
    <2> QED
      BY <2>1, <2>2, <2>3, StraysLemma DEF Inv
  <1> QED
    BY <1>4, <1>8, <1>9, <1>10, <1>11 DEF Inv, Structure

\* A pop is done at once, or has read the entry and deletes it next.
LEMMA PopsLemma ==
  ASSUME Inv, NEW k \in Thread, NEW table \in Table, Pops(k, table)
  PROVE  /\ Inv'
         /\ ~Storing(k) /\ ~Storing(k)'
         /\ \A j \in Thread \ {k} : thread'[j] = thread[j]
  <1> DEFINE s == thread[k].session
             found == Found(table, s)
             deletes == kind = "firestore" \/ (kind = "file" /\ found)
             rest == IF table = "renewal"
                     THEN IF deletes THEN DeleteRenewal ELSE PopAccess
                     ELSE IF deletes THEN DeleteAccess ELSE <<>>
  <1>1. /\ Structure /\ TypeOK /\ ThreadOK(k) /\ thread[k] \in ThreadState /\ s \in Session
        /\ Does(k, "pop", table) /\ Uses(k) /\ thread[k] # Idle /\ ~Storing(k)
        /\ UNCHANGED <<kind, line, dismissed, known, over, contended, interrupted>>
        /\ entry' = IF kind = "memory" THEN Without(table, s) ELSE entry
    BY DoesLemma, ThreadLemma, KnownLemma
    DEF Inv, Structure, ThreadsOK, ThreadOK, Pops, Table, Uses, Ends, Idle
  <1>2. thread' = [thread EXCEPT ![k].todo = rest, ![k].found = found]
    <2>1. CASE table = "renewal"
      BY <1>1, <2>1, DoesLemma, TodoTails, TodoJoins DEF Pops
    <2>2. CASE table = "access"
      BY <1>1, <2>2, DoesLemma, TodoTails, TodoJoins DEF Pops
    <2> QED
      BY <2>1, <2>2 DEF Table
  <1>3. rest \in Seq(StoreCall) /\ rest \in Left(thread[k].op) /\ rest \notin StoringLeft
    <2>1. rest \in DeletingLeft /\ (table = "access" => rest \in AccessLeft)
      BY DEF Table, DeletingLeft, AccessLeft
    <2>2. DeletingLeft \subseteq Seq(StoreCall)
      BY TodoTypes
    <2>3. table = "renewal" => Ends(k)
      BY <1>1, DoesLemma
    <2>4. AccessLeft \subseteq DeletingLeft
      BY DEF DeletingLeft
    <2> HIDE DEF rest
    <2> QED
      BY <1>1, <2>1, <2>2, <2>3, <2>4, TodoDistinct DEF Table, Left, Ends, Uses
  <1>4. /\ thread'[k].op = thread[k].op /\ thread'[k].session = s
        /\ thread'[k].new = thread[k].new /\ thread'[k].todo = rest
        /\ \A j \in Thread \ {k} : thread'[j] = thread[j]
        /\ thread' \in [Thread -> [op: Ops, session: Session \cup {None},
                                    new: Session \cup {None}, found: BOOLEAN,
                                    todo: Seq(StoreCall)] \cup {Idle}]
    <2> HIDE DEF rest
    <2> QED
      BY <1>1, <1>2, <1>3, GoesOnLemma DEF Found
  <1>5. /\ entry \in [Table -> [Session -> Stored \cup {Absent}]]
        /\ kind \in {"memory", "file", "firestore"}
    BY <1>1 DEF TypeOK
  <1>6. ~deletes => entry'[table][s] = Absent
    BY <1>1, <1>5 DEF Without, Found
  <1>7. /\ Ends(k) /\ rest \in AccessLeft => entry'["renewal"][s] = Absent
        /\ rest = <<>> => entry'["access"][s] = Absent
    <2>1. CASE table = "renewal"
      <3>1. rest \in AccessLeft => rest = PopAccess /\ ~deletes
        BY <2>1, TodoDistinct
      <3> QED
        BY <1>6, <2>1, <3>1, TodoDistinct DEF AccessLeft
    <2>2. CASE table = "access"
      <3>1. Ends(k) => entry["renewal"][s] = Absent
        BY <1>1, <2>2, DoesLemma DEF ThreadOK, Found
      <3>2. Ends(k) => entry'["renewal"][s] = Absent
        BY <1>1, <1>5, <2>2, <3>1 DEF Without, Table
      <3>3. rest = <<>> => ~deletes
        BY <2>2, TodoDistinct
      <3> QED
        BY <1>6, <2>2, <3>2, <3>3
    <2> QED
      BY <2>1, <2>2 DEF Table
  <1> HIDE DEF rest
  <1>8. dismissed \subseteq Made
    BY <1>1 DEF TypeOK
  <1> QED
    BY <1>1, <1>3, <1>4, <1>7, <1>8, RemovesLemma DEF Storing

\* Lines that are lost have been made.
LEMMA LostLemma ==
  ASSUME Structure, NEW threads
  PROVE  LostWith(threads) \subseteq Made
  <1>1. Usable \subseteq Made /\ known \subseteq Made
    BY DEF Structure, TypeOK, Usable, Made
  <1>2. \A s \in Made : line[s] \in Made
    BY <1>1 DEF Structure, LinesOK
  <1> QED
    BY <1>1, <1>2 DEF LostWith

\* The second half of a pop; in the file it fails when the entry is gone.
LEMMA DeletesLemma ==
  ASSUME Inv, NEW k \in Thread, NEW table \in Table, Deletes(k, table)
  PROVE  /\ Inv'
         /\ ~Storing(k) /\ ~Storing(k)'
         /\ \A j \in Thread \ {k} : thread'[j] = thread[j]
  <1> DEFINE s == thread[k].session
             fails == kind = "file" /\ ~Found(table, s)
             rest == Tail(thread[k].todo)
  <1>1. /\ Structure /\ TypeOK /\ ThreadOK(k) /\ thread[k] \in ThreadState /\ s \in Session
        /\ Does(k, "del", table) /\ Uses(k) /\ thread[k] # Idle /\ ~Storing(k)
        /\ UNCHANGED <<kind, line, known, over, contended>>
        /\ entry' = Without(table, s) /\ interrupted' = (interrupted \/ fails)
        /\ dismissed' = IF fails THEN dismissed \cup LostWith({k}) ELSE dismissed
        /\ entry \in [Table -> [Session -> Stored \cup {Absent}]] /\ dismissed \subseteq Made
    BY DoesLemma, ThreadLemma, KnownLemma
    DEF Inv, Structure, TypeOK, ThreadsOK, ThreadOK, Deletes, Table, Uses, Ends, Idle
  <1>2. entry'[table][s] = Absent
    BY <1>1 DEF Without
  <1>3. dismissed \subseteq dismissed' /\ dismissed' \subseteq Made
    BY <1>1, LostLemma
  <1>4. CASE fails
    <2>1. thread' = [thread EXCEPT ![k] = Idle] /\ interrupted'
      BY <1>1, <1>4 DEF Deletes
    <2>2. Idle \in ThreadState
      BY DEF Idle, ThreadState
    <2>3. /\ thread'[k] = Idle
          /\ \A j \in Thread \ {k} : thread'[j] = thread[j]
          /\ thread' \in [Thread -> [op: Ops, session: Session \cup {None},
                                     new: Session \cup {None}, found: BOOLEAN,
                                     todo: Seq(StoreCall)] \cup {Idle}]
      BY <1>1, <2>1, <2>2, MovesLemma
    <2>4. Idle.todo \notin StoringLeft
      BY TodoDistinct DEF Idle
    <2> QED
      BY <1>1, <1>3, <2>1, <2>3, <2>4, RemovesLemma DEF Storing
  <1>5. CASE ~fails
    <2>1. thread' = [thread EXCEPT ![k].todo = rest]
      <3>1. thread' = [thread EXCEPT ![k] = [thread[k] EXCEPT !.todo = rest]]
        BY <1>5 DEF Deletes
      <3> QED
        BY <3>1
    <2>2. /\ rest \in {PopAccess, <<>>}
          /\ table = "renewal" => Ends(k) /\ rest = PopAccess
          /\ table = "access" => rest = <<>> /\ thread[k].todo \in AccessLeft
      BY <1>1, DoesLemma DEF Table
    <2>3. rest \in Seq(StoreCall) /\ rest \in Left(thread[k].op) /\ rest \notin StoringLeft
      <3>1. rest \in AccessLeft /\ AccessLeft \subseteq DeletingLeft
        BY <2>2 DEF AccessLeft, DeletingLeft
      <3> HIDE DEF rest
      <3> QED
        BY <1>1, <3>1, TodoTypes, TodoDistinct DEF Left, Uses
    <2>4. /\ thread'[k].op = thread[k].op /\ thread'[k].session = s
          /\ thread'[k].new = thread[k].new /\ thread'[k].todo = rest
          /\ \A j \in Thread \ {k} : thread'[j] = thread[j]
          /\ thread' \in [Thread -> [op: Ops, session: Session \cup {None},
                                      new: Session \cup {None}, found: BOOLEAN,
                                      todo: Seq(StoreCall)] \cup {Idle}]
      BY <1>1, <2>1, <2>3, GoesOnLemma
    <2>5. /\ Ends(k) => entry'["renewal"][s] = Absent
          /\ rest = <<>> => entry'["access"][s] = Absent
      <3>1. CASE table = "renewal"
        BY <1>2, <2>2, <3>1, TodoDistinct
      <3>2. CASE table = "access"
        <4>1. Ends(k) => entry["renewal"][s] = Absent
          BY <1>1, <2>2, <3>2 DEF ThreadOK, Found
        <4> QED
          BY <1>1, <1>2, <3>2, <4>1 DEF Without, Table
      <3> QED
        BY <3>1, <3>2 DEF Table
    <2> HIDE DEF rest
    <2> QED
      BY <1>1, <1>3, <2>3, <2>4, <2>5, RemovesLemma DEF Storing
  <1> QED
    BY <1>4, <1>5

----------------------------------------------------------------------------
(* Answers, time and restarts.                                             *)

\* A client gets its answer: the session it is given is stored under both tokens,
\* and one it is told is over under none.
LEMMA AnswersLemma ==
  ASSUME Inv, NEW k \in Thread, Answers(k)
  PROVE  Inv'
  <1> DEFINE t == thread[k]
  <1>1. /\ Structure /\ TypeOK /\ ThreadsOK /\ LinesOK /\ Holding /\ ThreadOK(k)
        /\ t \in ThreadState /\ t # Idle /\ t.todo = <<>> /\ ~Storing(k)
        /\ thread' = [thread EXCEPT ![k] = Idle]
        /\ UNCHANGED <<kind, entry, line, dismissed, contended, interrupted>>
    BY TodoDistinct, ThreadLemma DEF Inv, Structure, ThreadsOK, Answers, Storing
  <1>2. /\ known' = IF Creates(k) THEN known \cup {t.new} ELSE known
        /\ over \subseteq over'
        /\ over' \subseteq IF Ends(k) THEN over \cup {t.session} ELSE over
    BY DEF Answers, Creates, Ends
  <1>3. /\ thread'[k] = Idle
        /\ \A j \in Thread \ {k} : thread'[j] = thread[j]
        /\ thread' \in [Thread -> [op: Ops, session: Session \cup {None},
                                   new: Session \cup {None}, found: BOOLEAN,
                                   todo: Seq(StoreCall)] \cup {Idle}]
    <2>1. Idle \in ThreadState
      BY DEF Idle, ThreadState
    <2> QED
      BY <1>1, <2>1, MovesLemma
  <1>4. Creates(k) => /\ t.new \in Session \ known /\ Found("renewal", t.new)
                      /\ line[t.new] = IF t.op = "login" THEN t.new ELSE line[t.session]
    BY <1>1 DEF ThreadOK
  <1>5. /\ Uses(k) => t.session \in known /\ ~Found("access", t.session)
        /\ Ends(k) => t.session \in known /\ ~Found("renewal", t.session)
                      /\ ~Found("access", t.session)
    BY <1>1 DEF ThreadOK, Uses, Ends, AccessLeft
  <1>6. known \subseteq Session /\ known \subseteq Made
    BY <1>1 DEF TypeOK, Made
  <1>7. /\ \A b \in Table : \A u : Found(b, u)' = Found(b, u)
        /\ Made' = Made /\ known \subseteq known'
    BY <1>1, <1>2 DEF Found, Made
  <1>8. Creates(k) => t.new \in Made
    BY <1>1, <1>4 DEF TypeOK
  <1>9. TypeOK'
    <2>1. known' \subseteq Made /\ over' \subseteq known'
      BY <1>1, <1>2, <1>5, <1>6, <1>8 DEF TypeOK
    <2> QED
      BY <1>1, <1>3, <1>7, <2>1 DEF TypeOK, Table
  <1>10. ThreadsOK'
    <2>1. \A j \in Thread : Creates(j) => thread[j].new \in Session \ known
      BY <1>1 DEF ThreadsOK, ThreadOK
    <2>2. \A j \in Thread \ {k} : Creates(j) => thread[j].new \notin known'
      BY <1>1, <1>2, <2>1 DEF ThreadsOK
    <2>3. \A j \in Thread \ {k} : ThreadOK(j)'
      BY <1>1, <1>3, <1>7, <2>2, StableLemma DEF Found
    <2>4. ThreadOK(k)'
      BY <1>3, IdleLemma
    <2>5. \A j \in Thread : Creates(j)' => Creates(j) /\ j # k
      BY <1>3 DEF Creates, Idle
    <2>6. Idle.new = None
      BY DEF Idle
    <2> QED
      BY <1>1, <1>3, <2>1, <2>3, <2>4, <2>5, <2>6, ThreadLemma DEF ThreadsOK
  <1>11. LinesOK'
    BY <1>1, <1>7 DEF LinesOK
  <1>12. GoneForGood'
    BY <1>1, <1>2, <1>5, <1>7 DEF Holding, GoneForGood, Table
  <1>13. \A j \in Thread : Exchanges(j)' =>
            Exchanges(j) /\ j # k /\ thread'[j].session = thread[j].session
    BY <1>1, <1>3 DEF Exchanges, Idle
  <1>14. \A j \in Thread : Exchanges(j) => thread[j].session \in known
    BY <1>1 DEF Exchanges, ThreadsOK, ThreadOK, Uses
  <1>15. ASSUME Creates(k), t.op = "login", NEW u \in known
         PROVE  line[u] # line[t.new]
    BY <1>1, <1>4, <1>6, <1>15 DEF LinesOK
  <1>16. ASSUME Creates(k), t.op # "login"
         PROVE  /\ t.op = "refresh" /\ line[t.new] = line[t.session] /\ Ends(k) /\ Uses(k)
                /\ line[t.new] \notin contended => Exchanges(k)
    BY <1>4, <1>16 DEF Creates, Exchanges, Ends, Uses
  <1>17. OneHolder'
    <2>1. ASSUME Creates(k), NEW u \in known, Found("renewal", u), line[u] = line[t.new],
                 line[u] \notin contended
          PROVE  FALSE
      <3>1. t.op # "login"
        BY <1>15, <2>1
      <3>2. u = t.session
        BY <1>1, <1>16, <2>1, <3>1 DEF Holding, OneExchanged
      <3> QED
        BY <1>5, <1>16, <2>1, <3>1, <3>2
    <2>2. \A u, v \in known : u # v /\ line[u] = line[v] /\ line[u] \notin contended
                              => ~(Found("renewal", u) /\ Found("renewal", v))
      BY <1>1 DEF Holding, OneHolder
    <2> QED
      BY <1>1, <1>2, <1>7, <2>1, <2>2, "renewal" \in Table DEF OneHolder, Table
  <1>18. OneExchanged'
    <2>1. ASSUME Creates(k), NEW j \in Thread, Exchanges(j), j # k
          PROVE  line[thread[j].session] # line[t.new]
      <3>1. CASE t.op = "login"
        BY <1>14, <1>15, <2>1, <3>1
      <3>2. CASE t.op # "login"
        BY <1>1, <1>16, <2>1, <3>2 DEF Holding, OneExchanges, Exchanges
      <3> QED
        BY <3>1, <3>2
    <2> SUFFICES ASSUME NEW j \in Thread, Exchanges(j)', NEW u \in known',
                        line'[u] = line'[thread'[j].session], Found("renewal", u)'
                 PROVE  u = thread'[j].session
      BY DEF OneExchanged
    <2>2. Exchanges(j) /\ j # k /\ thread'[j].session = thread[j].session
      BY <1>13
    <2>3. u \in known /\ Found("renewal", u)
      BY <1>1, <1>2, <1>7, <2>1, <2>2, "renewal" \in Table DEF Table
    <2> QED
      BY <1>1, <2>2, <2>3 DEF Holding, OneExchanged
  <1>19. OneExchanges'
    BY <1>1, <1>13 DEF Holding, OneExchanges
  <1>20. StraysComeOfInterruption'
    <2>1. \A u \in Session : Held(u) => Held(u)' \/ u \in {t.session, t.new}
      BY <1>3 DEF Held
    <2>2. \A u \in Session : u = t.session => Uses(k)
      BY <1>1, ThreadLemma DEF ThreadOK
    <2>3. \A u \in Session : u = t.new => Creates(k)
      BY <1>1, ThreadLemma DEF ThreadOK
    <2>4. \A u \in Session : Found("access", u)' = Found("access", u)
                             /\ Found("renewal", u)' = Found("renewal", u)
      BY <1>7 DEF Table
    <2>5. Creates(k) => t.new \in known'
      BY <1>2
    <2>6. \A u \in Session : Held(u) /\ Found("access", u) =>
             Held(u)' \/ (u \in known' /\ Found("renewal", u)')
      BY <1>4, <1>5, <2>1, <2>2, <2>3, <2>4, <2>5
    <2>7. \A u \in Session : Past(u) => Past(u)'
      BY <1>1 DEF Past
    <2> QED
      BY <1>1, <1>7, <2>4, <2>6, <2>7, StraysLemma DEF Inv
  <1> QED
    BY <1>9, <1>10, <1>11, <1>12, <1>17, <1>18, <1>19, <1>20 DEF Inv, Structure, Holding

\* Neither time nor a restart brings an entry back, and time removes none.
LEMMA TickEntries ==
  ASSUME TypeOK, Tick
  PROVE  /\ entry' \in [Table -> [Session -> Stored \cup {Absent}]]
         /\ \A table \in Table, s \in Session : Found(table, s)' <=> Found(table, s)
         /\ \A table \in Table, s \in Session : entry[table][s] <= 0 => entry'[table][s] <= 0
  <1>1. entry \in [Table -> [Session -> Stored \cup {Absent}]]
    BY DEF TypeOK
  <1>2. entry' = [table \in Table |-> [s \in Session |->
                    IF Found(table, s)
                    THEN IF entry[table][s] = Outlived \/ entry[table][s] = 0
                         THEN entry[table][s] ELSE entry[table][s] - 1
                    ELSE Absent]]
    BY DEF Tick, Each
  <1>3. \A e \in Stored : e # Outlived /\ e # 0 => e - 1 \in Stored /\ e - 1 # Absent
    BY SessionAssumption DEF Stored, Absent, Outlived
  <1>4. \A e \in Stored : e # Absent
    BY SessionAssumption DEF Stored, Absent, Outlived
  <1>5. /\ \A e \in Stored : e <= 0 => e = Outlived \/ e = 0
        /\ Absent <= 0
    BY SessionAssumption DEF Stored, Absent, Outlived
  <1> HIDE DEF Stored, Absent, Outlived
  <1>6. ASSUME NEW table \in Table, NEW s \in Session, entry[table][s] <= 0
        PROVE  entry'[table][s] <= 0
    <2>1. CASE Found(table, s)
      <3>1. entry[table][s] \in Stored
        BY <1>1, <2>1 DEF Found
      <3> QED
        BY <1>2, <1>5, <1>6, <2>1, <3>1
    <2>2. CASE ~Found(table, s)
      BY <1>2, <1>5, <2>2
    <2> QED
      BY <2>1, <2>2
  <1> QED
    BY <1>1, <1>2, <1>3, <1>4, <1>6 DEF Found

LEMMA RestartEntries ==
  ASSUME TypeOK, Restart
  PROVE  /\ entry' \in [Table -> [Session -> Stored \cup {Absent}]]
         /\ \A table \in Table, s \in Session : Found(table, s)' => Found(table, s)
         /\ kind = "memory" =>
               \A table \in Table, s \in Session : ~Found(table, s)'
         /\ kind # "memory" =>
               \A table \in Table, s \in Session :
                  /\ Found(table, s)' <=> Found(table, s)
                  /\ entry[table][s] <= 0 => entry'[table][s] <= 0
  <1>1. entry \in [Table -> [Session -> Stored \cup {Absent}]]
    BY DEF TypeOK
  <1>2. CASE kind = "memory"
    BY <1>1, <1>2 DEF Restart, Found
  <1>3. CASE kind # "memory"
    <2>1. entry' = [table \in Table |-> [s \in Session |->
                      IF Found(table, s)
                      THEN IF entry[table][s] = 0 THEN Outlived ELSE entry[table][s]
                      ELSE Absent]]
      BY <1>3 DEF Restart, Each
    <2>2. /\ \A e \in Stored : e # Absent
          /\ Outlived \in Stored /\ Outlived <= 0 /\ Absent <= 0
      BY SessionAssumption DEF Stored, Absent, Outlived
    <2> HIDE DEF Stored, Absent, Outlived
    <2> QED
      BY <1>1, <1>3, <2>1, <2>2 DEF Found
  <1> QED
    BY <1>2, <1>3

\* Time changes what the entries hold, not which there are.
LEMMA TickLemma ==
  ASSUME Inv, Tick
  PROVE  Inv'
  <1>1. /\ Structure /\ TypeOK /\ ThreadsOK /\ LinesOK
        /\ UNCHANGED <<kind, thread, line, dismissed, known, over, contended, interrupted>>
    BY DEF Inv, Structure, Tick
  <1>2. /\ entry' \in [Table -> [Session -> Stored \cup {Absent}]]
        /\ \A table \in Table, s \in Session : Found(table, s)' <=> Found(table, s)
        /\ \A table \in Table, s \in Session : entry[table][s] <= 0 => entry'[table][s] <= 0
    BY <1>1, TickEntries
  <1>3. Made' = Made
    BY <1>1 DEF Made
  <1>4. TypeOK'
    BY <1>1, <1>2, <1>3 DEF TypeOK, Table
  <1>5. \A s \in known : s \in Session
    BY <1>1, KnownLemma
  <1>6. \A k \in Thread : Creates(k) => thread[k].new \in Session \ known
    BY <1>1 DEF ThreadsOK, ThreadOK
  <1>7. \A k \in Thread : ThreadOK(k)'
    <2>1. \A k \in Thread : Creates(k) /\ Found("renewal", thread[k].new) =>
             Found("renewal", thread[k].new)'
      BY <1>1, <1>2, <1>6, "renewal" \in Table DEF Table
    <2> QED
      BY <1>1, <1>2, <1>5, <1>6, <2>1, StableLemma
  <1>8. ThreadsOK'
    BY <1>1, <1>7 DEF ThreadsOK, Creates
  <1>9. LinesOK'
    BY <1>1, <1>3 DEF LinesOK
  <1>10. Holding'
    BY <1>1, <1>2, <1>5, HoldingLemma DEF Inv
  <1>11. StraysComeOfInterruption'
    BY <1>1, <1>2 DEF Inv, StraysComeOfInterruption, Table
  <1> QED
    BY <1>4, <1>8, <1>9, <1>10, <1>11 DEF Inv, Structure

\* After a restart no thread works on anything; the store in memory is empty.
LEMMA RestartLemma ==
  ASSUME Inv, Restart
  PROVE  Inv'
  <1>1. /\ Structure /\ TypeOK /\ ThreadsOK /\ LinesOK
        /\ UNCHANGED <<kind, line, known, over, contended>>
        /\ thread' = [k \in Thread |-> Idle]
        /\ interrupted' = (interrupted \/ \E k \in Thread : thread[k] # Idle)
        /\ dismissed \subseteq dismissed'
        /\ dismissed' \subseteq dismissed \cup {line[s] : s \in Made} \cup LostWith(Thread)
    BY DEF Inv, Structure, Restart
  <1>2. /\ entry' \in [Table -> [Session -> Stored \cup {Absent}]]
        /\ \A table \in Table, s \in Session : Found(table, s)' => Found(table, s)
        /\ kind = "memory" => \A table \in Table, s \in Session : ~Found(table, s)'
        /\ kind # "memory" =>
              \A table \in Table, s \in Session :
                 /\ Found(table, s)' <=> Found(table, s)
                 /\ entry[table][s] <= 0 => entry'[table][s] <= 0
    BY <1>1, RestartEntries DEF Inv
  <1>3. Made' = Made /\ known \subseteq Session /\ known \subseteq Made
    BY <1>1 DEF Made, TypeOK
  <1>4. \A s \in Made : line[s] \in Made
    BY <1>1, <1>3 DEF LinesOK
  <1>5. TypeOK'
    BY <1>1, <1>2, <1>3, <1>4, LostLemma DEF TypeOK, Table
  <1>6. ThreadsOK'
    <2>1. \A k \in Thread : thread'[k] = Idle
      BY <1>1
    <2>2. \A k \in Thread : ThreadOK(k)'
      BY <2>1, IdleLemma
    <2>3. \A k \in Thread : ~Creates(k)'
      BY <2>1 DEF Creates, Idle
    <2> QED
      BY <2>2, <2>3 DEF ThreadsOK
  <1>7. LinesOK'
    BY <1>1, <1>3 DEF LinesOK
  <1>8. Holding'
    <2>1. \A k \in Thread : thread'[k].op # "refresh"
      BY <1>1 DEF Idle
    <2> QED
      BY <1>1, <1>2, <1>3, <2>1, HoldingLemma DEF Inv
  <1>9. StraysComeOfInterruption'
    <2> SUFFICES ASSUME ~interrupted', NEW s \in Session, Found("access", s)'
                 PROVE  (s \in known' /\ Found("renewal", s)') \/ Past(s)'
      BY DEF StraysComeOfInterruption, Past
    <2>1. ~interrupted /\ \A k \in Thread : thread[k] = Idle
      BY <1>1
    <2>2. \A k \in Thread : s \notin {thread[k].session, thread[k].new}
      BY <1>1, <2>1, ThreadLemma
    <2>3. kind # "memory" /\ Found("access", s)
      BY <1>2, "access" \in Table DEF Table
    <2>4. (s \in known /\ Found("renewal", s)) \/ Past(s)
      BY <2>1, <2>2, <2>3 DEF Inv, StraysComeOfInterruption, Past
    <2>5. Past(s) => Past(s)'
      BY <1>1, <1>2, <2>3, "access" \in Table DEF Past, Table
    <2> QED
      BY <1>1, <1>2, <2>3, <2>4, <2>5, "renewal" \in Table DEF Table
  <1> QED
    BY <1>5, <1>6, <1>7, <1>8, <1>9 DEF Inv, Structure

\* Firestore drops an entry no thread is making.
LEMMA PurgesLemma ==
  ASSUME Inv, NEW table \in Table, NEW s \in Session, Purges(table, s)
  PROVE  Inv'
  <1>1. /\ Structure /\ TypeOK /\ ThreadsOK /\ LinesOK
        /\ Found(table, s) /\ Past(s) /\ \A k \in Thread : thread[k].new # s
        /\ entry' = [entry EXCEPT ![table][s] = Absent]
        /\ UNCHANGED <<kind, thread, line, known, over, contended, interrupted>>
        /\ dismissed \subseteq dismissed'
        /\ dismissed' \subseteq dismissed \cup (IF table = "renewal" THEN {line[s]} ELSE {})
    BY DEF Inv, Structure, Purges, Past, Without
  <1>2. /\ entry' \in [Table -> [Session -> Stored \cup {Absent}]]
        /\ \A b \in Table, u \in Session : /\ Found(b, u)' => Found(b, u)
                                           /\ Found(b, u) /\ u # s => Found(b, u)'
        /\ \A u \in Session : Found("access", u)' => entry'["access"][u] = entry["access"][u]
        /\ table # "renewal" => \A u \in Session : Found("renewal", u)' <=> Found("renewal", u)
        /\ table = "renewal" => entry'["access"] = entry["access"]
    <2>1. entry \in [Table -> [Session -> Stored \cup {Absent}]]
      BY <1>1 DEF TypeOK
    <2> QED
      BY <1>1, <2>1 DEF Found, Table
  <1>3. Made' = Made
    BY <1>1 DEF Made
  <1>4. dismissed' \subseteq Made
    <2>1. table = "renewal" => line[s] \in Made
      <3>1. table = "renewal" => s \in Made
        BY <1>1 DEF TypeOK
      <3> QED
        BY <1>1, <3>1 DEF LinesOK, TypeOK
    <2> QED
      BY <1>1, <2>1 DEF TypeOK
  <1>5. TypeOK'
    BY <1>1, <1>2, <1>3, <1>4 DEF TypeOK, Table
  <1>6. \A u \in known : u \in Session
    BY <1>1, KnownLemma
  <1>7. \A k \in Thread : Creates(k) => thread[k].new \in Session \ known
    BY <1>1 DEF ThreadsOK, ThreadOK
  <1>8. \A k \in Thread : ThreadOK(k)'
    <2>1. \A k \in Thread : Creates(k) /\ Found("renewal", thread[k].new) =>
             Found("renewal", thread[k].new)'
      BY <1>1, <1>2, <1>7, "renewal" \in Table DEF Table
    <2> QED
      BY <1>1, <1>2, <1>6, <1>7, <2>1, StableLemma
  <1>9. ThreadsOK' /\ LinesOK'
    BY <1>1, <1>3, <1>8 DEF ThreadsOK, Creates, LinesOK
  <1>10. Holding'
    BY <1>1, <1>2, <1>6, HoldingLemma DEF Inv
  <1>11. StraysComeOfInterruption'
    <2>1. \A u \in Session : Held(u) => Held(u)'
      BY <1>1 DEF Held
    <2>2. \A u \in Session : Found("access", u)' => /\ Found("access", u)
                                                    /\ Past(u) => Past(u)'
      BY <1>1, <1>2 DEF Past, Table
    <2>3. \A u \in Session : Found("renewal", u) => Found("renewal", u)' \/ Past(u)'
      <3>1. table = "renewal" => Past(s)'
        BY <1>1, <1>2 DEF Past
      <3> QED
        BY <1>2, <3>1 DEF Table
    <2> QED
      BY <1>1, <2>1, <2>2, <2>3, StraysLemma DEF Inv
  <1> QED
    BY <1>5, <1>9, <1>10, <1>11 DEF Inv, Structure

\* Nothing is stored at first.
LEMMA InitLemma == Init => Inv
  <1> SUFFICES ASSUME Init PROVE Inv
    OBVIOUS
  <1>1. /\ \A k \in Thread : thread[k] = Idle
        /\ \A table \in Table, s \in Session : ~Found(table, s)
        /\ Made = {} /\ known = {} /\ over = {}
    BY DEF Init, Found, Made
  <1>2. TypeOK
    BY <1>1, SessionAssumption DEF Init, TypeOK, Table, Made
  <1>3. ThreadsOK
    BY <1>1, TodoDistinct DEF ThreadsOK, ThreadOK, Idle, Creates, Uses, Ends, Storing, Left
  <1>4. Holding
    BY <1>1 DEF Holding, GoneForGood, OneHolder, OneExchanged, OneExchanges, Exchanges, Idle
  <1>5. StraysComeOfInterruption
    BY <1>1, "access" \in Table DEF StraysComeOfInterruption, Table
  <1> QED
    BY <1>1, <1>2, <1>3, <1>4, <1>5 DEF Inv, Structure, LinesOK

\* A step of something else changes nothing.
LEMMA StutterLemma ==
  ASSUME Inv, UNCHANGED lvars
  PROVE  Inv'
  BY DEF Inv, Structure, TypeOK, ThreadsOK, LinesOK, Holding, lvars, ThreadOK, Creates, Uses, Ends,
         Storing, Found, Made, GoneForGood, OneHolder, OneExchanged, OneExchanges, Exchanges,
         StraysComeOfInterruption

\* Every step keeps the invariant.
LEMMA StepLemma ==
  ASSUME Inv, [Next]_lvars
  PROVE  Inv'
  BY StutterLemma, LoginLemma, ValidateExpiredLemma, EndingLemma, RefreshLemma, StoresLemma,
     PopsLemma, DeletesLemma, AnswersLemma, PurgesLemma, TickLemma, RestartLemma DEF Next

----------------------------------------------------------------------------
(* Theorems.                                                               *)

\* The inductive invariant holds: what each thread has left to do agrees with what
\* is stored, through every crash and restart.
THEOREM Invariance == Spec => []Inv
  BY InitLemma, StepLemma, PTL DEF Spec

\* The tables, the threads and the lines have their types; a refresh token is only
\* stored for a session that has a line (sessions.py, session_management.py).
THEOREM SessionTypes == Spec => []TypeOK
  <1>1. Inv => TypeOK
    BY DEF Inv, Structure
  <1> QED
    BY <1>1, Invariance, PTL

\* A client told that a session is over finds neither token stored again, whatever
\* other threads do with that session (delete_session, close_session).
THEOREM OverIsForGood == Spec => []GoneForGood
  <1>1. Inv => GoneForGood
    BY DEF Inv, Holding
  <1> QED
    BY <1>1, Invariance, PTL

\* Clients hold one renewable session of a line between them, unless two threads
\* exchanged the same one at the same time (refresh_session).
THEOREM OneHolderOnly == Spec => []OneHolder
  <1>1. Inv => OneHolder
    BY DEF Inv, Holding
  <1> QED
    BY <1>1, Invariance, PTL

\* An access token without its refresh token, or one no client holds, comes only of
\* an operation that ended half-way: a restart, or a KeyError of the shelve file; or
\* Firestore has dropped the other token of a session past its time.
THEOREM StraysOnlyOfInterruption == Spec => []StraysComeOfInterruption
  <1>1. Inv => StraysComeOfInterruption
    BY DEF Inv
  <1> QED
    BY <1>1, Invariance, PTL

----------------------------------------------------------------------------
(* The refinement of SessionService.                                       *)

\* What the refinement gives for the state of the service.
AcceptedLines ==
    [k \in Thread |->
        IF thread[k].op = "refresh" /\ \E i \in DOMAIN thread[k].todo :
                                          thread[k].todo[i] = <<"store", "renewal">>
        THEN line[thread[k].session] ELSE None]
Due == [k \in Thread |-> IF thread[k].new \in Made THEN thread[k].new ELSE None]

\* The line whose renewal thread k accepted and has yet to store, and the session it
\* has stored and has yet to answer with.
Renews(k) == IF thread[k].op = "refresh" /\ Storing(k) THEN line[thread[k].session] ELSE None
Gives(k) == IF thread[k].new \in Made THEN thread[k].new ELSE None

\* Some client was given the session, or a thread makes it for one.
Named(s) == s \in known \/ \E k \in Thread : thread[k].new = s

\* What is left to do of an operation is one of the lists above.
LEMMA TodoLemma ==
  ASSUME NEW op, NEW todo \in Left(op)
  PROVE  todo \in {<<>>} \cup StoringLeft \cup DeletingLeft
  BY DEF Left, StoringLeft, DeletingLeft, AccessLeft

\* A thread has accepted a renewal until it has stored the refresh token.
LEMMA AcceptedLemma ==
  ASSUME Structure, Structure'
  PROVE  /\ AcceptedLines = [k \in Thread |-> Renews(k)]
         /\ AcceptedLines' = [k \in Thread |-> Renews(k)']
  <1>1. \A k \in Thread :
           (\E i \in DOMAIN thread[k].todo : thread[k].todo[i] = <<"store", "renewal">>)
           <=> Storing(k)
    BY TodoLemma, TodoStores DEF Structure, ThreadsOK, ThreadOK, Storing
  <1>2. \A k \in Thread :
           (\E i \in DOMAIN thread'[k].todo : thread'[k].todo[i] = <<"store", "renewal">>)
           <=> Storing(k)'
    BY TodoLemma, TodoStores DEF Structure, ThreadsOK, ThreadOK, Storing
  <1> QED
    BY <1>1, <1>2 DEF AcceptedLines, Renews

\* A step of thread k changes at most what that thread has accepted and is to give.
LEMMA AcceptedStepLemma ==
  ASSUME Inv, Inv', NEW k \in Thread, \A j \in Thread \ {k} : thread'[j] = thread[j],
         \A s \in Session : s # thread[k].new => line'[s] = line[s]
  PROVE  /\ AcceptedLines[k] = Renews(k) /\ Due[k] = Gives(k)
         /\ AcceptedLines' = [AcceptedLines EXCEPT ![k] = Renews(k)']
         /\ Due' = [Due EXCEPT ![k] = Gives(k)']
         /\ Renews(k)' = Renews(k) => AcceptedLines' = AcceptedLines
         /\ Gives(k)' = Gives(k) => Due' = Due
  <1>1. /\ \A j \in Thread : thread[j].op = "refresh" =>
              thread[j].session \in known /\ thread[j].session \in Session
        /\ Creates(k) => thread[k].new \notin known
        /\ ~Creates(k) => thread[k].new \notin Session
        /\ None \notin Session
    BY KnownLemma, SessionAssumption DEF Inv, Structure, ThreadsOK, ThreadOK, Uses, None
  <1>2. \A j \in Thread \ {k} : Renews(j)' = Renews(j)
    BY <1>1, KnownLemma DEF Inv, Renews, Storing
  <1>3. \A j \in Thread \ {k} : Gives(j)' = Gives(j)
    <2> SUFFICES ASSUME NEW j \in Thread \ {k} PROVE Gives(j)' = Gives(j)
      OBVIOUS
    <2>1. thread[j].new \in Session => thread[j].new # thread[k].new
      BY <1>1 DEF Inv, Structure, ThreadsOK, ThreadOK
    <2>2. thread[j].new \in Made' <=> thread[j].new \in Made
      BY <2>1 DEF Made
    <2> QED
      BY <2>2 DEF Gives
  <1>4. AcceptedLines = [j \in Thread |-> Renews(j)] /\ AcceptedLines' = [j \in Thread |-> Renews(j)']
    BY AcceptedLemma DEF Inv
  <1>5. Due = [j \in Thread |-> Gives(j)] /\ Due' = [j \in Thread |-> Gives(j)']
    BY DEF Due, Gives
  <1> HIDE DEF Renews, Gives, AcceptedLines, Due
  <1>6. /\ AcceptedLines[k] = Renews(k) /\ AcceptedLines' = [AcceptedLines EXCEPT ![k] = Renews(k)']
        /\ Renews(k)' = Renews(k) => AcceptedLines' = AcceptedLines
    BY <1>2, <1>4
  <1>7. /\ Due[k] = Gives(k) /\ Due' = [Due EXCEPT ![k] = Gives(k)']
        /\ Gives(k)' = Gives(k) => Due' = Due
    BY <1>3, <1>5
  <1> QED
    BY <1>6, <1>7

\* The sessions clients can use are those stored for renewal that are named so.
LEMMA UsableLemma ==
  /\ Usable = {s \in Session : Found("renewal", s) /\ Named(s)}
  /\ Usable' = {s \in Session : Found("renewal", s)' /\ Named(s)'}
  BY DEF Usable, Named

\* An operation goes on without a change of what is named.
LEMMA NamedLemma ==
  ASSUME NEW k \in Thread, \A j \in Thread \ {k} : thread'[j] = thread[j],
         thread'[k].new = thread[k].new, known' = known, NEW s
  PROVE  Named(s)' <=> Named(s)
  <1>1. \A j \in Thread : thread'[j].new = thread[j].new
    OBVIOUS
  <1> QED
    BY <1>1 DEF Named

\* What a thread makes is named by it alone, and it is to give it once it is stored.
LEMMA NewLemma ==
  ASSUME Inv, NEW k \in Thread
  PROVE  /\ thread[k].new \in Session => Creates(k)
         /\ Creates(k) => thread[k].new \in Session \ known
         /\ \A j \in Thread \ {k} : thread[j].new \in Session => thread[j].new # thread[k].new
         /\ \A s \in Usable : thread[k].new = s <=> Gives(k) = s
         /\ Usable \subseteq Made /\ None \notin Session
         /\ Creates(k) => Gives(k) = IF Storing(k) THEN None ELSE thread[k].new
  <1>1. None \notin Session
    BY SessionAssumption DEF None
  <1>2. /\ thread[k].new \in Session => Creates(k)
        /\ Creates(k) => thread[k].new \in Session \ known
        /\ \A j \in Thread \ {k} : thread[j].new \in Session => thread[j].new # thread[k].new
    BY <1>1 DEF Inv, Structure, ThreadsOK, ThreadOK
  <1>3. Usable \subseteq Made
    BY DEF Usable, Inv, Structure, TypeOK
  <1>4. \A s \in Usable : thread[k].new = s <=> Gives(k) = s
    BY <1>1, <1>3 DEF Gives, Made
  <1>5. Creates(k) => Gives(k) = IF Storing(k) THEN None ELSE thread[k].new
    <2>1. Creates(k) /\ Storing(k) => thread[k].new \notin Made
      BY DEF Inv, Structure, ThreadsOK, ThreadOK, Made
    <2>2. Creates(k) /\ ~Storing(k) => thread[k].new \in Made
      BY <1>2 DEF Inv, Structure, ThreadsOK, ThreadOK, TypeOK
    <2> QED
      BY <2>1, <2>2 DEF Gives
  <1> QED
    BY <1>1, <1>2, <1>3, <1>4, <1>5

\* Steps of the service, from how they change its state.  Nothing a client sees
\* changes:
LEMMA ServiceStutters ==
  ASSUME UNCHANGED <<kind, Usable, line, AcceptedLines, Due, dismissed>>
  PROVE  UNCHANGED Service!svars
  BY DEF AcceptedLines, Due, Service!svars, Service!None, None

\* a login stores its refresh token;
LEMMA ServiceSignsIn ==
  ASSUME NEW k \in Thread, NEW t \in Session, line[t] = None, line' = [line EXCEPT ![t] = t],
         Usable' = Usable \cup {t}, Due[k] = None, Due' = [Due EXCEPT ![k] = t],
         UNCHANGED <<kind, AcceptedLines, dismissed>>
  PROVE  Service!Next
  <1>1. Service!SignIn(k, t)
    BY DEF AcceptedLines, Due, Service!SignIn, Service!None, None
  <1> QED
    BY <1>1 DEF Service!Next

\* a renewal stores its refresh token;
LEMMA ServiceRenews ==
  ASSUME NEW k \in Thread, NEW t \in Session, line[t] = None, AcceptedLines[k] # None,
         line' = [line EXCEPT ![t] = AcceptedLines[k]], Usable' = Usable \cup {t},
         AcceptedLines' = [AcceptedLines EXCEPT ![k] = None],
         Due[k] = None, Due' = [Due EXCEPT ![k] = t], UNCHANGED <<kind, dismissed>>
  PROVE  Service!Next
  <1>1. Service!Renew(k, t)
    BY DEF AcceptedLines, Due, Service!Renew, Service!None, None
  <1> QED
    BY <1>1 DEF Service!Next

\* a refresh token is deleted;
LEMMA ServiceRetires ==
  ASSUME NEW s \in Usable,
         line[s] \in dismissed \/ \E t \in Usable \ {s} : line[t] = line[s],
         Usable' = Usable \ {s}, UNCHANGED <<kind, line, AcceptedLines, Due, dismissed>>
  PROVE  Service!Next
  <1>1. Service!Retire(s)
    BY DEF AcceptedLines, Due, Service!Retire, Service!Goes
  <1> QED
    BY <1>1 DEF Service!Next, Usable

\* a line is dismissed;
LEMMA ServiceDismisses ==
  ASSUME NEW s \in Session, line[s] # None, dismissed' = dismissed \cup {line[s]},
         UNCHANGED <<kind, Usable, line, AcceptedLines, Due>>
  PROVE  Service!Next
  <1>1. Service!Dismiss(s)
    BY DEF AcceptedLines, Due, Service!Dismiss, Service!None, None
  <1> QED
    BY <1>1 DEF Service!Next

\* a client gets no answer.
LEMMA ServiceBreaks ==
  ASSUME NEW k \in Thread, Usable' = Usable \ {Due[k]},
         dismissed' = dismissed \cup
             ({line[s] : s \in Usable \cap {Due[k]}} \ {line[s] : s \in Usable \ {Due[k]}}),
         AcceptedLines' = [AcceptedLines EXCEPT ![k] = None],
         Due' = [Due EXCEPT ![k] = None], UNCHANGED <<kind, line>>
  PROVE  Service!Next
  <1>1. /\ AcceptedLines' = [j \in Thread |-> IF j \in {k} THEN None ELSE AcceptedLines[j]]
        /\ Due' = [j \in Thread |-> IF j \in {k} THEN None ELSE Due[j]]
    BY DEF AcceptedLines, Due
  <1>2. {Due[j] : j \in {k}} = {Due[k]}
    OBVIOUS
  <1>3. Service!Breaks({k})
    BY <1>1, <1>2 DEF AcceptedLines, Due, Service!Breaks, Service!None, None
  <1> QED
    BY <1>3 DEF Service!Next

\* What is stored is not touched when an operation starts: the session it is to make
\* is one nobody has heard of.
LEMMA StartsStep ==
  ASSUME Inv, Inv', NEW k \in Thread, thread[k] = Idle,
         \A j \in Thread \ {k} : thread'[j] = thread[j],
         thread'[k].new \notin Made, UNCHANGED <<entry, line, known>>
  PROVE  /\ Usable' = Usable /\ Due' = Due /\ Renews(k) = None
         /\ AcceptedLines[k] = Renews(k)
         /\ AcceptedLines' = [AcceptedLines EXCEPT ![k] = Renews(k)']
         /\ Renews(k)' = None => AcceptedLines' = AcceptedLines
  <1>1. thread[k].new = None /\ None \notin Session
    BY SessionAssumption DEF Idle, None
  <1>2. \A s \in Session : Found("renewal", s)' <=> Found("renewal", s)
    BY DEF Found
  <1>3. \A s \in Session : Found("renewal", s) => s # thread'[k].new /\ s # thread[k].new
    BY <1>1 DEF Inv, Structure, TypeOK
  <1>4. \A s \in Session : Found("renewal", s) => (Named(s)' <=> Named(s))
    BY <1>3 DEF Named
  <1>5. Usable' = Usable
    <2> HIDE DEF Named
    <2> QED
      BY <1>2, <1>4, UsableLemma
  <1>6. Gives(k) = None /\ Gives(k)' = None /\ Renews(k) = None
    BY <1>1 DEF Gives, Made, Renews, Idle
  <1> HIDE DEF Gives, Renews, AcceptedLines, Due, Usable
  <1> QED
    BY <1>5, <1>6, AcceptedStepLemma

\* An expired refresh and a close dismiss their line.
LEMMA EndingStep ==
  ASSUME Inv, Inv', NEW k \in Thread, NEW s \in Session, RefreshExpired(k, s) \/ Close(k, s)
  PROVE  Service!Next
  <1>1. /\ s \in known /\ dismissed' = dismissed \cup {line[s]} /\ thread[k] = Idle
        /\ UNCHANGED <<kind, entry, line, known>>
    BY DEF RefreshExpired, Close
  <1>2. line[s] # None
    BY <1>1, KnownLemma DEF Inv, Made
  <1>3. /\ thread'[k].op # "refresh" /\ \A j \in Thread \ {k} : thread'[j] = thread[j]
        /\ thread'[k].new = None
    <2>1. thread'[k].new = None
      BY DEF RefreshExpired, Close, Starts, Inv, Structure, TypeOK
    <2> QED
      BY <2>1, EndingLemma
  <1>4. None \notin Made
    BY SessionAssumption DEF Made, None
  <1> QED
    BY <1>1, <1>2, <1>3, <1>4, StartsStep, ServiceDismisses DEF Renews

\* A login begins.
LEMMA LoginStep ==
  ASSUME Inv, Inv', NEW k \in Thread, NEW t \in Session, Login(k, t)
  PROVE  UNCHANGED Service!svars
  <1>1. thread[k] = Idle /\ UNCHANGED <<kind, entry, line, dismissed, known>> /\ t \notin Made
    BY DEF Login, Fresh, Taken
  <1>2. /\ thread'[k].op = "login" /\ \A j \in Thread \ {k} : thread'[j] = thread[j]
        /\ thread'[k].new = t
    <2>1. thread'[k].new = t
      BY DEF Login, Starts, Inv, Structure, TypeOK
    <2> QED
      BY <2>1, LoginLemma
  <1> QED
    BY <1>1, <1>2, StartsStep, ServiceStutters DEF Renews

\* A token past its time is validated.
LEMMA ValidateStep ==
  ASSUME Inv, Inv', NEW k \in Thread, NEW s \in Session, ValidateExpired(k, s)
  PROVE  UNCHANGED Service!svars
  <1>1. /\ thread[k] = Idle /\ UNCHANGED <<kind, entry, line, dismissed, known>>
        /\ None \notin Made
    BY SessionAssumption DEF ValidateExpired, Made, None
  <1>2. /\ thread'[k].op = "stale" /\ \A j \in Thread \ {k} : thread'[j] = thread[j]
        /\ thread'[k].new = None
    <2>1. thread'[k].new = None
      BY DEF ValidateExpired, Starts, Inv, Structure, TypeOK
    <2> QED
      BY <2>1, ValidateExpiredLemma
  <1> QED
    BY <1>1, <1>2, StartsStep, ServiceStutters DEF Renews

\* A renewal is accepted.
LEMMA RefreshStep ==
  ASSUME Inv, Inv', NEW k \in Thread, NEW s \in Session, NEW t \in Session, Refresh(k, s, t)
  PROVE  Service!Next
  <1>1. /\ s \in Usable /\ thread[k] = Idle /\ t \notin Made
        /\ UNCHANGED <<kind, entry, line, dismissed, known>>
    BY DEF Refresh, StillActive, Usable, Fresh, Taken
  <1>2. /\ thread'[k].op = "refresh" /\ thread'[k].session = s /\ Storing(k)'
        /\ \A j \in Thread \ {k} : thread'[j] = thread[j]
        /\ thread'[k].new = t
    <2>1. thread'[k].new = t
      BY DEF Refresh, Starts, Inv, Structure, TypeOK
    <2> QED
      BY <2>1, RefreshLemma
  <1>3. Renews(k)' = line[s]
    BY <1>1, <1>2 DEF Renews
  <1>4. /\ Usable' = Usable /\ Due' = Due
        /\ AcceptedLines[k] = None /\ AcceptedLines' = [AcceptedLines EXCEPT ![k] = line[s]]
    BY <1>1, <1>2, <1>3, StartsStep
  <1>5. Service!Accept(k, s)
    BY <1>1, <1>4 DEF Service!Accept, Service!None, None, AcceptedLines, Due
  <1> QED
    BY <1>5 DEF Service!Next

\* The refresh token brings the session to life, the access token changes nothing.
LEMMA StoresStep ==
  ASSUME Inv, Inv', NEW k \in Thread, NEW table \in Table, Stores(k, table)
  PROVE  Service!Next \/ UNCHANGED Service!svars
  <1> DEFINE t == thread[k].new
             s == thread[k].session
             left == IF table = "access" THEN Life ELSE RenewalLife
  <1>1. /\ Structure /\ TypeOK /\ ThreadOK(k)
        /\ Storing(k) /\ (Storing(k)' <=> table = "access") /\ Does(k, "store", table)
        /\ thread'[k].op = thread[k].op /\ thread'[k].session = s
        /\ \A j \in Thread \ {k} : thread'[j] = thread[j]
    BY StoresLemma DEF Inv, Structure, ThreadsOK, Stores
  <1>2. /\ Creates(k) /\ thread[k].op \in {"login", "refresh"}
        /\ t \in Session \ known /\ line[t] = None
    BY <1>1, DoesLemma DEF Creates, ThreadOK, Table
  <1>3. /\ entry' = [entry EXCEPT ![table][t] = left]
        /\ UNCHANGED <<kind, dismissed, known>>
        /\ line' = IF table = "access" THEN line
                   ELSE [line EXCEPT ![t] = IF thread[k].op = "login" THEN t ELSE line[s]]
        /\ thread' = [thread EXCEPT ![k].todo = Tail(@)]
    BY DEF Stores
  <1>4. /\ entry \in [Table -> [Session -> Stored \cup {Absent}]]
        /\ line \in [Session -> Session \cup {None}] /\ left # Absent
        /\ thread'[k].new = t
    BY <1>1, <1>3, SessionAssumption DEF TypeOK, Absent
  <1>5. thread[k].op = "refresh" => s \in known /\ s # t /\ line[s] # None
    BY <1>1, <1>2, KnownLemma DEF ThreadOK, Uses, Made
  <1> HIDE DEF left
  <1>6. \A u \in Session : u # t => line'[u] = line[u]
    BY <1>2, <1>3, <1>4
  <1>7. \A u : Named(u)' <=> Named(u)
    BY <1>1, <1>3, <1>4, NamedLemma
  <1>8. Named(t) /\ Creates(k)' /\ Gives(k) = None
    BY <1>1, <1>2, NewLemma DEF Named, Creates
  <1>9. CASE table = "access"
    <2>1. \A u \in Session : Found("renewal", u)' <=> Found("renewal", u)
      BY <1>2, <1>3, <1>4, <1>9 DEF Found, Table
    <2>2. Usable' = Usable
      <3> HIDE DEF Named
      <3> QED
        BY <1>7, <2>1, UsableLemma
    <2>3. Renews(k)' = Renews(k) /\ Gives(k)' = Gives(k)
      BY <1>1, <1>3, <1>4, <1>9 DEF Renews, Gives, Made
    <2>4. AcceptedLines' = AcceptedLines /\ Due' = Due
      BY <1>1, <1>6, <2>3, AcceptedStepLemma
    <2> QED
      BY <1>3, <1>9, <2>2, <2>4, ServiceStutters
  <1>10. CASE table = "renewal"
    <2>1. \A u \in Session : Found("renewal", u)' <=> Found("renewal", u) \/ u = t
      BY <1>2, <1>3, <1>4, <1>10 DEF Found, Table
    <2>2. Usable' = Usable \cup {t}
      <3> HIDE DEF Named
      <3> QED
        BY <1>2, <1>7, <1>8, <2>1, UsableLemma
    <2>3. Renews(k)' = None /\ Gives(k)' = t
      <3>1. Renews(k)' = None
        BY <1>1, <1>10 DEF Renews
      <3>2. t \in Made'
        BY <1>2, <2>1 DEF Inv, Structure, TypeOK
      <3> QED
        BY <1>4, <3>1, <3>2 DEF Gives
    <2>4. /\ AcceptedLines[k] = Renews(k) /\ Due[k] = None
          /\ AcceptedLines' = [AcceptedLines EXCEPT ![k] = None]
          /\ Due' = [Due EXCEPT ![k] = t]
          /\ Renews(k)' = Renews(k) => AcceptedLines' = AcceptedLines
      BY <1>1, <1>6, <1>8, <2>3, AcceptedStepLemma
    <2>5. CASE thread[k].op = "login"
      <3>1. AcceptedLines' = AcceptedLines
        BY <2>3, <2>4, <2>5 DEF Renews
      <3>2. line' = [line EXCEPT ![t] = t]
        BY <1>3, <1>10, <2>5
      <3> QED
        BY <1>2, <1>3, <2>2, <2>4, <3>1, <3>2, ServiceSignsIn
    <2>6. CASE thread[k].op = "refresh"
      <3>1. AcceptedLines[k] = line[s] /\ AcceptedLines[k] # None
        BY <1>1, <1>5, <2>4, <2>6 DEF Renews
      <3>2. line' = [line EXCEPT ![t] = AcceptedLines[k]]
        BY <1>3, <1>10, <2>6, <3>1
      <3> QED
        BY <1>2, <1>3, <2>2, <2>4, <3>1, <3>2, ServiceRenews
    <2> QED
      BY <1>2, <2>5, <2>6
  <1> QED
    BY <1>9, <1>10 DEF Table

\* A refresh token is deleted when another session of its line was stored, or
\* its line is to end.
LEMMA RemovesStep ==
  ASSUME Inv, Inv', NEW k \in Thread, NEW table \in Table,
         Does(k, "pop", table) \/ Does(k, "del", table),
         entry' \in {entry, Without(table, thread[k].session)},
         UNCHANGED <<kind, line, dismissed, known>>, ~Storing(k), ~Storing(k)',
         thread'[k].new = thread[k].new,
         \A j \in Thread \ {k} : thread'[j] = thread[j]
  PROVE  Service!Next \/ UNCHANGED Service!svars
  <1> DEFINE s == thread[k].session
  <1>1. /\ Structure /\ ThreadOK(k) /\ (table = "renewal" => Ends(k)) /\ Uses(k)
        /\ s \in Session /\ s \in known
        /\ entry \in [Table -> [Session -> Stored \cup {Absent}]]
    BY DoesLemma, KnownLemma
    DEF Inv, Structure, TypeOK, ThreadsOK, ThreadOK, Table, Uses, Ends
  <1>2. AcceptedLines' = AcceptedLines /\ Due' = Due
    <2>1. Renews(k)' = Renews(k) /\ Gives(k)' = Gives(k)
      BY DEF Renews, Gives, Made
    <2> QED
      BY <2>1, AcceptedStepLemma
  <1>3. \A u : Named(u)' <=> Named(u)
    BY NamedLemma
  <1>4. Named(s)
    BY <1>1 DEF Named
  <1>5. CASE entry' = entry \/ table = "access"
    <2>1. \A u \in Session : Found("renewal", u)' <=> Found("renewal", u)
      BY <1>1, <1>5 DEF Found, Without, Table
    <2>2. Usable' = Usable
      <3> HIDE DEF Named
      <3> QED
        BY <1>3, <2>1, UsableLemma
    <2> QED
      BY <1>2, <2>2, ServiceStutters
  <1>6. CASE entry' # entry /\ table = "renewal"
    <2>1. \A u \in Session : Found("renewal", u)' <=> Found("renewal", u) /\ u # s
      BY <1>1, <1>6 DEF Found, Without, Table
    <2>2. Usable' = Usable \ {s}
      <3> HIDE DEF Named
      <3> QED
        BY <1>3, <2>1, UsableLemma
    <2>3. CASE s \notin Usable
      BY <1>2, <2>2, <2>3, ServiceStutters
    <2>4. CASE s \in Usable
      <3>1. CASE thread[k].op = "refresh"
        <4>1. Creates(k)
          BY <3>1 DEF Creates
        <4>2. /\ thread[k].new \in Usable \ {s}
              /\ line[thread[k].new] = line[s]
          BY <1>1, <3>1, <4>1 DEF ThreadOK, Usable
        <4> QED
          BY <1>2, <2>2, <2>4, <4>2, ServiceRetires
      <3>2. CASE thread[k].op \in {"expired", "close"}
        BY <1>1, <1>2, <2>2, <2>4, <3>2, ServiceRetires DEF ThreadOK
      <3> QED
        BY <1>1, <1>6, <3>1, <3>2 DEF Ends
    <2> QED
      BY <2>3, <2>4
  <1> QED
    BY <1>5, <1>6 DEF Table

\* A call of the store that fails loses what the thread was to give.
LEMMA FailsStep ==
  ASSUME Inv, Inv', NEW k \in Thread, NEW table \in Table, Deletes(k, table),
         kind = "file", ~Found(table, thread[k].session)
  PROVE  Service!Next
  <1>1. /\ entry' = Without(table, thread[k].session)
        /\ thread' = [thread EXCEPT ![k] = Idle]
        /\ dismissed' = dismissed \cup LostWith({k}) /\ UNCHANGED <<kind, line, known>>
        /\ Does(k, "del", table) /\ ~Storing(k)
    BY DeletesLemma DEF Deletes
  <1>2. /\ thread'[k] = Idle /\ \A j \in Thread \ {k} : thread'[j] = thread[j]
        /\ entry \in [Table -> [Session -> Stored \cup {Absent}]]
    BY <1>1 DEF Inv, Structure, TypeOK
  <1>3. \A u \in Session : Found("renewal", u)' <=> Found("renewal", u)
    BY <1>1, <1>2 DEF Found, Without, Table
  <1>4. \A u \in Session : Named(u)' <=> u \in known \/ \E j \in Thread \ {k} : thread[j].new = u
    BY <1>1, <1>2, NewLemma DEF Named, Idle
  <1>5. \A u \in Session : Named(u)' <=> Named(u) /\ u # thread[k].new
    <2>1. thread[k].new \in Session => thread[k].new \notin known
      BY NewLemma
    <2>2. \A j \in Thread \ {k} : thread[j].new \in Session => thread[j].new # thread[k].new
      BY NewLemma
    <2> QED
      BY <1>4, <2>1, <2>2 DEF Named
  <1>6. Usable' = Usable \ {thread[k].new}
    <2> HIDE DEF Named
    <2> QED
      BY <1>3, <1>5, UsableLemma
  <1>7. /\ Usable' = Usable \ {Gives(k)}
        /\ Usable \cap {thread[k].new} = Usable \cap {Gives(k)}
        /\ Usable \ {thread[k].new} = Usable \ {Gives(k)}
    BY <1>6, NewLemma
  <1>8. Renews(k)' = None /\ Gives(k)' = None
    BY <1>2, SessionAssumption DEF Renews, Gives, Idle, Made, None
  <1>9. /\ AcceptedLines' = [AcceptedLines EXCEPT ![k] = None]
        /\ Due[k] = Gives(k) /\ Due' = [Due EXCEPT ![k] = None]
    BY <1>1, <1>2, <1>8, AcceptedStepLemma
  <1>10. {thread[j].new : j \in {k}} = {thread[k].new}
    OBVIOUS
  <1>11. LostWith({k}) = {line[s] : s \in Usable \cap {thread[k].new}}
                         \ {line[s] : s \in Usable \ {thread[k].new}}
    BY <1>10 DEF LostWith
  <1> QED
    BY <1>1, <1>7, <1>9, <1>11, ServiceBreaks

\* A client has its answer: the session it was being given is one it holds.
LEMMA AnswersStep ==
  ASSUME Inv, Inv', NEW k \in Thread, Answers(k)
  PROVE  Service!Next \/ UNCHANGED Service!svars
  <1>1. /\ thread[k] # Idle /\ thread[k].todo = <<>> /\ thread' = [thread EXCEPT ![k] = Idle]
        /\ known' = IF thread[k].op \in {"login", "refresh"} THEN known \cup {thread[k].new}
                    ELSE known
        /\ UNCHANGED <<kind, entry, line, dismissed>>
    BY DEF Answers
  <1>2. /\ thread'[k] = Idle /\ \A j \in Thread \ {k} : thread'[j] = thread[j]
        /\ ~Storing(k)
    BY <1>1, TodoDistinct DEF Inv, Structure, TypeOK, Storing
  <1>3. \A u \in Session : Found("renewal", u)' <=> Found("renewal", u)
    BY <1>1 DEF Found
  <1>4. \A u \in Session : Named(u)' <=> Named(u)
    <2>1. None \notin Session
      BY NewLemma
    <2>2. CASE Creates(k)
      <3>1. known' = known \cup {thread[k].new}
        BY <1>1, <2>2 DEF Creates
      <3> QED
        BY <1>2, <2>1, <3>1 DEF Named, Idle
    <2>3. CASE ~Creates(k)
      <3>1. known' = known /\ thread[k].new \notin Session
        BY <1>1, <2>3, NewLemma DEF Creates
      <3> QED
        BY <1>2, <2>1, <3>1 DEF Named, Idle
    <2> QED
      BY <2>2, <2>3
  <1>5. Usable' = Usable
    <2> HIDE DEF Named
    <2> QED
      BY <1>3, <1>4, UsableLemma
  <1>6. Renews(k) = None /\ Renews(k)' = None /\ Gives(k)' = None
    BY <1>2, SessionAssumption DEF Renews, Gives, Idle, Made, None
  <1>7. /\ AcceptedLines' = AcceptedLines
        /\ Due[k] = Gives(k) /\ Due' = [Due EXCEPT ![k] = None]
        /\ Gives(k)' = Gives(k) => Due' = Due
    BY <1>1, <1>2, <1>6, AcceptedStepLemma
  <1>8. CASE Gives(k) = None
    BY <1>1, <1>5, <1>6, <1>7, <1>8, ServiceStutters
  <1>9. CASE Gives(k) # None
    <2>1. Service!Deliver(k)
      BY <1>1, <1>5, <1>7, <1>9
      DEF AcceptedLines, Due, Service!Deliver, Service!None, None
    <2> QED
      BY <2>1 DEF Service!Next
  <1> QED
    BY <1>8, <1>9

\* Every answer is lost, and what is in memory with them.
LEMMA RestartStep ==
  ASSUME Inv, Inv', Restart
  PROVE  Service!Next
  <1>1. /\ thread' = [k \in Thread |-> Idle] /\ UNCHANGED <<kind, line, known>>
        /\ IF kind = "memory"
           THEN dismissed' = dismissed \cup {line[s] : s \in Made}
           ELSE dismissed' = dismissed \cup LostWith(Thread)
    BY DEF Restart
  <1>2. AcceptedLines' = [k \in Thread |-> None] /\ Due' = [k \in Thread |-> None]
    <2>1. \A k \in Thread : Renews(k)' = None /\ Gives(k)' = None
      BY <1>1, SessionAssumption DEF Renews, Gives, Idle, Made, None
    <2>2. AcceptedLines' = [k \in Thread |-> None]
      BY <2>1, AcceptedLemma DEF Inv
    <2>3. Due' = [k \in Thread |-> Gives(k)']
      BY DEF Due, Gives
    <2> QED
      BY <2>1, <2>2, <2>3
  <1>3. CASE kind = "memory"
    <2>1. Usable' = {}
      BY <1>3, RestartEntries DEF Inv, Structure, Usable, Table
    <2>2. Service!Crash
      BY <1>1, <1>2, <1>3, <2>1
      DEF Service!Crash, Service!None, None, AcceptedLines, Due, Made
    <2> QED
      BY <2>2 DEF Service!Next
  <1>4. CASE kind # "memory"
    <2> DEFINE new == {thread[k].new : k \in Thread}
               lost == {Due[k] : k \in Thread}
    <2>1. \A u \in Session : Found("renewal", u)' <=> Found("renewal", u)
      BY <1>4, RestartEntries DEF Inv, Structure, Table
    <2>2. \A u \in Session : Named(u)' <=> Named(u) /\ u \notin new
      BY <1>1, NewLemma DEF Named, Idle
    <2>3. Usable' = Usable \ new
      <3> HIDE DEF Named, new
      <3> QED
        BY <2>1, <2>2, UsableLemma
    <2>4. \A u \in Usable : u \in new <=> u \in lost
      <3>1. \A k \in Thread : Due[k] = Gives(k)
        BY DEF Due, Gives
      <3>2. \A k \in Thread : \A u \in Usable : thread[k].new = u <=> Gives(k) = u
        BY NewLemma
      <3> QED
        BY <3>1, <3>2
    <2>5. /\ Usable' = Usable \ lost
          /\ Usable \cap new = Usable \cap lost /\ Usable \ new = Usable \ lost
      BY <2>3, <2>4
    <2>6. dismissed' = dismissed \cup
             ({line[s] : s \in Usable \cap lost} \ {line[s] : s \in Usable \ lost})
      <3> HIDE DEF lost
      <3> QED
        BY <1>1, <1>4, <2>5 DEF LostWith
    <2>7. /\ AcceptedLines' = [k \in Thread |-> IF k \in Thread THEN None ELSE AcceptedLines[k]]
          /\ Due' = [k \in Thread |-> IF k \in Thread THEN None ELSE Due[k]]
      BY <1>2
    <2>8. Service!Breaks(Thread)
      BY <1>1, <2>5, <2>6, <2>7
      DEF Service!Breaks, Service!None, None, AcceptedLines, Due
    <2> QED
      BY <2>8 DEF Service!Next
  <1> QED
    BY <1>3, <1>4

\* Firestore drops an entry: a session that clients can use expires, or is retired
\* when its line has another; one that nobody holds any more changes nothing, but for
\* a line that is over.
LEMMA PurgesStep ==
  ASSUME Inv, Inv', NEW table \in Table, NEW s \in Session, Purges(table, s)
  PROVE  Service!Next \/ UNCHANGED Service!svars
  <1>1. /\ kind = "firestore" /\ Found(table, s) /\ entry' = Without(table, s)
        /\ UNCHANGED <<kind, thread, line, known>>
        /\ dismissed' = IF table = "renewal"
                        THEN dismissed \cup ({line[s]} \ {line[t] : t \in Usable \ {s}})
                        ELSE dismissed
        /\ entry \in [Table -> [Session -> Stored \cup {Absent}]]
    BY DEF Purges, Inv, Structure, TypeOK
  <1>2. UNCHANGED <<AcceptedLines, Due>>
    BY <1>1 DEF AcceptedLines, Due, Made
  <1>3. \A u : Named(u)' <=> Named(u)
    BY <1>1 DEF Named
  <1>4. CASE table = "access"
    <2>1. \A u \in Session : Found("renewal", u)' <=> Found("renewal", u)
      BY <1>1, <1>4 DEF Found, Without, Table
    <2>2. Usable' = Usable
      <3> HIDE DEF Named
      <3> QED
        BY <1>3, <2>1, UsableLemma
    <2> QED
      BY <1>1, <1>2, <1>4, <2>2, ServiceStutters
  <1>5. CASE table = "renewal"
    <2>1. \A u \in Session : Found("renewal", u)' <=> Found("renewal", u) /\ u # s
      BY <1>1, <1>5 DEF Found, Without, Table
    <2>2. Usable' = Usable \ {s}
      <3> HIDE DEF Named
      <3> QED
        BY <1>3, <2>1, UsableLemma
    <2>3. CASE \E t \in Usable \ {s} : line[t] = line[s]
      <3>1. dismissed' = dismissed
        BY <1>1, <1>5, <2>3
      <3>2. CASE s \in Usable
        BY <1>1, <1>2, <2>2, <2>3, <3>1, <3>2, ServiceRetires
      <3>3. CASE s \notin Usable
        BY <1>1, <1>2, <2>2, <3>1, <3>3, ServiceStutters
      <3> QED
        BY <3>2, <3>3
    <2>4. CASE ~\E t \in Usable \ {s} : line[t] = line[s]
      <3>1. dismissed' = dismissed \cup {line[s]} /\ line[s] # None
        BY <1>1, <1>5, <2>4 DEF Inv, Structure, TypeOK, Made
      <3>2. CASE s \in Usable
        <4>1. Service!Expire(s)
          BY <1>1, <1>2, <2>2, <3>1, <3>2 DEF Service!Expire, AcceptedLines, Due
        <4> QED
          BY <4>1 DEF Service!Next
      <3>3. CASE s \notin Usable
        BY <1>1, <1>2, <2>2, <3>1, <3>3, ServiceDismisses
      <3> QED
        BY <3>2, <3>3
    <2> QED
      BY <2>3, <2>4
  <1> QED
    BY <1>4, <1>5 DEF Table

\* Every step is one of the service, or changes nothing of it.
LEMMA ServiceStepLemma ==
  ASSUME Inv, Inv', [Next]_lvars
  PROVE  [Service!Next]_Service!svars
  <1>1. ASSUME NEW k \in Thread, NEW table \in Table, Pops(k, table)
        PROVE  Service!Next \/ UNCHANGED Service!svars
    <2>1. /\ Does(k, "pop", table) /\ entry' \in {entry, Without(table, thread[k].session)}
          /\ UNCHANGED <<kind, line, dismissed, known>>
      BY <1>1 DEF Pops
    <2>2. thread'[k].new = thread[k].new
      BY <1>1 DEF Pops, Inv, Structure, TypeOK
    <2> QED
      BY <1>1, <2>1, <2>2, PopsLemma, RemovesStep
  <1>2. ASSUME NEW k \in Thread, NEW table \in Table, Deletes(k, table)
        PROVE  Service!Next \/ UNCHANGED Service!svars
    <2>1. CASE kind = "file" /\ ~Found(table, thread[k].session)
      BY <1>2, <2>1, FailsStep
    <2>2. CASE ~(kind = "file" /\ ~Found(table, thread[k].session))
      <3>1. /\ Does(k, "del", table) /\ entry' \in {entry, Without(table, thread[k].session)}
            /\ UNCHANGED <<kind, line, dismissed, known>>
            /\ thread' = [thread EXCEPT ![k] =
                             [thread[k] EXCEPT !.todo = Tail(thread[k].todo)]]
        BY <1>2, <2>2 DEF Deletes
      <3>2. thread'[k].new = thread[k].new
        BY <3>1 DEF Inv, Structure, TypeOK
      <3> QED
        BY <1>2, <3>1, <3>2, DeletesLemma, RemovesStep
    <2> QED
      BY <2>1, <2>2
  <1>3. CASE Tick
    <2>1. \A u \in Session : Found("renewal", u)' <=> Found("renewal", u)
      BY <1>3, TickEntries DEF Table, Inv, Structure
    <2>2. UNCHANGED <<kind, line, dismissed, known, thread, AcceptedLines, Due>>
      BY <1>3 DEF Tick, AcceptedLines, Due, Made
    <2>3. Usable' = Usable
      BY <2>1, <2>2 DEF Usable
    <2> QED
      BY <2>2, <2>3, ServiceStutters
  <1>4. CASE UNCHANGED lvars
    <2>1. UNCHANGED <<kind, Usable, line, dismissed, AcceptedLines, Due>>
      BY <1>4 DEF lvars, Usable, Found, AcceptedLines, Due, Made
    <2> QED
      BY <2>1, ServiceStutters
  <1> QED
    BY <1>1, <1>2, <1>3, <1>4, LoginStep, ValidateStep, EndingStep, RefreshStep, StoresStep,
       AnswersStep, PurgesStep, RestartStep
    DEF Next

\* No session lives at first.
LEMMA ServiceInitLemma == Init => Service!Init
  <1> SUFFICES ASSUME Init PROVE Service!Init
    OBVIOUS
  <1>1. Usable = {}
    BY DEF Init, Usable, Found, Table
  <1>2. AcceptedLines = [k \in Thread |-> None]
    BY DEF Init, AcceptedLines, Idle
  <1>3. Due = [k \in Thread |-> None]
    BY DEF Init, Due, Idle
  <1> QED
    BY <1>1, <1>2, <1>3 DEF Init, Service!Init, Service!None, None, AcceptedLines, Due

\* The store calls of the threads implement SessionService: a line nobody ended always
\* has a session that clients can renew, unless the answer with its only one is lost,
\* or the store forgets it; and none that was retired comes back (refresh_session,
\* delete_session).
THEOREM LinesAreKept == Spec => KeepsLinesAlive
  <1>1. Inv /\ Inv' /\ [Next]_lvars => [Service!Next]_Service!svars
    BY ServiceStepLemma
  <1> QED
    BY <1>1, ServiceInitLemma, Invariance, PTL DEF Spec, KeepsLinesAlive, Service!Spec

----------------------------------------------------------------------------
(* Counting.                                                               *)

\* A set of numbers with 0, and with the successor of each of its elements, has
\* all of them.
LEMMA AllNumbers ==
  ASSUME NEW S \in SUBSET Nat, 0 \in S, \A n \in S : n + 1 \in S
  PROVE  S = Nat
  <1> DEFINE R == OpToRel(<, Nat)
             T == Nat \ S
  <1>1. IsWellFoundedOn(R, Nat)
    BY NatLessThanWellFounded
  <1>2. \A i, j \in Nat : i < j => <<i, j>> \in R
    BY DEF OpToRel
  <1> HIDE DEF R
  <1>3. ASSUME T # {} PROVE FALSE
    <2>1. T \in SUBSET Nat
      OBVIOUS
    <2> HIDE DEF T
    <2>2. PICK i \in T : \A j \in T : ~(<<j, i>> \in R)
      BY <1>1, <1>3, <2>1, WFMin
    <2>3. i \in Nat /\ i # 0 /\ \A j \in Nat : j < i => j \notin T
      BY <1>2, <2>1, <2>2 DEF T
    <2>4. i - 1 \in Nat /\ i - 1 < i /\ i - 1 + 1 = i
      BY <2>3
    <2>5. i - 1 \in S
      BY <2>3, <2>4 DEF T
    <2> QED
      BY <2>2, <2>4, <2>5 DEF T
  <1> QED
    BY <1>3

\* The factorials up to n.
Factorials(n) ==
    {g \in [0..n -> Nat \ {0}] : g[0] = 1 /\ \A i \in 1..n : g[i] = i * g[i - 1]}

\* There is one way to write them down.
LEMMA FactorialsLemma ==
  \A n \in Nat : \E g \in Factorials(n) : \A h \in Factorials(n) : h = g
  <1> DEFINE S == {n \in Nat : \E g \in Factorials(n) : \A h \in Factorials(n) : h = g}
  <1>1. 0 \in S
    <2> DEFINE g == [i \in 0..0 |-> 1]
    <2>1. g \in Factorials(0)
      BY DEF Factorials
    <2>2. ASSUME NEW h \in Factorials(0) PROVE h = g
      BY DEF Factorials
    <2> QED
      BY <2>1, <2>2
  <1>2. ASSUME NEW n \in S PROVE n + 1 \in S
    <2>1. PICK g \in Factorials(n) : \A h \in Factorials(n) : h = g
      OBVIOUS
    <2>2. n \in Nat /\ g \in [0..n -> Nat \ {0}] /\ g[0] = 1 /\ \A i \in 1..n : g[i] = i * g[i - 1]
      BY <2>1 DEF Factorials
    <2> DEFINE f == [i \in 0..n + 1 |-> IF i = n + 1 THEN (n + 1) * g[n] ELSE g[i]]
    <2>3. /\ f \in [0..n + 1 -> Nat \ {0}] /\ f[n + 1] = (n + 1) * g[n]
          /\ \A i \in 0..n : f[i] = g[i]
      <3>1. g[n] \in Nat \ {0} /\ n + 1 \in Nat \ {0}
        BY <2>2
      <3>2. (n + 1) * g[n] \in Nat \ {0}
        BY <3>1
      <3>3. \A i \in 0..n + 1 : i # n + 1 => i \in 0..n
        BY <2>2
      <3> QED
        BY <2>2, <3>2, <3>3
    <2> HIDE DEF f
    <2>4. f \in Factorials(n + 1)
      <3>1. f[0] = 1
        BY <2>2, <2>3
      <3>2. ASSUME NEW i \in 1..n + 1 PROVE f[i] = i * f[i - 1]
        <4>1. i - 1 \in 0..n /\ f[i - 1] = g[i - 1]
          BY <2>2, <2>3
        <4>2. CASE i = n + 1
          BY <2>2, <2>3, <4>1, <4>2
        <4>3. CASE i \in 1..n
          BY <2>2, <2>3, <4>1, <4>3
        <4> QED
          BY <2>2, <4>2, <4>3
      <3> QED
        BY <2>3, <3>1, <3>2 DEF Factorials
    <2>5. ASSUME NEW h \in Factorials(n + 1) PROVE h = f
      <3>1. h \in [0..n + 1 -> Nat \ {0}] /\ h[0] = 1 /\ \A i \in 1..n + 1 : h[i] = i * h[i - 1]
        BY DEF Factorials
      <3> DEFINE k == [i \in 0..n |-> h[i]]
      <3>2. k \in Factorials(n)
        <4>1. k \in [0..n -> Nat \ {0}] /\ k[0] = 1
          <5>1. 0 \in 0..n /\ \A i \in 0..n : i \in 0..n + 1
            BY <2>2
          <5> QED
            BY <3>1, <5>1
        <4>2. ASSUME NEW i \in 1..n PROVE k[i] = i * k[i - 1]
          <5>1. i \in 1..n + 1 /\ i \in 0..n /\ i - 1 \in 0..n
            BY <2>2
          <5> QED
            BY <3>1, <5>1
        <4> QED
          BY <4>1, <4>2 DEF Factorials
      <3>3. \A i \in 0..n : h[i] = f[i]
        BY <2>1, <2>3, <3>2
      <3>4. h[n + 1] = f[n + 1]
        <4>1. n + 1 \in 1..n + 1 /\ n + 1 - 1 = n /\ n \in 0..n
          BY <2>2
        <4> QED
          BY <2>3, <3>1, <3>3, <4>1
      <3>5. \A i \in 0..n + 1 : i = n + 1 \/ i \in 0..n
        BY <2>2
      <3> QED
        BY <2>3, <3>1, <3>3, <3>4, <3>5
    <2> QED
      BY <2>2, <2>4, <2>5
  <1> HIDE DEF S
  <1>3. S = Nat
    <2>1. S \in SUBSET Nat
      BY DEF S
    <2> QED
      BY <1>1, <1>2, <2>1, AllNumbers
  <1> QED
    BY <1>3 DEF S

\* The factorials are what they should be.
LEMMA FactorialLemma ==
  /\ Otp!factorial[0] = 1
  /\ \A n \in Nat : /\ Otp!factorial[n] \in Nat \ {0}
                    /\ Otp!factorial[n + 1] = (n + 1) * Otp!factorial[n]
  <1> DEFINE g(n) == CHOOSE h \in Factorials(n) : TRUE
             f == [n \in Nat |-> g(n)[n]]
  <1>1. ASSUME NEW n \in Nat
        PROVE  g(n) \in Factorials(n) /\ \A h \in Factorials(n) : h = g(n)
    BY FactorialsLemma
  <1> HIDE DEF g
  <1>2. ASSUME NEW n \in Nat, NEW i \in 0..n PROVE g(n)[i] = f[i]
    <2>1. g(n) \in [0..n -> Nat \ {0}] /\ g(n)[0] = 1 /\ \A j \in 1..n : g(n)[j] = j * g(n)[j - 1]
      BY <1>1 DEF Factorials
    <2> DEFINE k == [j \in 0..i |-> g(n)[j]]
    <2>2. k \in Factorials(i)
      <3>1. i \in Nat /\ i <= n
        OBVIOUS
      <3>2. k \in [0..i -> Nat \ {0}] /\ k[0] = 1
        BY <2>1, <3>1
      <3>3. ASSUME NEW j \in 1..i PROVE k[j] = j * k[j - 1]
        <4>1. j \in 1..n /\ j \in 0..i /\ j - 1 \in 0..i
          BY <3>1
        <4> QED
          BY <2>1, <4>1
      <3> QED
        BY <3>2, <3>3 DEF Factorials
    <2>3. i \in Nat
      OBVIOUS
    <2>4. k = g(i)
      BY <1>1, <2>2, <2>3
    <2> QED
      BY <2>3, <2>4
  <1>3. \A n \in Nat : f[n] \in Nat \ {0}
    <2> SUFFICES ASSUME NEW n \in Nat PROVE f[n] \in Nat \ {0}
      OBVIOUS
    <2>1. g(n) \in [0..n -> Nat \ {0}] /\ n \in 0..n
      BY <1>1 DEF Factorials
    <2> QED
      BY <2>1
  <1>4. ASSUME NEW n \in Nat PROVE f[n] = IF n = 0 THEN 1 ELSE n * f[n - 1]
    <2>1. g(n)[0] = 1 /\ \A j \in 1..n : g(n)[j] = j * g(n)[j - 1]
      BY <1>1 DEF Factorials
    <2>2. n # 0 => n - 1 \in 0..n /\ n \in 1..n
      OBVIOUS
    <2>3. \A i \in 0..n : g(n)[i] = f[i]
      BY <1>2
    <2>4. 0 \in 0..n /\ n \in 0..n
      OBVIOUS
    <2> HIDE DEF f
    <2> QED
      BY <2>1, <2>2, <2>3, <2>4
  <1>5. f = [n \in Nat |-> IF n = 0 THEN 1 ELSE n * f[n - 1]]
    <2>1. f = [n \in Nat |-> f[n]]
      OBVIOUS
    <2> HIDE DEF f
    <2> QED
      BY <1>4, <2>1
  <1> HIDE DEF f
  <1>6. Otp!factorial = [n \in Nat |-> IF n = 0 THEN 1 ELSE n * Otp!factorial[n - 1]]
    BY <1>5 DEF Otp!factorial
  <1> DEFINE S == {n \in Nat : Otp!factorial[n] \in Nat \ {0}}
  <1>7. Otp!factorial[0] = 1 /\ \A n \in Nat : Otp!factorial[n + 1] = (n + 1) * Otp!factorial[n]
    <2> DEFINE F == Otp!factorial
    <2>1. F = [n \in Nat |-> IF n = 0 THEN 1 ELSE n * F[n - 1]]
      BY <1>6
    <2> HIDE DEF F
    <2>2. ASSUME NEW n \in Nat PROVE F[n] = IF n = 0 THEN 1 ELSE n * F[n - 1]
      BY <2>1
    <2>3. F[0] = 1
      BY <2>2
    <2>4. ASSUME NEW n \in Nat PROVE F[n + 1] = (n + 1) * F[n]
      <3>1. n + 1 \in Nat /\ n + 1 # 0 /\ n + 1 - 1 = n
        OBVIOUS
      <3> QED
        BY <2>2, <3>1
    <2> QED
      BY <2>3, <2>4 DEF F
  <1>8. ASSUME NEW n \in S PROVE n + 1 \in S
    <2>1. n \in Nat /\ Otp!factorial[n] \in Nat \ {0}
      OBVIOUS
    <2>2. ASSUME NEW x \in Nat \ {0} PROVE (n + 1) * x \in Nat \ {0}
      BY <2>1
    <2>3. (n + 1) * Otp!factorial[n] \in Nat \ {0}
      BY <2>1, <2>2
    <2>4. Otp!factorial[n + 1] \in Nat \ {0} /\ n + 1 \in Nat
      BY <1>7, <2>1, <2>3
    <2> QED
      BY <2>4
  <1>9. 0 \in S /\ S \in SUBSET Nat
    BY <1>7
  <1> HIDE DEF S
  <1>10. S = Nat
    BY <1>8, <1>9, AllNumbers
  <1> QED
    BY <1>7, <1>10 DEF S

\* The ways to climb from 0 to n at most in m steps, never down.
Climbs(m, n) == {f \in [1..m -> 0..n] : \A i, j \in 1..m : i <= j => f[i] <= f[j]}

\* As many as the binomial coefficient says.
IsCounted(m, n) ==
    /\ IsFiniteSet(Climbs(m, n))
    /\ Cardinality(Climbs(m, n)) * (Otp!factorial[n] * Otp!factorial[m]) = Otp!factorial[m + n]

\* Without a step, or without a height, there is one way.
LEMMA ClimbsBase ==
  ASSUME NEW n \in Nat
  PROVE  IsCounted(0, n) /\ IsCounted(n, 0)
  <1>1. /\ Otp!factorial[n] \in Nat \ {0} /\ Otp!factorial[0] = 1
    BY FactorialLemma
  <1>2. Climbs(0, n) = {[i \in {} |-> 0]}
    <2>1. 1..0 = {}
      OBVIOUS
    <2>2. [i \in {} |-> 0] \in Climbs(0, n)
      BY <2>1 DEF Climbs
    <2>3. ASSUME NEW f \in Climbs(0, n) PROVE f = [i \in {} |-> 0]
      BY <2>1 DEF Climbs
    <2> QED
      BY <2>2, <2>3
  <1>3. Climbs(n, 0) = {[i \in 1..n |-> 0]}
    <2>1. 0..0 = {0}
      OBVIOUS
    <2>2. [i \in 1..n |-> 0] \in Climbs(n, 0)
      BY <2>1 DEF Climbs
    <2>3. ASSUME NEW f \in Climbs(n, 0) PROVE f = [i \in 1..n |-> 0]
      BY <2>1 DEF Climbs
    <2> QED
      BY <2>2, <2>3
  <1>4. /\ IsFiniteSet(Climbs(0, n)) /\ Cardinality(Climbs(0, n)) = 1
        /\ IsFiniteSet(Climbs(n, 0)) /\ Cardinality(Climbs(n, 0)) = 1
    <2> DEFINE f == [i \in {} |-> 0]
               g == [i \in 1..n |-> 0]
    <2>1. Climbs(0, n) = {f} /\ Climbs(n, 0) = {g}
      BY <1>2, <1>3
    <2> HIDE DEF f, g
    <2> QED
      BY <2>1, FS_Singleton
  <1>5. n + 0 = n /\ 0 + n = n
    OBVIOUS
  <1> QED
    BY <1>1, <1>4, <1>5 DEF IsCounted

\* Those that end at the top are those of a step less, the others those of a
\* height less.
LEMMA ClimbsSplit ==
  ASSUME NEW m \in Nat \ {0}, NEW n \in Nat \ {0},
         IsFiniteSet(Climbs(m - 1, n)), IsFiniteSet(Climbs(m, n - 1))
  PROVE  /\ IsFiniteSet(Climbs(m, n))
         /\ Cardinality(Climbs(m, n)) =
               Cardinality(Climbs(m - 1, n)) + Cardinality(Climbs(m, n - 1))
  <1> DEFINE A == {f \in Climbs(m, n) : f[m] = n}
             B == Climbs(m, n - 1)
             C == Climbs(m - 1, n)
             h == [f \in C |-> [i \in 1..m |-> IF i = m THEN n ELSE f[i]]]
  <1>1. /\ m - 1 \in Nat /\ n - 1 \in Nat /\ m \in 1..m /\ n \in 0..n
        /\ \A i \in 1..m : i = m \/ i \in 1..m - 1
        /\ \A i \in 1..m - 1 : i \in 1..m /\ i # m /\ i <= m
        /\ \A x \in 0..n : x = n \/ x \in 0..n - 1
        /\ \A x \in 0..n - 1 : x \in 0..n /\ x # n
        /\ \A i \in 1..m : i <= m
        /\ \A x \in 0..n : x <= n
    OBVIOUS
  <1>2. ASSUME NEW f \in C
        PROVE  /\ h[f] \in A
               /\ \A i \in 1..m - 1 : h[f][i] = f[i]
    <2> DEFINE g == [i \in 1..m |-> IF i = m THEN n ELSE f[i]]
    <2>1. f \in [1..m - 1 -> 0..n] /\ \A i, j \in 1..m - 1 : i <= j => f[i] <= f[j]
      BY DEF Climbs
    <2>2. g \in [1..m -> 0..n] /\ g[m] = n /\ \A i \in 1..m - 1 : g[i] = f[i]
      BY <1>1, <2>1
    <2>3. h[f] = g
      OBVIOUS
    <2> HIDE DEF g, h
    <2>4. ASSUME NEW i \in 1..m, NEW j \in 1..m, i <= j PROVE g[i] <= g[j]
      <3>1. CASE j = m
        <4>1. g[i] \in 0..n
          BY <2>2
        <4> QED
          BY <1>1, <2>2, <3>1, <4>1
      <3>2. CASE j # m
        <4>1. j \in 1..m - 1
          BY <1>1, <3>2
        <4>2. i \in 1..m - 1
          BY <2>4, <4>1
        <4> QED
          BY <2>1, <2>2, <2>4, <4>1, <4>2
      <3> QED
        BY <3>1, <3>2
    <2>5. g \in Climbs(m, n)
      BY <2>2, <2>4 DEF Climbs
    <2> QED
      BY <2>2, <2>3, <2>5
  <1>3. h \in Bijection(C, A)
    <2>1. h \in [C -> A]
      <3>1. \A f \in C : h[f] \in A
        BY <1>2
      <3> HIDE DEF A, C
      <3> QED
        BY <3>1
    <2>2. ASSUME NEW f \in C, NEW g \in C, h[f] = h[g] PROVE f = g
      <3>1. f \in [1..m - 1 -> 0..n] /\ g \in [1..m - 1 -> 0..n]
        BY DEF Climbs
      <3>2. \A i \in 1..m - 1 : f[i] = h[f][i] /\ g[i] = h[g][i]
        BY <1>2
      <3> HIDE DEF h, C
      <3> QED
        BY <2>2, <3>1, <3>2
    <2>3. ASSUME NEW f \in A PROVE \E g \in C : h[g] = f
      <3> DEFINE g == [i \in 1..m - 1 |-> f[i]]
      <3>1. /\ f \in [1..m -> 0..n] /\ f[m] = n
            /\ \A i, j \in 1..m : i <= j => f[i] <= f[j]
        BY DEF Climbs
      <3>2. /\ g \in [1..m - 1 -> 0..n] /\ \A i \in 1..m - 1 : g[i] = f[i]
        BY <1>1, <3>1
      <3> HIDE DEF g
      <3>3. g \in C
        BY <1>1, <3>1, <3>2 DEF Climbs
      <3>4. h[g] = f
        <4>1. h[g] = [i \in 1..m |-> IF i = m THEN n ELSE g[i]]
          BY <3>3
        <4>2. \A i \in 1..m : f[i] = IF i = m THEN n ELSE g[i]
          BY <1>1, <3>1, <3>2
        <4> HIDE DEF h
        <4> QED
          BY <3>1, <4>1, <4>2
      <3> QED
        BY <3>3, <3>4
    <2> HIDE DEF h, A, C
    <2> QED
      BY <2>1, <2>2, <2>3, Fun_IsBij
  <1>4. IsFiniteSet(A) /\ Cardinality(A) = Cardinality(C)
    <2>1. ExistsBijection(C, A)
      <3> HIDE DEF h, A, C
      <3> QED
        BY <1>3, Fun_ExistsBij
    <2> HIDE DEF h, A
    <2> QED
      BY <2>1, FS_Bijection
  <1>5. Climbs(m, n) = A \cup B
    <2>1. ASSUME NEW f \in Climbs(m, n), f \notin A PROVE f \in B
      <3>1. /\ f \in [1..m -> 0..n] /\ f[m] # n
            /\ \A i, j \in 1..m : i <= j => f[i] <= f[j]
        BY <2>1 DEF Climbs
      <3>2. ASSUME NEW i \in 1..m PROVE f[i] \in 0..n - 1
        <4>1. f[i] \in 0..n /\ f[m] \in 0..n - 1 /\ f[i] <= f[m]
          BY <1>1, <3>1
        <4> QED
          BY <4>1
      <3>3. f \in [1..m -> 0..n - 1]
        BY <3>1, <3>2
      <3> QED
        BY <3>1, <3>3 DEF Climbs
    <2>2. ASSUME NEW f \in B PROVE f \in Climbs(m, n)
      <3>1. /\ f \in [1..m -> 0..n - 1]
            /\ \A i, j \in 1..m : i <= j => f[i] <= f[j]
        BY DEF Climbs
      <3>2. f \in [1..m -> 0..n]
        BY <1>1, <3>1
      <3> QED
        BY <3>1, <3>2 DEF Climbs
    <2>3. A \subseteq Climbs(m, n)
      OBVIOUS
    <2> HIDE DEF A, B
    <2> QED
      BY <2>1, <2>2, <2>3
  <1>6. A \cap B = {}
    <2>1. ASSUME NEW f \in B PROVE f[m] # n
      <3>1. f[m] \in 0..n - 1
        BY <1>1 DEF Climbs
      <3> QED
        BY <1>1, <3>1
    <2> QED
      BY <2>1
  <1> HIDE DEF A, B
  <1>7. IsFiniteSet(B)
    BY DEF B
  <1>8. /\ IsFiniteSet(A \cup B)
        /\ Cardinality(A \cup B) = Cardinality(A) + Cardinality(B) - 0
    BY <1>4, <1>6, <1>7, FS_Union, FS_EmptySet
  <1>9. Cardinality(A) \in Nat /\ Cardinality(B) \in Nat
    BY <1>4, <1>7, FS_CardinalityType
  <1>10. Cardinality(A) + Cardinality(B) - 0 = Cardinality(A) + Cardinality(B)
    BY <1>9
  <1> QED
    BY <1>4, <1>5, <1>8, <1>10 DEF B

\* The rule of Pascal, with the quotients multiplied out.
LEMMA PascalLemma ==
  ASSUME NEW m \in Nat \ {0}, NEW n \in Nat \ {0}, NEW x \in Nat, NEW y \in Nat,
         NEW a \in Nat, NEW b \in Nat, NEW c \in Nat,
         x * ((n * a) * b) = c, y * (a * (m * b)) = c
  PROVE  (x + y) * ((n * a) * (m * b)) = (m + n) * c
  <1>1. m \in Nat /\ n \in Nat
    OBVIOUS
  <1>2. (x + y) * ((n * a) * (m * b)) = m * (x * ((n * a) * b)) + n * (y * (a * (m * b)))
    BY <1>1
  <1>3. (m + n) * c = m * c + n * c
    BY <1>1
  <1> QED
    BY <1>2, <1>3

\* There are as many ways to climb as the binomial coefficient says.
LEMMA ClimbsCounted ==
  \A m, n \in Nat : IsCounted(m, n)
  <1> DEFINE S == {s \in Nat : \A m, n \in Nat : m + n = s => IsCounted(m, n)}
  <1>1. 0 \in S
    <2>1. \A m, n \in Nat : m + n = 0 => m = 0
      OBVIOUS
    <2> QED
      BY <2>1, ClimbsBase
  <1>2. ASSUME NEW s \in S PROVE s + 1 \in S
    <2>1. s \in Nat /\ \A m, n \in Nat : m + n = s => IsCounted(m, n)
      OBVIOUS
    <2> HIDE DEF S
    <2>2. ASSUME NEW m \in Nat, NEW n \in Nat, m + n = s + 1 PROVE IsCounted(m, n)
      <3>1. CASE m = 0 \/ n = 0
        BY <3>1, ClimbsBase
      <3>2. CASE m # 0 /\ n # 0
        <4>1. /\ m \in Nat \ {0} /\ n \in Nat \ {0} /\ m - 1 \in Nat /\ n - 1 \in Nat
              /\ m - 1 + n = s /\ m + (n - 1) = s
              /\ m - 1 + 1 = m /\ n - 1 + 1 = n /\ m + n = s + 1
          BY <2>1, <2>2, <3>2
        <4>2. IsCounted(m - 1, n) /\ IsCounted(m, n - 1)
          BY <2>1, <4>1
        <4>3. /\ IsFiniteSet(Climbs(m, n))
              /\ Cardinality(Climbs(m, n))
                    = Cardinality(Climbs(m - 1, n)) + Cardinality(Climbs(m, n - 1))
          BY <4>1, <4>2, ClimbsSplit DEF IsCounted
        <4> DEFINE x == Cardinality(Climbs(m - 1, n))
                   y == Cardinality(Climbs(m, n - 1))
                   a == Otp!factorial[n - 1]
                   b == Otp!factorial[m - 1]
                   c == Otp!factorial[s]
        <4>4. /\ x \in Nat /\ y \in Nat /\ a \in Nat /\ b \in Nat /\ c \in Nat
          BY <2>1, <4>1, <4>2, FactorialLemma, FS_CardinalityType DEF IsCounted
        <4>5. /\ Otp!factorial[n] = n * a /\ Otp!factorial[m] = m * b
              /\ Otp!factorial[s + 1] = (m + n) * c
          BY <2>1, <4>1, FactorialLemma
        <4>6. x * ((n * a) * b) = c
          BY <4>1, <4>2, <4>5 DEF IsCounted
        <4>7. y * (a * (m * b)) = c
          BY <4>1, <4>2, <4>5 DEF IsCounted
        <4> HIDE DEF x, y, a, b, c
        <4>8. (x + y) * ((n * a) * (m * b)) = (m + n) * c
          BY <4>1, <4>4, <4>6, <4>7, PascalLemma
        <4>9. Cardinality(Climbs(m, n)) = x + y
          BY <4>3 DEF x, y
        <4> QED
          BY <2>2, <4>3, <4>5, <4>8, <4>9 DEF IsCounted
      <3> QED
        BY <3>1, <3>2
    <2>3. s + 1 \in Nat
      BY <2>1
    <2> QED
      BY <2>2, <2>3 DEF S
  <1>3. S \in SUBSET Nat
    OBVIOUS
  <1> HIDE DEF S
  <1>4. S = Nat
    BY <1>1, <1>2, <1>3, AllNumbers
  <1>5. ASSUME NEW m \in Nat, NEW n \in Nat PROVE IsCounted(m, n)
    <2>1. m + n \in S
      BY <1>4
    <2> QED
      BY <2>1 DEF S
  <1> QED
    BY <1>5

\* A product divided by one of its factors.
LEMMA QuotientLemma ==
  ASSUME NEW q \in Nat, NEW d \in Nat \ {0}
  PROVE  (q * d) \div d = q
  <1> DEFINE r == (q * d) \div d
  <1>1. q * d \in Nat
    OBVIOUS
  <1>2. r \in Int /\ d * r <= q * d /\ q * d < d * r + d
    BY <1>1
  <1> HIDE DEF r
  <1>3. CASE r < q
    <2>1. q = r + 1 + (q - r - 1) /\ q - r - 1 \in Nat
      BY <1>2, <1>3
    <2>2. ASSUME NEW k \in Nat PROVE d * k >= 0
      OBVIOUS
    <2>3. q * d = d * r + d + d * (q - r - 1)
      BY <1>2, <2>1
    <2>4. d * (q - r - 1) >= 0
      BY <2>1, <2>2
    <2> QED
      BY <1>2, <2>3, <2>4
  <1>4. CASE r > q
    <2>1. r - q - 1 \in Nat
      BY <1>2, <1>4
    <2>2. ASSUME NEW k \in Nat PROVE d * k >= 0
      OBVIOUS
    <2>3. d * r = q * d + d + d * (r - q - 1)
      BY <1>2
    <2>4. d * (r - q - 1) >= 0
      BY <2>1, <2>2
    <2> QED
      BY <1>2, <2>3, <2>4
  <1> QED
    BY <1>2, <1>3, <1>4 DEF r

\* choose of Combinatorics counts the ways to climb.
LEMMA ChooseLemma ==
  ASSUME NEW m \in Nat, NEW n \in Nat
  PROVE  IsFiniteSet(Climbs(m, n)) /\ Otp!choose(m + n, n) = Cardinality(Climbs(m, n))
  <1> DEFINE x == Cardinality(Climbs(m, n))
             d == Otp!factorial[n] * Otp!factorial[m]
  <1>1. IsFiniteSet(Climbs(m, n)) /\ x * d = Otp!factorial[m + n]
    BY ClimbsCounted DEF IsCounted
  <1>2. x \in Nat /\ d \in Nat \ {0}
    <2>1. Otp!factorial[n] \in Nat \ {0} /\ Otp!factorial[m] \in Nat \ {0}
      BY FactorialLemma
    <2>2. ASSUME NEW a \in Nat \ {0}, NEW b \in Nat \ {0} PROVE a * b \in Nat \ {0}
      OBVIOUS
    <2> QED
      BY <1>1, <2>1, <2>2, FS_CardinalityType
  <1>3. m + n - n = m
    OBVIOUS
  <1>4. Otp!choose(m + n, n) = (x * d) \div d
    BY <1>1, <1>3 DEF Otp!choose
  <1> HIDE DEF x, d
  <1>5. (x * d) \div d = x
    BY <1>2, QuotientLemma
  <1> QED
    BY <1>1, <1>4, <1>5 DEF x

----------------------------------------------------------------------------
(* The codes.                                                              *)

\* The threads with a wrong code that is still to be counted, or to have the code
\* erased.
Pending == {k \in Thread : verify[k].pc \in {"adding", "counting", "exhausting"}}

\* One thread at a time: it counts from where the code is, every wrong code is
\* counted but the one that has the code erased, and what makes a session is erased
\* before the code is read again.
InTurn ==
    /\ \A j, k \in Thread : verify[j].pc # "idle" /\ verify[k].pc # "idle" => j = k
    /\ \A k \in Thread :
          /\ verify[k].pc # "idle" => stored
          /\ verify[k].pc = "judging" => Otp!Counted(k) = attempts
          /\ verify[k].pc = "counting" => verify[k].seen = attempts
          /\ verify[k].pc \in {"adding", "counting"} => attempts <= MaxAttempts
    /\ stored /\ Pending = {} => wrong = attempts
    /\ Pending # {} => wrong = attempts + 1
    /\ wrong <= attempts + 1 /\ attempts <= MaxAttempts + 1
    /\ granted <= 1
    /\ granted # 0 => ~stored \/ \E k \in Thread : verify[k].pc = "erasing"

\* The inductive invariant.
CodeInv == Otp!TypeOK /\ (~crowded => InTurn)

\* The state of a verification.
Verifying == [pc: {"idle", "judging", "adding", "counting", "exhausting", "erasing"},
              right: BOOLEAN, seen: Nat]

\* A thread goes from one to another.
LEMMA VerifyLemma ==
  ASSUME Otp!TypeOK, NEW k \in Thread, NEW t \in Verifying, verify' = [verify EXCEPT ![k] = t]
  PROVE  /\ verify' \in [Thread -> Verifying] /\ verify'[k] = t
         /\ \A j \in Thread \ {k} : verify'[j] = verify[j]
  BY DEF Otp!TypeOK, Verifying

\* What a step does to the thread that takes it.
LEMMA ThreadStep ==
  ASSUME Otp!TypeOK, NEW k \in Thread, NEW right \in BOOLEAN,
         \/ Otp!Reads(k, right) \/ Otp!Expired(k) \/ Otp!Exhausted(k) \/ Otp!Wrong(k)
         \/ Otp!Adds(k) \/ Otp!Counts(k) \/ Otp!Right(k) \/ Otp!Erases(k)
  PROVE  /\ Otp!TypeOK'
         /\ \A j \in Thread \ {k} : verify'[j] = verify[j]
         /\ kind' = kind /\ (crowded => crowded')
         /\ Otp!Reads(k, right) =>
               /\ verify'[k].pc = "judging" /\ Otp!Counted(k)' = attempts
         /\ Otp!Expired(k) \/ Otp!Right(k) => verify'[k].pc = "erasing"
         /\ Otp!Exhausted(k) => verify'[k].pc = "exhausting"
         /\ Otp!Wrong(k) =>
               IF kind = "memory" THEN verify'[k].pc = "adding"
               ELSE verify'[k].pc = "counting" /\ verify'[k].seen = verify[k].seen
         /\ Otp!Adds(k) => verify'[k].pc = "counting" /\ verify'[k].seen = attempts
         /\ Otp!Counts(k) \/ Otp!Erases(k) => verify'[k].pc = "idle"
  <1>1. /\ kind \in {"memory", "file", "firestore"} /\ attempts \in Nat
        /\ stored \in BOOLEAN /\ expired \in BOOLEAN /\ crowded \in BOOLEAN
        /\ verify \in [Thread -> Verifying] /\ wrong \in Nat /\ granted \in Nat
        /\ verify[k] \in Verifying /\ verify[k].seen \in Nat
    BY DEF Otp!TypeOK, Verifying
  <1>2. CASE Otp!Reads(k, right)
    <2> DEFINE t == [pc |-> "judging", right |-> right,
                     seen |-> IF kind = "memory" THEN 0 ELSE attempts]
    <2>1. /\ verify[k].pc = "idle" /\ verify' = [verify EXCEPT ![k] = t]
          /\ crowded' = (crowded \/ \E j \in Thread : verify[j].pc # "idle")
          /\ UNCHANGED <<kind, stored, attempts, expired, wrong, granted>>
      BY <1>2 DEF Otp!Reads, Otp!At
    <2>2. t \in Verifying /\ t.pc = "judging" /\ (kind # "memory" => t.seen = attempts)
      BY <1>1 DEF Verifying
    <2> HIDE DEF t
    <2>3. /\ verify' \in [Thread -> Verifying] /\ verify'[k] = t
          /\ \A j \in Thread \ {k} : verify'[j] = verify[j]
      BY <2>1, <2>2, VerifyLemma
    <2>4. Otp!TypeOK'
      BY <1>1, <2>1, <2>3 DEF Otp!TypeOK, Verifying
    <2>5. Otp!Counted(k)' = attempts
      BY <2>1, <2>2, <2>3 DEF Otp!Counted
    <2> QED
      BY <2>1, <2>2, <2>3, <2>4, <2>5
      DEF Otp!Expired, Otp!Exhausted, Otp!Wrong, Otp!Adds, Otp!Counts, Otp!Right, Otp!Erases, Otp!At
  <1>3. ASSUME NEW pc \in {"adding", "counting", "exhausting", "erasing"},
               verify' = [verify EXCEPT ![k].pc = pc]
        PROVE  /\ verify' \in [Thread -> Verifying] /\ verify'[k].pc = pc
               /\ verify'[k].seen = verify[k].seen
               /\ \A j \in Thread \ {k} : verify'[j] = verify[j]
    <2> DEFINE t == [verify[k] EXCEPT !.pc = pc]
    <2>1. verify' = [verify EXCEPT ![k] = t]
      BY <1>3
    <2>2. t \in Verifying /\ t.pc = pc /\ t.seen = verify[k].seen
      BY <1>1 DEF Verifying
    <2> HIDE DEF t
    <2> QED
      BY <2>1, <2>2, VerifyLemma
  <1>4. CASE Otp!Expired(k) \/ Otp!Right(k)
    <2>1. /\ verify[k].pc = "judging" /\ verify' = [verify EXCEPT ![k].pc = "erasing"]
          /\ UNCHANGED <<kind, stored, attempts, expired, wrong, crowded>>
          /\ granted' \in Nat
      BY <1>1, <1>4 DEF Otp!Expired, Otp!Right, Otp!Goes, Otp!At
    <2>2. Otp!TypeOK'
      BY <1>1, <1>3, <2>1 DEF Otp!TypeOK, Verifying
    <2> QED
      BY <1>3, <1>4, <2>1, <2>2
      DEF Otp!Reads, Otp!Exhausted, Otp!Wrong, Otp!Adds, Otp!Counts, Otp!Erases, Otp!At,
          Otp!Right, Otp!Expired
  <1>5. CASE Otp!Exhausted(k)
    <2>1. /\ verify[k].pc = "judging" /\ verify' = [verify EXCEPT ![k].pc = "exhausting"]
          /\ UNCHANGED <<kind, stored, attempts, expired, granted, crowded>>
          /\ wrong' \in Nat /\ ~expired /\ ~verify[k].right
          /\ ~(Otp!Counted(k) <= MaxAttempts)
      BY <1>1, <1>5, AttemptsAssumption DEF Otp!Exhausted, Otp!Goes, Otp!At, Otp!Counted
    <2>2. Otp!TypeOK'
      BY <1>1, <1>3, <2>1 DEF Otp!TypeOK, Verifying
    <2> QED
      BY <1>3, <1>5, <2>1, <2>2
      DEF Otp!Reads, Otp!Expired, Otp!Right, Otp!Wrong, Otp!Adds, Otp!Counts, Otp!Erases, Otp!At
  <1>6. CASE Otp!Wrong(k)
    <2> DEFINE pc == IF kind = "memory" THEN "adding" ELSE "counting"
    <2>1. /\ verify[k].pc = "judging" /\ verify' = [verify EXCEPT ![k].pc = pc]
          /\ UNCHANGED <<kind, stored, attempts, expired, granted, crowded>>
          /\ wrong' \in Nat /\ ~expired /\ ~verify[k].right
          /\ ~(Otp!Counted(k) > MaxAttempts)
      BY <1>1, <1>6, AttemptsAssumption DEF Otp!Wrong, Otp!Goes, Otp!At, Otp!Counted
    <2>2. /\ verify' \in [Thread -> Verifying] /\ verify'[k].pc = pc
          /\ verify'[k].seen = verify[k].seen
          /\ \A j \in Thread \ {k} : verify'[j] = verify[j]
      BY <1>3, <2>1
    <2>3. Otp!TypeOK'
      BY <1>1, <2>1, <2>2 DEF Otp!TypeOK, Verifying
    <2> QED
      BY <1>6, <2>1, <2>2, <2>3
      DEF Otp!Reads, Otp!Expired, Otp!Right, Otp!Exhausted, Otp!Adds, Otp!Counts, Otp!Erases, Otp!At
  <1>7. CASE Otp!Adds(k)
    <2> DEFINE t == [verify[k] EXCEPT !.pc = "counting", !.seen = attempts]
    <2>1. /\ verify[k].pc = "adding" /\ verify' = [verify EXCEPT ![k] = t]
          /\ UNCHANGED <<kind, stored, attempts, expired, wrong, granted, crowded>>
      BY <1>7 DEF Otp!Adds, Otp!At
    <2>2. t \in Verifying /\ t.pc = "counting" /\ t.seen = attempts
      BY <1>1 DEF Verifying
    <2> HIDE DEF t
    <2>3. /\ verify' \in [Thread -> Verifying] /\ verify'[k] = t
          /\ \A j \in Thread \ {k} : verify'[j] = verify[j]
      BY <2>1, <2>2, VerifyLemma
    <2>4. Otp!TypeOK'
      BY <1>1, <2>1, <2>3 DEF Otp!TypeOK, Verifying
    <2> QED
      BY <2>1, <2>2, <2>3, <2>4
      DEF Otp!Reads, Otp!Expired, Otp!Right, Otp!Exhausted, Otp!Wrong, Otp!Counts, Otp!Erases, Otp!At
  <1>8. CASE Otp!Counts(k) \/ Otp!Erases(k)
    <2>1. /\ verify[k].pc \in {"counting", "exhausting", "erasing"}
          /\ verify' = [verify EXCEPT ![k] = Otp!Idle]
          /\ UNCHANGED <<kind, expired, wrong, granted, crowded>>
          /\ stored' \in BOOLEAN /\ attempts' \in Nat
      <3>1. CASE Otp!Counts(k)
        BY <1>1, <3>1 DEF Otp!Counts, Otp!At
      <3>2. CASE Otp!Erases(k)
        BY <1>1, <3>2 DEF Otp!Erases, Otp!At
      <3> QED
        BY <1>8, <3>1, <3>2
    <2>2. Otp!Idle \in Verifying /\ Otp!Idle.pc = "idle"
      BY DEF Otp!Idle, Verifying
    <2>3. /\ verify' \in [Thread -> Verifying] /\ verify'[k] = Otp!Idle
          /\ \A j \in Thread \ {k} : verify'[j] = verify[j]
      BY <2>1, <2>2, VerifyLemma
    <2>4. Otp!TypeOK'
      BY <1>1, <2>1, <2>3 DEF Otp!TypeOK, Verifying
    <2> QED
      BY <2>1, <2>2, <2>3, <2>4
      DEF Otp!Reads, Otp!Expired, Otp!Right, Otp!Exhausted, Otp!Wrong, Otp!Adds, Otp!At
  <1> QED
    BY <1>2, <1>4, <1>5, <1>6, <1>7, <1>8

\* A step of a thread while the others are idle.
LEMMA InTurnStep ==
  ASSUME Otp!TypeOK, InTurn, NEW k \in Thread, NEW right \in BOOLEAN,
         \A j \in Thread \ {k} : verify[j].pc = "idle",
         \/ Otp!Reads(k, right) \/ Otp!Expired(k) \/ Otp!Exhausted(k) \/ Otp!Wrong(k)
         \/ Otp!Adds(k) \/ Otp!Counts(k) \/ Otp!Right(k) \/ Otp!Erases(k)
  PROVE  InTurn'
  <1> DEFINE pc == verify[k].pc
             next == verify'[k].pc
  <1>1. /\ MaxAttempts \in Nat /\ attempts \in Nat /\ wrong \in Nat /\ granted \in Nat
        /\ \A j \in Thread \ {k} : verify'[j].pc = "idle"
    BY ThreadStep, AttemptsAssumption DEF Otp!TypeOK
  <1>2. /\ Pending = IF pc \in {"adding", "counting", "exhausting"} THEN {k} ELSE {}
        /\ Pending' = IF next \in {"adding", "counting", "exhausting"} THEN {k} ELSE {}
    BY <1>1 DEF Pending
  <1>3. /\ pc # "idle" => stored
        /\ pc = "judging" => Otp!Counted(k) = attempts
        /\ pc = "counting" => verify[k].seen = attempts
        /\ pc \in {"adding", "counting"} => attempts <= MaxAttempts
        /\ stored /\ Pending = {} => wrong = attempts
        /\ Pending # {} => wrong = attempts + 1
        /\ wrong <= attempts + 1 /\ attempts <= MaxAttempts + 1 /\ granted <= 1
        /\ granted # 0 => ~stored \/ pc = "erasing"
    BY DEF InTurn
  <1>4. SUFFICES
           /\ next # "idle" => stored'
           /\ next = "judging" => Otp!Counted(k)' = attempts'
           /\ next = "counting" => verify'[k].seen = attempts'
           /\ next \in {"adding", "counting"} => attempts' <= MaxAttempts
           /\ stored' /\ Pending' = {} => wrong' = attempts'
           /\ Pending' # {} => wrong' = attempts' + 1
           /\ wrong' <= attempts' + 1 /\ attempts' <= MaxAttempts + 1 /\ granted' <= 1
           /\ granted' # 0 => ~stored' \/ next = "erasing"
    BY <1>1 DEF InTurn
  <1> HIDE DEF pc, next
  <1>5. CASE Otp!Reads(k, right)
    <2>1. /\ pc = "idle" /\ stored /\ UNCHANGED <<stored, attempts, wrong, granted>>
          /\ next = "judging" /\ Otp!Counted(k)' = attempts
      BY <1>5, ThreadStep DEF Otp!Reads, Otp!At, pc, next
    <2> QED
      BY <1>1, <1>2, <1>3, <2>1
  <1>6. CASE Otp!Expired(k) \/ Otp!Right(k)
    <2>1. /\ pc = "judging" /\ UNCHANGED <<stored, attempts, wrong>>
          /\ next = "erasing" /\ granted' \in {granted, granted + 1}
      BY <1>6, ThreadStep DEF Otp!Expired, Otp!Right, Otp!At, pc, next
    <2>2. granted = 0
      BY <1>3, <2>1
    <2> QED
      BY <1>1, <1>2, <1>3, <2>1, <2>2
  <1>7. CASE Otp!Exhausted(k)
    <2>1. /\ pc = "judging" /\ UNCHANGED <<stored, attempts, granted>>
          /\ next = "exhausting" /\ wrong' = wrong + 1
      BY <1>7, ThreadStep DEF Otp!Exhausted, Otp!At, pc, next
    <2> QED
      BY <1>1, <1>2, <1>3, <2>1
  <1>8. CASE Otp!Wrong(k)
    <2>1. /\ pc = "judging" /\ UNCHANGED <<stored, attempts, granted>>
          /\ next \in {"adding", "counting"} /\ wrong' = wrong + 1
          /\ Otp!Counted(k) <= MaxAttempts
          /\ next = "counting" => kind # "memory" /\ verify'[k].seen = verify[k].seen
      BY <1>8, ThreadStep DEF Otp!Wrong, Otp!At, pc, next
    <2>2. next = "counting" => verify'[k].seen = attempts
      BY <1>3, <2>1 DEF Otp!Counted
    <2> QED
      BY <1>1, <1>2, <1>3, <2>1, <2>2
  <1>9. CASE Otp!Adds(k)
    <2>1. /\ pc = "adding" /\ UNCHANGED <<stored, attempts, wrong, granted>>
          /\ next = "counting" /\ verify'[k].seen = attempts
      BY <1>9, ThreadStep DEF Otp!Adds, Otp!At, pc, next
    <2> QED
      BY <1>1, <1>2, <1>3, <2>1
  <1>10. CASE Otp!Counts(k)
    <2>1. /\ pc = "counting" /\ UNCHANGED <<wrong, granted>> /\ stored' = TRUE
          /\ next = "idle" /\ attempts' = verify[k].seen + 1
      BY <1>10, ThreadStep DEF Otp!Counts, Otp!At, pc, next
    <2>2. attempts' = attempts + 1 /\ granted = 0
      BY <1>3, <2>1
    <2> QED
      BY <1>1, <1>2, <1>3, <2>1, <2>2
  <1>11. CASE Otp!Erases(k)
    <2>1. /\ UNCHANGED <<attempts, wrong, granted>> /\ stored' = FALSE /\ next = "idle"
      BY <1>11, ThreadStep DEF Otp!Erases, next
    <2> QED
      BY <1>1, <1>2, <1>3, <2>1
  <1> QED
    BY <1>5, <1>6, <1>7, <1>8, <1>9, <1>10, <1>11

\* A step of one thread, or of time, keeps the invariant.
LEMMA CodeStep ==
  ASSUME CodeInv, Otp!Next
  PROVE  CodeInv'
  <1>1. CASE Otp!Expires
    BY <1>1 DEF Otp!Expires, CodeInv, Otp!TypeOK, InTurn, Pending, Otp!Counted
  <1>2. ASSUME NEW k \in Thread, NEW right \in BOOLEAN,
               \/ Otp!Reads(k, right) \/ Otp!Expired(k) \/ Otp!Exhausted(k) \/ Otp!Wrong(k)
               \/ Otp!Adds(k) \/ Otp!Counts(k) \/ Otp!Right(k) \/ Otp!Erases(k)
        PROVE  CodeInv'
    <2>1. Otp!TypeOK /\ Otp!TypeOK' /\ (crowded => crowded')
      BY <1>2, ThreadStep DEF CodeInv
    <2>2. ASSUME ~crowded' PROVE InTurn'
      <3>1. InTurn
        BY <2>1, <2>2 DEF CodeInv
      <3>2. \A j \in Thread \ {k} : verify[j].pc = "idle"
        <4>1. CASE Otp!Reads(k, right)
          BY <2>2, <4>1 DEF Otp!Reads, Otp!At
        <4>2. CASE ~Otp!Reads(k, right)
          <5>1. verify[k].pc # "idle"
            BY <1>2, <4>2
            DEF Otp!Expired, Otp!Right, Otp!Exhausted, Otp!Wrong, Otp!Adds, Otp!Counts,
                Otp!Erases, Otp!At
          <5> QED
            BY <3>1, <5>1 DEF InTurn
        <4> QED
          BY <4>1, <4>2
      <3> QED
        BY <1>2, <2>1, <3>1, <3>2, InTurnStep
    <2> QED
      BY <2>1, <2>2 DEF CodeInv
  <1>3. TRUE \in BOOLEAN
    OBVIOUS
  <1> QED
    BY <1>1, <1>2, <1>3 DEF Otp!Next

\* Threads that take turns count every wrong code but the one that ends the code
\* (otp.py, SampleOTPHandler).
THEOREM CodeInvariance == Otp!Spec => []CodeInv
  <1>1. Otp!Init => CodeInv
    <2> SUFFICES ASSUME Otp!Init PROVE CodeInv
      OBVIOUS
    <2>1. /\ \A k \in Thread : verify[k].pc = "idle"
          /\ verify \in [Thread -> Verifying]
      BY DEF Otp!Init, Otp!Idle, Verifying
    <2>2. Pending = {}
      BY <2>1 DEF Pending
    <2>3. Otp!TypeOK
      BY <2>1 DEF Otp!Init, Otp!TypeOK, Verifying
    <2>4. InTurn
      BY <2>1, <2>2, AttemptsAssumption DEF Otp!Init, InTurn
    <2> QED
      BY <2>3, <2>4 DEF CodeInv
  <1>2. ASSUME CodeInv, UNCHANGED Otp!ovars PROVE CodeInv'
    BY <1>2 DEF Otp!ovars, CodeInv, Otp!TypeOK, InTurn, Pending, Otp!Counted
  <1> QED
    BY <1>1, <1>2, CodeStep, PTL DEF Otp!Spec

\* Verified one after the other, a code is good for one session, and for no more wrong
\* codes than the limit and two (validate_otp, the attempts counter).
THEOREM CodesInTurn == Otp!Spec => []OneAtATime
  <1>1. CodeInv => OneAtATime
    <2> SUFFICES ASSUME CodeInv, ~crowded PROVE granted <= 1 /\ wrong <= MaxAttempts + 2
      BY DEF OneAtATime, Otp!OneAtATime
    <2> QED
      BY AttemptsAssumption DEF CodeInv, InTurn, Otp!TypeOK
  <1> QED
    BY <1>1, CodeInvariance, PTL

\* At most n.
Capped(i, n) == IF i <= n THEN i ELSE n

\* The number of attempts a thread would count from now, or later on.  One beyond
\* those that are counted has the code erased, and one more stands for a code that
\* is gone.  A wrong code puts the count back to where its thread was, and one more.
Level(k) ==
    CASE verify[k].pc = "idle" ->
            IF stored THEN Capped(attempts, MaxAttempts + 1) ELSE MaxAttempts + 2
      [] verify[k].pc = "judging" -> Capped(Otp!Counted(k), MaxAttempts + 1)
      [] verify[k].pc = "adding" -> Capped(attempts, MaxAttempts)
      [] verify[k].pc = "counting" -> Capped(verify[k].seen, MaxAttempts)
      [] verify[k].pc = "exhausting" -> MaxAttempts + 1
      [] verify[k].pc = "erasing" -> MaxAttempts + 2
Levels == [k \in Thread |-> Level(k)]

\* How many threads are below each of them.
Depths(level) == [i \in 1..MaxAttempts + 2 |-> Cardinality({k \in Thread : level[k] < i})]

\* The climbs after c: the first step at which they differ from it is higher.
Above(c, m, n) ==
    {d \in Climbs(m, n) :
        \E i \in 1..m : d[i] > c[i] /\ \A j \in 1..m : j < i => d[j] = c[j]}

\* The climbs that come after the one the threads are at.
Spent(level) == Above(Depths(level), MaxAttempts + 2, Cardinality(Thread))

\* Of the wrong codes, those that were counted or had the code erased have spent a
\* climb each.
Tried == wrong <= Cardinality(Spent(Levels)) + Cardinality(Pending)

\* One that is no lower up to a step, and higher there, comes after.
LEMMA AboveLemma ==
  ASSUME NEW m \in Nat, NEW n \in Nat, NEW c \in Climbs(m, n), NEW d \in Climbs(m, n),
         NEW i \in 1..m, d[i] > c[i], \A j \in 1..m : j < i => d[j] >= c[j]
  PROVE  d \in Above(c, m, n)
  <1> DEFINE S == {j \in 1..m : d[j] > c[j]}
             R == OpToRel(<, Nat)
  <1>1. IsWellFoundedOn(R, Nat)
    BY NatLessThanWellFounded
  <1>2. \A j, k \in Nat : j < k => <<j, k>> \in R
    BY DEF OpToRel
  <1> HIDE DEF R
  <1>3. S \in SUBSET Nat /\ i \in S
    OBVIOUS
  <1> HIDE DEF S
  <1>4. PICK k \in S : \A j \in S : ~(<<j, k>> \in R)
    BY <1>1, <1>3, WFMin
  <1>5. k \in 1..m /\ d[k] > c[k] /\ \A j \in 1..m : j < k => ~(d[j] > c[j])
    BY <1>2, <1>3, <1>4 DEF S
  <1>6. k <= i
    BY <1>5
  <1>7. c \in [1..m -> 0..n] /\ d \in [1..m -> 0..n]
    BY DEF Climbs
  <1>8. ASSUME NEW j \in 1..m, j < k PROVE d[j] = c[j]
    <2>1. d[j] >= c[j] /\ ~(d[j] > c[j]) /\ d[j] \in 0..n /\ c[j] \in 0..n
      BY <1>5, <1>6, <1>7, <1>8
    <2> QED
      BY <2>1
  <1> QED
    BY <1>5, <1>8 DEF Above

\* A climb that goes down somewhere, or stays as it is, leaves as many after it;
\* one that goes down before it goes up leaves one more.
LEMMA DownLemma ==
  ASSUME NEW m \in Nat, NEW n \in Nat, NEW c \in Climbs(m, n), NEW e \in Climbs(m, n)
  PROVE  /\ IsFiniteSet(Above(c, m, n)) /\ IsFiniteSet(Above(e, m, n))
         /\ (\A j \in 1..m : e[j] <= c[j]) =>
               Cardinality(Above(c, m, n)) <= Cardinality(Above(e, m, n))
         /\ (\E i \in 1..m : e[i] < c[i] /\ \A j \in 1..m : j < i => e[j] <= c[j]) =>
               Cardinality(Above(c, m, n)) + 1 <= Cardinality(Above(e, m, n))
  <1>1. IsFiniteSet(Climbs(m, n)) /\ c \in [1..m -> 0..n] /\ e \in [1..m -> 0..n]
    BY ChooseLemma DEF Climbs
  <1>2. IsFiniteSet(Above(c, m, n)) /\ IsFiniteSet(Above(e, m, n))
    <2>1. Above(c, m, n) \in SUBSET Climbs(m, n) /\ Above(e, m, n) \in SUBSET Climbs(m, n)
      BY DEF Above
    <2> QED
      BY <1>1, <2>1, FS_Subset
  <1>3. ASSUME NEW k \in 1..m, \A j \in 1..m : j < k => e[j] <= c[j],
               k = m \/ e[k] < c[k], e[k] <= c[k]
        PROVE  Above(c, m, n) \subseteq Above(e, m, n)
    <2> SUFFICES ASSUME NEW d \in Above(c, m, n) PROVE d \in Above(e, m, n)
      OBVIOUS
    <2>1. PICK i \in 1..m : d[i] > c[i] /\ \A j \in 1..m : j < i => d[j] = c[j]
      BY DEF Above
    <2>2. d \in Climbs(m, n) /\ d \in [1..m -> 0..n]
      BY DEF Above, Climbs
    <2>3. \A j \in 1..m : d[j] \in 0..n /\ c[j] \in 0..n /\ e[j] \in 0..n
      BY <1>1, <2>2
    <2>4. CASE i <= k
      <3>1. e[i] <= c[i]
        BY <1>3, <2>4
      <3>2. d[i] > e[i]
        BY <2>1, <2>3, <3>1
      <3>3. ASSUME NEW j \in 1..m, j < i PROVE d[j] >= e[j]
        BY <1>3, <2>1, <2>3, <2>4, <3>3
      <3> QED
        BY <2>2, <3>2, <3>3, AboveLemma
    <2>5. CASE i > k
      <3>1. d[k] > e[k]
        BY <1>3, <2>1, <2>3, <2>5
      <3>2. ASSUME NEW j \in 1..m, j < k PROVE d[j] >= e[j]
        BY <1>3, <2>1, <2>3, <2>5, <3>2
      <3> QED
        BY <2>2, <3>1, <3>2, AboveLemma
    <2> QED
      BY <2>4, <2>5
  <1>4. ASSUME \A j \in 1..m : e[j] <= c[j]
        PROVE  Cardinality(Above(c, m, n)) <= Cardinality(Above(e, m, n))
    <2>1. Above(c, m, n) \subseteq Above(e, m, n)
      <3>1. CASE m = 0
        BY <3>1 DEF Above
      <3>2. CASE m # 0
        <4>1. m \in 1..m
          BY <3>2
        <4> QED
          BY <1>3, <1>4, <4>1
      <3> QED
        BY <3>1, <3>2
    <2> QED
      BY <1>2, <2>1, FS_Subset
  <1>5. ASSUME NEW i \in 1..m, e[i] < c[i], \A j \in 1..m : j < i => e[j] <= c[j]
        PROVE  Cardinality(Above(c, m, n)) + 1 <= Cardinality(Above(e, m, n))
    <2>1. e[i] \in 0..n /\ c[i] \in 0..n
      BY <1>1
    <2>2. Above(c, m, n) \subseteq Above(e, m, n)
      BY <1>3, <1>5, <2>1
    <2>3. c \in Above(e, m, n)
      <3>1. c[i] > e[i] /\ \A j \in 1..m : j < i => c[j] >= e[j]
        BY <1>1, <1>5, <2>1
      <3> QED
        BY <3>1, AboveLemma
    <2>4. c \notin Above(c, m, n)
      BY <1>1 DEF Above
    <2>5. /\ IsFiniteSet(Above(c, m, n) \cup {c})
          /\ Cardinality(Above(c, m, n) \cup {c}) = Cardinality(Above(c, m, n)) + 1
      BY <1>2, <2>4, FS_AddElement
    <2>6. Above(c, m, n) \cup {c} \in SUBSET Above(e, m, n)
      BY <2>2, <2>3
    <2>7. Cardinality(Above(c, m, n) \cup {c}) <= Cardinality(Above(e, m, n))
      BY <1>2, <2>6, FS_Subset
    <2> QED
      BY <2>5, <2>7
  <1> QED
    BY <1>2, <1>4, <1>5

\* The depths of the threads are a climb.
LEMMA DepthsLemma ==
  ASSUME NEW level \in [Thread -> Nat]
  PROVE  /\ Depths(level) \in Climbs(MaxAttempts + 2, Cardinality(Thread))
         /\ \A i \in 1..MaxAttempts + 2 :
               /\ IsFiniteSet({k \in Thread : level[k] < i})
               /\ Depths(level)[i] = Cardinality({k \in Thread : level[k] < i})
  <1> DEFINE T(i) == {k \in Thread : level[k] < i}
             c == Depths(level)
             n == Cardinality(Thread)
  <1>1. IsFiniteSet(Thread) /\ MaxAttempts \in Nat /\ n \in Nat
    BY AttemptsAssumption, FS_CardinalityType
  <1>2. ASSUME NEW i \in 1..MaxAttempts + 2
        PROVE  IsFiniteSet(T(i)) /\ c[i] = Cardinality(T(i)) /\ c[i] \in 0..n
    <2>1. T(i) \in SUBSET Thread
      OBVIOUS
    <2>2. c[i] = Cardinality(T(i))
      BY DEF Depths
    <2> HIDE DEF T, c, n
    <2>3. IsFiniteSet(T(i)) /\ Cardinality(T(i)) <= n /\ Cardinality(T(i)) \in Nat
      BY <1>1, <2>1, FS_Subset, FS_CardinalityType DEF n
    <2> QED
      BY <1>1, <2>2, <2>3
  <1>3. ASSUME NEW i \in 1..MaxAttempts + 2, NEW j \in 1..MaxAttempts + 2, i <= j
        PROVE  c[i] <= c[j]
    <2>1. T(i) \in SUBSET T(j)
      <3>1. \A k \in Thread : level[k] \in Nat /\ (level[k] < i => level[k] < j)
        BY <1>3
      <3> QED
        BY <3>1
    <2> HIDE DEF T, c
    <2> QED
      BY <1>2, <2>1, FS_Subset
  <1>4. c \in [1..MaxAttempts + 2 -> 0..n]
    <2>1. c = [i \in 1..MaxAttempts + 2 |-> c[i]]
      BY DEF Depths
    <2> HIDE DEF c, n, T
    <2> QED
      BY <1>2, <2>1
  <1> HIDE DEF c, n
  <1>5. c \in Climbs(MaxAttempts + 2, n)
    BY <1>3, <1>4 DEF Climbs
  <1> QED
    BY <1>2, <1>5 DEF c, n

\* Threads that are all as high as before, or higher, leave as many climbs.
LEMMA HigherLemma ==
  ASSUME NEW level \in [Thread -> Nat], NEW new \in [Thread -> Nat],
         \A k \in Thread : level[k] <= new[k]
  PROVE  /\ Cardinality(Spent(level)) \in Nat /\ Cardinality(Spent(new)) \in Nat
         /\ Cardinality(Spent(level)) <= Cardinality(Spent(new))
  <1> DEFINE m == MaxAttempts + 2
             n == Cardinality(Thread)
             c == Depths(level)
             e == Depths(new)
  <1>1. m \in Nat /\ n \in Nat
    BY AttemptsAssumption, FS_CardinalityType
  <1>2. c \in Climbs(m, n) /\ e \in Climbs(m, n)
    BY DepthsLemma
  <1>3. ASSUME NEW i \in 1..m PROVE e[i] <= c[i]
    <2> DEFINE T == {k \in Thread : level[k] < i}
               U == {k \in Thread : new[k] < i}
    <2>1. IsFiniteSet(T) /\ c[i] = Cardinality(T) /\ e[i] = Cardinality(U)
      BY DepthsLemma
    <2>2. U \in SUBSET T
      OBVIOUS
    <2> HIDE DEF T, U, c, e, m
    <2> QED
      BY <2>1, <2>2, FS_Subset
  <1> HIDE DEF c, e, m, n
  <1>4. /\ IsFiniteSet(Above(c, m, n)) /\ IsFiniteSet(Above(e, m, n))
        /\ Cardinality(Above(c, m, n)) <= Cardinality(Above(e, m, n))
    BY <1>1, <1>2, <1>3, DownLemma
  <1> QED
    BY <1>4, FS_CardinalityType DEF Spent, c, e, m, n

\* A thread that goes up, while none comes below where it was, leaves one more.
LEMMA CountedLemma ==
  ASSUME NEW level \in [Thread -> Nat], NEW new \in [Thread -> Nat],
         NEW k \in Thread, level[k] < new[k], level[k] <= MaxAttempts + 1,
         \A j \in Thread : new[j] <= level[k] => level[j] <= new[j]
  PROVE  /\ Cardinality(Spent(level)) \in Nat /\ Cardinality(Spent(new)) \in Nat
         /\ Cardinality(Spent(level)) + 1 <= Cardinality(Spent(new))
  <1> DEFINE m == MaxAttempts + 2
             n == Cardinality(Thread)
             c == Depths(level)
             e == Depths(new)
             s == level[k] + 1
  <1>1. m \in Nat /\ n \in Nat /\ MaxAttempts \in Nat /\ s \in 1..m
    BY AttemptsAssumption, FS_CardinalityType
  <1>2. c \in Climbs(m, n) /\ e \in Climbs(m, n)
    BY DepthsLemma
  <1>3. ASSUME NEW i \in 1..m, i <= s
        PROVE  e[i] <= c[i] /\ (i = s => e[i] < c[i])
    <2> DEFINE T == {j \in Thread : level[j] < i}
               U == {j \in Thread : new[j] < i}
    <2>1. IsFiniteSet(T) /\ c[i] = Cardinality(T) /\ e[i] = Cardinality(U)
      BY DepthsLemma
    <2>2. U \in SUBSET T
      <3>1. ASSUME NEW j \in Thread, new[j] < i PROVE level[j] < i
        BY <1>3, <3>1
      <3> QED
        BY <3>1
    <2>3. i = s => k \in T /\ k \notin U
      OBVIOUS
    <2> HIDE DEF T, U, c, e, m, s
    <2>4. IsFiniteSet(U) /\ Cardinality(U) <= Cardinality(T)
          /\ Cardinality(T) \in Nat /\ Cardinality(U) \in Nat
      BY <2>1, <2>2, FS_Subset, FS_CardinalityType
    <2>5. Cardinality(U) = Cardinality(T) => U = T
      BY <2>1, <2>2, FS_Subset
    <2> QED
      BY <2>1, <2>3, <2>4, <2>5
  <1> HIDE DEF c, e, m, n, s
  <1>4. e[s] < c[s] /\ \A j \in 1..m : j < s => e[j] <= c[j]
    <2>1. \A j \in 1..m : j < s => j <= s
      BY <1>1
    <2> QED
      BY <1>1, <1>3, <2>1
  <1>5. /\ IsFiniteSet(Above(c, m, n)) /\ IsFiniteSet(Above(e, m, n))
        /\ Cardinality(Above(c, m, n)) + 1 <= Cardinality(Above(e, m, n))
    BY <1>1, <1>2, <1>4, DownLemma
  <1> QED
    BY <1>5, FS_CardinalityType DEF Spent, c, e, m, n

\* Threads that are yet to go up leave a climb each, and one more.
Leaves(p) ==
    \A level \in [Thread -> Nat], P \in SUBSET Thread :
        Cardinality(P) = p /\ (\A k \in P : level[k] <= MaxAttempts + 1) =>
            Cardinality(Spent(level)) + p
                < Cardinality(Climbs(MaxAttempts + 2, Cardinality(Thread)))

\* The climb the threads are at is not one of those after it.
LEMMA SpentLemma ==
  ASSUME NEW level \in [Thread -> Nat]
  PROVE  /\ Cardinality(Spent(level)) \in Nat
         /\ Cardinality(Spent(level)) < Cardinality(Climbs(MaxAttempts + 2, Cardinality(Thread)))
  <1> DEFINE m == MaxAttempts + 2
             n == Cardinality(Thread)
             c == Depths(level)
  <1>1. m \in Nat /\ n \in Nat
    BY AttemptsAssumption, FS_CardinalityType
  <1>2. c \in Climbs(m, n)
    BY DepthsLemma
  <1>3. c \notin Above(c, m, n)
    <2>1. c \in [1..m -> 0..n]
      BY <1>2 DEF Climbs
    <2> HIDE DEF c, m, n
    <2>2. \A i \in 1..m : ~(c[i] > c[i])
      BY <2>1
    <2> QED
      BY <2>2 DEF Above
  <1>4. Spent(level) = Above(c, m, n)
    BY DEF Spent
  <1> HIDE DEF c, m, n
  <1>5. IsFiniteSet(Climbs(m, n)) /\ Above(c, m, n) \in SUBSET Climbs(m, n)
    BY <1>1, ChooseLemma DEF Above
  <1>6. /\ Cardinality(Above(c, m, n)) <= Cardinality(Climbs(m, n))
        /\ Cardinality(Above(c, m, n)) # Cardinality(Climbs(m, n))
        /\ Cardinality(Above(c, m, n)) \in Nat /\ Cardinality(Climbs(m, n)) \in Nat
    BY <1>2, <1>3, <1>5, FS_Subset, FS_CardinalityType
  <1> QED
    BY <1>4, <1>6 DEF m, n

\* They do, however many they are.
LEMMA RaisedLemma ==
  \A p \in Nat : Leaves(p)
  <1> DEFINE S == {p \in Nat : Leaves(p)}
             all == Cardinality(Climbs(MaxAttempts + 2, Cardinality(Thread)))
  <1>1. all \in Nat
    <2>1. MaxAttempts + 2 \in Nat /\ Cardinality(Thread) \in Nat
      BY AttemptsAssumption, FS_CardinalityType
    <2> QED
      BY <2>1, ChooseLemma, FS_CardinalityType
  <1>2. Leaves(0)
    <2> SUFFICES ASSUME NEW level \in [Thread -> Nat] PROVE Cardinality(Spent(level)) + 0 < all
      BY DEF Leaves
    <2> HIDE DEF all
    <2>1. Cardinality(Spent(level)) \in Nat /\ Cardinality(Spent(level)) < all
      BY SpentLemma DEF all
    <2> QED
      BY <1>1, <2>1
  <1>3. ASSUME NEW p \in Nat, Leaves(p) PROVE Leaves(p + 1)
    <2> SUFFICES ASSUME NEW level \in [Thread -> Nat], NEW P \in SUBSET Thread,
                        Cardinality(P) = p + 1, \A k \in P : level[k] <= MaxAttempts + 1
                 PROVE  Cardinality(Spent(level)) + (p + 1) < all
      BY DEF Leaves
    <2>1. IsFiniteSet(P)
      BY AttemptsAssumption, FS_Subset
    <2>2. PICK k \in P : TRUE
      BY <2>1, FS_EmptySet
    <2> DEFINE new == [level EXCEPT ![k] = MaxAttempts + 2]
    <2>3. /\ new \in [Thread -> Nat] /\ k \in Thread /\ level[k] \in Nat
          /\ level[k] <= MaxAttempts + 1 /\ new[k] = MaxAttempts + 2 /\ level[k] < new[k]
          /\ \A j \in Thread \ {k} : new[j] = level[j]
      BY <2>2, AttemptsAssumption
    <2> HIDE DEF new, all
    <2>4. \A j \in Thread : new[j] <= level[k] => level[j] <= new[j]
      <3>1. \A j \in Thread : level[j] \in Nat
        OBVIOUS
      <3> QED
        BY <2>3, <3>1, AttemptsAssumption
    <2>5. /\ Cardinality(Spent(level)) \in Nat /\ Cardinality(Spent(new)) \in Nat
          /\ Cardinality(Spent(level)) + 1 <= Cardinality(Spent(new))
      BY <2>3, <2>4, CountedLemma
    <2>6. Cardinality(P \ {k}) = p
      <3>1. Cardinality(P \ {k}) = Cardinality(P) - 1
        BY <2>1, <2>2, FS_RemoveElement
      <3> QED
        BY <3>1
    <2>7. \A j \in P \ {k} : new[j] <= MaxAttempts + 1
      BY <2>3
    <2>8. Cardinality(Spent(new)) + p < all
      BY <1>3, <2>3, <2>6, <2>7 DEF Leaves, all
    <2> QED
      BY <1>1, <2>5, <2>8
  <1>4. 0 \in S /\ (\A p \in S : p + 1 \in S) /\ S \in SUBSET Nat
    BY <1>2, <1>3
  <1> HIDE DEF S
  <1>5. S = Nat
    BY <1>4, AllNumbers
  <1> QED
    BY <1>5 DEF S

\* The levels are numbers, and a pending thread is to go up.
LEMMA LevelsLemma ==
  ASSUME Otp!TypeOK
  PROVE  /\ Levels \in [Thread -> Nat]
         /\ \A k \in Thread :
               /\ Levels[k] = Level(k) /\ Level(k) \in Nat
               /\ k \in Pending => Level(k) <= MaxAttempts + 1
         /\ IsFiniteSet(Pending) /\ Cardinality(Pending) \in Nat /\ Pending \in SUBSET Thread
  <1>1. ASSUME NEW k \in Thread
        PROVE  Level(k) \in Nat /\ (k \in Pending => Level(k) <= MaxAttempts + 1)
    <2>1. /\ attempts \in Nat /\ MaxAttempts \in Nat /\ verify[k].seen \in Nat
          /\ verify[k].pc \in {"idle", "judging", "adding", "counting", "exhausting", "erasing"}
      BY AttemptsAssumption DEF Otp!TypeOK
    <2>2. Otp!Counted(k) \in Nat
      BY <2>1 DEF Otp!Counted
    <2> QED
      BY <2>1, <2>2 DEF Level, Capped, Pending
  <1>2. Pending \in SUBSET Thread
    BY DEF Pending
  <1>3. IsFiniteSet(Pending) /\ Cardinality(Pending) \in Nat
    BY <1>2, AttemptsAssumption, FS_Subset, FS_CardinalityType
  <1> QED
    BY <1>1, <1>2, <1>3 DEF Levels

\* How a step changes the levels and the threads that are pending.
Rises == \A k \in Thread : Level(k) <= Level(k)'
Spends(k) == /\ Level(k) < Level(k)' /\ Level(k) <= MaxAttempts + 1
             /\ \A j \in Thread : Level(j)' <= Level(k) => Level(j) <= Level(j)'

\* A wrong code makes its thread pending; it is spent when the thread no longer is.
LEMMA TriedLemma ==
  ASSUME Otp!TypeOK, Otp!TypeOK', Tried, NEW k \in Thread,
         \/ wrong' = wrong /\ Pending' = Pending /\ Rises
         \/ wrong' = wrong + 1 /\ k \notin Pending /\ Pending' = Pending \cup {k} /\ Rises
         \/ wrong' = wrong /\ k \in Pending /\ Pending' = Pending \ {k} /\ Spends(k)
  PROVE  Tried'
  <1> DEFINE level == Levels
             new == Levels'
             spent == Cardinality(Spent(level))
             next == Cardinality(Spent(new))
             pending == Cardinality(Pending)
  <1>1. /\ level \in [Thread -> Nat] /\ \A j \in Thread : level[j] = Level(j)
        /\ IsFiniteSet(Pending) /\ pending \in Nat
    BY LevelsLemma
  <1>2. /\ new \in [Thread -> Nat] /\ \A j \in Thread : new[j] = Level(j)'
    <2>1. \A j \in Thread : Level(j)' \in Nat
      <3> SUFFICES ASSUME NEW j \in Thread PROVE Level(j)' \in Nat
        OBVIOUS
      <3>1. /\ attempts' \in Nat /\ MaxAttempts \in Nat /\ verify'[j].seen \in Nat
            /\ verify'[j].pc \in {"idle", "judging", "adding", "counting", "exhausting",
                                  "erasing"}
        BY AttemptsAssumption DEF Otp!TypeOK
      <3>2. Otp!Counted(j)' \in Nat
        BY <3>1 DEF Otp!Counted
      <3> QED
        BY <3>1, <3>2 DEF Level, Capped
    <2> QED
      BY <2>1 DEF Levels
  <1>3. wrong \in Nat /\ wrong <= spent + pending
    BY DEF Otp!TypeOK, Tried
  <1>4. wrong' <= next + Cardinality(Pending') => Tried'
    BY DEF Tried, Spent, Above, Depths
  <1> HIDE DEF level, new, spent, next, pending, Level
  <1>5. Rises => spent \in Nat /\ next \in Nat /\ spent <= next
    <2>1. Rises => \A j \in Thread : level[j] <= new[j]
      BY <1>1, <1>2 DEF Rises
    <2> QED
      BY <1>1, <1>2, <2>1, HigherLemma DEF spent, next
  <1>6. Spends(k) => spent \in Nat /\ next \in Nat /\ spent + 1 <= next
    <2>1. Spends(k) => /\ level[k] < new[k] /\ level[k] <= MaxAttempts + 1
                       /\ \A j \in Thread : new[j] <= level[k] => level[j] <= new[j]
      BY <1>1, <1>2 DEF Spends
    <2> QED
      BY <1>1, <1>2, <2>1, CountedLemma DEF spent, next
  <1>7. CASE wrong' = wrong /\ Pending' = Pending /\ Rises
    BY <1>1, <1>3, <1>4, <1>5, <1>7 DEF pending
  <1>8. CASE wrong' = wrong + 1 /\ k \notin Pending /\ Pending' = Pending \cup {k} /\ Rises
    <2>1. Cardinality(Pending') = pending + 1
      BY <1>1, <1>8, FS_AddElement DEF pending
    <2> QED
      BY <1>1, <1>3, <1>4, <1>5, <1>8, <2>1
  <1>9. CASE wrong' = wrong /\ k \in Pending /\ Pending' = Pending \ {k} /\ Spends(k)
    <2>1. Cardinality(Pending') = pending - 1
      BY <1>1, <1>9, FS_RemoveElement DEF pending
    <2> QED
      BY <1>1, <1>3, <1>4, <1>6, <1>9, <2>1
  <1> QED
    BY <1>7, <1>8, <1>9

\* A step that leaves the tries of a code, or takes one.
LEMMA TriedStep ==
  ASSUME CodeInv, CodeInv', Tried, Otp!Next
  PROVE  Tried'
  <1>1. /\ Otp!TypeOK /\ Otp!TypeOK'
        /\ MaxAttempts \in Nat /\ attempts \in Nat
        /\ \A j \in Thread :
              /\ verify[j].seen \in Nat /\ Otp!Counted(j) \in Nat
              /\ verify[j].pc \in {"idle", "judging", "adding", "counting", "exhausting",
                                   "erasing"}
    BY AttemptsAssumption DEF CodeInv, Otp!TypeOK, Otp!Counted
  <1>2. CASE Otp!Expires
    <2>1. UNCHANGED <<kind, stored, attempts, verify, wrong>>
      BY <1>2 DEF Otp!Expires
    <2>2. Pending' = Pending /\ \A j \in Thread : Level(j)' = Level(j)
      BY <2>1 DEF Pending, Level, Otp!Counted
    <2>3. Rises
      <3>1. \A j \in Thread : Level(j) \in Nat
        BY <1>1, LevelsLemma
      <3> HIDE DEF Level
      <3> QED
        BY <2>2, <3>1 DEF Rises
    <2>4. Levels' = Levels
      BY <2>2 DEF Levels
    <2> QED
      BY <2>1, <2>2, <2>4 DEF Tried, Spent, Above, Depths
  <1>3. ASSUME NEW k \in Thread, NEW right \in BOOLEAN,
               \/ Otp!Reads(k, right) \/ Otp!Expired(k) \/ Otp!Exhausted(k) \/ Otp!Wrong(k)
               \/ Otp!Adds(k) \/ Otp!Counts(k) \/ Otp!Right(k) \/ Otp!Erases(k)
        PROVE  Tried'
    <2> DEFINE pc == verify[k].pc
               next == verify'[k].pc
    <2>1. /\ \A j \in Thread \ {k} : verify'[j] = verify[j]
          /\ kind' = kind /\ pc # next
      BY <1>1, <1>3, ThreadStep
      DEF Otp!Reads, Otp!Expired, Otp!Right, Otp!Exhausted, Otp!Wrong, Otp!Adds, Otp!Counts,
          Otp!Erases, Otp!At
    <2>2. /\ k \in Pending <=> pc \in {"adding", "counting", "exhausting"}
          /\ next \in {"adding", "counting", "exhausting"} => Pending' = Pending \cup {k}
          /\ next \notin {"adding", "counting", "exhausting"} => Pending' = Pending \ {k}
      BY <2>1 DEF Pending
    <2>3. \A j \in Thread : Level(j) \in Nat
      BY <1>1, LevelsLemma
    \* The other threads stay where they are as long as the code does.
    <2>4. ASSUME UNCHANGED <<stored, attempts>>, Level(k) <= Level(k)' PROVE Rises
      <3>1. \A j \in Thread \ {k} : Level(j)' = Level(j)
        BY <2>1, <2>4 DEF Level, Otp!Counted
      <3> HIDE DEF Level
      <3> QED
        BY <2>3, <2>4, <3>1 DEF Rises
    <2>5. CASE Otp!Reads(k, right)
      <3>1. /\ pc = "idle" /\ stored /\ UNCHANGED <<stored, attempts, wrong>>
            /\ next = "judging" /\ Otp!Counted(k)' = attempts
        BY <2>5, ThreadStep, <1>1 DEF Otp!Reads, Otp!At
      <3>2. Level(k) <= Level(k)'
        BY <1>1, <3>1 DEF Level, Capped
      <3> QED
        BY <1>1, <2>2, <2>4, <3>1, <3>2, TriedLemma
    <2>6. CASE Otp!Expired(k) \/ Otp!Right(k)
      <3>1. /\ pc = "judging" /\ UNCHANGED <<stored, attempts, wrong>> /\ next = "erasing"
        BY <2>6, ThreadStep, <1>1 DEF Otp!Expired, Otp!Right, Otp!At
      <3>2. Level(k) <= Level(k)'
        BY <1>1, <3>1 DEF Level, Capped
      <3> QED
        BY <1>1, <2>2, <2>4, <3>1, <3>2, TriedLemma
    <2>7. CASE Otp!Exhausted(k)
      <3>1. /\ pc = "judging" /\ UNCHANGED <<stored, attempts>> /\ wrong' = wrong + 1
            /\ next = "exhausting"
        BY <2>7, ThreadStep, <1>1 DEF Otp!Exhausted, Otp!At
      <3>2. Level(k) <= Level(k)'
        BY <1>1, <3>1 DEF Level, Capped
      <3> QED
        BY <1>1, <2>2, <2>4, <3>1, <3>2, TriedLemma
    <2>8. CASE Otp!Wrong(k)
      <3>1. /\ pc = "judging" /\ UNCHANGED <<stored, attempts>> /\ wrong' = wrong + 1
            /\ Otp!Counted(k) <= MaxAttempts
            /\ IF kind = "memory" THEN next = "adding"
               ELSE next = "counting" /\ verify'[k].seen = verify[k].seen
        BY <2>8, ThreadStep, <1>1 DEF Otp!Wrong, Otp!At
      <3>2. Level(k) <= Level(k)'
        BY <1>1, <3>1 DEF Level, Capped, Otp!Counted
      <3> QED
        BY <1>1, <2>2, <2>4, <3>1, <3>2, TriedLemma
    <2>9. CASE Otp!Adds(k)
      <3>1. /\ pc = "adding" /\ UNCHANGED <<stored, attempts, wrong>>
            /\ next = "counting" /\ verify'[k].seen = attempts
        BY <2>9, ThreadStep, <1>1 DEF Otp!Adds, Otp!At
      <3>2. Level(k) <= Level(k)'
        BY <1>1, <3>1 DEF Level, Capped
      <3>3. Pending' = Pending
        BY <2>2, <3>1
      <3> QED
        BY <1>1, <2>4, <3>1, <3>2, <3>3, TriedLemma
    <2>10. CASE Otp!Counts(k)
      <3>1. /\ pc = "counting" /\ stored' = TRUE /\ wrong' = wrong /\ next = "idle"
            /\ attempts' = verify[k].seen + 1
        BY <2>10, ThreadStep, <1>1 DEF Otp!Counts, Otp!At
      <3>2. /\ Level(k) = Capped(verify[k].seen, MaxAttempts)
            /\ Level(k)' = Capped(verify[k].seen + 1, MaxAttempts + 1)
        BY <3>1 DEF Level
      <3>3. Level(k) < Level(k)' /\ Level(k) <= MaxAttempts
        BY <1>1, <3>2 DEF Capped
      <3>4. ASSUME NEW j \in Thread, Level(j)' <= Level(k) PROVE Level(j) <= Level(j)'
        <4>1. j # k
          BY <2>3, <3>2, <3>3, <3>4, <1>1 DEF Capped
        <4>2. verify'[j] = verify[j]
          BY <2>1, <4>1
        <4>3. CASE verify[j].pc = "idle"
          <5>1. Level(j)' = Capped(verify[k].seen + 1, MaxAttempts + 1)
            BY <3>1, <4>2, <4>3 DEF Level
          <5> QED
            BY <1>1, <3>2, <3>4, <5>1 DEF Capped
        <4>4. CASE verify[j].pc = "judging"
          <5>1. CASE kind = "memory"
            <6>1. Level(j)' = Capped(verify[k].seen + 1, MaxAttempts + 1)
              BY <2>1, <3>1, <4>2, <4>4, <5>1 DEF Level, Otp!Counted
            <6> QED
              BY <1>1, <3>2, <3>4, <6>1 DEF Capped
          <5>2. CASE kind # "memory"
            <6>1. Level(j)' = Level(j)
              BY <2>1, <4>2, <4>4, <5>2 DEF Level, Otp!Counted
            <6> QED
              BY <2>3, <6>1
          <5> QED
            BY <5>1, <5>2
        <4>5. CASE verify[j].pc = "adding"
          <5>1. /\ Level(j)' = Capped(verify[k].seen + 1, MaxAttempts)
                /\ Level(j) = Capped(attempts, MaxAttempts)
            BY <3>1, <4>2, <4>5 DEF Level
          <5> QED
            BY <1>1, <3>2, <3>4, <5>1 DEF Capped
        <4>6. CASE verify[j].pc \in {"counting", "exhausting", "erasing"}
          <5>1. Level(j)' = Level(j)
            BY <4>2, <4>6 DEF Level
          <5> QED
            BY <2>3, <5>1
        <4> QED
          BY <1>1, <4>3, <4>4, <4>5, <4>6
      <3>5. Spends(k)
        <4>1. Level(k) <= MaxAttempts + 1
          BY <1>1, <2>3, <3>3
        <4> QED
          BY <3>3, <3>4, <4>1 DEF Spends
      <3> QED
        BY <1>1, <2>2, <3>1, <3>5, TriedLemma
    <2>11. CASE Otp!Erases(k)
      <3>1. /\ pc \in {"erasing", "exhausting"} /\ stored' = FALSE /\ next = "idle"
            /\ UNCHANGED <<attempts, wrong>>
        BY <2>11, ThreadStep, <1>1 DEF Otp!Erases, Otp!At
      <3>2. Level(k)' = MaxAttempts + 2
        BY <3>1 DEF Level
      <3>3. ASSUME NEW j \in Thread \ {k} PROVE Level(j) <= Level(j)'
        <4>1. CASE verify[j].pc = "idle"
          <5>1. Level(j)' = MaxAttempts + 2
            BY <2>1, <3>1, <4>1 DEF Level
          <5>2. Level(j) <= MaxAttempts + 2
            BY <1>1, <4>1 DEF Level, Capped
          <5> QED
            BY <5>1, <5>2
        <4>2. CASE verify[j].pc # "idle"
          <5>1. Level(j)' = Level(j)
            BY <1>1, <2>1, <3>1, <4>2 DEF Level, Otp!Counted
          <5> QED
            BY <2>3, <5>1
        <4> QED
          BY <4>1, <4>2
      <3>4. CASE pc = "erasing"
        <4>1. Level(k) = MaxAttempts + 2
          BY <3>4 DEF Level
        <4>2. Rises
          <5>1. Level(k) <= Level(k)'
            BY <1>1, <3>2, <4>1
          <5> HIDE DEF Level
          <5> QED
            BY <3>3, <5>1 DEF Rises
        <4>3. Pending' = Pending
          BY <2>2, <3>1, <3>4
        <4> QED
          BY <1>1, <3>1, <4>2, <4>3, TriedLemma
      <3>5. CASE pc = "exhausting"
        <4>1. Level(k) = MaxAttempts + 1
          BY <3>5 DEF Level
        <4>2. Spends(k)
          <5>1. Level(k) < Level(k)' /\ Level(k) <= MaxAttempts + 1
            BY <1>1, <3>2, <4>1
          <5> HIDE DEF Level
          <5>2. ASSUME NEW j \in Thread, Level(j)' <= Level(k) PROVE Level(j) <= Level(j)'
            BY <1>1, <3>2, <3>3, <4>1, <5>2
          <5> QED
            BY <5>1, <5>2 DEF Spends
        <4> QED
          BY <1>1, <2>2, <3>1, <3>5, <4>2, TriedLemma
      <3> QED
        BY <3>1, <3>4, <3>5
    <2> QED
      BY <1>3, <2>5, <2>6, <2>7, <2>8, <2>9, <2>10, <2>11
  <1>4. TRUE \in BOOLEAN
    OBVIOUS
  <1> QED
    BY <1>2, <1>3, <1>4 DEF Otp!Next

\* However the threads overlap, and whatever one of them puts back that another
\* had erased, the wrong codes that are compared with one code are bounded, the one
\* that has it erased with them (validate_otp, the attempts counter).
THEOREM FewGuesses == Otp!Spec => []GuessesAreBounded
  <1> DEFINE m == MaxAttempts + 2
             n == Cardinality(Thread)
  <1>1. Otp!Init => Tried
    <2> SUFFICES ASSUME Otp!Init PROVE Tried
      OBVIOUS
    <2>1. wrong = 0 /\ Otp!TypeOK
      BY DEF Otp!Init, Otp!Idle, Otp!TypeOK
    <2>2. Levels \in [Thread -> Nat] /\ Cardinality(Pending) \in Nat
      BY <2>1, LevelsLemma
    <2>3. Cardinality(Spent(Levels)) \in Nat
      <3> DEFINE level == Levels
      <3> HIDE DEF level
      <3>1. Cardinality(Spent(level)) \in Nat
        BY <2>2, SpentLemma DEF level
      <3> QED
        BY <3>1 DEF level
    <2> QED
      BY <2>1, <2>2, <2>3 DEF Tried
  <1>2. ASSUME Tried, UNCHANGED Otp!ovars PROVE Tried'
    <2>1. UNCHANGED <<kind, stored, attempts, verify, wrong>>
      BY <1>2 DEF Otp!ovars
    <2>2. Levels' = Levels /\ Pending' = Pending
      BY <2>1 DEF Levels, Level, Otp!Counted, Pending
    <2> QED
      BY <1>2, <2>1, <2>2 DEF Tried, Spent, Above, Depths
  <1>3. CodeInv /\ Tried => GuessesAreBounded
    <2> SUFFICES ASSUME CodeInv, Tried PROVE GuessesAreBounded
      OBVIOUS
    <2> DEFINE level == Levels
               pending == Cardinality(Pending)
    <2>1. /\ m \in Nat /\ n \in Nat /\ wrong \in Nat /\ Otp!TypeOK
      BY AttemptsAssumption, FS_CardinalityType DEF CodeInv, Otp!TypeOK
    <2>2. /\ level \in [Thread -> Nat] /\ Pending \in SUBSET Thread /\ pending \in Nat
          /\ \A k \in Pending : level[k] <= MaxAttempts + 1
      BY <2>1, LevelsLemma DEF Pending
    <2>3. wrong <= Cardinality(Spent(level)) + pending
      BY DEF Tried
    <2> HIDE DEF level
    <2>4. /\ Cardinality(Spent(level)) + pending < Cardinality(Climbs(m, n))
          /\ Cardinality(Spent(level)) \in Nat
      BY <2>2, RaisedLemma, SpentLemma DEF Leaves
    <2> HIDE DEF m, n, pending
    <2>5. /\ Otp!choose(m + n, n) = Cardinality(Climbs(m, n))
          /\ Cardinality(Climbs(m, n)) \in Nat
      BY <2>1, ChooseLemma, FS_CardinalityType
    <2>6. wrong < Otp!choose(m + n, n)
      BY <2>1, <2>2, <2>3, <2>4, <2>5
    <2>7. Otp!Cardinality(Thread) = Cardinality(Thread)
      BY DEF Otp!Cardinality, Cardinality
    <2> QED
      BY <2>6, <2>7 DEF GuessesAreBounded, Otp!GuessesAreBounded, m, n
  <1> QED
    BY <1>1, <1>2, <1>3, TriedStep, CodeInvariance, PTL DEF Otp!Spec

\* Every variable of the sessions and of the codes keeps its type, whatever threads
\* run (session_management.py, otp.py).
THEOREM TypesAreSound == Spec /\ Otp!Spec => []TypesOK
  <1>1. CodeInv => Otp!TypeOK
    BY DEF CodeInv
  <1>2. TypeOK /\ Otp!TypeOK => TypesOK
    BY DEF TypesOK
  <1> QED
    BY <1>1, <1>2, SessionTypes, CodeInvariance, PTL
=============================================================================
