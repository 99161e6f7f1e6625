-------------------------- MODULE OtpSignInProofs --------------------------
(***************************************************************************)
(* Proofs about the admin session and the one-time passwords made in it,   *)
(* for every set of calls and every value of the bounds.                   *)
(*                                                                         *)
(* CallsOK is inductive: to the types it adds that no call knows a session *)
(* that was not issued, that a refresh always stores its session, and that *)
(* the stored session is the last one issued where logins bring a refresh  *)
(* token.  LoginsAreAccounted is inductive together with it and gives the  *)
(* bound on the logins: each of them, and each that is certain to come, is *)
(* charged to the first session, to a refusal, or to a session that was    *)
(* found expired and lost its token.                                       *)
(***************************************************************************)
EXTENDS OtpSignIn, SequenceLemmas, FiniteSetTheorems

At(pc) == {c \in Call : call[c].pc = pc}
Refreshing == At("refresh")

\* What a call knows was issued.  Only a login that follows an expiry, without a
\* refresh token, does not store its session.
CallOK(c) ==
    /\ call[c].session <= issued /\ call[c].used <= issued
    /\ call[c].pc # "login" => call[c].keeps
    /\ ~call[c].keeps => ~refreshable

CallsOK ==
    /\ TypeOK
    /\ \A c \in Call : CallOK(c)
    /\ refreshable => stored = issued
    /\ IsFiniteSet(Refreshing)

\* A step changes the state of c and that of no other call.
Moves(c, pc) ==
    /\ call' \in [Call -> CallState]
    /\ \A d \in Call \ {c} : call'[d] = call[d]
    /\ call'[c].pc = pc

\* How the number of calls that refresh the session changes with such a step.
LEMMA SlotLemma ==
  ASSUME TypeOK, IsFiniteSet(Refreshing), NEW c \in Call, NEW pc, Moves(c, pc)
  PROVE  /\ IsFiniteSet(Refreshing')
         /\ Cardinality(Refreshing) \in Nat
         /\ Cardinality(Refreshing') =
                Cardinality(Refreshing)
                + (IF pc = "refresh" THEN 1 ELSE 0)
                - (IF call[c].pc = "refresh" THEN 1 ELSE 0)
  <1>1. Cardinality(Refreshing) \in Nat
    BY FS_CardinalityType
  <1>2. c \in Refreshing <=> call[c].pc = "refresh"
    BY DEF Refreshing, At
  <1>3. CASE pc = "refresh"
    <2>1. Refreshing' = Refreshing \cup {c}
      BY <1>3 DEF Refreshing, At, Moves
    <2> QED
      BY <1>1, <1>2, <1>3, <2>1, FS_AddElement
  <1>4. CASE pc # "refresh"
    <2>1. Refreshing' = Refreshing \ {c}
      BY <1>4 DEF Refreshing, At, Moves
    <2> QED
      BY <1>1, <1>2, <1>4, <2>1, FS_RemoveElement
  <1> QED
    BY <1>3, <1>4

\* What is left to show of a step of call c: the types, and what it leaves c with.
LEMMA MovesLemma ==
  ASSUME CallsOK, NEW c \in Call, NEW pc, Moves(c, pc),
         TypeOK', CallOK(c)', UNCHANGED refreshable,
         \/ UNCHANGED <<stored, issued>>
         \/ issued' = issued + 1 /\ (refreshable => stored' = issued')
  PROVE  CallsOK'
  <1>1. \A d \in Call : CallOK(d)'
    <2> SUFFICES ASSUME NEW d \in Call, d # c
                 PROVE  CallOK(d)'
      OBVIOUS
    <2>1. call'[d] = call[d] /\ call[d] \in CallState /\ CallOK(d)
      BY DEF Moves, CallsOK, TypeOK
    <2>2. issued \in Nat /\ call[d].session \in Nat /\ call[d].used \in Nat
      BY <2>1 DEF CallsOK, TypeOK, CallState, Session, NoSession
    <2>3. issued' \in Nat /\ issued <= issued'
      BY <2>2
    <2> QED
      BY <2>1, <2>2, <2>3 DEF CallOK
  <1>2. IsFiniteSet(Refreshing')
    BY SlotLemma DEF CallsOK
  <1> QED
    BY <1>1, <1>2 DEF CallsOK

\* A step that changes nothing but the state of a call that neither waits for
\* the lock nor logs in, before it or after it.
LEMMA AloneLemma ==
  ASSUME CallsOK, NEW c \in Call, NEW pc, Moves(c, pc),
         {pc, call[c].pc} \cap {"waiting", "login"} = {},
         CallOK(c)',
         UNCHANGED <<stored, issued, refreshable, cleared, expired, dead, queue>>,
         refusals' \in 0..MaxRefusals
  PROVE  CallsOK'
  <1>1. TypeOK'
    BY DEF CallsOK, TypeOK, Moves
  <1> QED
    BY <1>1, MovesLemma

\* The call at the head of the queue starts a login.
LEMMA StartLoginLemma ==
  ASSUME CallsOK, NEW c \in Call, call[c].pc \in {"idle", "waiting"}, StartLogin(c),
         UNCHANGED <<issued, refreshable, expired>>
  PROVE  /\ Moves(c, "login") /\ CallOK(c)'
         /\ cleared' \subseteq 1..expired
         /\ \/ /\ cleared' = cleared
               /\ ~(stored # NoSession /\ stored \notin cleared /\ stored <= expired)
            \/ /\ cleared' = cleared \cup {stored} /\ stored \notin cleared /\ stored # NoSession
               /\ call'[c].keeps <=> refreshable
         /\ ~call'[c].keeps => cleared' # cleared
  <1> DEFINE justExpired == stored # NoSession /\ stored \notin cleared /\ stored <= expired
             keeps == justExpired => refreshable
  <1>1. call[c] \in CallState /\ CallOK(c) /\ TypeOK
    BY DEF CallsOK, TypeOK
  <1>2. /\ call' = [call EXCEPT ![c].pc = "login", ![c].keeps = keeps]
        /\ cleared' = IF justExpired THEN cleared \cup {stored} ELSE cleared
    BY DEF StartLogin
  <1>3. keeps \in BOOLEAN /\ (~keeps => ~refreshable) /\ (~keeps => justExpired)
        /\ (justExpired => (keeps <=> refreshable))
    OBVIOUS
  <1>4. cleared' \subseteq 1..expired
    BY <1>1, <1>2 DEF TypeOK, NoSession
  <1> HIDE DEF keeps
  <1>5. Moves(c, "login") /\ call'[c].session = call[c].session /\ call'[c].used = call[c].used
    BY <1>1, <1>2, <1>3 DEF Moves, TypeOK, CallState
  <1>6. call'[c].keeps <=> keeps
    BY <1>1, <1>2, <1>3 DEF TypeOK, CallState
  <1>7. CallOK(c)'
    BY <1>1, <1>3, <1>5, <1>6 DEF CallOK, Moves
  <1>8. ~keeps => cleared' # cleared
    BY <1>2, <1>3
  <1> QED
    BY <1>2, <1>3, <1>4, <1>5, <1>6, <1>7, <1>8

\* A call starts: it is given a session, waits for the lock, or logs in under it.
LEMMA BeginLemma ==
  ASSUME CallsOK, NEW c \in Call, Begin(c)
  PROVE  /\ CallsOK'
         /\ \/ UNCHANGED cleared /\ \E pc \in {"ready", "waiting"} : Moves(c, pc)
            \/ StartLogin(c) /\ ~ValidSession(stored) /\ queue = <<>> /\ Moves(c, "login")
  <1>0. call[c].pc = "idle" /\ call[c] \in CallState /\ CallOK(c) /\ TypeOK
    BY DEF Begin, CallsOK, TypeOK
  <1>1. CASE ValidSession(stored)
    <2>1. Moves(c, "ready") /\ CallOK(c)'
      <3>1. /\ call' = [call EXCEPT ![c].pc = "ready", ![c].session = stored]
            /\ issued' = issued /\ refreshable' = refreshable
        BY <1>1 DEF Begin
      <3>2. /\ stored \in Session \cup {NoSession} /\ stored <= issued
            /\ call \in [Call -> CallState]
        <4>1. stored \in 0..issued /\ issued \in 0..MaxSessions /\ call \in [Call -> CallState]
          BY <1>0 DEF TypeOK
        <4> QED
          BY <4>1, SessionAssumption DEF Session, NoSession
      <3>3. [call[c] EXCEPT !.pc = "ready", !.session = stored] \in CallState
        BY <1>0, <3>2 DEF CallState
      <3>4. Moves(c, "ready")
        BY <1>0, <3>1, <3>2, <3>3 DEF Moves, CallState
      <3>5. CallOK(c)'
        BY <1>0, <3>1, <3>2 DEF CallOK, CallState
      <3> QED
        BY <3>4, <3>5
    <2>2. UNCHANGED <<stored, issued, refreshable, expired, dead, refusals, queue, cleared>>
      BY <1>1 DEF Begin
    <2> QED
      BY <1>0, <2>1, <2>2, AloneLemma DEF TypeOK
  <1>2. CASE ~ValidSession(stored) /\ queue # <<>>
    <2>2. /\ UNCHANGED <<stored, issued, refreshable, expired, dead, refusals, cleared>>
          /\ queue' = Append(queue, c)
          /\ call' = [call EXCEPT ![c].pc = "waiting"]
      BY <1>2 DEF Begin
    <2>1. Moves(c, "waiting") /\ CallOK(c)'
      BY <1>0, <2>2 DEF TypeOK, CallState, Moves, CallOK
    <2>3. c \notin ToSet(queue) /\ queue \in Seq(Call) /\ IsInjective(queue)
      BY <1>0 DEF TypeOK
    <2>4. /\ queue' \in Seq(Call) /\ IsInjective(queue')
          /\ ToSet(queue') = ToSet(queue) \cup {c}
          /\ Head(queue') = Head(queue)
      BY <1>2, <2>2, <2>3, AppendLemma
    <2>5. TypeOK'
      BY <1>0, <2>1, <2>2, <2>4 DEF TypeOK, Moves
    <2> QED
      BY <2>1, <2>2, <2>5, MovesLemma
  <1>3. CASE ~ValidSession(stored) /\ queue = <<>>
    <2>1. StartLogin(c)
      BY <1>3 DEF Begin
    <2>2. UNCHANGED <<stored, issued, refreshable, expired, dead, refusals>>
      BY <1>3 DEF Begin
    <2>3. Moves(c, "login") /\ CallOK(c)' /\ cleared' \subseteq 1..expired
      BY <1>0, <2>1, <2>2, StartLoginLemma
    <2>4. /\ queue' \in Seq(Call) /\ IsInjective(queue')
          /\ ToSet(queue') = ToSet(queue) \cup {c} /\ Head(queue') = c /\ ToSet(queue) = {}
      <3>1. queue' = Append(queue, c) /\ c \notin ToSet(queue) /\ queue \in Seq(Call)
            /\ IsInjective(queue)
        BY <1>0, <1>3 DEF Begin, TypeOK
      <3>2. ToSet(queue) = {}
        BY <1>3 DEF ToSet
      <3> QED
        BY <1>3, <3>1, <3>2, AppendLemma
    <2>5. TypeOK'
      <3>1. \A d \in Call \ {c} : call'[d].pc \notin {"waiting", "login"}
        BY <1>0, <2>3, <2>4 DEF TypeOK, Moves
      <3>2. /\ ToSet(queue') = {d \in Call : call'[d].pc \in {"waiting", "login"}}
            /\ \A d \in Call : call'[d].pc = "login" => d = Head(queue')
        BY <2>3, <2>4, <3>1 DEF Moves
      <3> QED
        BY <1>0, <2>2, <2>3, <2>4, <3>2 DEF TypeOK, Moves
    <2> QED
      BY <1>3, <2>1, <2>2, <2>3, <2>5, MovesLemma
  <1> QED
    BY <1>1, <1>2, <1>3

\* The call at the head of the queue takes the session another one stored.
LEMMA ReuseLemma ==
  ASSUME CallsOK, NEW c \in Call, Reuse(c)
  PROVE  CallsOK' /\ Moves(c, "ready")
  <1>1. call[c].pc = "waiting" /\ call[c] \in CallState /\ CallOK(c) /\ TypeOK
    BY DEF Reuse, CallsOK, TypeOK
  <1>2. UNCHANGED <<stored, issued, refreshable, cleared, expired, dead, refusals>>
        /\ queue # <<>> /\ Head(queue) = c /\ queue' = Tail(queue) /\ ValidSession(stored)
    BY DEF Reuse, HoldsLock
  <1>3. stored \in Session /\ stored <= issued
    BY <1>1, <1>2, SessionAssumption DEF TypeOK, ValidSession, Session, NoSession
  <1>4. call' = [call EXCEPT ![c].pc = "ready", ![c].session = stored]
    BY DEF Reuse
  <1>5. Moves(c, "ready") /\ call'[c].session = stored /\ call'[c].used = call[c].used
         /\ call'[c].keeps = call[c].keeps
    BY <1>1, <1>3, <1>4 DEF TypeOK, CallState, Moves
  <1>6. CallOK(c)'
    BY <1>1, <1>2, <1>3, <1>5 DEF CallOK
  <1>7. /\ queue' \in Seq(Call) /\ IsInjective(queue') /\ ToSet(queue') = ToSet(queue) \ {c}
    BY <1>1, <1>2, TailLemma DEF TypeOK
  <1>8. \A d \in Call : call[d].pc # "login"
    BY <1>1, <1>2 DEF TypeOK
  <1>9. TypeOK'
    BY <1>1, <1>2, <1>5, <1>7, <1>8 DEF TypeOK, Moves
  <1> QED
    BY <1>2, <1>5, <1>6, <1>9, MovesLemma

\* The call at the head of the queue logs in.
LEMMA LogInLemma ==
  ASSUME CallsOK, NEW c \in Call, LogIn(c)
  PROVE  CallsOK' /\ Moves(c, "login")
  <1>1. call[c].pc = "waiting" /\ call[c] \in CallState /\ CallOK(c) /\ TypeOK
        /\ queue # <<>> /\ Head(queue) = c
    BY DEF LogIn, HoldsLock, CallsOK, TypeOK
  <1>2. UNCHANGED <<stored, issued, refreshable, expired, dead, queue, refusals>> /\ StartLogin(c)
    BY DEF LogIn
  <1>3. Moves(c, "login") /\ CallOK(c)' /\ cleared' \subseteq 1..expired
    BY <1>1, <1>2, StartLoginLemma
  <1>4. TypeOK'
    BY <1>1, <1>2, <1>3 DEF TypeOK, Moves
  <1> QED
    BY <1>2, <1>3, <1>4, MovesLemma

\* A login is over, with a session or without one.
LEMMA LeavesQueueLemma ==
  ASSUME CallsOK, NEW c \in Call, call[c].pc = "login", queue' = Tail(queue)
  PROVE  /\ queue' \in Seq(Call) /\ IsInjective(queue') /\ ToSet(queue') = ToSet(queue) \ {c}
         /\ \A d \in Call \ {c} : call[d].pc # "login"
  <1>1. queue \in Seq(Call) /\ IsInjective(queue) /\ c \in ToSet(queue) /\ c = Head(queue)
        /\ \A d \in Call \ {c} : call[d].pc # "login"
    BY DEF CallsOK, TypeOK
  <1>2. queue # <<>>
    BY <1>1 DEF ToSet
  <1> QED
    BY <1>1, <1>2, TailLemma

\* A session is obtained, and stored unless the call keeps it for itself.
LEMMA ObtainedLemma ==
  ASSUME CallsOK, NEW c \in Call, call[c].pc \in {"login", "refresh"}, Obtained(c)
  PROVE  /\ Moves(c, "ready") /\ CallOK(c)'
         /\ issued' = issued + 1 /\ issued' \in 0..MaxSessions /\ stored' \in 0..issued'
         /\ refreshable => stored' = issued'
         /\ stored' = IF call[c].keeps THEN issued' ELSE stored
         /\ UNCHANGED <<refreshable, cleared, expired, dead, refusals>>
  <1>1. call[c] \in CallState /\ CallOK(c) /\ TypeOK
    BY DEF CallsOK, TypeOK
  <1>2. /\ issued' = issued + 1 /\ issued' \in 1..MaxSessions /\ stored' \in 0..issued'
        /\ UNCHANGED <<refreshable, cleared, expired, dead, refusals>>
    BY <1>1, SessionAssumption DEF Obtained, TypeOK
  <1>3. refreshable => stored' = issued'
    BY <1>1 DEF Obtained, CallOK
  <1>4. Moves(c, "ready") /\ call'[c].session = issued' /\ call'[c].used = call[c].used
        /\ call'[c].keeps
    BY <1>1, <1>2 DEF Obtained, Moves, TypeOK, CallState, Session
  <1>5. call[c].used \in Nat /\ issued \in Nat
    BY <1>1 DEF TypeOK, CallState, Session, NoSession
  <1>6. CallOK(c)'
    BY <1>1, <1>2, <1>4, <1>5 DEF CallOK
  <1> QED
    BY <1>2, <1>3, <1>4, <1>6 DEF Obtained

\* A login under the lock succeeds.
LEMMA LoggedInLemma ==
  ASSUME CallsOK, NEW c \in Call, LoggedIn(c)
  PROVE  CallsOK' /\ Moves(c, "ready")
  <1>1. call[c].pc = "login" /\ Obtained(c) /\ queue' = Tail(queue) /\ TypeOK
    BY DEF LoggedIn, CallsOK
  <1>2. /\ Moves(c, "ready") /\ issued' = issued + 1
        /\ issued' \in 0..MaxSessions /\ stored' \in 0..issued'
        /\ UNCHANGED <<refreshable, cleared, expired, dead, refusals>>
    BY <1>1, ObtainedLemma
  <1>3. /\ queue' \in Seq(Call) /\ IsInjective(queue') /\ ToSet(queue') = ToSet(queue) \ {c}
        /\ \A d \in Call \ {c} : call[d].pc # "login"
    BY <1>1, LeavesQueueLemma
  <1>4. TypeOK'
    BY <1>1, <1>2, <1>3 DEF TypeOK, Moves
  <1> QED
    BY <1>1, <1>4, ObtainedLemma, MovesLemma

\* A refused call has its new session.
LEMMA RefreshedLemma ==
  ASSUME CallsOK, NEW c \in Call, Refreshed(c)
  PROVE  CallsOK' /\ Moves(c, "ready")
  <1>1. call[c].pc = "refresh" /\ Obtained(c) /\ UNCHANGED queue /\ TypeOK
    BY DEF Refreshed, CallsOK
  <1>2. /\ Moves(c, "ready") /\ issued' = issued + 1
        /\ issued' \in 0..MaxSessions /\ stored' \in 0..issued'
        /\ UNCHANGED <<refreshable, cleared, expired, dead, refusals>>
    BY <1>1, ObtainedLemma
  <1>3. TypeOK'
    BY <1>1, <1>2 DEF TypeOK, Moves
  <1> QED
    BY <1>1, <1>3, ObtainedLemma, MovesLemma

\* A call ends, however it does.
LEMMA EndedLemma ==
  ASSUME CallsOK, NEW c \in Call, Ended(c), issued' \in Nat
  PROVE  Moves(c, "idle") /\ CallOK(c)'
  <1>1. Idle \in CallState /\ call' = [call EXCEPT ![c] = Idle] /\ TypeOK
    BY DEF Ended, Idle, CallState, CallsOK
  <1>2. Moves(c, "idle") /\ call'[c] = Idle
    BY <1>1 DEF TypeOK, Moves, Idle
  <1>3. call'[c].session = 0 /\ call'[c].used = 0 /\ call'[c].keeps
    BY <1>2 DEF Idle, NoSession
  <1> QED
    BY <1>2, <1>3 DEF CallOK

\* A login under the lock fails.
LEMMA LoginFailedLemma ==
  ASSUME CallsOK, NEW c \in Call, LoginFailed(c)
  PROVE  CallsOK' /\ Moves(c, "idle")
  <1>1. /\ call[c].pc = "login" /\ Ended(c) /\ queue' = Tail(queue) /\ TypeOK
        /\ UNCHANGED <<stored, issued, refreshable, cleared, expired, dead, refusals>>
    BY DEF LoginFailed, CallsOK
  <1>2. issued' \in Nat
    BY <1>1 DEF TypeOK
  <1>3. Moves(c, "idle") /\ CallOK(c)'
    BY <1>1, <1>2, EndedLemma
  <1>4. /\ queue' \in Seq(Call) /\ IsInjective(queue') /\ ToSet(queue') = ToSet(queue) \ {c}
        /\ \A d \in Call \ {c} : call[d].pc # "login"
    BY <1>1, LeavesQueueLemma
  <1>5. TypeOK'
    BY <1>1, <1>3, <1>4 DEF TypeOK, Moves
  <1> QED
    BY <1>1, <1>3, <1>5, MovesLemma

\* A call is cancelled in the queue.
LEMMA CancelledLemma ==
  ASSUME CallsOK, NEW c \in Call, Cancelled(c)
  PROVE  CallsOK' /\ Moves(c, "idle")
  <1>1. /\ call[c].pc = "waiting" /\ Ended(c) /\ queue' = RemoveFirst(queue, c) /\ TypeOK
        /\ UNCHANGED <<stored, issued, refreshable, cleared, expired, dead, refusals>>
    BY DEF Cancelled, CallsOK
  <1>2. /\ queue' \in Seq(Call) /\ IsInjective(queue') /\ ToSet(queue') = ToSet(queue) \ {c}
        /\ Head(queue) # c => Head(queue') = Head(queue)
    <2>1. queue \in Seq(Call) /\ IsInjective(queue) /\ queue # <<>>
      BY <1>1 DEF TypeOK, ToSet
    <2> QED
      BY <1>1, <2>1, RemoveFirstLemma
  <1>3. issued' \in Nat
    BY <1>1 DEF TypeOK
  <1>4. Moves(c, "idle") /\ CallOK(c)'
    BY <1>1, <1>3, EndedLemma
  <1>5. TypeOK'
    BY <1>1, <1>2, <1>4 DEF TypeOK, Moves
  <1> QED
    BY <1>1, <1>4, <1>5, MovesLemma

\* A request is put together.
LEMMA TransmitLemma ==
  ASSUME CallsOK, NEW c \in Call, Transmit(c)
  PROVE  CallsOK' /\ Moves(c, "sent")
  <1> DEFINE used == IF call[c].session \in cleared THEN NoSession ELSE call[c].session
  <1>1. /\ call[c].pc = "ready" /\ call' = [call EXCEPT ![c].pc = "sent", ![c].used = used]
        /\ UNCHANGED <<stored, issued, refreshable, cleared, expired, dead, queue, refusals>>
        /\ TypeOK /\ CallOK(c) /\ call[c] \in CallState
    BY DEF Transmit, CallsOK, TypeOK
  <1>2. used \in Session \cup {NoSession} /\ used <= issued
    BY <1>1 DEF TypeOK, CallState, CallOK, NoSession
  <1> HIDE DEF used
  <1>3. /\ Moves(c, "sent") /\ call'[c].session = call[c].session /\ call'[c].used = used
        /\ call'[c].keeps = call[c].keeps
    BY <1>1, <1>2 DEF TypeOK, CallState, Moves
  <1>4. CallOK(c)'
    BY <1>1, <1>2, <1>3 DEF CallOK
  <1> QED
    BY <1>1, <1>3, <1>4, AloneLemma DEF TypeOK

\* A call is answered, or cannot refresh the session.
LEMMA AnsweredLemma ==
  ASSUME CallsOK, NEW c \in Call, Answered(c) \/ RefreshFailed(c)
  PROVE  CallsOK' /\ Moves(c, "idle")
  <1>1. /\ call[c].pc \in {"sent", "refresh"} /\ Ended(c) /\ TypeOK
        /\ UNCHANGED <<stored, issued, refreshable, cleared, expired, dead, queue, refusals>>
    BY DEF Answered, RefreshFailed, CallsOK
  <1> QED
    BY <1>1, EndedLemma, AloneLemma DEF TypeOK

\* The site refuses a call.
LEMMA RefusedLemma ==
  ASSUME CallsOK, NEW c \in Call, Refused(c)
  PROVE  CallsOK' /\ Moves(c, "refresh")
  <1>1. /\ call[c].pc = "sent" /\ call' = [call EXCEPT ![c].pc = "refresh"]
        /\ UNCHANGED <<stored, issued, refreshable, cleared, expired, dead, queue>>
        /\ TypeOK /\ CallOK(c) /\ call[c] \in CallState
        /\ refusals' \in 0..MaxRefusals
    BY SessionAssumption DEF Refused, Refuses, CallsOK, TypeOK
  <1>2. Moves(c, "refresh") /\ CallOK(c)'
    BY <1>1 DEF TypeOK, CallState, Moves, CallOK
  <1> QED
    BY <1>1, <1>2, AloneLemma

\* Sessions expire, or the site drops them.
LEMMA EnvironmentLemma ==
  ASSUME CallsOK, Expires \/ SiteForgets \/ UNCHANGED vars
  PROVE  CallsOK' /\ UNCHANGED <<stored, issued, refreshable, cleared, call, refusals>>
  <1>1. TypeOK /\ UNCHANGED <<stored, issued, refreshable, cleared, call, refusals, queue>>
        /\ expired' \in 0..issued /\ dead' \subseteq 1..issued /\ expired <= expired'
    <2>1. CASE Expires
      BY <2>1 DEF Expires, CallsOK, TypeOK
    <2>2. CASE SiteForgets
      BY <2>2 DEF SiteForgets, CallsOK, TypeOK
    <2>3. CASE UNCHANGED vars
      BY <2>3 DEF vars, CallsOK, TypeOK
    <2> QED
      BY <2>1, <2>2, <2>3
  <1>2. TypeOK'
    BY <1>1 DEF TypeOK
  <1>3. (\A c \in Call : CallOK(c)') /\ Refreshing' = Refreshing
    BY <1>1 DEF CallsOK, CallOK, Refreshing, At
  <1> QED
    BY <1>1, <1>2, <1>3 DEF CallsOK

\* Initially no session was issued.
LEMMA InitLemma == Init => CallsOK
  <1> SUFFICES ASSUME Init PROVE CallsOK
    OBVIOUS
  <1>1. TypeOK
    BY SessionAssumption DEF Init, TypeOK, Idle, CallState, IsInjective, ToSet, NoSession
  <1>2. Refreshing = {} /\ \A c \in Call : CallOK(c)
    BY DEF Init, Refreshing, At, Idle, CallOK, NoSession
  <1> QED
    BY <1>1, <1>2, FS_EmptySet DEF CallsOK, Init, NoSession

\* CallsOK is inductive.
LEMMA StepLemma ==
  ASSUME CallsOK, [Next]_vars
  PROVE  CallsOK'
  <1>1. ASSUME NEW c \in Call, Begin(c) \/ Progress(c) \/ Cancelled(c)
        PROVE  CallsOK'
    BY <1>1, BeginLemma, ReuseLemma, LogInLemma, LoggedInLemma, LoginFailedLemma, TransmitLemma,
       AnsweredLemma, RefusedLemma, RefreshedLemma, CancelledLemma DEF Progress
  <1>2. CASE Expires \/ SiteForgets \/ UNCHANGED vars
    BY <1>2, EnvironmentLemma
  <1> QED
    BY <1>1, <1>2 DEF Next

----------------------------------------------------------------------------
(* The logins.                                                             *)

StoredIsGood == stored # NoSession /\ stored \notin cleared

\* The login under way is one that nothing accounts for yet.
LoginCounts == \E c \in At("login") : call[c].keeps => StoredIsGood

\* What the sessions that were found expired account for.
ClearedOthers == Cardinality(cleared \ {stored})
Replacements == IF refreshable THEN 0 ELSE Cardinality(cleared)

\* Each session, each refresh and each unaccounted login is paid for: by the
\* first login, by a refusal, by a cleared session that is no longer the stored
\* one, and, where there is no refresh token, by each cleared session once more.
LoginsAreAccounted ==
    issued + Cardinality(Refreshing) + (IF LoginCounts THEN 1 ELSE 0)
    <= (IF stored = NoSession THEN 0 ELSE 1) + refusals + ClearedOthers + Replacements

\* Sessions are cleared after they expired, so there are no more of them.
LEMMA ClearedLemma ==
  ASSUME TypeOK
  PROVE  /\ IsFiniteSet(cleared)
         /\ Cardinality(cleared) \in Nat /\ Cardinality(cleared) <= expired
         /\ ClearedOthers = Cardinality(cleared) - (IF stored \in cleared THEN 1 ELSE 0)
         /\ ClearedOthers \in Nat
         /\ issued \in Nat /\ refusals \in Nat /\ expired \in Nat
         /\ NoSession \notin cleared
  <1>1. /\ issued \in Nat /\ refusals \in Nat /\ expired \in Nat /\ cleared \in SUBSET (1..expired)
        /\ NoSession \notin cleared
    BY SessionAssumption DEF TypeOK, NoSession
  <1>2. IsFiniteSet(1..expired) /\ Cardinality(1..expired) = expired
    BY <1>1, FS_Interval
  <1>3. IsFiniteSet(cleared) /\ Cardinality(cleared) <= expired
    BY <1>1, <1>2, FS_Subset
  <1>4. Cardinality(cleared) \in Nat
    BY <1>3, FS_CardinalityType
  <1>5. /\ IsFiniteSet(cleared \ {stored})
        /\ Cardinality(cleared \ {stored}) =
              IF stored \in cleared THEN Cardinality(cleared) - 1 ELSE Cardinality(cleared)
    BY <1>3, FS_RemoveElement
  <1>6. Cardinality(cleared \ {stored}) \in Nat
    BY <1>5, FS_CardinalityType
  <1> QED
    BY <1>1, <1>3, <1>4, <1>5, <1>6 DEF ClearedOthers

\* A step with which nothing is stored or cleared.
LEMMA NothingStoredLemma ==
  ASSUME CallsOK, LoginsAreAccounted, UNCHANGED <<stored, issued, refreshable, cleared>>,
         refusals' \in Nat,
         Cardinality(Refreshing) \in Nat, Cardinality(Refreshing') \in Nat,
         Cardinality(Refreshing') - Cardinality(Refreshing) <= refusals' - refusals,
         LoginCounts' => LoginCounts
  PROVE  LoginsAreAccounted'
  <1>1. ClearedOthers' = ClearedOthers /\ Replacements' = Replacements
    BY DEF ClearedOthers, Replacements
  <1>2. ClearedOthers \in Nat /\ Replacements \in Nat /\ issued \in Nat /\ refusals \in Nat
    BY ClearedLemma DEF CallsOK, Replacements
  <1> HIDE DEF ClearedOthers, Replacements
  <1> QED
    BY <1>1, <1>2 DEF LoginsAreAccounted

\* The same for a step of one call, which starts no login.
LEMMA QuietStepLemma ==
  ASSUME CallsOK, LoginsAreAccounted, NEW c \in Call, NEW pc, Moves(c, pc), pc # "login",
         UNCHANGED <<stored, issued, refreshable, cleared>>, refusals' \in Nat,
         refusals' - refusals = IF pc = "refresh" THEN 1 ELSE 0
  PROVE  LoginsAreAccounted'
  <1>1. LoginCounts' => LoginCounts
    BY DEF LoginCounts, StoredIsGood, At, Moves
  <1>2. /\ IsFiniteSet(Refreshing') /\ Cardinality(Refreshing) \in Nat
        /\ Cardinality(Refreshing') = Cardinality(Refreshing)
               + (IF pc = "refresh" THEN 1 ELSE 0) - (IF call[c].pc = "refresh" THEN 1 ELSE 0)
    BY SlotLemma DEF CallsOK
  <1>3. Cardinality(Refreshing') \in Nat
    BY <1>2, FS_CardinalityType
  <1> QED
    BY <1>1, <1>2, <1>3, NothingStoredLemma

\* A call starts a login, when no other is under way.
LEMMA LoginStartsLemma ==
  ASSUME CallsOK, LoginsAreAccounted, NEW c \in Call, call[c].pc \in {"idle", "waiting"},
         StartLogin(c), ~ValidSession(stored), At("login") = {},
         UNCHANGED <<stored, issued, refreshable, expired, refusals>>, CallsOK'
  PROVE  LoginsAreAccounted'
  <1>1. /\ Moves(c, "login")
        /\ \/ /\ cleared' = cleared
              /\ ~(stored # NoSession /\ stored \notin cleared /\ stored <= expired)
           \/ /\ cleared' = cleared \cup {stored} /\ stored \notin cleared /\ stored # NoSession
              /\ call'[c].keeps <=> refreshable
        /\ ~call'[c].keeps => cleared' # cleared
    BY StartLoginLemma
  <1>2. At("login")' = {c}
    BY <1>1 DEF At, Moves
  <1>3. /\ Cardinality(Refreshing) \in Nat
        /\ Cardinality(Refreshing') = Cardinality(Refreshing)
    BY <1>1, SlotLemma DEF CallsOK
  <1>4. CASE cleared' = cleared
    <2>1. ~StoredIsGood /\ call'[c].keeps
      BY <1>1, <1>4 DEF StoredIsGood, ValidSession, CallsOK, TypeOK, NoSession
    <2>2. ~LoginCounts'
      BY <1>2, <1>4, <2>1 DEF LoginCounts, StoredIsGood
    <2> QED
      BY <1>3, <1>4, <2>2, NothingStoredLemma, ClearedLemma DEF CallsOK
  <1>5. CASE cleared' # cleared
    <2>1. /\ cleared' = cleared \cup {stored} /\ stored \notin cleared
          /\ call'[c].keeps <=> refreshable
      BY <1>1, <1>5
    <2>2. refreshable => ~LoginCounts'
      BY <1>2, <2>1 DEF LoginCounts, StoredIsGood
    <2>3. /\ Cardinality(cleared) \in Nat /\ IsFiniteSet(cleared) /\ ClearedOthers \in Nat
          /\ issued \in Nat /\ refusals \in Nat
      BY ClearedLemma DEF CallsOK
    <2>4. Cardinality(cleared') = Cardinality(cleared) + 1
      BY <2>1, <2>3, FS_AddElement
    <2>5. ClearedOthers' = ClearedOthers
      <3>1. cleared' \ {stored'} = cleared \ {stored}
        BY <2>1
      <3> QED
        BY <3>1 DEF ClearedOthers
    <2>6. refreshable \in BOOLEAN
      BY DEF CallsOK, TypeOK
    <2> HIDE DEF ClearedOthers
    <2> QED
      BY <1>3, <2>2, <2>3, <2>4, <2>5, <2>6 DEF LoginsAreAccounted, Replacements
  <1> QED
    BY <1>4, <1>5

\* What is stored when a login brings a session that goes into the store.
LEMMA StoresLemma ==
  ASSUME CallsOK, issued' = issued + 1, stored' = issued', UNCHANGED cleared
  PROVE  /\ StoredIsGood' /\ stored' # NoSession
         /\ ClearedOthers' = Cardinality(cleared)
         /\ (IF stored = NoSession THEN 0 ELSE 1) + ClearedOthers =
                Cardinality(cleared) + (IF StoredIsGood THEN 1 ELSE 0)
  <1>1. /\ cleared \subseteq 1..expired /\ expired \in 0..issued /\ issued \in Nat
        /\ stored \in 0..issued
    BY SessionAssumption DEF CallsOK, TypeOK
  <1>2. stored' \notin cleared /\ stored' # NoSession
    BY <1>1 DEF NoSession
  <1>3. cleared' \ {stored'} = cleared
    BY <1>2
  <1>4. ClearedOthers' = Cardinality(cleared)
    BY <1>3 DEF ClearedOthers
  <1>5. /\ ClearedOthers = Cardinality(cleared) - (IF stored \in cleared THEN 1 ELSE 0)
        /\ Cardinality(cleared) \in Nat /\ NoSession \notin cleared
    BY ClearedLemma DEF CallsOK
  <1> HIDE DEF ClearedOthers
  <1> QED
    BY <1>2, <1>4, <1>5 DEF StoredIsGood

\* A login that ends was counted before it did, or replaces a session that is
\* no longer counted as good.
LEMMA LoggedInCountsLemma ==
  ASSUME CallsOK, LoginsAreAccounted, NEW c \in Call, LoggedIn(c), CallsOK'
  PROVE  LoginsAreAccounted'
  <1>1. /\ call[c].pc = "login" /\ Obtained(c) /\ Moves(c, "ready")
        /\ \A d \in Call \ {c} : call[d].pc # "login"
    BY LoggedInLemma, LeavesQueueLemma DEF LoggedIn
  <1>2. /\ issued' = issued + 1 /\ UNCHANGED <<refreshable, cleared, refusals>>
        /\ stored' = IF call[c].keeps THEN issued' ELSE stored
    BY <1>1, ObtainedLemma
  <1>3. Cardinality(Refreshing) \in Nat /\ Cardinality(Refreshing') = Cardinality(Refreshing)
    BY <1>1, SlotLemma DEF CallsOK
  <1>4. /\ ~LoginCounts' /\ (LoginCounts <=> (call[c].keeps => StoredIsGood))
    BY <1>1 DEF LoginCounts, At, Moves
  <1>5. Replacements' = Replacements
    BY <1>2 DEF Replacements
  <1>6. /\ Cardinality(cleared) \in Nat /\ ClearedOthers \in Nat /\ Replacements \in Nat
        /\ issued \in Nat /\ refusals \in Nat
    BY ClearedLemma DEF CallsOK, Replacements
  <1>7. CASE call[c].keeps
    <2>1. /\ stored' # NoSession /\ ClearedOthers' = Cardinality(cleared)
          /\ (IF stored = NoSession THEN 0 ELSE 1) + ClearedOthers =
                Cardinality(cleared) + (IF StoredIsGood THEN 1 ELSE 0)
      BY <1>2, <1>7, StoresLemma
    <2>2. LoginCounts <=> StoredIsGood
      BY <1>4, <1>7
    <2> HIDE DEF ClearedOthers, Replacements, LoginCounts, StoredIsGood
    <2> QED
      BY <1>2, <1>3, <1>4, <1>5, <1>6, <2>1, <2>2 DEF LoginsAreAccounted
  <1>8. CASE ~call[c].keeps
    <2>1. stored' = stored /\ LoginCounts
      BY <1>2, <1>4, <1>8
    <2>2. ClearedOthers' = ClearedOthers
      BY <1>2, <2>1 DEF ClearedOthers
    <2> HIDE DEF ClearedOthers, Replacements, LoginCounts
    <2> QED
      BY <1>2, <1>3, <1>4, <1>5, <1>6, <2>1, <2>2 DEF LoginsAreAccounted
  <1> QED
    BY <1>7, <1>8

\* A refresh was counted as such, and is now counted as a session.
LEMMA RefreshedCountsLemma ==
  ASSUME CallsOK, LoginsAreAccounted, NEW c \in Call, Refreshed(c), CallsOK'
  PROVE  LoginsAreAccounted'
  <1>1. /\ call[c].pc = "refresh" /\ call[c].keeps /\ Obtained(c) /\ Moves(c, "ready")
    BY RefreshedLemma DEF Refreshed, CallsOK, CallOK
  <1>2. /\ issued' = issued + 1 /\ stored' = issued'
        /\ UNCHANGED <<refreshable, cleared, refusals>>
    BY <1>1, ObtainedLemma
  <1>3. /\ Cardinality(Refreshing) \in Nat
        /\ Cardinality(Refreshing') = Cardinality(Refreshing) - 1
    BY <1>1, SlotLemma DEF CallsOK
  <1>4. StoredIsGood => (LoginCounts' => LoginCounts)
    BY <1>1 DEF LoginCounts, At, Moves
  <1>5. Replacements' = Replacements
    BY <1>2 DEF Replacements
  <1>6. /\ Cardinality(cleared) \in Nat /\ ClearedOthers \in Nat /\ Replacements \in Nat
        /\ issued \in Nat /\ refusals \in Nat
    BY ClearedLemma DEF CallsOK, Replacements
  <1>7. /\ stored' # NoSession /\ ClearedOthers' = Cardinality(cleared)
        /\ (IF stored = NoSession THEN 0 ELSE 1) + ClearedOthers =
              Cardinality(cleared) + (IF StoredIsGood THEN 1 ELSE 0)
    BY <1>2, StoresLemma
  <1> HIDE DEF ClearedOthers, Replacements, LoginCounts, StoredIsGood
  <1> QED
    BY <1>2, <1>3, <1>4, <1>5, <1>6, <1>7 DEF LoginsAreAccounted

\* LoginsAreAccounted is inductive, given CallsOK.
LEMMA AccountsLemma ==
  ASSUME CallsOK, LoginsAreAccounted, [Next]_vars
  PROVE  LoginsAreAccounted'
  <1> CallsOK' /\ TypeOK /\ refusals \in Nat /\ refusals' \in Nat
    BY StepLemma DEF CallsOK, TypeOK
  <1>1. ASSUME NEW c \in Call, Begin(c)
        PROVE  LoginsAreAccounted'
    <2>0. call[c].pc = "idle" /\ UNCHANGED <<stored, issued, refreshable, expired, refusals>>
      BY <1>1 DEF Begin
    <2>1. CASE StartLogin(c) /\ ~ValidSession(stored) /\ queue = <<>>
      <3>1. At("login") = {}
        BY <2>1 DEF At, TypeOK, ToSet
      <3> QED
        BY <2>0, <2>1, <3>1, LoginStartsLemma
    <2>2. CASE UNCHANGED cleared /\ \E pc \in {"ready", "waiting"} : Moves(c, pc)
      BY <2>0, <2>2, QuietStepLemma
    <2> QED
      BY <1>1, <2>1, <2>2, BeginLemma
  <1>2. ASSUME NEW c \in Call, LogIn(c)
        PROVE  LoginsAreAccounted'
    <2>1. At("login") = {}
      BY <1>2 DEF At, LogIn, HoldsLock, TypeOK
    <2> QED
      BY <1>2, <2>1, LoginStartsLemma DEF LogIn
  <1>3. ASSUME NEW c \in Call, Reuse(c)
        PROVE  LoginsAreAccounted'
    <2>1. UNCHANGED <<stored, issued, refreshable, cleared, refusals>>
      BY <1>3 DEF Reuse
    <2> QED
      BY <1>3, <2>1, ReuseLemma, QuietStepLemma
  <1>4. ASSUME NEW c \in Call, LoginFailed(c)
        PROVE  LoginsAreAccounted'
    BY <1>4, LoginFailedLemma, QuietStepLemma DEF LoginFailed
  <1>5. ASSUME NEW c \in Call, Cancelled(c)
        PROVE  LoginsAreAccounted'
    BY <1>5, CancelledLemma, QuietStepLemma DEF Cancelled
  <1>6. ASSUME NEW c \in Call, Transmit(c)
        PROVE  LoginsAreAccounted'
    <2>1. UNCHANGED <<stored, issued, refreshable, cleared, refusals>>
      BY <1>6 DEF Transmit
    <2> QED
      BY <1>6, <2>1, TransmitLemma, QuietStepLemma
  <1>7. ASSUME NEW c \in Call, Answered(c) \/ RefreshFailed(c)
        PROVE  LoginsAreAccounted'
    <2>1. UNCHANGED <<stored, issued, refreshable, cleared, refusals>>
      BY <1>7 DEF Answered, RefreshFailed
    <2> QED
      BY <1>7, <2>1, AnsweredLemma, QuietStepLemma
  <1>8. ASSUME NEW c \in Call, Refused(c)
        PROVE  LoginsAreAccounted'
    <2>1. UNCHANGED <<stored, issued, refreshable, cleared>> /\ refusals' = refusals + 1
      BY <1>8 DEF Refused
    <2> QED
      BY <1>8, <2>1, RefusedLemma, QuietStepLemma
  <1>9. CASE Expires \/ SiteForgets \/ UNCHANGED vars
    <2>1. UNCHANGED <<stored, issued, refreshable, cleared, call, refusals>>
      BY <1>9, EnvironmentLemma
    <2> QED
      BY <2>1 DEF LoginsAreAccounted, Refreshing, LoginCounts, StoredIsGood, ClearedOthers,
                  Replacements, At
  <1> QED
    BY <1>1, <1>2, <1>3, <1>4, <1>5, <1>6, <1>7, <1>8, <1>9, LoggedInCountsLemma,
       RefreshedCountsLemma DEF Next, Progress

----------------------------------------------------------------------------
(* Theorems.                                                               *)

\* Initially there is nothing to account for.
LEMMA AccountsInitLemma == Init => LoginsAreAccounted
  <1> SUFFICES ASSUME Init PROVE LoginsAreAccounted
    OBVIOUS
  <1>1. /\ Refreshing = {} /\ cleared = {} /\ cleared \ {stored} = {} /\ At("login") = {}
        /\ issued = 0 /\ refusals = 0 /\ stored = NoSession
    BY DEF Init, Refreshing, At, Idle
  <1>2. Cardinality({}) = 0
    BY FS_EmptySet
  <1> QED
    BY <1>1, <1>2 DEF LoginsAreAccounted, LoginCounts, ClearedOthers, Replacements

\* The bound on the logins.
LEMMA BoundLemma == CallsOK /\ LoginsAreAccounted => LoginsAreBounded
  <1> SUFFICES ASSUME CallsOK, LoginsAreAccounted PROVE LoginsAreBounded
    OBVIOUS
  <1>1. /\ Cardinality(cleared) \in Nat /\ Cardinality(cleared) <= expired
        /\ ClearedOthers = Cardinality(cleared) - (IF stored \in cleared THEN 1 ELSE 0)
        /\ ClearedOthers \in Nat
        /\ issued \in Nat /\ refusals \in Nat /\ expired \in Nat
    BY ClearedLemma DEF CallsOK
  <1>2. Cardinality(Refreshing) \in Nat /\ refreshable \in BOOLEAN
    BY FS_CardinalityType DEF CallsOK, TypeOK
  <1> HIDE DEF ClearedOthers, Refreshing, LoginCounts
  <1> QED
    BY <1>1, <1>2 DEF LoginsAreAccounted, LoginsAreBounded, Replacements

\* The state of the session and of the calls on it is always well formed, and
\* the lock's queue holds each waiting call once, the one that logs in first.
THEOREM SessionTypes == Spec => []TypeOK
  <1>1. CallsOK => TypeOK
    BY DEF CallsOK
  <1> QED
    BY <1>1, InitLemma, StepLemma, PTL DEF Spec

\* However many calls share the session and however they interleave, the site
\* sees no more logins than the sessions that expired and the calls it refused
\* account for: _login_lock and its second look at the stored session.
THEOREM LoginsBounded == Spec => []LoginsAreBounded
  <1>1. Init => CallsOK /\ LoginsAreAccounted
    BY InitLemma, AccountsInitLemma
  <1>2. CallsOK /\ LoginsAreAccounted /\ [Next]_vars => (CallsOK /\ LoginsAreAccounted)'
    BY StepLemma, AccountsLemma
  <1> QED
    BY <1>1, <1>2, BoundLemma, PTL DEF Spec

----------------------------------------------------------------------------
(* One-time passwords.                                                     *)

OtpInv == CallsOK /\ OtpTypeOK /\ PinIsNotOutdated

\* What OtpSignIn adds to the calls changes nothing about them.
LEMMA OtpStepLemma == [OtpNext]_<<vars, code>> => [Next]_vars
  BY DEF OtpNext, Asks, Generated, CallStep, Stores, Lapses, Next, Progress, vars

\* Whether logins bring a refresh token is a property of the switch.
LEMMA RefreshableLemma == [Next]_vars => UNCHANGED refreshable
  BY DEF Next, Progress, Begin, Reuse, LogIn, LoggedIn, LoginFailed, Cancelled, Transmit, Answered,
         Refused, Refreshed, RefreshFailed, Obtained, Expires, SiteForgets, vars

\* Nothing is asked of a state without a code.
LEMMA NoCodeLemma ==
  ASSUME code' = NoCode
  PROVE  OtpTypeOK' /\ PinIsNotOutdated'
  BY SessionAssumption DEF NoCode, OtpTypeOK, PinIsNotOutdated, NoSession

\* Initially there is no code.
LEMMA CodeInitLemma == OtpInit => OtpInv
  <1> SUFFICES ASSUME OtpInit PROVE OtpInv
    OBVIOUS
  <1>1. CallsOK /\ code = NoCode
    BY InitLemma DEF OtpInit
  <1> QED
    BY <1>1, SessionAssumption DEF OtpInv, OtpTypeOK, PinIsNotOutdated, NoCode, NoSession

\* The code is made in a session that was issued, and the token read at that
\* moment is that of the last one, if there is any.
LEMMA GeneratedLemma ==
  ASSUME OtpInv, NEW c \in Call, Generated(c)
  PROVE  OtpTypeOK' /\ PinIsNotOutdated'
  <1>1. /\ call[c].used \in Session \cup {NoSession} /\ call[c].used <= issued
        /\ CurrentAccessToken \in Session \cup {NoSession}
        /\ refreshable /\ CurrentAccessToken # NoSession => CurrentAccessToken = issued
    BY SessionAssumption
    DEF OtpInv, CallsOK, CallOK, TypeOK, CallState, CurrentAccessToken, Session, NoSession
  <1>2. UNCHANGED refreshable
    BY DEF Generated, Answered
  <1>3. CASE code' = Made(c)
    <2>1. code' = [at |-> "made", by |-> {}, issuer |-> call[c].used, pin |-> CurrentAccessToken]
      BY <1>3 DEF Made
    <2> HIDE DEF CurrentAccessToken
    <2>2. OtpTypeOK'
      BY <1>1, <2>1 DEF OtpTypeOK
    <2>3. PinIsNotOutdated'
      BY <1>1, <1>2, <2>1 DEF PinIsNotOutdated
    <2> QED
      BY <2>2, <2>3
  <1>4. CASE code' = NoCode
    BY <1>4, NoCodeLemma
  <1> QED
    BY <1>3, <1>4 DEF Generated

\* OtpInv is inductive.
LEMMA CodeStepLemma ==
  ASSUME OtpInv, [OtpNext]_<<vars, code>>
  PROVE  OtpInv'
  <1>1. CallsOK' /\ UNCHANGED refreshable
    BY OtpStepLemma, RefreshableLemma, StepLemma DEF OtpInv
  <1> SUFFICES OtpTypeOK' /\ PinIsNotOutdated'
    BY <1>1 DEF OtpInv
  <1>2. ASSUME NEW c \in Call, Asks(c)
        PROVE  OtpTypeOK' /\ PinIsNotOutdated'
    <2>1. call'[c].pc # "idle" /\ code' = [NoCode EXCEPT !.at = "asked", !.by = {c}]
      BY <1>2, BeginLemma DEF Asks, Moves, OtpInv
    <2>2. code' = [at |-> "asked", by |-> {c}, issuer |-> NoSession, pin |-> NoSession]
      BY <2>1 DEF NoCode
    <2>3. OtpTypeOK'
      BY <2>1, <2>2 DEF OtpTypeOK
    <2> QED
      BY <2>2, <2>3 DEF PinIsNotOutdated
  <1>3. CASE CallStep
    <2>1. CASE code' = NoCode
      BY <2>1, NoCodeLemma
    <2>2. CASE code' = code /\ \A c \in code.by : call'[c].pc # "idle"
      BY <1>1, <2>2 DEF OtpInv, OtpTypeOK, PinIsNotOutdated
    <2> QED
      BY <1>3, <2>1, <2>2 DEF CallStep
  <1>4. CASE Stores
    <2>1. code' = [code EXCEPT !.at = "kept"] /\ code.by = {} /\ UNCHANGED call
      BY <1>4 DEF Stores, OtpInv, OtpTypeOK, vars
    <2> QED
      BY <1>1, <2>1 DEF OtpInv, OtpTypeOK, PinIsNotOutdated
  <1>5. CASE Lapses
    BY <1>5, NoCodeLemma DEF Lapses
  <1>6. CASE UNCHANGED <<vars, code>>
    BY <1>6, <1>1 DEF OtpInv, OtpTypeOK, PinIsNotOutdated, vars
  <1> QED
    BY <1>1, <1>2, <1>3, <1>4, <1>5, <1>6, GeneratedLemma DEF OtpNext, OtpInv

\* A code belongs to a call of create_otp that is under way, or to none.
THEOREM CodeTypes == OtpSpec => []OtpTypeOK
  <1>1. OtpInv => OtpTypeOK
    BY DEF OtpInv
  <1> QED
    BY <1>1, CodeInitLemma, CodeStepLemma, PTL DEF OtpSpec

\* generate_otp never stores a code with the token of a session older than the
\* one the switch created it in, whatever logins and refusals of this and other
\* calls come between the answer to create_otp and the look at the token.
THEOREM PinNotOutdated == OtpSpec => []PinIsNotOutdated
  <1>1. OtpInv => PinIsNotOutdated
    BY DEF OtpInv
  <1> QED
    BY <1>1, CodeInitLemma, CodeStepLemma, PTL DEF OtpSpec

\* generate_otp is one more client of the admin session: whatever is true of the
\* session and its calls is true of them while codes are made.
THEOREM OtpIsAClient == OtpSpec => Spec
  <1>1. OtpInit => Init
    BY DEF OtpInit
  <1> QED
    BY <1>1, OtpStepLemma, PTL DEF OtpSpec, Spec
=============================================================================
