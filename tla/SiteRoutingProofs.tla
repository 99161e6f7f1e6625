------------------------- MODULE SiteRoutingProofs -------------------------
(***************************************************************************)
(* Proofs about SiteRouting, for any thresholds, any set of requests and   *)
(* any answers the sites can give: its invariants, and that the process    *)
(* leaves main and returns to it only on what it was told.                 *)
(***************************************************************************)
EXTENDS SiteRouting, SiteTrackerProofs, FiniteSetTheorems

\* A streak is never longer than the run of reports it stands for: the
\* "normal" ones on the standby, the ticks with main down on main.  On main the
\* normal streak may be too long, because a late probe counts there too;
\* leaving main resets it.
StreaksAreHeard ==
    /\ DownCountedOnMain(tracker)
    /\ tracker.active = STANDBY => tracker.normalStreak <= heard.normalRun
    /\ tracker.active = MAIN /\ tracker.modeAware =>
           tracker.mainDownStreak <= heard.downRun

\* A request on its way has been taken by no site, one that ended by one at most.
TakenByNoneYet ==
    \A r \in Request :
        /\ InFlight(r) => request[r].took = {}
        /\ \E site \in Site : request[r].took \subseteq {site}

\* The inductive invariant.
IInv == TypeOK /\ StreaksAreHeard /\ TakenByNoneYet

----------------------------------------------------------------------------
(* The tracker's part of the invariant, for the three kinds of steps that  *)
(* change the tracker and for those that do not.                           *)

\* What a step on the tracker must give for the invariant and the two evidence
\* properties; t, h are the tracker and `heard` before it, u, k after it.
TrackerInv(t, h) ==
    /\ TrackerOK(t)
    /\ DownCountedOnMain(t)
    /\ h \in Heard
    /\ t.active = STANDBY => t.normalStreak <= h.normalRun
    /\ t.active = MAIN /\ t.modeAware => t.mainDownStreak <= h.downRun

LeavingIsHeard(t, u, k) ==
    t.active # STANDBY /\ u.active = STANDBY =>
        IF u.modeAware
        THEN k.news = "standalone" \/ k.downRun = MainDownThreshold
        ELSE k.news = "outage"

ReturningIsHeard(t, u, k) ==
    t.active # MAIN /\ u.active = MAIN => k.normalRun = SwitchBackThreshold

\* One more report is counted, up to the limit.
LEMMA OneMoreLemma ==
    ASSUME NEW limit \in Nat, NEW n \in 0..limit, NEW streak \in Nat, streak <= n
    PROVE  /\ OneMore(n, limit) \in 0..limit
           /\ streak + 1 <= limit => streak + 1 <= OneMore(n, limit)
           /\ streak + 1 = limit => OneMore(n, limit) = limit
  BY DEF OneMore

\* A step that tells the process nothing and leaves the tracker alone.
LEMMA HearNothingLemma ==
    ASSUME TrackerInv(tracker, heard), UNCHANGED tracker, HearNothing
    PROVE  /\ TrackerInv(tracker', heard')
           /\ LeavingIsHeard(tracker, tracker', heard')
           /\ ReturningIsHeard(tracker, tracker', heard')
  <1>1. heard' = [normalRun |-> heard.normalRun, downRun |-> heard.downRun, news |-> "nothing"]
    BY DEF HearNothing, Hear, CameTo
  <1>2. heard' \in Heard /\ heard'.normalRun = heard.normalRun /\ heard'.downRun = heard.downRun
    BY <1>1 DEF TrackerInv, Heard
  <1> QED
    BY <1>2 DEF TrackerInv, LeavingIsHeard, ReturningIsHeard

\* The main site refused a connection or failed its outage check.
LEMMA OutageStepLemma ==
    ASSUME TrackerInv(tracker, heard),
           NEW u, u = ReportUnreachable(tracker), tracker' = u,
           Hear(heard.normalRun, heard.downRun, "outage")
    PROVE  /\ TrackerInv(tracker', heard')
           /\ LeavingIsHeard(tracker, tracker', heard')
           /\ ReturningIsHeard(tracker, tracker', heard')
  <1> USE ThresholdsLemma
  <1>1. /\ TrackerOK(u) /\ DownCountedOnMain(u)
        /\ u.modeAware = tracker.modeAware
        /\ u.mainDownStreak = tracker.mainDownStreak
        /\ tracker.modeAware => u = tracker
        /\ ~tracker.modeAware => u.active = STANDBY /\ u.normalStreak = 0
    BY ReportUnreachableLemma DEF TrackerInv
  <1>2. /\ heard' \in Heard /\ heard'.news = "outage"
        /\ tracker' = tracker =>
               heard'.normalRun = heard.normalRun /\ heard'.downRun = heard.downRun
    BY DEF Hear, CameTo, TrackerInv, Heard
  <1>3. CASE tracker.modeAware
    BY <1>1, <1>2, <1>3 DEF TrackerInv, LeavingIsHeard, ReturningIsHeard
  <1>4. CASE ~tracker.modeAware
    <2>1. u.normalStreak <= heard'.normalRun
      BY <1>1, <1>2, <1>4 DEF Heard
    <2> QED
      BY <1>1, <1>2, <1>4, <2>1
      DEF TrackerInv, LeavingIsHeard, ReturningIsHeard, MAIN, STANDBY
  <1> QED
    BY <1>3, <1>4

\* A switch-back probe comes back: its streak goes on, or starts over, with the
\* run of "normal" reports.
LEMMA ProbeStepLemma ==
    ASSUME TrackerInv(tracker, heard), NEW mode,
           NEW u, u = ProbeReported(tracker, mode), tracker' = u,
           Hear(IF mode = "normal" THEN OneMore(heard.normalRun, SwitchBackThreshold) ELSE 0,
                heard.downRun, "nothing")
    PROVE  /\ TrackerInv(tracker', heard')
           /\ LeavingIsHeard(tracker, tracker', heard')
           /\ ReturningIsHeard(tracker, tracker', heard')
  <1> USE ThresholdsLemma
  <1>1. /\ TrackerOK(u)
        /\ u.modeAware = tracker.modeAware
        /\ u.mainDownStreak = tracker.mainDownStreak
        /\ u.active = MAIN \/ u.active = tracker.active
        /\ u.active # tracker.active =>
               mode = "normal" /\ tracker.normalStreak + 1 = SwitchBackThreshold
        /\ \/ u.normalStreak = 0
           \/ mode = "normal" /\ u.normalStreak = tracker.normalStreak + 1
    BY ProbeReportedLemma DEF TrackerInv
  <1> DEFINE run == IF mode = "normal" THEN OneMore(heard.normalRun, SwitchBackThreshold) ELSE 0
  <1>2. run \in 0..SwitchBackThreshold
    BY DEF OneMore, TrackerInv, Heard
  <1>3. ~CameTo(STANDBY)
    BY <1>1 DEF CameTo, MAIN, STANDBY
  <1>4. /\ heard' \in Heard
        /\ heard'.normalRun = run
        /\ heard'.downRun = IF CameTo(MAIN) THEN 0 ELSE heard.downRun
    BY <1>2, <1>3 DEF Hear, TrackerInv, Heard
  <1>5. tracker.active \in Site /\ u.active \in Site
    BY <1>1 DEF TrackerInv, TrackerOK, Tracker
  <1>6. DownCountedOnMain(u)
    BY <1>1, <1>5 DEF TrackerInv, DownCountedOnMain, Site, MAIN, STANDBY
  <1>7. u.active = STANDBY => u.normalStreak <= run
    BY <1>1, <1>2, <1>5 DEF TrackerInv, TrackerOK, Tracker, OneMore, Heard, Site, MAIN, STANDBY
  <1>8. u.active = MAIN /\ u.modeAware => u.mainDownStreak <= heard'.downRun
    <2>1. CASE tracker.active = MAIN
      BY <1>1, <1>4, <2>1 DEF TrackerInv, CameTo
    <2>2. CASE tracker.active = STANDBY
      BY <1>1, <1>4, <2>2 DEF TrackerInv, DownCountedOnMain, Heard
    <2> QED
      BY <1>5, <2>1, <2>2 DEF Site
  <1>9. ReturningIsHeard(tracker, u, heard')
    BY <1>1, <1>4, <1>5
    DEF ReturningIsHeard, TrackerInv, TrackerOK, Tracker, OneMore, Heard, Site, MAIN, STANDBY
  <1>10. LeavingIsHeard(tracker, u, heard')
    BY <1>3 DEF LeavingIsHeard, CameTo
  <1> QED
    BY <1>1, <1>4, <1>6, <1>7, <1>8, <1>9, <1>10 DEF TrackerInv

\* A monitor tick: the streak of the site the process is on counts this tick or
\* starts over, as `heard` does.
LEMMA TickStepLemma ==
    ASSUME TrackerInv(tracker, heard), NEW main, NEW standby, Tick(main, standby)
    PROVE  /\ TrackerInv(tracker', heard')
           /\ LeavingIsHeard(tracker, tracker', heard')
           /\ ReturningIsHeard(tracker, tracker', heard')
  <1> USE ThresholdsLemma
  <1> DEFINE u == Polled(tracker, main, standby)
             v == Observed(tracker, main, standby)
             normalRun == IF ~u.modeAware THEN heard.normalRun
                          ELSE IF main = "normal"
                               THEN OneMore(heard.normalRun, SwitchBackThreshold)
                               ELSE 0
             downRun == IF u.modeAware /\ Down(main) /\ standby # NoAnswer
                        THEN OneMore(heard.downRun, MainDownThreshold)
                        ELSE 0
             news == IF u.modeAware /\ standby = "standalone" THEN "standalone" ELSE "nothing"
  <1>1. tracker' = u /\ Hear(normalRun, downRun, news)
    BY DEF Tick
  <1>2. u = IF ~v.modeAware THEN v
            ELSE IF v.active = MAIN THEN PolledOnMain(v, main, standby)
                 ELSE PolledOnStandby(v, main, standby)
    BY DEF Polled
  <1>3. /\ TrackerOK(v) /\ DownCountedOnMain(v) /\ v.active = tracker.active
        /\ \/ v = tracker
           \/ v.normalStreak = 0 /\ v.mainDownStreak = 0
    BY ObservedLemma DEF TrackerInv
  <1>4. heard.normalRun \in 0..SwitchBackThreshold /\ heard.downRun \in 0..MainDownThreshold
    BY DEF TrackerInv, Heard
  <1>5. normalRun \in 0..SwitchBackThreshold /\ downRun \in 0..MainDownThreshold
    BY <1>4 DEF OneMore
  <1>6. /\ heard' \in Heard
        /\ heard'.normalRun = IF CameTo(STANDBY) THEN 0 ELSE normalRun
        /\ heard'.downRun = IF CameTo(MAIN) THEN 0 ELSE downRun
        /\ heard'.news = news
    <2> HIDE DEF normalRun, downRun
    <2>1. heard' = [normalRun |-> IF CameTo(STANDBY) THEN 0 ELSE normalRun,
                    downRun |-> IF CameTo(MAIN) THEN 0 ELSE downRun,
                    news |-> news]
      BY <1>1 DEF Hear
    <2>2. news \in {"nothing", "standalone", "outage"}
      OBVIOUS
    <2> QED
      BY <1>5, <2>1, <2>2 DEF Heard
  <1>7. v.active = STANDBY => v.normalStreak <= heard.normalRun
    BY <1>3, <1>4 DEF TrackerInv
  <1>8. v.active = MAIN => v.mainDownStreak <= heard.downRun
    BY <1>3, <1>4 DEF TrackerInv, DownCountedOnMain
  <1>9. tracker.active \in Site /\ tracker.normalStreak \in Nat
        /\ v.normalStreak \in Nat /\ v.mainDownStreak \in Nat
    BY <1>3 DEF TrackerInv, TrackerOK, Tracker
  <1> HIDE DEF u, v
  <1>10. CASE ~v.modeAware
    <2>1. u = v /\ tracker'.active = tracker.active /\ ~CameTo(STANDBY)
      BY <1>1, <1>2, <1>3, <1>10 DEF CameTo
    <2> QED
      BY <1>1, <1>3, <1>6, <1>7, <1>9, <1>10, <2>1
      DEF TrackerInv, LeavingIsHeard, ReturningIsHeard
  <1>11. CASE v.modeAware /\ v.active = MAIN
    <2>1. /\ TrackerOK(u) /\ DownCountedOnMain(u) /\ u.modeAware
          /\ u.active = STANDBY =>
                 /\ u.normalStreak = 0
                 /\ \/ standby = "standalone"
                    \/ /\ Down(main) /\ standby # NoAnswer
                       /\ v.mainDownStreak + 1 = MainDownThreshold
          /\ \/ u.mainDownStreak = 0
             \/ /\ Down(main) /\ standby # NoAnswer
                /\ u.mainDownStreak = v.mainDownStreak + 1
      BY <1>2, <1>3, <1>11, PolledOnMainLemma
    <2>2. ~CameTo(MAIN) /\ heard'.downRun = downRun
      BY <1>3, <1>6, <1>11 DEF CameTo
    <2>3. u.active = STANDBY => u.normalStreak <= heard'.normalRun
      BY <1>6, <2>1 DEF Heard
    <2>4. u.mainDownStreak < MainDownThreshold /\ u.mainDownStreak \in Nat
      BY <2>1 DEF TrackerOK, Tracker
    <2>5. u.mainDownStreak <= heard'.downRun
      BY <1>4, <1>5, <1>8, <1>9, <1>11, <2>1, <2>2, <2>4 DEF OneMore
    <2>6. u.active = STANDBY => news = "standalone" \/ downRun = MainDownThreshold
      BY <1>4, <1>8, <1>9, <1>11, <2>1 DEF OneMore
    <2> QED
      BY <1>1, <1>3, <1>6, <1>11, <2>1, <2>2, <2>3, <2>5, <2>6
      DEF TrackerInv, LeavingIsHeard, ReturningIsHeard
  <1>12. CASE v.modeAware /\ v.active = STANDBY
    <2>1. v.mainDownStreak = 0
      BY <1>3, <1>12 DEF DownCountedOnMain
    <2>2. /\ TrackerOK(u) /\ u.modeAware /\ u.mainDownStreak = 0
          /\ u.active = MAIN =>
                 main = "normal" /\ v.normalStreak + 1 = SwitchBackThreshold
          /\ \/ u.normalStreak = 0
             \/ main = "normal" /\ u.normalStreak = v.normalStreak + 1
      BY <1>2, <1>3, <1>12, <2>1, PolledOnStandbyLemma DEF MAIN, STANDBY
    <2>3. ~CameTo(STANDBY) /\ heard'.normalRun = normalRun
      BY <1>3, <1>6, <1>12 DEF CameTo
    <2>4. u.normalStreak < SwitchBackThreshold /\ u.normalStreak \in Nat
      BY <2>2 DEF TrackerOK, Tracker
    <2>5. u.normalStreak <= heard'.normalRun
      BY <1>4, <1>5, <1>7, <1>9, <1>12, <2>2, <2>3, <2>4 DEF OneMore
    <2>6. u.active = MAIN => normalRun = SwitchBackThreshold
      BY <1>4, <1>7, <1>9, <1>12, <2>2 DEF OneMore
    <2>7. u.mainDownStreak <= heard'.downRun
      BY <1>6, <2>2 DEF Heard
    <2> QED
      BY <1>1, <1>3, <1>6, <1>12, <2>2, <2>3, <2>5, <2>6, <2>7
      DEF TrackerInv, DownCountedOnMain, LeavingIsHeard, ReturningIsHeard
  <1> QED
    BY <1>3, <1>9, <1>10, <1>11, <1>12 DEF Site
----------------------------------------------------------------------------
(* The requests' part of the invariant.                                    *)

RequestInv(req) ==
    /\ req \in [Request -> RequestState]
    /\ \A r \in Request :
           /\ req[r].targets # <<>> => req[r].took = {}
           /\ \E site \in Site : req[r].took \subseteq {site}

\* A new state of one slot: still on its way and taken by no site, or ended and
\* taken by one at most.
LEMMA SlotLemma ==
    ASSUME RequestInv(request), NEW r \in Request,
           NEW slot \in RequestState,
           slot.took = {} \/ (slot.targets = <<>> /\ \E site \in Site : slot.took = {site})
    PROVE  RequestInv([request EXCEPT ![r] = slot])
  BY DEF RequestInv, Site

\* Giving a slot other targets leaves the rest of it alone.
LEMMA SlotUpdateLemma ==
    ASSUME NEW T, NEW S, NEW slot \in [targets: T, took: S], NEW targets
    PROVE  [slot EXCEPT !.targets = targets] = [targets |-> targets, took |-> slot.took]
  OBVIOUS

\* The sites a request is sent to.
LEMMA TargetsLemma ==
    ASSUME tracker \in Tracker
    PROVE  NextTargets \in {<<MAIN>>, <<STANDBY>>, <<MAIN, STANDBY>>}
  BY DEF NextTargets, Tracker, Site

\* The site being tried, and what is left once it has refused the connection.
LEMMA TargetLemma ==
    ASSUME RequestInv(request), NEW r \in Request, InFlight(r)
    PROVE  /\ Target(r) \in Site
           /\ request[r].took = {}
           /\ Len(request[r].targets) > 1 => Tail(request[r].targets) = <<STANDBY>>
  <1> DEFINE targets == request[r].targets
  <1>1. targets \in {<<>>, <<MAIN>>, <<STANDBY>>, <<MAIN, STANDBY>>}
    BY DEF RequestInv, RequestState
  <1>2. targets # <<>> /\ request[r].took = {}
    BY DEF RequestInv, InFlight
  <1>3. CASE targets \in {<<MAIN>>, <<STANDBY>>}
    <2>1. Len(targets) = 1 /\ Head(targets) \in Site
      BY <1>3 DEF Site
    <2> QED
      BY <1>2, <2>1 DEF Target
  <1>4. CASE targets = <<MAIN, STANDBY>>
    <2>1. Tail(targets) = <<STANDBY>> /\ Head(targets) \in Site
      BY <1>4 DEF Site
    <2> QED
      BY <1>2, <2>1 DEF Target
  <1> QED
    BY <1>1, <1>2, <1>3, <1>4

\* A request that ends has been taken by the site it was tried on, or by none.
LEMMA EndedLemma ==
    ASSUME RequestInv(request), NEW r \in Request, InFlight(r),
           NEW took \in {{}, {Target(r)}},
           request' = Ended(r, request[r].took \cup took)
    PROVE  RequestInv(request')
  <1> DEFINE slot == [targets |-> <<>>, took |-> took]
  <1>1. request[r].took = {} /\ Target(r) \in Site
    BY TargetLemma
  <1>2. request' = [request EXCEPT ![r] = slot]
    BY <1>1 DEF Ended
  <1>3. took \subseteq Site /\ (took = {} \/ \E site \in Site : took = {site})
    BY <1>1
  <1>4. slot \in RequestState
    BY <1>3 DEF RequestState
  <1> QED
    BY <1>2, <1>3, <1>4, SlotLemma

\* A step of a request keeps the requests' part of the invariant: only a refused
\* connection, which no site has taken, is sent on.
LEMMA RequestStepLemma ==
    ASSUME RequestInv(request), tracker \in Tracker, NEW r \in Request, RequestStep(r)
    PROVE  RequestInv(request')
  <1>1. CASE Send(r)
    <2> DEFINE slot == [targets |-> NextTargets, took |-> {}]
    <2>1. slot \in RequestState
      BY TargetsLemma DEF RequestState
    <2>2. request' = [request EXCEPT ![r] = slot]
      BY <1>1 DEF Send
    <2> QED
      BY <2>1, <2>2, SlotLemma
  <1>2. CASE Answered(r)
    BY <1>2, EndedLemma DEF Answered
  <1>3. CASE Unreachable(r)
    <2>1. CASE Len(request[r].targets) > 1
      <3> DEFINE slot == [targets |-> <<STANDBY>>, took |-> {}]
      <3>1. /\ request' = [request EXCEPT ![r].targets = Tail(@)]
            /\ Tail(request[r].targets) = <<STANDBY>>
            /\ request[r].took = {}
        BY <1>3, <2>1, TargetLemma DEF Unreachable
      <3>2. request[r] \in RequestState
        BY DEF RequestInv
      <3>3. [request[r] EXCEPT !.targets = <<STANDBY>>] = slot
        <4>1. \E T, S : request[r] \in [targets: T, took: S]
          BY <3>2 DEF RequestState
        <4>2. [request[r] EXCEPT !.targets = <<STANDBY>>]
                = [targets |-> <<STANDBY>>, took |-> request[r].took]
          BY <4>1, SlotUpdateLemma
        <4> QED
          BY <3>1, <4>2
      <3>4. request' = [request EXCEPT ![r] = [request[r] EXCEPT !.targets = <<STANDBY>>]]
        BY <3>1
      <3>5. slot \in RequestState
        BY DEF RequestState
      <3> QED
        BY <3>3, <3>4, <3>5, SlotLemma
    <2>2. CASE ~(Len(request[r].targets) > 1)
      <3>1. request' = Ended(r, request[r].took \cup {})
        BY <1>3, <2>2 DEF Unreachable
      <3> QED
        BY <1>3, <3>1, EndedLemma DEF Unreachable
    <2> QED
      BY <2>1, <2>2
  <1>4. CASE Slow(r)
    BY <1>4, EndedLemma DEF Slow
  <1>5. CASE Dropped(r)
    BY <1>5, EndedLemma DEF Dropped
  <1> QED
    BY <1>1, <1>2, <1>3, <1>4, <1>5 DEF RequestStep

----------------------------------------------------------------------------
(* The specification.                                                      *)

\* The rest of the state: four flags.
FlagsInv == /\ monitorRunning \in BOOLEAN /\ probeDue \in BOOLEAN
            /\ probeInFlight \in BOOLEAN /\ confirmInFlight \in BOOLEAN

\* The invariant is the tracker's part, the requests' part and the flags.
LEMMA IInvParts ==
    IInv <=> TrackerInv(tracker, heard) /\ RequestInv(request) /\ FlagsInv
  BY DEF IInv, TypeOK, StreaksAreHeard, TakenByNoneYet, InFlight,
     TrackerInv, TrackerOK, RequestInv, FlagsInv

\* The invariant holds initially.
LEMMA InitLemma == Init => IInv
  <1> SUFFICES ASSUME Init PROVE IInv
    OBVIOUS
  <1>1. TrackerInv(tracker, heard)
    BY ThresholdsLemma DEF Init, InitialTracker, TrackerInv, TrackerOK, Tracker,
       DownCountedOnMain, Heard, Site, MAIN, STANDBY
  <1>2. Idle \in RequestState /\ Idle.targets = <<>> /\ Idle.took = {}
    BY DEF Idle, RequestState
  <1>3. RequestInv(request)
    BY <1>2 DEF Init, RequestInv, Site
  <1>4. FlagsInv
    BY DEF Init, FlagsInv
  <1> QED
    BY <1>1, <1>3, <1>4, IInvParts

\* A step of a request, on the tracker: only a refused connection to main
\* changes it.
LEMMA RequestTrackerLemma ==
    ASSUME TrackerInv(tracker, heard), NEW r \in Request, RequestStep(r)
    PROVE  /\ TrackerInv(tracker', heard')
           /\ LeavingIsHeard(tracker, tracker', heard')
           /\ ReturningIsHeard(tracker, tracker', heard')
  <1>1. CASE UNCHANGED tracker /\ HearNothing
    BY <1>1, HearNothingLemma
  <1>2. CASE Unreachable(r)
    <2>1. CASE Target(r) = MAIN
      BY <1>2, <2>1, OutageStepLemma DEF Unreachable
    <2>2. CASE Target(r) # MAIN
      BY <1>2, <2>2, HearNothingLemma DEF Unreachable, HearNothing
    <2> QED
      BY <2>1, <2>2
  <1> QED
    BY <1>1, <1>2 DEF RequestStep, Send, Answered, Slow, Dropped

\* Every step preserves the invariant and, if it moves the process to another
\* site, does so on what the process was told.
LEMMA StepLemma ==
    ASSUME IInv, Next
    PROVE  /\ IInv'
           /\ LeavingIsHeard(tracker, tracker', heard')
           /\ ReturningIsHeard(tracker, tracker', heard')
  <1> DEFINE Goal == /\ TrackerInv(tracker', heard')
                     /\ RequestInv(request')
                     /\ FlagsInv'
                     /\ LeavingIsHeard(tracker, tracker', heard')
                     /\ ReturningIsHeard(tracker, tracker', heard')
  <1>1. TrackerInv(tracker, heard) /\ RequestInv(request) /\ FlagsInv /\ tracker \in Tracker
    BY IInvParts DEF TrackerInv, TrackerOK
  <1>2. ASSUME NEW r \in Request, RequestStep(r) PROVE Goal
    <2>1. FlagsInv'
      BY <1>1, <1>2 DEF RequestStep, Send, MaybeScheduleProbe, Answered, Unreachable,
         Slow, Dropped, FlagsInv
    <2> QED
      BY <1>1, <1>2, <2>1, RequestStepLemma, RequestTrackerLemma
  <1>3. ASSUME NEW main \in MainAnswer, NEW standby \in StandbyAnswer, Tick(main, standby)
        PROVE  Goal
    <2>1. FlagsInv' /\ request' = request
      BY <1>1, <1>3 DEF Tick, FlagsInv
    <2> QED
      BY <1>1, <1>3, <2>1, TickStepLemma
  <1>4. ASSUME RecheckDue PROVE Goal
    <2>1. FlagsInv' /\ request' = request /\ UNCHANGED tracker /\ HearNothing
      BY <1>1, <1>4 DEF RecheckDue, FlagsInv
    <2> QED
      BY <1>1, <2>1, HearNothingLemma
  <1>5. ASSUME NEW mode \in MainAnswer, ProbeReturns(mode) PROVE Goal
    <2>1. FlagsInv' /\ request' = request
      BY <1>1, <1>5 DEF ProbeReturns, FlagsInv
    <2> QED
      BY <1>1, <1>5, <2>1, ProbeStepLemma DEF ProbeReturns
  <1>6. ASSUME NEW mode \in MainAnswer, ConfirmReturns(mode) PROVE Goal
    <2>1. FlagsInv' /\ request' = request
      BY <1>1, <1>6 DEF ConfirmReturns, FlagsInv
    <2>2. CASE Down(mode)
      BY <1>1, <1>6, <2>1, <2>2, OutageStepLemma DEF ConfirmReturns, ConfirmReported
    <2>3. CASE ~Down(mode)
      BY <1>1, <1>6, <2>1, <2>3, HearNothingLemma
      DEF ConfirmReturns, ConfirmReported, HearNothing
    <2> QED
      BY <2>2, <2>3
  <1>7. Goal
    BY <1>2, <1>3, <1>4, <1>5, <1>6 DEF Next
  <1>8. IInv' <=> TrackerInv(tracker', heard') /\ RequestInv(request') /\ FlagsInv'
    BY DEF IInv, TypeOK, StreaksAreHeard, TakenByNoneYet, InFlight,
       TrackerInv, TrackerOK, DownCountedOnMain, RequestInv, FlagsInv
  <1> QED
    BY <1>7, <1>8

\* The inductive invariant holds in every reachable state.
THEOREM Invariance == Spec => []IInv
  <1>1. IInv /\ [Next]_vars => IInv'
    <2>1. CASE Next
      BY <2>1, StepLemma
    <2>2. CASE UNCHANGED vars
      BY <2>2 DEF vars, IInv, TypeOK, StreaksAreHeard, DownCountedOnMain,
         TakenByNoneYet, InFlight
    <2> QED
      BY <2>1, <2>2
  <1> QED
    BY InitLemma, <1>1, PTL DEF Spec

\* Types are kept, and both streaks of the tracker stay below their thresholds.
THEOREM TypeCorrect == Spec => []TypeOK
  <1>1. IInv => TypeOK
    BY DEF IInv
  <1> QED
    BY <1>1, Invariance, PTL

\* No request is executed by both sites: _send_rest_request sends a request on to
\* the standby only after main refused the connection.
THEOREM TakenAtMostOnce == Spec => []TakenOnce
  <1>1. IInv => TakenOnce
    <2> SUFFICES ASSUME IInv, NEW r \in Request PROVE Cardinality(request[r].took) <= 1
      BY DEF TakenOnce
    <2>1. PICK site \in Site : request[r].took \subseteq {site}
      BY DEF IInv, TakenByNoneYet
    <2>2. request[r].took = {} \/ request[r].took = {site}
      BY <2>1
    <2>3. Cardinality({}) = 0 /\ Cardinality({site}) = 1
      BY FS_EmptySet, FS_Singleton
    <2> QED
      BY <2>2, <2>3
  <1> QED
    BY <1>1, Invariance, PTL

\* The process leaves main only on a "standalone" report, a full run of ticks with
\* main down, or, while reactive, on a refused connection or failed outage check.
THEOREM LeavesMainOnlyOnEvidence == Spec => LeavesMainOnEvidence
  <1> DEFINE A == CameTo(STANDBY) =>
                    IF tracker'.modeAware
                    THEN heard'.news = "standalone" \/ heard'.downRun = MainDownThreshold
                    ELSE heard'.news = "outage"
  <1>1. IInv /\ [Next]_vars => [A]_vars
    <2>1. CASE Next
      BY <2>1, StepLemma DEF LeavingIsHeard, CameTo
    <2> QED
      BY <2>1
  <1> QED
    BY <1>1, Invariance, PTL DEF Spec, LeavesMainOnEvidence

\* The process goes back to main only after SwitchBackThreshold "normal" reports
\* in a row since it left, from ticks and late or timely probes alike.
THEOREM ReturnsOnlyOnEvidence == Spec => ReturnsOnEvidence
  <1> DEFINE A == CameTo(MAIN) => heard'.normalRun = SwitchBackThreshold
  <1>1. IInv /\ [Next]_vars => [A]_vars
    <2>1. CASE Next
      BY <2>1, StepLemma DEF ReturningIsHeard, CameTo
    <2> QED
      BY <2>1
  <1> QED
    BY <1>1, Invariance, PTL DEF Spec, ReturnsOnEvidence
=============================================================================
