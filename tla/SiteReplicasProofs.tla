------------------------ MODULE SiteReplicasProofs ------------------------
(***************************************************************************)
(* Proofs about SiteReplicas, for any set of pods, any thresholds and any  *)
(* answers the sites can give: types, and that pods which have heard the   *)
(* same settling answers for long enough use the site they call for.       *)
(***************************************************************************)
EXTENDS SiteReplicas, SiteTrackerProofs

\* How far a tracker that has had n ticks on the answers s has come to the
\* site they call for: it is there, or its streak counts all of the ticks.
OnItsWay(t, n, s) ==
    n >= 1 =>
        /\ MustUseStandby(s) =>
               t.modeAware /\ (t.active = STANDBY \/ t.mainDownStreak >= n)
        /\ MustUseMain(s) =>
               t.modeAware /\ (t.active = MAIN \/ t.normalStreak >= n)

\* What the invariant says of one pod.
PodInv(t, n, s) ==
    /\ TrackerOK(t)
    /\ DownCountedOnMain(t)
    /\ n \in 0..Enough
    /\ OnItsWay(t, n, s)

\* The environment's part, and the sets of pods.
RestInv ==
    /\ sites \in [main: MainAnswer, standby: StandbyAnswer]
    /\ monitoring \subseteq Pod
    /\ probing \subseteq Pod
    /\ changes \in 0..MaxChanges
    /\ restarts \in 0..MaxRestarts

\* The inductive invariant.
IInv ==
    /\ RestInv
    /\ tracker = [p \in Pod |-> tracker[p]]
    /\ calm = [p \in Pod |-> calm[p]]
    /\ \A p \in Pod : PodInv(tracker[p], calm[p], sites)

----------------------------------------------------------------------------
(* One tracker.                                                            *)

\* A number of ticks is a natural number no smaller than either threshold.
LEMMA EnoughLemma ==
    Enough \in Nat /\ Enough >= SwitchBackThreshold /\ Enough >= MainDownThreshold
  BY ThresholdsLemma DEF Enough

\* A pod that starts is well-formed and has had no tick.
LEMMA InitialLemma == \A s : PodInv(InitialTracker, 0, s)
  <1>1. InitialTracker \in Tracker
    BY DEF InitialTracker, Tracker, Site
  <1>2. /\ InitialTracker.normalStreak = 0
        /\ InitialTracker.mainDownStreak = 0
    BY DEF InitialTracker
  <1>3. TrackerOK(InitialTracker)
    BY <1>1, <1>2, ThresholdsLemma DEF TrackerOK
  <1> QED
    BY <1>2, <1>3, EnoughLemma DEF PodInv, DownCountedOnMain, OnItsWay

\* Starting the count of ticks over keeps what is said of a pod.
LEMMA CalmOverLemma ==
    ASSUME NEW t, TrackerOK(t), DownCountedOnMain(t), NEW s
    PROVE  PodInv(t, 0, s)
  BY EnoughLemma DEF PodInv, OnItsWay

\* A failed request to main changes nothing once a settling answer was heard.
LEMMA MainRefusesLemma ==
    ASSUME NEW t, NEW n, NEW s, PodInv(t, n, s)
    PROVE  PodInv(ReportUnreachable(t), n, s)
  <1> DEFINE u == ReportUnreachable(t)
  <1>1. /\ TrackerOK(u) /\ DownCountedOnMain(u)
        /\ t.modeAware => u = t
    BY ReportUnreachableLemma DEF PodInv
  <1>2. OnItsWay(u, n, s)
    BY <1>1 DEF PodInv, OnItsWay
  <1> QED
    BY <1>1, <1>2 DEF PodInv

\* A switch-back probe that comes back keeps the tracker well-formed.
LEMMA ProbeLemma ==
    ASSUME NEW t, TrackerOK(t), DownCountedOnMain(t), NEW mode
    PROVE  TrackerOK(ProbeReported(t, mode)) /\ DownCountedOnMain(ProbeReported(t, mode))
  <1> DEFINE u == ProbeReported(t, mode)
  <1>1. /\ TrackerOK(u) /\ u.modeAware = t.modeAware
        /\ u.mainDownStreak = t.mainDownStreak
        /\ u.active = MAIN \/ u.active = t.active
    BY ProbeReportedLemma
  <1>2. DownCountedOnMain(u)
    BY <1>1 DEF DownCountedOnMain, MAIN, STANDBY
  <1> QED
    BY <1>1, <1>2

\* A tick keeps the tracker well-formed.
LEMMA PolledLemma ==
    ASSUME NEW t, TrackerOK(t), DownCountedOnMain(t), NEW main, NEW standby
    PROVE  TrackerOK(Polled(t, main, standby)) /\ DownCountedOnMain(Polled(t, main, standby))
  <1> DEFINE u == Polled(t, main, standby)
             w == Observed(t, main, standby)
  <1>1. TrackerOK(w) /\ DownCountedOnMain(w)
    BY ObservedLemma
  <1>2. CASE ~w.modeAware
    BY <1>1, <1>2 DEF Polled
  <1>3. CASE w.modeAware /\ w.active = MAIN
    <2>1. u = PolledOnMain(w, main, standby)
      BY <1>3 DEF Polled
    <2> HIDE DEF w
    <2> QED
      BY <1>1, <1>3, <2>1, PolledOnMainLemma
  <1>4. CASE w.modeAware /\ w.active = STANDBY
    <2>1. u = PolledOnStandby(w, main, standby)
      BY <1>4 DEF Polled, MAIN, STANDBY
    <2>2. w.mainDownStreak = 0
      BY <1>1, <1>4 DEF DownCountedOnMain
    <2> HIDE DEF w
    <2>3. TrackerOK(u) /\ u.modeAware /\ u.mainDownStreak = 0
      BY <1>1, <1>4, <2>1, <2>2, PolledOnStandbyLemma
    <2> QED
      BY <2>3 DEF DownCountedOnMain
  <1>5. w.active \in {MAIN, STANDBY} /\ w.modeAware \in BOOLEAN
    BY <1>1 DEF TrackerOK, Tracker, Site
  <1> QED
    BY <1>2, <1>3, <1>4, <1>5

\* Settling answers make the tracker mode-aware; streaks counted while it
\* already was are kept.
LEMMA SettlingLemma ==
    ASSUME NEW t, TrackerOK(t), NEW s, MustUseStandby(s) \/ MustUseMain(s),
           NEW w, w = Observed(t, s.main, s.standby)
    PROVE  /\ w.modeAware
           /\ w.active = t.active
           /\ t.modeAware => w = t
  <1>1. {s.main, s.standby} \cap KnownModes # {}
    BY DEF MustUseStandby, MustUseMain, KnownModes
  <1>2. ({s.main, s.standby} \ {NoAnswer}) \cap KnownModes # {}
    BY <1>1 DEF KnownModes, NoAnswer
  <1>3. t.modeAware \in BOOLEAN
    BY DEF TrackerOK, Tracker
  <1>4. w = IF t.modeAware THEN t
            ELSE [t EXCEPT !.modeAware = TRUE, !.mainDownStreak = 0, !.normalStreak = 0]
    <2>1. {s.main, s.standby} \ {NoAnswer} # {}
      BY <1>2
    <2> QED
      BY <1>2, <1>3, <2>1 DEF Observed
  <1> QED
    BY <1>3, <1>4 DEF TrackerOK, Tracker

\* A tick on answers that call for the standby moves there or counts.
LEMMA StandbyTickLemma ==
    ASSUME NEW t, NEW n, NEW s, PodInv(t, n, s), MustUseStandby(s),
           NEW u, u = Polled(t, s.main, s.standby)
    PROVE  u.modeAware /\ (u.active = STANDBY \/ u.mainDownStreak >= n + 1)
  <1> DEFINE w == Observed(t, s.main, s.standby)
  <1>1. TrackerOK(t) /\ DownCountedOnMain(t) /\ n \in Nat
    BY EnoughLemma DEF PodInv
  <1>2. TrackerOK(w)
    BY <1>1, ObservedLemma
  <1>3. w.modeAware /\ w.active = t.active /\ (t.modeAware => w = t)
    BY <1>1, SettlingLemma
  <1>4. u = IF w.active = MAIN THEN PolledOnMain(w, s.main, s.standby)
                               ELSE PolledOnStandby(w, s.main, s.standby)
    BY <1>3 DEF Polled
  <1>5. w.active = STANDBY \/ (w.active = MAIN /\ w.mainDownStreak >= n)
    BY <1>1, <1>2, <1>3 DEF PodInv, OnItsWay, TrackerOK, Tracker, Site
  <1> HIDE DEF w
  <1>6. CASE w.active = STANDBY
    <2>1. ~(s.main = "normal" /\ s.standby # "standalone")
      BY DEF MustUseStandby, Down, NoAnswer
    <2>2. u = [w EXCEPT !.normalStreak = 0]
      BY <1>4, <1>6, <2>1 DEF PolledOnStandby, MAIN, STANDBY
    <2> QED
      BY <1>2, <1>3, <1>6, <2>2 DEF TrackerOK, Tracker
  <1>7. CASE w.active = MAIN /\ w.mainDownStreak >= n /\ s.standby = "standalone"
    <2>1. u = Switched(w, STANDBY)
      BY <1>4, <1>7 DEF PolledOnMain
    <2> QED
      BY <1>2, <1>3, <2>1 DEF Switched, TrackerOK, Tracker
  <1>8. CASE w.active = MAIN /\ w.mainDownStreak >= n /\ s.standby # "standalone"
    <2>1. s.standby \notin {"standalone", NoAnswer} /\ Down(s.main)
      BY <1>8 DEF MustUseStandby
    <2>2. u = IF w.mainDownStreak + 1 >= MainDownThreshold
              THEN Switched(w, STANDBY)
              ELSE [w EXCEPT !.mainDownStreak = @ + 1]
      BY <1>4, <1>8, <2>1 DEF PolledOnMain
    <2> QED
      BY <1>1, <1>2, <1>3, <1>8, <2>2 DEF Switched, TrackerOK, Tracker
  <1> QED
    BY <1>5, <1>6, <1>7, <1>8

\* A tick on answers that call for main goes back there or counts.
LEMMA MainTickLemma ==
    ASSUME NEW t, NEW n, NEW s, PodInv(t, n, s), MustUseMain(s),
           NEW u, u = Polled(t, s.main, s.standby)
    PROVE  u.modeAware /\ (u.active = MAIN \/ u.normalStreak >= n + 1)
  <1> DEFINE w == Observed(t, s.main, s.standby)
  <1>1. TrackerOK(t) /\ DownCountedOnMain(t) /\ n \in Nat
    BY EnoughLemma DEF PodInv
  <1>2. TrackerOK(w)
    BY <1>1, ObservedLemma
  <1>3. w.modeAware /\ w.active = t.active /\ (t.modeAware => w = t)
    BY <1>1, SettlingLemma
  <1>4. u = IF w.active = MAIN THEN PolledOnMain(w, s.main, s.standby)
                               ELSE PolledOnStandby(w, s.main, s.standby)
    BY <1>3 DEF Polled
  <1>5. w.active = MAIN \/ (w.active = STANDBY /\ w.normalStreak >= n)
    BY <1>1, <1>2, <1>3 DEF PodInv, OnItsWay, TrackerOK, Tracker, Site
  <1>6. s.main = "normal" /\ s.standby # "standalone" /\ ~Down(s.main)
    BY DEF MustUseMain, Down, NoAnswer
  <1> HIDE DEF w
  <1>7. CASE w.active = MAIN
    <2>1. u = [w EXCEPT !.mainDownStreak = 0]
      BY <1>4, <1>6, <1>7 DEF PolledOnMain
    <2> QED
      BY <1>2, <1>3, <1>7, <2>1 DEF TrackerOK, Tracker
  <1>8. CASE w.active = STANDBY /\ w.normalStreak >= n
    <2>1. u = IF w.normalStreak + 1 >= SwitchBackThreshold
              THEN Switched(w, MAIN)
              ELSE [w EXCEPT !.normalStreak = @ + 1]
      BY <1>4, <1>6, <1>8 DEF PolledOnStandby, MAIN, STANDBY
    <2> QED
      BY <1>1, <1>2, <1>3, <1>8, <2>1 DEF Switched, TrackerOK, Tracker
  <1> QED
    BY <1>5, <1>7, <1>8

\* A tick brings a pod one further on its way, or leaves it at the end of it.
LEMMA TickLemma ==
    ASSUME NEW t, NEW n, NEW s, PodInv(t, n, s)
    PROVE  PodInv(Polled(t, s.main, s.standby),
                  IF n < Enough THEN n + 1 ELSE n, s)
  <1> DEFINE u == Polled(t, s.main, s.standby)
             m == IF n < Enough THEN n + 1 ELSE n
  <1>1. TrackerOK(u) /\ DownCountedOnMain(u)
    BY PolledLemma DEF PodInv
  <1>2. n \in 0..Enough /\ m \in 0..Enough /\ m <= n + 1
    BY EnoughLemma DEF PodInv
  <1>3. MustUseStandby(s) =>
            u.modeAware /\ (u.active = STANDBY \/ u.mainDownStreak >= n + 1)
    BY StandbyTickLemma
  <1>4. MustUseMain(s) =>
            u.modeAware /\ (u.active = MAIN \/ u.normalStreak >= n + 1)
    BY MainTickLemma
  <1>5. u.mainDownStreak \in Nat /\ u.normalStreak \in Nat
    BY <1>1 DEF TrackerOK, Tracker
  <1> HIDE DEF u, m
  <1>6. OnItsWay(u, m, s)
    BY <1>2, <1>3, <1>4, <1>5, EnoughLemma DEF OnItsWay
  <1>7. PodInv(u, m, s)
    BY <1>1, <1>2, <1>6 DEF PodInv
  <1> QED
    BY <1>7 DEF u, m

\* A pod that has had enough ticks has arrived: its streak cannot be that long.
LEMMA ArrivedLemma ==
    ASSUME NEW t, NEW s, PodInv(t, Enough, s)
    PROVE  /\ MustUseStandby(s) => t.active = STANDBY
           /\ MustUseMain(s) => t.active = MAIN
  <1>1. /\ Enough >= 1
        /\ t.mainDownStreak < Enough
        /\ t.normalStreak < Enough
    BY EnoughLemma, ThresholdsLemma DEF PodInv, TrackerOK, Tracker
  <1>2. t.mainDownStreak \in Nat /\ t.normalStreak \in Nat
    BY DEF PodInv, TrackerOK, Tracker
  <1> QED
    BY <1>1, <1>2, EnoughLemma DEF PodInv, OnItsWay

----------------------------------------------------------------------------
(* All the pods.                                                           *)

LEMMA InitLemma == Init => IInv
  <1> SUFFICES ASSUME Init PROVE IInv
    OBVIOUS
  <1>1. RestInv
    BY ReplicasAssumption DEF Init, RestInv
  <1>2. \A p \in Pod : PodInv(tracker[p], calm[p], sites)
    BY InitialLemma DEF Init
  <1> QED
    BY <1>1, <1>2 DEF Init, IInv

\* A step that touches at most one pod's tracker and count of ticks, and not
\* the sites, keeps the invariant if it keeps what is said of that pod.
LEMMA OnePodLemma ==
    ASSUME IInv, NEW p \in Pod, NEW t, NEW n, RestInv', UNCHANGED sites,
           tracker' = [tracker EXCEPT ![p] = t],
           calm' = [calm EXCEPT ![p] = n],
           PodInv(t, n, sites)
    PROVE  IInv'
  <1>1. /\ tracker' = [q \in Pod |-> IF q = p THEN t ELSE tracker[q]]
        /\ calm' = [q \in Pod |-> IF q = p THEN n ELSE calm[q]]
    BY DEF IInv
  <1>2. \A q \in Pod : PodInv(tracker'[q], calm'[q], sites)
    BY <1>1 DEF IInv
  <1> QED
    BY <1>1, <1>2 DEF IInv

\* The invariant is inductive.
LEMMA StepLemma == IInv /\ [Next]_vars => IInv'
  <1> SUFFICES ASSUME IInv, [Next]_vars PROVE IInv'
    OBVIOUS
  <1> USE DEF RestInv
  <1>1. RestInv /\ \A p \in Pod : PodInv(tracker[p], calm[p], sites)
    BY DEF IInv
  <1>2. CASE SitesChange
    <2>1. RestInv'
      BY <1>1, <1>2, ReplicasAssumption DEF SitesChange
    <2>2. \A p \in Pod : PodInv(tracker[p], 0, sites')
      BY <1>1, CalmOverLemma DEF PodInv
    <2> QED
      BY <1>2, <2>1, <2>2 DEF SitesChange, IInv
  <1>3. ASSUME NEW p \in Pod, Restart(p) PROVE IInv'
    <2>1. RestInv'
      BY <1>1, <1>3, ReplicasAssumption DEF Restart
    <2>2. PodInv(InitialTracker, 0, sites)
      BY InitialLemma
    <2> QED
      BY <1>3, <2>1, <2>2, OnePodLemma DEF Restart
  <1>4. ASSUME NEW p \in Pod, RequestRouted(p) PROVE IInv'
    BY <1>1, <1>4 DEF RequestRouted, IInv
  <1>5. ASSUME NEW p \in Pod, MainRefuses(p) PROVE IInv'
    <2>1. RestInv'
      BY <1>1, <1>5 DEF MainRefuses
    <2>2. PodInv(ReportUnreachable(tracker[p]), calm[p], sites)
      BY <1>1, MainRefusesLemma
    <2>3. calm' = [calm EXCEPT ![p] = calm[p]]
      BY <1>5 DEF MainRefuses, IInv
    <2> QED
      BY <1>5, <2>1, <2>2, <2>3, OnePodLemma DEF MainRefuses
  <1>6. ASSUME NEW p \in Pod, Tick(p) PROVE IInv'
    <2>1. RestInv'
      BY <1>1, <1>6 DEF Tick
    <2>2. PodInv(Polled(tracker[p], sites.main, sites.standby),
                 IF calm[p] < Enough THEN calm[p] + 1 ELSE calm[p], sites)
      BY <1>1, TickLemma
    <2> QED
      BY <1>6, <2>1, <2>2, OnePodLemma DEF Tick
  <1>7. ASSUME NEW p \in Pod, NEW mode \in MainAnswer, ProbeReturns(p, mode)
        PROVE  IInv'
    <2>1. RestInv'
      BY <1>1, <1>7 DEF ProbeReturns
    <2>2. TrackerOK(tracker[p]) /\ DownCountedOnMain(tracker[p])
      BY <1>1 DEF PodInv
    <2>3. PodInv(ProbeReported(tracker[p], mode), 0, sites)
      BY <2>2, ProbeLemma, CalmOverLemma
    <2> QED
      BY <1>7, <2>1, <2>3, OnePodLemma DEF ProbeReturns
  <1>8. CASE UNCHANGED vars
    BY <1>1, <1>8 DEF vars, IInv
  <1> QED
    BY <1>2, <1>3, <1>4, <1>5, <1>6, <1>7, <1>8 DEF Next

\* The invariant gives the types.
LEMMA TypesLemma == IInv => TypeOK
  <1> SUFFICES ASSUME IInv PROVE TypeOK
    OBVIOUS
  <1>1. \A p \in Pod : /\ tracker[p] \in Tracker
                       /\ tracker[p].normalStreak < SwitchBackThreshold
                       /\ tracker[p].mainDownStreak < MainDownThreshold
                       /\ calm[p] \in 0..Enough
    BY DEF IInv, PodInv, TrackerOK
  <1>2. tracker \in [Pod -> Tracker] /\ calm \in [Pod -> 0..Enough]
    BY <1>1 DEF IInv
  <1> QED
    BY <1>1, <1>2 DEF IInv, RestInv, TypeOK

\* The invariant gives that settled pods are where the sites want them.
LEMMA SettledLemma == IInv => SettledPodsFollowTheSites
  BY ArrivedLemma DEF IInv, SettledPodsFollowTheSites

----------------------------------------------------------------------------

\* The invariant holds of every behaviour, whatever the pods and thresholds.
LEMMA ReplicasInvariance == Spec => []IInv
  BY InitLemma, StepLemma, PTL DEF Spec

\* No pod ever keeps a streak as long as its threshold: the tick or the probe
\* that completes a streak also moves the pod and forgets it.
THEOREM ReplicasTypeCorrect == Spec => []TypeOK
  BY ReplicasInvariance, TypesLemma, PTL

\* Any number of adapters, whatever their histories of restarts, failed
\* requests and late probes: once each has had max(thresholds) ticks on
\* answers that settle where to be, all of them use that one site.
THEOREM SettledPodsFollow == Spec => []SettledPodsFollowTheSites
  BY ReplicasInvariance, SettledLemma, PTL
=============================================================================
