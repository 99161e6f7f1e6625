------------------------- MODULE SiteTrackerProofs -------------------------
(***************************************************************************)
(* What each operator of SiteTracker makes of a tracker, for any           *)
(* thresholds and any answers: one lemma per operator, so that the proofs  *)
(* about SiteRouting and SiteReplicas need not look inside them.           *)
(***************************************************************************)
EXTENDS SiteTracker, TLAPS

\* Both streaks stay below the threshold that ends them.
TrackerOK(t) ==
    /\ t \in Tracker
    /\ t.normalStreak < SwitchBackThreshold
    /\ t.mainDownStreak < MainDownThreshold

\* Ticks with main down are counted only on main and only while mode-aware.
DownCountedOnMain(t) ==
    ~t.modeAware \/ t.active = STANDBY => t.mainDownStreak = 0

\* Both thresholds are positive.
LEMMA ThresholdsLemma == SwitchBackThreshold \in Nat \ {0} /\ MainDownThreshold \in Nat \ {0}
  BY ThresholdsAssumption DEF ThresholdsAssumption

\* Updating fields of a tracker with values of their types gives a tracker.
LEMMA UpdatesLemma ==
    ASSUME NEW t \in Tracker, NEW site \in Site, NEW aware \in BOOLEAN, NEW n \in Nat
    PROVE  /\ [t EXCEPT !.active = site, !.normalStreak = 0] \in Tracker
           /\ [t EXCEPT !.normalStreak = n] \in Tracker
           /\ [t EXCEPT !.mainDownStreak = n] \in Tracker
           /\ [t EXCEPT !.modeAware = aware, !.mainDownStreak = 0, !.normalStreak = 0] \in Tracker
           /\ Switched(t, site) \in Tracker
  BY DEF Tracker, Switched

\* report_unreachable keeps the tracker well-formed, counts nothing as main
\* down, and moves to the standby only while reactive, with no normal streak.
LEMMA ReportUnreachableLemma ==
    ASSUME NEW t, TrackerOK(t), DownCountedOnMain(t),
           NEW u, u = ReportUnreachable(t)
    PROVE  /\ TrackerOK(u)
           /\ DownCountedOnMain(u)
           /\ u.modeAware = t.modeAware
           /\ u.mainDownStreak = t.mainDownStreak
           /\ t.modeAware => u = t
           /\ ~t.modeAware => u.active = STANDBY /\ u.normalStreak = 0
  <1> USE ThresholdsLemma DEF TrackerOK, ReportUnreachable, Tracker, Site, MAIN, STANDBY
  <1>1. u \in Tracker
    OBVIOUS
  <1>2. /\ u.normalStreak < SwitchBackThreshold
        /\ u.mainDownStreak < MainDownThreshold
        /\ DownCountedOnMain(u)
        /\ u.modeAware = t.modeAware
        /\ u.mainDownStreak = t.mainDownStreak
        /\ t.modeAware => u = t
        /\ ~t.modeAware => u.active = STANDBY /\ u.normalStreak = 0
    BY DEF DownCountedOnMain
  <1> QED
    BY <1>1, <1>2

\* A switch-back probe never moves to the standby, and moves to main only on the
\* "normal" report that completes the streak.
LEMMA ProbeReportedLemma ==
    ASSUME NEW t, TrackerOK(t), NEW mode,
           NEW u, u = ProbeReported(t, mode)
    PROVE  /\ TrackerOK(u)
           /\ u.modeAware = t.modeAware
           /\ u.mainDownStreak = t.mainDownStreak
           /\ u.active = MAIN \/ u.active = t.active
           /\ u.active # t.active =>
                  mode = "normal" /\ t.normalStreak + 1 = SwitchBackThreshold
           /\ \/ u.normalStreak = 0
              \/ mode = "normal" /\ u.normalStreak = t.normalStreak + 1
  <1> DEFINE reached == t.normalStreak + 1 >= SwitchBackThreshold
  <1> USE ThresholdsLemma DEF TrackerOK
  <1>1. CASE mode = "normal" /\ reached
    <2>1. u = [t EXCEPT !.active = MAIN, !.normalStreak = 0]
      BY <1>1 DEF ProbeReported
    <2>2. u \in Tracker
      BY <2>1, UpdatesLemma DEF Site
    <2>3. /\ u.active = MAIN /\ u.modeAware = t.modeAware
          /\ u.normalStreak = 0 /\ u.mainDownStreak = t.mainDownStreak
      BY <2>1 DEF Tracker
    <2>4. t.normalStreak + 1 = SwitchBackThreshold
      BY <1>1 DEF Tracker
    <2> QED
      BY <1>1, <2>2, <2>3, <2>4
  <1>2. CASE mode = "normal" /\ ~reached
    <2>1. u = [t EXCEPT !.normalStreak = t.normalStreak + 1]
      BY <1>2 DEF ProbeReported
    <2>2. t.normalStreak + 1 \in Nat
      BY DEF Tracker
    <2>3. u \in Tracker
      BY <2>1, <2>2, UpdatesLemma DEF Site
    <2>4. /\ u.active = t.active /\ u.modeAware = t.modeAware
          /\ u.normalStreak = t.normalStreak + 1 /\ u.mainDownStreak = t.mainDownStreak
      BY <2>1 DEF Tracker
    <2>5. t.normalStreak + 1 < SwitchBackThreshold
      BY <1>2, <2>2
    <2> QED
      BY <1>2, <2>3, <2>4, <2>5
  <1>3. CASE mode # "normal"
    <2>1. u = [t EXCEPT !.normalStreak = 0]
      BY <1>3 DEF ProbeReported
    <2>2. u \in Tracker
      BY <2>1, UpdatesLemma DEF Site
    <2>3. /\ u.active = t.active /\ u.modeAware = t.modeAware
          /\ u.normalStreak = 0 /\ u.mainDownStreak = t.mainDownStreak
      BY <2>1 DEF Tracker
    <2> QED
      BY <2>2, <2>3
  <1> QED
    BY <1>1, <1>2, <1>3

\* Changing between the two ways of switching keeps the site; the streaks are
\* kept or forgotten together.
LEMMA ObservedLemma ==
    ASSUME NEW t, TrackerOK(t), DownCountedOnMain(t), NEW main, NEW standby,
           NEW u, u = Observed(t, main, standby)
    PROVE  /\ TrackerOK(u)
           /\ DownCountedOnMain(u)
           /\ u.active = t.active
           /\ \/ u = t
              \/ u.normalStreak = 0 /\ u.mainDownStreak = 0
  <1>1. CASE u = t
    BY <1>1
  <1>2. CASE u # t
    <2>1. PICK aware \in BOOLEAN :
             u = [t EXCEPT !.modeAware = aware, !.mainDownStreak = 0, !.normalStreak = 0]
      BY <1>2 DEF Observed
    <2>2. u \in Tracker
      BY <2>1, UpdatesLemma DEF TrackerOK, Site
    <2>3. u.active = t.active /\ u.normalStreak = 0 /\ u.mainDownStreak = 0
      BY <2>1 DEF TrackerOK, Tracker
    <2> QED
      BY <2>2, <2>3, ThresholdsLemma DEF TrackerOK, DownCountedOnMain
  <1> QED
    BY <1>1, <1>2

\* A move to a site by the monitor starts both streaks over.
LEMMA SwitchedLemma ==
    ASSUME NEW t, TrackerOK(t), NEW site \in Site, NEW u, u = Switched(t, site)
    PROVE  /\ TrackerOK(u)
           /\ u.active = site
           /\ u.modeAware = t.modeAware
           /\ u.normalStreak = 0
           /\ u.mainDownStreak = 0
  <1>1. u \in Tracker
    BY UpdatesLemma DEF TrackerOK
  <1>2. /\ u.active = site /\ u.modeAware = t.modeAware
        /\ u.normalStreak = 0 /\ u.mainDownStreak = 0
    BY DEF TrackerOK, Switched, Tracker
  <1> QED
    BY <1>1, <1>2, ThresholdsLemma DEF TrackerOK

\* On main, a mode-aware tick leaves only on "standalone" or on a completed
\* streak of ticks with main down; one that stays counts this tick or starts over.
LEMMA PolledOnMainLemma ==
    ASSUME NEW t, TrackerOK(t), t.modeAware, t.active = MAIN,
           NEW main, NEW standby, NEW u, u = PolledOnMain(t, main, standby)
    PROVE  /\ TrackerOK(u)
           /\ DownCountedOnMain(u)
           /\ u.modeAware
           /\ u.active = STANDBY =>
                  /\ u.normalStreak = 0
                  /\ \/ standby = "standalone"
                     \/ /\ Down(main) /\ standby # NoAnswer
                        /\ t.mainDownStreak + 1 = MainDownThreshold
           /\ \/ u.mainDownStreak = 0
              \/ /\ Down(main) /\ standby # NoAnswer
                 /\ u.mainDownStreak = t.mainDownStreak + 1
  <1> DEFINE counts == standby \notin {"standalone", NoAnswer} /\ Down(main)
             reached == t.mainDownStreak + 1 >= MainDownThreshold
  <1>1. CASE standby = "standalone" \/ (counts /\ reached)
    <2>1. u = Switched(t, STANDBY)
      BY <1>1 DEF PolledOnMain
    <2>2. TrackerOK(u) /\ u.active = STANDBY /\ u.modeAware /\ u.normalStreak = 0
          /\ u.mainDownStreak = 0
      BY <2>1, SwitchedLemma DEF Site
    <2>3. \/ standby = "standalone"
          \/ /\ Down(main) /\ standby # NoAnswer
             /\ t.mainDownStreak + 1 = MainDownThreshold
      BY <1>1, ThresholdsLemma DEF TrackerOK, Tracker
    <2> QED
      BY <2>2, <2>3 DEF DownCountedOnMain
  <1>2. CASE counts /\ ~reached
    <2>1. u = [t EXCEPT !.mainDownStreak = t.mainDownStreak + 1]
      BY <1>2 DEF PolledOnMain
    <2>2. TrackerOK(u) /\ u.active = MAIN /\ u.modeAware
          /\ u.mainDownStreak = t.mainDownStreak + 1
      BY <1>2, <2>1, ThresholdsLemma DEF TrackerOK, Tracker
    <2> QED
      BY <1>2, <2>2 DEF DownCountedOnMain, MAIN, STANDBY
  <1>3. CASE standby # "standalone" /\ ~counts
    <2>1. u = [t EXCEPT !.mainDownStreak = 0]
      BY <1>3 DEF PolledOnMain
    <2>2. TrackerOK(u) /\ u.active = MAIN /\ u.modeAware /\ u.mainDownStreak = 0
      BY <2>1, ThresholdsLemma DEF TrackerOK, Tracker
    <2> QED
      BY <2>2 DEF DownCountedOnMain, MAIN, STANDBY
  <1> QED
    BY <1>1, <1>2, <1>3

\* On the standby, a mode-aware tick goes back only on a completed streak of
\* ticks with main normal; one that stays counts this tick or starts over.
LEMMA PolledOnStandbyLemma ==
    ASSUME NEW t, TrackerOK(t), t.mainDownStreak = 0, t.modeAware, t.active = STANDBY,
           NEW main, NEW standby, NEW u, u = PolledOnStandby(t, main, standby)
    PROVE  /\ TrackerOK(u)
           /\ u.modeAware
           /\ u.mainDownStreak = 0
           /\ u.active = MAIN =>
                  main = "normal" /\ t.normalStreak + 1 = SwitchBackThreshold
           /\ \/ u.normalStreak = 0
              \/ main = "normal" /\ u.normalStreak = t.normalStreak + 1
  <1> DEFINE counts == main = "normal" /\ standby # "standalone"
             reached == t.normalStreak + 1 >= SwitchBackThreshold
  <1>1. CASE counts /\ reached
    <2>1. u = Switched(t, MAIN)
      BY <1>1 DEF PolledOnStandby
    <2>2. t.normalStreak + 1 = SwitchBackThreshold
      BY <1>1, ThresholdsLemma DEF TrackerOK, Tracker
    <2> QED
      BY <1>1, <2>1, <2>2, SwitchedLemma DEF Site
  <1>2. CASE counts /\ ~reached
    <2>1. u = [t EXCEPT !.normalStreak = t.normalStreak + 1]
      BY <1>2 DEF PolledOnStandby
    <2> QED
      BY <1>2, <2>1, ThresholdsLemma DEF TrackerOK, Tracker, MAIN, STANDBY
  <1>3. CASE ~counts
    <2>1. u = [t EXCEPT !.normalStreak = 0]
      BY <1>3 DEF PolledOnStandby
    <2> QED
      BY <2>1, ThresholdsLemma DEF TrackerOK, Tracker, MAIN, STANDBY
  <1> QED
    BY <1>1, <1>2, <1>3
=============================================================================
