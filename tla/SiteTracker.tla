---------------------------- MODULE SiteTracker ----------------------------
(***************************************************************************)
(* The decisions of SiteState, the active-site tracker of one PortaSwitch  *)
(* adapter process (bss/adapters/portaswitch/failover.py): what each event *)
(* makes of the tracker's fields.  The class runs on one event loop, so    *)
(* each operator below is one uninterrupted piece of code between two      *)
(* awaits.  SiteRouting drives one tracker with requests and probes,       *)
(* SiteReplicas drives one per adapter process with the monitor's ticks.   *)
(*                                                                         *)
(* _last_modes only decides whether a line is logged and is left out.      *)
(***************************************************************************)
EXTENDS Naturals

CONSTANTS SwitchBackThreshold,  \* normal reports before going back to main
          MainDownThreshold     \* ticks with main down before leaving it

\* SiteState.__init__ raises both thresholds to at least 1.
ASSUME ThresholdsAssumption ==
    /\ SwitchBackThreshold \in Nat \ {0}
    /\ MainDownThreshold \in Nat \ {0}

MAIN == "main"
STANDBY == "standby"
Site == {MAIN, STANDBY}

\* What a probe can bring back: the operating_mode of a site that reports it,
\* "unknown" from a site that answers without it, "none" from a silent site.
KnownModes == {"normal", "secondary", "standalone", "read_only"}
NoAnswer == "none"
Answer == KnownModes \cup {"unknown", NoAnswer}

Tracker == [active: Site,
            modeAware: BOOLEAN,
            normalStreak: Nat,
            mainDownStreak: Nat]

InitialTracker == [active |-> MAIN,
                   modeAware |-> FALSE,
                   normalStreak |-> 0,
                   mainDownStreak |-> 0]

\* A main site that does not answer, or answers that it is the secondary one.
Down(main) == main \in {NoAnswer, "secondary"}

----------------------------------------------------------------------------
(* Moving between the sites.                                               *)

Switched(t, site) ==
    [t EXCEPT !.active = site, !.mainDownStreak = 0, !.normalStreak = 0]

BugReportUnreachableKeepsStreak(t) ==
    IF t.modeAware THEN t ELSE [t EXCEPT !.active = STANDBY]

\* report_unreachable: mode-aware, the monitor decides.
ReportUnreachable(t) ==
    IF t.modeAware
    THEN t
    ELSE [t EXCEPT !.active = STANDBY, !.normalStreak = 0]

----------------------------------------------------------------------------
(* One monitor tick (poll_once), once both sites' answers are in.          *)

\* A tick on which some site answers settles whether the sites report modes;
\* changing between the two ways of switching forgets the streaks.
Observed(t, main, standby) ==
    LET answered == {main, standby} \ {NoAnswer}
        aware == answered \cap KnownModes # {}
    IN IF answered = {} \/ aware = t.modeAware
       THEN t
       ELSE [t EXCEPT !.modeAware = aware,
                      !.mainDownStreak = 0,
                      !.normalStreak = 0]

BugPolledOnMainNeverForgets(t, main, standby) ==
    CASE standby = "standalone" -> Switched(t, STANDBY)
      [] standby \notin {"standalone", NoAnswer} /\ Down(main) ->
           IF t.mainDownStreak + 1 >= MainDownThreshold
           THEN Switched(t, STANDBY)
           ELSE [t EXCEPT !.mainDownStreak = @ + 1]
      [] OTHER -> t

BugPolledOnMainWaitsForMain(t, main, standby) ==
    IF standby # NoAnswer /\ Down(main)
    THEN IF t.mainDownStreak + 1 >= MainDownThreshold
         THEN Switched(t, STANDBY)
         ELSE [t EXCEPT !.mainDownStreak = @ + 1]
    ELSE [t EXCEPT !.mainDownStreak = 0]

\* On the main site: leave it at once when the secondary is standalone, or
\* after enough ticks with main down.  Ticks on which the secondary is silent
\* too do not count: the fault may be on this side.
PolledOnMain(t, main, standby) ==
    CASE standby = "standalone" -> Switched(t, STANDBY)
      [] standby \notin {"standalone", NoAnswer} /\ Down(main) ->
           IF t.mainDownStreak + 1 >= MainDownThreshold
           THEN Switched(t, STANDBY)
           ELSE [t EXCEPT !.mainDownStreak = @ + 1]
      [] OTHER -> [t EXCEPT !.mainDownStreak = 0]

BugPolledOnStandbyNeedsAnswer(t, main, standby) ==
    IF main = "normal" /\ standby \notin {"standalone", NoAnswer}
    THEN IF t.normalStreak + 1 >= SwitchBackThreshold
         THEN Switched(t, MAIN)
         ELSE [t EXCEPT !.normalStreak = @ + 1]
    ELSE [t EXCEPT !.normalStreak = 0]

\* On the secondary site: go back after enough ticks with main normal and the
\* secondary no longer standalone.
PolledOnStandby(t, main, standby) ==
    IF main = "normal" /\ standby # "standalone"
    THEN IF t.normalStreak + 1 >= SwitchBackThreshold
         THEN Switched(t, MAIN)
         ELSE [t EXCEPT !.normalStreak = @ + 1]
    ELSE [t EXCEPT !.normalStreak = 0]

Polled(t, main, standby) ==
    LET u == Observed(t, main, standby)
    IN IF ~u.modeAware
       THEN u
       ELSE IF u.active = MAIN
            THEN PolledOnMain(u, main, standby)
            ELSE PolledOnStandby(u, main, standby)

----------------------------------------------------------------------------
(* The two out-of-band checks of the main site, once it has answered.      *)

BugProbeReportedOffByOne(t, mode) ==
    IF mode = "normal"
    THEN IF t.normalStreak + 1 > SwitchBackThreshold
         THEN [t EXCEPT !.active = MAIN, !.normalStreak = 0]
         ELSE [t EXCEPT !.normalStreak = @ + 1]
    ELSE [t EXCEPT !.normalStreak = 0]

\* _run_probe: the switch-back probe a request on the standby starts.  Nothing
\* here looks at the mode the tracker is in when the answer arrives.
ProbeReported(t, mode) ==
    IF mode = "normal"
    THEN IF t.normalStreak + 1 >= SwitchBackThreshold
         THEN [t EXCEPT !.active = MAIN, !.normalStreak = 0]
         ELSE [t EXCEPT !.normalStreak = @ + 1]
    ELSE [t EXCEPT !.normalStreak = 0]

\* _confirm_outage: the check a read timeout on the main site starts.
ConfirmReported(t, mode) ==
    IF Down(mode) THEN ReportUnreachable(t) ELSE t
=============================================================================
