---------------------------- MODULE SiteReplicas ----------------------------
(***************************************************************************)
(* Several adapter processes (pods) in front of the same two PortaSwitch   *)
(* sites.  Every pod runs its own SiteState (SiteTracker) and shares       *)
(* nothing with the others: what keeps them on one site is that they hear  *)
(* the same answers.  A pod starts over on the main site when it restarts, *)
(* and its monitor starts with the first request routed through it.        *)
(*                                                                         *)
(* Pods tick one at a time in any order here, each hearing what the sites  *)
(* answer at that moment.  Ticks aligned to the wall clock, on which all   *)
(* pods hear the same answers, are the case in which the sites do not      *)
(* change between them.                                                    *)
(***************************************************************************)
EXTENDS SiteTracker, FiniteSets

CONSTANTS Pod,
          MainAnswer,     \* what the main site can answer a probe with
          StandbyAnswer,  \* what the standby site can answer a probe with
          MaxChanges,     \* bound: how often the sites' answers change
          MaxRestarts     \* bound: how often some pod restarts

ASSUME ReplicasAssumption ==
    /\ MainAnswer \subseteq Answer
    /\ StandbyAnswer \subseteq Answer
    /\ MaxChanges \in Nat
    /\ MaxRestarts \in Nat

VARIABLES sites,       \* what each site answers a probe with at this moment
          tracker,     \* per pod, its tracker
          monitoring,  \* the pods whose monitor runs
          probing,     \* the pods with a switch-back probe in flight
          changes,     \* how often the sites' answers have changed
          restarts     \* how often a pod has restarted

\* For the properties only: per pod, the ticks it has had since the sites'
\* answers changed, it restarted, or a switch-back probe of its came back.
VARIABLE calm

vars == <<sites, tracker, monitoring, probing, changes, restarts, calm>>

\* Enough ticks for either streak to reach its threshold.
Enough == IF SwitchBackThreshold > MainDownThreshold
          THEN SwitchBackThreshold ELSE MainDownThreshold

TypeOK ==
    /\ sites \in [main: MainAnswer, standby: StandbyAnswer]
    /\ tracker \in [Pod -> Tracker]
    /\ \A p \in Pod : /\ tracker[p].normalStreak < SwitchBackThreshold
                      /\ tracker[p].mainDownStreak < MainDownThreshold
    /\ monitoring \subseteq Pod
    /\ probing \subseteq Pod
    /\ changes \in 0..MaxChanges
    /\ restarts \in 0..MaxRestarts
    /\ calm \in [Pod -> 0..Enough]

Init ==
    /\ sites \in [main: MainAnswer, standby: StandbyAnswer]
    /\ tracker = [p \in Pod |-> InitialTracker]
    /\ monitoring = {}
    /\ probing = {}
    /\ changes = 0
    /\ restarts = 0
    /\ calm = [p \in Pod |-> 0]

\* The sites are the environment: they change mode, go down and come back.
SitesChange ==
    /\ changes < MaxChanges
    /\ changes' = changes + 1
    /\ sites' \in [main: MainAnswer, standby: StandbyAnswer] \ {sites}
    /\ calm' = [p \in Pod |-> 0]
    /\ UNCHANGED <<tracker, monitoring, probing, restarts>>

\* A pod is replaced by a new process.
Restart(p) ==
    /\ restarts < MaxRestarts
    /\ restarts' = restarts + 1
    /\ tracker' = [tracker EXCEPT ![p] = InitialTracker]
    /\ monitoring' = monitoring \ {p}
    /\ probing' = probing \ {p}
    /\ calm' = [calm EXCEPT ![p] = 0]
    /\ UNCHANGED <<sites, changes>>

\* next_targets for a request of pod p: it starts the monitor and, on the
\* standby while reactive, possibly a switch-back probe (when one is due).
RequestRouted(p) ==
    /\ monitoring' = monitoring \cup {p}
    /\ \/ UNCHANGED probing
       \/ /\ tracker[p].active = STANDBY
          /\ ~tracker[p].modeAware
          /\ probing' = probing \cup {p}
    /\ UNCHANGED <<sites, tracker, changes, restarts, calm>>

\* A request of pod p fails to connect to the main site, or an outage check
\* confirms that the site is down.  Either can be in flight at any time.
MainRefuses(p) ==
    /\ p \in monitoring
    /\ tracker' = [tracker EXCEPT ![p] = ReportUnreachable(@)]
    /\ UNCHANGED <<sites, monitoring, probing, changes, restarts, calm>>

\* A switch-back probe comes back with what the main site answered at some
\* point while it was in flight.
ProbeReturns(p, mode) ==
    /\ p \in probing
    /\ probing' = probing \ {p}
    /\ tracker' = [tracker EXCEPT ![p] = ProbeReported(@, mode)]
    /\ calm' = [calm EXCEPT ![p] = 0]
    /\ UNCHANGED <<sites, monitoring, changes, restarts>>

Tick(p) ==
    /\ p \in monitoring
    /\ tracker' = [tracker EXCEPT ![p] = Polled(@, sites.main, sites.standby)]
    /\ calm' = [calm EXCEPT ![p] = IF @ < Enough THEN @ + 1 ELSE @]
    /\ UNCHANGED <<sites, monitoring, probing, changes, restarts>>

Next ==
    \/ SitesChange
    \/ \E p \in Pod : \/ Restart(p)
                      \/ RequestRouted(p)
                      \/ MainRefuses(p)
                      \/ Tick(p)
    \/ \E p \in Pod, mode \in MainAnswer : ProbeReturns(p, mode)

\* A monitor ticks every poll_interval for the life of the process, and a
\* probe is bounded by the timeouts of its HTTP requests.  Nothing makes
\* requests arrive, sites change or pods restart.
Fairness ==
    \A p \in Pod : /\ WF_vars(Tick(p))
                   /\ WF_vars(\E mode \in MainAnswer : ProbeReturns(p, mode))

Spec == Init /\ [][Next]_vars /\ Fairness

----------------------------------------------------------------------------
(* Properties.                                                             *)

\* Answers that settle which site to use, wherever a pod is.  The rest do not:
\* main answering something other than "normal" while it is not down, or no
\* known mode from either site, leaves a pod on the site it is on.
MustUseStandby(s) ==
    \/ s.standby = "standalone"
    \/ /\ Down(s.main) /\ s.standby # NoAnswer
       /\ {s.main, s.standby} \cap KnownModes # {}
MustUseMain(s) == s.main = "normal" /\ s.standby # "standalone"

\* After Enough ticks on the same settling answers, with no restart and no
\* switch-back probe coming back in between, a pod uses the site they call
\* for, whatever state it started from; so all such pods use the same site.
SettledPodsFollowTheSites ==
    \A p \in Pod : calm[p] = Enough =>
        /\ MustUseStandby(sites) => tracker[p].active = STANDBY
        /\ MustUseMain(sites) => tracker[p].active = MAIN

Agree == \A p, q \in monitoring : tracker[p].active = tracker[q].active

\* Once the sites stay with settling answers, the monitored pods end up
\* together on the site they call for and stay there: late probes, requests
\* that fail and restarts only delay it.
PodsConverge ==
    /\ <>[]MustUseStandby(sites) =>
           <>[](\A p \in monitoring : tracker[p].active = STANDBY)
    /\ <>[]MustUseMain(sites) =>
           <>[](\A p \in monitoring : tracker[p].active = MAIN)

\* "Every adapter replica must therefore use the same site at the same time"
\* (failover.py): read as weakly as possible, that the monitored pods agree
\* for good once the sites have stopped changing and pods stopped restarting,
\* when every pod is mode-aware.  The code does not give it: a pod that
\* restarts while main answers, say, "read_only" starts on main and stays, and
\* the others stay on the standby they had moved to.
PodsEventuallyAgree ==
    <>[](\A p \in monitoring : tracker[p].modeAware) => <>[]Agree
=============================================================================
