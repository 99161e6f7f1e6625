---------------------------- MODULE SiteRouting ----------------------------
(***************************************************************************)
(* One adapter process with two PortaSwitch sites: requests routed through *)
(* the active-site tracker (bss/async_http_api.py), the site monitor, and  *)
(* the two out-of-band checks of the main site (failover.py).  All of them *)
(* are tasks of one event loop, so a step below is the code between two    *)
(* awaits: a request keeps the list of targets it was given before it was  *)
(* sent, and a check answers into whatever state the tracker has by then.  *)
(*                                                                         *)
(* The adapter sets both probes before it serves a request, so the tracker *)
(* without a probe is not modelled.  A probe that raises and one that      *)
(* brings None back are the same answer, "none".                           *)
(***************************************************************************)
EXTENDS SiteTracker, Sequences, FiniteSets

CONSTANTS Request,        \* requests in flight at once (task slots)
          MainAnswer,     \* what the main site's probe can bring back
          StandbyAnswer   \* what the standby site's probe can bring back

ASSUME AnswersAssumption == MainAnswer \subseteq Answer /\ StandbyAnswer \subseteq Answer

VARIABLES tracker,          \* the tracker's fields
          monitorRunning,   \* _monitor_task exists
          probeDue,         \* recheck_interval has passed since _last_probe
          probeInFlight,    \* _probe_in_flight: a switch-back probe is out
          confirmInFlight,  \* _confirm_in_flight: an outage check is out
          request           \* per slot, the targets left and its history

\* For the properties only: what the process has been told so far.
VARIABLES heard

vars == <<tracker, monitorRunning, probeDue, probeInFlight, confirmInFlight,
          request, heard>>

\* targets: the sites still to try, the one being tried first; empty when no
\* request uses the slot.  took: the sites that may have executed the request.
RequestState == [targets: {<<>>, <<MAIN>>, <<STANDBY>>, <<MAIN, STANDBY>>},
                 took: SUBSET Site]

\* normalRun: "normal" reports of the main site in a row, since the process
\*   came to the standby, counting the reports that decide (switch-back probes,
\*   and ticks while mode-aware).
\* downRun: mode-aware ticks in a row with main down and the standby
\*   answering, since the process came to the main site.
\* news: what the latest step brought in that argues for leaving main.
Heard == [normalRun: 0..SwitchBackThreshold,
          downRun: 0..MainDownThreshold,
          news: {"nothing", "standalone", "outage"}]

TypeOK ==
    /\ tracker \in Tracker
    /\ tracker.normalStreak < SwitchBackThreshold
    /\ tracker.mainDownStreak < MainDownThreshold
    /\ monitorRunning \in BOOLEAN
    /\ probeDue \in BOOLEAN
    /\ probeInFlight \in BOOLEAN
    /\ confirmInFlight \in BOOLEAN
    /\ request \in [Request -> RequestState]
    /\ heard \in Heard

Idle == [targets |-> <<>>, took |-> {}]

Init ==
    /\ tracker = InitialTracker
    /\ monitorRunning = FALSE
    /\ probeDue = TRUE
    /\ probeInFlight = FALSE
    /\ confirmInFlight = FALSE
    /\ request = [r \in Request |-> Idle]
    /\ heard = [normalRun |-> 0, downRun |-> 0, news |-> "nothing"]

----------------------------------------------------------------------------
(* Bookkeeping of `heard`: one more report, or a fresh start when the      *)
(* process has just come to the site the run is about.                     *)

OneMore(n, limit) == IF n < limit THEN n + 1 ELSE n

CameTo(site) == tracker.active # site /\ tracker'.active = site

Hear(normalRun, downRun, news) ==
    heard' = [normalRun |-> IF CameTo(STANDBY) THEN 0 ELSE normalRun,
              downRun |-> IF CameTo(MAIN) THEN 0 ELSE downRun,
              news |-> news]

HearNothing == Hear(heard.normalRun, heard.downRun, "nothing")

----------------------------------------------------------------------------
(* Requests.                                                               *)

InFlight(r) == request[r].targets # <<>>
Target(r) == Head(request[r].targets)

NextTargets ==
    IF tracker.active = MAIN /\ ~tracker.modeAware
    THEN <<MAIN, STANDBY>>
    ELSE <<tracker.active>>

\* _maybe_schedule_probe, called by next_targets on the standby while reactive.
MaybeScheduleProbe ==
    IF /\ tracker.active = STANDBY /\ ~tracker.modeAware
       /\ probeDue /\ ~probeInFlight
    THEN probeInFlight' = TRUE /\ probeDue' = FALSE
    ELSE UNCHANGED <<probeInFlight, probeDue>>

\* A request is given its targets and sent to the first of them; the first
\* request of the process starts the monitor.
Send(r) ==
    /\ ~InFlight(r)
    /\ monitorRunning' = TRUE
    /\ request' = [request EXCEPT ![r] = [targets |-> NextTargets, took |-> {}]]
    /\ MaybeScheduleProbe
    /\ UNCHANGED <<tracker, confirmInFlight>>
    /\ HearNothing

\* The end of a request, at the site it was being tried on or not.
Ended(r, took) == [request EXCEPT ![r] = [targets |-> <<>>, took |-> took]]

\* The site answers, with a result or with an error status.
Answered(r) ==
    /\ InFlight(r)
    /\ request' = Ended(r, request[r].took \cup {Target(r)})
    /\ UNCHANGED <<tracker, monitorRunning, probeDue, probeInFlight, confirmInFlight>>
    /\ HearNothing

\* ConnectError, ConnectTimeout: reported when it is the main site, and the
\* next target is tried, if there is one.
Unreachable(r) ==
    /\ InFlight(r)
    /\ tracker' = IF Target(r) = MAIN THEN ReportUnreachable(tracker) ELSE tracker
    /\ request' = IF Len(request[r].targets) > 1
                  THEN [request EXCEPT ![r].targets = Tail(@)]
                  ELSE Ended(r, request[r].took)
    /\ Hear(heard.normalRun, heard.downRun,
            IF Target(r) = MAIN THEN "outage" ELSE "nothing")
    /\ UNCHANGED <<monitorRunning, probeDue, probeInFlight, confirmInFlight>>

BugSlowIsRetried(r) ==
    /\ InFlight(r)
    /\ request' = IF Len(request[r].targets) > 1
                  THEN [request EXCEPT ![r].targets = Tail(@), ![r].took = @ \cup {Target(r)}]
                  ELSE Ended(r, request[r].took \cup {Target(r)})
    /\ UNCHANGED <<tracker, monitorRunning, probeDue, probeInFlight, confirmInFlight>>
    /\ HearNothing

\* Read or write timeout: the site took the request and is slow with it.  No
\* retry; on the main site, while reactive, one outage check is started.
Slow(r) ==
    /\ InFlight(r)
    /\ request' = Ended(r, request[r].took \cup {Target(r)})
    /\ confirmInFlight' = \/ confirmInFlight
                          \/ /\ Target(r) = MAIN
                             /\ tracker.active = MAIN
                             /\ ~tracker.modeAware
    /\ UNCHANGED <<tracker, monitorRunning, probeDue, probeInFlight>>
    /\ HearNothing

\* A pool timeout, a broken connection, or the request's deadline cancelling
\* it: no report and no retry, whether or not the site took the request.
Dropped(r) ==
    /\ InFlight(r)
    /\ \E took \in {{}, {Target(r)}} : request' = Ended(r, request[r].took \cup took)
    /\ UNCHANGED <<tracker, monitorRunning, probeDue, probeInFlight, confirmInFlight>>
    /\ HearNothing

----------------------------------------------------------------------------
(* The monitor and the checks.                                             *)

\* poll_once with both answers in.
Tick(main, standby) ==
    /\ monitorRunning
    /\ tracker' = Polled(tracker, main, standby)
    /\ LET counts == tracker'.modeAware
       IN Hear(IF ~counts THEN heard.normalRun
               ELSE IF main = "normal"
                    THEN OneMore(heard.normalRun, SwitchBackThreshold)
                    ELSE 0,
               IF counts /\ Down(main) /\ standby # NoAnswer
               THEN OneMore(heard.downRun, MainDownThreshold)
               ELSE 0,
               IF counts /\ standby = "standalone" THEN "standalone" ELSE "nothing")
    /\ UNCHANGED <<monitorRunning, probeDue, probeInFlight, confirmInFlight, request>>

\* recheck_interval seconds have passed since the last switch-back probe.
RecheckDue ==
    /\ ~probeDue
    /\ probeDue' = TRUE
    /\ UNCHANGED <<tracker, monitorRunning, probeInFlight, confirmInFlight, request>>
    /\ HearNothing

ProbeReturns(mode) ==
    /\ probeInFlight
    /\ probeInFlight' = FALSE
    /\ tracker' = ProbeReported(tracker, mode)
    /\ Hear(IF mode = "normal" THEN OneMore(heard.normalRun, SwitchBackThreshold) ELSE 0,
            heard.downRun, "nothing")
    /\ UNCHANGED <<monitorRunning, probeDue, confirmInFlight, request>>

ConfirmReturns(mode) ==
    /\ confirmInFlight
    /\ confirmInFlight' = FALSE
    /\ tracker' = ConfirmReported(tracker, mode)
    /\ Hear(heard.normalRun, heard.downRun, IF Down(mode) THEN "outage" ELSE "nothing")
    /\ UNCHANGED <<monitorRunning, probeDue, probeInFlight, request>>

RequestStep(r) == Send(r) \/ Answered(r) \/ Unreachable(r) \/ Slow(r) \/ Dropped(r)

Next ==
    \/ \E r \in Request : RequestStep(r)
    \/ \E main \in MainAnswer, standby \in StandbyAnswer : Tick(main, standby)
    \/ RecheckDue
    \/ \E mode \in MainAnswer : ProbeReturns(mode)
    \/ \E mode \in MainAnswer : ConfirmReturns(mode)

Spec == Init /\ [][Next]_vars

----------------------------------------------------------------------------
(* Properties.                                                             *)

\* A request is never executed by both sites: it is sent on to the standby
\* only after the main site refused the connection, never after a site may
\* have taken it (WT-2201), whatever the tracker went through meanwhile.
TakenOnce == \A r \in Request : Cardinality(request[r].took) <= 1

\* The process leaves the main site only on evidence.  Mode-aware: this tick
\* heard "standalone" from the standby, or the last MainDownThreshold ticks
\* all had main down with the standby answering, all of them since the process
\* came to main; so one silent tick, ticks with both sites silent, and failed
\* requests do not move it.  Reactive: this step saw main refuse a connection
\* or fail its outage check; so a slow answer alone does not move it.
LeavesMainOnEvidence ==
    [][CameTo(STANDBY) =>
         IF tracker'.modeAware
         THEN heard'.news = "standalone" \/ heard'.downRun = MainDownThreshold
         ELSE heard'.news = "outage"]_vars

\* The process goes back to the main site only after SwitchBackThreshold
\* "normal" reports in a row since it came to the standby, whichever mix of
\* ticks and switch-back probes brought them, and however often the way of
\* switching changed in between.
ReturnsOnEvidence ==
    [][CameTo(MAIN) => heard'.normalRun = SwitchBackThreshold]_vars
=============================================================================
