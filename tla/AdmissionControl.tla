-------------------------- MODULE AdmissionControl --------------------------
(***************************************************************************)
(* How the requests of one adapter process share its permits and its       *)
(* connections to the switch (bss/async_http_api.py): a semaphore admits   *)
(* fewer requests than a pool of the HTTP client has connections, a permit *)
(* covers the request and its retry on the other site, and a streamed body *)
(* keeps its connection after the permit is back.  The probes of the site  *)
(* monitor (portaswitch/failover.py) are requests like the others.         *)
(*                                                                         *)
(* asyncio.Semaphore admits in the order of arrival.  The clients exist    *)
(* already, and are not closed before the process ends.                    *)
(***************************************************************************)
EXTENDS Naturals, Sequences, FiniteSets, SequencesExt, FiniteSetsExt

CONSTANTS Request,        \* slots for the calls of the adapter
          Probe,          \* slots for the probes of the site monitor
          MaxConnections  \* MAX_CONNECTIONS, of each pool

ASSUME PoolAssumption == MaxConnections \in Nat \ {0} /\ Request \cap Probe = {}

Slot == Request \cup Probe
MAIN == "main"
STANDBY == "standby"
Site == {MAIN, STANDBY}

VARIABLES apart,  \* whether the standby has a TLS setting, so a client, of its own
          line,   \* the slots that wait for a permit, the first come first
          slot,   \* per slot, its progress
          lost,   \* per pool, connections that are neither usable nor reclaimable
          unsent  \* the probes that last ended without having reached their site

avars == <<apart, line, slot, lost, unsent>>

\* pc: in "line" for a permit, "queued" for a connection, "sent", "body" streamed.
\* last: no other target is left.
Idle == [pc |-> "idle", site |-> MAIN, last |-> FALSE]

Progress == [pc: {"line", "queued", "sent", "body"}, site: Site, last: BOOLEAN] \cup {Idle}

\* The client for a site, by its TLS setting.
Pool(site) == IF apart THEN site ELSE MAIN

At(pc) == {s \in Slot : slot[s].pc = pc}
Holding == At("queued") \cup At("sent")
In(pool) == {s \in Slot : Pool(slot[s].site) = pool}
Connected(pool) == In(pool) \cap (At("sent") \cup At("body"))
Taken(pool) == Cardinality(Connected(pool)) + lost[pool]
Full(pool) == Taken(pool) >= MaxConnections

BugInflightLimitLeavesNone(total) == total

\* inflight_limit: 10% of the pool are left free, and at least two connections.
inflight_limit(total) == Max({1, total - Max({2, total \div 10})})

TypeOK ==
    /\ apart \in BOOLEAN
    /\ slot \in [Slot -> Progress]
    /\ line \in Seq(Slot) /\ IsInjective(line) /\ ToSet(line) = At("line")
    /\ lost \in [Site -> 0..MaxConnections]
    /\ \A pool \in Site : Taken(pool) <= MaxConnections
    /\ Cardinality(Holding) <= inflight_limit(MaxConnections)
    /\ unsent \subseteq Probe

Init ==
    /\ apart \in BOOLEAN
    /\ line = <<>>
    /\ slot = [s \in Slot |-> Idle]
    /\ lost = [pool \in Site |-> 0]
    /\ unsent = {}

----------------------------------------------------------------------------

Ends(s) == slot' = [slot EXCEPT ![s] = Idle]

\* s asks the pool of a site for a connection, and gives back one it has: that
\* goes to those who queue already.
ChecksOut(s, site, last) ==
    LET pool == Pool(site)
        waits == \/ In(pool) \cap At("queued") # {}
                 \/ Full(pool) /\ s \notin Connected(pool)
    IN slot' = [slot EXCEPT ![s] = [pc |-> IF waits THEN "queued" ELSE "sent",
                                    site |-> site, last |-> last]]

\* send_rest_request.
Begin(s) ==
    /\ slot[s].pc = "idle"
    /\ slot' = [slot EXCEPT ![s].pc = "line"]
    /\ line' = Append(line, s)
    /\ UNCHANGED <<apart, lost, unsent>>

PermitFree == Cardinality(Holding) < inflight_limit(MaxConnections)

\* A permit is there for the first in line.  It takes its targets: the active
\* site, and maybe the other one after it; a probe has the one it is for.
Admitted(s, site, last) ==
    /\ PermitFree /\ line # <<>> /\ s = Head(line)
    /\ s \in Probe => last
    /\ line' = Tail(line)
    /\ ChecksOut(s, site, last)
    /\ UNCHANGED <<apart, lost, unsent>>

\* A connection came free for a request in the queue of the pool.
Connects(s) ==
    /\ slot[s].pc = "queued" /\ ~Full(Pool(slot[s].site))
    /\ slot' = [slot EXCEPT ![s].pc = "sent"]
    /\ UNCHANGED <<apart, line, lost, unsent>>

BugPoolTimeoutUnset(s) == FALSE

\* build_httpx_timeout bounds the wait in the queue.
PoolTimeout(s) ==
    /\ slot[s].pc = "queued" /\ Full(Pool(slot[s].site))
    /\ Ends(s)
    /\ unsent' = IF s \in Probe THEN unsent \cup {s} ELSE unsent
    /\ UNCHANGED <<apart, line, lost>>

\* The answer, an error, or a timeout.  A body that is not streamed has been read.
Answered(s) ==
    /\ slot[s].pc = "sent"
    /\ Ends(s)
    /\ unsent' = unsent \ {s}
    /\ UNCHANGED <<apart, line, lost>>

\* The headers of a streamed answer: the permit is back.
Streams(s) ==
    /\ slot[s].pc = "sent" /\ s \notin Probe
    /\ slot' = [slot EXCEPT ![s].pc = "body"]
    /\ UNCHANGED <<apart, line, lost, unsent>>

\* The main site cannot be reached, or the standby where that is the active one:
\* the next target is asked under the same permit.
Unreachable(s) ==
    /\ slot[s].pc = "sent" /\ ~slot[s].last
    /\ ChecksOut(s, IF slot[s].site = MAIN THEN STANDBY ELSE MAIN, TRUE)
    /\ UNCHANGED <<apart, line, lost, unsent>>

BodyEnds(s) ==
    /\ slot[s].pc = "body"
    /\ Ends(s)
    /\ UNCHANGED <<apart, line, lost, unsent>>

BugCancelledKeepsPlace(s) ==
    /\ slot[s].pc \in {"queued", "sent"} \/ (slot[s].pc = "line" /\ ~PermitFree)
    /\ Ends(s)
    /\ unsent' = IF s \in Probe /\ slot[s].pc # "sent" THEN unsent \cup {s} ELSE unsent \ {s}
    /\ UNCHANGED <<apart, line, lost>>

\* The deadline of a call, or the poll interval of a probe, in a wait.  One that is in the
\* queue of a pool may have been assigned the connection that came free, which
\* is then lost.
Cancelled(s) ==
    LET pool == Pool(slot[s].site)
    IN /\ slot[s].pc \in {"queued", "sent"} \/ (slot[s].pc = "line" /\ ~PermitFree)
       /\ Ends(s)
       /\ line' = RemoveFirst(line, s)
       /\ unsent' = IF s \in Probe /\ slot[s].pc # "sent" THEN unsent \cup {s} ELSE unsent \ {s}
       /\ \/ UNCHANGED lost
          \/ slot[s].pc = "queued" /\ ~Full(pool) /\ lost' = [lost EXCEPT ![pool] = @ + 1]
       /\ UNCHANGED apart

Serves(s) ==
    \/ \E site \in Site, last \in BOOLEAN : Admitted(s, site, last)
    \/ Connects(s) \/ PoolTimeout(s) \/ Answered(s) \/ Streams(s) \/ Unreachable(s)

Next == \E s \in Slot : Begin(s) \/ Serves(s) \/ BodyEnds(s) \/ Cancelled(s)

\* The timeouts of the client end every wait but the one for a permit, which
\* goes to the first in line.  Nothing ends the reading of a streamed body.
Fairness == \A s \in Slot : WF_avars(Serves(s))

Spec == Init /\ [][Next]_avars /\ Fairness

----------------------------------------------------------------------------
(* Properties.                                                             *)

\* "more than `headroom` of them held at once": a request finds a pool full only
\* behind that many streamed bodies, or the connections that are lost, also where
\* one permit bounds two pools and a retry goes from one to the other.  A pool of
\* one or two connections has less headroom than others.
Headroom == IF MaxConnections <= 2 THEN MaxConnections - 1 ELSE Max({2, MaxConnections \div 10})
FullOnlyOfStreams ==
    \A s \in At("queued") : LET pool == Pool(slot[s].site) IN
        Full(pool) => Cardinality(In(pool) \cap At("body")) + lost[pool] > Headroom

\* No request waits for ever for a permit, a connection or an answer, even if
\* streamed bodies hold a whole pool and are never read to their end, and
\* although a retry keeps its permit while it waits for the other pool.
EveryRequestEnds == \A s \in Slot : slot[s].pc \in {"line", "queued", "sent"} ~>
                                    slot[s].pc \in {"idle", "body"}

\* _ask in failover.py: "None when the site does not answer".  A probe that comes
\* to nothing has asked its site.
SilenceIsTheSites == unsent = {}
=============================================================================
