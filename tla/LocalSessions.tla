---------------------------- MODULE LocalSessions ----------------------------
(***************************************************************************)
(* The sessions that an adapter other than PortaSwitch keeps itself        *)
(* (adapters/session_management.py over sessions.py), in a store that is   *)
(* a dictionary in memory, a shelve file or a Firestore collection         *)
(* (dbs/__init__.py, dbs/firestore.py).  Its methods are not coroutines:   *)
(* they run on the threads of a pool, and each call of the store is a step *)
(* of its own.                                                             *)
(*                                                                         *)
(* A session is stored twice, under its access token and under its refresh *)
(* token, each with an expiry of its own.                                  *)
(***************************************************************************)
EXTENDS Integers, Sequences, FiniteSets

CONSTANTS Session,     \* identities, 1..n, taken in this order
          Thread,
          Life,        \* SESSION_EXPIRATION
          RenewalLife, \* REFRESH_TOKEN_EXPIRATION
          MaxLogins    \* bound on the lines of sessions: they share no key

ASSUME SessionAssumption ==
    /\ Session \subseteq Nat \ {0}
    /\ Life \in Nat \ {0} /\ RenewalLife \in Nat \ {0}

Table == {"access", "renewal"}
None == 0

\* What is stored of a session is the time left to it: a number, 0 when it has
\* expired, and Outlived when it had expired before the process started.
Absent == -2
Outlived == -1
Stored == (0..Life + RenewalLife) \cup {Outlived}

VARIABLES kind,        \* the store: "memory", "file", "firestore"
          entry,       \* per table and session, what is stored
          thread,      \* per thread, its operation and the store calls left of it
          line,        \* the login a stored session goes back to
          dismissed,   \* the lines closed, expired, lost with the process or an
                       \* answer, or dropped by Firestore
          known,       \* the sessions some client was given
          over,        \* the sessions some client was told are over
          contended,   \* the lines with a session two threads exchanged at once
          interrupted  \* whether an operation ended half-way

lvars == <<kind, entry, thread, line, dismissed, known, over, contended, interrupted>>

Idle == [op |-> "idle", session |-> None, new |-> None, found |-> FALSE, todo |-> <<>>]

\* "expired" and "stale" are a refresh and a validation of a token past its time.
Ops == {"login", "refresh", "expired", "stale", "close"}
StoreCall == {"store", "pop", "del"} \X Table

Found(table, s) == entry[table][s] # Absent
Made == {s \in Session : line[s] # None}
Taken ==
    Made \cup {s \in Session : Found("access", s)} \cup {thread[k].new : k \in Thread}
Working(op) == {k \in Thread : thread[k].op = op}

\* The sessions that clients can renew, now or with the answer they wait for.
Usable == {s \in Session : /\ Found("renewal", s)
                           /\ s \in known \/ \E k \in Thread : thread[k].new = s}

\* The lines that end with the answers of these threads: no other session keeps them.
LostWith(threads) ==
    LET unanswered == {thread[k].new : k \in threads}
    IN {line[s] : s \in Usable \cap unanswered} \ {line[s] : s \in Usable \ unanswered}

TypeOK ==
    /\ kind \in {"memory", "file", "firestore"}
    /\ entry \in [Table -> [Session -> Stored \cup {Absent}]]
    /\ thread \in [Thread -> [op: Ops, session: Session \cup {None}, new: Session \cup {None},
                              found: BOOLEAN, todo: Seq(StoreCall)] \cup {Idle}]
    /\ line \in [Session -> Session \cup {None}]
    /\ dismissed \subseteq Made /\ known \subseteq Made /\ over \subseteq known
    /\ contended \subseteq Made
    /\ \A s \in Session : Found("renewal", s) => s \in Made

Init ==
    /\ kind \in {"memory", "file", "firestore"}
    /\ entry = [table \in Table |-> [s \in Session |-> Absent]]
    /\ thread = [k \in Thread |-> Idle]
    /\ line = [s \in Session |-> None]
    /\ dismissed = {} /\ known = {} /\ over = {} /\ contended = {}
    /\ interrupted = FALSE

----------------------------------------------------------------------------
(* The operations of session_management.py.                                *)

\* SessionInfo.still_active: its default timestamp is the time at which the
\* class was defined, at the start of the process.
StillActive(table, s) == Found(table, s) /\ entry[table][s] # Outlived

BugStoreSessionStoresOnce == <<<<"store", "access">>>>

store_session == <<<<"store", "access">>, <<"store", "renewal">>>>

BugDeleteKeepsRenewal == <<<<"pop", "access">>>>

delete_session == <<<<"pop", "renewal">>, <<"pop", "access">>>>

\* A thread starts the store calls of an operation.
Starts(k, op, s, t, calls) ==
    thread' = [thread EXCEPT ![k] =
                  [op |-> op, session |-> s, new |-> t, found |-> FALSE, todo |-> calls]]

\* The session made next.
Fresh(t) == t \in Session \ Taken /\ \A s \in Session \ Taken : t <= s

\* authenticate, once the user is who he says: create_session, store_session.
Login(k, t) ==
    /\ thread[k] = Idle /\ Fresh(t)
    /\ Cardinality({line[s] : s \in Made}) + Cardinality(Working("login")) < MaxLogins
    /\ Starts(k, "login", None, t, store_session)
    /\ UNCHANGED <<kind, entry, line, dismissed, known, over, contended, interrupted>>

\* validate_session: a session that is accepted changes nothing, one past its
\* time loses its access token and keeps the other.
Accepted(s) == StillActive("access", s)
ValidateExpired(k, s) ==
    /\ thread[k] = Idle /\ Found("access", s) /\ ~Accepted(s) /\ s \in known
    /\ Starts(k, "stale", s, None, <<<<"pop", "access">>>>)
    /\ UNCHANGED <<kind, entry, line, dismissed, known, over, contended, interrupted>>

BugRefreshDeletesFirst(k, s, t) ==
    /\ thread[k] = Idle /\ StillActive("renewal", s) /\ s \in known
    /\ Fresh(t)
    /\ Starts(k, "refresh", s, t, delete_session \o store_session)
    /\ UNCHANGED <<kind, entry, line, dismissed, known, over, contended, interrupted>>

\* refresh_session: the new session is stored before the old one is deleted.
Refresh(k, s, t) ==
    /\ thread[k] = Idle /\ StillActive("renewal", s) /\ s \in known
    /\ Fresh(t)
    /\ Starts(k, "refresh", s, t, store_session \o delete_session)
    /\ contended' = IF \E j \in Working("refresh") : thread[j].session = s
                    THEN contended \cup {line[s]} ELSE contended
    /\ UNCHANGED <<kind, entry, line, dismissed, known, over, interrupted>>
RefreshExpired(k, s) ==
    /\ thread[k] = Idle /\ Found("renewal", s) /\ ~StillActive("renewal", s) /\ s \in known
    /\ dismissed' = dismissed \cup {line[s]}
    /\ Starts(k, "expired", s, None, delete_session)
    /\ UNCHANGED <<kind, entry, line, known, over, contended, interrupted>>

\* close_session does not look at the time.
Close(k, s) ==
    /\ thread[k] = Idle /\ Found("access", s) /\ s \in known
    /\ dismissed' = dismissed \cup {line[s]}
    /\ Starts(k, "close", s, None, delete_session)
    /\ UNCHANGED <<kind, entry, line, known, over, contended, interrupted>>

----------------------------------------------------------------------------
(* The calls of the store.                                                 *)

Does(k, what, table) == thread[k].todo # <<>> /\ Head(thread[k].todo) = <<what, table>>
Without(table, s) == [entry EXCEPT ![table][s] = Absent]

BugStoresAddsUp(k, table) ==
    LET t == thread[k].new
        s == thread[k].session
        left == IF s # None /\ entry[table][s] > 0 THEN entry[table][s] ELSE 0
    IN /\ Does(k, "store", table)
       /\ entry' = [entry EXCEPT ![table][t] =
                       left + IF table = "access" THEN Life ELSE RenewalLife]
       /\ line' = IF table = "access" THEN line
                  ELSE [line EXCEPT ![t] = IF thread[k].op = "login" THEN t
                                           ELSE line[thread[k].session]]
       /\ thread' = [thread EXCEPT ![k].todo = Tail(@)]
       /\ UNCHANGED <<kind, dismissed, known, over, contended, interrupted>>

\* Each entry has its expiry from the clock.
Stores(k, table) ==
    LET t == thread[k].new
    IN /\ Does(k, "store", table)
       /\ entry' = [entry EXCEPT ![table][t] =
                       IF table = "access" THEN Life ELSE RenewalLife]
       /\ line' = IF table = "access" THEN line
                  ELSE [line EXCEPT ![t] = IF thread[k].op = "login" THEN t
                                           ELSE line[thread[k].session]]
       /\ thread' = [thread EXCEPT ![k].todo = Tail(@)]
       /\ UNCHANGED <<kind, dismissed, known, over, contended, interrupted>>

\* pop of the three stores: at once in memory; the others read the entry and then
\* delete it, the file only if there was one.
Pops(k, table) ==
    LET s == thread[k].session
        found == Found(table, s)
        deletes == kind = "firestore" \/ (kind = "file" /\ found)
    IN /\ Does(k, "pop", table)
       /\ entry' = IF kind = "memory" THEN Without(table, s) ELSE entry
       /\ thread' = [thread EXCEPT
             ![k].todo = (IF deletes THEN <<<<"del", table>>>> ELSE <<>>) \o Tail(@),
             ![k].found = found]
       /\ UNCHANGED <<kind, line, dismissed, known, over, contended, interrupted>>

\* The file has no such key any more: a KeyError ends the operation, and the client
\* of a renewal does not get its session.
Deletes(k, table) ==
    LET t == thread[k]
        fails == kind = "file" /\ ~Found(table, t.session)
    IN /\ Does(k, "del", table)
       /\ entry' = Without(table, t.session)
       /\ thread' = [thread EXCEPT
             ![k] = IF fails THEN Idle ELSE [t EXCEPT !.todo = Tail(t.todo)]]
       /\ interrupted' = (interrupted \/ fails)
       /\ dismissed' = IF fails THEN dismissed \cup LostWith({k}) ELSE dismissed
       /\ UNCHANGED <<kind, line, known, over, contended>>

\* The client gets its answer: a session, or that its session is over.  A close
\* that found nothing to delete is reported as failed.
Answers(k) ==
    LET t == thread[k]
    IN /\ t # Idle /\ t.todo = <<>>
       /\ known' = IF t.op \in {"login", "refresh"} THEN known \cup {t.new} ELSE known
       /\ over' = IF t.op \in {"refresh", "expired"} \/ (t.op = "close" /\ t.found)
                  THEN over \cup {t.session} ELSE over
       /\ thread' = [thread EXCEPT ![k] = Idle]
       /\ UNCHANGED <<kind, entry, line, dismissed, contended, interrupted>>

----------------------------------------------------------------------------
(* Time and the process.                                                   *)

\* Everything stored, with its time.
Each(f(_)) == [table \in Table |-> [s \in Session |->
                    IF Found(table, s) THEN f(entry[table][s]) ELSE Absent]]

Tick ==
    /\ entry' = Each(LAMBDA e : IF e = Outlived \/ e = 0 THEN e ELSE e - 1)
    /\ UNCHANGED <<kind, thread, line, dismissed, known, over, contended, interrupted>>

\* A crash, or a new deployment: what the store holds survives, unless it is in
\* memory.
Restart ==
    /\ thread' = [k \in Thread |-> Idle]
    /\ interrupted' = (interrupted \/ \E k \in Thread : thread[k] # Idle)
    /\ IF kind = "memory"
       THEN /\ entry' = [table \in Table |-> [s \in Session |-> Absent]]
            /\ dismissed' = dismissed \cup {line[s] : s \in Made}
       ELSE /\ entry' = Each(LAMBDA e : IF e = 0 THEN Outlived ELSE e)
            /\ dismissed' = dismissed \cup LostWith(Thread)
    /\ UNCHANGED <<kind, line, known, over, contended>>

\* Firestore deletes an entry whose document_ttl is over.  Both entries of a session
\* have the same: the expiry of the access token, whatever the renewal has left.  The
\* access entry is gone only when that is over, or the renewal entry gone before.  No
\* request lasts as long as the session it makes.
Purges(table, s) ==
    /\ kind = "firestore" /\ Found(table, s) /\ entry["access"][s] <= 0
    /\ \A k \in Thread : thread[k].new # s
    /\ entry' = Without(table, s)
    /\ dismissed' = IF table = "renewal"
                    THEN dismissed \cup ({line[s]} \ {line[t] : t \in Usable \ {s}})
                    ELSE dismissed
    /\ UNCHANGED <<kind, thread, line, known, over, contended, interrupted>>

Next ==
    \/ \E k \in Thread, t \in Session : Login(k, t)
    \/ \E k \in Thread, s \in Session :
          ValidateExpired(k, s) \/ RefreshExpired(k, s) \/ Close(k, s)
    \/ \E k \in Thread, s, t \in Session : Refresh(k, s, t)
    \/ \E k \in Thread, table \in Table : Stores(k, table) \/ Pops(k, table) \/ Deletes(k, table)
    \/ \E k \in Thread : Answers(k)
    \/ \E table \in Table, s \in Session : Purges(table, s)
    \/ Tick
    \/ Restart

Spec == Init /\ [][Next]_lvars

----------------------------------------------------------------------------
(* Properties.                                                             *)

\* The service as a client sees it, whatever the store and the threads do:
\* sessions live under their refresh token.
Service ==
    INSTANCE SessionService WITH
        Client <- Thread,
        live <- Usable,
        accepted <- [k \in Thread |->
            IF thread[k].op = "refresh" /\ \E i \in DOMAIN thread[k].todo :
                                              thread[k].todo[i] = <<"store", "renewal">>
            THEN line[thread[k].session] ELSE None],
        due <- [k \in Thread |-> IF thread[k].new \in Made THEN thread[k].new ELSE None],
        forgetful <- kind = "firestore"

\* The micro-steps of the threads keep the promise of SessionService: a line nobody
\* asked to end always has a session that can be renewed and that a client holds or
\* is being answered with, and none that was retired comes back (refresh_session
\* stores before it deletes).  It is lost only when the process stops, or a store
\* call fails, between the deletion of the old session and the answer; with a store
\* in memory, when the process stops; and when Firestore drops its last session,
\* which it may a lifetime of the access token after that was made.
KeepsLinesAlive == Service!Spec

\* A client told that a session is over finds neither of its tokens accepted
\* again, whatever other threads were doing with it (delete_session).
GoneForGood == \A s \in over : \A table \in Table : ~Found(table, s)

\* Clients hold one renewable session of a line between them, unless two threads
\* exchanged the same one at the same time: then each got a session
\* (refresh_session reads the old session long before it deletes it).
OneHolder ==
    \A s, t \in known : s # t /\ line[s] = line[t] /\ line[s] \notin contended
                      => ~(Found("renewal", s) /\ Found("renewal", t))

\* An access token without its refresh token, or a session that no client
\* holds, is left behind only by an operation that ended half-way, or by
\* Firestore, which drops the entries of a session past its time one by one.
StraysComeOfInterruption ==
    ~interrupted => \A s \in Session : Found("access", s) =>
        \/ s \in known /\ Found("renewal", s)
        \/ \E k \in Thread : s \in {thread[k].session, thread[k].new}
        \/ kind = "firestore" /\ entry["access"][s] <= 0

\* types.py, still_active: "Check whether the session has not yet expired".  No
\* access token is accepted past its time.
ExpiredIsRefused == \A s \in Session : Accepted(s) => entry["access"][s] # 0
=============================================================================
