---------------------------- MODULE AdminSession ----------------------------
(***************************************************************************)
(* The admin session one adapter process shares between its calls to the   *)
(* PortaSwitch admin API: AsyncHTTPAPIConnectorWithLogin                   *)
(* (bss/async_http_api.py) under AdminAPI (api/admin.py), which turns      *)
(* proactive refresh off and whose refresh() is a new login.  Calls are    *)
(* coroutines of one event loop; a step is the code between two awaits.    *)
(*                                                                         *)
(* Sessions are numbered in the order their login answers are processed,   *)
(* which is the order they expire in locally: the expiry time is computed  *)
(* there.  A call keeps a reference to the session object it was given,    *)
(* and its bearer token is read from that object when the request is put   *)
(* together, after the wait for an admission permit.                       *)
(***************************************************************************)
EXTENDS Naturals, Sequences, FiniteSets, SequencesExt

CONSTANTS Call,         \* calls in progress at once (coroutine slots)
          MaxSessions,  \* bound: sessions obtained
          MaxRefusals   \* bound: calls the site refuses the token of

ASSUME SessionAssumption == MaxSessions \in Nat /\ MaxRefusals \in Nat

NoSession == 0
Session == 1..MaxSessions

VARIABLES stored,       \* SHARED_TOKENS: the session new calls are given
          issued,       \* how many sessions have been obtained
          refreshable,  \* whether the switch's logins come with a refresh token
          cleared,      \* the sessions whose access_token was reset to None
          expired,      \* sessions 1..expired are past their expiry time
          dead,         \* sessions the site no longer accepts
          queue,        \* _login_lock: its holder, then the waiting calls
          call          \* per slot, the progress of the call

\* For the properties only: how many calls the site refused so far.
VARIABLE refusals

vars == <<stored, issued, refreshable, cleared, expired, dead, queue, call, refusals>>

\* pc: "waiting" for the lock, "login" under the lock, "ready" to send,
\*   "sent", "refresh" after the site refused the session.
\* session: the session object the call holds; used: the token it was sent
\*   with; retried: whether this is the attempt after a refusal; keeps: whether
\*   the session of the login under way goes into the store.
Idle == [pc |-> "idle", session |-> NoSession, used |-> NoSession,
         retried |-> FALSE, keeps |-> TRUE]

CallState == [pc: {"idle", "waiting", "login", "ready", "sent", "refresh"},
              session: Session \cup {NoSession},
              used: Session \cup {NoSession},
              retried: BOOLEAN,
              keeps: BOOLEAN]

TypeOK ==
    /\ issued \in 0..MaxSessions
    /\ stored \in 0..issued
    /\ refreshable \in BOOLEAN
    /\ cleared \subseteq 1..expired
    /\ expired \in 0..issued
    /\ dead \subseteq 1..issued
    /\ call \in [Call -> CallState]
    /\ queue \in Seq(Call) /\ IsInjective(queue)
    /\ ToSet(queue) = {c \in Call : call[c].pc \in {"waiting", "login"}}
    /\ \A c \in Call : call[c].pc = "login" => c = Head(queue)
    /\ refusals \in 0..MaxRefusals

Init ==
    /\ stored = NoSession
    /\ issued = 0
    /\ refreshable \in BOOLEAN
    /\ cleared = {}
    /\ expired = 0
    /\ dead = {}
    /\ queue = <<>>
    /\ call = [c \in Call |-> Idle]
    /\ refusals = 0

----------------------------------------------------------------------------
(* The stored session.                                                     *)

BugValidSessionRefreshesAhead(s) ==
    s # NoSession /\ s \notin cleared /\ s > expired /\ ~refreshable

\* _valid_session, with the proactive refresh window at 0.
ValidSession(s) == s # NoSession /\ s \notin cleared /\ s > expired

BugObtainedKeepsRefused(c) ==
    /\ issued < MaxSessions
    /\ issued' = issued + 1
    /\ stored' = IF call[c].keeps /\ call[c].pc = "login" THEN issued' ELSE stored
    /\ call' = [call EXCEPT ![c].pc = "ready", ![c].session = issued',
                            ![c].retried = @ \/ call[c].pc = "refresh",
                            ![c].keeps = TRUE]
    /\ UNCHANGED <<refreshable, cleared, expired, dead, refusals>>

\* The login call c awaits is answered with a session, and c goes on with it.
Obtained(c) ==
    /\ issued < MaxSessions
    /\ issued' = issued + 1
    /\ stored' = IF call[c].keeps THEN issued' ELSE stored
    /\ call' = [call EXCEPT ![c].pc = "ready", ![c].session = issued',
                            ![c].retried = @ \/ call[c].pc = "refresh",
                            ![c].keeps = TRUE]
    /\ UNCHANGED <<refreshable, cleared, expired, dead, refusals>>

Ended(c) == call' = [call EXCEPT ![c] = Idle]

----------------------------------------------------------------------------
(* One call: send_rest_request under _send_request.                        *)

HoldsLock(c) == queue # <<>> /\ Head(queue) = c

\* session_in_progress, up to the login it awaits: a session that has just
\* expired loses its access token first.  Without a refresh token the login that
\* follows is for c alone and its session is not stored; a session that is
\* missing or has lost its token already is replaced by a login whose session
\* is stored.
StartLogin(c) ==
    LET justExpired == stored # NoSession /\ stored \notin cleared /\ stored <= expired
    IN /\ cleared' = IF justExpired THEN cleared \cup {stored} ELSE cleared
       /\ call' = [call EXCEPT ![c].pc = "login",
                               ![c].keeps = justExpired => refreshable]

\* A call starts: with the stored session if that is good, else by taking the
\* login lock, which it has to wait for while others have it or wait for it.
Begin(c) ==
    /\ call[c].pc = "idle"
    /\ \/ /\ ValidSession(stored)
          /\ call' = [call EXCEPT ![c].pc = "ready", ![c].session = stored]
          /\ UNCHANGED <<queue, cleared>>
       \/ /\ ~ValidSession(stored)
          /\ queue' = Append(queue, c)
          /\ IF queue = <<>>
             THEN StartLogin(c)
             ELSE call' = [call EXCEPT ![c].pc = "waiting"] /\ UNCHANGED cleared
    /\ UNCHANGED <<stored, issued, refreshable, expired, dead, refusals>>

\* The lock is c's turn and a login by another call has made the stored session
\* good again: c takes it and gives the lock on.
Reuse(c) ==
    /\ HoldsLock(c) /\ call[c].pc = "waiting"
    /\ ValidSession(stored)
    /\ call' = [call EXCEPT ![c].pc = "ready", ![c].session = stored]
    /\ queue' = Tail(queue)
    /\ UNCHANGED <<stored, issued, refreshable, cleared, expired, dead, refusals>>

\* The lock is c's turn and there still is no good session.
LogIn(c) ==
    /\ HoldsLock(c) /\ call[c].pc = "waiting"
    /\ ~ValidSession(stored)
    /\ StartLogin(c)
    /\ UNCHANGED <<stored, issued, refreshable, expired, dead, queue, refusals>>

LoggedIn(c) ==
    /\ call[c].pc = "login"
    /\ Obtained(c)
    /\ queue' = Tail(queue)

BugLoginFailedKeepsLock(c) ==
    /\ call[c].pc = "login"
    /\ Ended(c)
    /\ UNCHANGED <<stored, issued, refreshable, cleared, expired, dead, queue, refusals>>

\* The login raises, or the call's deadline cancels it: the lock is given on.
LoginFailed(c) ==
    /\ call[c].pc = "login"
    /\ Ended(c)
    /\ queue' = Tail(queue)
    /\ UNCHANGED <<stored, issued, refreshable, cleared, expired, dead, refusals>>

\* The deadline cancels a call that waits for the lock.
Cancelled(c) ==
    /\ call[c].pc = "waiting"
    /\ Ended(c)
    /\ queue' = RemoveFirst(queue, c)
    /\ UNCHANGED <<stored, issued, refreshable, cleared, expired, dead, refusals>>

\* c has its admission permit and the request is put together: it carries the
\* token its session object has now, which may have been cleared meanwhile.
Transmit(c) ==
    /\ call[c].pc = "ready"
    /\ call' = [call EXCEPT ![c].pc = "sent",
                            ![c].used = IF call[c].session \in cleared
                                        THEN NoSession ELSE call[c].session]
    /\ UNCHANGED <<stored, issued, refreshable, cleared, expired, dead, queue, refusals>>

\* The call ends with a result or with an error that is no session fault.
Answered(c) ==
    /\ call[c].pc = "sent"
    /\ Ended(c)
    /\ UNCHANGED <<stored, issued, refreshable, cleared, expired, dead, queue, refusals>>

Refuses(c) == call[c].pc = "sent" /\ (call[c].used = NoSession \/ call[c].used \in dead)

\* The site does not accept the token of a first attempt: c refreshes the
\* session, without the lock, and whatever others are doing about it.
Refused(c) ==
    /\ Refuses(c) /\ ~call[c].retried
    /\ refusals < MaxRefusals
    /\ refusals' = refusals + 1
    /\ call' = [call EXCEPT ![c].pc = "refresh"]
    /\ UNCHANGED <<stored, issued, refreshable, cleared, expired, dead, queue>>

\* refresh() stores the new session, and the call is sent again at once: its
\* session is the one just stored.
Refreshed(c) ==
    /\ call[c].pc = "refresh"
    /\ Obtained(c)
    /\ UNCHANGED queue

RefreshFailed(c) ==
    /\ call[c].pc = "refresh"
    /\ Ended(c)
    /\ UNCHANGED <<stored, issued, refreshable, cleared, expired, dead, queue, refusals>>

----------------------------------------------------------------------------
(* The environment.                                                        *)

\* The oldest session that has not expired yet reaches its expiry time.
Expires ==
    /\ expired < issued
    /\ expired' = expired + 1
    /\ UNCHANGED <<stored, issued, refreshable, cleared, dead, queue, call, refusals>>

\* The site drops sessions: it was restarted, or traffic moved to the other
\* site, where they mean nothing.
SiteForgets ==
    /\ dead # 1..issued
    /\ dead' = 1..issued
    /\ UNCHANGED <<stored, issued, refreshable, cleared, expired, queue, call, refusals>>

Progress(c) ==
    \/ Reuse(c) \/ LogIn(c) \/ LoggedIn(c) \/ LoginFailed(c)
    \/ Transmit(c) \/ Answered(c) \/ Refused(c) \/ Refreshed(c) \/ RefreshFailed(c)

Next ==
    \/ \E c \in Call : Begin(c) \/ Progress(c) \/ Cancelled(c)
    \/ Expires
    \/ SiteForgets

\* Every await of a call ends: HTTP requests are bounded by their timeouts.
\* Nothing makes calls start, deadlines pass or sessions expire.
Spec == Init /\ [][Next]_vars /\ \A c \in Call : WF_vars(Progress(c))

----------------------------------------------------------------------------
(* Properties.                                                             *)

\* The admin session is not logged in to without need: beyond the first login,
\* the switch sees one per expired session and one per call it refused, and,
\* where logins bring no refresh token, a second one per expired session, since
\* the replacement is not stored.  So a burst of calls on a missing or expired
\* session does not log in once per call.
LoginsAreBounded ==
    issued <= 1 + (IF refreshable THEN 1 ELSE 2) * expired + refusals

\* Every call ends: the login lock is given on by a call that fails under it
\* and by one that is cancelled while it waits, and no call waits for itself.
EveryCallEnds == \A c \in Call : call[c].pc # "idle" ~> call[c].pc = "idle"
=============================================================================
