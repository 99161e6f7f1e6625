--------------------------- MODULE SessionService ---------------------------
(***************************************************************************)
(* What the sessions kept by the adapter itself promise a client, with     *)
(* nothing said of tables, keys or threads.  A login starts a line of      *)
(* sessions; each renewal adds one to the line and retires the one it was  *)
(* made from.  The promise is about sessions a client can use: those it    *)
(* was given, and the one it is about to be given.  A line nobody asked to *)
(* end always has such a session, unless the answer with the only one of   *)
(* it never got to the client, or the store forgot it.                     *)
(***************************************************************************)
CONSTANTS Session, \* identities, numbers from 1
          Client

VARIABLES live,      \* the sessions whose refresh token is honoured, and which some
                     \* client was given or is being given
          line,      \* the login a session goes back to; None if not made yet
          accepted,  \* per client, the line it is having renewed; None otherwise
          due,       \* per client, the session it is being given; None otherwise
          dismissed, \* the lines closed, expired or lost
          forgetful  \* whether the store drops old sessions by itself

svars == <<live, line, accepted, due, dismissed, forgetful>>

None == 0

Init ==
    /\ live = {}
    /\ line = [s \in Session |-> None]
    /\ accepted = [k \in Client |-> None]
    /\ due = [k \in Client |-> None]
    /\ dismissed = {}
    /\ forgetful \in BOOLEAN

Goes(s) == \E t \in live \ {s} : line[t] = line[s]

SignIn(k, s) ==
    /\ line[s] = None /\ due[k] = None
    /\ line' = [line EXCEPT ![s] = s] /\ live' = live \cup {s}
    /\ due' = [due EXCEPT ![k] = s]
    /\ UNCHANGED <<accepted, dismissed, forgetful>>

\* A refresh token is honoured, and a session of its line made in exchange.
Accept(k, s) ==
    /\ s \in live /\ accepted[k] = None
    /\ accepted' = [accepted EXCEPT ![k] = line[s]]
    /\ UNCHANGED <<live, line, due, dismissed, forgetful>>
Renew(k, s) ==
    /\ line[s] = None /\ accepted[k] # None /\ due[k] = None
    /\ line' = [line EXCEPT ![s] = accepted[k]] /\ live' = live \cup {s}
    /\ accepted' = [accepted EXCEPT ![k] = None]
    /\ due' = [due EXCEPT ![k] = s]
    /\ UNCHANGED <<dismissed, forgetful>>

\* The client has its answer.
Deliver(k) ==
    /\ due[k] # None
    /\ due' = [due EXCEPT ![k] = None]
    /\ UNCHANGED <<live, line, accepted, dismissed, forgetful>>

\* A session is retired only when its line goes on with another, or is to end.
Retire(s) ==
    /\ s \in live
    /\ line[s] \in dismissed \/ Goes(s)
    /\ live' = live \ {s}
    /\ UNCHANGED <<line, accepted, due, dismissed, forgetful>>

Dismiss(s) ==
    /\ line[s] # None
    /\ dismissed' = dismissed \cup {line[s]}
    /\ UNCHANGED <<live, line, accepted, due, forgetful>>

\* The store forgets the last session of a line.
Expire(s) ==
    /\ forgetful /\ s \in live
    /\ live' = live \ {s} /\ dismissed' = dismissed \cup {line[s]}
    /\ UNCHANGED <<line, accepted, due, forgetful>>

\* Some clients get no answer.  Nobody can use what they were to be given, and their
\* lines are lost unless another session keeps them.
Breaks(clients) ==
    LET lost == {due[k] : k \in clients}
    IN /\ live' = live \ lost
       /\ dismissed' = dismissed \cup
             ({line[s] : s \in live \cap lost} \ {line[s] : s \in live \ lost})
       /\ accepted' = [k \in Client |-> IF k \in clients THEN None ELSE accepted[k]]
       /\ due' = [k \in Client |-> IF k \in clients THEN None ELSE due[k]]
       /\ UNCHANGED <<line, forgetful>>

\* A crash of a process whose store lasts no longer than itself.
Crash ==
    /\ live' = {} /\ dismissed' = dismissed \cup {line[s] : s \in {t \in Session : line[t] # None}}
    /\ accepted' = [k \in Client |-> None] /\ due' = [k \in Client |-> None]
    /\ UNCHANGED <<line, forgetful>>

Next ==
    \/ \E s \in Session : Retire(s) \/ Dismiss(s) \/ Expire(s)
    \/ \E k \in Client, s \in Session : SignIn(k, s) \/ Accept(k, s) \/ Renew(k, s)
    \/ \E k \in Client : Deliver(k) \/ Breaks({k})
    \/ Breaks(Client)
    \/ Crash

Spec == Init /\ [][Next]_svars
=============================================================================
