----------------------------- MODULE ApiRequest -----------------------------
(***************************************************************************)
(* One request to the HTTP API, from the route to its answer, over a       *)
(* switch that may refuse, fail or lose any call: the phases of ApiRoutes  *)
(* one after the other, and in each the steps of one path of the           *)
(* operation.  What a fault is turned into on its way to the client is     *)
(* SwitchCalls!Seen, then the handlers of the operation, then the status.  *)
(***************************************************************************)
EXTENDS ApiRoutes, SequencesExt, Functions

VARIABLES route,    \* the route of the request
          phase,    \* how many of its phases were begun
          path,     \* the steps left of the phase under way
          again,    \* whether the call under way is made again after a login
          done,     \* the writes carried out so far, in order
          refused,  \* whose session was refused: "user", "adapter"
          broken,   \* the call the request failed at, if it did
          answer    \* what the client is told

rvars == <<route, phase, path, again, done, refused, broken, answer>>

Pending == Raw("pending")
Success == Domain("success")
Deadline == "deadline"
AdminLoginFaults == {"auth_failed", "brute_force", NoAnswer, OtherFault}

\* What a call may fail with: its own faults, those of the session it runs under,
\* the fault of a read-only site if it writes, and any other trouble.
Faults(call) ==
    IF call.auth = "local" THEN {OtherFault}
    ELSE call.faults \cup {OtherFault}
         \cup (IF call.auth = "param" THEN {} ELSE SessionAuthFaults)
         \cup (IF call.writes THEN {ReadOnlyFault} ELSE {})

Init ==
    /\ route \in DOMAIN Route
    /\ phase = 0 /\ path = <<>> /\ again = FALSE
    /\ done = <<>> /\ refused = {} /\ broken = NoCall.name
    /\ answer = Pending

Running == answer = Pending /\ path # <<>>
Current == Head(path)
Calling == Running /\ Current.call # NoCall

\* The next phase, call_bss or a check of the route.
Begin ==
    /\ answer = Pending /\ path = <<>> /\ phase < Len(Route[route])
    /\ phase' = phase + 1
    /\ path' \in Route[route][phase + 1]
    /\ UNCHANGED <<route, again, done, refused, broken, answer>>

Answers ==
    /\ answer = Pending /\ path = <<>> /\ phase = Len(Route[route])
    /\ answer' = Success
    /\ UNCHANGED <<route, phase, path, again, done, refused, broken>>

\* A check finds nothing to refuse, or does.
Passes ==
    /\ Running /\ Current.call = NoCall
    /\ path' = Tail(path)
    /\ UNCHANGED <<route, phase, again, done, refused, broken, answer>>
Refuses ==
    /\ Running /\ Current.call = NoCall
    /\ answer' = Domain(Current.error)
    /\ UNCHANGED <<route, phase, path, again, done, refused, broken>>

\* The writes after the call, carried out or not.
Recorded(carriedOut) ==
    IF carriedOut /\ Current.call.writes THEN Append(done, Current.call.name) ELSE done

\* The next call starts afresh.
Succeeds ==
    /\ Calling
    /\ path' = Tail(path) /\ again' = FALSE /\ done' = Recorded(TRUE)
    /\ UNCHANGED <<route, phase, refused, broken, answer>>

\* The error as the handlers of the operation leave it.
Caught(step, error) ==
    IF ~error.domain /\ error.what \in DOMAIN step.catches
    THEN Domain(step.catches[error.what]) ELSE error

\* An error of the call under way reaches the operation.
Raised(error) ==
    LET caught == Caught(Current, error) IN
    /\ again' = FALSE
    /\ \/ /\ caught = Domain(Handled)
          /\ path' = Tail(path) /\ UNCHANGED <<broken, answer>>
       \/ /\ caught # Domain(Handled) /\ Current.optional
          /\ path' = SubSeq(path, Current.skip + 2, Len(path)) /\ UNCHANGED <<broken, answer>>
       \/ /\ caught # Domain(Handled) /\ ~Current.optional
          /\ broken' = Current.call.name /\ answer' = caught /\ UNCHANGED path

\* Whose session the fault is about.
UserFaults == SessionAuthFaults \cup {"ping_bad_token", "logout_bad_token", "refresh_failed"}
RefusedBy(call, fault) ==
    CASE call.auth \in {"bearer", "param"} /\ fault \in UserFaults -> {"user"}
      [] call.auth \in {"admin", "pinned"} /\ fault \in SessionAuthFaults -> {"adapter"}
      [] OTHER -> {}

\* A call that failed is made again after a login of the adapter, or its error
\* goes on to the operation.
Failed(fault) ==
    IF AdminRenews(Current.call, fault, again)
    THEN \/ again' = TRUE /\ UNCHANGED <<path, refused, broken, answer>>
         \/ /\ \E error \in AdminLoginFaults : Raised(Raw(error))
            /\ refused' = refused \cup {"adapter"}
    ELSE /\ Raised(Seen(Current.call, fault, again))
         /\ refused' = refused \cup RefusedBy(Current.call, fault)

\* The switch answers with a fault: the call was not carried out.
Fails ==
    /\ Calling
    /\ \E fault \in Faults(Current.call) : Failed(fault)
    /\ UNCHANGED <<route, phase, done>>

\* No answer comes: the call may have been carried out all the same.
Silent ==
    /\ Calling /\ Current.call.auth # "local"
    /\ \E carriedOut \in BOOLEAN : done' = Recorded(carriedOut)
    /\ Failed(NoAnswer)
    /\ UNCHANGED <<route, phase>>

\* wait_for cancels the operation at a call, which goes on at the switch.
DeadlineExpires ==
    /\ Calling
    /\ \E carriedOut \in BOOLEAN : done' = Recorded(carriedOut)
    /\ answer' = Domain(Deadline) /\ broken' = Current.call.name
    /\ UNCHANGED <<route, phase, path, again, refused>>

Next ==
    \/ Begin \/ Answers \/ Passes \/ Refuses \/ Succeeds
    \/ Fails \/ Silent \/ DeadlineExpires

Spec == Init /\ [][Next]_rvars

----------------------------------------------------------------------------

Answered == answer # Pending
Code(error) == IF error.domain THEN Status(error.what) ELSE 500
SignInAgain ==
    {"access_token_expired", "access_token_invalid", "refresh_token_invalid", "session_close"}
Writes == {"update_huntgroups_subscription", "create_otp", "update_account", "seen", "saved",
           "delete_mailbox_message", "store", "delete"}

\* What is read for the sake of completeness.
OptionalCalls ==
    {"get_account_custom_fields_values", "get_customer_custom_fields_values", "get_env_info",
     "get_customer_info", "get_customer_list", "get_sip_calls_list",
     "enable_api_notifications", "update_account"}

\* What may stand although the client is told that its request was refused: the
\* code of an OTP sign-in is spent, a queue was changed before it disappeared or
\* before a session ran out, one of two flags was set, a token was stored for the
\* account.
Standing(error) ==
    CASE error = "user_authentication" -> {"update_account"}
      [] error = "not_found_user" -> {"delete"}
      [] error = "password_change_required" -> {"delete", "update_account"}
      [] error = "call_queue_not_found" -> {"update_huntgroups_subscription"}
      [] error = "access_token_expired" ->
            {"update_huntgroups_subscription", "seen", "update_account"}
      [] error = "voicemail_not_configured" -> {"seen"}
      [] OTHER -> {}

\* Every request is somewhere in the code of its route.
TypeOK ==
    /\ route \in DOMAIN Route
    /\ phase \in 0..Len(Route[route])
    /\ path # <<>> => \E p \in Route[route][phase] : IsSuffix(path, p)
    /\ again => Current.call.auth = "admin"
    /\ ToSet(done) \subseteq Writes
    /\ refused \subseteq {"user", "adapter"}
    /\ answer # Pending /\ answer # Success => path # <<>>

\* A user whose session the switch refuses is told to sign in again, whichever
\* call it was refused at, and never that something went wrong
\* (AccountAPI.__send_request and the handlers of the operations).
RefusedUserSignsInAgain ==
    Answered /\ "user" \in refused => answer \in {Domain(error) : error \in SignInAgain}

\* Nobody is told to sign in again for another reason than a refused session,
\* a refused token, or a session of the adapter that was refused after a login.
SignInAgainIsJustified ==
    Answered /\ answer \in {Domain(error) : error \in SignInAgain}
    => refused # {} \/ broken = NoCall.name

\* Once the code is on its way only the storage, a lost answer or the deadline
\* can make an OTP request fail: a client that tries again would have a second
\* code sent (generate_otp, WT-1663).
SentOnceOnlyStorageFails ==
    Answered /\ answer # Success /\ "create_otp" \in ToSet(done)
    => broken \in {"create_otp", "store"}

\* No optional read fails a request (every handler that swallows an error).
OptionalCallsFailNothing ==
    Answered /\ answer # Domain(Deadline) => broken \notin OptionalCalls

\* A client told that its request was refused finds nothing changed, but for
\* what Standing names.
RefusalsLeaveNothing ==
    Answered /\ Code(answer) \in 400..499 => ToSet(done) \subseteq Standing(answer.what)

\* No write is carried out twice by one request, in spite of the call made again
\* after a login.
CarriedOutOnce == IsInjective(done)
=============================================================================
