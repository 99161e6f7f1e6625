----------------------------- MODULE MCRequests -----------------------------
(* A behaviour is about one request to the API, every route, path and fault  *)
(* of it (ApiRequest), or about the requests to the switch that such ones    *)
(* make side by side, whatever they are for (AdmissionControl).              *)
EXTENDS AdmissionControl

VARIABLES part, route, phase, path, again, done, refused, broken, answer

Api == INSTANCE ApiRequest
traffic == <<apart, line, slot, lost, unsent>>
operation == <<route, phase, path, again, done, refused, broken, answer>>

MCInit ==
    /\ part \in {"traffic", "operation"}
    /\ Init /\ (part = "operation" => ~apart)
    /\ Api!Init /\ (part = "traffic" => route = "system_info")

MCNext ==
    \/ part = "traffic" /\ Next /\ UNCHANGED <<part, operation>>
    \/ part = "operation" /\ Api!Next /\ UNCHANGED <<part, traffic>>

MCSpec == MCInit /\ [][MCNext]_<<part, traffic, operation>> /\ Fairness

\* Both parts are in states of theirs.
TypesOK == TypeOK /\ Api!TypeOK

\* RefusedUserSignsInAgain of ApiRequest: a user whose session the switch
\* refuses is told to sign in again.
RefusedUserSignsInAgain == Api!RefusedUserSignsInAgain

\* SignInAgainIsJustified of ApiRequest: nobody is told so for another reason.
SignInAgainIsJustified == Api!SignInAgainIsJustified

\* SentOnceOnlyStorageFails of ApiRequest: no failure that a client would meet
\* with a second code once the first is on its way.
SentOnceOnlyStorageFails == Api!SentOnceOnlyStorageFails

\* OptionalCallsFailNothing of ApiRequest: a read made for completeness fails
\* no request.
OptionalCallsFailNothing == Api!OptionalCallsFailNothing

\* RefusalsLeaveNothing of ApiRequest: a refused request has changed nothing but
\* what Standing names.
RefusalsLeaveNothing == Api!RefusalsLeaveNothing

\* CarriedOutOnce of ApiRequest: the call made again after a login does not write
\* twice.
CarriedOutOnce == Api!CarriedOutOnce
=============================================================================
