----------------------------- MODULE OtpSignIn -----------------------------
(***************************************************************************)
(* How a one-time password of PortaSwitch comes to be stored, on top of    *)
(* the shared admin session: generate_otp (portaswitch/adapter.py) with    *)
(* create_otp and current_access_token (api/admin.py) and the OTP storage  *)
(* (otp_storage.py).                                                       *)
(*                                                                         *)
(* The switch verifies a code only within the admin session that created   *)
(* it, so the code is stored with a token to verify it under, by whatever  *)
(* replica.  One code is enough: codes share nothing but the session.      *)
(***************************************************************************)
EXTENDS AdminSession

VARIABLE code  \* the code: where it is, and the sessions it has to do with

\* by: the call of create_otp under way; issuer: the session the switch created
\* the code in; pin: the one stored with it.
NoCode == [at |-> "none", by |-> {}, issuer |-> NoSession, pin |-> NoSession]

OtpTypeOK ==
    /\ code \in [at: {"none", "asked", "made", "kept"}, by: SUBSET Call,
                 issuer: Session \cup {NoSession}, pin: Session \cup {NoSession}]
    /\ code.by # {} <=> code.at = "asked"
    /\ \A c \in code.by : call[c].pc # "idle"

OtpInit ==
    /\ Init
    /\ code = NoCode

----------------------------------------------------------------------------
(* generate_otp.                                                           *)

\* current_access_token: that of the stored session, which may have lost it.
CurrentAccessToken == IF stored \in cleared THEN NoSession ELSE stored

Made(c) == [at |-> "made", by |-> {}, issuer |-> call[c].used, pin |-> CurrentAccessToken]

Asks(c) ==
    /\ code.at = "none"
    /\ Begin(c)
    /\ code' = [NoCode EXCEPT !.at = "asked", !.by = {c}]

\* The site has taken the request of create_otp: the answer is a success, a
\* failure, or lost.
Generated(c) ==
    /\ Answered(c) /\ ~Refuses(c)
    /\ code' \in {Made(c), NoCode}

BugCallStepMissesFailures ==
    /\ Next
    /\ \A c \in code.by : ~(Answered(c) /\ ~Refuses(c))
    /\ UNCHANGED code

\* Every other step of the calls; a create_otp that ends in one makes no code.
CallStep ==
    /\ Next
    /\ \A c \in code.by : ~(Answered(c) /\ ~Refuses(c))
    /\ code' = IF \E c \in code.by : call'[c].pc = "idle" THEN NoCode ELSE code

\* The storage is called on a thread.
Stores ==
    /\ code.at = "made"
    /\ code' = [code EXCEPT !.at = "kept"]
    /\ UNCHANGED vars

\* It was used, its time is up, or the process of an in-memory storage ended.
Lapses ==
    /\ code.at = "kept"
    /\ code' = NoCode
    /\ UNCHANGED vars

OtpNext ==
    \/ \E c \in Call : Asks(c) \/ (c \in code.by /\ Generated(c))
    \/ CallStep
    \/ Stores \/ Lapses

\* The fairness of AdminSession: the awaits of calls end.
OtpSpec ==
    /\ OtpInit /\ [][OtpNext]_<<vars, code>>
    /\ \A c \in Call : WF_vars(Progress(c))

----------------------------------------------------------------------------
(* Properties.                                                             *)

\* A code is not stored with a token older than the session that created it,
\* whatever refusals and logins of this and other calls come between: such a
\* token is of a session the switch no longer knows (generate_otp reads it after
\* the answer, and a login stores its session before the call is sent again).
PinIsNotOutdated == refreshable /\ code.pin # NoSession => code.pin >= code.issuer

\* "to pin OTP verification to the exact PortaSwitch admin session that issued
\* the OTP" (current_access_token): a stored code can be verified.
PinnedToIssuer == code.at = "kept" => code.pin = code.issuer
=============================================================================
