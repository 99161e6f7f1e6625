---------------------------- MODULE SwitchCalls ----------------------------
(***************************************************************************)
(* The calls the PortaSwitch adapter makes at the switch                   *)
(* (adapters/portaswitch/api/account.py and admin.py), and what becomes of *)
(* an answer that is a fault (__send_request and _send_request).           *)
(*                                                                         *)
(* A call has a name; how it is authenticated: the user's token in the     *)
(* header ("bearer") or among the parameters ("param"), the shared admin   *)
(* session ("admin"), or an admin token given with the call ("pinned");    *)
(* whether it writes at the switch; and the faults of its own that the     *)
(* adapter tells apart.  "local" calls are the OTP storage, not the switch.*)
(***************************************************************************)
EXTENDS Naturals, Sequences

SessionAuthFaults == {"check_auth_failed", "bad_token"}
LoginFaults == {"auth_failed", "brute_force", "must_change_password"}
ReadOnlyFault == "read_only"  \* any of READ_ONLY_FAULTS
NoAnswer == "no answer"       \* no fault code: an error of transport
OtherFault == "other fault"   \* a fault code nobody looks for

Call(name, auth, writes, faults) ==
    [name |-> name, auth |-> auth, writes |-> writes, faults |-> faults]

----------------------------------------------------------------------------
(* The account realm.                                                      *)

MailboxFaults == {"unified_messaging_disabled"}
RecordingFaults == {"xdr_not_found", "invalid_recording", "forbidden_account"}

login == Call("login", "param", FALSE, LoginFaults)
logout == Call("logout", "param", FALSE, {"logout_bad_token", "session_gone", "unsuccessful"})
refresh == Call("refresh", "param", FALSE, {"refresh_failed", "bad_token"})
ping == Call("ping", "param", FALSE, {"ping_bad_token"})
account_info == Call("account_info", "bearer", FALSE, {})
get_alias_list == Call("get_alias_list", "bearer", FALSE, {})
get_xdr_list == Call("get_xdr_list", "bearer", FALSE, {})
get_phonebook_list == Call("get_phonebook_list", "bearer", FALSE, {})
get_phone_directory_list == Call("get_phone_directory_list", "bearer", FALSE, {})
get_phone_directory_info == Call("get_phone_directory_info", "bearer", FALSE, {})
get_call_recording == Call("get_call_recording", "bearer", FALSE, RecordingFaults)
get_call_transcription ==
    Call("get_call_transcription", "bearer", FALSE, RecordingFaults \cup {"no_transcription"})
get_mailbox_messages == Call("get_mailbox_messages", "bearer", FALSE, MailboxFaults)
get_mailbox_message_details == Call("get_mailbox_message_details", "bearer", FALSE, MailboxFaults)
get_mailbox_message_attachment ==
    Call("get_mailbox_message_attachment", "bearer", FALSE, MailboxFaults)
set_mailbox_message_flag(flag) == Call(flag, "bearer", TRUE, MailboxFaults)
delete_mailbox_message == Call("delete_mailbox_message", "bearer", TRUE, MailboxFaults)

----------------------------------------------------------------------------
(* The admin realm.                                                        *)

get_account_list == Call("get_account_list", "admin", FALSE, {})
find_accounts_by_email == Call("find_accounts_by_email", "admin", FALSE, {})
get_customer_info == Call("get_customer_info", "admin", FALSE, {})
get_customer_list == Call("get_customer_list", "admin", FALSE, {})
get_extensions_list == Call("get_extensions_list", "admin", FALSE, {})
get_huntgroup_list == Call("get_huntgroup_list", "admin", FALSE, {})
update_huntgroups_subscription == Call("update_huntgroups_subscription", "admin", TRUE, {})
enable_api_notifications == Call("enable_api_notifications", "admin", FALSE, {})
get_sip_calls_list == Call("get_sip_calls_list", "admin", FALSE, {})
create_otp == Call("create_otp", "admin", TRUE, {"empty_recipient", "unsuccessful"})
get_account_info == Call("get_account_info", "admin", FALSE, {})
update_account == Call("update_account", "admin", TRUE, {})
get_account_custom_fields_values == Call("get_account_custom_fields_values", "admin", FALSE, {})
get_customer_custom_fields_values == Call("get_customer_custom_fields_values", "admin", FALSE, {})
get_env_info == Call("get_env_info", "admin", FALSE, {})
get_version == Call("get_version", "admin", FALSE, {})
linked_recording == Call("linked_recording", "admin", FALSE, {"xdr_not_found", "invalid_recording"})
linked_transcription ==
    Call("linked_transcription", "admin", FALSE,
         {"xdr_not_found", "invalid_recording", "no_transcription"})

\* Under the session that created the code when that is known, past the login
\* flow and its handling of faults; under the shared session otherwise.
verify_otp == {Call("verify_otp", auth, FALSE, {"unsuccessful"}) : auth \in {"pinned", "admin"}}

\* The OTP storage, which may be a remote database.
store == Call("store", "local", TRUE, {})
retrieve == Call("retrieve", "local", FALSE, {})
delete == Call("delete", "local", TRUE, {})

----------------------------------------------------------------------------
(* What becomes of a fault.                                                *)

\* A domain error of the adapter carries no trace of the switch: whoever looks
\* for its fault code lets it through.  Anything else is raised as it came.
Domain(error) == [domain |-> TRUE, what |-> error]
Raw(fault) == [domain |-> FALSE, what |-> fault]

BugAccountErrorForgetsOne(call, fault) ==
    IF fault = ReadOnlyFault THEN Domain("service_read_only")
    ELSE IF call.auth = "bearer" /\ fault = "bad_token" THEN Domain("access_token_expired")
    ELSE Raw(fault)

BugAccountErrorBlamesToken(call, fault) ==
    IF fault = ReadOnlyFault THEN Domain("service_read_only")
    ELSE IF call.auth = "bearer" THEN Domain("access_token_expired")
    ELSE Raw(fault)

\* AccountAPI.__send_request: the user's session is not the adapter's to renew.
AccountError(call, fault) ==
    IF fault = ReadOnlyFault THEN Domain("service_read_only")
    ELSE IF call.auth = "bearer" /\ fault \in SessionAuthFaults THEN Domain("access_token_expired")
    ELSE Raw(fault)

BugAdminRenewsUnanswered(call, fault, again) ==
    call.auth = "admin" /\ fault \in SessionAuthFaults \cup {NoAnswer} /\ ~again

\* AdminAPI._send_request: a refused session is renewed and the call made again;
\* what that one raises is not looked at.
AdminRenews(call, fault, again) ==
    call.auth = "admin" /\ fault \in SessionAuthFaults /\ ~again
AdminError(call, fault, again) ==
    IF fault = ReadOnlyFault /\ ~again THEN Domain("service_read_only") ELSE Raw(fault)

\* What the adapter's operation sees of a fault.
Seen(call, fault, again) ==
    CASE call.auth \in {"bearer", "param"} -> AccountError(call, fault)
      [] call.auth = "admin" -> AdminError(call, fault, again)
      [] OTHER -> Raw(fault)
=============================================================================
