------------------------------ MODULE ApiRoutes ------------------------------
(***************************************************************************)
(* The routes of the HTTP API over the PortaSwitch adapter (main.py): for  *)
(* each, the phases of a request, in order.  A phase is a set of paths of  *)
(* AdapterOperations: a check the route makes itself, or one adapter       *)
(* operation run through call_bss under a deadline of its own.             *)
(***************************************************************************)
EXTENDS AdapterOperations

\* is_method_allowed: 501 for what the adapter was not configured to offer.
Gate == Check("not_supported")

create_session == <<Opt(Gate), Check("missing_parameters"), authenticate>>
update_session == <<refresh_session>>
\* A session that could not be closed is an error here ...
delete_session == <<Mapped(close_session, "unsuccessful" :> "logout_failed")>>
autoprovision_session == <<Gate, Check("not_implemented")>>
create_session_otp == <<Gate, generate_otp>>
verify_session_otp == <<Gate, validate_otp>>
get_system_info == <<>>
get_user_info == <<validate_session, retrieve_user>>
signup_route == <<Gate, signup>>
\* ... and is not when the user is deleted.
delete_user_route ==
    <<validate_session, delete_user, Mapped(close_session, "unsuccessful" :> Handled)>>

\* Without the capability the list is empty.
get_user_contact_list == <<validate_session, Opt(retrieve_contacts)>>
get_user_contact_list_v2 == <<validate_session, Opt(retrieve_contacts_v2)>>
get_user_contact_by_id == <<validate_session, retrieve_contact_by_user_id>>
get_user_history_list == <<validate_session, Opt(retrieve_calls)>>

\* An answer that is no media cannot be streamed.
get_user_recording ==
    <<Gate, validate_session, retrieve_call_recording, Check("internal_error")>>
get_user_recording_transcription == <<Gate, validate_session, retrieve_call_transcription>>
get_user_recording_link == <<Gate, validate_session, issue_recording_link>>
get_public_recording == <<Gate, retrieve_linked_call_recording>>
get_public_recording_transcription == <<Gate, retrieve_linked_call_transcription>>

\* Most voicemail and queue routes look at the session first.
get_user_voicemails == <<validate_session, Gate, retrieve_voicemails>>
get_user_voicemail_message_details ==
    <<validate_session, Gate, retrieve_voicemail_message_details>>
patch_user_voicemail_message ==
    <<validate_session, Gate, Opt(Gate), patch_voicemail_message>>
delete_user_voicemail_message == <<validate_session, Gate, delete_voicemail_message>>
get_user_voicemail_message_attachment ==
    <<Gate, validate_session, retrieve_voicemail_message_attachment>>

get_user_call_queues == <<validate_session, Gate, retrieve_call_queues>>
patch_user_call_queues == <<validate_session, Gate, set_all_call_queues_login>>
patch_user_call_queue == <<validate_session, Gate, set_call_queue_login>>

custom_public_route == <<Gate, custom_method_public>>
custom_private_route == <<Gate, validate_session, custom_method_private>>
user_event_route == <<Gate, validate_session, create_user_event>>

Route ==
    [POST_session |-> create_session, PATCH_session |-> update_session,
     DELETE_session |-> delete_session, auto_provision |-> autoprovision_session,
     otp_create |-> create_session_otp, otp_verify |-> verify_session_otp,
     system_info |-> get_system_info,
     GET_user |-> get_user_info, POST_user |-> signup_route, DELETE_user |-> delete_user_route,
     contacts |-> get_user_contact_list, contacts_v2 |-> get_user_contact_list_v2,
     contact |-> get_user_contact_by_id, history |-> get_user_history_list,
     recording |-> get_user_recording, transcription |-> get_user_recording_transcription,
     recording_link |-> get_user_recording_link, public_recording |-> get_public_recording,
     public_transcription |-> get_public_recording_transcription,
     voicemails |-> get_user_voicemails, voicemail |-> get_user_voicemail_message_details,
     PATCH_voicemail |-> patch_user_voicemail_message,
     DELETE_voicemail |-> delete_user_voicemail_message,
     attachment |-> get_user_voicemail_message_attachment,
     queues |-> get_user_call_queues, PATCH_queues |-> patch_user_call_queues,
     PATCH_queue |-> patch_user_call_queue, custom_public |-> custom_public_route,
     custom_private |-> custom_private_route, user_event |-> user_event_route]
=============================================================================
