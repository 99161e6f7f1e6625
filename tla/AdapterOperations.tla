------------------------- MODULE AdapterOperations -------------------------
(***************************************************************************)
(* What each operation of the PortaSwitch adapter (adapters/portaswitch/   *)
(* adapter.py) asks of the switch, in which order, and what it makes of a  *)
(* failure.                                                                *)
(*                                                                         *)
(* An operation is the set of the paths a run of it can take, a path being *)
(* a sequence of steps: a call, or a check of data the operation may       *)
(* refuse.  Which path is taken depends on settings, caches and on what    *)
(* the switch answers.  A loop over pages, offices or numbers stands for   *)
(* one turn of it, and calls made side by side are made in either order.   *)
(***************************************************************************)
EXTENDS SwitchCalls, TLC

NoCall == Call("no call", "local", FALSE, {})
Handled == "handled"   \* a fault the operation takes for an answer

Step(call, error) ==
    [call |-> call,         \* the call made, if any
     error |-> error,       \* the error of a check
     catches |-> <<>>,      \* fault -> the error raised in its place, or Handled
     optional |-> FALSE,    \* whether a failure is swallowed
     skip |-> 0]            \* and how many further steps it then costs

NoStep == {<<>>}
Do(call) == {<<Step(call, "")>>}
Check(error) == {<<Step(NoCall, error)>>}

A ** B == {p \o q : p \in A, q \in B}
Opt(A) == A \cup NoStep
Both(A, B) == (A ** B) \cup (B ** A)

\* except WebTritErrorException: a fault becomes a domain error.  The innermost
\* handler comes first, and a domain error passes through the others.
Mapped(A, catches) ==
    {[i \in DOMAIN p |-> [p[i] EXCEPT !.catches = @ @@ catches]] : p \in A}

\* except Exception: whatever fails, the rest of the block is given up.
Attempt(A) ==
    {[i \in DOMAIN p |-> IF p[i].optional THEN p[i]
                         ELSE [p[i] EXCEPT !.optional = TRUE, !.skip = Len(p) - i]] : p \in A}

\* The handler that nearly every operation of a signed-in user ends with.
ExpiredToken == "bad_token" :> "access_token_expired"

----------------------------------------------------------------------------
(* Signing in.                                                             *)

\* An alias stands for its master account.
_ResolveMaster == Opt(Do(get_account_info))
_CheckAllowedAddons == Opt(Check("addon_required"))

BugDeviceLimits ==
    Opt(Do(get_account_info))
    ** Both(Opt(Do(get_account_custom_fields_values)), Opt(Do(get_customer_custom_fields_values)))

\* The two fields are read side by side, each from its cache or from the switch,
\* and only once the master account is known.
_read_device_limits ==
    Attempt(Opt(Do(get_account_info))
            ** Both(Attempt(Opt(Do(get_account_custom_fields_values))),
                    Attempt(Opt(Do(get_customer_custom_fields_values)))))

_get_or_create_api_token == Opt(Attempt(Do(update_account)))

\* With the token of the account where the release knows tokens, with the
\* password otherwise or when no token could be stored.
_login_account == Do(get_version) ** _get_or_create_api_token ** Do(login)
_emulate_account_login == Do(get_account_info) ** _login_account

BugAuthenticate ==
    Mapped(Do(get_account_info) ** _ResolveMaster ** _read_device_limits ** _login_account
           ** Check("incorrect_credentials") ** _CheckAllowedAddons,
           [fault \in {"auth_failed", "brute_force", "bad_token"} |-> "user_authentication"])

authenticate ==
    Mapped(Do(get_account_info) ** _ResolveMaster ** Check("incorrect_credentials")
           ** _CheckAllowedAddons ** _read_device_limits ** _login_account,
           [fault \in {"auth_failed", "brute_force", "bad_token"} |-> "user_authentication"])

_notification_email == Attempt(Opt(Do(get_env_info)))

\* Pages of candidates until they run out, a second one matches or there are
\* too many of them, and the one match read again in full.
_find_account_by_email ==
    Opt(Do(find_accounts_by_email) ** Check("ambiguous_user") ** Opt(Do(get_account_info)))

EmptyRecipient == ("empty_recipient" :> "delivery_channel_unspecified")
SendOtp == Mapped(Do(create_otp), "unsuccessful" :> "external_api_issue")

BugGenerateOtp ==
    Mapped(Do(get_account_info) ** _find_account_by_email ** Check("not_found_user")
           ** _CheckAllowedAddons ** SendOtp ** _ResolveMaster ** Do(store), EmptyRecipient)

\* The notification email before the code is sent: nothing but the storage can
\* fail the request afterwards.
generate_otp ==
    Mapped(Both(Do(get_account_info), _notification_email)
           ** _find_account_by_email ** Check("not_found_user")
           ** Opt(Do(get_account_info) ** Check("not_found_user")) ** _CheckAllowedAddons
           ** SendOtp ** Do(store), EmptyRecipient)

\* The accounts in IGNORE_ACCOUNTS are let in with any code.
VerifyOtp ==
    UNION {Mapped(UNION {Do(call) : call \in verify_otp}, "unsuccessful" :> outcome)
           : outcome \in {"incorrect_otp_code", Handled}}

validate_otp ==
    Mapped(Do(retrieve) ** Check("otp_expired") ** VerifyOtp ** Do(delete)
           ** Do(get_account_info) ** Check("not_found_user")
           ** _read_device_limits ** _login_account,
           "must_change_password" :> "password_change_required")

\* The token is read here; the switch is asked only whose it is when it does
\* not say.
validate_session ==
    Check("access_token_expired")
    ** (Check("session_upgrade_needed") \cup Check("access_token_invalid"))
    ** Opt(Mapped(Do(ping), "ping_bad_token" :> "access_token_invalid")
           ** Check("access_token_invalid"))

refresh_session ==
    Mapped((Do(refresh) \cup _emulate_account_login) ** Do(account_info),
           [fault \in {"refresh_failed", "bad_token"} |-> "refresh_token_invalid"])

\* A session that is gone is one that is closed.
close_session ==
    Mapped(Do(logout), ("logout_bad_token" :> "session_close") @@ ("session_gone" :> Handled))

signup ==
    Check("missing_tokens") ** Mapped(Do(account_info) ** _read_device_limits, ExpiredToken)

\* A method that only passes: accounts are not the adapter's to delete.
delete_user == NoStep
\* Not implemented, whatever the capabilities say.
create_user_event == Check("not_implemented")

----------------------------------------------------------------------------
(* The user.                                                               *)

\* Both reads at once; the office type is looked at only when the company has
\* no address of its own.
_customer_crm_host ==
    Both(Do(get_customer_custom_fields_values), Do(get_customer_info))
    ** Opt(Do(get_customer_custom_fields_values))

_read_crm == Attempt(Opt(_customer_crm_host))

retrieve_user ==
    Mapped(Both(Do(account_info), Do(get_alias_list)) ** _read_crm, ExpiredToken)

----------------------------------------------------------------------------
(* Contacts.                                                               *)

\* The branches of an office are read only where it is an office at all, and
\* the office alone is taken when they cannot be.
_get_all_office_customers_for_main == Attempt(Do(get_customer_list))
_get_office_customer_ids ==
    Attempt(Do(get_customer_info)) \cup
    Attempt(Do(get_customer_info) ** _get_all_office_customers_for_main)

\* From the cache, or page by page.
_fetch_accounts_by_customer == Do(get_account_list) ** Opt(Do(get_account_list))
_get_all_accounts_by_customer == Opt(_fetch_accounts_by_customer)

\* Through the accounts of the customers configured, or number by number.
_get_number_to_customer_accounts_map_for_numbers ==
    Opt(Attempt(Do(get_account_list)) \cup Attempt(Do(get_account_info)))

EnrichWithAliases == Attempt(Opt(Do(get_account_list)))
ResolveMaster == Attempt(Opt(Do(get_account_info) ** EnrichWithAliases))

ContactsOwner == Do(account_info) ** _get_office_customer_ids

ExtensionsContacts == _get_all_accounts_by_customer ** Do(get_extensions_list)
AccountsContacts == _get_all_accounts_by_customer ** Opt(Do(get_extensions_list))
PhonebookContacts == Do(get_phonebook_list) ** _get_number_to_customer_accounts_map_for_numbers
PhoneDirectoryContacts ==
    Do(get_phone_directory_list) ** Opt(Do(get_phone_directory_info))
    ** _get_number_to_customer_accounts_map_for_numbers

retrieve_contacts ==
    Mapped(ContactsOwner ** (ExtensionsContacts \cup AccountsContacts
                             \cup PhonebookContacts \cup PhoneDirectoryContacts), ExpiredToken)

\* One number looked up as the number of an account, as an extension, and as an
\* alias where neither found it.
ContactsByNumber ==
    Attempt(Do(get_extensions_list))
    ** Attempt(Do(get_account_list) ** ResolveMaster)
    ** Opt(Attempt(Do(get_account_info) ** EnrichWithAliases))
    ** Opt(Attempt(Do(get_account_info) ** ResolveMaster))

ExtensionsPage ==
    Do(get_extensions_list) ** Opt(Attempt(Do(get_account_info) ** EnrichWithAliases))

\* The filter on extensions in a hierarchy of offices.
AccountsFilter == Opt(Do(get_extensions_list))

\* Every field in every office side by side, and a second round when the filters
\* left the page short; then extensions, then additional numbers.
AccountsSearch ==
    AccountsFilter ** Do(get_account_list) ** Opt(Do(get_account_list))
    ** Attempt(Do(get_extensions_list)
               ** Opt(Attempt(Do(get_account_info) ** EnrichWithAliases)))
    ** Opt(Attempt(Do(get_account_info) ** ResolveMaster))

\* The whole directory, searched in memory where there is something to search.
AccountsPage ==
    AccountsFilter ** _get_all_accounts_by_customer ** Opt(Attempt(Do(get_extensions_list)))

PhonebookPage == PhonebookContacts
PhoneDirectoryPage == PhoneDirectoryContacts

retrieve_contacts_v2 ==
    Mapped(ContactsOwner ** (ContactsByNumber \cup ExtensionsPage \cup AccountsSearch
                             \cup AccountsPage \cup PhonebookPage \cup PhoneDirectoryPage),
           ExpiredToken)

retrieve_contact_by_user_id == Do(get_account_info) ** Check("contact_not_found")

----------------------------------------------------------------------------
(* Call history, recordings, transcripts.                                  *)

_portaswitch_release == Attempt(Opt(Do(get_version)))

\* A range that the user has cleared is empty, without asking.
retrieve_calls ==
    Opt(Mapped(_portaswitch_release ** Do(get_xdr_list), ExpiredToken))

InvalidId == Check("invalid_recording_id")
RecordingFault(missing) ==
    [fault \in {"xdr_not_found", "invalid_recording"} |-> missing]
    @@ ("forbidden_account" :> "forbidden_recording")

retrieve_call_recording ==
    InvalidId ** Mapped(Do(get_call_recording), ExpiredToken @@ RecordingFault("not_found_recording"))

retrieve_call_transcription ==
    InvalidId ** Check("not_found_transcription")
    ** Mapped(Do(get_call_transcription),
              ExpiredToken @@ RecordingFault("not_found_transcription")
              @@ ("no_transcription" :> "not_found_transcription"))

\* A transcript that is not there yet, or a call without one, makes a link all
\* the same.
_own_call_recording_id ==
    Mapped(Do(get_call_transcription),
           ExpiredToken @@ RecordingFault(Handled) @@ ("no_transcription" :> Handled))

\* The body of the recording is closed unread.
issue_recording_link ==
    Check("recording_links_not_configured") ** InvalidId
    ** retrieve_call_recording ** Opt(_own_call_recording_id)

_verify_recording_link ==
    Check("recording_links_not_configured") ** Check("recording_link_not_found")
    ** Check("recording_link_expired")

retrieve_linked_call_recording ==
    _verify_recording_link
    ** Mapped(Do(linked_recording), RecordingFault("recording_link_not_found"))
    ** Check("recording_link_not_found")

retrieve_linked_call_transcription ==
    _verify_recording_link ** Check("linked_transcription_not_found")
    ** Mapped(Do(linked_transcription),
              ("xdr_not_found" :> "recording_link_not_found")
              @@ [fault \in {"invalid_recording", "no_transcription"}
                  |-> "linked_transcription_not_found"])

----------------------------------------------------------------------------
(* Voicemail.                                                              *)

VoicemailFault ==
    ExpiredToken @@ ("unified_messaging_disabled" :> "voicemail_not_configured")

retrieve_voicemails == Mapped(Do(get_mailbox_messages), VoicemailFault)

\* The answer may describe another message, or be no media at all.
retrieve_voicemail_message_details ==
    Mapped(Do(get_mailbox_message_details), VoicemailFault) ** Check("message_not_found")
retrieve_voicemail_message_attachment ==
    Check("unsupported_file_format")
    ** Mapped(Do(get_mailbox_message_attachment), VoicemailFault) ** Check("message_not_found")

\* One call for each attribute of the patch, in the order of VOICEMAIL_PATCH_FLAGS.
patch_voicemail_message ==
    Mapped(Opt(Do(set_mailbox_message_flag("seen"))) ** Opt(Do(set_mailbox_message_flag("saved"))),
           VoicemailFault)
delete_voicemail_message == Mapped(Do(delete_mailbox_message), VoicemailFault)

----------------------------------------------------------------------------
(* Call queues.                                                            *)

\* _call_center_error
CallCenterFault == ExpiredToken

_load_account_context == Do(account_info)
_read_huntgroups == Do(get_huntgroup_list) ** Opt(Do(get_huntgroup_list))
_load_agent_queues == _read_huntgroups

\* Without a call state subscription one is made and the calls are read again.
_get_sip_calls_list ==
    Do(get_sip_calls_list) ** Opt(Do(enable_api_notifications) ** Do(get_sip_calls_list))

\* CallQueues models what is done with the counters.  The handler is for the errors of
\* calls alone, which are all there are here: an answer of another shape than the code
\* expects, which would fail the request, is not modelled.
_fetch_callers_waiting == Opt(Attempt(_get_sip_calls_list))

_update_subscription == Do(update_huntgroups_subscription)

retrieve_call_queues ==
    Mapped(_load_account_context ** _load_agent_queues ** _fetch_callers_waiting, CallCenterFault)

\* Membership is the adapter's to enforce; the queue may be gone afterwards.
set_call_queue_login ==
    Mapped(_load_account_context ** _load_agent_queues ** Check("call_queue_not_found")
           ** _update_subscription
           ** _load_agent_queues ** _fetch_callers_waiting ** Check("call_queue_not_found"),
           CallCenterFault)

set_all_call_queues_login ==
    Mapped(_load_account_context ** _load_agent_queues
           ** Opt(_update_subscription ** _load_agent_queues) ** _fetch_callers_waiting,
           CallCenterFault)

----------------------------------------------------------------------------
(* Custom methods, found by name.                                          *)

custom_method_public == Check("method_not_found")

_custom_pages == _emulate_account_login
_external_page_access_token == _emulate_account_login
custom_method_private ==
    Check("method_not_found") ** (_custom_pages \cup _external_page_access_token)

----------------------------------------------------------------------------
(* exceptions.py: the status of each error.                                *)

Unauthorized ==
    {"access_token_expired", "access_token_invalid", "session_upgrade_needed",
     "user_authentication", "incorrect_credentials", "incorrect_otp_code", "otp_expired"}
Forbidden == {"forbidden_recording", "addon_required"}
NotFound ==
    {"method_not_found", "not_found_user", "contact_not_found", "not_found_recording",
     "not_found_transcription", "call_queue_not_found", "message_not_found",
     "recording_link_not_found", "linked_transcription_not_found"}
Gone == {"recording_link_expired"}
Unprocessable ==
    {"ambiguous_user", "invalid_recording_id", "delivery_channel_unspecified",
     "password_change_required", "refresh_token_invalid", "session_close", "missing_tokens",
     "unsupported_file_format", "voicemail_not_configured", "missing_parameters"}
NotImplemented == {"recording_links_not_configured", "not_supported"}
Unavailable == {"service_read_only"}

Status(error) ==
    CASE error \in Unauthorized -> 401
      [] error \in Forbidden -> 403
      [] error \in NotFound -> 404
      [] error \in Gone -> 410
      [] error \in Unprocessable -> 422
      [] error \in NotImplemented -> 501
      [] error \in Unavailable -> 503
      [] OTHER -> 500
=============================================================================
