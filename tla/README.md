# Formal models of the WebTrit PortaSwitch adapter

The repository is an adapter between the WebTrit core (a FastAPI service,
`src/app/main.py`) and a telephony back end. Nearly all of its own logic is in
the PortaSwitch adapter, which runs on one asyncio event loop, routes its calls
over two geographically separated PortaSwitch sites, shares one admin session
between all calls, and caches account lists. This directory holds TLA+ models of
that logic, the TLC configurations that check them on small instances, and
proofs, checked by TLAPS, of what holds for every instance.

    tlc -workers 2 -config MCSiteRouting.cfg MCSiteRouting     # one run
    tlapm SiteRoutingProofs.tla                                # one module's proofs

`PROJECT.json` lists the components, the runs, for each property a plausible bug
that breaks it, the source lines of each definition, the hazards and the
theorems.

## 1. The system

| Component | State it keeps | Operations | What is hard | What makes it correct |
|---|---|---|---|---|
| Active-site tracker, `failover.py` | active site, mode-aware flag, two streaks, flags of the checks in flight | `next_targets`, `report_unreachable`, `report_slow`, `poll_once`, `_run_probe`, `_confirm_outage` | checks that answer into another state than they were started in; streaks shared by two ways of switching | leave and return only on full evidence; settle where the sites say |
| Request routing, `async_http_api.py` | targets of each request | `_send_rest_request` | a request outlives the decision it was routed by; slow is not down | no request executed by both sites |
| Replicas of the adapter | one tracker per process, nothing shared | restarts | the same answers reach different states | all on one site |
| Admission control, `async_http_api.py` | a client with its pool per TLS setting, one semaphore | `send_rest_request`, `inflight_limit` | streams that outlive their permit; two pools, one semaphore; lost connections | a pool is full only of streams; every request ends |
| Admin session, `async_http_api.py`, `api/admin.py` | token table, login lock | `send_rest_request`, `session_in_progress`, `_send_request`, `refresh` | many callers on an expired or refused token; cancellation under the lock | few logins; nobody waits for ever |
| OTP sign-in, `adapter.py`, `otp_storage.py` | code -> account and admin token | `generate_otp`, `validate_otp` | token read after an await; a failure behind the sending | a code is verified in the session that made it; no second code for a failure behind the first |
| Operations of the adapter, `adapter.py`, `api/*.py`, `exceptions.py` | at the switch | every method the routes call | which failure is caught where; what was written before it | a client is told what happened, and why |
| HTTP routes, `main.py` | none | one per endpoint; `call_bss` cancels at the deadline | cancellation at any await | as above |
| Accounts cache, `adapter.py` | entries, locks, refresh tasks | `_get_all_accounts_by_customer` and below | lock table trimmed under its users; callbacks after replacement; row budget | no reader stuck; tasks referenced; budget kept |
| Call queues, `adapter.py` | counters, locks, a subscription at the switch | `retrieve_call_queues`, `set_*_call_queue(s)_login` | as the accounts cache; the subscription dies with the session | counters shown only when known |
| Device limits, CRM hosts, release, notification email | bounded dictionaries | `_read_device_limits`, `_read_crm`, ... | overlapping reads, kept failures | old answers are served behind a failed CRM read only; a failing switch is left alone |
| Lists longer than a page, `adapter.py` | none | `_find_account_by_email`, `_fetch_accounts_by_customer`, phonebooks | entries that join and leave between two pages; no ORDER BY | whole and once in one order; in no order, no more is missed than left or came twice |
| Local sessions, `session_management.py`, `sessions.py` | each session under two keys | `refresh_session`, `close_session`, `validate_session` | threads, crashes between two store calls | a client that is not cut off always has a session to renew; none is back once over |
| Sample OTP handler, `otp.py` | codes in a store | `validate_otp` | threads, a counter read and written apart | guesses are bounded |
| Key-value stores, `dbs/` | entries in memory, in a file, in Firestore | `get`, `set`, `pop` | `pop` is not atomic | see the two above |
| Other adapters, synchronous connector | local sessions | the same operations | - | - |
| Serializers, models, configuration, metrics, tracing | none or write-only | - | - | - |

How they interact: `main.py` calls an adapter method under a deadline. The
adapter calls its two connectors (`AdminAPI`, `AccountAPI`), which share one
`SiteState`. A call of the admin connector passes the session layer (perhaps a
login), then admission control, then routing, which asks the tracker for targets
and reports back to it. The tracker's probes are calls of the admin connector to
a named site: they pass admission control and `_send_rest_request` like any other
call (`admin.py:489-508`), but with that site as their only target and with a session
of their own. A refused or slow probe therefore reports to the tracker as well
(`async_http_api.py:345-346, 408-410`); what such a report changes is what the report
of a request may change at the same moment, so `Unreachable` and `Slow` of a request
stand for it. `AdminAPI` runs a login again when a site refuses the token, which is
the normal case after the tracker has moved traffic to the other site.

## 2. Modules

    SiteTracker            the tracker's decisions, as operators
      |- SiteRouting       one process: requests, monitor, checks
      |    '- SiteRoutingProofs (with SiteTrackerProofs)
      '- SiteReplicas      several processes and the two sites
           '- SiteReplicasProofs (with SiteTrackerProofs)
    AdminSession           the shared admin session
      '- OtpSignIn         how a code gets its pinned token
           '- OtpSignInProofs (about both)
    AdmissionControl       permits, pools, streams
      '- AdmissionControlProofs
    SwitchCalls            the calls of both realms and their faults, as operators
      '- AdapterOperations    what each method calls and catches
           '- ApiRoutes       the phases of each route
                '- ApiRequest one request over a failing switch
    ContactsCache          the accounts cache
    CallQueues             the counters of the call queues
    LookupCaches           the four caches without a lock
      (LookupLifetimes: its lifetimes and sizes, and what is assumed of them)
    PagedReads             lists read page by page
      '- SwitchReads       what one process reads: the four above
           '- SwitchReadsProofs
    SessionService         what local sessions promise
    LocalSessions          how they keep it (implements SessionService)
    LocalOtp               one code of the sample OTP handler
      '- LocalSignIn       sessions and codes: the two above
           '- LocalSignInProofs
    SequenceLemmas         queues without repetition, for the proofs

The MC modules instantiate these for TLC. Where components share a run
(`MCCaches`, `MCRequests`, `MCLocal`) a behaviour is of one of them, chosen by
`part` at the start; components that do interact are composed in the modules
themselves. `SwitchReads` and `LocalSignIn` only gather: the parts share a process
and no state, so each module declares the constants and variables of its parts
and names their properties, and the runs and the proofs are about the same
definitions.

**Steps.** What runs on the event loop has the code from one await to the next as
an action; what may happen during an await is any action of anybody else. An HTTP
exchange is an await that ends with one of the outcomes the code tells apart.
What runs on threads (`LocalSessions`, `LocalOtp`) has one call of the store as
an action.

**SiteTracker** has one operator per piece of `SiteState` that runs without an
await: what a tick, a probe's answer, an outage check's answer or an unreachable
site makes of the fields. It is extended by both modules below, so the decisions
are written, and proved about, once. `_last_modes` only decides about a log line
and is left out.

**SiteRouting** is one process. `request` keeps the targets each request was
given; `Send` is the routing of a request by `next_targets` (which starts the
monitor and perhaps a switch-back probe), and `Answered`, `Unreachable`, `Slow`
and `Dropped` are the ways its exchange with the current target ends. `Tick` is
`poll_once` after both answers are in, `ProbeReturns` and `ConfirmReturns` the
two out-of-band checks, `RecheckDue` the passing of `recheck_interval`. The
history variable `heard` records what the process was told, in terms of the
answers alone and not of the tracker's streaks; the properties compare the
tracker's moves with it. A site's execution of a request is `took`.

**SiteReplicas** is several pods, each with a tracker, in front of two sites
whose answers change at any time, also between the ticks of two pods; ticks
aligned to the wall clock are the behaviours in which they do not. `Restart`
starts a pod over.

**AdminSession** numbers sessions in the order of their logins. A call is
`waiting` for the login lock, in a `login`, `ready` (waiting for its permit),
`sent`, or in the `refresh` after a refusal. A call holds a reference to a session
object, so a token that `session_in_progress` clears is cleared for every call
that was given it and is not sent yet (`cleared`). `refreshable` says whether the
switch's logins bring a refresh token: without one, the login that replaces an
expired session is not stored.

**OtpSignIn** extends it with one code: one of the calls may be `create_otp`, the
site creates the code in the session the call was sent with (`issuer`), and
`generate_otp` stores it with the token that is current by then (`pin`), on a
thread. Codes share nothing but the session, so one is enough.

**AdmissionControl** has slots for calls and for the probes of the monitor: in
`line` for a permit (in order of arrival, as `asyncio.Semaphore` has it),
`queued` for a connection of the pool, `sent`, or with the `body` streamed. `apart`
says whether the standby has a TLS setting of its own, hence a pool of its own,
while the permits are those of the main client. `Unreachable` goes on to the
other site under the same permit. `lost` counts the connections that a checkout
cancelled in the queue leaves unusable; that this happens is what the docstring of
`async_http_api.py` (lines 22-30) says of httpx.

**SwitchCalls, AdapterOperations, ApiRoutes, ApiRequest** are the adapter's code
between a route and the switch. A call is a record of its realm, whether it
writes, and the faults of its own the code tells apart. An operation is the set of
the paths a run of it may take, a path being a sequence of calls and checks, each
with the handlers around it: `Mapped` is `except WebTritErrorException` with a table
of faults, `Attempt` is `except Exception`, which gives up the rest of its block. Which
path is taken depends on settings, caches and data, all of which are left open.
`ApiRequest` runs the paths of a route over a switch that may answer any call with
any of its faults, lose the answer of a call it did or did not carry out, or take
so long that the deadline cancels the operation. The re-login of `AdminAPI` with
its one retry is part of it. `done` is what the switch has carried out, `answer`
what the client is told. A loop over pages, offices or numbers stands for one turn
of it; a login of the adapter that is answered without a token (`ValueError`,
`async_http_api.py:521`) and answers of an unexpected shape are left out. An `Attempt`
gives up on every failure of the calls in it, which are all errors the adapter raises;
`_fetch_callers_waiting` (`adapter.py:2620`) catches those only. `SignInAgain`, the
answers that make a client sign in anew, includes the 422 of `session_close`
(`exceptions.py:111`).

**ContactsCache** has slots for coroutines: requests that wait, and background
tasks. Entries are kept oldest first and are fresh, stale or expired. The lock
table maps a customer to a lock *object*, since eviction can take a lock out of
the table while coroutines still use it. `asyncio.Lock` frees the lock on
release and the woken waiter takes it when it runs; both steps are modelled. The
pages of one read, and the projection of accounts, are one step.

**CallQueues** has the same kind of lock table. What it keeps of a counter is
whether it may be believed: the first read after a subscription misses the callers
who were queued before (`undercounted`), and `_read_callers_waiting` reports
`unknown` rather than that number. `SessionRenewed` is a login of the admin
session, with which the subscriptions are gone.

**LookupCaches** is the release, the sender of codes, the device limits and the
CRM address, told apart by `kind`: each lookup is the steps before and after its
read, without a lock, so that answers may be stored in another order than they
were given. Answers differ by their age alone. A CRM read that fails is answered with
the address kept when the lookup began, however old (`adapter.py:3013, 3027, 3037`):
`last` remembers it.

**PagedReads** has a list at the switch that entries join and leave while it is
read: page after page for the lookup of an email address and for a phonebook, side
by side after the first page for the accounts of a customer, and page by page as a
client asks for it for the phonebook behind the configured contacts. No request names
an order (`adapter.py:1600-1603, 3428-3432`, `admin.py:116-143`). `ordered` says whether
the switch keeps to one nevertheless; if not, `Answers` is as many entries of the list
as the page has places, whichever, so that pages may overlap and skip entries of a list
nobody changes. `Once` is the removal of repeated accounts (`adapter.py:3433-3437`).

**SessionService** is the promise of the local sessions: a login starts a line of
sessions, a renewal adds one to the line and retires the one it was made from. The
promise is about sessions a client can use, those it was given and the one it is about
to be given (`due`): a line nobody asked to end always has one. It is lost when an
answer never comes (`Breaks`: the process stops, or a store call fails), with a store
in memory when the process stops (`Crash`), and when Firestore drops the last session
(`Expire`).

**LocalSessions** is the code: every session is stored under its access
token and under its refresh token in two steps, deleted in two, and `pop` of the file
and of Firestore is itself two; a step that fails ends the operation half-way. `live`
is refined by the refresh tokens in the store that a client holds or waits for
(`Usable`), `due` by what the threads will answer with, `accepted` by the threads that
have yet to store what they renewed. `Purges` is Firestore's: both entries of a
session have the `document_ttl` of the access token (`sessions.py:117, 127`;
`types.py:211`), so the refresh token may be dropped a year before its own expiry; the
five minutes between expiry and `document_ttl` are taken to be longer than a request.
`Restart` is a crash of the process. Times are counted down in the stored entries;
`still_active` compares with the start of the process, so an expired entry counts only
once a restart has made it `Outlived`.

**LocalOtp** is one code of `SampleOTPHandler`, from the time it was sent. In
memory the threads share the stored object, so the count is read when it is
compared; from a file or Firestore each has a copy (`Counted`), and the increment of the
shared object is a read and a write (`Adds`, `Counts`). The code is compared before the
limit is looked at (`otp.py:143-144`), so `Exhausted`, the wrong code that has the code
erased, is a guess like any other and `wrong` counts it.

## 3. Runs

| Run | Instance | Shows |
|---|---|---|
| `routing` | 2 requests, thresholds 2 and 3, every answer of both sites | `TakenOnce`, `LeavesMainOnEvidence`, `ReturnsOnEvidence` |
| `replicas` | 2 pods, thresholds 2 and 3, 2 changes of the sites, 1 restart | `SettledPodsFollowTheSites`, `PodsConverge` |
| `replicas_doc` | 2 pods, thresholds 1 and 1, 1 change, no restart | `PodsEventuallyAgree` does not hold |
| `admin_session` | 2 calls, 3 sessions, 2 refusals, 1 code | `LoginsAreBounded`, `PinIsNotOutdated`, `EveryCallEnds` |
| `admin_session_doc` | 2 calls, 2 sessions | `PinnedToIssuer` does not hold |
| `contacts_cache` | 2 customers, 3 coroutines, room for one list | `RefreshIsReferenced`, `EveryReaderEnds` |
| `contacts_cache_flight` | 2 customers, 3 coroutines | `OneReadPerCustomer` does not hold |
| `caches` | 3 keys, 2 readers; lists of 0 to 2 rows, room for 3; lists of up to 5 entries in pages of 2, 1 change, in one order; of up to 3 in none | `OverBudgetOnlyBehindEmptyEntry`; `LockTableIsBounded`, `NoConfidentZero`; `OldOnlyBehindFailure`, `LeftAloneAfterFailure`, `StalestGoesFirst`; `MissedForThoseWhoLeft`, `ListsAreWhole` |
| `requests` | every route, path and fault; 3 calls and a probe on pools of 3 connections | `RefusedUserSignsInAgain`, `SignInAgainIsJustified`, `SentOnceOnlyStorageFails`, `OptionalCallsFailNothing`, `RefusalsLeaveNothing`, `CarriedOutOnce`; `FullOnlyOfStreams`, `EveryRequestEnds` |
| `requests_doc` | 3 calls and a probe, one permit | `SilenceIsTheSites` does not hold |
| `local` | 2 threads, 3 sessions of 1 line, the three stores, restarts; 1 code with 2 attempts | `KeepsLinesAlive` (the refinement), `GoneForGood`, `OneHolder`, `StraysComeOfInterruption`; `GuessesAreBounded`, `OneAtATime` |
| `local_doc` | 2 threads, 3 sessions | `ExpiredIsRefused` does not hold |

Each module's `TypeOK` (`OtpTypeOK` for `OtpSignIn`) is checked with it and says more
than types where a lock or a queue is involved (who is queued is exactly who waits);
runs over several modules check them together (`TablesOK`, `TypesOK`).

**The bounds and why they suffice.** In `routing` the state space is finite by
itself: the tracker's streaks stay under the thresholds. Two requests let one
hold an old list of targets while the other moves the tracker, and thresholds
that differ and exceed 1 tell the streaks from one another and a streak from a
single report. Requests are interchangeable, hence the symmetry. In `replicas`,
`MaxChanges` = 2 gives an outage and a recovery in the middle of a streak, and
`MaxRestarts` = 1 one pod that starts over next to one that does not. In
`admin_session`, `MaxSessions` = 3 lets a session expire, be replaced and expire
again, `MaxRefusals` = 2 lets both calls be refused and refresh side by side or
next to a login. Two calls have one hold the lock and the other wait or come from
a refusal; a third would wait behind the second. A call that needs a session past
the bound can still fail, so the bound hides no call that never ends. In
`contacts_cache` the three coroutines are the holder of a lock, its waiter and
the reader of the other customer that evicts it. `Lock` is large enough that a new
lock object always exists (`CacheAssumption`, which TLC evaluates).

In `caches`, three keys with room for two entries (one, for the counters) are a key
that is evicted, one that stays and one that comes; three account lists are what it
takes for something to be behind an empty oldest entry and in front of the newest. Two
readers overlap in every way two reads can. A lifetime of two units, a retry after one
and a read of at most one tell all three apart. Five entries in pages of two give a
short, a full and an exact last page, two pages side by side, and with `LookupMaxRows`
= 4 a list at its limit and one past it; one change moves every boundary by one entry.
Where the switch keeps to no order, lists of up to three entries (two pages, and one
per set of entries, since a list is then a set) let a page repeat all of the one
before; the theorems have no such bound. `items_per_page` is up to 3 with no more
configured contacts than that (see section 6).

In `requests`, `ApiRequest` needs no bound: paths are finite, and every route,
path, fault, lost answer and deadline is covered. `AdmissionControl` has pools of
three connections, where `inflight_limit` leaves one permit: one request can hold
it while the bodies of two others are streamed and the probe waits. The headroom
rule of larger pools is arithmetic, which `PermitsLemma` proves for every size.

In `local`, three sessions are one that is exchanged and the two that two threads
make of it at once, or a line of two renewals. `Life` 1 and `RenewalLife` 2 let an
access token expire before its refresh token. `MaxLogins` = 1: lines share no key.
`MaxAttempts` = 2 lets a count be read, overtaken and set back twice; the bound
`GuessesAreBounded` states is in terms of the number of threads and of the limit.

Symmetry over requests, keys, readers or threads is used in runs without
liveness only (`routing`, `caches`, `local`).

**Fairness.** `SiteReplicas`: a started monitor ticks for the life of the
process (`_monitor` catches whatever a tick raises), and a probe's calls have
timeouts; requests, restarts and changes of the sites are free to happen or not.
`AdminSession` and `OtpSignIn`: every await of a call ends, since every exchange
has a timeout (`build_httpx_timeout` sets all four) and a permit is given back
after it; nothing makes calls start, deadlines pass or sessions expire, and a call
that could be refused may end with another error instead. `AdmissionControl`: the
same timeouts end an exchange and the wait for a connection, and a permit that is
free goes to the first in line; nothing ends the reading of a streamed body, so
`EveryRequestEnds` holds with bodies that are never read. It is what
`AdminSession` takes for granted of a call that is `ready`. `ContactsCache`: what
is ready runs, which is the event loop's order, and a read ends, which is the
timeouts again. Starting a created task is strongly fair: the model lets new reads
start only while no lock is being handed over, so a task could be passed over for
ever by hand-overs that keep coming, while the loop runs every ready task in turn.
The other modules have only safety properties and no fairness.

`CHECK_DEADLOCK FALSE` is set where a system may stop: a request that has its answer
(`requests`), a list that is read (`caches`), sessions and codes that are used up
(`local`, by `MaxLogins` and the one code).

## 4. What the code does not do

Five runs check a sentence of the repository that the program does not keep:

* `PodsEventuallyAgree` (`failover.py:9`): every replica must use the same site.
  Answers such as "read_only" from main settle nothing: a pod that one refused request
  had moved stays on the standby, a pod that had none stays on main. `PodsConverge` is
  what does hold.
* `PinnedToIssuer` (`admin.py:328-333`): the session an OTP is pinned to is the one
  that is current when the answer of `create_otp` is processed, or none where
  another call has just begun to replace an expired one. The right code is then
  refused. `PinIsNotOutdated` is what does hold.
* `OneReadPerCustomer` (`adapter.py:467`): eviction takes `lock.locked()` for
  "in use", which is false during a hand-over. `EveryReaderEnds` is what does hold.
* `SilenceIsTheSites` (`failover.py:263`): a probe that waits for a permit is ended
  by the poll interval and counts as the silence of a site that was never asked.
  `FullOnlyOfStreams` and `EveryRequestEnds` are what does hold.
* `ExpiredIsRefused` (`types.py:214`): `still_active` compares with the time its
  class was defined. Until the process is restarted an access token is accepted
  whatever its age.

Met while modelling, and stated by the properties that do hold rather than by a run
of their own:

* `test_56_portaswitch_dr_site_monitor.py:9` has the monitor as "the only thing that
  switches" once modes are reported; `_run_probe` does not look at the mode when
  its answer arrives. The move still needs a full run of "normal" reports
  (`ReturnsOnEvidence`).
* `async_http_api.py:424` has logins "serialized per connector"; the login after a
  refused token runs outside the lock (`admin.py:583-587`). `LoginsAreBounded`: one
  login per refused call.
* `adapter.py:3364` drops entries "until the cached row count is back in bounds";
  the loop stops at an oldest entry that is empty (`OverBudgetOnlyBehindEmptyEntry`).
* `_read_callers_waiting` reports "unknown" instead of a confident zero; a request
  that gives up between subscribing and reading again leaves the next one a young
  subscription it takes for an old one (`NoConfidentZero` names the cases).
* A read-only fault after the re-login is raised as it came (`admin.py:587-596`) and
  reaches the client as a generic error, where the same fault in the first attempt
  is a 503 (`admin.py:597-606`).
* `retrieve_contacts_v2` windows the phonebook behind the configured contacts
  (`adapter.py:1719-1722`); with as many of those as `items_per_page` the first entry
  of the phonebook is on two pages (`ListsAreWhole`), with more the offset of a
  later page is negative.
* `MAX_ATTEMPTS` (`otp.py:121`) is "how many times the user can try"; one thread
  compares two codes more than that, the last of which has the code erased if it is
  wrong, and n threads up to `choose(MaxAttempts + 2 + n, n) - 1`
  (`GuessesAreBounded`, `OneAtATime`).
* A failed CRM read is answered with the last address "however old"
  (`adapter.py:3013`), as its documentation says; `OldOnlyBehindFailure` says that
  nothing else brings such an answer about.
* `refresh_session` stores before it deletes, which keeps a line alive but for a stop of
  the process, or a `KeyError` of a file store, between the deletion and the answer: the
  client then holds only the old token (`KeepsLinesAlive` names the cases).
* In Firestore a refresh token lives as long as its access token and five minutes, not
  the 365 days of `REFRESH_TOKEN_EXPIRATION`: `document_ttl` is copied to it unchanged
  (`sessions.py:127`).
* A list longer than a page can be read without some of its entries, as
  `adapter.py:3428-3432` and `1600-1603` say themselves; `MissedForThoseWhoLeft` bounds
  how many, and an email lookup can take an address for unique if another candidate
  came twice.

## 5. Proofs

`SiteRoutingProofs` proves, for every set of requests, all positive thresholds
and all sets of answers (the assumptions `ThresholdsAssumption` and
`AnswersAssumption`, which TLC evaluates in the runs):

| Theorem | Property |
|---|---|
| `TypeCorrect` | `TypeOK`: in particular both streaks stay under their thresholds |
| `TakenAtMostOnce` | `TakenOnce` |
| `LeavesMainOnlyOnEvidence` | `LeavesMainOnEvidence` |
| `ReturnsOnlyOnEvidence` | `ReturnsOnEvidence` |
| `Invariance` | the inductive invariant `IInv` they follow from |

None of the properties is inductive. `IInv` adds two facts to `TypeOK`. First,
the tracker's streaks are backed by what was heard: `normalStreak`, while on the
standby, and `mainDownStreak`, while on main, are at most the runs in `heard`,
and `mainDownStreak` is 0 whenever it is not being counted (reactive, or on the
standby). Without that last part a streak left over from an earlier stay on main
would count towards the next. Second, a request that still has two sites to try
was taken by none: this is why a retry cannot execute it twice. `SiteTrackerProofs`
has one lemma per operator of `SiteTracker`, saying what a result can be;
`SiteRoutingProofs` has a lemma per kind of step that adds `heard`, `StepLemma`
puts the actions together for the invariant and both action properties at once.

`SiteReplicasProofs` proves, for every set of pods, all positive thresholds, all
sets of answers and all bounds on changes and restarts (`ThresholdsAssumption`
and `ReplicasAssumption`):

| Theorem | Property |
|---|---|
| `ReplicasTypeCorrect` | `TypeOK` |
| `SettledPodsFollow` | `SettledPodsFollowTheSites` |

The property says nothing of a pod that has had fewer ticks than `Enough`, so it
is not inductive. Its invariant follows the pod on the way (`OnItsWay`): a pod
that has had n > 0 ticks on settling answers is mode-aware, so that a failed
request does not move it, and is on the site they call for or has a streak of at
least n. A switch-back probe that comes back starts the count of ticks over.
The streak cannot be `Enough` long without having moved the pod
(`TrackerOK`), which is `ArrivedLemma`. `StandbyTickLemma` and `MainTickLemma`
are the steps on the way; `OnePodLemma` reduces every action of one pod to that
pod.

`OtpSignInProofs` proves, for every set of calls and all bounds on sessions and
refusals (`SessionAssumption`), whether logins bring a refresh token or not:

| Theorem | Property |
|---|---|
| `SessionTypes` | `TypeOK` of `AdminSession` |
| `LoginsBounded` | `LoginsAreBounded` |
| `CodeTypes` | `OtpTypeOK` |
| `PinNotOutdated` | `PinIsNotOutdated` |
| `OtpIsAClient` | `OtpSpec => Spec`: what holds of the session holds while codes are made |

`LoginsAreBounded` counts the past and is not inductive: a login under way will be
one more. `LoginsAreAccounted` charges every session that was obtained, every
refresh and the login under way to what pays for it: the first login, a refusal,
a cleared session that is no longer the stored one and, without refresh tokens,
each cleared session once more. Its difficult case is a call that starts a login
(`LoginStartsLemma`): the login is paid for already if there is no good session to
be replaced, and otherwise by the session that this very call clears. It rests on
`CallsOK`: only a login after an expiry may leave its session unstored, and only
where there is no refresh token. `PinIsNotOutdated` follows from the same
fact, that with refresh tokens the stored session is the last one issued.

`LocalSignInProofs` proves, for every set of sessions and threads, all lifetimes,
every limit of attempts and each of the three stores (`SessionAssumption`, and
`AttemptsAssumption` for the codes: the limit is a number and the threads are
finitely many):

| Theorem | Property |
|---|---|
| `SessionTypes` | `TypeOK` |
| `OverIsForGood` | `GoneForGood` |
| `OneHolderOnly` | `OneHolder` |
| `StraysOnlyOfInterruption` | `StraysComeOfInterruption` |
| `LinesAreKept` | `KeepsLinesAlive`: the module implements `SessionService` |
| `Invariance` | the inductive invariant `Inv` they follow from |
| `CodesInTurn` | `OneAtATime` |
| `FewGuesses` | `GuessesAreBounded` |
| `CodeInvariance` | the inductive invariant `CodeInv` of one code |
| `TypesAreSound` | `TypesOK`: the types of sessions and codes together |

*Sessions.* A store call does not say what its operation did before. `Structure` therefore
ties what a thread has left to do to what is in the store of its two sessions:
a session is given out once both its tokens are stored, and reported over once
both are gone. `OneHolder` needs to know of the renewals under way: in a line
nobody contended for, the session that is exchanged is the only one clients can
renew (`OneExchanged`), and one thread exchanges it (`OneExchanges`). The
refinement has one lemma per action (`StoresStep`, `RemovesStep`, `RestartStep`,
...): storing the refresh token is `Renew` or `SignIn` of the service, deleting one
`Retire`, and every other store call is a stutter.

A session that is made is named by its thread alone until its client has it
(`NewLemma`), so an answer that is lost takes just that session with it (`FailsStep`,
`RestartStep`).

*Codes.* `OneAtATime` says nothing of the verification under way. `CodeInv` adds that,
as long as no two threads overlapped (`InTurn`), what the thread at work has read is
what is stored, every wrong code was counted but the one that has the code erased, and
a code good for a session is being erased or gone.

`GuessesAreBounded` is a matter of counting. Each thread is on a level, the number
of attempts it would count from (`Levels`), and how many threads are below each
level is a sequence that never goes down, a *climb* (`Depths`). Climbs are ordered
by the first place where they differ. A wrong code makes its thread pending; once it is
counted, or has had the code erased, its thread is one level up. It may have pulled
others down, since it puts the count back, but none below that, so the climb it leads to
comes before the present one (`CountedLemma`), and no other step leads to a later one
(`HigherLemma`). `Tried`, the invariant, has it that no more wrong codes were tried than
there are climbs after the present one and threads pending; the pending ones have a climb
left each (`RaisedLemma`). That there are `choose(m + n, n)` climbs of m steps up to n
(`ChooseLemma`) takes an induction over both numbers: a set of numbers that has 0
and every successor is all of them by the well-founded order of the numbers
(`AllNumbers`), and `PascalLemma` and the library's factorials are the rest.

`SwitchReadsProofs` proves, for all finite sets of customers and coroutines,
tables and pages of any size, lists of any length and any number of changes, and
all lifetimes (`CacheAssumption`, `LookupAssumption`, `ReadsAssumption`):

| Theorem | Property |
|---|---|
| `CacheTypes` | `TypeOK` of `ContactsCache` |
| `RefreshKeepsItsReference` | `RefreshIsReferenced` |
| `BudgetIsKept` | `OverBudgetOnlyBehindEmptyEntry` |
| `OldBehindFailures` | `OldOnlyBehindFailure` |
| `RefusalsHold` | `LeftAloneAfterFailure`, an action property |
| `TheStalestIsDropped` | `StalestGoesFirst`, an action property |
| `CountersLocksAreBounded` | `LockTableIsBounded` |
| `NoZeroIsConfident` | `NoConfidentZero`, an action property |
| `FewAreMissed` | `MissedForThoseWhoLeft` |
| `StillListsAreWhole` | `ListsAreWhole` |
| `TablesAreSound` | `TablesOK`: the types of the four parts together |
| `Invariance`, `LookupsInvariance`, `QueuesInvariance`, `PagesInvariance` | the inductive invariants `Inv`, `LookupsInv`, `QueuesInv`, `PagesInv` |

*Account lists.* None of the three properties is inductive. `Inv` takes locks and
tasks slot by slot: a coroutine waits for a lock object exactly if it is in its
queue, and reads under it exactly if it is its holder. A lock that the model
takes as new must be one nobody refers to; `SpareLockLemma` counts the locks in
the table and those in use to show that there is one, which is what the
assumption on `Lock` is for. `RefreshIsReferenced` needs its converse, that an
entry of the table is a task of its customer, or the callback of one task could
remove another's. `DroppedLemma` is about the eviction loop as a whole: it stops
within the budget, at one entry or at an empty oldest one.

*Lookups.* An answer is older than its entry by no more than its read took (`Recent`,
`OnTime`), so one that is served within the lifetime of its entry is not old. Beyond
that lifetime it is served behind a failure that was noted, and what is noted of late is
how the last finished read of that key ended (`Backed`). What a failing lookup itself is
given is the entry from before it began (`FallBacks`). That the switch is left alone
after a failure depends on the failure being remembered (`Remembered`): by its
entry, or, where failures have a table of their own, by that table unless it
dropped it, and it drops its first. The tables are in store order (`StoreOrder`:
the ages never rise), so the failures behind one are of others that failed since,
and a failure is dropped only when as many others failed since as the table holds
(`KeysLemma`). `StalestGoesFirst` is `StoreOrder` at an eviction.

*Counters.* `SubscriptionsOK` is the argument of `NoConfidentZero`: a subscription
that has not caught up has its maker inside the lock, about to read again, or had
one that gave up (`orphaned`). Who else reads a number from it is a second reader
under another lock object, after the table was trimmed. `LockTableOK` bounds the
table: a lock that is in use is some request's, and no two customers share one.

*Pages.* In any order a reading brings as many entries as the list has places
(`Counts`), so what it misses is made up by what it brought twice or what has left since.
In one order, `Missed` are the entries that were in the list when the reading began, were
not brought, and are not ahead of it any more. They are no more than the entries that left
(`MissesFew`), since each of these moves one entry over the edge between two pages, and
one that joins moves entries the other way. Of a list that stands still, a first page that
holds all of it is whole in any order (`OnePageWhole`); in one order a reading page after
page has brought its beginning (`SerialWhole`), and the pages read side by side everything
but those to come (`AccountsWhole`).

`AdmissionControlProofs` proves, for every set of requests and probes and pools of
any size (`PoolAssumption`):

| Theorem | Property |
|---|---|
| `PoolTypes` | `TypeOK`: the bounds on permits and connections |
| `RequestsFillNoPool` | `FullOnlyOfStreams` |
| `Invariance` | the inductive invariant `Inv` they follow from |

`PermitsLemma` is the arithmetic of `inflight_limit`: permits and headroom make up
the pool. A request in the queue of a full pool holds a permit, so fewer than
`Permits` others are sent there, and the rest of the connections, more than the
headroom, are streamed or lost (`FullLemma`).

`SequenceLemmas` has what these modules share: what joining the end of a queue,
leaving it at the front or from its middle, and an insertion make of its elements.

Only model-checked:

* Liveness (`PodsConverge`, `EveryCallEnds`, `EveryReaderEnds`,
  `EveryRequestEnds`) is outside the prover's reach.
* The properties of `ApiRequest` (`RefusedUserSignsInAgain`, `SignInAgainIsJustified`,
  `SentOnceOnlyStorageFails`, `OptionalCallsFailNothing`, `RefusalsLeaveNothing`,
  `CarriedOutOnce`, and the types): the module has no constants and its behaviours
  are finite, so the run `requests` already covers every case there is, and a
  theorem would say no more.

## 6. Not modelled

Of the modelled components: the tracker without a probe (the adapter sets both before
it serves a request, `adapter.py:423-431`); calls made outside an event loop; a login
that itself answers a session fault, which would refresh from within the login;
sessions of different lifetimes; the sessions the probes keep (`get_operating_mode`),
whose effect here is an answer or none; the creation of the shared clients and their
closing at the end of the process; the order in which a pool serves its queue; the two
requests of one probe, which are one; two verifications of one PortaSwitch code side
by side, whose outcome is the switch's; the moment between the write of `attempts` to
the shared object and the call of the store that follows it, which are one step (the
store puts the same object back); a store call of the OTP handler that fails; negative
offsets of a phonebook page, which are the switch's too; the search of accounts in
`retrieve_contacts_v2`, whose merge of field queries only estimates a total; the time
range of the call history; the making of a code in `SampleOTPHandler`. The request
deadline is in every module as cancellation at an await. Components with status
`not_modelled` in `PROJECT.json` have their reason there: they translate one layout of
data into another, or are written and not read back.

## 7. Plan

Proofs: every safety property of a module with constants is a theorem. Left is that
the ticks of a pod of `SiteReplicas` are those of `SiteRouting`.

Models: the search of accounts (which contacts a page may miss, and whether the
estimated total ever ends a client's paging early); the connector of the other
adapters (`http_api.py`), whose login is under no lock.
