# Verification of Ralf

Ralf is the Clearwater node that turns HTTP billing requests into Diameter Rf
accounting requests (ACRs). This directory holds TLA+ models of its code, the TLC
runs that check them and the proofs that TLAPS checks. Paths below are relative
to the repository's root; `PROJECT.json` lists runs, source lines, hazards,
findings and theorems in machine-readable form.

## The system

| Part | Source | State it changes | Modelled in |
|---|---|---|---|
| main | `src/main.cpp` | options, objects, threads, the semaphore | `RalfMain`, `RalfOptions` |
| BillingTask, BillingHandler | `src/handlers.cpp`, `include/handlers.hpp` | the Message, the HTTP reply | `BillingTask` |
| Message | `src/message.cpp`, `include/message.hpp` | fields, ownership of the JSON body | `SessionManager`, `BillingTask` |
| SessionManager | `src/session_manager.cpp` | store records, timers, ACRs sent | `SessionManager`, `RfSession`, `SessionLifetime` |
| SessionStore | `src/session_store.cpp`, `include/session_store.h` | one record per (call id, role, function) and site | `SessionStore`, `SessionMap` |
| PeerMessageSender, factory | `src/peer_message_sender.cpp` | `_which`, the open transaction | `PeerMessageSender` |
| RalfTransaction | `src/ralf_transaction.cpp` | ends a transaction | `PeerMessageSender` |
| Rf dictionary, AccountingRequest | `src/rf.cpp`, `include/rf.h` | the AVPs of an ACR | `AccountingRequest` (partly) |
| memcached, Chronos, freeDiameter, the CDF (CCFs), Sprout | external | | from their use in the code |

A request travels like this. An HTTP thread runs `BillingTask::run`, which parses
the body and gives a Message to `SessionManager::handle`. For an INTERIM or a STOP
this reads the session from the local store, or else from a remote site's, takes
the next record number, and updates (INTERIM) or deletes (STOP) the session
everywhere. The ACR goes to the CCFs of the session's list, one after another
until one answers. A Diameter thread then runs `on_ccf_response`: an accepted START
creates a Chronos timer and stores the session, an INTERIM from Sprout renews the
timer, and a 5002 deletes the session. When the timer pops, Chronos posts an
INTERIM to Ralf. Many requests for one call can be in progress, in several Ralf
nodes and sites. They share nothing but the stores and Chronos, and no step
spans two calls to these: that is where the difficulty lies.

## Modules

* `RfSession`: the session record and the pure decisions on it (next number,
  effective interval, whether a timer is needed, expiry).
* `SessionManager`: the core. Every Message `m` is a process; `pc[m]` names the
  external call its thread makes next, and each such call is one action, together
  with everything the code does up to the next one. `held[m]` is `sess` (with its
  `_cas`), later the fields copied into the Message; `copy[m]` is `remote_sess`, or
  `sess` of `update_timer_id`; `fresh[m]` is `new_session`; `idx[m]` is the store
  iterator. `store[s]` is the record at a site with its CAS, `timers` the Chronos
  timers, and `acrs` the history of ACRs sent.
  `handle`: `First`, `Ongoing`, `TimerPop` (arrival), `Lookup`, `Write`, `SyncRead`,
  `SyncWrite`, `Remove`, `RemoveRemote`, `Cancel`, `Send`. `on_ccf_response`:
  `OnCcfResponse`, `Post`, `Put`, `Update`, `RetimeRead`, `RetimeWrite`, `Kill`,
  `HealthCheckPassed`. Environment: `Crash`, `TimerExpires`, `Lose`.
* `RecordNumbers`, `SiteCopies`: the inductive invariants behind the record numbers of
  one site and behind the copies and numbers of a session at several sites.
* `RepositoryClaims`: a statement of a test that the code does not keep.
* `SessionLifetime`: one call in time. `handle` and `on_ccf_response` take no time and
  meet a store that does not fail; a node may fail and lose an answer (`Crash`), and
  `update_timer_id` may lose to another write. Clocks count down the record's expiry,
  each timer's next pop and repeat-for, each unanswered ACR's latency and Sprout's
  announced refresh.
* `SessionMap`: what `SessionStore` promises, a map from calls to sessions that only
  the holder of the current session can change safely; calls of one key share their
  session. `SessionStore`: how it does
  so, with keys as sequences of characters, JSON documents as records of typed
  values, CAS values, and `uint32_t` fields that pass through `int`.
* `AcrDelivery`: the abstract promise of ACR delivery, that `on_ccf_response` is
  called once for every message. `PeerMessageSender`: failover over the CCF list with
  late, lost and refused ACRs; it implements `AcrDelivery`.
* `AccountingRequest`: the AVPs made of the members of an event, one member after the
  other. `BillingTask`:
  parsing, with the timer-interim parameter, ownership of task, message, body and
  sender, and the ACR, on top of `AcrDelivery`. `TimerRequest` is what Chronos sends
  when a timer pops: the callback URI and `create_opaque_data`.
* `RalfOptions`: `long_opt`, `getopt_long` and the two passes over `argv`. `RalfMain`:
  `main()` as the sequence `Main` of its steps, one action per kind of step, with the
  threads of the four parts it starts (HTTP, Diameter, realm manager, health
  checker), SIGTERM, faults and the exception handler. `Holds` says which object was
  given which, `Uses` what a thread can thereby reach.
* `SessionManagerProofs`, `RecordNumberProofs` and `SiteCopiesProofs` (both extending it),
  `SessionStoreProofs`, `SessionLifetimeProofs`, `PeerMessageSenderProofs`,
  `BillingTaskProofs`, `RalfMainProofs`: the proofs.
* `MC...`: instances for TLC. `MCRalfMain` also states what `usage()` says.

Operators whose comment starts with "Mutant:" are wrong variants of the definition
after them, and no specification uses them. `PROJECT.json` pairs each with the
property that notices the mistake.

### What is assumed of external parts

* Store: a write must name the CAS of the record, 0 if there is none; an expiry
  of 0 leaves no record. `get_session_data` returns no session when the store is
  in error. A store in `Unreliable` may answer ERROR to any call, having done the
  write or not; one in `Lossy` may lose its record at any time, which stands for
  expiry, eviction and restarts. `SessionStore` also has records that something else
  has written (`Foreign`).
* The answer to a CAS write of a record that is absent is a constant,
  `CasMissStatus`, because this repository does not determine it, and it matters.
  With DATA_CONTENTION, numbers are unique at a single site but a STOP of a session
  that only a remote store has is retried for ever (`geo_stop_retry`). With ERROR
  every request ends (`geo_live`), but an INTERIM that loses to a STOP is not
  retried and is billed with the STOP's number. Neither answer gives both.
* Chronos: a POST makes a new timer, a PUT sets the timer again even if Chronos no
  longer has it and may return another id, and requests may fail. Pops go to any
  front site. In `SessionLifetime` a timer pops every interval as long as repeat-for
  lasts.
* Diameter: a transaction ends with one answer or one timeout. The ACR may reach
  the CCF after the timeout. A CCF knows the sessions whose START it has accepted. An
  answer without a Result-Code counts as an error (`on_response` takes it for 0); every
  answer has the Session-Id, which RFC 6733 makes its first AVP. A negative number does
  not fit an Unsigned32 AVP.
* Stacks, realm manager and health checker: their threads may use what they can
  reach until `stop` and `wait_stopped` have returned. The exception handler takes a
  faulting thread of a stack out of its work and exits the process later.
* Sprout, in `SessionLifetime`: it sends its next request within the refresh time it
  announced last; refresh times are positive and below 2^31 (`TimeAssumption`).

## Runs

| Run | Instance | Shows |
|---|---|---|
| `single_site` | 4 requests, 1 lossy store, threads may crash | types; unique, dense numbers; STOP highest; a stopped session stays gone; no lost update |
| `geo_faults` | 3 requests, 2 sites, an unreliable lossy store, failing Chronos, refresh times 0 and 2 | only accepted sessions are stored; sites agree on CCFs, refresh time and interval; the first record has the lowest number; no lost update; only Sprout's requests set timers |
| `geo_live` | 3 requests, 2 sites, lossy local store, ERROR for absent records | every request is dealt with |
| `session_store` | 2 callers, 3 calls, of which 2 have one key, 2-bit integers, 4 foreign documents | implements `SessionMap`; what is read back is a session |
| `lifetime` | refresh times 2 and 4, intervals 0, 1 and 3, latency 1, two timers, two open ACRs, failing nodes | the record lasts while Sprout refreshes; nothing is left after the Horizon; the CDF hears of the call in time |
| `failover` | 2 requests, 1 or 2 CCFs that may be down | implements `AcrDelivery`; the stored Session-Id is open at a CCF of the list; delivery is given up after the last CCF |
| `handler` | 1 request with or without timer-interim, every combination of missing members, 12 lists of further members, with literals, unknown names, values that do not fit, a name given twice and a name of Ralf's own | objects are owned, one HTTP answer, API kept, timer pops come back as the timer's INTERIMs, the ACR mirrors the event |
| `lifecycle` | 5 command lines, 2 HTTP workers, 2 SIGTERMs, failing starts and stops, faults | options have the values given last and limits of the load monitor are positive, the semaphore is usable, no use after delete, threads joined, SIGTERM ends the process |
| `geo_stop_retry` | 2 requests, 2 sites | violated: see above |
| `claim_stop_stores` | 2 requests, 2 sites | violated: START's remote write after the STOP's delete |
| `claim_unknown_session` | 2 requests, 2 CCFs | violated: the CCF that missed the START answers 5002 |
| `claim_acr_logging` | the init script's command line | violated: an option swallows the next |

Bounds. `Msgs` bounds the requests: four is a START, two racing later requests
and one more that arrives after them; three suffice where sites are added, since a
race takes a START and two others. `TimerIds` bounds the timers; when used up, a
POST fails in `SessionManager`, which the code handles, and is not possible in
`SessionLifetime`. Refresh time 2 with interval 1 needs a timer
and refresh time 0 leaves it to the stored one; interval 0 is an answer without
the AVP. CAS values and record numbers of `SessionManager` need no bound: a request
that is retried has not written. `MaxCas` allows two writes to the records of
`session_store`, one before a caller reads, one between its read and its write; with
`Half = 2` fields wrap after four values, and the expiry too. The calls of `session_store`
are the two sides of a call at an ATCF (function 15) and a call whose key is that of
one of them. In `lifetime`, refresh time 4 is as long as the record of a START with 2
lasts, so that only pops of the timer can keep it; interval 3 is between the two
and 1 below both; `Slots` allows two unanswered ACRs, and `Half = 5` is the smallest
the assumption allows. In `lifecycle` two SIGTERMs are one before and one
after `sem_wait`; `MaxAcrs` is 1 because one answer in flight is enough to have the
Diameter thread call into the session manager during shutdown. Requests, callers and
timers are interchangeable, so safety runs use symmetry in them; the liveness runs do
not. `handler` has one request because requests share no objects.

Fairness. `SessionManager!FairSpec` is weak fairness of each request's own thread:
HTTP and Diameter threads run on, calls to stores and Chronos return, and every
transaction is answered or times out (`diameter_timeout_ms`). It assumes nothing
of requests, pops, losses or crashes, and no order between threads. The senders' and
the tasks' fairness is the same. `RalfMain!FairSpec` is weak fairness of the main
thread and of every thread's finishing what it has begun: an HTTP thread ends its
request. That is what `geo_live` shows; where it fails (`geo_stop_retry`), `wait_stopped`
does not return, and `TermEnds` does not hold either. It does not ask that a stack
stops without an exception, nor that signals come. Every specification that ends
has a step `Rest`, enabled only when everything is dealt with or the process is
over, so a deadlock would be real.

## Proofs

All theorems are for every value of the constants that satisfies the named
assumptions of their module. TLC checked each invariant on a run's instance
before it was proved. Assumptions about values without code behind them only say that
"none" is none: no message, ACR or member of a body is the value for its absence
(`ValueAssumption`, `AbsentAssumption`, `MessageAssumption`, `SlotAssumption`), and no HTTP
worker is a thread of another part (`MainAssumption`). `OptionAssumption` says that no option
is written as nothing and that `atoi` returns an integer, `ArgvAssumption` that a command line
is a sequence, `DictionaryAssumption` that Accounting-Record-Type is in the dictionary. A leaf that needs no arithmetic names
Zenon: tlapm's translation for the SMT solver slows down with every obligation of a
module, and Zenon's does not.

`SessionManagerProofs`: `TypeCorrect`, `Spec => []TypeOK`. `TypeOK` includes that no
store iterator leaves its list. It becomes inductive with one more fact: a request
that has not arrived has its iterator at the local store. `TimersSetBySprout`,
`Spec => OnlySproutSetsTimers`, an action property, needs `SetsTimers`: what is about to
POST a timer is a START, what is about to set one again is no INTERIM of the timer, and
only INTERIMs come from timers.

`RecordNumberProofs`: `UniqueAcrs`, `StopIsHighest`, `StoppedStaysGone` and `DenseNumbers`
for any number of requests and timers, under `SingleSite`: no remote stores, no store
errors, and contention as the answer to a CAS write of an absent record. Stores may
lose records, threads may crash and Chronos may fail. None of these is inductive, as
they speak only of ACRs already sent and of sessions already stopped. `NumberInv` adds
what links them to the store: a request between read and write holds the number after
the stored one whenever its CAS is still current (`Readers`); `update_timer_id` writes
back the number it read (`Retimers`); CAS values are never used twice and a stored
session belongs to a START past its only write (`StoredRecords`), so a lost
session is not stored again; the numbers of requests past their write are distinct
and at most the stored one (`Owners`, `Distinct`). Each action has a lemma, and the
actions that do not touch numbers share `NumbersKept`. `DenseNumbers` follows from `Dense`:
the stored number was taken by a request of the session (`Taken`), and so was every
number below one that was taken. A number is only taken as the
stored one plus one, and a request keeps the one it has.

`SiteCopiesProofs`: `OnlyAcceptedSessions`, `SitesAgree` and `NoLostUpdate` for any
number of sites, stores in any order, ERROR answers, losses, crashes and either
`CasMissStatus`. `CopyInv` says that every session anywhere, in a store, in `held` or in
`copy`, is `Genuine`: it has the CCFs, refresh time and interval of a START that was
accepted, which never change again, whatever its number is. For
`NoLostUpdate` it says that what is held under a CAS that is still current has the
stored session and a number not below it. `Moves` and `MoveKeepsCopies` reduce an
action to what it does at one site.
`FirstLowest` (`FirstIsLowest`) is the part of the order of numbers that several sites and
stores in error leave: `UniqueAcrs` fails there, but no later record can take the number
of the START. The invariant is `CopyNumbers`: every stored number, and every copy on its
way to a store, is at least 1; a START or EVENT has number 1 and a later request, from its
lookup on, a higher one; and an ACR says what its request still holds. It needs `CopyInv`
for which requests can be at which step. `KeepsNumber` and `NumberKept` reduce an action
to what it does to the number of its request.

`SessionStoreProofs`: `KeysDiffer` says for which calls the key, in which `create_key` uses
no separators, determines the call: two different calls have one key exactly if one
`RunsInto` the other. Functionalities have one digit or two, so keys are told apart by
their last two or three characters, except for a two-digit functionality whose first
digit passes for the role of a call with a longer id. `DevicesApart`: calls with the same id
and different role or functionality have different keys. `RoundTrip` (what
is serialised is read back, also above 2^31), `TypeCorrect`, and `StoreIsMap`, that
`SessionStore` implements `SessionMap`, one lemma per operation. `StoreAssumption` is that
`std::to_string` gives the decimal digits of the numbers that `message.hpp` enumerates.

`SessionLifetimeProofs`: `TypeCorrect`, `ActiveCallKept` (`KeptWhileActive`),
`QuietCallFades` (`EndedCallFades`) and `CdfIntervalKept` (`IntervalKept`). `LifeInv` adds that time since Sprout's last request
plus what remains of each clock is bounded: unanswered requests of Sprout by
`Latency`, timers by one more refresh time, the record by two more (`Fades`); and that
Sprout's next request comes before the record expires if every refresh time is shorter
than the record of the START lasts (`Keeps`), which is twice the refresh time of the START
whenever it is written (`OfFirst`). For `IntervalKept`, `IntervalInv` says what covers the time to the next
ACR. While an answer to Sprout is awaited it is `Latency` (`Recent`), and Sprout's next
request comes within the refresh time of that ACR (`InTime`). Afterwards it is either
Sprout's next request or a timer that pops in time and goes on until that request
(`Covered`). Nothing else of a call is there before its START is answered (`Starting`).
If a refresh time is longer than the record lasts, the two properties need each other: the
record was written no earlier than the last ACR was sent (`Aged`), so it is there
(`Stays`) as long as ACRs come in time, and as long as it is there they do.

`PeerMessageSenderProofs`: `TypeCorrect`, `StoredIdIsOpen` (`SessionIsOpen`), `TriesAll`
(`GivesUpLast`) and `ImplementsDelivery`, that every step is a step of `AcrDelivery` or a
stutter. `SenderInv` adds that an ACR on its way is an attempt of its request, with that
attempt's CCF and Session-Id (`Attempt`), that an id a START was accepted with is open at
a CCF of the list until it is stored (`AcceptedIsOpen`), and that a later request names
a session whose START is over (`Asks`), so that no STOP closes an id before it is stored.

`BillingTaskProofs`: `TypeCorrect`, `ObjectsOwned` (`ObjectsAreOwned`), `CcfThere`
(`AcrHasCcf`), `ApiKept` (`ApiIsKept`), `TimerPopsTaken` (`TimerPopsAreInterims`), and
`UsesDelivery`, that every step is a step of `AcrDelivery` or a stutter. `TaskInv` says
which objects live in each combination of the two threads' states (`Owned`), that the
message is the one `parse_body` makes of the body, but for CCFs and refresh time that come
from the stored session (`Progress`), and that the reply is the one of that path (`Replied`).
`AcrsMirrorEvents` (`AcrMirrorsEvent`) is for events of any length. `AcrOfBody` says that an
ACR sent is `Request` of the event in the body. `RequestMirrors` shows by induction over the
members what `Request` gives: an ACR has AVPs of a name in a row if one member alone
has that name, because other members add none of it (`MirrorKept`) and the member itself
adds its values at the end (`MirrorAdded`).

`RalfMainProofs`: `TypeCorrect`, `SemaphoreThere` (`SemaphoreUsable`), `NoneUsedAfterDelete`
(`NoUseAfterDelete`) and `AllJoined` (`ThreadsJoined`) for any number of HTTP workers,
signals and ACRs. The argument is about places in `Main`: `MainBlocks`, `Where` and
`PartSteps` establish at which of the 74 steps a part is started and waited for, when
SIGTERM is caught and where deleting begins; `UsesMade`, that whatever a part's threads can
reach has been made before they start. `MainInv` says what holds between two such
places: the semaphore is there from step 2 to 73 and SIGTERM caught from 3 to 72
(`Signalled`); what has been made is there until the first delete (`Exists`); a part runs
from its start to its `wait_stopped` unless an exception was caught (`Runs`); threads work
for parts that run, and a Diameter thread has work only once the HTTP stack, which
everything it reaches precedes, was started (`Works`).
`LimitsArePositive` (`LimitsPositive`) and `OptionsTaken` (`OptionsAsGiven`) are for command lines
of any length. `OptionsInv` says what each pass has established: limits are defaults or
positive, the logging options have the values given last after `init_logging_options`, and all
options after `init_options`, without which there is no load monitor. The work is
in what `getopt_long` returns: a sequence of results (`GetoptType`), which for a command
line as `long_opt` declares it has the options in their order, one result each
(`DeclaredResults`), so that the last result of an option is its last occurrence.

Both need induction over data. It is done with sets: `LeastNumber`, that a set of numbers
that is not empty has a least element, follows from the library's theorem about
well-founded relations, and `Induction` from that. The recursive functions in `Request`
and `getopt_long` are shown to exist, and so to satisfy their equations, in the same way
(`RequestRecursion`, `GetoptRecursion`).

Only model-checked: liveness (`Handled`, `Settles`, `TermEnds`, and the fairness part of
`Delivers`), which is out of the prover's reach. Every safety property that a passing run
checks is a theorem.

## Findings

`PROJECT.json` quotes the lines. In short:

* A STOP does not remove the session from all stores when it overtakes a START's
  remote writes (`claim_stop_stores`).
* A 5002 from a CCF that never saw the session deletes it although the backup has it
  (`claim_unknown_session`).
* A STOP of a session found remotely uses that store's CAS on the local store
  (`geo_stop_retry`).
* `--http-acr-logging` is declared with a required argument that neither `usage()` nor
  the init script gives it, so with ACR logging on the billing realm is swallowed
  (`claim_acr_logging`).

Limits of the properties that hold:

* With several sites, or when a store answers ERROR, record numbers are not unique:
  the code passes over every failure other than contention, so `UniqueAcrs` is a
  property of single sites only and `FirstIsLowest` is what is left of it. Numbers may also
  be skipped: an INTERIM that increments a remote copy which another INTERIM has meanwhile
  made from the local one counts twice there. For the same reason the copies of a session may hold
  different record numbers, even if nothing fails; `SitesAgree` is about the rest.
* The answer to an INTERIM may set the timer again after the STOP cancelled it, and
  pops then find no session. `EndedCallFades` bounds how long.
* `IntervalKept` is for calls whose requests met a session and were answered in the
  order they were sent (`inOrder`). An answer that overtakes a later one leaves the
  timer with the older refresh time, and an INTERIM that comes before the answer to
  its START is dropped and renews nothing.
* `KeptWhileActive` has a condition: the record's expiry comes from the refresh time of
  the START, and a later, longer refresh time does not change it. The record is kept if
  every refresh time is less than twice the first one, or if the CDF's interval and a
  latency are: the timer's INTERIMs then prolong the record. A START with 300 and an INTERIM
  with 600 seconds, as in `src/ut/test_session_manager.cpp:247`, need an interval below 600.
  If neither is the case the record may expire between two refreshes, and the next
  INTERIM is dropped. `IntervalKept` has the same condition.
* `create_key` joins call id, role and function without separators, so different calls can
  have one key: call `x` with role 1 and function 15 (ATCF) and call `x1` with role 1 and
  function 5 (BGCF) read, replace and delete each other's session. `IsMap` lets exactly these
  calls share a session, and `KeysDiffer` says that there are no others among the
  enumerated roles and functions. `parse_body` casts any integer to the enumerations;
  for the others nothing is claimed but that calls with different keys are apart.
* `NoUseAfterDelete` and `ThreadsJoined` are for shutdowns in which no stack threw an
  exception: `main` logs it and deletes the objects all the same.

## Not modelled

* `start_signal_handlers()` (`src/main.cpp:624`), which is external, and its threads; it is given
  no object of `main`.
* How `main` chooses the address and callback URI of Chronos
  (`src/main.cpp:749-795`): texts, without state.
* `AccountingResponse`, whose constructor only tests use; `BillingHandler::sas_logger`, which
  chooses a logger.
* SAS events, logs, alarms, access logs; packaging and scripts, but for the command
  line of `debian/ralf.init.d`.
* Wrap-around of the record number in `SessionManager` (it is in `SessionStore`), and what
  becomes in time of a negative Acct-Interim-Interval, which `src/handlers.cpp:178` turns into
  a large one (that conversion is in `BillingTask`).
* The `sess` object leaked when `handle` starts again.
* Time together with interleavings: `SessionLifetime` has time and no failures of stores,
  `SessionManager` lets records and timers expire at any moment. Together they are out
  of TLC's reach.
