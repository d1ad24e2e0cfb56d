-------------------------- MODULE SessionLifetime --------------------------
(***************************************************************************)
(* How long Ralf keeps one call: the expiry of its record, the interval    *)
(* and repeat-for of its Chronos timers, and the refreshes of Sprout, in   *)
(* time.  Clocks count down, and time does not pass while something is     *)
(* due.  handle() and on_ccf_response() take no time here and work on one  *)
(* store that does not fail; SessionManager has their interleavings and    *)
(* the failures of stores.                                                 *)
(***************************************************************************)
EXTENDS RfSession, Integers

CONSTANTS
  RefreshTimes,  \* values of Acct-Interim-Interval in a request
  Intervals,     \* values of Acct-Interim-Interval in an answer, 0 if absent
  Latency,       \* the longest time until an ACR is answered or given up
  LongestRefresh,  \* the largest refresh time
  Half,          \* 2^31 in the program
  TimerIds,      \* Chronos timer ids; bounds the number of timers
  Slots,         \* bounds the number of unanswered ACRs
  NoAcr          \* a free slot

\* A refresh time is a positive int, so its double fits into 32 bits.
ASSUME TimeAssumption ==
  /\ RefreshTimes \subseteq 1..LongestRefresh
  /\ LongestRefresh \in Nat \ {0} /\ Half \in Nat /\ LongestRefresh < Half
  /\ Intervals \subseteq Nat
  /\ Latency \in Nat
  /\ NO_TIMER \notin TimerIds

VARIABLES
  call,      \* the call at Sprout
  due,       \* Sprout refreshes the session, or ends it, within this time
  quiet,     \* time since the last request of Sprout, up to Horizon
  record,    \* the stored session with its remaining lifetime
  timers,    \* timers[t]: time to the next pop, interval, rest of repeat-for
  acrs,      \* acrs[a]: an ACR sent and not answered
  billed,    \* the START was accepted and no CDF said it has no such session
  sinceAcr,  \* time since the last ACR, up to the Horizon
  asked,     \* the longest interim interval on_ccf_response came to
  first,     \* the refresh time of the START
  longest,   \* the longest refresh time Sprout announced
  inOrder    \* requests met a session and were answered in the order sent

sprout == <<call, due, quiet>>
ghosts == <<billed, sinceAcr, asked, first, longest, inOrder>>
vars   == <<sprout, record, timers, acrs, ghosts>>

-----------------------------------------------------------------------------

\* After this time nothing is left of a call.
Horizon == Latency + LongestRefresh + 2 * LongestRefresh

NoRecord == [ttl |-> 0, refresh |-> 0, interval |-> 0, timer |-> NO_TIMER]
NoTimer  == [pop |-> 0, interval |-> 0, left |-> 0]

Max(m, n) == IF m < n THEN n ELSE m
Min(m, n) == IF m < n THEN m ELSE n

\* Mutant: the record lives for one refresh time.
LifetimeOnce(refresh) == refresh % (2 * Half)

\* The expiry set_session_data asks for, in 32 bits.
Lifetime(refresh) == (2 * refresh) % (2 * Half)

Acr(type, timer_interim, refresh, interval, timer) ==
  [ type |-> type, timer_interim |-> timer_interim, refresh |-> refresh,
    interval |-> interval, timer |-> timer, wait |-> Latency ]

Sent(acr) == \E a \in Slots : acrs[a] = NoAcr /\ acrs' = [acrs EXCEPT ![a] = acr]

\* handle() for an INTERIM: the record is written back as it was, so it lives for
\* another lifetime, and an ACR is sent; without a record the request is dropped.
HandleInterim(refresh, timer_interim) ==
  \/ /\ record.ttl = 0
     /\ inOrder' = (inOrder /\ timer_interim)
     /\ UNCHANGED <<record, acrs, sinceAcr>>
  \/ /\ record.ttl > 0
     /\ record' = [record EXCEPT !.ttl = Lifetime(record.refresh)]
     /\ Sent(Acr("INTERIM", timer_interim,
                 IF refresh = 0 THEN record.refresh ELSE refresh,
                 record.interval, record.timer))
     /\ sinceAcr' = 0
     /\ UNCHANGED inOrder

-----------------------------------------------------------------------------
(* Sprout and Chronos *)

Start ==
  /\ call = "none"
  /\ \E refresh \in RefreshTimes :
       /\ Sent(Acr("START", FALSE, refresh, 0, NO_TIMER))
       /\ due' = refresh
       /\ first' = refresh
       /\ longest' = refresh
  /\ call' = "active"
  /\ quiet' = 0
  /\ sinceAcr' = 0
  /\ UNCHANGED <<record, timers, billed, asked, inOrder>>

\* An INTERIM of Sprout announces when the next one comes at the latest.
Refresh ==
  /\ call = "active"
  /\ \E refresh \in RefreshTimes :
       /\ HandleInterim(refresh, FALSE)
       /\ due' = refresh
       /\ longest' = Max(longest, refresh)
  /\ quiet' = 0
  /\ UNCHANGED <<call, timers, billed, asked, first>>

\* handle() for a STOP: record and timer are deleted, if there is a record.
Stop ==
  /\ call = "active"
  /\ call' = "ended"
  /\ quiet' = 0
  /\ record' = NoRecord
  /\ timers' = IF record.ttl > 0 /\ record.timer # NO_TIMER
               THEN [timers EXCEPT ![record.timer] = NoTimer]
               ELSE timers
  /\ UNCHANGED <<due, acrs, ghosts>>

\* Sprout fails, or the call ends without a STOP.
Vanish ==
  /\ call = "active"
  /\ call' = "ended"
  /\ UNCHANGED <<due, quiet, record, timers, acrs, ghosts>>

\* A timer pops every interval until repeat-for is over.
Pop(t) ==
  /\ timers[t] # NoTimer
  /\ timers[t].pop = 0
  /\ LET interval == timers[t].interval
     IN timers' = [timers EXCEPT ![t] =
                     IF @.left < interval THEN NoTimer ELSE [@ EXCEPT !.pop = interval]]
  /\ HandleInterim(0, TRUE)
  /\ UNCHANGED <<sprout, billed, asked, first, longest>>

-----------------------------------------------------------------------------
(* SessionManager::on_ccf_response *)

\* Mutant: interval and repeat-for are swapped.
TimerSwapped(interval, repeat_for) ==
  [pop |-> repeat_for, interval |-> repeat_for, left |-> interval]

\* The timer send_post and send_put ask for.
Timer(interval, repeat_for) == [pop |-> interval, interval |-> interval, left |-> repeat_for]

\* send_post: a timer with a new id.
Post(t, interval, repeat_for) ==
  /\ timers[t] = NoTimer
  /\ timers' = [timers EXCEPT ![t] = Timer(interval, repeat_for)]

\* START accepted: a timer if it pops before the refresh, and the session is added.
StoreSession(acr, interval) ==
  \E id \in TimerIds \cup {NO_TIMER} :
    /\ IF NeedsTimer(acr.refresh, interval)
       THEN id # NO_TIMER /\ Post(id, interval, acr.refresh)
       ELSE id = NO_TIMER /\ UNCHANGED timers
    /\ record' = [ ttl |-> Lifetime(acr.refresh), refresh |-> acr.refresh,
                   interval |-> interval, timer |-> id ]

\* INTERIM: the timer is set again, also if it was deleted; a session that had
\* none gets a new one, and update_timer_id writes its id to the record, if any,
\* unless another write comes between.
RenewTimer(acr, interval) ==
  IF acr.timer # NO_TIMER
  THEN /\ timers' = [timers EXCEPT ![acr.timer] = Timer(interval, acr.refresh)]
       /\ UNCHANGED record
  ELSE \E id \in TimerIds :
         /\ Post(id, interval, acr.refresh)
         /\ \/ /\ record.ttl > 0
               /\ record' = [record EXCEPT !.timer = id, !.ttl = Lifetime(record.refresh)]
            \/ UNCHANGED record

\* Mutant: an INTERIM from the timer renews the timer too.
RenewsAlways(acr, rc, interval) ==
  acr.type = "INTERIM" /\ rc # "UNKNOWN_SESSION_ID" /\ NeedsTimer(acr.refresh, interval)

\* Mutant: the timer is renewed after accepted INTERIMs only.
RenewsAccepted(acr, rc, interval) ==
  /\ acr.type = "INTERIM"
  /\ ~acr.timer_interim
  /\ rc = "SUCCESS"
  /\ NeedsTimer(acr.refresh, interval)

\* Only INTERIMs of Sprout renew the timer, accepted or not.
Renews(acr, rc, interval) ==
  /\ acr.type = "INTERIM"
  /\ ~acr.timer_interim
  /\ rc # "UNKNOWN_SESSION_ID"
  /\ NeedsTimer(acr.refresh, interval)

OnCcfResponse(a) ==
  /\ acrs[a] # NoAcr
  /\ acrs' = [acrs EXCEPT ![a] = NoAcr]
  /\ \E rc \in {"SUCCESS", "UNKNOWN_SESSION_ID", "OTHER"}, answered \in Intervals :
       LET acr      == acrs[a]
           interval == EffectiveInterval(answered, acr.interval, acr.refresh)
           stores   == acr.type = "START" /\ rc = "SUCCESS"
           kills    == acr.type = "INTERIM" /\ rc = "UNKNOWN_SESSION_ID"
       IN /\ \/ stores /\ StoreSession(acr, interval)
             \/ kills /\ record' = NoRecord /\ UNCHANGED timers
             \/ Renews(acr, rc, interval) /\ RenewTimer(acr, interval)
             \/ /\ ~stores /\ ~kills /\ ~Renews(acr, rc, interval)
                /\ UNCHANGED <<record, timers>>
          /\ billed' = (~kills /\ (billed \/ stores))
          /\ asked' = IF acr.timer_interim THEN asked ELSE Max(asked, interval)
          /\ inOrder' = (/\ inOrder
                         /\ acr.timer_interim \/ \A b \in Slots \ {a} :
                              \/ acrs[b] = NoAcr
                              \/ acrs[b].timer_interim
                              \/ acrs[b].wait > acr.wait)
  /\ UNCHANGED <<sprout, sinceAcr, first, longest>>

\* A node fails and its answers are lost, before on_ccf_response or after it had
\* Chronos set a new timer and before anything was stored.
Crash(a) ==
  /\ acrs[a] # NoAcr
  /\ acrs' = [acrs EXCEPT ![a] = NoAcr]
  /\ \/ UNCHANGED timers
     \/ /\ ~acrs[a].timer_interim
        /\ acrs[a].timer = NO_TIMER
        /\ \E t \in TimerIds, answered \in Intervals :
             LET interval == EffectiveInterval(answered, acrs[a].interval, acrs[a].refresh)
             IN NeedsTimer(acrs[a].refresh, interval) /\ Post(t, interval, acrs[a].refresh)
  /\ inOrder' = (inOrder /\ acrs[a].timer_interim)
  /\ UNCHANGED <<sprout, record, billed, sinceAcr, asked, first, longest>>

-----------------------------------------------------------------------------
(* Time, and the specification *)

\* Nothing that happens at a certain time is still to happen.
NothingDue ==
  /\ call = "active" => due > 0
  /\ \A t \in TimerIds : timers[t] # NoTimer => timers[t].pop > 0
  /\ \A a \in Slots : acrs[a] # NoAcr => acrs[a].wait > 0

\* One unit of time passes.
Tick ==
  /\ NothingDue
  /\ due' = Max(due - 1, 0)
  /\ quiet' = Min(quiet + 1, Horizon)
  /\ sinceAcr' = Min(sinceAcr + 1, Horizon)
  /\ record' = IF record.ttl <= 1 THEN NoRecord ELSE [record EXCEPT !.ttl = @ - 1]
  /\ timers' = [t \in TimerIds |->
                  IF timers[t] = NoTimer THEN NoTimer
                  ELSE [timers[t] EXCEPT !.pop = @ - 1, !.left = @ - 1]]
  /\ acrs' = [a \in Slots |->
                IF acrs[a] = NoAcr THEN NoAcr ELSE [acrs[a] EXCEPT !.wait = @ - 1]]
  /\ UNCHANGED <<call, billed, asked, first, longest, inOrder>>

Init ==
  /\ call = "none"
  /\ due = 0
  /\ quiet = 0
  /\ record = NoRecord
  /\ timers = [t \in TimerIds |-> NoTimer]
  /\ acrs = [a \in Slots |-> NoAcr]
  /\ billed = FALSE
  /\ sinceAcr = 0
  /\ asked = 0
  /\ first = 0
  /\ longest = 0
  /\ inOrder = TRUE

Next ==
  \/ Start
  \/ Refresh
  \/ Stop
  \/ Vanish
  \/ \E t \in TimerIds : Pop(t)
  \/ \E a \in Slots : OnCcfResponse(a) \/ Crash(a)
  \/ Tick

Spec == Init /\ [][Next]_vars

-----------------------------------------------------------------------------
(* Properties *)

Clock == 0..Horizon

TimerType == [pop : Nat, interval : Nat, left : 0..LongestRefresh]

RecordType == [ ttl : 1..(2 * LongestRefresh), refresh : RefreshTimes, interval : Nat \ {0},
                timer : TimerIds \cup {NO_TIMER} ]

AcrType == [ type : {"START", "INTERIM"}, timer_interim : BOOLEAN, refresh : RefreshTimes,
             interval : Nat, timer : TimerIds \cup {NO_TIMER}, wait : 0..Latency ]

\* A free slot is not an ACR.
ASSUME SlotAssumption == NoAcr \notin AcrType

\* Clocks stay within their ranges: no timer pops after its repeat-for, no answer
\* comes after its time.
TypeOK ==
  /\ call \in {"none", "active", "ended"}
  /\ due \in 0..LongestRefresh
  /\ quiet \in Clock
  /\ sinceAcr \in Clock
  /\ asked \in Nat
  /\ first \in 0..LongestRefresh
  /\ longest \in 0..LongestRefresh
  /\ billed \in BOOLEAN
  /\ inOrder \in BOOLEAN
  /\ record \in RecordType \cup {NoRecord}
  /\ timers \in [TimerIds -> TimerType]
  /\ acrs \in [Slots -> AcrType \cup {NoAcr}]
  /\ \A t \in TimerIds : timers[t] # NoTimer =>
       timers[t].interval > 0 /\ timers[t].pop <= timers[t].left

\* The expiry of the record is computed from the refresh time of the START, which
\* later requests do not change.  As long as Sprout refreshes a billed call within
\* the time it announced last, the record does not expire if no announced time is
\* as long as that expiry, or if the CDF asks for records more often than that: the
\* INTERIMs of the timer then keep the record.
KeptWhileActive ==
  /\ call = "active" /\ billed
  /\ longest < 2 * first \/ (inOrder /\ asked + Latency < 2 * first)
  => record.ttl > 0

\* Nothing is left of a call that has been quiet for the Horizon, whether its STOP
\* was missing, overtook the START or was overtaken by an answer that set the timer
\* again: INTERIMs of a timer prolong the record but never the timer.
EndedCallFades ==
  quiet = Horizon => record = NoRecord /\ \A t \in TimerIds : timers[t] = NoTimer

\* Accounting-Interim-Interval: the CDF of a billed call gets a record at least
\* every interval it asked for, from Sprout or from the timer, give or take the
\* time of an answer, if requests were answered in order and the record lasts as
\* in KeptWhileActive.
IntervalKept ==
  /\ call = "active" /\ billed /\ inOrder
  /\ longest < 2 * first \/ asked + Latency < 2 * first
  => sinceAcr <= asked + Latency
=============================================================================
