----------------------- MODULE SessionLifetimeProofs -----------------------
(***************************************************************************)
(* KeptWhileActive, EndedCallFades and IntervalKept for any refresh times, *)
(* intervals and latency.                                                  *)
(***************************************************************************)
EXTENDS SessionLifetime, TLAPS

\* Each clock of a call leaves enough room for what may still follow it: an
\* unanswered request may set a timer, a timer may prolong the record.
Fades ==
  /\ record # NoRecord => quiet + record.ttl <= Horizon
  /\ \A t \in TimerIds : timers[t] # NoTimer => quiet + timers[t].left <= Latency + LongestRefresh
  /\ \A a \in Slots : acrs[a] # NoAcr =>
       /\ acrs[a].timer_interim => acrs[a].type = "INTERIM"
       /\ ~acrs[a].timer_interim => quiet + acrs[a].wait <= Latency

\* If no refresh time is as long as the lifetime of the record, Sprout's next
\* request comes before the record expires.
Keeps ==
  call = "active" =>
    /\ due <= longest
    /\ billed /\ longest < 2 * first => due < record.ttl

\* The record has the refresh time of the START.
OfFirst ==
  /\ record # NoRecord => record.refresh = first
  /\ \A a \in Slots : acrs[a] # NoAcr /\ acrs[a].type = "START" => acrs[a].refresh = first

\* Before the START there is nothing of the call.
Idle ==
  call = "none" => ~billed /\ record = NoRecord /\ \A a \in Slots : acrs[a] = NoAcr

LifeInv == TypeOK /\ Fades /\ Keeps /\ Idle /\ OfFirst

-----------------------------------------------------------------------------
(* Arithmetic *)

\* Refresh times are positive and doubling them does not overflow.
LEMMA RefreshType ==
  ASSUME NEW refresh \in RefreshTimes
  PROVE  /\ refresh \in Nat /\ 0 < refresh /\ refresh <= LongestRefresh
         /\ Lifetime(refresh) = 2 * refresh
         /\ Lifetime(refresh) \in 1..(2 * LongestRefresh)
<1>1. refresh \in Nat /\ 0 < refresh /\ refresh <= LongestRefresh
  BY TimeAssumption
<1>2. 2 * refresh \in Nat /\ 2 * refresh < 2 * Half /\ Half \in Nat
  BY <1>1, TimeAssumption
<1>3. (2 * refresh) % (2 * Half) = 2 * refresh
  BY <1>2
<1>. QED  BY <1>1, <1>3, TimeAssumption DEF Lifetime

\* The interval on_ccf_response works with is positive.
LEMMA IntervalType ==
  ASSUME NEW answered \in Intervals, NEW stored \in Nat, NEW refresh \in RefreshTimes
  PROVE  EffectiveInterval(answered, stored, refresh) \in Nat \ {0}
BY RefreshType, TimeAssumption DEF EffectiveInterval

\* What fits below a bound also fits if it is shorter.
LEMMA Shorter ==
  ASSUME NEW q \in Nat, NEW m \in Nat, NEW n \in Nat, NEW h \in Nat, q + n <= h, m <= n
  PROVE  q + m <= h
OBVIOUS

\* Twice a positive time is positive, and no longer than with another added.
LEMMA Twice ==
  ASSUME NEW m \in Nat, 0 < m, NEW n \in Nat
  PROVE  2 * m > 0 /\ 2 * m <= 2 * m + n
OBVIOUS

\* The Horizon is a time.
LEMMA HorizonType == Horizon \in Nat /\ Horizon = Latency + 3 * LongestRefresh
BY TimeAssumption DEF Horizon

-----------------------------------------------------------------------------
(* Steps of Sprout, of timers and of answers *)

\* Facts about a typed state.
LEMMA Typed ==
  ASSUME LifeInv
  PROVE  /\ record \in RecordType \cup {NoRecord}
         /\ record # NoRecord => record.ttl \in Nat /\ 0 < record.ttl
         /\ record.ttl \in Nat
         /\ record.ttl > 0 => record \in RecordType
         /\ quiet \in Nat /\ quiet <= Horizon
         /\ due \in Nat /\ due <= LongestRefresh
         /\ first \in Nat /\ longest \in Nat
         /\ timers \in [TimerIds -> TimerType]
         /\ acrs \in [Slots -> AcrType \cup {NoAcr}]
BY HorizonType, TimeAssumption DEF LifeInv, TypeOK, Clock, RecordType, NoRecord

\* A new ACR has the type of one and its full time to wait.
LEMMA AcrTyped ==
  ASSUME NEW type \in {"START", "INTERIM"}, NEW timer_interim \in BOOLEAN,
         NEW refresh \in RefreshTimes, NEW interval \in Nat, NEW timer \in TimerIds \cup {NO_TIMER}
  PROVE  /\ Acr(type, timer_interim, refresh, interval, timer) \in AcrType
         /\ Acr(type, timer_interim, refresh, interval, timer).wait = Latency
         /\ Acr(type, timer_interim, refresh, interval, timer).type = type
         /\ Acr(type, timer_interim, refresh, interval, timer).timer_interim = timer_interim
BY TimeAssumption DEF Acr, AcrType

\* handle() for an INTERIM renews the record and adds an ACR, or does nothing.  It
\* needs that there is time left for the record.
LEMMA HandleFine ==
  ASSUME LifeInv, NEW refresh \in RefreshTimes \cup {0}, NEW timer_interim \in BOOLEAN,
         HandleInterim(refresh, timer_interim),
         quiet' \in Clock, quiet' + 2 * LongestRefresh <= Horizon, quiet' <= quiet,
         timer_interim \/ quiet' = 0,
         call' = "active" => call = "active" /\ due' <= longest',
         due' \in Nat, longest' \in Nat, longest <= longest', UNCHANGED <<billed, first>>
  PROVE  /\ record' \in RecordType \cup {NoRecord}
         /\ acrs' \in [Slots -> AcrType \cup {NoAcr}]
         /\ sinceAcr' \in Clock /\ inOrder' \in BOOLEAN
         /\ record' # NoRecord => quiet' + record'.ttl <= Horizon
         /\ \A a \in Slots : acrs'[a] # NoAcr =>
              /\ acrs'[a].timer_interim => acrs'[a].type = "INTERIM"
              /\ ~acrs'[a].timer_interim => quiet' + acrs'[a].wait <= Latency
         /\ call' = "active" /\ billed' /\ longest' < 2 * first' => due' < record'.ttl
         /\ OfFirst'
<1>1. /\ record \in RecordType \cup {NoRecord} /\ record.ttl \in Nat
      /\ record.ttl > 0 => record \in RecordType
      /\ acrs \in [Slots -> AcrType \cup {NoAcr}]
      /\ sinceAcr \in Clock /\ inOrder \in BOOLEAN /\ quiet \in Nat
      /\ first \in Nat /\ longest \in Nat /\ due \in Nat /\ OfFirst
  BY Typed, Zenon DEF LifeInv, TypeOK
<1>2. quiet' \in Nat /\ Horizon \in Nat /\ LongestRefresh \in Nat /\ Latency \in Nat
  BY HorizonType, TimeAssumption DEF Clock
<1>3. CASE record.ttl = 0
  <2>1. UNCHANGED <<record, acrs, sinceAcr>> /\ inOrder' = (inOrder /\ timer_interim)
    BY <1>3 DEF HandleInterim
  <2>2. record = NoRecord
    BY <1>1, <1>3, TimeAssumption DEF RecordType
  <2>3. ~(call' = "active" /\ billed' /\ longest' < 2 * first')
    BY <1>1, <1>3 DEF LifeInv, Keeps
  <2>4. \A a \in Slots : acrs[a] # NoAcr => acrs[a].wait \in Nat
    BY <1>1, TimeAssumption DEF AcrType
  <2>5. \A a \in Slots : acrs'[a] # NoAcr =>
              /\ acrs'[a].timer_interim => acrs'[a].type = "INTERIM"
              /\ ~acrs'[a].timer_interim => quiet' + acrs'[a].wait <= Latency
    BY <1>1, <1>2, <2>1, <2>4 DEF LifeInv, Fades
  <2>6. OfFirst'
    BY <1>1, <2>1, Zenon DEF OfFirst
  <2>. QED  BY <1>1, <2>1, <2>2, <2>3, <2>5, <2>6, Zenon
<1>4. CASE record.ttl > 0
  <2>. DEFINE r == IF refresh = 0 THEN record.refresh ELSE refresh
              acr == Acr("INTERIM", timer_interim, r, record.interval, record.timer)
  <2>1. /\ record' = [record EXCEPT !.ttl = Lifetime(record.refresh)]
        /\ Sent(acr) /\ sinceAcr' = 0 /\ UNCHANGED inOrder
    BY <1>4 DEF HandleInterim
  <2>2. /\ record \in RecordType /\ record.refresh \in RefreshTimes /\ r \in RefreshTimes
        /\ record.interval \in Nat /\ record.timer \in TimerIds \cup {NO_TIMER}
    BY <1>1, <1>4, Zenon DEF RecordType
  <2>3. record' \in RecordType /\ record'.ttl = 2 * record.refresh /\ record.refresh <= LongestRefresh
        /\ record.refresh \in Nat /\ record'.refresh = record.refresh
    BY <2>1, <2>2, RefreshType, Zenon DEF RecordType
  <2>4. acr \in AcrType /\ acr.wait = Latency /\ acr.type = "INTERIM" /\ acr.timer_interim = timer_interim
    BY <2>2, AcrTyped
  <2>5. PICK a \in Slots : acrs' = [acrs EXCEPT ![a] = acr]
    BY <2>1, Zenon DEF Sent
  <2>6. ASSUME NEW b \in Slots, acrs'[b] # NoAcr
        PROVE  /\ acrs'[b].timer_interim => acrs'[b].type = "INTERIM"
               /\ ~acrs'[b].timer_interim => quiet' + acrs'[b].wait <= Latency
    <3>1. CASE b = a
      <4>1. acrs'[b] = acr
        BY <1>1, <2>5, <3>1, Zenon
      <4>. HIDE DEF acr
      <4>. QED  BY <1>2, <2>4, <4>1
    <3>2. CASE b # a
      <4>1. acrs'[b] = acrs[b]
        BY <1>1, <2>5, <3>2, Zenon
      <4>2. acrs[b].wait \in Nat
        BY <1>1, <2>6, <4>1, TimeAssumption DEF AcrType
      <4>. QED  BY <1>1, <1>2, <2>6, <4>1, <4>2 DEF LifeInv, Fades
    <3>. QED  BY <3>1, <3>2, Zenon
  <2>7. acrs' \in [Slots -> AcrType \cup {NoAcr}]
    BY <1>1, <2>4, <2>5, Zenon
  <2>8. 0 \in Clock
    BY HorizonType DEF Clock
  <2>9. record.refresh = first
    <3>1. record # NoRecord
      BY <1>4 DEF NoRecord
    <3>. QED  BY <1>1, <3>1, Zenon DEF OfFirst
  <2>10. OfFirst'
    <3>1. record'.refresh = first'
      BY <2>3, <2>9, Zenon
    <3>2. \A b \in Slots : acrs'[b] # NoAcr /\ acrs'[b].type = "START" => acrs'[b] = acrs[b]
      <4>. HIDE DEF acr
      <4>. QED  BY <1>1, <2>4, <2>5, Zenon
    <3>. QED  BY <1>1, <3>1, <3>2, Zenon DEF OfFirst
  <2>11. quiet' + record'.ttl <= Horizon
    <3>1. record'.ttl <= 2 * LongestRefresh /\ record'.ttl \in Nat /\ 2 * LongestRefresh \in Nat
      BY <1>2, <2>3
    <3>2. quiet' + 2 * LongestRefresh <= Horizon
      OBVIOUS
    <3>. DEFINE ttl == record'.ttl
                twice == 2 * LongestRefresh
                q == quiet'
    <3>3. ttl \in Nat /\ twice \in Nat /\ q \in Nat /\ ttl <= twice /\ q + twice <= Horizon
      BY <1>2, <3>1, <3>2, Zenon
    <3>. HIDE DEF ttl, twice, q
    <3>4. q + ttl <= Horizon
      BY <1>2, <3>3, Shorter
    <3>. QED  BY <3>4, Zenon DEF ttl, q
  <2>12. call' = "active" /\ longest' < 2 * first' => due' < record'.ttl
    BY <1>1, <2>3, <2>9
  <2>. QED  BY <1>1, <2>1, <2>3, <2>6, <2>7, <2>8, <2>10, <2>11, <2>12, Zenon
<1>. QED  BY <1>1, <1>3, <1>4

\* The parts of LifeInv that are about timers.
TimersFine ==
  /\ timers \in [TimerIds -> TimerType]
  /\ \A t \in TimerIds : timers[t] # NoTimer =>
       /\ timers[t].interval > 0 /\ timers[t].pop <= timers[t].left
       /\ quiet + timers[t].left <= Latency + LongestRefresh

\* The parts of LifeInv that are about unanswered ACRs.
AcrsFine ==
  /\ acrs \in [Slots -> AcrType \cup {NoAcr}]
  /\ \A a \in Slots : acrs[a] # NoAcr =>
       /\ acrs[a].timer_interim => acrs[a].type = "INTERIM"
       /\ ~acrs[a].timer_interim => quiet + acrs[a].wait <= Latency

\* The parts of LifeInv that are about the record.
RecordFine ==
  /\ record \in RecordType \cup {NoRecord}
  /\ record # NoRecord => quiet + record.ttl <= Horizon

\* The parts of LifeInv that are about the rest.
RestFine ==
  /\ call \in {"none", "active", "ended"}
  /\ due \in 0..LongestRefresh
  /\ quiet \in Clock
  /\ sinceAcr \in Clock
  /\ asked \in Nat
  /\ first \in 0..LongestRefresh
  /\ longest \in 0..LongestRefresh
  /\ billed \in BOOLEAN
  /\ inOrder \in BOOLEAN

\* LifeInv is the conjunction of its parts.
LEMMA Parts ==
  LifeInv <=> TimersFine /\ AcrsFine /\ RecordFine /\ RestFine /\ Keeps /\ Idle /\ OfFirst
BY Zenon DEF LifeInv, TypeOK, Fades, TimersFine, AcrsFine, RecordFine, RestFine

\* Setting or deleting one timer while there is room for its repeat-for.
LEMMA TimerSet ==
  ASSUME TimersFine, quiet \in Nat, NEW t \in TimerIds, NEW timer \in TimerType,
         timer # NoTimer =>
           /\ timer.interval > 0 /\ timer.pop <= timer.left
           /\ quiet + timer.left <= Latency + LongestRefresh,
         timers' = [timers EXCEPT ![t] = timer],
         quiet' \in Nat, quiet' <= quiet
  PROVE  TimersFine'
<1>1. timers' \in [TimerIds -> TimerType]
  BY Zenon DEF TimersFine
<1>2. ASSUME NEW u \in TimerIds, timers'[u] # NoTimer
      PROVE  /\ timers'[u].interval > 0 /\ timers'[u].pop <= timers'[u].left
             /\ quiet' + timers'[u].left <= Latency + LongestRefresh
  <2>1. timers'[u].left \in Nat
    BY <1>1, TimeAssumption DEF TimerType
  <2>2. CASE u = t
    BY <1>2, <2>1, <2>2, TimeAssumption DEF TimersFine
  <2>3. CASE u # t
    BY <1>2, <2>1, <2>3, TimeAssumption DEF TimersFine
  <2>. QED  BY <2>2, <2>3, Zenon
<1>. QED  BY <1>1, <1>2, Zenon DEF TimersFine

\* No timer is a timer that does nothing.
LEMMA NoTimerType == NoTimer \in TimerType
BY TimeAssumption DEF NoTimer, TimerType

\* Untouched timers stay fine when a request of Sprout makes the call less quiet.
LEMMA TimersKept ==
  ASSUME LifeInv, UNCHANGED timers, quiet' \in Nat, quiet' <= quiet
  PROVE  TimersFine'
<1>1. TimersFine /\ quiet \in Nat
  BY Parts, Typed, Zenon
<1>2. \A t \in TimerIds : timers[t].left \in Nat
  BY <1>1, TimeAssumption DEF TimersFine, TimerType
<1>. QED  BY <1>1, <1>2, TimeAssumption DEF TimersFine

\* So do untouched ACRs.
LEMMA AcrsKept ==
  ASSUME LifeInv, UNCHANGED acrs, quiet' \in Nat, quiet' <= quiet
  PROVE  AcrsFine'
<1>1. AcrsFine /\ quiet \in Nat
  BY Parts, Typed, Zenon
<1>2. \A a \in Slots : acrs[a] # NoAcr => acrs[a].wait \in Nat
  BY <1>1, TimeAssumption DEF AcrsFine, AcrType
<1>. QED  BY <1>1, <1>2, TimeAssumption DEF AcrsFine

\* The first state.
LEMMA LifeInit == Init => LifeInv
<1>. SUFFICES ASSUME Init PROVE LifeInv
  BY Zenon
<1>1. TimersFine
  BY NoTimerType, Zenon DEF Init, TimersFine
<1>2. AcrsFine
  BY Zenon DEF Init, AcrsFine
<1>3. RecordFine /\ Keeps /\ Idle /\ OfFirst
  BY Zenon DEF Init, RecordFine, Keeps, Idle, OfFirst
<1>4. RestFine
  <2>1. 0 \in Clock /\ 0 \in Nat /\ 0 \in 0..LongestRefresh
    BY HorizonType, TimeAssumption DEF Clock
  <2>. QED  BY <2>1, Zenon DEF Init, RestFine
<1>. QED  BY <1>1, <1>2, <1>3, <1>4, Parts, Zenon

\* A START adds an ACR with its full time to wait.
LEMMA LifeStart == LifeInv /\ Start => LifeInv'
<1>. SUFFICES ASSUME LifeInv, Start PROVE LifeInv'
  BY Zenon
<1>0. PICK refresh \in RefreshTimes :
        /\ Sent(Acr("START", FALSE, refresh, 0, NO_TIMER))
        /\ due' = refresh /\ first' = refresh /\ longest' = refresh
  BY Zenon DEF Start
<1>1. /\ quiet' = 0 /\ quiet' \in Nat /\ quiet \in Nat /\ quiet' <= quiet
      /\ record.ttl \in Nat /\ call = "none" /\ UNCHANGED <<record, timers, billed, asked, inOrder>>
      /\ call' = "active" /\ sinceAcr' = 0
  BY Typed DEF Start
<1>2. TimersFine'
  BY <1>1, TimersKept, Zenon
<1>3. AcrsFine'
  <2>. DEFINE acr == Acr("START", FALSE, refresh, 0, NO_TIMER)
  <2>1. acr \in AcrType /\ acr.wait = Latency /\ acr.type = "START" /\ acr.timer_interim = FALSE
    BY TimeAssumption DEF Acr, AcrType
  <2>2. PICK a \in Slots : acrs' = [acrs EXCEPT ![a] = acr]
    BY <1>0, Zenon DEF Sent
  <2>. HIDE DEF acr
  <2>3. AcrsFine
    BY Parts, Zenon
  <2>4. acrs' \in [Slots -> AcrType \cup {NoAcr}]
    BY <2>1, <2>2, <2>3, Zenon DEF AcrsFine
  <2>5. ASSUME NEW b \in Slots, acrs'[b] # NoAcr
        PROVE  /\ acrs'[b].timer_interim => acrs'[b].type = "INTERIM"
               /\ ~acrs'[b].timer_interim => quiet' + acrs'[b].wait <= Latency
    <3>1. CASE b = a
      BY <1>1, <2>1, <2>2, <2>3, <3>1, TimeAssumption DEF AcrsFine
    <3>2. CASE b # a
      <4>1. acrs'[b] = acrs[b]
        BY <2>2, <2>3, <3>2, Zenon DEF AcrsFine
      <4>2. acrs[b].wait \in Nat
        BY <2>3, <2>5, <4>1, TimeAssumption DEF AcrsFine, AcrType
      <4>. QED  BY <1>1, <2>3, <2>5, <4>1, <4>2, TimeAssumption DEF AcrsFine
    <3>. QED  BY <3>1, <3>2, Zenon
  <2>. QED  BY <2>4, <2>5, Zenon DEF AcrsFine
<1>4. RecordFine'
  BY <1>1, Parts, HorizonType DEF RecordFine
<1>5. RestFine'
  BY <1>0, <1>1, Parts, RefreshType, HorizonType, TimeAssumption DEF RestFine, Clock
<1>6. Keeps'
  <2>1. due' <= longest'
    BY <1>0, RefreshType
  <2>2. ~billed
    BY <1>1, Parts, Zenon DEF Idle
  <2>. QED  BY <1>1, <2>1, <2>2, Zenon DEF Keeps
<1>7. Idle'
  BY <1>1, Zenon DEF Idle
<1>8. OfFirst'
  <2>. DEFINE acr == Acr("START", FALSE, refresh, 0, NO_TIMER)
  <2>1. acr.refresh = refresh
    BY Zenon DEF Acr
  <2>2. PICK a \in Slots : acrs' = [acrs EXCEPT ![a] = acr]
    BY <1>0, Zenon DEF Sent
  <2>. HIDE DEF acr
  <2>3. record' = NoRecord /\ \A b \in Slots : acrs[b] = NoAcr
    BY <1>1, Parts, Zenon DEF Idle
  <2>4. \A b \in Slots : acrs'[b] = NoAcr \/ acrs'[b] = acr
    BY <2>2, <2>3, Typed, Zenon
  <2>. QED  BY <1>0, <2>1, <2>3, <2>4, Zenon DEF OfFirst
<1>. QED  BY <1>2, <1>3, <1>4, <1>5, <1>6, <1>7, <1>8, Parts, PTL

\* An INTERIM of Sprout.
LEMMA LifeRefresh == LifeInv /\ Refresh => LifeInv'
<1>. SUFFICES ASSUME LifeInv, Refresh PROVE LifeInv'
  OBVIOUS
<1>0. PICK refresh \in RefreshTimes :
        HandleInterim(refresh, FALSE) /\ due' = refresh /\ longest' = Max(longest, refresh)
  BY Zenon DEF Refresh
<1>1. /\ quiet' = 0 /\ quiet' \in Nat /\ quiet \in Nat /\ quiet' <= quiet /\ quiet' \in Clock
      /\ call = "active" /\ UNCHANGED <<call, timers, billed, asked, first>>
      /\ quiet' + 2 * LongestRefresh <= Horizon
  BY Typed, HorizonType, TimeAssumption DEF Refresh, Clock
<1>2. TimersFine'
  BY <1>1, TimersKept, Zenon
<1>3. longest \in 0..LongestRefresh /\ LongestRefresh \in Nat
  BY Parts, TimeAssumption, Zenon DEF RestFine
<1>4. /\ due' \in Nat /\ due' \in 0..LongestRefresh
      /\ longest' \in Nat /\ longest' \in 0..LongestRefresh
      /\ longest <= longest' /\ due' <= longest'
  BY <1>0, <1>3, RefreshType DEF Max
<1>5. /\ record' \in RecordType \cup {NoRecord}
      /\ acrs' \in [Slots -> AcrType \cup {NoAcr}]
      /\ sinceAcr' \in Clock /\ inOrder' \in BOOLEAN
      /\ record' # NoRecord => quiet' + record'.ttl <= Horizon
      /\ \A a \in Slots : acrs'[a] # NoAcr =>
           /\ acrs'[a].timer_interim => acrs'[a].type = "INTERIM"
           /\ ~acrs'[a].timer_interim => quiet' + acrs'[a].wait <= Latency
      /\ call' = "active" /\ billed' /\ longest' < 2 * first' => due' < record'.ttl
      /\ OfFirst'
  BY <1>0, <1>1, <1>4, HandleFine, Zenon
<1>6. AcrsFine' /\ RecordFine' /\ Keeps'
  BY <1>4, <1>5, Zenon DEF AcrsFine, RecordFine, Keeps
<1>7. RestFine' /\ Idle'
  BY <1>1, <1>4, <1>5, Parts, Zenon DEF RestFine, Idle
<1>. QED  BY <1>2, <1>5, <1>6, <1>7, Parts, PTL

\* A STOP deletes the record and its timer.
LEMMA LifeStop == LifeInv /\ Stop => LifeInv'
<1>. SUFFICES ASSUME LifeInv, Stop PROVE LifeInv'
  OBVIOUS
<1>1. /\ quiet' = 0 /\ quiet' \in Nat /\ quiet \in Nat /\ quiet' <= quiet /\ quiet' \in Clock
      /\ call' = "ended" /\ record' = NoRecord
      /\ UNCHANGED <<due, acrs, billed, sinceAcr, asked, first, longest, inOrder>>
  BY Typed, HorizonType, TimeAssumption DEF Stop, Clock, ghosts
<1>2. TimersFine'
  <2>1. CASE record.ttl > 0 /\ record.timer # NO_TIMER
    <3>1. timers' = [timers EXCEPT ![record.timer] = NoTimer] /\ record.timer \in TimerIds
      BY <2>1, Typed, Zenon DEF Stop, RecordType
    <3>. QED  BY <1>1, <3>1, TimerSet, NoTimerType, Parts, Zenon
  <2>2. CASE ~(record.ttl > 0 /\ record.timer # NO_TIMER)
    BY <1>1, <2>2, TimersKept, Zenon DEF Stop
  <2>. QED  BY <2>1, <2>2, Zenon
<1>3. AcrsFine'
  BY <1>1, AcrsKept, Zenon
<1>4. RecordFine' /\ Keeps' /\ Idle' /\ OfFirst'
  BY <1>1, Parts, Zenon DEF RecordFine, Keeps, Idle, OfFirst
<1>5. RestFine'
  BY <1>1, Parts, Zenon DEF RestFine
<1>. QED  BY <1>2, <1>3, <1>4, <1>5, Parts, PTL

\* A call that ends without a STOP changes nothing in Ralf.
LEMMA LifeVanish == LifeInv /\ Vanish => LifeInv'
BY Zenon DEF LifeInv, TypeOK, Fades, Keeps, Idle, OfFirst, Vanish, ghosts

\* A timer pops while there is room for the lifetime of the record.
LEMMA LifePop ==
  ASSUME LifeInv, NEW t \in TimerIds, Pop(t)
  PROVE  LifeInv'
<1>. DEFINE interval == timers[t].interval
            popped == IF timers[t].left < interval THEN NoTimer
                      ELSE [timers[t] EXCEPT !.pop = interval]
<1>1. /\ timers[t] # NoTimer /\ timers[t] \in TimerType /\ TimersFine
      /\ HandleInterim(0, TRUE) /\ UNCHANGED <<call, due, quiet, billed, asked, first, longest>>
      /\ quiet \in Nat /\ quiet' \in Nat /\ quiet' <= quiet
  <2>1. /\ timers[t] # NoTimer /\ HandleInterim(0, TRUE)
        /\ UNCHANGED <<sprout, billed, asked, first, longest>>
    BY Zenon DEF Pop
  <2>2. UNCHANGED <<call, due, quiet, billed, asked, first, longest>>
    BY <2>1, Zenon DEF sprout
  <2>3. /\ timers[t] \in TimerType /\ TimersFine
        /\ quiet \in Nat /\ quiet' \in Nat /\ quiet' <= quiet
    BY <2>2, Typed, Parts
  <2>. QED  BY <2>1, <2>2, <2>3, Zenon
<1>2. timers' = [timers EXCEPT ![t] = popped]
  BY <1>1, Zenon DEF Pop, TimersFine
<1>3. /\ interval \in Nat /\ interval > 0 /\ timers[t].left \in Nat
      /\ quiet + timers[t].left <= Latency + LongestRefresh
  BY <1>1, TimeAssumption DEF TimersFine, TimerType
<1>4. popped \in TimerType
  BY <1>1, <1>3, NoTimerType, Zenon DEF TimerType
<1>5. popped # NoTimer =>
        /\ popped.interval > 0 /\ popped.pop <= popped.left
        /\ quiet + popped.left <= Latency + LongestRefresh
  BY <1>1, <1>3 DEF TimerType
<1>6. TimersFine'
  <2>. HIDE DEF popped
  <2>. QED  BY <1>1, <1>2, <1>4, <1>5, TimerSet, Zenon
<1>7. quiet' \in Clock /\ quiet' + 2 * LongestRefresh <= Horizon
  BY <1>1, <1>3, HorizonType, TimeAssumption DEF Clock
<1>8. call' = "active" => call = "active" /\ due' <= longest'
  BY <1>1, Parts, Zenon DEF Keeps
<1>9. due' \in Nat /\ longest' \in Nat /\ longest <= longest'
  BY <1>1, Typed
<1>10. /\ record' \in RecordType \cup {NoRecord}
       /\ acrs' \in [Slots -> AcrType \cup {NoAcr}]
       /\ sinceAcr' \in Clock /\ inOrder' \in BOOLEAN
       /\ record' # NoRecord => quiet' + record'.ttl <= Horizon
       /\ \A a \in Slots : acrs'[a] # NoAcr =>
            /\ acrs'[a].timer_interim => acrs'[a].type = "INTERIM"
            /\ ~acrs'[a].timer_interim => quiet' + acrs'[a].wait <= Latency
       /\ call' = "active" /\ billed' /\ longest' < 2 * first' => due' < record'.ttl
       /\ OfFirst'
  BY <1>1, <1>7, <1>8, <1>9, HandleFine, Zenon
<1>11. AcrsFine' /\ RecordFine' /\ Keeps'
  BY <1>8, <1>10, Zenon DEF AcrsFine, RecordFine, Keeps
<1>12. RestFine'
  BY <1>1, <1>7, <1>10, Parts, Zenon DEF RestFine
<1>13. Idle'
  <2>1. NoRecord.ttl = 0
    BY Zenon DEF NoRecord
  <2>2. ASSUME call = "none" PROVE UNCHANGED <<record, acrs>>
    <3>1. record = NoRecord
      BY <2>2, Parts, Zenon DEF Idle
    <3>2. ~(record.ttl > 0)
      BY <2>1, <3>1
    <3>. QED  BY <1>1, <3>2, Zenon DEF HandleInterim
  <2>. QED  BY <1>1, <2>2, Parts, Zenon DEF Idle
<1>. QED  BY <1>6, <1>10, <1>11, <1>12, <1>13, Parts, PTL

\* Time passes.
LEMMA LifeTick == LifeInv /\ Tick => LifeInv'
<1>. SUFFICES ASSUME LifeInv, Tick PROVE LifeInv'
  OBVIOUS
<1>1. UNCHANGED <<call, billed, asked, first, longest, inOrder>> /\ NothingDue
  BY Zenon DEF Tick
<1>2. /\ quiet \in Nat /\ quiet' \in Nat /\ quiet' <= quiet + 1 /\ quiet' \in Clock
      /\ sinceAcr' \in Clock
  <2>1. quiet \in 0..Horizon /\ sinceAcr \in 0..Horizon
    BY Parts, Zenon DEF RestFine, Clock
  <2>2. quiet' = Min(quiet + 1, Horizon) /\ sinceAcr' = Min(sinceAcr + 1, Horizon)
    BY Zenon DEF Tick
  <2>. QED  BY <2>1, <2>2, HorizonType DEF Min, Clock
<1>3. /\ due \in Nat /\ due' \in 0..LongestRefresh /\ due' \in Nat /\ due' <= due
      /\ due > 0 => due' = due - 1
  <2>1. due \in 0..LongestRefresh /\ LongestRefresh \in Nat
    BY Parts, TimeAssumption, Zenon DEF RestFine
  <2>2. due' = Max(due - 1, 0)
    BY Zenon DEF Tick
  <2>. QED  BY <2>1, <2>2 DEF Max
<1>4. TimersFine'
  <2>1. TimersFine
    BY Parts, Zenon
  <2>2. ASSUME NEW t \in TimerIds, timers[t] # NoTimer
        PROVE  /\ timers'[t] \in TimerType /\ timers'[t].interval > 0
               /\ timers'[t].pop <= timers'[t].left
               /\ quiet' + timers'[t].left <= Latency + LongestRefresh
    <3>1. timers'[t] = [timers[t] EXCEPT !.pop = @ - 1, !.left = @ - 1]
      BY <2>2, Zenon DEF Tick
    <3>2. /\ timers[t] \in TimerType /\ timers[t].pop > 0 /\ timers[t].interval > 0
          /\ timers[t].pop <= timers[t].left
          /\ quiet + timers[t].left <= Latency + LongestRefresh
      BY <1>1, <2>1, <2>2, Zenon DEF NothingDue, TimersFine
    <3>3. timers[t].left \in Nat /\ timers[t].left <= LongestRefresh /\ timers[t].pop \in Nat
      BY <3>2, TimeAssumption DEF TimerType
    <3>4. timers'[t].left = timers[t].left - 1 /\ timers'[t].pop = timers[t].pop - 1
      BY <3>1, <3>2, Zenon DEF TimerType
    <3>5. timers'[t] \in TimerType /\ timers'[t].interval = timers[t].interval
      <4>1. timers[t].pop - 1 \in Nat /\ timers[t].left - 1 \in 0..LongestRefresh
        BY <3>2, <3>3, TimeAssumption
      <4>. QED  BY <3>1, <3>2, <4>1, Zenon DEF TimerType
    <3>. QED  BY <1>2, <3>2, <3>3, <3>4, <3>5, TimeAssumption
  <2>3. ASSUME NEW t \in TimerIds, timers[t] = NoTimer
        PROVE  timers'[t] = NoTimer
    BY <2>3, Zenon DEF Tick
  <2>4. timers' \in [TimerIds -> TimerType]
    <3>1. \A t \in TimerIds : timers'[t] \in TimerType
      BY <2>2, <2>3, NoTimerType, Zenon
    <3>. QED  BY <3>1, Zenon DEF Tick
  <2>. QED  BY <2>2, <2>3, <2>4, Zenon DEF TimersFine
<1>5. AcrsFine'
  <2>1. AcrsFine
    BY Parts, Zenon
  <2>2. ASSUME NEW a \in Slots, acrs[a] # NoAcr
        PROVE  /\ acrs'[a] \in AcrType
               /\ acrs'[a].timer_interim => acrs'[a].type = "INTERIM"
               /\ ~acrs'[a].timer_interim => quiet' + acrs'[a].wait <= Latency
    <3>1. acrs'[a] = [acrs[a] EXCEPT !.wait = @ - 1]
      BY <2>2, Zenon DEF Tick
    <3>2. acrs[a] \in AcrType /\ acrs[a].wait > 0
      BY <1>1, <2>1, <2>2, Zenon DEF NothingDue, AcrsFine
    <3>3. acrs[a].wait \in Nat /\ acrs[a].wait <= Latency
      BY <3>2, TimeAssumption DEF AcrType
    <3>4. /\ acrs'[a].wait = acrs[a].wait - 1 /\ acrs'[a].type = acrs[a].type
          /\ acrs'[a].timer_interim = acrs[a].timer_interim
      BY <3>1, <3>2, Zenon DEF AcrType
    <3>5. acrs'[a] \in AcrType
      BY <3>1, <3>2, <3>3, TimeAssumption DEF AcrType
    <3>6. ~acrs[a].timer_interim => quiet + acrs[a].wait <= Latency
      BY <2>1, <2>2, Zenon DEF AcrsFine
    <3>7. acrs[a].timer_interim => acrs[a].type = "INTERIM"
      BY <2>1, <2>2, Zenon DEF AcrsFine
    <3>. QED  BY <1>2, <3>3, <3>4, <3>5, <3>6, <3>7, TimeAssumption
  <2>3. ASSUME NEW a \in Slots, acrs[a] = NoAcr
        PROVE  acrs'[a] = NoAcr
    BY <2>3, Zenon DEF Tick
  <2>4. acrs' \in [Slots -> AcrType \cup {NoAcr}]
    <3>1. \A a \in Slots : acrs'[a] \in AcrType \cup {NoAcr}
      BY <2>2, <2>3, Zenon
    <3>. QED  BY <3>1, Zenon DEF Tick
  <2>. QED  BY <2>2, <2>3, <2>4, Zenon DEF AcrsFine
<1>6. RecordFine' /\ (record.ttl > 1 => record'.ttl = record.ttl - 1)
  <2>1. RecordFine
    BY Parts, Zenon
  <2>2. CASE record.ttl <= 1
    <3>1. record' = NoRecord
      BY <2>2, Zenon DEF Tick
    <3>. QED  BY <2>2, <3>1, Typed DEF RecordFine
  <2>3. CASE record.ttl > 1
    <3>1. record \in RecordType /\ record.ttl \in Nat /\ record.ttl <= 2 * LongestRefresh
      BY <2>3, Typed, TimeAssumption DEF RecordType
    <3>2. record' = [record EXCEPT !.ttl = record.ttl - 1]
      <4>1. record' = IF record.ttl <= 1 THEN NoRecord ELSE [record EXCEPT !.ttl = @ - 1]
        BY Zenon DEF Tick
      <4>. QED  BY <2>3, <3>1, <4>1
    <3>3. record' \in RecordType /\ record'.ttl = record.ttl - 1
      BY <2>3, <3>1, <3>2, TimeAssumption DEF RecordType
    <3>4. quiet + record.ttl <= Horizon
      BY <2>1, <2>3, <3>1 DEF RecordFine, NoRecord
    <3>. QED  BY <1>2, <3>1, <3>3, <3>4, HorizonType DEF RecordFine
  <2>. QED  BY <2>2, <2>3, Typed
<1>7. RestFine'
  BY <1>1, <1>2, <1>3, Parts, Zenon DEF RestFine
<1>8. Keeps'
  <2>1. SUFFICES ASSUME call = "active"
                 PROVE  /\ due' <= longest
                        /\ billed /\ longest < 2 * first => due' < record'.ttl
    BY <1>1, Zenon DEF Keeps
  <2>2. /\ due > 0 /\ due <= longest
        /\ billed /\ longest < 2 * first => due < record.ttl
    BY <1>1, <2>1, Parts, Zenon DEF NothingDue, Keeps
  <2>3. due' <= longest
    BY <1>3, <2>2, Typed
  <2>4. ASSUME billed, longest < 2 * first PROVE due' < record'.ttl
    <3>1. record.ttl > 1 /\ record.ttl \in Nat
      BY <1>3, <2>2, <2>4, Typed
    <3>. QED  BY <1>3, <1>6, <2>2, <2>4, <3>1
  <2>. QED  BY <2>3, <2>4, Zenon
<1>9. Idle'
  <2>1. ASSUME call = "none"
        PROVE  record' = NoRecord /\ ~billed /\ \A a \in Slots : acrs'[a] = NoAcr
    <3>1. /\ ~billed /\ record = NoRecord /\ record.ttl = 0
          /\ \A a \in Slots : acrs[a] = NoAcr
      BY <2>1, Parts DEF Idle, NoRecord
    <3>2. /\ record' = IF record.ttl <= 1 THEN NoRecord ELSE [record EXCEPT !.ttl = @ - 1]
          /\ acrs' = [a \in Slots |->
                        IF acrs[a] = NoAcr THEN NoAcr ELSE [acrs[a] EXCEPT !.wait = @ - 1]]
      BY Zenon DEF Tick
    <3>3. \A a \in Slots : acrs'[a] = NoAcr
      BY <3>1, <3>2, Zenon
    <3>4. record' = NoRecord
      BY <3>1, <3>2
    <3>. QED  BY <3>1, <3>3, <3>4, Zenon
  <2>. QED  BY <1>1, <2>1, Zenon DEF Idle
<1>10. OfFirst'
  <2>1. OfFirst
    BY Parts, Zenon
  <2>2. record' # NoRecord => record # NoRecord /\ record'.refresh = record.refresh
    <3>1. record' = IF record.ttl <= 1 THEN NoRecord ELSE [record EXCEPT !.ttl = @ - 1]
      BY Zenon DEF Tick
    <3>2. NoRecord.ttl <= 1
      BY DEF NoRecord
    <3>3. record \in RecordType \cup {NoRecord}
      BY Typed, Zenon
    <3>. QED  BY <3>1, <3>2, <3>3, Zenon DEF RecordType
  <2>3. ASSUME NEW a \in Slots, acrs'[a] # NoAcr
        PROVE  acrs[a] # NoAcr /\ acrs'[a].refresh = acrs[a].refresh /\ acrs'[a].type = acrs[a].type
    <3>1. acrs[a] # NoAcr /\ acrs'[a] = [acrs[a] EXCEPT !.wait = @ - 1]
      BY <2>3, Zenon DEF Tick
    <3>2. acrs[a] \in AcrType
      BY <3>1, Typed, Zenon
    <3>. QED  BY <3>1, <3>2, Zenon DEF AcrType
  <2>. QED  BY <1>1, <2>1, <2>2, <2>3, Zenon DEF OfFirst
<1>. QED  BY <1>4, <1>5, <1>6, <1>7, <1>8, <1>9, <1>10, Parts, PTL

\* An answer: what it sets fits, because the request it answers is recent.
LEMMA LifeAnswer ==
  ASSUME LifeInv, NEW a \in Slots, OnCcfResponse(a)
  PROVE  LifeInv'
<1>. DEFINE acr == acrs[a]
<1>1. PICK rc \in {"SUCCESS", "UNKNOWN_SESSION_ID", "OTHER"}, answered \in Intervals :
        LET interval == EffectiveInterval(answered, acr.interval, acr.refresh)
            stores   == acr.type = "START" /\ rc = "SUCCESS"
            kills    == acr.type = "INTERIM" /\ rc = "UNKNOWN_SESSION_ID"
        IN /\ \/ stores /\ StoreSession(acr, interval)
              \/ kills /\ record' = NoRecord /\ UNCHANGED timers
              \/ Renews(acr, rc, interval) /\ RenewTimer(acr, interval)
              \/ ~stores /\ UNCHANGED <<record, timers>>
           /\ billed' = (~kills /\ (billed \/ stores))
           /\ asked' = IF acr.timer_interim THEN asked ELSE Max(asked, interval)
           /\ inOrder' \in BOOLEAN
  BY Zenon DEF OnCcfResponse
<1>. DEFINE interval == EffectiveInterval(answered, acr.interval, acr.refresh)
            stores   == acr.type = "START" /\ rc = "SUCCESS"
            kills    == acr.type = "INTERIM" /\ rc = "UNKNOWN_SESSION_ID"
<1>2. /\ acr # NoAcr /\ acrs' = [acrs EXCEPT ![a] = NoAcr]
      /\ UNCHANGED <<call, due, quiet, sinceAcr, first, longest>>
  BY Zenon DEF OnCcfResponse, sprout
<1>3. /\ acr \in AcrType /\ acr.refresh \in RefreshTimes /\ acr.interval \in Nat
      /\ acr.timer \in TimerIds \cup {NO_TIMER} /\ acr.wait \in Nat
      /\ acr.timer_interim => acr.type = "INTERIM"
      /\ ~acr.timer_interim => quiet + acr.wait <= Latency
  BY <1>2, Parts, TimeAssumption DEF AcrsFine, AcrType
<1>4. interval \in Nat \ {0}
  BY <1>3, IntervalType, Zenon
<1>5. quiet \in Nat /\ quiet' \in Nat /\ quiet' <= quiet /\ quiet' = quiet
  BY <1>2, Typed
<1>6. acr.refresh \in Nat /\ acr.refresh <= LongestRefresh /\ acr.refresh > 0
      /\ Lifetime(acr.refresh) = 2 * acr.refresh
      /\ Lifetime(acr.refresh) \in 1..(2 * LongestRefresh)
  BY <1>3, RefreshType, Zenon
<1>7. AcrsFine'
  <2>1. AcrsFine
    BY Parts, Zenon
  <2>. QED  BY <1>2, <1>5, <2>1, Zenon DEF AcrsFine
<1>8. /\ call = "active" => due <= longest
      /\ call = "active" /\ longest < 2 * first => due < 2 * first
  <2>1. call = "active" => due <= longest
    BY Parts, Zenon DEF Keeps
  <2>. QED  BY <2>1, Typed
<1>9. ASSUME ~acr.timer_interim, NeedsTimer(acr.refresh, interval)
      PROVE  /\ Timer(interval, acr.refresh) \in TimerType
             /\ Timer(interval, acr.refresh).interval > 0
             /\ Timer(interval, acr.refresh).pop <= Timer(interval, acr.refresh).left
             /\ quiet + Timer(interval, acr.refresh).left <= Latency + LongestRefresh
  <2>. HIDE DEF interval
  <2>1. interval < acr.refresh /\ quiet <= Latency
    BY <1>3, <1>4, <1>5, <1>6, <1>9, TimeAssumption DEF NeedsTimer
  <2>. QED  BY <1>4, <1>5, <1>6, <2>1, TimeAssumption DEF Timer, TimerType
<1>10. Idle' /\ RestFine'
  <2>1. call # "none"
    BY <1>2, Parts, Zenon DEF Idle
  <2>2. asked' \in Nat
    <3>. HIDE DEF interval
    <3>1. asked \in Nat /\ asked' = IF acr.timer_interim THEN asked ELSE Max(asked, interval)
      BY <1>1, Parts, Zenon DEF RestFine, interval
    <3>. QED  BY <1>4, <3>1, Zenon DEF Max
  <2>3. inOrder' \in BOOLEAN /\ billed' \in BOOLEAN
    BY <1>1, Zenon
  <2>. QED  BY <1>2, <2>1, <2>2, <2>3, Parts, Zenon DEF RestFine, Idle
<1>11. billed' <=> ~kills /\ (billed \/ stores)
  BY <1>1, Zenon
<1>. SUFFICES /\ TimersFine' /\ RecordFine'
              /\ record' # NoRecord => record'.refresh = first
              /\ call = "active" /\ billed' /\ longest < 2 * first => due < record'.ttl
  <2>1. ASSUME call = "active" /\ billed' /\ longest < 2 * first => due < record'.ttl
        PROVE  Keeps'
    BY <1>2, <1>8, <2>1, Zenon DEF Keeps
  <2>2. ASSUME record' # NoRecord => record'.refresh = first PROVE OfFirst'
    <3>1. OfFirst
      BY Parts, Zenon
    <3>2. \A b \in Slots : acrs'[b] # NoAcr => acrs'[b] = acrs[b]
      BY <1>2, Typed, Zenon
    <3>. QED  BY <1>2, <2>2, <3>1, <3>2, Zenon DEF OfFirst
  <2>. QED  BY <1>7, <1>10, <2>1, <2>2, Parts, PTL
<1>12. CASE stores /\ StoreSession(acr, interval)
  <2>. HIDE DEF interval
  <2>0. ~acr.timer_interim
    BY <1>3, <1>12, Zenon
  <2>1. PICK id \in TimerIds \cup {NO_TIMER} :
          /\ IF NeedsTimer(acr.refresh, interval)
             THEN id # NO_TIMER /\ Post(id, interval, acr.refresh)
             ELSE id = NO_TIMER /\ UNCHANGED timers
          /\ record' = [ ttl |-> Lifetime(acr.refresh), refresh |-> acr.refresh,
                         interval |-> interval, timer |-> id ]
    BY <1>12, Zenon DEF StoreSession
  <2>2. TimersFine'
    <3>1. CASE NeedsTimer(acr.refresh, interval)
      <4>1. id \in TimerIds /\ timers' = [timers EXCEPT ![id] = Timer(interval, acr.refresh)]
        BY <2>1, <3>1, Zenon DEF Post
      <4>. QED  BY <1>5, <1>9, <2>0, <3>1, <4>1, TimerSet, Parts, Zenon DEF interval
    <3>2. CASE ~NeedsTimer(acr.refresh, interval)
      BY <1>5, <2>1, <3>2, TimersKept, Zenon
    <3>. QED  BY <3>1, <3>2, Zenon
  <2>3. record' \in RecordType /\ record'.ttl = 2 * acr.refresh /\ record'.refresh = acr.refresh
    BY <1>3, <1>4, <1>6, <2>1, Zenon DEF RecordType
  <2>4. quiet' + record'.ttl <= Horizon
    BY <1>3, <1>5, <1>6, <2>0, <2>3, HorizonType, TimeAssumption
  <2>5. acr.refresh = first
    BY <1>2, <1>12, Parts, Zenon DEF OfFirst
  <2>. QED  BY <1>8, <2>2, <2>3, <2>4, <2>5, Zenon DEF RecordFine
<1>13. CASE kills /\ record' = NoRecord /\ UNCHANGED timers
  BY <1>5, <1>11, <1>13, TimersKept, Zenon DEF RecordFine
<1>14. CASE Renews(acr, rc, interval) /\ RenewTimer(acr, interval)
  <2>. HIDE DEF interval
  <2>1. /\ ~acr.timer_interim /\ NeedsTimer(acr.refresh, interval)
        /\ ~stores /\ ~kills
    BY <1>14, Zenon DEF Renews
  <2>2. CASE acr.timer # NO_TIMER
    <3>1. /\ acr.timer \in TimerIds /\ UNCHANGED record
          /\ timers' = [timers EXCEPT ![acr.timer] = Timer(interval, acr.refresh)]
      BY <1>3, <1>14, <2>2, Zenon DEF RenewTimer
    <3>2. TimersFine'
      BY <1>5, <1>9, <2>1, <3>1, TimerSet, Parts, Zenon DEF interval
    <3>. QED  BY <1>5, <1>11, <2>1, <3>1, <3>2, Parts, Zenon DEF RecordFine, Keeps, OfFirst
  <2>3. CASE acr.timer = NO_TIMER
    <3>1. PICK id \in TimerIds :
            /\ timers' = [timers EXCEPT ![id] = Timer(interval, acr.refresh)]
            /\ \/ /\ record.ttl > 0
                  /\ record' = [record EXCEPT !.timer = id, !.ttl = Lifetime(record.refresh)]
               \/ UNCHANGED record
      BY <1>14, <2>3, Zenon DEF RenewTimer, Post
    <3>2. TimersFine'
      BY <1>5, <1>9, <2>1, <3>1, TimerSet, Parts, Zenon DEF interval
    <3>3. CASE UNCHANGED record
      BY <1>5, <1>11, <2>1, <3>2, <3>3, Parts, Zenon DEF RecordFine, Keeps, OfFirst
    <3>4. CASE /\ record.ttl > 0
               /\ record' = [record EXCEPT !.timer = id, !.ttl = Lifetime(record.refresh)]
      <4>1. record \in RecordType /\ record.refresh \in RefreshTimes /\ record # NoRecord
        BY <3>4, Typed DEF RecordType, NoRecord
      <4>2. /\ record.refresh \in Nat /\ record.refresh <= LongestRefresh
            /\ Lifetime(record.refresh) = 2 * record.refresh
            /\ Lifetime(record.refresh) \in 1..(2 * LongestRefresh)
        BY <4>1, RefreshType, Zenon
      <4>3. /\ record' \in RecordType /\ record'.ttl = 2 * record.refresh
            /\ record'.refresh = record.refresh
        BY <3>4, <4>1, <4>2, Zenon DEF RecordType
      <4>4. quiet' + record'.ttl <= Horizon
        BY <1>3, <1>5, <2>1, <4>2, <4>3, HorizonType, TimeAssumption
      <4>5. record.refresh = first
        BY <4>1, Parts, Zenon DEF OfFirst
      <4>. QED  BY <1>8, <3>2, <4>3, <4>4, <4>5, Zenon DEF RecordFine
    <3>. QED  BY <3>1, <3>3, <3>4, Zenon
  <2>. QED  BY <2>2, <2>3, Zenon
<1>15. CASE ~stores /\ UNCHANGED <<record, timers>>
  BY <1>5, <1>11, <1>15, TimersKept, Parts, Zenon DEF RecordFine, Keeps, OfFirst
<1>. QED  BY <1>1, <1>12, <1>13, <1>14, <1>15, Zenon

\* A node fails: a timer it left behind fits as one of an answer does.
LEMMA LifeCrash ==
  ASSUME LifeInv, NEW a \in Slots, Crash(a)
  PROVE  LifeInv'
<1>. DEFINE acr == acrs[a]
<1>1. /\ acr # NoAcr /\ acrs' = [acrs EXCEPT ![a] = NoAcr]
      /\ UNCHANGED <<call, due, quiet, record, billed, sinceAcr, asked, first, longest>>
      /\ inOrder' \in BOOLEAN
  BY Zenon DEF Crash, sprout
<1>2. /\ acr \in AcrType /\ acr.refresh \in RefreshTimes /\ acr.interval \in Nat
      /\ acr.wait \in Nat
      /\ ~acr.timer_interim => quiet + acr.wait <= Latency
  BY <1>1, Parts, TimeAssumption DEF AcrsFine, AcrType
<1>3. quiet \in Nat /\ quiet' \in Nat /\ quiet' <= quiet
  BY <1>1, Typed
<1>4. acr.refresh \in Nat /\ acr.refresh <= LongestRefresh
  BY <1>2, RefreshType, Zenon
<1>5. TimersFine'
  <2>1. CASE UNCHANGED timers
    BY <1>3, <2>1, TimersKept, Zenon
  <2>2. ASSUME ~acr.timer_interim, NEW t \in TimerIds, NEW answered \in Intervals,
               LET interval == EffectiveInterval(answered, acr.interval, acr.refresh)
               IN NeedsTimer(acr.refresh, interval) /\ Post(t, interval, acr.refresh)
        PROVE  TimersFine'
    <3>. DEFINE interval == EffectiveInterval(answered, acr.interval, acr.refresh)
    <3>1. interval \in Nat \ {0}
      BY <1>2, IntervalType, Zenon
    <3>2. /\ NeedsTimer(acr.refresh, interval)
          /\ timers' = [timers EXCEPT ![t] = Timer(interval, acr.refresh)]
      BY <2>2, Zenon DEF Post
    <3>. HIDE DEF interval
    <3>3. interval < acr.refresh /\ quiet <= Latency
      BY <1>2, <1>3, <1>4, <2>2, <3>1, <3>2, TimeAssumption DEF NeedsTimer
    <3>4. /\ Timer(interval, acr.refresh) \in TimerType
          /\ Timer(interval, acr.refresh).interval > 0
          /\ Timer(interval, acr.refresh).pop <= Timer(interval, acr.refresh).left
          /\ quiet + Timer(interval, acr.refresh).left <= Latency + LongestRefresh
      BY <1>3, <1>4, <3>1, <3>3, TimeAssumption DEF Timer, TimerType
    <3>. QED  BY <1>3, <3>2, <3>4, TimerSet, Parts, Zenon
  <2>. QED  BY <2>1, <2>2, Zenon DEF Crash
<1>6. AcrsFine' /\ OfFirst'
  <2>1. AcrsFine /\ OfFirst
    BY Parts, Zenon
  <2>2. \A b \in Slots : acrs'[b] # NoAcr => acrs'[b] = acrs[b]
    BY <1>1, Typed, Zenon
  <2>. QED  BY <1>1, <2>1, <2>2, Zenon DEF AcrsFine, OfFirst
<1>7. RecordFine' /\ Keeps' /\ RestFine'
  BY <1>1, Parts, Zenon DEF RecordFine, Keeps, RestFine
<1>8. Idle'
  BY <1>1, Parts, Zenon DEF Idle
<1>. QED  BY <1>5, <1>6, <1>7, <1>8, Parts, PTL

-----------------------------------------------------------------------------
(* Theorems *)

\* Every step keeps LifeInv.
LEMMA LifeNext == LifeInv /\ [Next]_vars => LifeInv'
<1>. SUFFICES ASSUME LifeInv, [Next]_vars PROVE LifeInv'
  BY Zenon
<1>1. CASE Start
  BY <1>1, LifeStart, Zenon
<1>2. CASE Refresh
  BY <1>2, LifeRefresh
<1>3. CASE Stop
  BY <1>3, LifeStop
<1>4. CASE Vanish
  BY <1>4, LifeVanish
<1>5. CASE \E t \in TimerIds : Pop(t)
  BY <1>5, LifePop, Zenon
<1>6. CASE \E a \in Slots : OnCcfResponse(a)
  BY <1>6, LifeAnswer
<1>7. CASE Tick
  BY <1>7, LifeTick
<1>8. CASE \E a \in Slots : Crash(a)
  BY <1>8, LifeCrash, Zenon
<1>9. CASE UNCHANGED vars
  BY <1>9, Zenon DEF vars, sprout, ghosts, LifeInv, TypeOK, Fades, Keeps, Idle, OfFirst
<1>. QED  BY <1>1, <1>2, <1>3, <1>4, <1>5, <1>6, <1>7, <1>8, <1>9, Zenon DEF Next

\* LifeInv is an invariant.
LEMMA LifeInvariant == Spec => []LifeInv
BY LifeInit, LifeNext, PTL DEF Spec

\* Clocks stay within their ranges: timers never pop after their repeat-for.
THEOREM TypeCorrect == Spec => []TypeOK
<1>1. LifeInv => TypeOK
  BY Zenon DEF LifeInv
<1>. QED  BY <1>1, LifeInvariant, PTL

\* Whatever happened to its STOP, nothing is left of a call once it has been quiet
\* for the Horizon.
THEOREM QuietCallFades == Spec => []EndedCallFades
<1>1. ASSUME LifeInv, quiet = Horizon
      PROVE  record = NoRecord /\ \A t \in TimerIds : timers[t] = NoTimer
  <2>1. record = NoRecord
    BY <1>1, Typed, HorizonType DEF LifeInv, Fades
  <2>2. ASSUME NEW t \in TimerIds, timers[t] # NoTimer PROVE FALSE
    <3>1. timers[t].left \in Nat /\ quiet + timers[t].left <= Latency + LongestRefresh
      BY <1>1, <2>2, Parts, TimeAssumption DEF TimersFine, TimerType
    <3>. QED  BY <1>1, <3>1, HorizonType, TimeAssumption
  <2>. QED  BY <2>1, <2>2, Zenon
<1>2. LifeInv => EndedCallFades
  BY <1>1, Zenon DEF EndedCallFades
<1>. QED  BY <1>2, LifeInvariant, PTL

-----------------------------------------------------------------------------
(* The interval the CDF asked for *)

\* An unanswered ACR for a request of Sprout, and the last one of them.
FromSprout(a) == acrs[a] # NoAcr /\ ~acrs[a].timer_interim

Newest(a) ==
  FromSprout(a) /\ \A b \in Slots \ {a} : FromSprout(b) => acrs[b].wait < acrs[a].wait

\* Until the START is answered there is nothing else of the call.
Starting ==
  \A a \in Slots : acrs[a] # NoAcr /\ acrs[a].type = "START" =>
    /\ ~billed /\ record = NoRecord
    /\ \A b \in Slots \ {a} : acrs[b] = NoAcr

\* The last ACR was sent no earlier than any unanswered one.
Recent == \A a \in Slots : acrs[a] # NoAcr => sinceAcr + acrs[a].wait <= Latency

\* Sprout's next request comes within the refresh time of its last ACR.
InTime ==
  call = "active" /\ inOrder =>
    \A a \in Slots : Newest(a) => due + Latency <= acrs[a].refresh + acrs[a].wait

\* Timer t pops in time, and goes on until Sprout's next request.
Covers(t) ==
  /\ timers[t] # NoTimer
  /\ timers[t].interval <= asked
  /\ sinceAcr + timers[t].pop <= asked + Latency
  /\ due <= timers[t].left

\* The record outlives the times of Sprout's requests, or those of the timer's.
Lasting == longest < 2 * first \/ asked + Latency < 2 * first

\* While Sprout waits for no answer, its next request or a timer comes in time.
Covered ==
  call = "active" /\ billed /\ inOrder /\ Lasting /\ (\A a \in Slots : ~FromSprout(a)) =>
    sinceAcr + due <= asked + Latency \/ \E t \in TimerIds : Covers(t)

\* The record was renewed with the last ACR or after it.
Aged == record # NoRecord => 2 * first <= record.ttl + sinceAcr

\* The record is there for the next request.
Stays == call = "active" /\ billed /\ inOrder /\ Lasting => record.ttl > 0

IntervalInv == Starting /\ Recent /\ InTime /\ Covered /\ Aged /\ Stays

\* Facts about a typed state.
LEMMA ClocksTyped ==
  ASSUME LifeInv
  PROVE  /\ due \in Nat /\ sinceAcr \in Nat /\ asked \in Nat /\ Latency \in Nat
         /\ first \in Nat /\ longest \in Nat /\ first <= LongestRefresh
         /\ \A a \in Slots : acrs[a] # NoAcr =>
              acrs[a].wait \in Nat /\ acrs[a].wait <= Latency /\ acrs[a].refresh \in Nat
         /\ \A t \in TimerIds : /\ timers[t].pop \in Nat /\ timers[t].left \in Nat
                                /\ timers[t].interval \in Nat
                                /\ timers[t] # NoTimer => timers[t].interval > 0
<1>1. /\ due \in Nat /\ sinceAcr \in Nat /\ asked \in Nat /\ Latency \in Nat
      /\ first \in Nat /\ longest \in Nat /\ first <= LongestRefresh
  BY Parts, HorizonType, TimeAssumption DEF RestFine, Clock
<1>2. ASSUME NEW a \in Slots, acrs[a] # NoAcr
      PROVE  acrs[a].wait \in Nat /\ acrs[a].wait <= Latency /\ acrs[a].refresh \in Nat
  BY <1>1, <1>2, Parts, RefreshType DEF AcrsFine, AcrType
<1>3. ASSUME NEW t \in TimerIds
      PROVE  /\ timers[t].pop \in Nat /\ timers[t].left \in Nat /\ timers[t].interval \in Nat
             /\ timers[t] # NoTimer => timers[t].interval > 0
  BY <1>3, Parts, TimeAssumption DEF TimersFine, TimerType
<1>. QED  BY <1>1, <1>2, <1>3, Zenon

\* If no refresh time is too long, the record is there whatever happens.
SteadyKept == call = "active" /\ billed /\ longest < 2 * first => record.ttl > 0

\* What the invariants say of it.
LEMMA SteadyIsKept == LifeInv => SteadyKept
BY Typed DEF LifeInv, Keeps, SteadyKept

\* An ACR is never older than the interval the CDF asked for.
LEMMA IntervalFrom == LifeInv /\ Recent /\ Covered => IntervalKept
<1>1. ASSUME LifeInv, Recent, Covered, call = "active", billed, inOrder, Lasting
      PROVE  sinceAcr <= asked + Latency
  <2>1. CASE \E a \in Slots : FromSprout(a)
    BY <1>1, <2>1, ClocksTyped DEF Recent, FromSprout
  <2>2. CASE \A a \in Slots : ~FromSprout(a)
    BY <1>1, <2>2, ClocksTyped DEF Covered, Covers
  <2>. QED  BY <2>1, <2>2, Zenon
<1>. QED  BY <1>1, Zenon DEF IntervalKept, Lasting

\* A record that was just renewed.
LEMMA RecordRenewed ==
  ASSUME LifeInv, record.ttl > 0, record'.ttl = Lifetime(record.refresh),
         sinceAcr' \in Nat, UNCHANGED first
  PROVE  Aged' /\ Stays'
<1>1. record \in RecordType /\ record.refresh \in RefreshTimes /\ record # NoRecord
  BY Typed DEF RecordType, NoRecord
<1>2. record.refresh = first
  BY <1>1, Parts, Zenon DEF OfFirst
<1>3. first \in Nat /\ 0 < first /\ record'.ttl = 2 * first
  BY <1>1, <1>2, RefreshType
<1>4. 2 * first > 0 /\ 2 * first <= 2 * first + sinceAcr'
  BY <1>3, Twice, Zenon
<1>. QED  BY <1>3, <1>4, Zenon DEF Aged, Stays

\* A request of Sprout is its newest, and answered last.
LEMMA SproutAsks ==
  ASSUME LifeInv, Recent, NEW a \in Slots, NEW acr \in AcrType,
         acrs[a] = NoAcr, acrs' = [acrs EXCEPT ![a] = acr],
         acr.wait = Latency, ~acr.timer_interim, sinceAcr' = 0, due' = acr.refresh
  PROVE  Recent' /\ InTime' /\ Covered'
<1>1. /\ acrs'[a] = acr /\ acr # NoAcr /\ acr.refresh \in Nat
      /\ \A b \in Slots : b # a => acrs'[b] = acrs[b]
  BY SlotAssumption, RefreshType, Typed, Zenon DEF AcrType
<1>2. FromSprout(a)'
  BY <1>1, Zenon DEF FromSprout
<1>3. Recent'
  BY <1>1, ClocksTyped DEF Recent
<1>4. ASSUME NEW b \in Slots, Newest(b)' PROVE b = a
  BY <1>1, <1>2, <1>4, ClocksTyped DEF Newest, FromSprout
<1>5. InTime'
  BY <1>1, <1>4, ClocksTyped DEF InTime
<1>. QED  BY <1>2, <1>3, <1>5, Zenon DEF Covered

\* The START.
LEMMA IntervalStart == LifeInv /\ IntervalInv /\ Start => IntervalInv'
<1>. SUFFICES ASSUME LifeInv, IntervalInv, Start PROVE IntervalInv'
  BY Zenon
<1>1. PICK refresh \in RefreshTimes :
        Sent(Acr("START", FALSE, refresh, 0, NO_TIMER)) /\ due' = refresh
  BY Zenon DEF Start
<1>. DEFINE acr == Acr("START", FALSE, refresh, 0, NO_TIMER)
<1>2. PICK a \in Slots : acrs[a] = NoAcr /\ acrs' = [acrs EXCEPT ![a] = acr]
  BY <1>1, Zenon DEF Sent
<1>3. acr \in AcrType /\ acr.wait = Latency /\ ~acr.timer_interim /\ acr.refresh = refresh
  BY AcrTyped, Zenon DEF Acr
<1>4. Recent' /\ InTime' /\ Covered'
  <2>. HIDE DEF acr
  <2>1. sinceAcr' = 0 /\ Recent
    BY Zenon DEF Start, IntervalInv
  <2>. QED  BY <1>1, <1>2, <1>3, <2>1, SproutAsks, Zenon
<1>5. Starting'
  <2>1. ~billed /\ record = NoRecord /\ \A b \in Slots : acrs[b] = NoAcr
    BY Parts, Zenon DEF Start, Idle
  <2>2. UNCHANGED <<record, billed>>
    BY Zenon DEF Start
  <2>3. \A b \in Slots \ {a} : acrs'[b] = NoAcr
    BY <1>2, <2>1, Typed, Zenon
  <2>. QED  BY <2>1, <2>2, <2>3, Zenon DEF Starting
<1>6. Aged' /\ Stays'
  <2>1. ~billed /\ record = NoRecord /\ UNCHANGED <<record, billed>>
    BY Parts, Zenon DEF Start, Idle
  <2>. QED  BY <2>1, Zenon DEF Aged, Stays
<1>. QED  BY <1>4, <1>5, <1>6, Zenon DEF IntervalInv

\* An INTERIM of Sprout, which finds the record of a call or is out of order.
LEMMA IntervalRefresh == LifeInv /\ IntervalInv /\ Refresh => IntervalInv'
<1>. SUFFICES ASSUME LifeInv, IntervalInv, Refresh PROVE IntervalInv'
  OBVIOUS
<1>1. PICK refresh \in RefreshTimes : HandleInterim(refresh, FALSE) /\ due' = refresh
  BY Zenon DEF Refresh
<1>2. UNCHANGED <<call, timers, billed, asked, first>>
  BY Zenon DEF Refresh
<1>3. CASE record.ttl = 0
  <2>1. ~inOrder' /\ UNCHANGED <<record, acrs, sinceAcr>>
    <3>1. ~(record.ttl > 0)
      BY <1>3
    <3>. QED  BY <1>1, <3>1, Zenon DEF HandleInterim
  <2>. QED
    BY <1>2, <2>1, Zenon DEF IntervalInv, Starting, Recent, InTime, Covered, Aged, Stays
<1>4. CASE record.ttl # 0
  <2>. DEFINE acr == Acr("INTERIM", FALSE, refresh, record.interval, record.timer)
  <2>0. refresh # 0
    BY RefreshType
  <2>1. sinceAcr' = 0 /\ Sent(acr)
    BY <1>1, <1>4, <2>0, Zenon DEF HandleInterim
  <2>2. PICK a \in Slots : acrs[a] = NoAcr /\ acrs' = [acrs EXCEPT ![a] = acr]
    BY <2>1, Zenon DEF Sent
  <2>3. record.interval \in Nat /\ record.timer \in TimerIds \cup {NO_TIMER}
    BY <1>4, Typed DEF RecordType
  <2>4. /\ acr \in AcrType /\ acr.wait = Latency /\ ~acr.timer_interim
        /\ acr.refresh = refresh /\ acr.type = "INTERIM"
    BY <2>3, AcrTyped, Zenon DEF Acr
  <2>5. Recent' /\ InTime' /\ Covered'
    <3>. HIDE DEF acr
    <3>. QED  BY <1>1, <2>1, <2>2, <2>4, SproutAsks, Zenon DEF IntervalInv
  <2>6. Starting'
    <3>1. \A b \in Slots : acrs[b] # NoAcr => acrs[b].type # "START"
      BY <1>4 DEF IntervalInv, Starting, NoRecord
    <3>. HIDE DEF acr
    <3>2. \A b \in Slots : acrs'[b] # NoAcr => acrs'[b].type # "START"
      BY <2>2, <2>4, <3>1, Typed, Zenon
    <3>. QED  BY <3>2, Zenon DEF Starting
  <2>7. Aged' /\ Stays'
    <3>1. record.ttl > 0 /\ sinceAcr' \in Nat
      BY <1>4, <2>1, Typed
    <3>2. record' = [record EXCEPT !.ttl = Lifetime(record.refresh)] /\ record \in RecordType
      BY <1>1, <1>4, <3>1, Typed, Zenon DEF HandleInterim
    <3>3. record'.ttl = Lifetime(record.refresh)
      BY <3>2, Zenon DEF RecordType
    <3>. QED  BY <1>2, <3>1, <3>3, RecordRenewed, Zenon
  <2>. QED  BY <2>5, <2>6, <2>7, Zenon DEF IntervalInv
<1>. QED  BY <1>3, <1>4, Zenon
\* A timer pops: the record is there, and the ACR starts a new interval.
LEMMA IntervalPop ==
  ASSUME LifeInv, IntervalInv, NEW t \in TimerIds, Pop(t)
  PROVE  IntervalInv'
<1>1. /\ timers[t] # NoTimer /\ timers[t].pop = 0 /\ HandleInterim(0, TRUE)
      /\ UNCHANGED <<sprout, billed, asked, first, longest>>
  BY Zenon DEF Pop
<1>2. UNCHANGED <<call, due, billed, asked, first, longest>>
  BY <1>1, Zenon DEF sprout
<1>3. CASE ~(record.ttl > 0)
  <2>1. inOrder' = (inOrder /\ TRUE) /\ UNCHANGED <<record, acrs, sinceAcr>>
    BY <1>1, <1>3, Zenon DEF HandleInterim
  <2>2. ~(call = "active" /\ billed /\ inOrder /\ Lasting)
    BY <1>3, Zenon DEF IntervalInv, Stays
  <2>. QED
    BY <1>2, <2>1, <2>2, Zenon DEF IntervalInv, Starting, Recent, InTime, Covered, Newest,
       FromSprout, Lasting, Aged, Stays
<1>4. CASE record.ttl > 0
  <2>1. UNCHANGED inOrder /\ sinceAcr' = 0
        /\ Sent(Acr("INTERIM", TRUE, record.refresh, record.interval, record.timer))
    <3>1. record.ttl # 0
      BY <1>4
    <3>2. /\ UNCHANGED inOrder /\ sinceAcr' = 0
          /\ Sent(Acr("INTERIM", TRUE, IF 0 = 0 THEN record.refresh ELSE 0,
                      record.interval, record.timer))
      BY <1>1, <3>1, Zenon DEF HandleInterim
    <3>. QED  BY <3>2, Zenon
  <2>. DEFINE acr == Acr("INTERIM", TRUE, record.refresh, record.interval, record.timer)
  <2>2. PICK a \in Slots : acrs[a] = NoAcr /\ acrs' = [acrs EXCEPT ![a] = acr]
    BY <2>1, Zenon DEF Sent
  <2>3. /\ record.interval \in Nat /\ record.timer \in TimerIds \cup {NO_TIMER}
        /\ record.refresh \in RefreshTimes
    BY <1>4, Typed, Zenon DEF RecordType
  <2>4. acr \in AcrType /\ acr.wait = Latency /\ acr.timer_interim /\ acr.type = "INTERIM"
    BY <2>3, AcrTyped, Zenon DEF Acr
  <2>. HIDE DEF acr
  <2>5. acrs'[a] = acr /\ \A b \in Slots : b # a => acrs'[b] = acrs[b]
    BY <2>2, Typed, Zenon
  <2>6. \A b \in Slots : FromSprout(b)' <=> FromSprout(b)
    BY <2>2, <2>4, <2>5, Zenon DEF FromSprout
  <2>7. \A b \in Slots : FromSprout(b) => b # a /\ acrs'[b] = acrs[b]
    BY <2>2, <2>5, Zenon DEF FromSprout
  <2>8. \A b \in Slots : Newest(b)' => Newest(b)
    BY <2>6, <2>7, Zenon DEF Newest
  <2>9. Starting'
    <3>1. \A b \in Slots : acrs[b] # NoAcr => acrs[b].type # "START"
      BY <1>4 DEF IntervalInv, Starting, NoRecord
    <3>. QED  BY <2>4, <2>5, <3>1, Zenon DEF Starting
  <2>10. Recent'
    BY <2>1, <2>4, <2>5, ClocksTyped DEF Recent
  <2>11. InTime'
    <3>1. \A b \in Slots : Newest(b) => acrs'[b] = acrs[b]
      BY <2>7, Zenon DEF Newest
    <3>. QED  BY <1>2, <2>1, <2>8, <3>1, Zenon DEF IntervalInv, InTime
  <2>12. Covered'
    <3>0. UNCHANGED Lasting
      BY <1>2, Zenon DEF Lasting
    <3>. SUFFICES ASSUME call = "active", billed, inOrder, Lasting,
                         \A b \in Slots : ~FromSprout(b)
                  PROVE  due <= asked + Latency \/ \E u \in TimerIds : Covers(u)'
      BY <1>2, <2>1, <2>6, <3>0, ClocksTyped DEF Covered
    <3>1. CASE sinceAcr + due <= asked + Latency
      BY <3>1, ClocksTyped
    <3>2. CASE \E u \in TimerIds : Covers(u)
      <4>1. PICK u \in TimerIds : Covers(u)
        BY <3>2, Zenon
      <4>2. timers \in [TimerIds -> TimerType]
        BY Typed, Zenon
      <4>3. CASE u = t /\ timers[t].left < timers[t].interval
        BY <4>1, <4>3, ClocksTyped DEF Covers
      <4>4. CASE u = t /\ ~(timers[t].left < timers[t].interval)
        <5>1. timers'[t] = [timers[t] EXCEPT !.pop = timers[t].interval]
          BY <4>2, <4>4, Zenon DEF Pop
        <5>2. /\ timers'[t].pop = timers[t].interval /\ timers'[t].interval = timers[t].interval
              /\ timers'[t].left = timers[t].left
          BY <4>2, <5>1, Zenon DEF TimerType
        <5>3. timers'[t] # NoTimer
          BY <1>1, <5>2, ClocksTyped DEF NoTimer
        <5>. QED  BY <1>2, <2>1, <4>1, <4>4, <5>2, <5>3, ClocksTyped DEF Covers
      <4>5. CASE u # t
        <5>1. timers'[u] = timers[u]
          BY <4>2, <4>5, Zenon DEF Pop
        <5>. QED  BY <1>2, <2>1, <4>1, <5>1, ClocksTyped DEF Covers
      <4>. QED  BY <4>3, <4>4, <4>5, Zenon
    <3>. QED  BY <3>1, <3>2, Zenon DEF IntervalInv, Covered
  <2>13. Aged' /\ Stays'
    <3>1. sinceAcr' \in Nat
      BY <2>1
    <3>2. record' = [record EXCEPT !.ttl = Lifetime(record.refresh)] /\ record \in RecordType
      <4>1. record.ttl # 0
        BY <1>4
      <4>. QED  BY <1>1, <1>4, <4>1, Typed, Zenon DEF HandleInterim
    <3>3. record'.ttl = Lifetime(record.refresh)
      BY <3>2, Zenon DEF RecordType
    <3>. QED  BY <1>2, <1>4, <3>1, <3>3, RecordRenewed, Zenon
  <2>. QED  BY <2>9, <2>10, <2>11, <2>12, <2>13, Zenon DEF IntervalInv
<1>. QED  BY <1>3, <1>4, Zenon

\* Time passes: every clock of the argument runs by one.
LEMMA IntervalTick == LifeInv /\ IntervalInv /\ Tick => IntervalInv'
<1>. SUFFICES ASSUME LifeInv, IntervalInv, Tick PROVE IntervalInv'
  OBVIOUS
<1>1. UNCHANGED <<call, billed, asked, first, longest, inOrder>> /\ NothingDue
  BY Zenon DEF Tick
<1>2. /\ sinceAcr' \in Nat /\ sinceAcr' <= sinceAcr + 1
      /\ call = "active" => due' = due - 1 /\ due > 0
  <2>1. sinceAcr' = Min(sinceAcr + 1, Horizon) /\ due' = Max(due - 1, 0)
    BY Zenon DEF Tick
  <2>2. call = "active" => due > 0
    BY <1>1, Zenon DEF NothingDue
  <2>. QED  BY <2>1, <2>2, ClocksTyped, HorizonType DEF Min, Max
<1>3. \A a \in Slots :
        /\ acrs[a] = NoAcr <=> acrs'[a] = NoAcr
        /\ acrs[a] # NoAcr =>
             /\ acrs'[a].wait = acrs[a].wait - 1 /\ acrs[a].wait > 0
             /\ acrs'[a].timer_interim = acrs[a].timer_interim
             /\ acrs'[a].refresh = acrs[a].refresh
             /\ acrs'[a].type = acrs[a].type
  <2>. SUFFICES ASSUME NEW a \in Slots, acrs[a] # NoAcr
                PROVE  /\ acrs'[a] # NoAcr
                       /\ acrs'[a].wait = acrs[a].wait - 1 /\ acrs[a].wait > 0
                       /\ acrs'[a].timer_interim = acrs[a].timer_interim
                       /\ acrs'[a].refresh = acrs[a].refresh
                       /\ acrs'[a].type = acrs[a].type
    BY Zenon DEF Tick
  <2>1. acrs'[a] = [acrs[a] EXCEPT !.wait = acrs[a].wait - 1]
    BY Zenon DEF Tick
  <2>2. acrs[a] \in AcrType /\ acrs[a].wait > 0
    BY <1>1, Typed, Zenon DEF NothingDue
  <2>3. /\ acrs'[a].wait = acrs[a].wait - 1
        /\ acrs'[a].timer_interim = acrs[a].timer_interim
        /\ acrs'[a].refresh = acrs[a].refresh
        /\ acrs'[a].type = acrs[a].type
    BY <2>1, <2>2, Zenon DEF AcrType
  <2>4. acrs'[a] \in AcrType
    BY <2>1, <2>2, TimeAssumption DEF AcrType
  <2>. QED  BY <2>2, <2>3, <2>4, SlotAssumption, Zenon
<1>4. \A a \in Slots : FromSprout(a)' <=> FromSprout(a)
  BY <1>3, Zenon DEF FromSprout
<1>5. \A a \in Slots : Newest(a)' => Newest(a)
  BY <1>3, <1>4, ClocksTyped DEF Newest, FromSprout
<1>6. Starting'
  <2>1. record = NoRecord => record' = NoRecord
    <3>1. record' = IF record.ttl <= 1 THEN NoRecord ELSE [record EXCEPT !.ttl = @ - 1]
      BY Zenon DEF Tick
    <3>2. NoRecord.ttl = 0
      BY Zenon DEF NoRecord
    <3>. QED  BY <3>1, <3>2
  <2>. QED  BY <1>1, <1>3, <2>1, Zenon DEF IntervalInv, Starting
<1>7. Recent'
  BY <1>2, <1>3, ClocksTyped DEF IntervalInv, Recent
<1>8. InTime'
  BY <1>1, <1>2, <1>3, <1>5, ClocksTyped DEF IntervalInv, InTime, Newest, FromSprout
<1>9. Covered'
  <2>. SUFFICES ASSUME call = "active", billed, inOrder, Lasting, \A a \in Slots : ~FromSprout(a)
                PROVE  sinceAcr' + due' <= asked + Latency \/ \E t \in TimerIds : Covers(t)'
    BY <1>1, <1>4, Zenon DEF Covered, Lasting
  <2>1. CASE sinceAcr + due <= asked + Latency
    BY <1>2, <2>1, ClocksTyped
  <2>2. CASE \E t \in TimerIds : Covers(t)
    <3>1. PICK t \in TimerIds : Covers(t)
      BY <2>2, Zenon
    <3>2. timers'[t] = [timers[t] EXCEPT !.pop = timers[t].pop - 1, !.left = timers[t].left - 1]
      BY <3>1, Zenon DEF Tick, Covers
    <3>3. /\ timers'[t].pop = timers[t].pop - 1 /\ timers'[t].left = timers[t].left - 1
          /\ timers'[t].interval = timers[t].interval
      BY <3>2, Typed DEF TimerType
    <3>4. timers'[t] # NoTimer
      BY <3>1, <3>3, ClocksTyped DEF Covers, NoTimer
    <3>. QED  BY <1>1, <1>2, <3>1, <3>3, <3>4, ClocksTyped DEF Covers
  <2>. QED  BY <2>1, <2>2, Zenon DEF IntervalInv, Covered
<1>10. Aged'
  <2>. SUFFICES ASSUME record' # NoRecord PROVE 2 * first <= record'.ttl + sinceAcr'
    BY <1>1, Zenon DEF Aged
  <2>1. record' = IF record.ttl <= 1 THEN NoRecord ELSE [record EXCEPT !.ttl = @ - 1]
    BY Zenon DEF Tick
  <2>2. record # NoRecord /\ record' = [record EXCEPT !.ttl = record.ttl - 1]
    BY <2>1 DEF NoRecord
  <2>3. record.ttl \in Nat /\ record \in RecordType
    BY <2>2, Typed, Zenon
  <2>4. record'.ttl = record.ttl - 1
    BY <2>2, <2>3, Zenon DEF RecordType
  <2>5. 2 * first <= record.ttl + sinceAcr
    BY <2>2, Zenon DEF IntervalInv, Aged
  <2>6. sinceAcr' = Min(sinceAcr + 1, Horizon) /\ record.ttl > 1
    <3>1. ~(record.ttl <= 1)
      BY <2>1, Zenon
    <3>2. sinceAcr' = Min(sinceAcr + 1, Horizon)
      BY Zenon DEF Tick
    <3>3. record.ttl > 1
      BY <2>3, <3>1
    <3>. QED  BY <3>2, <3>3, Zenon
  <2>7. 2 * first <= Horizon
    BY ClocksTyped, HorizonType, TimeAssumption
  <2>. QED  BY <2>3, <2>4, <2>5, <2>6, <2>7, ClocksTyped, HorizonType DEF Min
<1>11. Stays'
  <2>. SUFFICES ASSUME call = "active", billed, inOrder, Lasting
                PROVE  record'.ttl > 0
    BY <1>1, Zenon DEF Stays, Lasting
  <2>1. LifeInv'
    BY LifeTick, Zenon
  <2>2. CASE longest < 2 * first
    <3>1. SteadyKept'
      BY <2>1, SteadyIsKept, PTL
    <3>. QED  BY <1>1, <2>2, <3>1, Zenon DEF SteadyKept
  <2>3. CASE asked + Latency < 2 * first
    <3>1. IntervalKept'
      BY <1>7, <1>9, <2>1, IntervalFrom, PTL
    <3>2. sinceAcr' <= asked + Latency
      BY <1>1, <2>3, <3>1, Zenon DEF IntervalKept
    <3>3. record.ttl > 0
      BY Zenon DEF IntervalInv, Stays
    <3>4. record # NoRecord /\ record \in RecordType /\ record.ttl \in Nat
      BY <3>3, Typed DEF NoRecord
    <3>5. 2 * first <= record.ttl + sinceAcr
      BY <3>4, Zenon DEF IntervalInv, Aged
    <3>6. sinceAcr' = Min(sinceAcr + 1, Horizon) /\ 2 * first <= Horizon
      <4>1. sinceAcr' = Min(sinceAcr + 1, Horizon)
        BY Zenon DEF Tick
      <4>2. 2 * first <= Horizon
        BY ClocksTyped, HorizonType, TimeAssumption
      <4>. QED  BY <4>1, <4>2, Zenon
    <3>7. record.ttl > 1
      BY <2>3, <3>2, <3>3, <3>4, <3>5, <3>6, ClocksTyped, HorizonType DEF Min
    <3>8. record' = [record EXCEPT !.ttl = record.ttl - 1]
      <4>1. ~(record.ttl <= 1)
        BY <3>4, <3>7
      <4>. QED  BY <4>1, Zenon DEF Tick
    <3>9. record'.ttl = record.ttl - 1
      BY <3>4, <3>8, Zenon DEF RecordType
    <3>. QED  BY <3>4, <3>7, <3>9
  <2>. QED  BY <2>2, <2>3, Zenon DEF Lasting
<1>. QED  BY <1>6, <1>7, <1>8, <1>9, <1>10, <1>11, Zenon DEF IntervalInv

\* A timer set for the interval and the refresh time of the last answer covers the
\* call until Sprout's next request.
LEMMA TimerCovers ==
  ASSUME LifeInv, NEW t \in TimerIds, NEW interval \in Nat \ {0}, NEW refresh \in Nat,
         timers' = [timers EXCEPT ![t] = Timer(interval, refresh)],
         UNCHANGED <<due, sinceAcr>>, sinceAcr <= Latency, due <= refresh,
         asked' \in Nat, interval <= asked'
  PROVE  Covers(t)'
<1>1. timers'[t] = Timer(interval, refresh)
  BY Typed, Zenon
<1>2. timers'[t].pop = interval /\ timers'[t].interval = interval /\ timers'[t].left = refresh
  BY <1>1 DEF Timer
<1>3. timers'[t] # NoTimer
  BY <1>2 DEF NoTimer
<1>4. sinceAcr + interval <= asked' + Latency
  BY ClocksTyped
<1>. QED  BY <1>2, <1>3, <1>4, Zenon DEF Covers

\* An answer: the last one Sprout waits for sets a timer, unless the interval is
\* not shorter than the time to Sprout's next request.
LEMMA IntervalAnswer ==
  ASSUME LifeInv, IntervalInv, NEW a \in Slots, OnCcfResponse(a)
  PROVE  IntervalInv'
<1>. DEFINE acr == acrs[a]
<1>1. PICK rc \in {"SUCCESS", "UNKNOWN_SESSION_ID", "OTHER"}, answered \in Intervals :
        LET interval == EffectiveInterval(answered, acr.interval, acr.refresh)
            stores   == acr.type = "START" /\ rc = "SUCCESS"
            kills    == acr.type = "INTERIM" /\ rc = "UNKNOWN_SESSION_ID"
        IN /\ \/ stores /\ StoreSession(acr, interval)
              \/ kills /\ record' = NoRecord /\ UNCHANGED timers
              \/ Renews(acr, rc, interval) /\ RenewTimer(acr, interval)
              \/ ~stores /\ ~kills /\ ~Renews(acr, rc, interval) /\ UNCHANGED <<record, timers>>
           /\ billed' = (~kills /\ (billed \/ stores))
           /\ asked' = IF acr.timer_interim THEN asked ELSE Max(asked, interval)
           /\ inOrder' = (/\ inOrder
                          /\ acr.timer_interim \/ \A b \in Slots \ {a} :
                               \/ acrs[b] = NoAcr
                               \/ acrs[b].timer_interim
                               \/ acrs[b].wait > acr.wait)
  BY Zenon DEF OnCcfResponse
<1>. DEFINE interval == EffectiveInterval(answered, acr.interval, acr.refresh)
            stores   == acr.type = "START" /\ rc = "SUCCESS"
            kills    == acr.type = "INTERIM" /\ rc = "UNKNOWN_SESSION_ID"
<1>2. /\ acr # NoAcr /\ acrs' = [acrs EXCEPT ![a] = NoAcr]
      /\ UNCHANGED <<call, due, sinceAcr, first, longest>>
  BY Zenon DEF OnCcfResponse, sprout
<1>3. acrs'[a] = NoAcr /\ \A b \in Slots : b # a => acrs'[b] = acrs[b]
  BY <1>2, Typed, Zenon
<1>4. /\ acr.refresh \in RefreshTimes /\ acr.refresh \in Nat /\ acr.interval \in Nat
      /\ acr.timer \in TimerIds \cup {NO_TIMER}
      /\ acr.wait \in Nat /\ acr.type \in {"START", "INTERIM"}
      /\ acr.timer_interim => acr.type = "INTERIM"
  BY <1>2, ClocksTyped, Parts, Zenon DEF AcrsFine, AcrType
<1>5. /\ inOrder' => inOrder
      /\ inOrder' /\ ~acr.timer_interim =>
           \A b \in Slots \ {a} : FromSprout(b) => acrs[b].wait > acr.wait
  BY <1>1, Zenon DEF FromSprout
<1>6. \A b \in Slots : FromSprout(b)' <=> b # a /\ FromSprout(b)
  BY <1>3, Zenon DEF FromSprout
<1>7. Starting'
  BY <1>2, <1>3, Zenon DEF IntervalInv, Starting
<1>8. Recent'
  BY <1>2, <1>3, Zenon DEF IntervalInv, Recent
<1>9. InTime'
  <2>. SUFFICES ASSUME call = "active", inOrder', NEW b \in Slots, Newest(b)'
                PROVE  due + Latency <= acrs[b].refresh + acrs[b].wait /\ acrs'[b] = acrs[b]
    BY <1>2, Zenon DEF InTime
  <2>1. b # a /\ FromSprout(b) /\ acrs'[b] = acrs[b]
    BY <1>3, <1>6, Zenon DEF Newest
  <2>2. ASSUME NEW c \in Slots \ {b}, FromSprout(c) PROVE acrs[c].wait < acrs[b].wait
    <3>1. CASE c = a
      <4>1. acrs[b].wait > acr.wait
        BY <1>5, <2>1, <2>2, <3>1, Zenon DEF FromSprout
      <4>. QED  BY <1>4, <2>1, <3>1, <4>1, ClocksTyped, Zenon DEF FromSprout
    <3>2. CASE c # a
      BY <1>3, <1>6, <2>1, <2>2, <3>2, Zenon DEF Newest
    <3>. QED  BY <3>1, <3>2, Zenon
  <2>3. Newest(b)
    BY <2>1, <2>2, Zenon DEF Newest
  <2>. QED  BY <1>5, <2>1, <2>3, Zenon DEF IntervalInv, InTime
<1>10. asked' \in Nat /\ asked <= asked' /\ (Lasting' => Lasting)
  <2>1. interval \in Nat
    BY <1>4, IntervalType, Zenon
  <2>. HIDE DEF interval
  <2>2. asked' = IF acr.timer_interim THEN asked ELSE Max(asked, interval)
    BY <1>1, Zenon DEF interval
  <2>3. asked' \in Nat /\ asked <= asked'
    BY <2>1, <2>2, ClocksTyped DEF Max
  <2>. QED  BY <1>2, <2>3, ClocksTyped DEF Lasting
<1>11. Covered'
  <2>. SUFFICES ASSUME call = "active", billed', inOrder', Lasting',
                       \A b \in Slots : ~FromSprout(b)'
                PROVE  sinceAcr + due <= asked' + Latency \/ \E t \in TimerIds : Covers(t)'
    BY <1>2, Zenon DEF Covered
  <2>0. Lasting
    BY <1>10, Zenon
  <2>1. ~kills /\ (billed \/ stores) /\ inOrder
    BY <1>1, <1>5, Zenon
  <2>2. CASE acr.timer_interim
    <3>1. ~stores /\ ~Renews(acr, rc, interval) /\ asked' = asked
      BY <1>1, <1>4, <2>2, Zenon DEF Renews
    <3>2. UNCHANGED timers
      BY <1>1, <2>1, <3>1, Zenon
    <3>3. \A b \in Slots : ~FromSprout(b)
      BY <1>6, <2>2, Zenon DEF FromSprout
    <3>4. sinceAcr + due <= asked + Latency \/ \E t \in TimerIds : Covers(t)
      BY <2>0, <2>1, <3>1, <3>3, Zenon DEF IntervalInv, Covered
    <3>. QED  BY <1>2, <3>1, <3>2, <3>4, Zenon DEF Covers
  <2>3. CASE ~acr.timer_interim
    <3>1. interval \in Nat \ {0}
      BY <1>4, IntervalType, Zenon
    <3>2. asked' \in Nat /\ interval <= asked'
      <4>. HIDE DEF interval
      <4>1. asked \in Nat /\ asked' = Max(asked, interval)
        BY <1>1, <2>3, ClocksTyped, Zenon DEF interval
      <4>. QED  BY <3>1, <4>1 DEF Max
    <3>3. Newest(a)
      BY <1>2, <1>6, <2>3, Zenon DEF Newest, FromSprout
    <3>4. due + Latency <= acr.refresh + acr.wait /\ sinceAcr + acr.wait <= Latency
      BY <1>2, <2>1, <3>3, Zenon DEF IntervalInv, InTime, Recent
    <3>5. CASE ~NeedsTimer(acr.refresh, interval)
      <4>. HIDE DEF interval
      <4>1. acr.refresh <= interval
        BY <1>4, <3>1, <3>5 DEF NeedsTimer
      <4>. QED  BY <1>4, <3>1, <3>2, <3>4, <4>1, ClocksTyped
    <3>6. CASE NeedsTimer(acr.refresh, interval)
      <4>1. PICK t \in TimerIds : timers' = [timers EXCEPT ![t] = Timer(interval, acr.refresh)]
        <5>1. CASE acr.type = "START"
          <6>1. ~billed
            BY <1>2, <5>1, Zenon DEF IntervalInv, Starting
          <6>2. StoreSession(acr, interval)
            BY <1>1, <2>1, <5>1, <6>1, Zenon DEF Renews
          <6>. HIDE DEF interval
          <6>. QED  BY <3>6, <6>2, Zenon DEF StoreSession, Post
        <5>2. CASE acr.type = "INTERIM"
          <6>1. rc # "UNKNOWN_SESSION_ID" /\ Renews(acr, rc, interval)
            BY <2>1, <2>3, <3>6, <5>2, Zenon DEF Renews
          <6>2. RenewTimer(acr, interval)
            BY <1>1, <2>1, <5>2, <6>1, Zenon
          <6>. HIDE DEF interval
          <6>. QED  BY <1>4, <6>2, Zenon DEF RenewTimer, Post
        <5>. QED  BY <1>4, <5>1, <5>2, Zenon
      <4>. HIDE DEF interval
      <4>2. sinceAcr <= Latency /\ due <= acr.refresh
        BY <1>4, <3>4, ClocksTyped
      <4>. QED  BY <1>2, <1>4, <3>1, <3>2, <4>1, <4>2, TimerCovers, Zenon
    <3>. QED  BY <3>5, <3>6, Zenon
  <2>. QED  BY <2>2, <2>3, Zenon
<1>12. Aged' /\ Stays'
  <2>1. CASE stores /\ StoreSession(acr, interval)
    <3>1. record'.ttl = Lifetime(acr.refresh)
      <4>1. \E id \in TimerIds \cup {NO_TIMER} :
              record' = [ ttl |-> Lifetime(acr.refresh), refresh |-> acr.refresh,
                          interval |-> interval, timer |-> id ]
        BY <2>1, Zenon DEF StoreSession
      <4>. HIDE DEF acr, interval
      <4>. QED  BY <4>1
    <3>2. acr.refresh = first
      BY <1>2, <2>1, Parts, Zenon DEF OfFirst
    <3>3. first \in Nat /\ 0 < first /\ Lifetime(first) = 2 * first /\ sinceAcr \in Nat
      BY <1>4, <3>2, RefreshType, ClocksTyped, Zenon
    <3>4. 2 * first > 0 /\ 2 * first <= 2 * first + sinceAcr
      BY <3>3, Twice, Zenon
    <3>. QED  BY <1>2, <3>1, <3>2, <3>3, <3>4, Zenon DEF Aged, Stays
  <2>2. CASE kills /\ record' = NoRecord
    <3>1. ~billed'
      BY <1>1, <2>2, Zenon
    <3>. QED  BY <2>2, <3>1, Zenon DEF Aged, Stays
  <2>3. CASE ~stores /\ ~kills /\ UNCHANGED record
    <3>1. billed' => billed
      BY <1>1, <2>3, Zenon
    <3>. QED  BY <1>2, <1>5, <1>10, <2>3, <3>1, Zenon DEF IntervalInv, Aged, Stays
  <2>4. CASE /\ record.ttl > 0
             /\ record'.ttl = Lifetime(record.refresh)
    <3>1. sinceAcr' \in Nat
      BY <1>2, ClocksTyped, Zenon
    <3>. QED  BY <1>2, <2>4, <3>1, RecordRenewed, Zenon
  <2>5. ASSUME Renews(acr, rc, interval), RenewTimer(acr, interval)
        PROVE  <2>3!1 \/ <2>4!1
    <3>1. ~stores /\ ~kills
      BY <2>5, Zenon DEF Renews
    <3>2. record.ttl > 0 => record \in RecordType
      BY Typed, Zenon
    <3>3. \/ UNCHANGED record
          \/ \E id \in TimerIds :
               /\ record.ttl > 0
               /\ record' = [record EXCEPT !.timer = id, !.ttl = Lifetime(record.refresh)]
      BY <2>5, Zenon DEF RenewTimer
    <3>. QED  BY <3>1, <3>2, <3>3, Zenon DEF RecordType
  <2>. QED  BY <1>1, <2>1, <2>2, <2>3, <2>4, <2>5, Zenon
<1>. QED  BY <1>7, <1>8, <1>9, <1>11, <1>12, Zenon DEF IntervalInv

\* A node fails: an answer that is lost is out of order, unless it is the timer's.
LEMMA IntervalCrash ==
  ASSUME LifeInv, IntervalInv, NEW a \in Slots, Crash(a)
  PROVE  IntervalInv'
<1>1. /\ acrs[a] # NoAcr /\ acrs' = [acrs EXCEPT ![a] = NoAcr]
      /\ UNCHANGED <<call, due, record, billed, sinceAcr, asked, first, longest>>
      /\ inOrder' <=> inOrder /\ acrs[a].timer_interim
      /\ acrs[a].timer_interim => UNCHANGED timers
  BY Zenon DEF Crash, sprout
<1>2. acrs'[a] = NoAcr /\ \A b \in Slots : b # a => acrs'[b] = acrs[b]
  BY <1>1, Typed, Zenon
<1>3. Starting' /\ Recent'
  BY <1>1, <1>2, Zenon DEF IntervalInv, Starting, Recent
<1>4. Aged' /\ Stays'
  BY <1>1, Zenon DEF IntervalInv, Aged, Stays, Lasting
<1>5. CASE ~inOrder'
  BY <1>3, <1>4, <1>5, Zenon DEF IntervalInv, InTime, Covered
<1>6. CASE inOrder'
  <2>1. \A b \in Slots : /\ FromSprout(b)' <=> FromSprout(b)
                         /\ FromSprout(b) => acrs'[b] = acrs[b]
    BY <1>1, <1>2, <1>6, Zenon DEF FromSprout
  <2>2. \A b \in Slots : Newest(b)' => Newest(b) /\ acrs'[b] = acrs[b]
    BY <2>1, Zenon DEF Newest
  <2>3. InTime'
    BY <1>1, <2>2, Zenon DEF IntervalInv, InTime
  <2>4. Covered'
    BY <1>1, <1>6, <2>1, Zenon DEF IntervalInv, Covered, Covers, Lasting
  <2>. QED  BY <1>3, <1>4, <2>3, <2>4, Zenon DEF IntervalInv
<1>. QED  BY <1>5, <1>6, Zenon

\* Every step keeps IntervalInv.
LEMMA IntervalNext == LifeInv /\ IntervalInv /\ [Next]_vars => IntervalInv'
<1>. SUFFICES ASSUME LifeInv, IntervalInv, [Next]_vars PROVE IntervalInv'
  BY Zenon
<1>1. CASE Stop \/ Vanish
  <2>1. call' = "ended" /\ UNCHANGED <<acrs, ghosts>> /\ record' \in {record, NoRecord}
    BY <1>1, Zenon DEF Stop, Vanish
  <2>. QED
    BY <2>1, Zenon DEF ghosts, IntervalInv, Starting, Recent, InTime, Covered, Aged, Stays
<1>2. CASE UNCHANGED vars
  BY <1>2, Zenon DEF vars, sprout, ghosts, IntervalInv, Starting, Recent, InTime, Covered,
     Newest, FromSprout, Covers, Lasting, Aged, Stays
<1>. QED  BY <1>1, <1>2, IntervalStart, IntervalRefresh, IntervalPop, IntervalAnswer,
             IntervalCrash, IntervalTick, Zenon DEF Next

\* Both invariants hold in every state.
LEMMA IntervalInvariant == Spec => [](LifeInv /\ IntervalInv)
<1>1. Init => IntervalInv
  BY Zenon DEF Init, IntervalInv, Starting, Recent, InTime, Covered, Aged, Stays
<1>. QED  BY <1>1, IntervalNext, LifeInvariant, PTL DEF Spec

\* A billed call that Sprout refreshes in time keeps its record, though the expiry
\* is computed from the refresh time of its START alone: for any refresh times that
\* are shorter than that expiry, whatever is lost or out of order, and for any other
\* ones if the interval the CDF asked for is shorter.
THEOREM ActiveCallKept == Spec => []KeptWhileActive
<1>1. LifeInv /\ IntervalInv => KeptWhileActive
  BY SteadyIsKept, Zenon DEF SteadyKept, IntervalInv, Stays, Lasting, KeptWhileActive
<1>. QED  BY <1>1, IntervalInvariant, PTL

\* The CDF of a billed call gets a record at least every interval it asked for, from
\* Sprout or from the timer, if requests are answered in the order sent, for any
\* refresh times as long as the record lasts.
THEOREM CdfIntervalKept == Spec => []IntervalKept
<1>1. LifeInv /\ IntervalInv => IntervalKept
  BY IntervalFrom, Zenon DEF IntervalInv
<1>. QED  BY <1>1, IntervalInvariant, PTL
=============================================================================
