--------------------------- MODULE SessionManager ---------------------------
(***************************************************************************)
(* SessionManager (src/session_manager.cpp) over SessionStore              *)
(* (src/session_store.cpp), for the requests of one call: one              *)
(* (call_id, role, function) key.  Every request is a process.  HTTP       *)
(* threads run handle(), Diameter threads run on_ccf_response(), and they  *)
(* interleave at each call to memcached, Chronos or the Diameter stack,    *)
(* so each of those calls is one step.  Requests of several Ralf nodes and *)
(* sites share the stores.                                                 *)
(*                                                                         *)
(* External, modelled from their use here: the memcached Store, Chronos,   *)
(* the CDF behind the Diameter stack, and Sprout.                          *)
(***************************************************************************)
EXTENDS RfSession

CONSTANTS
  Msgs,           \* Message objects; bounds the number of requests
  Sites,          \* one store per site
  FrontSites,     \* the sites whose Ralf nodes are given requests
  StoreOrder,     \* site -> <<its local store, its remote stores in order>>
  TimerIds,       \* Chronos timer ids; bounds the number of timers
  CcfLists,       \* values of the peers.ccf list
  RefreshTimes,   \* values of Acct-Interim-Interval in a request, 0 if absent
  Intervals,      \* values of Acct-Interim-Interval in an answer, 0 if absent
  Unreliable,     \* sites whose store may answer ERROR
  Lossy,          \* sites whose store may lose the record
  Crashing,       \* sites whose Ralf nodes may crash
  CasMissStatus,  \* what a store answers to a CAS write of an absent record
  ChronosFails,   \* whether a request to Chronos may fail
  NoSession       \* the contents of an absent record

ASSUME StoreAssumption ==
  /\ Sites # {}
  /\ StoreOrder \in [Sites -> Seq(Sites)]
  /\ \A s \in Sites : Len(StoreOrder[s]) > 0 /\ StoreOrder[s][1] = s
  /\ Unreliable \subseteq Sites /\ Lossy \subseteq Sites /\ Crashing \subseteq Sites
  /\ FrontSites \subseteq Sites
  /\ CasMissStatus \in {"DATA_CONTENTION", "ERROR"}

ASSUME ValueAssumption ==
  /\ RefreshTimes \subseteq Nat
  /\ Intervals \subseteq Nat
  /\ NO_TIMER \notin TimerIds
  /\ ChronosFails \in BOOLEAN

VARIABLES
  pc,       \* pc[m]: the call the thread that handles m makes next
  msg,      \* msg[m]: the fields of Message that the request filled in
  held,     \* held[m]: sess of handle() with its _cas; from the send on, the
            \* fields of Message that handle() copied from sess
  copy,     \* copy[m]: remote_sess of handle(), sess of update_timer_id()
  fresh,    \* fresh[m]: new_session of handle()
  idx,      \* idx[m]: the store iterator, 1 is the local store
  aca,      \* aca[m]: accepted and interim_interval of on_ccf_response()
  store,    \* store[s]: the record of the call at site s
  nextCas,  \* nextCas[s]: the CAS value the next write at s produces
  timers,   \* timers[t]: state of a Chronos timer
  acrs,     \* history: the ACRs given to the Diameter stack
  passed    \* requests that called health_check_passed()

handling == <<pc, msg, held, copy, fresh, idx, aca>>
stores   == <<store, nextCas>>
vars     == <<handling, stores, timers, acrs, passed>>

-----------------------------------------------------------------------------
(* Types *)

Session == SessionOf(Msgs, CcfLists, TimerIds)
Record  == [cas : Nat, sess : Session \cup {NoSession}]

\* A record is absent iff its cas is 0: a CAS of 0 adds a record.
Absent  == [cas |-> 0, sess |-> NoSession]
Status  == {"OK", "DATA_CONTENTION", "ERROR"}

\* Message, without the fields held[m] carries.
Message == [ record_type          : RecordTypes,
             timer_interim        : BOOLEAN,
             session_refresh_time : Nat,
             site                 : Sites ]

HandlePCs  == {"lookup", "write", "sync_read", "sync_write",
               "remove", "remove_remote", "cancel", "send"}
ResponsePCs == {"wait", "post", "put", "update", "retime_read",
                "retime_write", "kill", "pass"}
FinalPCs   == {"done", "ignored"}
PCs        == {"idle"} \cup HandlePCs \cup ResponsePCs \cup FinalPCs

Acr == [msg : Msgs, session_id : Msgs, number : Nat, record_type : RecordTypes]

-----------------------------------------------------------------------------
(* The stores a request works on *)

StoresOf(m)  == StoreOrder[msg[m].site]
Local(m)     == msg[m].site
Current(m)   == StoresOf(m)[idx[m]]

Goto(m, label) == pc' = [pc EXCEPT ![m] = label]

\* The request has its record number for good: handle() will not start again.
Numbered(m) == pc[m] \notin {"idle", "lookup", "write", "remove", "ignored"}

\* Mutant: the end of the list of stores is missed by one.
NextStoreOffByOne(m, body, after) ==
  IF idx[m] <= Len(StoresOf(m))
  THEN idx' = [idx EXCEPT ![m] = @ + 1] /\ Goto(m, body)
  ELSE idx' = [idx EXCEPT ![m] = 1] /\ Goto(m, after)

\* ++it: the loop body again for the next store, or past the loop.
NextStore(m, body, after) ==
  IF idx[m] < Len(StoresOf(m))
  THEN idx' = [idx EXCEPT ![m] = @ + 1] /\ Goto(m, body)
  ELSE idx' = [idx EXCEPT ![m] = 1] /\ Goto(m, after)

-----------------------------------------------------------------------------
(* The memcached Store behind a SessionStore *)

\* What get_session_data can return: the record, or no session when there is
\* none or the store is in error.
GetData(s) == {store[s]} \cup (IF s \in Unreliable THEN {Absent} ELSE {})

\* A write must name the CAS of the record, 0 if there is none.
SetStatus(s, cas) ==
  IF cas = store[s].cas THEN "OK"
  ELSE IF store[s].cas = 0 THEN CasMissStatus
  ELSE "DATA_CONTENTION"

\* Each write gets a new CAS; an expiry of 0 leaves no record.
Written(s, sess, expiry) ==
  /\ store' = [store EXCEPT ![s] =
                 IF expiry = 0 THEN Absent ELSE [cas |-> nextCas[s], sess |-> sess]]
  /\ nextCas' = [nextCas EXCEPT ![s] = @ + 1]

\* set_data.  A store in error may have done the write or not.
SetData(s, sess, cas, expiry, rc) ==
  \/ /\ rc = SetStatus(s, cas)
     /\ rc = "OK"
     /\ Written(s, sess, expiry)
  \/ /\ rc = SetStatus(s, cas)
     /\ rc # "OK"
     /\ UNCHANGED stores
  \/ /\ s \in Unreliable
     /\ rc = "ERROR"
     /\ \/ SetStatus(s, cas) = "OK" /\ Written(s, sess, expiry)
        \/ UNCHANGED stores

\* Mutant: the session is written whatever its CAS.
SetSessionUnchecked(s, sess, cas, rc) == SetData(s, sess, store[s].cas, Expiry(sess), rc)

\* SessionStore::set_session_data: cas is 0 for a new session.
SetSession(s, sess, cas, rc) == SetData(s, sess, cas, Expiry(sess), rc)

\* Mutant: the session is deleted whatever its CAS.
CasDeleteUnchecked(s, cas, rc) == SetData(s, NoSession, store[s].cas, 0, rc)

\* SessionStore::delete_session_data with a session: an empty write that
\* expires at once, under the CAS of the session.
CasDelete(s, cas, rc) == SetData(s, NoSession, cas, 0, rc)

\* SessionStore::delete_session_data without a session: no CAS check.
DeleteData(s) ==
  /\ \/ store' = [store EXCEPT ![s] = Absent]
     \/ s \in Unreliable /\ UNCHANGED store
  /\ UNCHANGED nextCas

-----------------------------------------------------------------------------
(* Chronos *)

\* send_post: a new timer, whose id is returned; on failure the id is as before.
\* It also fails when the bound TimerIds is used up.
ChronosPost(id) ==
  \/ /\ ChronosFails \/ \A t \in TimerIds : timers[t] # "free"
     /\ id = NO_TIMER
     /\ UNCHANGED timers
  \/ \E t \in TimerIds :
       /\ timers[t] = "free"
       /\ id = t
       /\ timers' = [timers EXCEPT ![t] = "live"]

\* send_put: sets timer t, also when Chronos no longer has it, and may answer
\* with another id that replaces t; on failure nothing changes.
ChronosPut(t, id) ==
  \/ ChronosFails /\ id = t /\ UNCHANGED timers
  \/ id = t /\ timers' = [timers EXCEPT ![t] = "live"]
  \/ \E u \in TimerIds :
       /\ timers[u] = "free"
       /\ id = u
       /\ timers' = [timers EXCEPT ![t] = "dead", ![u] = "live"]

\* send_chronos_update: a POST if the session has no timer, a PUT otherwise.
SendChronosUpdate(t, id) ==
  IF t = NO_TIMER THEN ChronosPost(id) ELSE ChronosPut(t, id)

\* send_delete; it may fail, and the answer is not looked at.
ChronosDelete(t) ==
  \/ timers' = [timers EXCEPT ![t] = "dead"]
  \/ ChronosFails /\ UNCHANGED timers

-----------------------------------------------------------------------------
(* Requests.  BillingTask::run calls handle() with the parsed Message. *)

Arrive(m, type, site, refresh, timer_interim) ==
  /\ pc[m] = "idle"
  /\ msg' = [msg EXCEPT ![m] = [ record_type          |-> type,
                                 timer_interim        |-> timer_interim,
                                 session_refresh_time |-> refresh,
                                 site                 |-> site ]]

\* START or EVENT: the first ACR of a session has number 1, and the AVP
\* Session-Id of a new session.
First(m) ==
  \E type \in RecordTypes \ OngoingTypes, site \in FrontSites,
     refresh \in RefreshTimes, ccfs \in CcfLists :
    /\ Arrive(m, type, site, refresh, FALSE)
    /\ held' = [held EXCEPT ![m] =
         [ cas |-> 0,
           sess |-> [ session_id           |-> m,
                      ccf                  |-> ccfs,
                      acct_record_number   |-> 1,
                      timer_id             |-> NO_TIMER,
                      session_refresh_time |-> refresh,
                      interim_interval     |-> 0 ]]]
    /\ Goto(m, "send")
    /\ UNCHANGED <<copy, fresh, idx, aca, stores, timers, acrs, passed>>

\* INTERIM or STOP from Sprout.
Ongoing(m) ==
  \E type \in OngoingTypes, site \in FrontSites, refresh \in RefreshTimes :
    /\ Arrive(m, type, site, refresh, FALSE)
    /\ Goto(m, "lookup")
    /\ UNCHANGED <<held, copy, fresh, idx, aca, stores, timers, acrs, passed>>

\* A live timer pops: Chronos posts the opaque data, an INTERIM without
\* Acct-Interim-Interval, to a Ralf of any site with timer-interim=true.
TimerPop(m) ==
  \E t \in TimerIds, site \in FrontSites :
    /\ timers[t] = "live"
    /\ Arrive(m, "INTERIM", site, 0, TRUE)
    /\ Goto(m, "lookup")
    /\ UNCHANGED <<held, copy, fresh, idx, aca, stores, timers, acrs, passed>>

-----------------------------------------------------------------------------
(* SessionManager::handle *)

\* get_session_data on the local store, then on the remote ones until one has
\* the session; without a session the message is deleted.
Lookup(m) ==
  /\ pc[m] = "lookup"
  /\ \E got \in GetData(Current(m)) :
       IF got.cas # 0
       THEN /\ held' = [held EXCEPT ![m] = [got EXCEPT !.sess = NextRecord(@)]]
            /\ fresh' = [fresh EXCEPT ![m] = (idx[m] > 1)]
            /\ idx' = [idx EXCEPT ![m] = 1]
            /\ Goto(m, IF msg[m].record_type = "INTERIM" THEN "write" ELSE "remove")
       ELSE NextStore(m, "lookup", "ignored") /\ UNCHANGED <<held, fresh>>
  /\ UNCHANGED <<msg, copy, aca, stores, timers, acrs, passed>>

\* Mutant: every INTERIM writes its session as a new one.
WriteAnew(m) ==
  /\ pc[m] = "write"
  /\ \E rc \in Status :
       /\ SetSession(Local(m), held[m].sess, 0, rc)
       /\ IF rc = "DATA_CONTENTION"
          THEN Goto(m, "lookup") /\ UNCHANGED idx
          ELSE NextStore(m, "sync_read", "send")
  /\ UNCHANGED <<msg, held, copy, fresh, aca, timers, acrs, passed>>

\* INTERIM: save the incremented number locally; on contention handle() starts
\* again, any other failure is passed over.
Write(m) ==
  /\ pc[m] = "write"
  /\ \E rc \in Status :
       /\ SetSession(Local(m), held[m].sess,
                     IF fresh[m] THEN 0 ELSE held[m].cas, rc)
       /\ IF rc = "DATA_CONTENTION"
          THEN Goto(m, "lookup") /\ UNCHANGED idx
          ELSE NextStore(m, "sync_read", "send")
  /\ UNCHANGED <<msg, held, copy, fresh, aca, timers, acrs, passed>>

\* INTERIM: the copy of a remote store is incremented, or added if missing.
SyncRead(m) ==
  /\ pc[m] = "sync_read"
  /\ \E got \in GetData(Current(m)) :
       copy' = [copy EXCEPT ![m] =
                  IF got.cas = 0 THEN [cas |-> 0, sess |-> held[m].sess]
                  ELSE [got EXCEPT !.sess = NextRecord(@)]]
  /\ Goto(m, "sync_write")
  /\ UNCHANGED <<msg, held, fresh, idx, aca, stores, timers, acrs, passed>>

\* Mutant: on contention the write is repeated without reading again.
SyncWriteNoReread(m) ==
  /\ pc[m] = "sync_write"
  /\ \E rc \in Status :
       /\ SetSession(Current(m), copy[m].sess, copy[m].cas, rc)
       /\ IF rc = "DATA_CONTENTION"
          THEN UNCHANGED <<pc, idx>>
          ELSE NextStore(m, "sync_read", "send")
  /\ UNCHANGED <<msg, held, copy, fresh, aca, timers, acrs, passed>>

\* On contention the same remote store is read again.
SyncWrite(m) ==
  /\ pc[m] = "sync_write"
  /\ \E rc \in Status :
       /\ SetSession(Current(m), copy[m].sess, copy[m].cas, rc)
       /\ IF rc = "DATA_CONTENTION"
          THEN Goto(m, "sync_read") /\ UNCHANGED idx
          ELSE NextStore(m, "sync_read", "send")
  /\ UNCHANGED <<msg, held, copy, fresh, aca, timers, acrs, passed>>

\* STOP: delete from the local store under the CAS the session was read with,
\* which is a remote store's if it was found there.
Remove(m) ==
  /\ pc[m] = "remove"
  /\ \E rc \in Status :
       /\ CasDelete(Local(m), held[m].cas, rc)
       /\ IF rc = "DATA_CONTENTION"
          THEN Goto(m, "lookup") /\ UNCHANGED idx
          ELSE NextStore(m, "remove_remote", "cancel")
  /\ UNCHANGED <<msg, held, copy, fresh, aca, timers, acrs, passed>>

\* STOP: delete from the remote stores, without a CAS, so never in contention.
RemoveRemote(m) ==
  /\ pc[m] = "remove_remote"
  /\ DeleteData(Current(m))
  /\ NextStore(m, "remove_remote", "cancel")
  /\ UNCHANGED <<msg, held, copy, fresh, aca, timers, acrs, passed>>

\* STOP: send_delete of the session's timer, if it has one.
Cancel(m) ==
  /\ pc[m] = "cancel"
  /\ IF held[m].sess.timer_id = NO_TIMER
     THEN UNCHANGED timers
     ELSE ChronosDelete(held[m].sess.timer_id)
  /\ Goto(m, "send")
  /\ UNCHANGED <<msg, held, copy, fresh, idx, aca, stores, acrs, passed>>

\* The message takes its fields from the session and the ACR goes to the
\* Diameter stack.  The HTTP request is answered after this.
Send(m) ==
  /\ pc[m] = "send"
  /\ msg' = [msg EXCEPT ![m].session_refresh_time =
               IF @ = 0 THEN held[m].sess.session_refresh_time ELSE @]
  /\ acrs' = acrs \cup {[ msg         |-> m,
                          session_id  |-> held[m].sess.session_id,
                          number      |-> held[m].sess.acct_record_number,
                          record_type |-> msg[m].record_type ]}
  /\ Goto(m, "wait")
  /\ UNCHANGED <<held, copy, fresh, idx, aca, stores, timers, passed>>

-----------------------------------------------------------------------------
(* SessionManager::on_ccf_response *)

\* health_check_passed() follows every accepted answer, and then the message is
\* deleted.
Finish(accepted) == IF accepted THEN "pass" ELSE "done"

\* Mutant: an INTERIM from the timer renews the timer too.
RenewsTimerAlways(m, interval) ==
  /\ msg[m].record_type = "INTERIM"
  /\ NeedsTimer(msg[m].session_refresh_time, interval)

\* An INTERIM from Sprout keeps the timer going, one from the timer must not.
RenewsTimer(m, interval) ==
  /\ msg[m].record_type = "INTERIM"
  /\ ~msg[m].timer_interim
  /\ NeedsTimer(msg[m].session_refresh_time, interval)

\* Mutant: a START is stored whatever the CDF answers.
ReactionStoresAll(m, rc, interval) ==
  CASE msg[m].record_type = "START" ->
         IF NeedsTimer(msg[m].session_refresh_time, interval) THEN "post" ELSE "put"
    [] rc = "UNKNOWN_SESSION_ID" /\ msg[m].record_type = "INTERIM" -> "kill"
    [] rc # "UNKNOWN_SESSION_ID" /\ RenewsTimer(m, interval) -> "update"
    [] OTHER -> Finish(rc = "SUCCESS")

\* The first call on_ccf_response makes for a Result-Code rc.
Reaction(m, rc, interval) ==
  CASE rc = "SUCCESS" /\ msg[m].record_type = "START" ->
         IF NeedsTimer(msg[m].session_refresh_time, interval) THEN "post" ELSE "put"
    [] rc = "UNKNOWN_SESSION_ID" /\ msg[m].record_type = "INTERIM" -> "kill"
    [] rc # "UNKNOWN_SESSION_ID" /\ RenewsTimer(m, interval) -> "update"
    [] OTHER -> Finish(rc = "SUCCESS")

\* The answer of the CDF: 2001, 5002, or any other code, a timeout included.
OnCcfResponse(m) ==
  /\ pc[m] = "wait"
  /\ \E rc \in {"SUCCESS", "UNKNOWN_SESSION_ID", "OTHER"}, answered \in Intervals :
       LET interval == EffectiveInterval(answered, held[m].sess.interim_interval,
                                         msg[m].session_refresh_time)
       IN /\ aca' = [aca EXCEPT ![m] = [ accepted |-> (rc = "SUCCESS"),
                                         interim_interval |-> interval ]]
          /\ Goto(m, Reaction(m, rc, interval))
  /\ UNCHANGED <<msg, held, copy, fresh, idx, stores, timers, acrs, passed>>

\* START: the timer is created before the session is stored.
Post(m) ==
  /\ pc[m] = "post"
  /\ \E id \in TimerIds \cup {NO_TIMER} :
       /\ ChronosPost(id)
       /\ held' = [held EXCEPT ![m].sess.timer_id = id]
  /\ Goto(m, "put")
  /\ UNCHANGED <<msg, copy, fresh, idx, aca, stores, acrs, passed>>

\* Mutant: only the local copy gets the interval.
PutLocalInterval(m) ==
  /\ pc[m] = "put"
  /\ \E rc \in Status :
       SetSession(Current(m),
                  IF idx[m] = 1
                  THEN [held[m].sess EXCEPT !.interim_interval = aca[m].interim_interval]
                  ELSE held[m].sess,
                  0, rc)
  /\ NextStore(m, "put", "pass")
  /\ UNCHANGED <<msg, held, copy, fresh, aca, timers, acrs, passed>>

\* START: the session is added to every store, whatever the stores answer.
Put(m) ==
  /\ pc[m] = "put"
  /\ \E rc \in Status :
       SetSession(Current(m),
                  [held[m].sess EXCEPT !.interim_interval = aca[m].interim_interval],
                  0, rc)
  /\ NextStore(m, "put", "pass")
  /\ UNCHANGED <<msg, held, copy, fresh, aca, timers, acrs, passed>>

\* send_chronos_update, and update_timer_id if the id changed.
Update(m) ==
  /\ pc[m] = "update"
  /\ \E id \in TimerIds \cup {NO_TIMER} :
       /\ SendChronosUpdate(held[m].sess.timer_id, id)
       /\ held' = [held EXCEPT ![m].sess.timer_id = id]
       /\ Goto(m, IF id = held[m].sess.timer_id
                  THEN Finish(aca[m].accepted)
                  ELSE "retime_read")
  /\ UNCHANGED <<msg, copy, fresh, idx, aca, stores, acrs, passed>>

\* update_timer_id: the id is put into whatever session each store has.
RetimeRead(m) ==
  /\ pc[m] = "retime_read"
  /\ \E got \in GetData(Current(m)) :
       IF got.cas # 0
       THEN /\ copy' = [copy EXCEPT ![m] =
                 [got EXCEPT !.sess = [@ EXCEPT !.timer_id = held[m].sess.timer_id]]]
            /\ Goto(m, "retime_write")
            /\ UNCHANGED idx
       ELSE /\ NextStore(m, "retime_read", Finish(aca[m].accepted))
            /\ UNCHANGED copy
  /\ UNCHANGED <<msg, held, fresh, aca, stores, timers, acrs, passed>>

\* Best effort: the answer of the store is not looked at.
RetimeWrite(m) ==
  /\ pc[m] = "retime_write"
  /\ \E rc \in Status : SetSession(Current(m), copy[m].sess, copy[m].cas, rc)
  /\ NextStore(m, "retime_read", Finish(aca[m].accepted))
  /\ UNCHANGED <<msg, held, copy, fresh, aca, timers, acrs, passed>>

\* 5002 to an INTERIM: the session is deleted everywhere; its timer is left.
Kill(m) ==
  /\ pc[m] = "kill"
  /\ DeleteData(Current(m))
  /\ NextStore(m, "kill", "done")
  /\ UNCHANGED <<msg, held, copy, fresh, aca, timers, acrs, passed>>

HealthCheckPassed(m) ==
  /\ pc[m] = "pass"
  /\ passed' = passed \cup {m}
  /\ Goto(m, "done")
  /\ UNCHANGED <<msg, held, copy, fresh, idx, aca, stores, timers, acrs>>

-----------------------------------------------------------------------------
(* The environment, and the specification *)

\* The thread that works on m is lost, with the node or alone (signal_handler
\* leaves the fault to the exception handler, or aborts): m is given up between
\* two calls, what it has done stays and nothing is done again.
Crash(m) ==
  /\ msg[m].site \in Crashing
  /\ pc[m] \notin {"idle"} \cup FinalPCs
  /\ Goto(m, IF Numbered(m) THEN "done" ELSE "ignored")
  /\ idx' = [idx EXCEPT ![m] = 1]
  /\ copy' = [copy EXCEPT ![m] = Absent]
  /\ UNCHANGED <<msg, held, fresh, aca, stores, timers, acrs, passed>>

\* repeat-for has elapsed.
TimerExpires(t) ==
  /\ timers[t] = "live"
  /\ timers' = [timers EXCEPT ![t] = "dead"]
  /\ UNCHANGED <<handling, stores, acrs, passed>>

\* A store loses the record: a memcached restart, an eviction or an expiry.
Lose(s) ==
  /\ s \in Lossy
  /\ store[s] # Absent
  /\ store' = [store EXCEPT ![s] = Absent]
  /\ UNCHANGED <<handling, nextCas, timers, acrs, passed>>

Init ==
  /\ pc = [m \in Msgs |-> "idle"]
  /\ msg = [m \in Msgs |-> [ record_type |-> "EVENT", timer_interim |-> FALSE,
                             session_refresh_time |-> 0,
                             site |-> CHOOSE s \in Sites : TRUE ]]
  /\ held = [m \in Msgs |-> Absent]
  /\ copy = [m \in Msgs |-> Absent]
  /\ fresh = [m \in Msgs |-> FALSE]
  /\ idx = [m \in Msgs |-> 1]
  /\ aca = [m \in Msgs |-> [accepted |-> FALSE, interim_interval |-> 0]]
  /\ store = [s \in Sites |-> Absent]
  /\ nextCas = [s \in Sites |-> 1]
  /\ timers = [t \in TimerIds |-> "free"]
  /\ acrs = {}
  /\ passed = {}

Request(m) == First(m) \/ Ongoing(m) \/ TimerPop(m)

\* handle() once it has the message, and its part of PeerMessageSender.
Handle(m) ==
  \/ Lookup(m)
  \/ Write(m)
  \/ SyncRead(m)
  \/ SyncWrite(m)
  \/ Remove(m)
  \/ RemoveRemote(m)
  \/ Cancel(m)
  \/ Send(m)

Respond(m) ==
  \/ OnCcfResponse(m)
  \/ Post(m)
  \/ Put(m)
  \/ Update(m)
  \/ RetimeRead(m)
  \/ RetimeWrite(m)
  \/ Kill(m)
  \/ HealthCheckPassed(m)

Quiet == \A m \in Msgs : pc[m] \in FinalPCs

\* All requests of the instance are dealt with.
Rest == Quiet /\ UNCHANGED vars

Next ==
  \/ \E m \in Msgs : Request(m) \/ Handle(m) \/ Respond(m) \/ Crash(m)
  \/ \E t \in TimerIds : TimerExpires(t)
  \/ \E s \in Sites : Lose(s)
  \/ Rest

Spec == Init /\ [][Next]_vars

\* Threads run on and every ACR is answered or times out.  Requests, timers and
\* losses are the environment's.
FairSpec == Spec /\ \A m \in Msgs : WF_vars(Handle(m) \/ Respond(m))

-----------------------------------------------------------------------------
(* Properties *)

\* The fields of every request, store record, timer and ACR have their types; a
\* present record has a session.
TypeOK ==
  /\ pc \in [Msgs -> PCs]
  /\ msg \in [Msgs -> Message]
  /\ held \in [Msgs -> Record]
  /\ copy \in [Msgs -> Record]
  /\ fresh \in [Msgs -> BOOLEAN]
  /\ idx \in [Msgs -> Nat \ {0}]
  /\ aca \in [Msgs -> [accepted : BOOLEAN, interim_interval : Nat]]
  /\ store \in [Sites -> Record]
  /\ nextCas \in [Sites -> Nat \ {0}]
  /\ timers \in [TimerIds -> {"free", "live", "dead"}]
  /\ acrs \subseteq Acr
  /\ passed \subseteq Msgs
  /\ \A s \in Sites : store[s].cas # 0 => store[s].sess \in Session
  /\ \A m \in Msgs :
       /\ idx[m] <= Len(StoresOf(m))
       /\ pc[m] \notin {"idle", "lookup", "ignored"} => held[m].sess \in Session
       /\ pc[m] \in {"sync_write", "retime_write"} => copy[m].sess \in Session

SessionId(m) == held[m].sess.session_id
Number(m) == held[m].sess.acct_record_number

\* No two ACRs of a Diameter session carry the same Accounting-Record-Number,
\* whichever requests (retries of handle() included) raced for it.
UniqueAcrs ==
  \A a, b \in acrs :
    a.session_id = b.session_id /\ a.number = b.number => a = b

\* The STOP record has the highest number of its session, even when ACRs leave
\* in another order than the requests updated the store.
StopIsHighest ==
  \A a, b \in acrs :
    /\ a.record_type = "STOP"
    /\ a.session_id = b.session_id
    /\ a # b
    => b.number < a.number

\* The record that opens a session has the lowest number of it, at whichever site the
\* later ones are handled and whatever stores fail to read or to save the number.
FirstIsLowest ==
  \A a, b \in acrs :
    /\ a.record_type \notin OngoingTypes
    /\ a.session_id = b.session_id
    /\ a # b
    => a.number < b.number

\* Numbers are not skipped: below each ACR of a session, every number belongs
\* to a request that has sent its ACR, is about to, or was lost in a crash.
DenseNumbers ==
  \A a \in acrs : \A n \in 1..a.number :
    \E m \in Msgs : Numbered(m) /\ SessionId(m) = a.session_id /\ Number(m) = n

\* Once a STOP has its number, no late request (an INTERIM between its read and
\* its write, an update_timer_id) brings the session back into a store.
StoppedStaysGone ==
  \A m \in Msgs, s \in Sites :
    /\ Numbered(m)
    /\ msg[m].record_type = "STOP"
    /\ store[s].cas # 0
    => store[s].sess.session_id # SessionId(m)

\* "if a START fails we don't record the session": every record in a store,
\* through any chain of copies between sites, goes back to an accepted START.
OnlyAcceptedSessions ==
  \A s \in Sites : store[s].cas # 0 =>
    LET start == store[s].sess.session_id
    IN msg[start].record_type = "START" /\ aca[start].accepted

\* Whatever copies, re-additions and increments happen, the copies of a session
\* at different sites agree on where to send ACRs and how often.
SitesAgree ==
  \A s, t \in Sites :
    /\ store[s].cas # 0
    /\ store[t].cas # 0
    /\ store[s].sess.session_id = store[t].sess.session_id
    => /\ store[s].sess.ccf = store[t].sess.ccf
       /\ store[s].sess.session_refresh_time = store[t].sess.session_refresh_time
       /\ store[s].sess.interim_interval = store[t].sess.interim_interval

\* The CAS check of the stores excludes lost updates: a write over a record
\* never lowers the number of its session, nor changes the session.
NoLostUpdate ==
  [][\A s \in Sites :
       store[s].cas # 0 /\ store'[s].cas # 0 =>
         /\ store'[s].sess.session_id = store[s].sess.session_id
         /\ store'[s].sess.acct_record_number >= store[s].sess.acct_record_number]_vars

\* Only a request of Sprout sets a timer; an INTERIM of the timer never does, or
\* sessions that ended unnoticed would be kept alive for ever (docs/API.md).
OnlySproutSetsTimers ==
  [][\A t \in TimerIds :
       timers[t] # "live" /\ timers'[t] = "live" =>
         \E m \in Msgs : pc'[m] # pc[m] /\ ~msg[m].timer_interim]_vars

\* Every request is dealt with, however often it meets contention.
Handled == \A m \in Msgs : pc[m] # "idle" ~> pc[m] \in FinalPCs
=============================================================================
