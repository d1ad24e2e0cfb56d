---------------------------- MODULE SessionStore ----------------------------
(***************************************************************************)
(* SessionStore (src/session_store.cpp) for several calls: the keys, the   *)
(* JSON documents and the CAS values it hands to the memcached Store.      *)
(* Callers are Ralf threads that get, change and put back sessions.        *)
(* Strings are sequences of character codes where their characters matter  *)
(* (keys) and model values elsewhere.  A uint32_t is modelled with         *)
(* 2 * Half values.                                                        *)
(*                                                                         *)
(* External: the memcached Store, and std::to_string.                      *)
(***************************************************************************)
EXTENDS Integers, Sequences

CONSTANTS
  Callers,      \* threads that use the store
  Ids,          \* <<call_id, role, function>> of the calls in progress
  ToDigits(_),  \* std::to_string: the digits of a number
  SessionIds, CcfLists, TimerIds, RefreshTimes,  \* values of the fields of a session
  Half,         \* 2^31 in the program
  Foreign,      \* documents in the store that no such Ralf wrote
  Unreliable,   \* whether the store may answer ERROR
  CasMissStatus,  \* what the store answers to a CAS write of an absent record
  MaxCas,       \* bounds the number of writes
  Garbage,      \* a text that is not JSON
  NoSession,    \* the NULL session
  Unreadable

VARIABLES
  data,     \* data[k]: the record of the memcached Store under key k
  nextCas,  \* the CAS value of the next write
  held,     \* held[c]: the Session object c works on, with its _cas and id
  status    \* the Status the last update returned

vars == <<data, nextCas, held, status>>

-----------------------------------------------------------------------------
(* Keys *)

\* Mutant: the role is left out.
CreateKeyNoRole(id) == id[1] \o ToDigits(id[3])

\* SessionStore::create_key.
CreateKey(id) == id[1] \o ToDigits(id[2]) \o ToDigits(id[3])

Keys == {CreateKey(id) : id \in Ids}

\* role_of_node_t, ORIGINATING to TERMINATING, and node_functionality_t, SCSCF to
\* ATCF.  parse_body casts any number of a request to these types.
RoleOfNode        == 0..1
NodeFunctionality == 0..15

IsEnumerated(id) == id[2] \in RoleOfNode /\ id[3] \in NodeFunctionality

-----------------------------------------------------------------------------
(* Documents: JSON values are records with a type *)

UInt32 == 0..(2 * Half - 1)

Session == [ session_id           : SessionIds,
             ccf                  : CcfLists,
             acct_record_number   : UInt32,
             timer_id             : TimerIds,
             session_refresh_time : UInt32,
             interim_interval     : UInt32 ]

\* A uint32_t passed as an int, and an int stored in a uint32_t.
ToInt(n) == IF n < Half THEN n ELSE n - 2 * Half
ToUInt(i) == IF i < 0 THEN i + 2 * Half ELSE i

JsonString(v) == [type |-> "string", value |-> v]
JsonInt(i)    == [type |-> "int", value |-> i]
JsonArray(a)  == [type |-> "array", value |-> a]

\* Mutant: the interval is not written.
SerializeNoInterval(s) ==
  [ session_id      |-> JsonString(s.session_id),
    ccfs            |-> JsonArray([i \in DOMAIN s.ccf |-> JsonString(s.ccf[i])]),
    acct_record_num |-> JsonInt(ToInt(s.acct_record_number)),
    timer_id        |-> JsonString(s.timer_id),
    refresh_time    |-> JsonInt(ToInt(s.session_refresh_time)) ]

\* JsonSerializerDeserializer::serialize_session.
Serialize(s) ==
  [ session_id       |-> JsonString(s.session_id),
    ccfs             |-> JsonArray([i \in DOMAIN s.ccf |-> JsonString(s.ccf[i])]),
    acct_record_num  |-> JsonInt(ToInt(s.acct_record_number)),
    timer_id         |-> JsonString(s.timer_id),
    refresh_time     |-> JsonInt(ToInt(s.session_refresh_time)),
    interim_interval |-> JsonInt(ToInt(s.interim_interval)) ]

\* Member name of an object exists and has a type; an int fits into 32 bits.
Has(doc, name, type) ==
  /\ name \in DOMAIN doc
  /\ doc[name].type = type
  /\ type = "int" => -Half <= doc[name].value /\ doc[name].value < Half

\* The checks of deserialize_session; each failure makes the session NULL.
IsSession(doc) ==
  /\ doc # Garbage
  /\ Has(doc, "session_id", "string")
  /\ Has(doc, "ccfs", "array")
  /\ \A i \in DOMAIN doc.ccfs.value : doc.ccfs.value[i].type = "string"
  /\ Has(doc, "acct_record_num", "int")
  /\ Has(doc, "timer_id", "string")
  /\ Has(doc, "refresh_time", "int")
  /\ Has(doc, "interim_interval", "int")

\* JsonSerializerDeserializer::deserialize_session.
Deserialize(doc) ==
  IF ~IsSession(doc) THEN NoSession
  ELSE [ session_id           |-> doc.session_id.value,
         ccf                  |-> [i \in DOMAIN doc.ccfs.value |-> doc.ccfs.value[i].value],
         acct_record_number   |-> ToUInt(doc.acct_record_num.value),
         timer_id             |-> doc.timer_id.value,
         session_refresh_time |-> ToUInt(doc.refresh_time.value),
         interim_interval     |-> ToUInt(doc.interim_interval.value) ]

ASSUME CodecAssumption ==
  /\ Half \in Nat \ {0}
  /\ CcfLists \subseteq Seq(STRING)
  /\ RefreshTimes \subseteq UInt32
  /\ \A doc \in Foreign : ~IsSession(doc)
  /\ \A s \in Session : Serialize(s) # Garbage
  /\ NoSession \notin Session \cup [id : Ids, sess : Session]
  /\ NoSession \notin [id : Ids, cas : Nat, sess : Session]
  /\ Unreadable \notin Session \cup {NoSession}

\* Call ids are any texts, and role and function any numbers.
ASSUME StoreAssumption ==
  /\ Ids \subseteq Seq(Nat) \X Nat \X Nat
  /\ \A id \in Ids : ToDigits(id[2]) \in Seq(Nat) /\ ToDigits(id[3]) \in Seq(Nat)
  /\ \A n \in 0..9 : ToDigits(n) = <<n>>
  /\ \A n \in 10..15 : ToDigits(n) = <<1, n - 10>>
  /\ Unreliable \in BOOLEAN
  /\ CasMissStatus \in {"DATA_CONTENTION", "ERROR"}
  /\ MaxCas \in Nat

-----------------------------------------------------------------------------
(* The memcached Store *)

Absent   == [cas |-> 0, doc |-> Garbage]
Statuses == {"OK", "DATA_CONTENTION", "ERROR"}

\* A write must name the CAS of the record, 0 if there is none, and gets a new
\* one.  An expiry of 0 leaves no record.
Written(key, doc, expiry) ==
  /\ data' = [data EXCEPT ![key] =
                IF expiry = 0 THEN Absent ELSE [cas |-> nextCas, doc |-> doc]]
  /\ nextCas' = nextCas + 1

\* set_data.  A store in error may have done the write or not.
SetData(key, doc, cas, expiry, rc) ==
  \/ /\ cas = data[key].cas
     /\ nextCas < MaxCas
     /\ Written(key, doc, expiry)
     /\ rc = "OK" \/ (Unreliable /\ rc = "ERROR")
  \/ /\ cas # data[key].cas
     /\ rc = IF data[key].cas = 0 THEN CasMissStatus ELSE "DATA_CONTENTION"
     /\ UNCHANGED <<data, nextCas>>
  \/ /\ Unreliable
     /\ rc = "ERROR"
     /\ UNCHANGED <<data, nextCas>>

-----------------------------------------------------------------------------
(* SessionStore *)

\* The session a caller would get from record r of call id.
Loaded(id, r) ==
  IF r.cas = 0 \/ Deserialize(r.doc) = NoSession THEN NoSession
  ELSE [id |-> id, cas |-> r.cas, sess |-> Deserialize(r.doc)]

\* get_session_data: no session if there is no record, the store fails or the
\* record cannot be deserialized.
GetSessionData(c, id) ==
  /\ \/ held' = [held EXCEPT ![c] = Loaded(id, data[CreateKey(id)])]
     \/ Unreliable /\ held' = [held EXCEPT ![c] = NoSession]
  /\ UNCHANGED <<data, nextCas, status>>

\* 2 * session_refresh_time, in 32 bits.
Expiry(s) == (2 * s.session_refresh_time) % (2 * Half)

\* set_session_data: new_session overrides the CAS of the session.
SetSessionData(id, sess, cas, new_session) ==
  \E rc \in Statuses :
    /\ SetData(CreateKey(id), Serialize(sess), IF new_session THEN 0 ELSE cas, Expiry(sess), rc)
    /\ status' = rc

\* START: a new session is added.
AddSession(id) ==
  /\ \E session_id \in SessionIds, ccf \in CcfLists, timer_id \in TimerIds,
        refresh \in RefreshTimes, interval \in RefreshTimes :
       SetSessionData(id, [ session_id           |-> session_id,
                               ccf                  |-> ccf,
                               acct_record_number   |-> 1,
                               timer_id             |-> timer_id,
                               session_refresh_time |-> refresh,
                               interim_interval     |-> interval ], 0, TRUE)
  /\ UNCHANGED held

\* INTERIM and update_timer_id: the session is changed and put back, as a new one
\* if it came from another store.
PutBack(c, new_session) ==
  /\ held[c] # NoSession
  /\ LET old == held[c].sess
     IN \E sess \in {[old EXCEPT !.acct_record_number = (@ + 1) % (2 * Half)]}
                     \cup {[old EXCEPT !.timer_id = t] : t \in TimerIds} :
          SetSessionData(held[c].id, sess, held[c].cas, new_session)
  /\ UNCHANGED held

\* delete_session_data with a session: an empty text that expires at once.
DeleteCurrent(c) ==
  /\ held[c] # NoSession
  /\ \E rc \in Statuses :
       /\ SetData(CreateKey(held[c].id), Garbage, held[c].cas, 0, rc)
       /\ status' = rc
  /\ UNCHANGED held

\* delete_session_data without a session.
DeleteSessionData(id) ==
  /\ \/ data' = [data EXCEPT ![CreateKey(id)] = Absent] /\ status' = "OK"
     \/ Unreliable /\ UNCHANGED data /\ status' = "ERROR"
  /\ UNCHANGED <<nextCas, held>>

\* A record expires or is lost, or is written by something else.
Forget(key) ==
  /\ data[key].cas # 0
  /\ data' = [data EXCEPT ![key] = Absent]
  /\ UNCHANGED <<nextCas, held, status>>

Overwrite(key) ==
  /\ nextCas < MaxCas
  /\ \E doc \in Foreign : Written(key, doc, 1)
  /\ UNCHANGED <<held, status>>

Init ==
  /\ data = [key \in Keys |-> Absent]
  /\ nextCas = 1
  /\ held = [c \in Callers |-> NoSession]
  /\ status = "OK"

Next ==
  \/ \E c \in Callers :
       \/ \E id \in Ids : GetSessionData(c, id)
       \/ \E new_session \in BOOLEAN : PutBack(c, new_session)
       \/ DeleteCurrent(c)
  \/ \E id \in Ids : AddSession(id) \/ DeleteSessionData(id)
  \/ \E key \in Keys : Forget(key) \/ Overwrite(key)

Spec == Init /\ [][Next]_vars

-----------------------------------------------------------------------------
(* Properties *)

\* Records, held sessions and statuses have their types; what Ralf reads back is
\* a session with 32-bit fields.
TypeOK ==
  /\ DOMAIN data = Keys
  /\ nextCas \in Nat \ {0}
  /\ status \in Statuses
  /\ DOMAIN held = Callers
  /\ \A key \in Keys :
       \/ data[key] = Absent
       \/ /\ data[key].cas \in 1..(nextCas - 1)
          /\ \/ data[key].doc \in Foreign
             \/ LET sess == Deserialize(data[key].doc)
                IN sess \in Session /\ data[key].doc = Serialize(sess)
  /\ \A c \in Callers :
       \/ held[c] = NoSession
       \/ held[c] \in [id : Ids, cas : 1..(nextCas - 1), sess : Session]

\* The map a caller sees through the keys, documents and CAS values.
SessionAt(id) ==
  LET r == data[CreateKey(id)]
  IN IF r.cas = 0 THEN NoSession
     ELSE IF Deserialize(r.doc) = NoSession THEN Unreadable
     ELSE Deserialize(r.doc)

HeldView(c) ==
  IF held[c] = NoSession THEN NoSession ELSE [id |-> held[c].id, sess |-> held[c].sess]

IsCurrent(c) == held[c] # NoSession /\ data[CreateKey(held[c].id)].cas = held[c].cas

\* create_key puts no separator between its parts: the call id and role 1 of a call
\* of function 15 read as a call id with one more digit, role 1 and function 5.
RunsInto(i, j) == j[1] = Append(i[1], i[2]) /\ j[2] = 1 /\ i[3] = 10 + j[3]

\* Calls that have one record.  Of calls with enumerated role and function these
\* are the ones that run into each other; of others nothing is said.
Shares(i, j) ==
  IF IsEnumerated(i) /\ IsEnumerated(j)
  THEN i = j \/ RunsInto(i, j) \/ RunsInto(j, i)
  ELSE CreateKey(i) = CreateKey(j)

Map == INSTANCE SessionMap WITH
         Sessions <- Session,
         sessions <- [id \in Ids |-> SessionAt(id)],
         view     <- [c \in Callers |-> HeldView(c)],
         current  <- {c \in Callers : IsCurrent(c)}

\* SessionStore is a map from (call_id, role, function) to sessions with safe
\* replacement: no call's update, delete, expiry or corrupt record touches the
\* session of another, except of one that Shares its record; what was put is what
\* is got, and an update through a session that is out of date does nothing and
\* says so.
IsMap == Map!Spec
=============================================================================
