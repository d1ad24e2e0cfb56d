------------------------- MODULE SessionStoreProofs -------------------------
(***************************************************************************)
(* SessionStore implements SessionMap, for any calls, callers, documents   *)
(* and width of integers.  The argument: calls have one key exactly when   *)
(* they run into each other, documents are read back as they were written, *)
(* and every write has a CAS value no caller holds yet.                    *)
(***************************************************************************)
EXTENDS SessionStore, SequenceTheorems, TLAPS

-----------------------------------------------------------------------------
(* Keys and documents *)

\* A text and one more digit.
Plus(s, a) == Append(s, a)

\* Texts are put together digit by digit, and taken apart the same way.
LEMMA PlusIsText ==
  ASSUME NEW s \in Seq(Nat), NEW a \in Nat
  PROVE  Plus(s, a) \in Seq(Nat) /\ Plus(s, a) = s \o <<a>>
BY AppendProperties, AppendIsConcat DEF Plus

\* Two digits more.
LEMMA PlusTwice ==
  ASSUME NEW s \in Seq(Nat), NEW a \in Nat, NEW b \in Nat
  PROVE  Plus(Plus(s, a), b) = s \o <<a, b>>
<1>1. Plus(s, a) \in Seq(Nat) /\ Plus(Plus(s, a), b) \in Seq(Nat) /\ s \o <<a, b>> \in Seq(Nat)
  BY DEF Plus
<1>2. Len(Plus(Plus(s, a), b)) = Len(s) + 2 /\ Len(s \o <<a, b>>) = Len(s) + 2
  BY DEF Plus
<1>3. \A n \in 1..Len(s) + 2 : Plus(Plus(s, a), b)[n] = (s \o <<a, b>>)[n]
  BY DEF Plus
<1>. QED  BY <1>1, <1>2, <1>3, SeqEqual

\* Two such texts are equal only if digit and rest are.
LEMMA PlusInjective ==
  ASSUME NEW s \in Seq(Nat), NEW t \in Seq(Nat), NEW a \in Nat, NEW b \in Nat
  PROVE  Plus(s, a) = Plus(t, b) <=> s = t /\ a = b
BY AppendInjective DEF Plus

\* The key of a call with an enumerated role and function: the call id, one digit
\* of the role, and one or two of the function.
LEMMA KeyOf ==
  ASSUME NEW id \in Ids, IsEnumerated(id)
  PROVE  /\ id[1] \in Seq(Nat) /\ id[2] \in Nat /\ id[3] \in Nat
         /\ id = <<id[1], id[2], id[3]>>
         /\ Plus(id[1], id[2]) \in Seq(Nat) /\ Plus(Plus(id[1], id[2]), 1) \in Seq(Nat)
         /\ id[3] < 10 => CreateKey(id) = Plus(Plus(id[1], id[2]), id[3])
         /\ id[3] >= 10 => /\ id[3] - 10 \in Nat
                           /\ CreateKey(id) = Plus(Plus(Plus(id[1], id[2]), 1), id[3] - 10)
<1>1. id \in Seq(Nat) \X Nat \X Nat
  BY StoreAssumption, Zenon
<1>2. /\ id[1] \in Seq(Nat) /\ id[2] \in 0..9 /\ id[2] \in Nat
      /\ id[3] \in 0..15 /\ id[3] \in Nat /\ 1 \in Nat
      /\ id = <<id[1], id[2], id[3]>>
  BY <1>1 DEF IsEnumerated, RoleOfNode, NodeFunctionality
<1>3. /\ Plus(id[1], id[2]) \in Seq(Nat) /\ Plus(Plus(id[1], id[2]), 1) \in Seq(Nat)
      /\ Plus(id[1], id[2]) = id[1] \o <<id[2]>>
  BY <1>2, PlusIsText, Zenon
<1>4. ToDigits(id[2]) = <<id[2]>>
  BY <1>2, StoreAssumption, Zenon
<1>5. ASSUME id[3] < 10
      PROVE  CreateKey(id) = Plus(Plus(id[1], id[2]), id[3])
  <2>1. id[3] \in 0..9
    BY <1>2, <1>5
  <2>2. ToDigits(id[3]) = <<id[3]>>
    BY <2>1, StoreAssumption, Zenon
  <2>3. Plus(Plus(id[1], id[2]), id[3]) = Plus(id[1], id[2]) \o <<id[3]>>
    BY <1>2, <1>3, PlusIsText, Zenon
  <2>. QED  BY <1>3, <1>4, <2>2, <2>3, Zenon DEF CreateKey
<1>6. ASSUME id[3] >= 10
      PROVE  /\ id[3] - 10 \in Nat
             /\ CreateKey(id) = Plus(Plus(Plus(id[1], id[2]), 1), id[3] - 10)
  <2>. DEFINE last == id[3] - 10
  <2>1. id[3] \in 10..15 /\ last \in Nat
    BY <1>2, <1>6
  <2>2. ToDigits(id[3]) = <<1, last>>
    BY <2>1, StoreAssumption, Zenon
  <2>. HIDE DEF last
  <2>3. Plus(Plus(Plus(id[1], id[2]), 1), last) = Plus(id[1], id[2]) \o <<1, last>>
    BY <1>2, <1>3, <2>1, PlusTwice, Zenon
  <2>4. @ = CreateKey(id)
    BY <1>3, <1>4, <2>2, Zenon DEF CreateKey
  <2>. QED  BY <2>1, <2>3, <2>4, Zenon DEF last
<1>. QED  BY <1>2, <1>3, <1>5, <1>6, Zenon

\* Functions with equally many digits: the key determines the call.
LEMMA SameLength ==
  ASSUME NEW i \in Ids, NEW j \in Ids, IsEnumerated(i), IsEnumerated(j),
         CreateKey(i) = CreateKey(j),
         (i[3] < 10 /\ j[3] < 10) \/ (i[3] >= 10 /\ j[3] >= 10)
  PROVE  i = j
<1>. DEFINE ic == Plus(i[1], i[2])
            jc == Plus(j[1], j[2])
<1>1. /\ i[1] \in Seq(Nat) /\ i[2] \in Nat /\ i[3] \in Nat /\ i = <<i[1], i[2], i[3]>>
      /\ j[1] \in Seq(Nat) /\ j[2] \in Nat /\ j[3] \in Nat /\ j = <<j[1], j[2], j[3]>>
      /\ ic \in Seq(Nat) /\ jc \in Seq(Nat)
      /\ Plus(ic, 1) \in Seq(Nat) /\ Plus(jc, 1) \in Seq(Nat)
  BY KeyOf, Zenon
<1>2. ic = jc => i[1] = j[1] /\ i[2] = j[2]
  BY <1>1, PlusInjective
<1>3. CASE i[3] < 10 /\ j[3] < 10
  <2>1. Plus(ic, i[3]) = Plus(jc, j[3])
    BY <1>3, KeyOf, Zenon
  <2>2. ic = jc /\ i[3] = j[3]
    BY <1>1, <2>1, PlusInjective
  <2>. QED  BY <1>1, <1>2, <2>2, Zenon
<1>4. CASE i[3] >= 10 /\ j[3] >= 10
  <2>1. /\ i[3] - 10 \in Nat /\ j[3] - 10 \in Nat /\ 1 \in Nat
        /\ i[3] - 10 = j[3] - 10 => i[3] = j[3]
    <3>1. i[3] \in Nat /\ j[3] \in Nat
      BY <1>1, Zenon
    <3>. QED  BY <1>4, <3>1
  <2>2. Plus(Plus(ic, 1), i[3] - 10) = Plus(Plus(jc, 1), j[3] - 10)
    BY <1>4, KeyOf, Zenon
  <2>3. /\ Plus(ic, 1) = Plus(jc, 1) /\ i[3] - 10 = j[3] - 10
        /\ ic = jc
    <3>. DEFINE f == i[3] - 10
                g == j[3] - 10
    <3>1. /\ ic \in Seq(Nat) /\ jc \in Seq(Nat) /\ Plus(ic, 1) \in Seq(Nat) /\ Plus(jc, 1) \in Seq(Nat)
          /\ f \in Nat /\ g \in Nat
      BY <1>1, <2>1, Zenon
    <3>2. Plus(Plus(ic, 1), f) = Plus(Plus(jc, 1), g)
      BY <2>2, Zenon
    <3>. HIDE DEF ic, jc, f, g
    <3>3. Plus(ic, 1) = Plus(jc, 1) /\ f = g
      BY <3>1, <3>2, PlusInjective
    <3>4. ic = jc
      BY <3>1, <3>3, PlusInjective
    <3>. QED  BY <3>3, <3>4, Zenon DEF f, g
  <2>. QED  BY <1>1, <1>2, <2>1, <2>3, Zenon
<1>. QED  BY <1>3, <1>4, Zenon

\* A function with two digits and one with one: the keys are equal exactly if the
\* role of the first is the last digit of the other's call id.
LEMMA OtherLength ==
  ASSUME NEW i \in Ids, NEW j \in Ids, IsEnumerated(i), IsEnumerated(j),
         i[3] >= 10, j[3] < 10
  PROVE  CreateKey(i) = CreateKey(j) <=> RunsInto(i, j)
<1>. DEFINE ic == Plus(i[1], i[2])
            jc == Plus(j[1], j[2])
<1>1. /\ i[3] \in Nat /\ j[1] \in Seq(Nat) /\ j[2] \in Nat /\ j[3] \in Nat
      /\ ic \in Seq(Nat) /\ jc \in Seq(Nat) /\ Plus(ic, 1) \in Seq(Nat)
  BY KeyOf, Zenon
<1>2. /\ 1 \in Nat /\ i[3] - 10 \in Nat
      /\ i[3] - 10 = j[3] <=> i[3] = 10 + j[3]
  <2>1. i[3] \in Nat /\ j[3] \in Nat
    BY <1>1, Zenon
  <2>. QED  BY <2>1
<1>3. CreateKey(i) = CreateKey(j) <=> Plus(Plus(ic, 1), i[3] - 10) = Plus(jc, j[3])
  BY KeyOf, Zenon
<1>4. @ <=> Plus(ic, 1) = jc /\ i[3] - 10 = j[3]
  BY <1>1, <1>2, PlusInjective
<1>5. Plus(ic, 1) = jc <=> ic = j[1] /\ 1 = j[2]
  BY <1>1, <1>2, PlusInjective
<1>. QED  BY <1>2, <1>3, <1>4, <1>5, Zenon DEF RunsInto, Plus

\* create_key joins its three parts without separators.  Of calls with enumerated
\* role and function exactly these have one record: a call of function 10 to 15,
\* and the one whose call id has the role of the first as a further digit, of role
\* 1 and function 0 to 5.
THEOREM KeysDiffer ==
  ASSUME NEW i \in Ids, NEW j \in Ids, IsEnumerated(i), IsEnumerated(j)
  PROVE  CreateKey(i) = CreateKey(j) <=> i = j \/ RunsInto(i, j) \/ RunsInto(j, i)
<1>1. i[3] \in Nat /\ j[3] \in Nat
  BY KeyOf, Zenon
<1>2. CASE (i[3] < 10 /\ j[3] < 10) \/ (i[3] >= 10 /\ j[3] >= 10)
  <2>1. ~RunsInto(i, j) /\ ~RunsInto(j, i)
    <3>1. i[3] \in 0..15 /\ j[3] \in 0..15
      BY Zenon DEF IsEnumerated, NodeFunctionality
    <3>2. i[3] # 10 + j[3] /\ j[3] # 10 + i[3]
      BY <1>2, <3>1
    <3>. QED  BY <3>2, Zenon DEF RunsInto
  <2>. QED  BY <1>2, <2>1, SameLength, Zenon
<1>3. ASSUME NEW k \in Ids, NEW l \in Ids, IsEnumerated(k), IsEnumerated(l),
             k[3] >= 10, l[3] < 10
      PROVE  /\ CreateKey(k) = CreateKey(l) <=> RunsInto(k, l)
             /\ k # l /\ ~RunsInto(l, k)
  <2>1. k[3] \in Nat /\ l[3] \in Nat
    BY <1>3, KeyOf, Zenon
  <2>2. k # l /\ ~RunsInto(l, k)
    BY <1>3, <2>1 DEF RunsInto
  <2>. QED  BY <1>3, <2>2, OtherLength, Zenon
<1>4. CASE i[3] >= 10 /\ j[3] < 10
  BY <1>3, <1>4, Zenon
<1>5. CASE j[3] >= 10 /\ i[3] < 10
  BY <1>3, <1>5, Zenon
<1>. QED  BY <1>1, <1>2, <1>4, <1>5

\* The devices in the path of one call never have one record: that role and function
\* "distinguish devices in path for the same SIP call ID" (parse_body) holds for all
\* enumerated ones.
THEOREM DevicesApart ==
  ASSUME NEW i \in Ids, NEW j \in Ids, IsEnumerated(i), IsEnumerated(j),
         i[1] = j[1], i # j
  PROVE  CreateKey(i) # CreateKey(j)
<1>1. /\ i[1] \in Seq(Nat) /\ i[2] \in Nat /\ j[2] \in Nat
  BY KeyOf
<1>2. ~RunsInto(i, j) /\ ~RunsInto(j, i)
  BY <1>1 DEF RunsInto
<1>. QED  BY <1>2, KeysDiffer, Zenon

\* Calls share a record exactly when they have one key.
LEMMA SharesKey ==
  ASSUME NEW i \in Ids, NEW j \in Ids
  PROVE  Shares(i, j) <=> CreateKey(i) = CreateKey(j)
BY KeysDiffer, Zenon DEF Shares

\* Integers above INT_MAX are written as negative ones and read back unchanged.
LEMMA IntegersKept ==
  ASSUME NEW n \in UInt32
  PROVE  ToUInt(ToInt(n)) = n /\ -Half <= ToInt(n) /\ ToInt(n) < Half
BY CodecAssumption DEF UInt32, ToInt, ToUInt

\* deserialize_session gives back every session serialize_session was given, so a
\* session survives any number of reads and writes by other nodes.
THEOREM RoundTrip ==
  ASSUME NEW s \in Session
  PROVE  Deserialize(Serialize(s)) = s
<1>1. /\ s.acct_record_number \in UInt32 /\ s.session_refresh_time \in UInt32
      /\ s.interim_interval \in UInt32 /\ s.ccf \in CcfLists
  BY Zenon DEF Session
<1>2. IsSession(Serialize(s))
  BY <1>1, CodecAssumption, IntegersKept, Zenon
     DEF IsSession, Has, Serialize, JsonString, JsonInt, JsonArray
<1>3. s.ccf = [i \in DOMAIN s.ccf |-> s.ccf[i]]
  <2>1. s.ccf \in Seq(STRING)
    BY <1>1, CodecAssumption, Zenon
  <2>. QED  BY <2>1
<1>. DEFINE doc == Serialize(s)
<1>4. [i \in DOMAIN doc.ccfs.value |-> doc.ccfs.value[i].value] = s.ccf
  BY <1>3, Zenon DEF Serialize, JsonString, JsonArray
<1>5. /\ doc.session_id.value = s.session_id
      /\ ToUInt(doc.acct_record_num.value) = s.acct_record_number
      /\ doc.timer_id.value = s.timer_id
      /\ ToUInt(doc.refresh_time.value) = s.session_refresh_time
      /\ ToUInt(doc.interim_interval.value) = s.interim_interval
  BY <1>1, IntegersKept, Zenon DEF Serialize, JsonString, JsonInt
<1>6. Deserialize(doc) = [ session_id           |-> s.session_id,
                           ccf                  |-> s.ccf,
                           acct_record_number   |-> s.acct_record_number,
                           timer_id             |-> s.timer_id,
                           session_refresh_time |-> s.session_refresh_time,
                           interim_interval     |-> s.interim_interval ]
  BY <1>2, <1>4, <1>5, Zenon DEF Deserialize
<1>. QED  BY <1>6, Zenon DEF Session
-----------------------------------------------------------------------------
(* Type correctness *)

\* A record that is no session is one of another program; any other is read back.
LEMMA RecordRead ==
  ASSUME TypeOK, NEW key \in Keys, data[key] # Absent
  PROVE  /\ data[key].cas \in Nat /\ data[key].cas # 0 /\ data[key].cas < nextCas
         /\ Deserialize(data[key].doc) \in Session \cup {NoSession}
<1>1. /\ data[key].cas \in 1..(nextCas - 1)
      /\ \/ data[key].doc \in Foreign
         \/ Deserialize(data[key].doc) \in Session
  BY Zenon DEF TypeOK
<1>2. nextCas \in Nat
  BY Zenon DEF TypeOK
<1>3. data[key].doc \in Foreign => Deserialize(data[key].doc) = NoSession
  BY CodecAssumption, Zenon DEF Deserialize
<1>. QED  BY <1>1, <1>2, <1>3

\* What callers hold are sessions, under CAS values that were given out.
LEMMA HeldType ==
  ASSUME TypeOK, NEW c \in Callers, held[c] # NoSession
  PROVE  /\ held[c].id \in Ids
         /\ held[c].cas \in Nat /\ held[c].cas # 0 /\ held[c].cas < nextCas
         /\ held[c].sess \in Session
         /\ CreateKey(held[c].id) \in Keys
BY DEF TypeOK, Keys

\* A write of a session, or of an empty text that expires at once.
LEMMA TypeSetData ==
  ASSUME TypeOK, NEW id \in Ids, NEW doc, NEW cas, NEW expiry, NEW rc \in Statuses,
         SetData(CreateKey(id), doc, cas, expiry, rc), status' = rc, UNCHANGED held,
         expiry = 0 \/ \E s \in Session : doc = Serialize(s)
  PROVE  TypeOK'
<1>1. CreateKey(id) \in Keys
  BY Zenon DEF Keys
<1>2. CASE UNCHANGED <<data, nextCas>>
  BY <1>2, Zenon DEF TypeOK
<1>3. CASE Written(CreateKey(id), doc, expiry)
  <2>1. nextCas \in Nat \ {0} /\ nextCas' = nextCas + 1
    BY <1>3, Zenon DEF TypeOK, Written
  <2>2. /\ DOMAIN data' = Keys
        /\ \A key \in Keys : key # CreateKey(id) => data'[key] = data[key]
        /\ data'[CreateKey(id)] = IF expiry = 0 THEN Absent ELSE [cas |-> nextCas, doc |-> doc]
    BY <1>1, <1>3, Zenon DEF TypeOK, Written
  <2>3. expiry # 0 => Deserialize(doc) \in Session /\ doc = Serialize(Deserialize(doc))
    BY RoundTrip, Zenon
  <2>4. ASSUME NEW key \in Keys
        PROVE  \/ data'[key] = Absent
               \/ /\ data'[key].cas \in 1..(nextCas' - 1)
                  /\ \/ data'[key].doc \in Foreign
                     \/ LET sess == Deserialize(data'[key].doc)
                        IN sess \in Session /\ data'[key].doc = Serialize(sess)
    <3>1. CASE key # CreateKey(id)
      BY <2>1, <2>2, <3>1 DEF TypeOK
    <3>2. CASE key = CreateKey(id)
      BY <2>1, <2>2, <2>3, <3>2
    <3>. QED  BY <3>1, <3>2, Zenon
  <2>5. \A c \in Callers : \/ held'[c] = NoSession
                           \/ held'[c] \in [id : Ids, cas : 1..(nextCas' - 1), sess : Session]
    BY <2>1 DEF TypeOK
  <2>. QED  BY <2>1, <2>2, <2>4, <2>5 DEF TypeOK
<1>. QED  BY <1>2, <1>3, Zenon DEF SetData

\* set_session_data keeps the state well typed.
LEMMA TypeSetSessionData ==
  ASSUME TypeOK, NEW id \in Ids, NEW sess \in Session, NEW cas, NEW new_session,
         SetSessionData(id, sess, cas, new_session), UNCHANGED held
  PROVE  TypeOK'
BY TypeSetData, Zenon DEF SetSessionData

\* A new session has 32-bit fields.
LEMMA NewSession ==
  ASSUME NEW session_id \in SessionIds, NEW ccf \in CcfLists, NEW timer_id \in TimerIds,
         NEW refresh \in RefreshTimes, NEW interval \in RefreshTimes
  PROVE  [ session_id           |-> session_id,
           ccf                  |-> ccf,
           acct_record_number   |-> 1,
           timer_id             |-> timer_id,
           session_refresh_time |-> refresh,
           interim_interval     |-> interval ] \in Session
BY CodecAssumption DEF Session, UInt32

\* So has a session whose number was incremented or whose timer changed.
LEMMA ChangedSession ==
  ASSUME NEW old \in Session,
         NEW sess \in {[old EXCEPT !.acct_record_number = (@ + 1) % (2 * Half)]}
                       \cup {[old EXCEPT !.timer_id = t] : t \in TimerIds}
  PROVE  sess \in Session
<1>1. old.acct_record_number \in Nat
  BY CodecAssumption DEF Session, UInt32
<1>2. (old.acct_record_number + 1) % (2 * Half) \in UInt32
  BY <1>1, CodecAssumption DEF UInt32
<1>. QED  BY <1>2, Zenon DEF Session

\* A read, a delete, an expiry or a foreign write keeps the state well typed.
LEMMA TypeGet ==
  ASSUME TypeOK, NEW c \in Callers, NEW id \in Ids, GetSessionData(c, id)
  PROVE  TypeOK'
<1>1. CreateKey(id) \in Keys
  BY Zenon DEF Keys
<1>2. UNCHANGED <<data, nextCas, status>> /\ DOMAIN held' = Callers
  BY Zenon DEF GetSessionData, TypeOK
<1>3. \/ held'[c] = NoSession
      \/ held'[c] \in [id : Ids, cas : 1..(nextCas - 1), sess : Session]
  <2>1. \/ Loaded(id, data[CreateKey(id)]) = NoSession
        \/ Loaded(id, data[CreateKey(id)]) \in [id : Ids, cas : 1..(nextCas - 1), sess : Session]
    BY <1>1, RecordRead DEF Loaded, Absent, TypeOK
  <2>. QED  BY <2>1, Zenon DEF GetSessionData, TypeOK
<1>4. \A d \in Callers : d # c => held'[d] = held[d]
  BY Zenon DEF GetSessionData, TypeOK
<1>. QED  BY <1>2, <1>3, <1>4, Zenon DEF TypeOK

\* A record is gone, through a delete or by itself.
LEMMA TypeGone ==
  ASSUME TypeOK, NEW key \in Keys, data' = [data EXCEPT ![key] = Absent],
         status' \in Statuses, UNCHANGED <<nextCas, held>>
  PROVE  TypeOK'
BY Zenon DEF TypeOK

\* Something unreadable under a key leaves the types as they are.
LEMMA TypeOverwrite ==
  ASSUME TypeOK, NEW key \in Keys, Overwrite(key)
  PROVE  TypeOK'
<1>1. PICK doc \in Foreign : Written(key, doc, 1)
  BY Zenon DEF Overwrite
<1>2. /\ nextCas \in Nat \ {0} /\ nextCas' = nextCas + 1
      /\ data' = [data EXCEPT ![key] = [cas |-> nextCas, doc |-> doc]]
      /\ UNCHANGED <<held, status>>
  <2>1. nextCas \in Nat \ {0} /\ UNCHANGED <<held, status>>
    BY Zenon DEF TypeOK, Overwrite
  <2>. QED  BY <1>1, <2>1 DEF Written
<1>3. DOMAIN data' = Keys /\ data'[key] = [cas |-> nextCas, doc |-> doc]
      /\ \A k \in Keys : k # key => data'[k] = data[k]
  BY <1>2, Zenon DEF TypeOK
<1>4. ASSUME NEW k \in Keys
      PROVE  \/ data'[k] = Absent
             \/ /\ data'[k].cas \in 1..(nextCas' - 1)
                /\ \/ data'[k].doc \in Foreign
                   \/ LET sess == Deserialize(data'[k].doc)
                      IN sess \in Session /\ data'[k].doc = Serialize(sess)
  <2>1. CASE k = key
    BY <1>2, <1>3, <2>1
  <2>2. CASE k # key
    BY <1>2, <1>3, <2>2 DEF TypeOK
  <2>. QED  BY <2>1, <2>2, Zenon
<1>5. \A c \in Callers : \/ held'[c] = NoSession
                         \/ held'[c] \in [id : Ids, cas : 1..(nextCas' - 1), sess : Session]
  BY <1>2 DEF TypeOK
<1>. QED  BY <1>2, <1>3, <1>4, <1>5 DEF TypeOK

\* Every step keeps the state well typed.
LEMMA TypeNext == TypeOK /\ [Next]_vars => TypeOK'
<1>. SUFFICES ASSUME TypeOK, [Next]_vars PROVE TypeOK'
  BY Zenon
<1>1. ASSUME NEW id \in Ids, AddSession(id)
      PROVE  TypeOK'
  BY <1>1, NewSession, TypeSetSessionData, Zenon DEF AddSession
<1>2. ASSUME NEW c \in Callers, NEW new_session \in BOOLEAN, PutBack(c, new_session)
      PROVE  TypeOK'
  <2>1. held[c].id \in Ids /\ held[c].sess \in Session
    BY <1>2, HeldType, Zenon DEF PutBack
  <2>. QED  BY <1>2, <2>1, ChangedSession, TypeSetSessionData, Zenon DEF PutBack
<1>3. ASSUME NEW c \in Callers, DeleteCurrent(c)
      PROVE  TypeOK'
  BY <1>3, HeldType, TypeSetData, Zenon DEF DeleteCurrent
<1>4. ASSUME NEW id \in Ids, DeleteSessionData(id)
      PROVE  TypeOK'
  <2>1. CreateKey(id) \in Keys
    BY Zenon DEF Keys
  <2>2. CASE UNCHANGED data
    BY <1>4, <2>2, Zenon DEF TypeOK, DeleteSessionData, Statuses
  <2>. QED  BY <1>4, <2>1, <2>2, TypeGone, Zenon DEF DeleteSessionData, Statuses
<1>5. ASSUME NEW key \in Keys, Forget(key)
      PROVE  TypeOK'
  <2>1. status \in Statuses
    BY Zenon DEF TypeOK
  <2>. QED  BY <1>5, <2>1, TypeGone, Zenon DEF Forget
<1>6. CASE UNCHANGED vars
  BY <1>6, Zenon DEF TypeOK, vars
<1>. QED  BY <1>1, <1>2, <1>3, <1>4, <1>5, <1>6, TypeGet, TypeOverwrite, Zenon DEF Next

\* SessionStore is type correct: every record Ralf wrote is read back as a session,
\* whatever is lost, overwritten or in error.
THEOREM TypeCorrect == Spec => []TypeOK
<1>1. Init => TypeOK
  BY DEF Init, TypeOK, Statuses
<1>. QED  BY <1>1, TypeNext, PTL DEF Spec

-----------------------------------------------------------------------------
(* The refinement *)

\* The views of the callers, and the sessions, as SessionMap sees them.
Views     == [c \in Callers |-> HeldView(c)]
SessionsAt == [id \in Ids |-> SessionAt(id)]
Current   == {c \in Callers : IsCurrent(c)}

\* Every call has a session, none, or something unreadable.
SessionsTyped == \A id \in Ids : SessionAt(id) \in Session \cup {NoSession, Unreadable}

\* What a read of a well-typed store finds is a session, none, or unreadable.
LEMMA SessionAtType == TypeOK => SessionsTyped
<1>. SUFFICES ASSUME TypeOK, NEW id \in Ids
              PROVE  SessionAt(id) \in Session \cup {NoSession, Unreadable}
  BY Zenon DEF SessionsTyped
<1>1. CreateKey(id) \in Keys
  BY Zenon DEF Keys
<1>. QED  BY <1>1, RecordRead DEF SessionAt, Absent

\* A step that changes the record of one call to one with a CAS value no caller
\* holds is a change of that call and the ones that share the record.
LEMMA OneCallChanges ==
  ASSUME TypeOK, TypeOK', NEW id \in Ids, NEW values,
         UNCHANGED held,
         \A key \in Keys : key # CreateKey(id) => data'[key] = data[key],
         data'[CreateKey(id)].cas \in {0, nextCas},
         SessionAt(id)' \in values
  PROVE  Map!Becomes(id, values) /\ UNCHANGED Views
<1>1. SessionsAt' \in [Ids -> Session \cup {NoSession, Unreadable}]
  <2>1. SessionsTyped'
    BY SessionAtType, PTL
  <2>. QED  BY <2>1, Zenon DEF SessionsTyped, SessionsAt
<1>2. SessionsAt'[id] \in values
  BY Zenon DEF SessionsAt
<1>3. \A j \in Ids : /\ CreateKey(j) \in Keys
                     /\ Shares(id, j) <=> CreateKey(id) = CreateKey(j)
  BY SharesKey, Zenon DEF Keys
<1>4. ASSUME NEW j \in Ids
      PROVE  SessionsAt'[j] = IF Shares(id, j) THEN SessionsAt'[id] ELSE SessionsAt[j]
  <2>1. CASE CreateKey(id) = CreateKey(j)
    BY <1>3, <2>1, Zenon DEF SessionsAt, SessionAt
  <2>2. CASE CreateKey(id) # CreateKey(j)
    BY <1>3, <2>2, Zenon DEF SessionsAt, SessionAt
  <2>. QED  BY <2>1, <2>2, Zenon
<1>5. UNCHANGED Views
  BY Zenon DEF Views, HeldView
<1>6. ASSUME NEW c \in Callers, held[c] # NoSession
      PROVE  IsCurrent(c)' <=> IsCurrent(c) /\ ~Shares(id, held[c].id)
  <2>1. /\ held[c].id \in Ids /\ held[c].cas \in Nat /\ held[c].cas # 0 /\ held[c].cas < nextCas
    BY <1>6, HeldType, Zenon
  <2>2. CASE CreateKey(id) = CreateKey(held[c].id)
    <3>1. nextCas \in Nat
      BY Zenon DEF TypeOK
    <3>2. data'[CreateKey(held[c].id)].cas # held[c].cas
      BY <2>1, <2>2, <3>1
    <3>. QED  BY <1>3, <2>1, <2>2, <3>2, Zenon DEF IsCurrent
  <2>3. CASE CreateKey(id) # CreateKey(held[c].id)
    BY <1>3, <1>6, <2>1, <2>3, Zenon DEF IsCurrent
  <2>. QED  BY <2>2, <2>3, Zenon
<1>7. \A c \in Callers : held[c] # NoSession => Views[c].id = held[c].id
  BY Zenon DEF Views, HeldView
<1>8. Current' = {c \in Current : ~Shares(id, Views[c].id)}
  BY <1>6, <1>7, Zenon DEF Current, IsCurrent
<1>. QED  BY <1>1, <1>2, <1>4, <1>5, <1>8, Zenon DEF Map!Becomes, SessionsAt, Views, Current

\* A step that changes neither records nor what is held changes no session.
LEMMA NothingChanges ==
  ASSUME UNCHANGED <<data, held>>
  PROVE  UNCHANGED SessionsAt /\ UNCHANGED Views /\ UNCHANGED Current
BY Zenon DEF SessionsAt, SessionAt, Views, HeldView, Current, IsCurrent

\* A write under a CAS value is an update that needs the record to have it.
LEMMA SetDataTries ==
  ASSUME TypeOK, TypeOK', NEW id \in Ids, NEW doc, NEW cas, NEW expiry, NEW rc \in Statuses,
         SetData(CreateKey(id), doc, cas, expiry, rc), status' = rc, UNCHANGED held,
         expiry = 0 \/ \E s \in Session : doc = Serialize(s)
  PROVE  Map!Try(id, cas = data[CreateKey(id)].cas, Session \cup {NoSession})
<1>1. CreateKey(id) \in Keys
  BY Zenon DEF Keys
<1>2. CASE cas = data[CreateKey(id)].cas /\ Written(CreateKey(id), doc, expiry)
           /\ rc \in {"OK", "ERROR"}
  <2>1. /\ \A key \in Keys : key # CreateKey(id) => data'[key] = data[key]
        /\ data'[CreateKey(id)] = IF expiry = 0 THEN Absent ELSE [cas |-> nextCas, doc |-> doc]
    BY <1>1, <1>2, Zenon DEF TypeOK, Written
  <2>2. data'[CreateKey(id)].cas \in {0, nextCas}
    BY <2>1 DEF Absent
  <2>3. SessionAt(id)' \in Session \cup {NoSession}
    <3>1. CASE expiry = 0
      BY <2>1, <3>1 DEF SessionAt, Absent
    <3>2. CASE expiry # 0
      <4>1. Deserialize(doc) \in Session /\ Deserialize(doc) # NoSession
        BY <3>2, RoundTrip, CodecAssumption, Zenon
      <4>2. nextCas # 0
        BY Zenon DEF TypeOK
      <4>. QED  BY <2>1, <3>2, <4>1, <4>2 DEF SessionAt
    <3>. QED  BY <3>1, <3>2, Zenon
  <2>4. Map!Becomes(id, Session \cup {NoSession}) /\ UNCHANGED Views
    BY <2>1, <2>2, <2>3, OneCallChanges, Zenon
  <2>. QED  BY <1>2, <2>4, Zenon DEF Map!Try, Views
<1>3. CASE UNCHANGED <<data, nextCas>> /\ rc # "OK"
  <2>1. status' \in Map!Statuses \ {"OK"}
    BY <1>3, Zenon DEF Map!Statuses, Statuses
  <2>. QED  BY <1>3, <2>1, NothingChanges, Zenon DEF Map!Try, SessionsAt, Views, Current
<1>. QED  BY <1>2, <1>3, StoreAssumption, Zenon DEF SetData

\* A new session is added only where there is none.
LEMMA AddRefines ==
  ASSUME TypeOK, TypeOK', NEW id \in Ids, NEW sess \in Session, NEW cas,
         SetSessionData(id, sess, cas, TRUE), UNCHANGED held
  PROVE  Map!Add(id)
<1>1. PICK rc \in Statuses :
        /\ SetData(CreateKey(id), Serialize(sess), 0, Expiry(sess), rc)
        /\ status' = rc
  BY Zenon DEF SetSessionData
<1>2. Map!Try(id, 0 = data[CreateKey(id)].cas, Session \cup {NoSession})
  BY <1>1, SetDataTries, Zenon
<1>3. (0 = data[CreateKey(id)].cas) = (SessionsAt[id] = NoSession)
  <2>1. CreateKey(id) \in Keys
    BY Zenon DEF Keys
  <2>. QED  BY <2>1, CodecAssumption, Zenon DEF SessionsAt, SessionAt
<1>. QED  BY <1>2, <1>3, Zenon DEF Map!Add, Map!Try, SessionsAt

\* A session is replaced or deleted only by a caller that has the current one.
LEMMA ReplaceRefines ==
  ASSUME TypeOK, TypeOK', NEW c \in Callers, held[c] # NoSession, UNCHANGED held,
         NEW doc, NEW expiry, NEW rc \in Statuses,
         SetData(CreateKey(held[c].id), doc, held[c].cas, expiry, rc), status' = rc,
         expiry = 0 \/ \E s \in Session : doc = Serialize(s)
  PROVE  Map!Replace(c)
<1>1. held[c].id \in Ids
  BY HeldType, Zenon
<1>2. Map!Try(held[c].id, held[c].cas = data[CreateKey(held[c].id)].cas, Session \cup {NoSession})
  BY <1>1, SetDataTries
<1>3. (held[c].cas = data[CreateKey(held[c].id)].cas) = (c \in Current)
  BY DEF Current, IsCurrent
<1>4. Views[c] # NoSession /\ Views[c].id = held[c].id
  BY HeldType, CodecAssumption DEF Views, HeldView
<1>. QED  BY <1>2, <1>3, <1>4, Zenon DEF Map!Replace, Map!Try, Views, Current

\* A caller gets the current session, or none.
LEMMA GetRefines ==
  ASSUME TypeOK, TypeOK', NEW c \in Callers, NEW id \in Ids, GetSessionData(c, id)
  PROVE  Map!Get(c, id)
<1>. DEFINE r == data[CreateKey(id)]
<1>1. CreateKey(id) \in Keys /\ UNCHANGED <<data, nextCas, status>>
  BY Zenon DEF Keys, GetSessionData
<1>2. \A d \in Callers : d # c => held'[d] = held[d]
  BY Zenon DEF GetSessionData, TypeOK
<1>3. UNCHANGED SessionsAt
  BY <1>1, Zenon DEF SessionsAt, SessionAt
<1>4. CASE held'[c] = NoSession
  <2>1. Views' = [Views EXCEPT ![c] = NoSession]
    BY <1>2, <1>4, Zenon DEF Views, HeldView
  <2>2. Current' = Current \ {c}
    BY <1>1, <1>2, <1>4, Zenon DEF Current, IsCurrent
  <2>. QED  BY <1>1, <1>3, <2>1, <2>2, Zenon DEF Map!Get, SessionsAt, Views, Current
<1>5. CASE held'[c] # NoSession
  <2>1. /\ held'[c] = [id |-> id, cas |-> r.cas, sess |-> Deserialize(r.doc)]
        /\ r.cas # 0 /\ Deserialize(r.doc) # NoSession
    BY <1>5, Zenon DEF GetSessionData, Loaded, TypeOK
  <2>2. SessionsAt[id] = Deserialize(r.doc) /\ SessionsAt[id] \in Session
    <3>1. Deserialize(r.doc) \in Session \cup {NoSession}
      BY <1>1, <2>1, RecordRead DEF Absent
    <3>. QED  BY <2>1, <3>1, Zenon DEF SessionsAt, SessionAt
  <2>3. Views' = [Views EXCEPT ![c] = [id |-> id, sess |-> SessionsAt[id]]]
    <3>1. HeldView(c)' = [id |-> id, sess |-> SessionsAt[id]]
      BY <1>5, <2>1, <2>2 DEF HeldView
    <3>2. \A d \in Callers : d # c => HeldView(d)' = HeldView(d)
      BY <1>2, Zenon DEF HeldView
    <3>. QED  BY <3>1, <3>2, Zenon DEF Views
  <2>4. IsCurrent(c)'
    BY <1>1, <1>5, <2>1 DEF IsCurrent
  <2>5. Current' = Current \cup {c}
    BY <1>1, <1>2, <2>4, Zenon DEF Current, IsCurrent
  <2>. QED  BY <1>1, <1>3, <2>2, <2>3, <2>5, Zenon DEF Map!Get, SessionsAt, Views, Current
<1>. QED  BY <1>4, <1>5, Zenon

\* A record that is deleted, expires or is overwritten is lost to the calls that
\* share it, and to no other.
LEMMA LossRefines ==
  ASSUME TypeOK, TypeOK', NEW id \in Ids, UNCHANGED held, NEW r,
         data' = [data EXCEPT ![CreateKey(id)] = r],
         r = Absent \/ (r.cas = nextCas /\ r.doc \in Foreign)
  PROVE  /\ UNCHANGED Views
         /\ Map!Becomes(id, {NoSession, Unreadable})
         /\ r = Absent => Map!Becomes(id, {NoSession})
<1>1. CreateKey(id) \in Keys
  BY Zenon DEF Keys
<1>2. /\ data'[CreateKey(id)] = r
      /\ \A key \in Keys : key # CreateKey(id) => data'[key] = data[key]
  BY <1>1, Zenon DEF TypeOK
<1>3. r.cas \in {0, nextCas}
  BY DEF Absent
<1>4. r = Absent => SessionAt(id)' = NoSession
  BY <1>2 DEF SessionAt, Absent
<1>5. SessionAt(id)' \in {NoSession, Unreadable}
  <2>1. r.doc \in Foreign => Deserialize(r.doc) = NoSession
    BY CodecAssumption, Zenon DEF Deserialize
  <2>. QED  BY <1>2, <1>4, <2>1, Zenon DEF SessionAt
<1>6. r = Absent => Map!Becomes(id, {NoSession})
  BY <1>2, <1>3, <1>4, OneCallChanges, Zenon
<1>. QED  BY <1>2, <1>3, <1>5, <1>6, OneCallChanges, Zenon

\* Every step of SessionStore is a step of SessionMap, or changes nothing there.
LEMMA StepRefines ==
  ASSUME TypeOK, TypeOK', [Next]_vars
  PROVE  [Map!Next]_(Map!vars)
<1>1. ASSUME NEW id \in Ids, AddSession(id)
      PROVE  Map!Next
  BY <1>1, NewSession, AddRefines, Zenon DEF AddSession, Map!Next
<1>2. ASSUME NEW c \in Callers, NEW new_session \in BOOLEAN, PutBack(c, new_session)
      PROVE  Map!Next
  <2>1. held[c] # NoSession /\ held[c].id \in Ids /\ held[c].sess \in Session /\ UNCHANGED held
    BY <1>2, HeldType, Zenon DEF PutBack
  <2>2. PICK sess \in Session : SetSessionData(held[c].id, sess, held[c].cas, new_session)
    BY <1>2, <2>1, ChangedSession, Zenon DEF PutBack
  <2>3. CASE new_session
    BY <2>1, <2>2, <2>3, AddRefines, Zenon DEF Map!Next
  <2>4. CASE ~new_session
    <3>1. PICK rc \in Statuses :
            /\ SetData(CreateKey(held[c].id), Serialize(sess), held[c].cas, Expiry(sess), rc)
            /\ status' = rc
      BY <2>2, <2>4, Zenon DEF SetSessionData
    <3>. QED  BY <2>1, <3>1, ReplaceRefines, Zenon DEF Map!Next
  <2>. QED  BY <2>3, <2>4, Zenon
<1>3. ASSUME NEW c \in Callers, DeleteCurrent(c)
      PROVE  Map!Next
  <2>1. PICK rc \in Statuses :
          SetData(CreateKey(held[c].id), Garbage, held[c].cas, 0, rc) /\ status' = rc
    BY <1>3, Zenon DEF DeleteCurrent
  <2>2. held[c] # NoSession /\ UNCHANGED held
    BY <1>3, Zenon DEF DeleteCurrent
  <2>. QED  BY <2>1, <2>2, ReplaceRefines, Zenon DEF Map!Next
<1>4. ASSUME NEW id \in Ids, DeleteSessionData(id)
      PROVE  Map!Next
  <2>1. CASE data' = [data EXCEPT ![CreateKey(id)] = Absent] /\ status' = "OK"
    <3>1. Map!Becomes(id, {NoSession}) /\ UNCHANGED Views
      BY <1>4, <2>1, LossRefines, Zenon DEF DeleteSessionData
    <3>. QED  BY <2>1, <3>1, Zenon DEF Map!Next, Map!Delete, Map!Try, Views
  <2>2. CASE UNCHANGED data /\ status' = "ERROR"
    <3>1. UNCHANGED SessionsAt /\ UNCHANGED Views /\ UNCHANGED Current
      BY <1>4, <2>2, NothingChanges, Zenon DEF DeleteSessionData
    <3>. QED  BY <2>2, <3>1, Zenon DEF Map!Next, Map!Delete, Map!Try, Map!Statuses,
                   SessionsAt, Views, Current
  <2>. QED  BY <1>4, <2>1, <2>2, Zenon DEF DeleteSessionData
<1>5. ASSUME NEW key \in Keys, Forget(key) \/ Overwrite(key)
      PROVE  Map!Next
  <2>1. PICK id \in Ids : key = CreateKey(id)
    BY Zenon DEF Keys
  <2>2. UNCHANGED <<held, status>>
    BY <1>5, Zenon DEF Forget, Overwrite
  <2>3. PICK r : /\ data' = [data EXCEPT ![key] = r]
                 /\ r = Absent \/ (r.cas = nextCas /\ r.doc \in Foreign)
    <3>1. CASE Forget(key)
      BY <3>1, Zenon DEF Forget
    <3>2. CASE Overwrite(key)
      <4>1. PICK doc \in Foreign : Written(key, doc, 1)
        BY <3>2, Zenon DEF Overwrite
      <4>2. data' = [data EXCEPT ![key] = [cas |-> nextCas, doc |-> doc]]
        BY <4>1 DEF Written
      <4>. WITNESS [cas |-> nextCas, doc |-> doc]
      <4>. QED  BY <4>2, Zenon
    <3>. QED  BY <1>5, <3>1, <3>2, Zenon
  <2>4. UNCHANGED Views /\ Map!Becomes(id, {NoSession, Unreadable})
    BY <2>1, <2>2, <2>3, LossRefines, Zenon
  <2>. QED  BY <2>2, <2>4, Zenon DEF Map!Next, Map!Fade, Views
<1>6. CASE UNCHANGED vars
  BY <1>6, NothingChanges, Zenon DEF vars, Map!vars, SessionsAt, Views, Current
<1>7. ASSUME NEW c \in Callers, NEW id \in Ids, GetSessionData(c, id)
      PROVE  Map!Next
  BY <1>7, GetRefines, Zenon DEF Map!Next
<1>. QED  BY <1>1, <1>2, <1>3, <1>4, <1>5, <1>6, <1>7, Zenon DEF Next

\* SessionStore implements SessionMap: for any calls, the keys, JSON documents and
\* CAS values behave as one session per call with safe replacement, except that
\* calls that run into each other (KeysDiffer) have one session between them.
THEOREM StoreIsMap == Spec => IsMap
<1>1. Init => Map!Init
  <2>. SUFFICES ASSUME Init PROVE Map!Init
    BY Zenon
  <2>1. \A id \in Ids : SessionAt(id) = NoSession
    BY Zenon DEF Init, SessionAt, Absent, Keys
  <2>2. \A c \in Callers : HeldView(c) = NoSession /\ ~IsCurrent(c)
    BY Zenon DEF Init, HeldView, IsCurrent
  <2>. QED  BY <2>1, <2>2, Zenon DEF Map!Init, Init
<1>2. TypeOK /\ TypeOK' /\ [Next]_vars => [Map!Next]_(Map!vars)
  BY StepRefines, Zenon
<1>. QED  BY <1>1, <1>2, TypeCorrect, PTL DEF Spec, IsMap, Map!Spec
=============================================================================
