------------------------- MODULE RecordNumberProofs -------------------------
(***************************************************************************)
(* In a deployment without remote stores, for any number of requests, no   *)
(* two ACRs of a session carry the same record number, no number is        *)
(* skipped, and the STOP carries the highest.                              *)
(***************************************************************************)
EXTENDS SessionManagerProofs, RecordNumbers

\* Without remote stores the iterator never leaves the local store.
LEMMA OneStore ==
  ASSUME SingleSite, TypeInv, NEW m \in Msgs
  PROVE  /\ Local(m) \in Sites
         /\ Current(m) = Local(m)
         /\ idx[m] = 1
         /\ Len(StoresOf(m)) = 1
<1>1. Local(m) \in Sites /\ StoresOf(m)[1] = Local(m)
  BY StoreInSites, Zenon
<1>2. StoresOf(m) = <<Local(m)>>
  BY <1>1, Zenon DEF SingleSite, StoresOf, Local
<1>3. Len(StoresOf(m)) = 1
  BY <1>2
<1>4. idx[m] \in Nat \ {0} /\ idx[m] <= Len(StoresOf(m))
  BY Zenon DEF TypeInv, TypeOK
<1>5. idx[m] = 1
  BY <1>3, <1>4
<1>. QED  BY <1>1, <1>3, <1>5, Zenon DEF Current

\* ... so a loop over the stores ends after the local one.
LEMMA OneStoreNext ==
  ASSUME SingleSite, TypeInv, NEW m \in Msgs, NEW body, NEW after,
         NextStore(m, body, after)
  PROVE  pc' = [pc EXCEPT ![m] = after]
<1>1. idx[m] = 1 /\ Len(StoresOf(m)) = 1
  BY OneStore, Zenon
<1>2. ~(idx[m] < Len(StoresOf(m)))
  BY <1>1
<1>. QED  BY <1>2, Zenon DEF NextStore, Goto

\* Whatever a step does to the record of site s, the session and its number stay,
\* or the record goes.
RecordKept(s) ==
  /\ nextCas'[s] >= nextCas[s]
  /\ \/ store'[s].cas = 0
     \/ /\ store[s].cas # 0
        /\ StoredId(s)' = StoredId(s)
        /\ StoredNumber(s)' = StoredNumber(s)
        /\ \/ store'[s].cas = store[s].cas
           \/ store'[s].cas = nextCas[s] /\ nextCas[s] < nextCas'[s]

\* Request n stays where it is, or moves on after it got its number.
RequestKept(n) ==
  /\ Numbered(n)' = Numbered(n)
  /\ msg'[n].record_type = msg[n].record_type
  /\ msg'[n].site = msg[n].site
  /\ SessionId(n)' = SessionId(n)
  /\ Number(n)' = Number(n)
  /\ \/ pc'[n] = pc[n] /\ held'[n].cas = held[n].cas /\ copy'[n] = copy[n] /\ fresh'[n] = fresh[n]
     \/ /\ pc'[n] \in {"cancel", "send", "wait", "post", "put", "update", "retime_read",
                      "kill", "pass", "done"}
        /\ pc'[n] \in {"post", "put"} => msg[n].record_type = "START"
        /\ pc[n] \in {"pass", "done"} => pc'[n] = "done"

\* A step that keeps every record and every request, and sends at most ACRs of
\* numbered requests, keeps the invariant.
LEMMA NumbersKept ==
  ASSUME TypeInv, TypeInv', NumberInv,
         \A s \in Sites : RecordKept(s),
         \A n \in Msgs : RequestKept(n),
         \A a \in acrs' : a \in acrs \/ /\ Numbered(a.msg)
                                        /\ a.session_id = SessionId(a.msg)
                                        /\ a.number = Number(a.msg)
                                        /\ a.record_type = msg[a.msg].record_type
  PROVE  NumberInv'
<1>1. \A n \in Msgs : Local(n)' = Local(n) /\ Local(n) \in Sites
  BY StoreInSites, Zenon DEF RequestKept, Local
<1>2. /\ nextCas \in [Sites -> Nat] /\ nextCas' \in [Sites -> Nat]
      /\ \A s \in Sites : store[s].cas \in Nat /\ store'[s].cas \in Nat
      /\ \A n \in Msgs : held[n].cas \in Nat /\ copy[n].cas \in Nat
  BY Zenon DEF TypeInv, TypeOK, Record
<1>3. Places'
  BY DEF NumberInv, Places, RequestKept
<1>4. \A x, s : StoredBy(x, s) => StoredBy(x, s)'
  BY Zenon DEF StoredBy, RequestKept
<1>5. StoredRecords'
  BY <1>2, <1>4 DEF NumberInv, StoredRecords, Present, RecordKept
<1>6. Readers'
  <2>. SUFFICES ASSUME NEW n \in Msgs, pc'[n] \in {"write", "remove"}
                PROVE  /\ ~fresh'[n]
                       /\ held'[n].cas # 0
                       /\ held'[n].cas < nextCas'[Local(n)']
                       /\ StoredBy(SessionId(n), Local(n))'
                       /\ held'[n].cas = store'[Local(n)'].cas =>
                            /\ SessionId(n)' = StoredId(Local(n))'
                            /\ Number(n)' = StoredNumber(Local(n))' + 1
    BY Zenon DEF Readers
  <2>1. /\ pc[n] \in {"write", "remove"}
        /\ held'[n].cas = held[n].cas /\ fresh'[n] = fresh[n]
        /\ SessionId(n)' = SessionId(n) /\ Number(n)' = Number(n)
    BY Zenon DEF RequestKept
  <2>2. /\ ~fresh[n]
        /\ held[n].cas # 0
        /\ held[n].cas < nextCas[Local(n)]
        /\ StoredBy(SessionId(n), Local(n))
        /\ held[n].cas = store[Local(n)].cas =>
             SessionId(n) = StoredId(Local(n)) /\ Number(n) = StoredNumber(Local(n)) + 1
    BY <2>1, Zenon DEF NumberInv, Readers
  <2>3. StoredBy(SessionId(n), Local(n))'
    BY <1>1, <1>4, <2>1, <2>2 DEF StoredBy
  <2>4. RecordKept(Local(n))
    BY <1>1, Zenon
  <2>. QED  BY <1>1, <1>2, <2>1, <2>2, <2>3, <2>4 DEF RecordKept, StoredId, StoredNumber
<1>7. Retimers'
  <2>. SUFFICES ASSUME NEW n \in Msgs, pc'[n] = "retime_write"
                PROVE  /\ copy'[n].cas # 0
                       /\ copy'[n].cas < nextCas'[Local(n)']
                       /\ copy'[n].cas = store'[Local(n)'].cas =>
                            /\ copy'[n].sess.session_id = StoredId(Local(n))'
                            /\ copy'[n].sess.acct_record_number = StoredNumber(Local(n))'
    BY Zenon DEF Retimers
  <2>1. pc[n] = "retime_write" /\ copy'[n] = copy[n]
    BY Zenon DEF RequestKept
  <2>2. /\ copy[n].cas # 0
        /\ copy[n].cas < nextCas[Local(n)]
        /\ copy[n].cas = store[Local(n)].cas =>
             /\ copy[n].sess.session_id = StoredId(Local(n))
             /\ copy[n].sess.acct_record_number = StoredNumber(Local(n))
    BY <2>1, Zenon DEF NumberInv, Retimers
  <2>4. RecordKept(Local(n))
    BY <1>1, Zenon
  <2>. QED  BY <1>1, <1>2, <2>1, <2>2, <2>4 DEF RecordKept, StoredId, StoredNumber
<1>8. Owners'
  <2>. SUFFICES ASSUME NEW n \in Msgs, Numbered(n)'
                PROVE  /\ msg'[n].record_type \notin OngoingTypes =>
                            SessionId(n)' = n /\ Number(n)' = 1
                       /\ msg'[n].record_type \in OngoingTypes =>
                            StoredBy(SessionId(n), Local(n))'
                       /\ \A s \in Sites : Present(s)' /\ StoredId(s)' = SessionId(n)' =>
                            /\ Number(n)' <= StoredNumber(s)'
                            /\ msg'[n].record_type # "STOP"
    BY Zenon DEF Owners
  <2>1. /\ Numbered(n)
        /\ msg'[n].record_type = msg[n].record_type
        /\ SessionId(n)' = SessionId(n)
        /\ Number(n)' = Number(n)
    BY Zenon DEF RequestKept
  <2>2. /\ msg[n].record_type \notin OngoingTypes => SessionId(n) = n /\ Number(n) = 1
        /\ msg[n].record_type \in OngoingTypes => StoredBy(SessionId(n), Local(n))
        /\ \A s \in Sites : Present(s) /\ StoredId(s) = SessionId(n) =>
             Number(n) <= StoredNumber(s) /\ msg[n].record_type # "STOP"
    BY <2>1, Zenon DEF NumberInv, Owners
  <2>3. msg[n].record_type \in OngoingTypes => StoredBy(SessionId(n), Local(n))'
    BY <1>1, <1>4, <2>1, <2>2 DEF StoredBy
  <2>4. \A s \in Sites : Present(s)' => /\ Present(s)
                                       /\ StoredId(s)' = StoredId(s)
                                       /\ StoredNumber(s)' = StoredNumber(s)
    BY Zenon DEF RecordKept, Present
  <2>. QED  BY <2>1, <2>2, <2>3, <2>4, Zenon
<1>9. Distinct'
  BY DEF NumberInv, Distinct, RequestKept
<1>10. SentAcrs'
  <2>1. \A a \in acrs' : a.msg \in Msgs
    BY Zenon DEF TypeInv, TypeOK, Acr
  <2>. QED  BY <2>1 DEF NumberInv, SentAcrs, RequestKept
<1>. QED  BY <1>3, <1>5, <1>6, <1>7, <1>8, <1>9, <1>10, Zenon DEF NumberInv

-----------------------------------------------------------------------------
(* The steps that give no number *)

\* Initially no request has a number and the store is empty.
LEMMA NumbersInit == Init => NumberInv
BY DEF Init, NumberInv, Places, StoredRecords, Readers, Retimers, Owners, Distinct,
       SentAcrs, Numbered, Present, Absent

\* A new START or EVENT has a session of its own, with number 1.
LEMMA NumbersFirst ==
  ASSUME TypeInv, NumberInv, NEW m \in Msgs, First(m)
  PROVE  NumberInv'
<1>1. /\ pc[m] = "idle"
      /\ pc' = [pc EXCEPT ![m] = "send"]
      /\ UNCHANGED <<store, nextCas, acrs, copy, fresh>>
  BY Zenon DEF First, Arrive, Goto, stores
<1>2. /\ pc'[m] = "send"
      /\ \A n \in Msgs : n # m => pc'[n] = pc[n] /\ msg'[n] = msg[n] /\ held'[n] = held[n]
  BY <1>1, Zenon DEF First, Arrive, TypeInv, TypeOK
<1>3. /\ msg'[m].record_type \in RecordTypes \ OngoingTypes
      /\ held'[m].sess.session_id = m
      /\ held'[m].sess.acct_record_number = 1
  BY DEF First, Arrive, TypeInv, TypeOK
<1>4. \A x, s : StoredBy(x, s) => StoredBy(x, s)' /\ x # m
  BY <1>1, <1>2, Zenon DEF StoredBy
<1>5. Places'
  BY <1>2, ZenonT(30) DEF NumberInv, Places
<1>6. StoredRecords'
  BY <1>1, <1>4, Zenon DEF NumberInv, StoredRecords, Present, StoredId
<1>7. Readers'
  BY <1>1, <1>2, <1>4 DEF NumberInv, Readers, Local, StoredId, StoredNumber, SessionId,
     Number
<1>8. Retimers'
  BY <1>1, <1>2 DEF NumberInv, Retimers, Local, StoredId, StoredNumber
<1>9. Numbered(m)' /\ ~Numbered(m) /\ \A n \in Msgs : n # m => Numbered(n)' = Numbered(n)
  BY <1>1, <1>2, Zenon DEF Numbered
<1>10. \A n \in Msgs : n # m /\ Numbered(n) => SessionId(n) # m
  BY <1>4, Zenon DEF NumberInv, Owners
<1>11. Owners'
  <2>. SUFFICES ASSUME NEW n \in Msgs, Numbered(n)'
                PROVE  /\ msg'[n].record_type \notin OngoingTypes =>
                            SessionId(n)' = n /\ Number(n)' = 1
                       /\ msg'[n].record_type \in OngoingTypes =>
                            StoredBy(SessionId(n), Local(n))'
                       /\ \A s \in Sites : Present(s)' /\ StoredId(s)' = SessionId(n)' =>
                            /\ Number(n)' <= StoredNumber(s)'
                            /\ msg'[n].record_type # "STOP"
    BY Zenon DEF Owners
  <2>1. CASE n = m
    <3>1. \A s \in Sites : Present(s) => StoredId(s) # m
      BY <1>4, Zenon DEF NumberInv, StoredRecords
    <3>. QED  BY <1>1, <1>3, <2>1, <3>1, Zenon DEF SessionId, Number, Present, StoredId
  <2>2. CASE n # m
    BY <1>1, <1>2, <1>4, <1>9, <2>2
       DEF NumberInv, Owners, SessionId, Number, Present, StoredId, StoredNumber, Local
  <2>. QED  BY <2>1, <2>2, Zenon
<1>12. Distinct'
  BY <1>2, <1>3, <1>9, <1>10 DEF NumberInv, Distinct, SessionId, Number
<1>13. SentAcrs'
  <2>1. \A a \in acrs : a.msg \in Msgs
    BY Zenon DEF TypeInv, TypeOK, Acr
  <2>. QED  BY <1>1, <1>2, <1>9, <2>1 DEF NumberInv, SentAcrs, SessionId, Number
<1>. QED  BY <1>5, <1>6, <1>7, <1>8, <1>11, <1>12, <1>13, Zenon DEF NumberInv

\* A request without a number moves to "lookup" or is ignored.
LEMMA NumbersUnnumbered ==
  ASSUME TypeInv, NumberInv, NEW m \in Msgs, NEW label \in {"lookup", "ignored"},
         pc' = [pc EXCEPT ![m] = label], ~Numbered(m),
         UNCHANGED <<stores, held, fresh, acrs>>,
         \A n \in Msgs : n # m => msg'[n] = msg[n] /\ copy'[n] = copy[n],
         label = "lookup" => msg'[m].record_type \in OngoingTypes
  PROVE  NumberInv'
<1>1. pc'[m] = label /\ \A n \in Msgs : n # m => pc'[n] = pc[n]
  BY Zenon DEF TypeInv, TypeOK
<1>2. UNCHANGED <<store, nextCas>>
  BY Zenon DEF stores
<1>3. \A x, s : StoredBy(x, s) => StoredBy(x, s)'
  BY <1>1, Zenon DEF StoredBy, Numbered
<1>4. ~Numbered(m)' /\ \A n \in Msgs : n # m => Numbered(n)' = Numbered(n)
  BY <1>1, Zenon DEF Numbered
<1>5. Places'
  BY <1>1 DEF NumberInv, Places
<1>6. StoredRecords'
  BY <1>2, <1>3, Zenon DEF NumberInv, StoredRecords, Present, StoredId
<1>7. Readers'
  BY <1>1, <1>2, <1>3 DEF NumberInv, Readers, Local, StoredId, StoredNumber, SessionId,
     Number
<1>8. Retimers'
  BY <1>1, <1>2 DEF NumberInv, Retimers, Local, StoredId, StoredNumber
<1>9. Owners'
  BY <1>2, <1>3, <1>4
     DEF NumberInv, Owners, SessionId, Number, Present, StoredId, StoredNumber, Local
<1>10. Distinct'
  BY <1>4, Zenon DEF NumberInv, Distinct, SessionId, Number
<1>11. SentAcrs'
  BY <1>4, Zenon DEF NumberInv, SentAcrs, SessionId, Number, TypeInv, TypeOK, Acr
<1>. QED  BY <1>5, <1>6, <1>7, <1>8, <1>9, <1>10, <1>11, Zenon DEF NumberInv

\* Requests that take no part in a step are kept.
LEMMA OthersKept ==
  ASSUME NEW n \in Msgs, pc'[n] = pc[n], msg'[n] = msg[n], held'[n] = held[n],
         copy'[n] = copy[n], fresh'[n] = fresh[n]
  PROVE  RequestKept(n)
BY Zenon DEF RequestKept, Numbered, SessionId, Number

\* A numbered request that keeps type, site, session and number and moves on.
LEMMA MoverKept ==
  ASSUME NEW m \in Msgs, Numbered(m),
         msg'[m].record_type = msg[m].record_type, msg'[m].site = msg[m].site,
         held'[m].sess.session_id = held[m].sess.session_id,
         held'[m].sess.acct_record_number = held[m].sess.acct_record_number,
         pc'[m] \in {"send", "wait", "post", "put", "update", "retime_read", "kill", "pass", "done"},
         pc'[m] \in {"post", "put"} => msg[m].record_type = "START",
         pc[m] \in {"pass", "done"} => pc'[m] = "done"
  PROVE  RequestKept(m)
BY Zenon DEF RequestKept, Numbered, SessionId, Number

\* Records no step writes to are kept.
LEMMA StoresKept ==
  ASSUME TypeInv, UNCHANGED stores
  PROVE  \A s \in Sites : RecordKept(s)
BY DEF TypeInv, TypeOK, stores, RecordKept, StoredId, StoredNumber

\* STOP: cancelling the timer.
LEMMA NumbersCancel ==
  ASSUME TypeInv, TypeInv', NumberInv, NEW m \in Msgs, Cancel(m)
  PROVE  NumberInv'
<1>1. /\ pc[m] = "cancel" /\ pc'[m] = "send"
      /\ \A n \in Msgs : n # m => pc'[n] = pc[n]
      /\ UNCHANGED <<msg, held, copy, fresh, acrs, stores>>
  BY Zenon DEF Cancel, Goto, TypeInv, TypeOK
<1>2. RequestKept(m)
  BY <1>1, MoverKept, Zenon DEF Numbered
<1>3. \A n \in Msgs : RequestKept(n)
  BY <1>1, <1>2, OthersKept, Zenon
<1>. QED  BY <1>1, <1>3, StoresKept, NumbersKept, Zenon

\* The ACR is sent with the number of its request.
LEMMA NumbersSend ==
  ASSUME TypeInv, TypeInv', NumberInv, NEW m \in Msgs, Send(m)
  PROVE  NumberInv'
<1>1. /\ pc[m] = "send" /\ pc'[m] = "wait"
      /\ \A n \in Msgs : n # m => pc'[n] = pc[n] /\ msg'[n] = msg[n]
      /\ UNCHANGED <<held, copy, fresh, stores>>
  BY Zenon DEF Send, Goto, TypeInv, TypeOK
<1>2. msg[m] \in Message
  BY Zenon DEF TypeInv, TypeOK
<1>3. msg'[m].record_type = msg[m].record_type /\ msg'[m].site = msg[m].site
  BY <1>2, Zenon DEF Send, Message, TypeInv, TypeOK
<1>4. RequestKept(m)
  BY <1>1, <1>3, MoverKept, Zenon DEF Numbered
<1>5. \A n \in Msgs : RequestKept(n)
  BY <1>1, <1>4, OthersKept, Zenon
<1>6. \A a \in acrs' : a \in acrs \/ /\ a.msg = m
                                     /\ a.session_id = SessionId(m)
                                     /\ a.number = Number(m)
                                     /\ a.record_type = msg[m].record_type
  BY DEF Send, SessionId, Number
<1>7. Numbered(m)
  BY <1>1, Zenon DEF Numbered
<1>8. \A a \in acrs' : a \in acrs \/ /\ Numbered(a.msg)
                                     /\ a.session_id = SessionId(a.msg)
                                     /\ a.number = Number(a.msg)
                                     /\ a.record_type = msg[a.msg].record_type
  BY <1>6, <1>7, Zenon
<1>. QED  BY <1>1, <1>5, <1>8, StoresKept, NumbersKept, Zenon

\* The answer of the CDF decides what is called next, not the number.
LEMMA NumbersOnCcfResponse ==
  ASSUME TypeInv, TypeInv', NumberInv, NEW m \in Msgs, OnCcfResponse(m)
  PROVE  NumberInv'
<1>1. /\ pc[m] = "wait"
      /\ UNCHANGED <<msg, held, copy, fresh, stores, acrs>>
  BY Zenon DEF OnCcfResponse
<1>2. PICK rc, interval : pc' = [pc EXCEPT ![m] = Reaction(m, rc, interval)]
  BY Zenon DEF OnCcfResponse, Goto
<1>3. pc'[m] = Reaction(m, rc, interval) /\ \A n \in Msgs : n # m => pc'[n] = pc[n]
  BY <1>2, Zenon DEF TypeInv, TypeOK
<1>4. /\ Reaction(m, rc, interval) \in {"post", "put", "kill", "update", "pass", "done"}
      /\ Reaction(m, rc, interval) \in {"post", "put"} => msg[m].record_type = "START"
  BY Zenon DEF Reaction, Finish
<1>5. RequestKept(m)
  BY <1>1, <1>3, <1>4, MoverKept, Zenon DEF Numbered
<1>6. \A n \in Msgs : RequestKept(n)
  BY <1>1, <1>3, <1>5, OthersKept, Zenon
<1>. QED  BY <1>1, <1>6, StoresKept, NumbersKept, Zenon

\* The first timer of a session.
LEMMA NumbersPost ==
  ASSUME TypeInv, TypeInv', NumberInv, NEW m \in Msgs, Post(m)
  PROVE  NumberInv'
<1>1. /\ pc[m] = "post" /\ pc'[m] = "put"
      /\ \A n \in Msgs : n # m => pc'[n] = pc[n] /\ held'[n] = held[n]
      /\ UNCHANGED <<msg, copy, fresh, stores, acrs>>
  BY Zenon DEF Post, Goto, TypeInv, TypeOK
<1>2. held[m] \in Record /\ held[m].sess \in Session
  BY <1>1, Zenon DEF TypeInv, TypeOK
<1>3. /\ held'[m].sess.session_id = held[m].sess.session_id
      /\ held'[m].sess.acct_record_number = held[m].sess.acct_record_number
  BY <1>2 DEF Post, Session, SessionOf, Record, TypeInv, TypeOK
<1>4. msg[m].record_type = "START"
  BY <1>1, Zenon DEF NumberInv, Places
<1>5. RequestKept(m)
  BY <1>1, <1>3, <1>4, MoverKept, Zenon DEF Numbered
<1>6. \A n \in Msgs : RequestKept(n)
  BY <1>1, <1>5, OthersKept, Zenon
<1>. QED  BY <1>1, <1>6, StoresKept, NumbersKept, Zenon

\* A later timer of a session.
LEMMA NumbersUpdate ==
  ASSUME TypeInv, TypeInv', NumberInv, NEW m \in Msgs, Update(m)
  PROVE  NumberInv'
<1>1. /\ pc[m] = "update" /\ pc'[m] \in {"pass", "done", "retime_read"}
      /\ \A n \in Msgs : n # m => pc'[n] = pc[n] /\ held'[n] = held[n]
      /\ UNCHANGED <<msg, copy, fresh, stores, acrs>>
  BY Zenon DEF Update, Goto, Finish, TypeInv, TypeOK
<1>2. held[m] \in Record /\ held[m].sess \in Session
  BY <1>1, Zenon DEF TypeInv, TypeOK
<1>3. /\ held'[m].sess.session_id = held[m].sess.session_id
      /\ held'[m].sess.acct_record_number = held[m].sess.acct_record_number
  BY <1>2 DEF Update, Session, SessionOf, Record, TypeInv, TypeOK
<1>4. RequestKept(m)
  BY <1>1, <1>3, MoverKept, Zenon DEF Numbered
<1>5. \A n \in Msgs : RequestKept(n)
  BY <1>1, <1>4, OthersKept, Zenon
<1>. QED  BY <1>1, <1>5, StoresKept, NumbersKept, Zenon

\* 5002: the record goes, and with it the number.
LEMMA NumbersKill ==
  ASSUME SingleSite, TypeInv, TypeInv', NumberInv, NEW m \in Msgs, Kill(m)
  PROVE  NumberInv'
<1>1. pc[m] = "kill" /\ UNCHANGED <<msg, held, copy, fresh, acrs>>
  BY Zenon DEF Kill
<1>2. pc'[m] = "done" /\ \A n \in Msgs : n # m => pc'[n] = pc[n]
  BY OneStoreNext DEF Kill, TypeInv, TypeOK
<1>3. RequestKept(m)
  BY <1>1, <1>2, MoverKept, Zenon DEF Numbered
<1>4. \A n \in Msgs : RequestKept(n)
  BY <1>1, <1>2, <1>3, OthersKept, Zenon
<1>5. \A s \in Sites : RecordKept(s)
  <2>1. nextCas' = nextCas /\ \A s \in Sites : store'[s] = store[s] \/ store'[s].cas = 0
    BY DEF Kill, DeleteData, Absent, TypeInv, TypeOK
  <2>. QED  BY <2>1 DEF RecordKept, TypeInv, TypeOK, StoredId, StoredNumber
<1>. QED  BY <1>1, <1>4, <1>5, NumbersKept, Zenon

\* health_check_passed, and the message is deleted.
LEMMA NumbersHealthCheckPassed ==
  ASSUME TypeInv, TypeInv', NumberInv, NEW m \in Msgs, HealthCheckPassed(m)
  PROVE  NumberInv'
<1>1. /\ pc[m] = "pass" /\ pc'[m] = "done"
      /\ \A n \in Msgs : n # m => pc'[n] = pc[n]
      /\ UNCHANGED <<msg, held, copy, fresh, acrs, stores>>
  BY Zenon DEF HealthCheckPassed, Goto, TypeInv, TypeOK
<1>2. RequestKept(m)
  BY <1>1, MoverKept, Zenon DEF Numbered
<1>3. \A n \in Msgs : RequestKept(n)
  BY <1>1, <1>2, OthersKept, Zenon
<1>. QED  BY <1>1, <1>3, StoresKept, NumbersKept, Zenon

\* A crash ends a request with the number it has, or without one.
LEMMA NumbersCrash ==
  ASSUME TypeInv, TypeInv', NumberInv, NEW m \in Msgs, Crash(m)
  PROVE  NumberInv'
<1>1. /\ pc' = [pc EXCEPT ![m] = IF Numbered(m) THEN "done" ELSE "ignored"]
      /\ \A n \in Msgs : n # m => pc'[n] = pc[n] /\ copy'[n] = copy[n]
      /\ UNCHANGED <<msg, held, fresh, acrs, stores>>
  BY Zenon DEF Crash, Goto, TypeInv, TypeOK
<1>2. CASE Numbered(m)
  <2>1. pc'[m] = "done"
    BY <1>1, <1>2, Zenon DEF TypeInv, TypeOK
  <2>2. RequestKept(m)
    BY <1>1, <1>2, <2>1, MoverKept, Zenon
  <2>3. \A n \in Msgs : RequestKept(n)
    BY <1>1, <2>2, OthersKept, Zenon
  <2>. QED  BY <1>1, <2>3, StoresKept, NumbersKept, Zenon
<1>3. CASE ~Numbered(m)
  BY <1>1, <1>3, NumbersUnnumbered, Zenon
<1>. QED  BY <1>2, <1>3, Zenon

\* Expiring timers, lost records and rest.
LEMMA NumbersEnvironment ==
  ASSUME TypeInv, TypeInv', NumberInv,
         \/ \E t \in TimerIds : TimerExpires(t)
         \/ \E s \in Sites : Lose(s)
         \/ UNCHANGED vars
  PROVE  NumberInv'
<1>1. UNCHANGED <<pc, msg, held, copy, fresh, acrs>>
  BY Zenon DEF TimerExpires, Lose, vars, handling
<1>2. \A n \in Msgs : RequestKept(n)
  BY <1>1, OthersKept, Zenon
<1>3. \A s \in Sites : RecordKept(s)
  <2>1. CASE \E s \in Sites : Lose(s)
    BY <2>1 DEF Lose, RecordKept, Absent, TypeInv, TypeOK, StoredId, StoredNumber
  <2>2. CASE UNCHANGED stores
    BY <2>2, StoresKept, Zenon
  <2>. QED  BY <2>1, <2>2, Zenon DEF TimerExpires, vars, stores
<1>. QED  BY <1>1, <1>2, <1>3, NumbersKept, Zenon

\* INTERIM or STOP, from Sprout or from the timer.
LEMMA NumbersOngoing ==
  ASSUME TypeInv, NumberInv, NEW m \in Msgs, Ongoing(m) \/ TimerPop(m)
  PROVE  NumberInv'
<1>1. /\ pc[m] = "idle" /\ pc' = [pc EXCEPT ![m] = "lookup"]
      /\ UNCHANGED <<stores, held, copy, fresh, acrs>>
      /\ \A n \in Msgs : n # m => msg'[n] = msg[n]
      /\ msg'[m].record_type \in OngoingTypes
  BY DEF Ongoing, TimerPop, Arrive, Goto, TypeInv, TypeOK, OngoingTypes
<1>. QED  BY <1>1, NumbersUnnumbered, Zenon DEF Numbered

-----------------------------------------------------------------------------
(* The steps that read a number *)

\* A request reads the record: it holds the next number, but does not own it yet.
LEMMA NumbersLookup ==
  ASSUME SingleSite, TypeInv, TypeInv', NumberInv, NEW m \in Msgs, Lookup(m)
  PROVE  NumberInv'
<1>1. /\ pc[m] = "lookup" /\ ~Numbered(m)
      /\ UNCHANGED <<msg, copy, stores, acrs>>
      /\ UNCHANGED <<store, nextCas>>
  BY Zenon DEF Lookup, Numbered, stores
<1>2. msg[m].record_type \in OngoingTypes
  BY <1>1, Zenon DEF NumberInv, Places
<1>3. Current(m) = Local(m) /\ Local(m) \in Sites /\ idx[m] = 1
  BY OneStore, Zenon
<1>4. GetData(Current(m)) = {store[Local(m)]}
  BY <1>3, Zenon DEF GetData, SingleSite
<1>. DEFINE got == store[Local(m)]
<1>5. CASE got.cas = 0
  <2>1. NextStore(m, "lookup", "ignored") /\ UNCHANGED <<held, fresh>>
    BY <1>4, <1>5, Zenon DEF Lookup
  <2>2. pc' = [pc EXCEPT ![m] = "ignored"]
    BY <2>1, OneStoreNext, Zenon
  <2>. QED  BY <1>1, <2>1, <2>2, NumbersUnnumbered, Zenon
<1>6. CASE got.cas # 0
  <2>1. /\ held' = [held EXCEPT ![m] = [got EXCEPT !.sess = NextRecord(got.sess)]]
        /\ fresh' = [fresh EXCEPT ![m] = (idx[m] > 1)]
        /\ pc' = [pc EXCEPT ![m] = IF msg[m].record_type = "INTERIM" THEN "write" ELSE "remove"]
    BY <1>4, <1>6, Zenon DEF Lookup, Goto
  <2>2. got \in Record /\ got.sess \in Session
    BY <1>3, <1>6, Zenon DEF TypeInv, TypeOK
  <2>3. /\ held'[m] = [got EXCEPT !.sess = NextRecord(got.sess)]
        /\ ~fresh'[m]
        /\ pc'[m] = IF msg[m].record_type = "INTERIM" THEN "write" ELSE "remove"
    <3>1. (idx[m] > 1) = FALSE
      BY <1>3
    <3>2. fresh' = [fresh EXCEPT ![m] = FALSE]
      BY <2>1, <3>1, Zenon
    <3>3. ~fresh'[m]
      BY <3>2, Zenon DEF TypeInv, TypeOK
    <3>. QED  BY <2>1, <3>3, Zenon DEF TypeInv, TypeOK
  <2>4. \A n \in Msgs : n # m => held'[n] = held[n] /\ fresh'[n] = fresh[n] /\ pc'[n] = pc[n]
    BY <2>1, Zenon DEF TypeInv, TypeOK
  <2>5. /\ held'[m].cas = got.cas
        /\ held'[m].sess.session_id = got.sess.session_id
        /\ held'[m].sess.acct_record_number = got.sess.acct_record_number + 1
    BY <2>2, <2>3 DEF Record, NextRecord, Session, SessionOf
  <2>6. ~Numbered(m)' /\ \A n \in Msgs : n # m => Numbered(n)' = Numbered(n)
    BY <2>3, <2>4, Zenon DEF Numbered
  <2>7. \A x, s : StoredBy(x, s) => StoredBy(x, s)'
    BY <1>1, <2>4, Zenon DEF StoredBy
  <2>8. Places'
    BY <1>1, <1>2, <2>3, <2>4, Zenon DEF NumberInv, Places, OngoingTypes
  <2>9. StoredRecords'
    BY <1>1, <2>7, Zenon DEF NumberInv, StoredRecords, Present, StoredId
  <2>10. /\ got.cas < nextCas[Local(m)]
         /\ StoredBy(got.sess.session_id, Local(m))
    BY <1>3, <1>6, Zenon DEF NumberInv, StoredRecords, Present, StoredId
  <2>11. Readers'
    <3>. SUFFICES ASSUME NEW n \in Msgs, pc'[n] \in {"write", "remove"}
                  PROVE  /\ ~fresh'[n]
                         /\ held'[n].cas # 0
                         /\ held'[n].cas < nextCas'[Local(n)']
                         /\ StoredBy(SessionId(n), Local(n))'
                         /\ held'[n].cas = store'[Local(n)'].cas =>
                              /\ SessionId(n)' = StoredId(Local(n))'
                              /\ Number(n)' = StoredNumber(Local(n))' + 1
      BY Zenon DEF Readers
    <3>1. Local(n)' = Local(n)
      BY <1>1, Zenon DEF Local
    <3>2. CASE n = m
      <4>1. SessionId(m)' = got.sess.session_id /\ Number(m)' = got.sess.acct_record_number + 1
        BY <2>5, Zenon DEF SessionId, Number
      <4>2. StoredBy(SessionId(m), Local(m))'
        BY <2>7, <2>10, <3>1, <3>2, <4>1 DEF StoredBy
      <4>. QED  BY <1>1, <1>6, <2>3, <2>5, <2>10, <3>1, <3>2, <4>1, <4>2, Zenon
                DEF StoredId, StoredNumber
    <3>3. CASE n # m
      BY <1>1, <2>4, <2>7, <3>3, Zenon
         DEF NumberInv, Readers, Local, StoredId, StoredNumber, SessionId, Number
    <3>. QED  BY <3>2, <3>3, Zenon
  <2>12. Retimers'
    BY <1>1, <2>3, <2>4 DEF NumberInv, Retimers, Local, StoredId, StoredNumber
  <2>13. Owners'
    BY <1>1, <2>4, <2>6, <2>7
       DEF NumberInv, Owners, SessionId, Number, Present, StoredId, StoredNumber, Local
  <2>14. Distinct'
    <3>1. \A a \in Msgs : Numbered(a)' => /\ Numbered(a)
                                         /\ SessionId(a)' = SessionId(a)
                                         /\ Number(a)' = Number(a)
      BY <2>4, <2>6, Zenon DEF SessionId, Number
    <3>. QED  BY <1>1, <3>1, Zenon DEF NumberInv, Distinct
  <2>15. SentAcrs'
    BY <1>1, <2>4, <2>6, Zenon DEF NumberInv, SentAcrs, SessionId, Number, TypeInv,
       TypeOK, Acr
  <2>. QED  BY <2>8, <2>9, <2>11, <2>12, <2>13, <2>14, <2>15, Zenon DEF NumberInv
<1>. QED  BY <1>5, <1>6, Zenon

\* update_timer_id reads the record.
LEMMA NumbersRetimeRead ==
  ASSUME SingleSite, TypeInv, TypeInv', NumberInv, NEW m \in Msgs, RetimeRead(m)
  PROVE  NumberInv'
<1>1. /\ pc[m] = "retime_read"
      /\ UNCHANGED <<msg, held, fresh, stores, acrs>>
      /\ UNCHANGED <<store, nextCas>>
  BY Zenon DEF RetimeRead, stores
<1>2. Current(m) = Local(m) /\ Local(m) \in Sites
  BY OneStore, Zenon
<1>3. GetData(Current(m)) = {store[Local(m)]}
  BY <1>2, Zenon DEF GetData, SingleSite
<1>. DEFINE got == store[Local(m)]
<1>4. CASE got.cas = 0
  <2>1. NextStore(m, "retime_read", Finish(aca[m].accepted)) /\ UNCHANGED copy
    BY <1>3, <1>4, Zenon DEF RetimeRead
  <2>2. pc' = [pc EXCEPT ![m] = Finish(aca[m].accepted)]
    BY <2>1, OneStoreNext, Zenon
  <2>3. pc'[m] \in {"pass", "done"} /\ \A n \in Msgs : n # m => pc'[n] = pc[n]
    BY <2>2, Zenon DEF Finish, TypeInv, TypeOK
  <2>4. RequestKept(m)
    BY <1>1, <2>3, MoverKept, Zenon DEF Numbered
  <2>5. \A n \in Msgs : RequestKept(n)
    BY <1>1, <2>1, <2>3, <2>4, OthersKept, Zenon
  <2>. QED  BY <1>1, <2>5, StoresKept, NumbersKept, Zenon
<1>5. CASE got.cas # 0
  <2>1. /\ copy' = [copy EXCEPT ![m] =
             [got EXCEPT !.sess = [got.sess EXCEPT !.timer_id = held[m].sess.timer_id]]]
        /\ pc' = [pc EXCEPT ![m] = "retime_write"]
    BY <1>3, <1>5, Zenon DEF RetimeRead, Goto
  <2>2. got \in Record /\ got.sess \in Session
    BY <1>2, <1>5, Zenon DEF TypeInv, TypeOK
  <2>3. /\ pc'[m] = "retime_write"
        /\ copy'[m] = [got EXCEPT !.sess = [got.sess EXCEPT !.timer_id = held[m].sess.timer_id]]
        /\ \A n \in Msgs : n # m => copy'[n] = copy[n] /\ pc'[n] = pc[n]
    BY <2>1, Zenon DEF TypeInv, TypeOK
  <2>4. /\ copy'[m].cas = got.cas
        /\ copy'[m].sess.session_id = got.sess.session_id
        /\ copy'[m].sess.acct_record_number = got.sess.acct_record_number
    BY <2>2, <2>3, Zenon DEF Record, Session, SessionOf
  <2>5. \A n \in Msgs : Numbered(n)' = Numbered(n)
    BY <1>1, <2>3, Zenon DEF Numbered
  <2>6. \A x, s : StoredBy(x, s) => StoredBy(x, s)'
    BY <1>1, <2>3, Zenon DEF StoredBy
  <2>7. Places'
    BY <1>1, <2>3 DEF NumberInv, Places
  <2>8. StoredRecords'
    BY <1>1, <2>6, Zenon DEF NumberInv, StoredRecords, Present, StoredId
  <2>9. Readers'
    BY <1>1, <2>3, <2>6, Zenon DEF NumberInv, Readers, Local, StoredId, StoredNumber,
       SessionId, Number
  <2>10. got.cas < nextCas[Local(m)]
    BY <1>2, Zenon DEF NumberInv, StoredRecords
  <2>11. Retimers'
    BY <1>1, <1>5, <2>3, <2>4, <2>10, ZenonT(60)
       DEF NumberInv, Retimers, Local, StoredId, StoredNumber
  <2>12. Owners'
    BY <1>1, <2>5, <2>6, Zenon
       DEF NumberInv, Owners, SessionId, Number, Present, StoredId, StoredNumber, Local
  <2>13. Distinct'
    BY <1>1, <2>5, Zenon DEF NumberInv, Distinct, SessionId, Number
  <2>14. SentAcrs'
    BY <1>1, <2>5, Zenon DEF NumberInv, SentAcrs, SessionId, Number, TypeInv, TypeOK, Acr
  <2>. QED  BY <2>7, <2>8, <2>9, <2>11, <2>12, <2>13, <2>14 DEF NumberInv
<1>. QED  BY <1>4, <1>5

-----------------------------------------------------------------------------
(* The steps that give a number, or store one *)

\* A write to a store without errors succeeds or reports contention.
LEMMA SetDataSingle ==
  ASSUME SingleSite, NEW s \in Sites, NEW sess, NEW cas, NEW expiry, NEW rc,
         SetData(s, sess, cas, expiry, rc)
  PROVE  \/ rc = "OK" /\ cas = store[s].cas /\ Written(s, sess, expiry)
         \/ rc = "DATA_CONTENTION" /\ cas # store[s].cas /\ UNCHANGED stores
BY Zenon DEF SetData, SetStatus, SingleSite

\* What a successful write does to the records.
LEMMA WrittenRecords ==
  ASSUME TypeInv, NEW s \in Sites, NEW sess, NEW expiry, Written(s, sess, expiry)
  PROVE  /\ \A r \in Sites : r # s => store'[r] = store[r] /\ nextCas'[r] = nextCas[r]
         /\ nextCas'[s] = nextCas[s] + 1
         /\ \/ store'[s].cas = 0
            \/ store'[s].cas = nextCas[s] /\ store'[s].sess = sess
         /\ expiry = 0 => store'[s].cas = 0
<1>1. store \in [Sites -> Record] /\ nextCas \in [Sites -> Nat \ {0}]
  BY Zenon DEF TypeInv, TypeOK
<1>. QED  BY <1>1, Zenon DEF Written, Absent

\* The heart of the matter: a request whose CAS is still that of the record gets
\* the number after the stored one, which no request of the session has.
LEMMA NumbersGiven ==
  ASSUME TypeInv, TypeInv', NumberInv, NEW m \in Msgs, NEW s \in Sites, s = Local(m),
         pc[m] \in {"write", "remove"},
         held[m].cas = store[s].cas,
         \A r \in Sites : r # s => store'[r] = store[r] /\ nextCas'[r] = nextCas[r],
         nextCas'[s] = nextCas[s] + 1,
         \/ store'[s].cas = 0
         \/ /\ store'[s].cas = nextCas[s]
            /\ store'[s].sess = held[m].sess
            /\ msg[m].record_type = "INTERIM",
         pc'[m] \in {"send", "cancel"},
         \A n \in Msgs : n # m => pc'[n] = pc[n],
         UNCHANGED <<msg, held, copy, fresh, acrs>>
  PROVE  NumberInv'
<1>1. /\ nextCas[s] \in Nat
      /\ \A r \in Sites : store[r].cas \in Nat /\ nextCas[r] \in Nat
      /\ \A n \in Msgs : held[n].cas \in Nat /\ copy[n].cas \in Nat
  BY Zenon DEF TypeInv, TypeOK, Record
<1>2. /\ held[m].cas # 0
      /\ StoredBy(SessionId(m), s)
      /\ SessionId(m) = StoredId(s)
      /\ Number(m) = StoredNumber(s) + 1
  BY Zenon DEF NumberInv, Readers
<1>3. Present(s)
  BY <1>2, Zenon DEF Present
<1>4. store[s].sess \in Session
  BY <1>3, Zenon DEF Present, TypeInv, TypeOK
<1>5. StoredNumber(s) \in Nat
  BY <1>4, Zenon DEF StoredNumber, Session, SessionOf
<1>6. msg[m].record_type \in OngoingTypes
  BY Zenon DEF NumberInv, Places
<1>7. \A n \in Msgs : /\ Local(n)' = Local(n) /\ Local(n) \in Sites
                     /\ SessionId(n)' = SessionId(n) /\ Number(n)' = Number(n)
  BY StoreInSites, Zenon DEF Local, SessionId, Number
<1>8. /\ ~Numbered(m) /\ Numbered(m)'
      /\ \A n \in Msgs : n # m => (Numbered(n)' <=> Numbered(n))
  BY Zenon DEF Numbered
<1>9. \A n \in Msgs : Numbered(n) /\ SessionId(n) = SessionId(m) =>
         /\ Number(n) <= StoredNumber(s)
         /\ msg[n].record_type # "STOP"
  BY <1>2, <1>3, Zenon DEF NumberInv, Owners
<1>10. \A n \in Msgs : Numbered(n) => Number(n) \in Nat
  <2>1. \A n \in Msgs : Numbered(n) => held[n].sess \in Session
    BY Zenon DEF TypeInv, TypeOK, Numbered
  <2>. QED  BY <2>1, Zenon DEF Number, Session, SessionOf
<1>11. \A x, r : StoredBy(x, r) => StoredBy(x, r)'
  BY Zenon DEF StoredBy
<1>12. \A r \in Sites : r # s => /\ Present(r)' = Present(r)
                                /\ StoredId(r)' = StoredId(r)
                                /\ StoredNumber(r)' = StoredNumber(r)
  BY Zenon DEF Present, StoredId, StoredNumber
<1>13. Present(s)' => StoredId(s)' = SessionId(m) /\ StoredNumber(s)' = Number(m)
  BY Zenon DEF Present, StoredId, StoredNumber, SessionId, Number
<1>14. Places'
  BY DEF NumberInv, Places
<1>15. StoredRecords'
  <2>. SUFFICES ASSUME NEW r \in Sites
                PROVE  store'[r].cas < nextCas'[r] /\ (Present(r)' => StoredBy(StoredId(r), r)')
    BY Zenon DEF StoredRecords
  <2>1. CASE r = s
    BY <1>1, <1>2, <1>11, <1>13, <2>1 DEF StoredBy
  <2>2. CASE r # s
    BY <1>11, <1>12, <2>2 DEF NumberInv, StoredRecords, StoredBy
  <2>. QED  BY <2>1, <2>2, Zenon
<1>16. Readers'
  <2>. SUFFICES ASSUME NEW n \in Msgs, pc'[n] \in {"write", "remove"}
                PROVE  /\ ~fresh[n]
                       /\ held[n].cas # 0
                       /\ held[n].cas < nextCas'[Local(n)]
                       /\ StoredBy(SessionId(n), Local(n))'
                       /\ held[n].cas = store'[Local(n)].cas =>
                            /\ SessionId(n) = StoredId(Local(n))'
                            /\ Number(n) = StoredNumber(Local(n))' + 1
    BY <1>7, Zenon DEF Readers, StoredId, StoredNumber
  <2>1. pc[n] \in {"write", "remove"}
    BY Zenon
  <2>2. /\ ~fresh[n]
        /\ held[n].cas # 0
        /\ held[n].cas < nextCas[Local(n)]
        /\ StoredBy(SessionId(n), Local(n))
        /\ held[n].cas = store[Local(n)].cas =>
             SessionId(n) = StoredId(Local(n)) /\ Number(n) = StoredNumber(Local(n)) + 1
    BY <2>1, Zenon DEF NumberInv, Readers
  <2>3. StoredBy(SessionId(n), Local(n))'
    BY <1>7, <1>11, <2>2, Zenon DEF StoredBy
  <2>4. CASE Local(n) = s
    BY <1>1, <2>2, <2>3, <2>4
  <2>5. CASE Local(n) # s
    BY <1>7, <1>12, <2>2, <2>3, <2>5, Zenon DEF StoredId, StoredNumber
  <2>. QED  BY <2>4, <2>5, Zenon
<1>17. Retimers'
  <2>. SUFFICES ASSUME NEW n \in Msgs, pc'[n] = "retime_write"
                PROVE  /\ copy[n].cas # 0
                       /\ copy[n].cas < nextCas'[Local(n)]
                       /\ copy[n].cas = store'[Local(n)].cas =>
                            /\ copy[n].sess.session_id = StoredId(Local(n))'
                            /\ copy[n].sess.acct_record_number = StoredNumber(Local(n))'
    BY <1>7, Zenon DEF Retimers, StoredId, StoredNumber
  <2>1. pc[n] = "retime_write"
    BY Zenon
  <2>2. /\ copy[n].cas # 0
        /\ copy[n].cas < nextCas[Local(n)]
        /\ copy[n].cas = store[Local(n)].cas =>
             /\ copy[n].sess.session_id = StoredId(Local(n))
             /\ copy[n].sess.acct_record_number = StoredNumber(Local(n))
    BY <2>1, Zenon DEF NumberInv, Retimers
  <2>3. CASE Local(n) = s
    BY <1>1, <2>2, <2>3
  <2>4. CASE Local(n) # s
    BY <1>7, <1>12, <2>2, <2>4 DEF StoredId, StoredNumber
  <2>. QED  BY <2>3, <2>4, Zenon
<1>18. Owners'
  <2>. SUFFICES ASSUME NEW n \in Msgs, Numbered(n)'
                PROVE  /\ msg[n].record_type \notin OngoingTypes =>
                            SessionId(n) = n /\ Number(n) = 1
                       /\ msg[n].record_type \in OngoingTypes =>
                            StoredBy(SessionId(n), Local(n))'
                       /\ \A r \in Sites : Present(r)' /\ StoredId(r)' = SessionId(n) =>
                            /\ Number(n) <= StoredNumber(r)'
                            /\ msg[n].record_type # "STOP"
    BY <1>7, Zenon DEF Owners
  <2>1. CASE n = m
    <3>1. StoredBy(SessionId(m), Local(m))'
      BY <1>2, <1>7, <1>11 DEF StoredBy
    <3>2. \A r \in Sites : r # s /\ Present(r) => StoredId(r) # SessionId(m)
      BY <1>2 DEF NumberInv, StoredRecords, StoredBy
    <3>3. Present(s)' => msg[m].record_type = "INTERIM"
      BY Zenon DEF Present
    <3>. QED  BY <1>2, <1>5, <1>6, <1>12, <1>13, <2>1, <3>1, <3>2, <3>3
  <2>2. CASE n # m
    <3>1. Numbered(n)
      BY <1>8, <2>2, Zenon
    <3>2. /\ msg[n].record_type \notin OngoingTypes => SessionId(n) = n /\ Number(n) = 1
          /\ msg[n].record_type \in OngoingTypes => StoredBy(SessionId(n), Local(n))
          /\ \A r \in Sites : Present(r) /\ StoredId(r) = SessionId(n) =>
               Number(n) <= StoredNumber(r) /\ msg[n].record_type # "STOP"
      BY <3>1, Zenon DEF NumberInv, Owners
    <3>3. msg[n].record_type \in OngoingTypes => StoredBy(SessionId(n), Local(n))'
      BY <1>7, <1>11, <3>2, Zenon DEF StoredBy
    <3>4. Present(s)' /\ StoredId(s)' = SessionId(n) =>
            Number(n) <= StoredNumber(s)' /\ msg[n].record_type # "STOP"
      BY <1>2, <1>5, <1>9, <1>10, <1>13, <3>1
    <3>. QED  BY <1>12, <3>2, <3>3, <3>4, Zenon
  <2>. QED  BY <2>1, <2>2, Zenon
<1>19. Distinct'
  <2>. SUFFICES ASSUME NEW a \in Msgs, NEW b \in Msgs, a # b, Numbered(a)', Numbered(b)',
                       SessionId(a) = SessionId(b)
                PROVE  /\ Number(a) # Number(b)
                       /\ msg[a].record_type = "STOP" => Number(b) < Number(a)
    BY <1>7 DEF Distinct
  <2>1. CASE a # m /\ b # m
    BY <1>8, <2>1, Zenon DEF NumberInv, Distinct
  <2>2. CASE a = m
    <3>1. /\ Number(b) \in Nat
          /\ Number(b) <= StoredNumber(s)
      BY <1>8, <1>9, <1>10, <2>2, Zenon
    <3>2. Number(a) = StoredNumber(s) + 1
      BY <1>2, <2>2, Zenon
    <3>. QED  BY <1>5, <3>1, <3>2
  <2>3. CASE b = m
    <3>1. /\ Number(a) \in Nat
          /\ Number(a) <= StoredNumber(s)
          /\ msg[a].record_type # "STOP"
      BY <1>8, <1>9, <1>10, <2>3, Zenon
    <3>2. Number(b) = StoredNumber(s) + 1
      BY <1>2, <2>3, Zenon
    <3>. QED  BY <1>5, <3>1, <3>2
  <2>. QED  BY <2>1, <2>2, <2>3, Zenon
<1>20. SentAcrs'
  <2>1. \A a \in acrs : a.msg \in Msgs
    BY Zenon DEF TypeInv, TypeOK, Acr
  <2>. QED  BY <1>7, <1>8, <2>1, Zenon DEF NumberInv, SentAcrs
<1>. QED  BY <1>14, <1>15, <1>16, <1>17, <1>18, <1>19, <1>20, Zenon DEF NumberInv

\* INTERIM: the number is saved, or handle() starts again.
LEMMA NumbersWrite ==
  ASSUME SingleSite, TypeInv, TypeInv', NumberInv, NEW m \in Msgs, Write(m)
  PROVE  NumberInv'
<1>1. /\ pc[m] = "write"
      /\ UNCHANGED <<msg, held, copy, fresh, acrs>>
  BY Zenon DEF Write
<1>2. Local(m) \in Sites
  BY OneStore, Zenon
<1>3. ~fresh[m] /\ msg[m].record_type = "INTERIM"
  BY <1>1, Zenon DEF NumberInv, Readers, Places
<1>. DEFINE sess == held[m].sess
<1>4. PICK rc \in Status :
        /\ SetData(Local(m), sess, held[m].cas, Expiry(sess), rc)
        /\ IF rc = "DATA_CONTENTION"
           THEN pc' = [pc EXCEPT ![m] = "lookup"]
           ELSE NextStore(m, "sync_read", "send")
  BY <1>3, Zenon DEF Write, SetSession, Goto
<1>5. CASE rc = "DATA_CONTENTION" /\ UNCHANGED stores
  <2>1. pc' = [pc EXCEPT ![m] = "lookup"]
    BY <1>4, <1>5, Zenon
  <2>. QED  BY <1>1, <1>3, <1>5, <2>1, NumbersUnnumbered, Zenon DEF Numbered, OngoingTypes
<1>6. CASE rc = "OK" /\ held[m].cas = store[Local(m)].cas /\ Written(Local(m), sess, Expiry(sess))
  <2>1. pc' = [pc EXCEPT ![m] = "send"]
    BY <1>4, <1>6, OneStoreNext, Zenon
  <2>2. pc'[m] = "send" /\ \A n \in Msgs : n # m => pc'[n] = pc[n]
    BY <2>1, Zenon DEF TypeInv, TypeOK
  <2>. QED  BY <1>1, <1>2, <1>3, <1>6, <2>2, WrittenRecords, NumbersGiven
<1>. QED  BY <1>2, <1>4, <1>5, <1>6, SetDataSingle

\* STOP: the record is removed under its CAS, or handle() starts again.
LEMMA NumbersRemove ==
  ASSUME SingleSite, TypeInv, TypeInv', NumberInv, NEW m \in Msgs, Remove(m)
  PROVE  NumberInv'
<1>1. /\ pc[m] = "remove"
      /\ UNCHANGED <<msg, held, copy, fresh, acrs>>
  BY Zenon DEF Remove
<1>2. Local(m) \in Sites
  BY OneStore
<1>3. msg[m].record_type = "STOP"
  BY <1>1, Zenon DEF NumberInv, Places
<1>4. PICK rc \in Status :
        /\ SetData(Local(m), NoSession, held[m].cas, 0, rc)
        /\ IF rc = "DATA_CONTENTION"
           THEN pc' = [pc EXCEPT ![m] = "lookup"]
           ELSE NextStore(m, "remove_remote", "cancel")
  BY Zenon DEF Remove, CasDelete, Goto
<1>5. CASE rc = "DATA_CONTENTION" /\ UNCHANGED stores
  <2>1. pc' = [pc EXCEPT ![m] = "lookup"]
    BY <1>4, <1>5, Zenon
  <2>. QED  BY <1>1, <1>3, <1>5, <2>1, NumbersUnnumbered, Zenon DEF Numbered, OngoingTypes
<1>6. CASE rc = "OK" /\ held[m].cas = store[Local(m)].cas /\ Written(Local(m), NoSession, 0)
  <2>1. pc' = [pc EXCEPT ![m] = "cancel"]
    BY <1>4, <1>6, OneStoreNext, Zenon
  <2>2. pc'[m] = "cancel" /\ \A n \in Msgs : n # m => pc'[n] = pc[n]
    BY <2>1, Zenon DEF TypeInv, TypeOK
  <2>. QED  BY <1>1, <1>2, <1>6, <2>2, WrittenRecords, NumbersGiven, Zenon
<1>. QED  BY <1>2, <1>4, <1>5, <1>6, SetDataSingle

\* update_timer_id writes back what it read, or nothing.
LEMMA NumbersRetimeWrite ==
  ASSUME SingleSite, TypeInv, TypeInv', NumberInv, NEW m \in Msgs, RetimeWrite(m)
  PROVE  NumberInv'
<1>1. /\ pc[m] = "retime_write"
      /\ UNCHANGED <<msg, held, copy, fresh, acrs>>
  BY Zenon DEF RetimeWrite
<1>2. Current(m) = Local(m) /\ Local(m) \in Sites
  BY OneStore
<1>. DEFINE s == Local(m)
            sess == copy[m].sess
<1>3. pc' = [pc EXCEPT ![m] = Finish(aca[m].accepted)]
  BY OneStoreNext, Zenon DEF RetimeWrite
<1>4. pc'[m] \in {"pass", "done"} /\ \A n \in Msgs : n # m => pc'[n] = pc[n]
  BY <1>3 DEF Finish, TypeInv, TypeOK
<1>5. RequestKept(m)
  BY <1>1, <1>4, MoverKept, Zenon DEF Numbered
<1>6. \A n \in Msgs : RequestKept(n)
  BY <1>1, <1>4, <1>5, OthersKept, Zenon
<1>7. PICK rc \in Status : SetData(s, sess, copy[m].cas, Expiry(sess), rc)
  BY <1>2, Zenon DEF RetimeWrite, SetSession
<1>8. CASE UNCHANGED stores
  BY <1>1, <1>6, <1>8, StoresKept, NumbersKept, Zenon
<1>9. CASE copy[m].cas = store[s].cas /\ Written(s, sess, Expiry(sess))
  <2>1. /\ store[s].cas # 0
        /\ sess.session_id = StoredId(s)
        /\ sess.acct_record_number = StoredNumber(s)
    BY <1>1, <1>9, Zenon DEF NumberInv, Retimers
  <2>2. nextCas \in [Sites -> Nat]
    BY Zenon DEF TypeInv, TypeOK
  <2>3. /\ \A r \in Sites : r # s => store'[r] = store[r] /\ nextCas'[r] = nextCas[r]
        /\ nextCas'[s] = nextCas[s] + 1
        /\ \/ store'[s].cas = 0
           \/ store'[s].cas = nextCas[s] /\ store'[s].sess = sess
    BY <1>2, <1>9, WrittenRecords, Zenon
  <2>4. RecordKept(s)
    BY <1>1, <1>2, <2>1, <2>2, <2>3 DEF RecordKept, StoredId, StoredNumber, Local
  <2>5. \A r \in Sites : r # s => RecordKept(r)
    BY <2>2, <2>3 DEF RecordKept, StoredId, StoredNumber
  <2>. QED  BY <1>1, <1>6, <2>4, <2>5, NumbersKept, Zenon
<1>. QED  BY <1>2, <1>7, <1>8, <1>9, SetDataSingle, Zenon

\* A START adds the record of its own session, which no other request can have
\* seen: it was in no store before.
LEMMA NumbersAdded ==
  ASSUME TypeInv, TypeInv', NumberInv, NEW m \in Msgs, NEW s \in Sites, s = Local(m),
         pc[m] = "put", msg[m].record_type = "START",
         Numbered(m), SessionId(m) = m, Number(m) = 1,
         store[s].cas = 0,
         \A r \in Sites : r # s => store'[r] = store[r] /\ nextCas'[r] = nextCas[r],
         nextCas'[s] = nextCas[s] + 1,
         store'[s].cas = nextCas[s],
         store'[s].sess.session_id = m, store'[s].sess.acct_record_number = 1,
         pc'[m] = "pass",
         \A n \in Msgs : n # m => pc'[n] = pc[n],
         UNCHANGED <<msg, held, copy, fresh, acrs>>
  PROVE  NumberInv'
<1>1. /\ \A r \in Sites : store[r].cas \in Nat /\ nextCas[r] \in Nat \ {0}
      /\ \A n \in Msgs : held[n].cas \in Nat /\ copy[n].cas \in Nat
  BY Zenon DEF TypeInv, TypeOK, Record
<1>2. \A n \in Msgs : /\ Local(n)' = Local(n) /\ Local(n) \in Sites
                     /\ SessionId(n)' = SessionId(n) /\ Number(n)' = Number(n)
  BY StoreInSites, Zenon DEF Local, SessionId, Number
<1>3. \A n \in Msgs : Numbered(n)' <=> Numbered(n)
  BY Zenon DEF Numbered
<1>4. \A x, r : StoredBy(x, r) => StoredBy(x, r)' /\ x # m
  BY Zenon DEF StoredBy
<1>5. StoredBy(m, s)'
  BY Zenon DEF StoredBy, Local
<1>6. \A r \in Sites : r # s => /\ Present(r)' = Present(r)
                               /\ StoredId(r)' = StoredId(r)
                               /\ StoredNumber(r)' = StoredNumber(r)
  BY Zenon DEF Present, StoredId, StoredNumber
<1>7. StoredId(s)' = m /\ StoredNumber(s)' = 1
  BY Zenon DEF StoredId, StoredNumber
<1>8. \A n \in Msgs : n # m /\ Numbered(n) => SessionId(n) # m
  BY <1>4, Zenon DEF NumberInv, Owners
<1>9. Places'
  BY DEF NumberInv, Places
<1>10. StoredRecords'
  <2>. SUFFICES ASSUME NEW r \in Sites
                PROVE  store'[r].cas < nextCas'[r] /\ (Present(r)' => StoredBy(StoredId(r), r)')
    BY Zenon DEF StoredRecords
  <2>1. CASE r = s
    BY <1>1, <1>5, <1>7, <2>1 DEF StoredBy
  <2>2. CASE r # s
    BY <1>4, <1>6, <2>2 DEF NumberInv, StoredRecords, StoredBy
  <2>. QED  BY <2>1, <2>2, Zenon
<1>11. Readers'
  <2>. SUFFICES ASSUME NEW n \in Msgs, pc'[n] \in {"write", "remove"}
                PROVE  /\ ~fresh[n]
                       /\ held[n].cas # 0
                       /\ held[n].cas < nextCas'[Local(n)]
                       /\ StoredBy(SessionId(n), Local(n))'
                       /\ held[n].cas = store'[Local(n)].cas =>
                            /\ SessionId(n) = StoredId(Local(n))'
                            /\ Number(n) = StoredNumber(Local(n))' + 1
    BY <1>2 DEF Readers, StoredId, StoredNumber
  <2>1. pc[n] \in {"write", "remove"}
    BY Zenon
  <2>2. /\ ~fresh[n]
        /\ held[n].cas # 0
        /\ held[n].cas < nextCas[Local(n)]
        /\ StoredBy(SessionId(n), Local(n))
        /\ held[n].cas = store[Local(n)].cas =>
             SessionId(n) = StoredId(Local(n)) /\ Number(n) = StoredNumber(Local(n)) + 1
    BY <2>1, Zenon DEF NumberInv, Readers
  <2>3. StoredBy(SessionId(n), Local(n))'
    BY <1>2, <1>4, <2>2, Zenon DEF StoredBy
  <2>4. CASE Local(n) = s
    <3>1. held[n].cas < nextCas'[s] /\ held[n].cas # store'[s].cas
      BY <1>1, <2>2, <2>4
    <3>. QED  BY <2>2, <2>3, <2>4, <3>1, Zenon
  <2>5. CASE Local(n) # s
    BY <1>2, <1>6, <2>2, <2>3, <2>5, ZenonT(30) DEF StoredId, StoredNumber
  <2>. QED  BY <2>4, <2>5, ZenonT(30)
<1>12. Retimers'
  <2>. SUFFICES ASSUME NEW n \in Msgs, pc'[n] = "retime_write"
                PROVE  /\ copy[n].cas # 0
                       /\ copy[n].cas < nextCas'[Local(n)]
                       /\ copy[n].cas = store'[Local(n)].cas =>
                            /\ copy[n].sess.session_id = StoredId(Local(n))'
                            /\ copy[n].sess.acct_record_number = StoredNumber(Local(n))'
    BY <1>2 DEF Retimers, StoredId, StoredNumber
  <2>1. pc[n] = "retime_write"
    BY Zenon
  <2>2. /\ copy[n].cas # 0
        /\ copy[n].cas < nextCas[Local(n)]
        /\ copy[n].cas = store[Local(n)].cas =>
             /\ copy[n].sess.session_id = StoredId(Local(n))
             /\ copy[n].sess.acct_record_number = StoredNumber(Local(n))
    BY <2>1, Zenon DEF NumberInv, Retimers
  <2>3. CASE Local(n) = s
    BY <1>1, <2>2, <2>3
  <2>4. CASE Local(n) # s
    BY <1>2, <1>6, <2>2, <2>4, Zenon DEF StoredId, StoredNumber
  <2>. QED  BY <2>3, <2>4, Zenon
<1>13. Owners'
  <2>. SUFFICES ASSUME NEW n \in Msgs, Numbered(n)
                PROVE  /\ msg[n].record_type \notin OngoingTypes =>
                            SessionId(n) = n /\ Number(n) = 1
                       /\ msg[n].record_type \in OngoingTypes =>
                            StoredBy(SessionId(n), Local(n))'
                       /\ \A r \in Sites : Present(r)' /\ StoredId(r)' = SessionId(n) =>
                            /\ Number(n) <= StoredNumber(r)'
                            /\ msg[n].record_type # "STOP"
    BY <1>2, <1>3, Zenon DEF Owners
  <2>1. /\ msg[n].record_type \notin OngoingTypes => SessionId(n) = n /\ Number(n) = 1
        /\ msg[n].record_type \in OngoingTypes => StoredBy(SessionId(n), Local(n))
        /\ \A r \in Sites : Present(r) /\ StoredId(r) = SessionId(n) =>
             Number(n) <= StoredNumber(r) /\ msg[n].record_type # "STOP"
    BY Zenon DEF NumberInv, Owners
  <2>2. msg[n].record_type \in OngoingTypes => StoredBy(SessionId(n), Local(n))'
    BY <1>2, <1>4, <2>1, Zenon DEF StoredBy
  <2>3. StoredId(s)' = SessionId(n) =>
          Number(n) <= StoredNumber(s)' /\ msg[n].record_type # "STOP"
    BY <1>7, <1>8
  <2>. QED  BY <1>6, <2>1, <2>2, <2>3, Zenon
<1>14. Distinct'
  BY <1>2, <1>3 DEF NumberInv, Distinct
<1>15. SentAcrs'
  <2>1. \A a \in acrs : a.msg \in Msgs
    BY Zenon DEF TypeInv, TypeOK, Acr
  <2>. QED  BY <1>2, <1>3, <2>1, Zenon DEF NumberInv, SentAcrs
<1>. QED  BY <1>9, <1>10, <1>11, <1>12, <1>13, <1>14, <1>15, Zenon DEF NumberInv

\* START: only the first START of a call finds no record, and only it can have
\* used its session id.
LEMMA NumbersPut ==
  ASSUME SingleSite, TypeInv, TypeInv', NumberInv, NEW m \in Msgs, Put(m)
  PROVE  NumberInv'
<1>1. /\ pc[m] = "put"
      /\ UNCHANGED <<msg, held, copy, fresh, acrs>>
  BY Zenon DEF Put
<1>. DEFINE s == Local(m)
            sess == [held[m].sess EXCEPT !.interim_interval = aca[m].interim_interval]
<1>2. Current(m) = s /\ s \in Sites
  BY OneStore, Zenon
<1>3. pc' = [pc EXCEPT ![m] = "pass"]
  BY OneStoreNext, Zenon DEF Put
<1>4. pc'[m] = "pass" /\ \A n \in Msgs : n # m => pc'[n] = pc[n]
  BY <1>3, Zenon DEF TypeInv, TypeOK
<1>5. msg[m].record_type = "START"
  BY <1>1, Zenon DEF NumberInv, Places
<1>6. Numbered(m) /\ SessionId(m) = m /\ Number(m) = 1
  BY <1>1, <1>5, Zenon DEF NumberInv, Owners, Numbered, OngoingTypes
<1>7. RequestKept(m)
  BY <1>1, <1>4, MoverKept, Zenon DEF Numbered
<1>8. \A n \in Msgs : RequestKept(n)
  BY <1>1, <1>4, <1>7, OthersKept, Zenon
<1>9. PICK rc \in Status : SetData(s, sess, 0, Expiry(sess), rc)
  BY <1>2, Zenon DEF Put, SetSession
<1>10. CASE UNCHANGED stores
  BY <1>1, <1>8, <1>10, StoresKept, NumbersKept, Zenon
<1>11. CASE 0 = store[s].cas /\ Written(s, sess, Expiry(sess))
  <2>1. /\ \A r \in Sites : r # s => store'[r] = store[r] /\ nextCas'[r] = nextCas[r]
        /\ nextCas'[s] = nextCas[s] + 1
        /\ \/ store'[s].cas = 0
           \/ store'[s].cas = nextCas[s] /\ store'[s].sess = sess
    BY <1>2, <1>11, WrittenRecords, Zenon
  <2>2. CASE store'[s].cas = 0
    <3>1. \A r \in Sites : RecordKept(r)
      <4>1. nextCas \in [Sites -> Nat]
        BY DEF TypeInv, TypeOK
      <4>2. RecordKept(s)
        BY <1>1, <1>2, <2>1, <2>2, <4>1 DEF RecordKept, Local
      <4>3. \A r \in Sites : r # s => RecordKept(r)
        BY <2>1, <4>1 DEF RecordKept, StoredId, StoredNumber
      <4>. QED  BY <4>2, <4>3, Zenon
    <3>. QED  BY <1>1, <1>8, <3>1, NumbersKept, Zenon
  <2>3. CASE store'[s].cas = nextCas[s] /\ store'[s].sess = sess
    <3>1. held[m].sess \in Session
      BY <1>1, Zenon DEF TypeInv, TypeOK
    <3>2. store'[s].sess.session_id = m /\ store'[s].sess.acct_record_number = 1
      BY <1>6, <2>3, <3>1, Zenon DEF SessionId, Number, Session, SessionOf
    <3>. QED  BY <1>1, <1>2, <1>4, <1>5, <1>6, <1>11, <2>1, <2>3, <3>2, NumbersAdded, Zenon
  <2>. QED  BY <2>1, <2>2, <2>3, Zenon
<1>. QED  BY <1>2, <1>9, <1>10, <1>11, SetDataSingle, Zenon

-----------------------------------------------------------------------------
(* The theorems *)

\* Every step keeps the invariant.
LEMMA NumbersNext ==
  ASSUME SingleSite, TypeInv, TypeInv', NumberInv, [Next]_vars
  PROVE  NumberInv'
<1>1. ASSUME NEW m \in Msgs, Request(m)
      PROVE  NumberInv'
  BY <1>1, NumbersFirst, NumbersOngoing, Zenon DEF Request
<1>2. ASSUME NEW m \in Msgs, Handle(m)
      PROVE  NumberInv'
  <2>1. ~(SyncRead(m) \/ SyncWrite(m) \/ RemoveRemote(m))
    BY Zenon DEF SyncRead, SyncWrite, RemoveRemote, NumberInv, Places
  <2>. QED  BY <1>2, <2>1, NumbersLookup, NumbersWrite, NumbersRemove, NumbersCancel,
                 NumbersSend, Zenon
            DEF Handle
<1>3. ASSUME NEW m \in Msgs, Respond(m)
      PROVE  NumberInv'
  BY <1>3, NumbersOnCcfResponse, NumbersPost, NumbersPut, NumbersUpdate, NumbersRetimeRead,
     NumbersRetimeWrite, NumbersKill, NumbersHealthCheckPassed, Zenon DEF Respond
<1>. QED  BY <1>1, <1>2, <1>3, NumbersCrash, NumbersEnvironment, Zenon DEF Next, Rest

\* Without remote stores NumberInv always holds.
LEMMA NumbersInvariant == SingleSite => (Spec => []NumberInv)
<1>. SUFFICES ASSUME SingleSite PROVE Spec => []NumberInv
  BY Zenon
<1>1. TypeInv /\ TypeInv' /\ NumberInv /\ [Next]_vars => NumberInv'
  BY NumbersNext, Zenon
<1>. QED  BY <1>1, NumbersInit, TypeInvariant, PTL DEF Spec

\* Without remote stores, for any number of racing requests and whatever records
\* the store loses, no two ACRs of a session have the same number.
THEOREM UniqueAcrsCorrect == SingleSite => (Spec => []UniqueAcrs)
<1>1. TypeInv /\ NumberInv => UniqueAcrs
  <2>. SUFFICES ASSUME TypeInv, NumberInv, NEW a \in acrs, NEW b \in acrs,
                       a.session_id = b.session_id, a.number = b.number
                PROVE  a = b
    BY Zenon DEF UniqueAcrs
  <2>1. a \in Acr /\ b \in Acr
    BY Zenon DEF TypeInv, TypeOK
  <2>2. /\ Numbered(a.msg) /\ a.session_id = SessionId(a.msg) /\ a.number = Number(a.msg)
        /\ a.record_type = msg[a.msg].record_type
        /\ Numbered(b.msg) /\ b.session_id = SessionId(b.msg) /\ b.number = Number(b.msg)
        /\ b.record_type = msg[b.msg].record_type
    BY Zenon DEF NumberInv, SentAcrs
  <2>3. a.msg \in Msgs /\ b.msg \in Msgs
    BY <2>1, Zenon DEF Acr
  <2>4. a.msg = b.msg
    BY <2>2, <2>3, Zenon DEF NumberInv, Distinct
  <2>. QED  BY <2>1, <2>2, <2>4 DEF Acr
<1>. QED  BY <1>1, TypeInvariant, NumbersInvariant, PTL

\* ... and the STOP has the highest number of its session, so the last record of
\* a call tells how many there are.
THEOREM StopIsHighestCorrect == SingleSite => (Spec => []StopIsHighest)
<1>1. TypeInv /\ NumberInv => StopIsHighest
  <2>. SUFFICES ASSUME TypeInv, NumberInv, NEW a \in acrs, NEW b \in acrs,
                       a.record_type = "STOP", a.session_id = b.session_id, a # b
                PROVE  b.number < a.number
    BY Zenon DEF StopIsHighest
  <2>1. a \in Acr /\ b \in Acr
    BY Zenon DEF TypeInv, TypeOK
  <2>2. /\ Numbered(a.msg) /\ a.session_id = SessionId(a.msg) /\ a.number = Number(a.msg)
        /\ a.record_type = msg[a.msg].record_type
        /\ Numbered(b.msg) /\ b.session_id = SessionId(b.msg) /\ b.number = Number(b.msg)
        /\ b.record_type = msg[b.msg].record_type
    BY Zenon DEF NumberInv, SentAcrs
  <2>3. a.msg \in Msgs /\ b.msg \in Msgs
    BY <2>1, Zenon DEF Acr
  <2>4. a.msg # b.msg
    BY <2>1, <2>2 DEF Acr
  <2>. QED  BY <2>2, <2>3, <2>4, Zenon DEF NumberInv, Distinct
<1>. QED  BY <1>1, TypeInvariant, NumbersInvariant, PTL

\* ... and no late INTERIM or update_timer_id brings a stopped session back.
THEOREM StoppedStaysGoneCorrect == SingleSite => (Spec => []StoppedStaysGone)
<1>1. NumberInv => StoppedStaysGone
  BY Zenon DEF NumberInv, Owners, StoppedStaysGone, Present, StoredId
<1>. QED  BY <1>1, NumbersInvariant, PTL

-----------------------------------------------------------------------------
(* No number is skipped *)

\* A request that has its number keeps it, and its session.
LEMMA NumberedStays ==
  ASSUME TypeInv, [Next]_vars, NEW n \in Msgs, Numbered(n)
  PROVE  Numbered(n)' /\ SessionId(n)' = SessionId(n) /\ Number(n)' = Number(n)
<1>. DEFINE Stays == /\ pc'[n] \notin {"idle", "lookup", "write", "remove", "ignored"}
                     /\ held'[n].sess.session_id = held[n].sess.session_id
                     /\ held'[n].sess.acct_record_number = held[n].sess.acct_record_number
<1>1. /\ pc[n] \notin {"idle", "lookup", "write", "remove", "ignored"}
      /\ pc \in [Msgs -> PCs] /\ held \in [Msgs -> Record]
      /\ held[n].sess \in Session
  BY Zenon DEF Numbered, TypeInv, TypeOK
<1>2. ASSUME NEW m \in Msgs, Request(m) \/ Lookup(m) \/ Write(m) \/ Remove(m)
      PROVE  Stays
  BY <1>1, <1>2, Zenon DEF Request, First, Ongoing, TimerPop, Arrive, Lookup, Write,
     Remove, Goto,
                    NextStore
<1>3. ASSUME NEW m \in Msgs, SyncRead(m) \/ SyncWrite(m) \/ RemoveRemote(m) \/ Cancel(m) \/ Send(m)
      PROVE  Stays
  BY <1>1, <1>3, Zenon DEF SyncRead, SyncWrite, RemoveRemote, Cancel, Send, Goto, NextStore
<1>4. ASSUME NEW m \in Msgs, OnCcfResponse(m)
      PROVE  Stays
  BY <1>1, <1>4 DEF OnCcfResponse, Goto, Reaction, Finish
<1>5. ASSUME NEW m \in Msgs, Put(m) \/ RetimeRead(m) \/ RetimeWrite(m) \/ Kill(m)
                             \/ HealthCheckPassed(m)
      PROVE  Stays
  BY <1>1, <1>5, Zenon DEF Put, RetimeRead, RetimeWrite, Kill, HealthCheckPassed, Goto,
     NextStore, Finish
<1>6. ASSUME NEW m \in Msgs, Post(m) \/ Update(m)
      PROVE  Stays
  <2>1. PICK id : held' = [held EXCEPT ![m].sess.timer_id = id]
    BY <1>6, Zenon DEF Post, Update
  <2>2. /\ held'[n].sess.session_id = held[n].sess.session_id
        /\ held'[n].sess.acct_record_number = held[n].sess.acct_record_number
    BY <1>1, <2>1, Zenon DEF Record, Session, SessionOf
  <2>. QED  BY <1>1, <1>6, <2>2, Zenon DEF Post, Update, Goto, Finish
<1>7. ASSUME NEW m \in Msgs, Crash(m)
      PROVE  Stays
  BY <1>1, <1>7, Zenon DEF Crash, Goto, Numbered
<1>8. ASSUME UNCHANGED handling
      PROVE  Stays
  BY <1>1, <1>8, Zenon DEF handling
<1>9. Stays
  <2>. HIDE DEF Stays
  <2>. QED  BY <1>2, <1>3, <1>4, <1>5, <1>6, <1>7, <1>8, Zenon
            DEF Next, Handle, Respond, TimerExpires, Lose, Rest, vars
<1>. QED  BY <1>9, Zenon DEF Numbered, SessionId, Number

\* So a number that is taken stays taken.
LEMMA TakenStays ==
  ASSUME TypeInv, [Next]_vars, NEW x, NEW k, Taken(x, k)
  PROVE  Taken(x, k)'
  BY NumberedStays, Zenon DEF Taken

\* A request gets number 1 as the first of a session, or else the one after the
\* number that is stored.
LEMMA NewNumber ==
  ASSUME SingleSite, TypeInv, NumberInv, [Next]_vars,
         NEW n \in Msgs, ~Numbered(n), Numbered(n)'
  PROVE  \/ Number(n)' = 1
         \/ \E s \in Sites : /\ Present(s)
                            /\ SessionId(n)' = StoredId(s)
                            /\ Number(n)' = StoredNumber(s) + 1
<1>1. /\ pc[n] \in {"idle", "lookup", "write", "remove", "ignored"}
      /\ pc'[n] \notin {"idle", "lookup", "write", "remove", "ignored"}
  BY Zenon DEF Numbered
<1>2. Request(n) \/ Handle(n) \/ Respond(n) \/ Crash(n)
  <2>1. ~UNCHANGED pc
    BY <1>1, Zenon
  <2>. QED  BY <1>1, <2>1, OneRequestMoves, Zenon DEF Next, TimerExpires, Lose, Rest,
                 vars, handling
<1>3. CASE First(n)
  BY <1>3 DEF First, Number, TypeInv, TypeOK
<1>4. CASE Write(n) \/ Remove(n)
  <2>. DEFINE s == Local(n)
  <2>1. s \in Sites
    BY OneStore, Zenon
  <2>2. pc[n] \in {"write", "remove"} /\ ~fresh[n] /\ UNCHANGED held
    BY <1>4, Zenon DEF Write, Remove, NumberInv, Readers
  <2>3. PICK sess, expiry, rc :
          /\ SetData(s, sess, held[n].cas, expiry, rc)
          /\ rc = "DATA_CONTENTION" => pc' = [pc EXCEPT ![n] = "lookup"]
    BY <1>4, <2>2 DEF Write, Remove, SetSession, CasDelete, Goto
  <2>4. rc # "DATA_CONTENTION"
    BY <1>1, <2>3, Zenon DEF TypeInv, TypeOK
  <2>5. held[n].cas = store[s].cas
    BY <2>1, <2>3, <2>4, SetDataSingle
  <2>6. Present(s) /\ SessionId(n) = StoredId(s) /\ Number(n) = StoredNumber(s) + 1
    BY <2>2, <2>5, Zenon DEF NumberInv, Readers, Present
  <2>. QED  BY <2>1, <2>2, <2>6, Zenon DEF SessionId, Number
<1>5. ~(Ongoing(n) \/ TimerPop(n) \/ Lookup(n))
  BY <1>1, Zenon DEF Ongoing, TimerPop, Lookup, Goto, NextStore, TypeInv, TypeOK
<1>6. ~(SyncRead(n) \/ SyncWrite(n) \/ RemoveRemote(n) \/ Cancel(n) \/ Send(n) \/ Respond(n))
  BY <1>1, Zenon DEF SyncRead, SyncWrite, RemoveRemote, Cancel, Send, Respond,
     OnCcfResponse, Post, Put,
              Update, RetimeRead, RetimeWrite, Kill, HealthCheckPassed
<1>7. ~Crash(n)
  BY <1>1, Zenon DEF Crash, Goto, Numbered, TypeInv, TypeOK
<1>. QED  BY <1>2, <1>3, <1>4, <1>5, <1>6, <1>7, Zenon DEF Request, Handle

\* The number of a record is that of the request that wrote it, or is written back.
LEMMA StoredNumberTaken ==
  ASSUME SingleSite, TypeInv, TypeInv', NumberInv, Dense, [Next]_vars,
         NEW s \in Sites, Present(s)'
  PROVE  Taken(StoredId(s), StoredNumber(s))'
<1>1. ASSUME Present(s), StoredId(s)' = StoredId(s), StoredNumber(s)' = StoredNumber(s)
      PROVE  Taken(StoredId(s), StoredNumber(s))'
  <2>1. PICK x, k : x = StoredId(s) /\ k = StoredNumber(s)
    BY Zenon
  <2>2. Taken(x, k)
    BY <1>1, <2>1, Zenon DEF Dense, Taken
  <2>3. Taken(x, k)'
    BY <2>2, TakenStays, Zenon
  <2>. QED  BY <1>1, <2>1, <2>3, Zenon DEF Taken
<1>2. ASSUME store'[s] = store[s]
      PROVE  Taken(StoredId(s), StoredNumber(s))'
  BY <1>1, <1>2, Zenon DEF Present, StoredId, StoredNumber
<1>3. ASSUME NEW m \in Msgs, Numbered(m)', UNCHANGED held,
             StoredId(s)' = SessionId(m), StoredNumber(s)' = Number(m)
      PROVE  Taken(StoredId(s), StoredNumber(s))'
  BY <1>3, Zenon DEF Taken, SessionId, Number
<1>4. ASSUME NEW m \in Msgs, Write(m)
      PROVE  Taken(StoredId(s), StoredNumber(s))'
  <2>1. pc[m] = "write" /\ ~fresh[m] /\ Local(m) \in Sites /\ UNCHANGED held
    BY <1>4, OneStore, Zenon DEF Write, NumberInv, Readers
  <2>2. PICK rc \in Status :
          /\ SetData(Local(m), held[m].sess, held[m].cas, Expiry(held[m].sess), rc)
          /\ rc # "DATA_CONTENTION" => NextStore(m, "sync_read", "send")
    BY <1>4, <2>1, Zenon DEF Write, SetSession
  <2>3. CASE UNCHANGED stores
    BY <1>2, <2>3, Zenon DEF stores
  <2>4. CASE rc = "OK" /\ Written(Local(m), held[m].sess, Expiry(held[m].sess))
    <3>1. Numbered(m)'
      BY <2>2, <2>4, OneStoreNext DEF Numbered, TypeInv, TypeOK
    <3>2. CASE s # Local(m)
      BY <1>2, <2>1, <2>4, <3>2, WrittenRecords, Zenon
    <3>3. CASE s = Local(m)
      <4>1. store'[s].sess = held[m].sess
        BY <2>1, <2>4, <3>3, WrittenRecords, Zenon DEF Present
      <4>. QED  BY <1>3, <2>1, <3>1, <4>1, Zenon DEF StoredId, StoredNumber, SessionId,
                     Number
    <3>. QED  BY <3>2, <3>3, Zenon
  <2>. QED  BY <2>1, <2>2, <2>3, <2>4, SetDataSingle, Zenon
<1>5. ASSUME NEW m \in Msgs, Put(m)
      PROVE  Taken(StoredId(s), StoredNumber(s))'
  <2>. DEFINE sess == [held[m].sess EXCEPT !.interim_interval = aca[m].interim_interval]
  <2>1. pc[m] = "put" /\ Current(m) = Local(m) /\ Local(m) \in Sites /\ UNCHANGED held
    BY <1>5, OneStore, Zenon DEF Put
  <2>2. PICK rc \in Status : SetData(Local(m), sess, 0, Expiry(sess), rc)
    BY <1>5, <2>1, Zenon DEF Put, SetSession
  <2>3. Numbered(m)'
    BY <1>5, OneStoreNext DEF Put, Numbered, TypeInv, TypeOK
  <2>4. sess.session_id = SessionId(m) /\ sess.acct_record_number = Number(m)
    BY <2>1, Zenon DEF SessionId, Number, TypeInv, TypeOK, Session, SessionOf
  <2>. HIDE DEF sess
  <2>5. CASE UNCHANGED stores
    BY <1>2, <2>5 DEF stores
  <2>6. CASE Written(Local(m), sess, Expiry(sess))
    <3>1. CASE s # Local(m)
      BY <1>2, <2>1, <2>6, <3>1, WrittenRecords, Zenon
    <3>2. CASE s = Local(m)
      <4>1. store'[s].sess = sess
        BY <2>1, <2>6, <3>2, WrittenRecords, Zenon DEF Present
      <4>. QED  BY <1>3, <2>1, <2>3, <2>4, <4>1, Zenon DEF StoredId, StoredNumber
    <3>. QED  BY <3>1, <3>2
  <2>. QED  BY <2>1, <2>2, <2>5, <2>6, SetDataSingle, Zenon
<1>6. ASSUME NEW m \in Msgs, RetimeWrite(m)
      PROVE  Taken(StoredId(s), StoredNumber(s))'
  <2>. DEFINE sess == copy[m].sess
  <2>1. pc[m] = "retime_write" /\ Current(m) = Local(m) /\ Local(m) \in Sites
    BY <1>6, OneStore, Zenon DEF RetimeWrite
  <2>2. PICK rc \in Status : SetData(Local(m), sess, copy[m].cas, Expiry(sess), rc)
    BY <1>6, <2>1, Zenon DEF RetimeWrite, SetSession
  <2>3. CASE UNCHANGED stores
    BY <1>2, <2>3 DEF stores
  <2>4. CASE copy[m].cas = store[Local(m)].cas /\ Written(Local(m), sess, Expiry(sess))
    <3>1. CASE s # Local(m)
      BY <1>2, <2>1, <2>4, <3>1, WrittenRecords, Zenon
    <3>2. CASE s = Local(m)
      <4>1. store'[s].sess = sess
        BY <2>1, <2>4, <3>2, WrittenRecords, Zenon DEF Present
      <4>2. Present(s) /\ sess.session_id = StoredId(s) /\ sess.acct_record_number = StoredNumber(s)
        BY <2>1, <2>4, <3>2, Zenon DEF NumberInv, Retimers, Present
      <4>. QED  BY <1>1, <4>1, <4>2, Zenon DEF StoredId, StoredNumber
    <3>. QED  BY <3>1, <3>2
  <2>. QED  BY <2>1, <2>2, <2>3, <2>4, SetDataSingle, Zenon
<1>7. ASSUME NEW m \in Msgs, Remove(m)
      PROVE  Taken(StoredId(s), StoredNumber(s))'
  <2>1. Local(m) \in Sites
    BY OneStore, Zenon
  <2>2. UNCHANGED stores \/ Written(Local(m), NoSession, 0)
    BY <1>7, <2>1, SetDataSingle, Zenon DEF Remove, CasDelete
  <2>3. store'[s] = store[s]
    BY <2>1, <2>2, WrittenRecords, Zenon DEF stores, Present
  <2>. QED  BY <1>2, <2>3, Zenon
<1>8. ASSUME (\E m \in Msgs : Kill(m)) \/ (\E r \in Sites : Lose(r))
      PROVE  store'[s] = store[s]
  BY <1>8 DEF Kill, DeleteData, Lose, Absent, Present, TypeInv, TypeOK
<1>9. ASSUME NEW m \in Msgs, SyncWrite(m) \/ RemoveRemote(m)
      PROVE  FALSE
  BY <1>9, Zenon DEF SyncWrite, RemoveRemote, NumberInv, Places
<1>10. ASSUME NEW m \in Msgs,
              \/ Request(m) \/ Lookup(m) \/ SyncRead(m) \/ Cancel(m) \/ Send(m)
              \/ OnCcfResponse(m) \/ Post(m) \/ Update(m) \/ RetimeRead(m)
              \/ HealthCheckPassed(m) \/ Crash(m)
       PROVE  store' = store
  BY <1>10, Zenon DEF Request, First, Ongoing, TimerPop, Lookup, SyncRead, Cancel, Send,
     OnCcfResponse,
     Post, Update, RetimeRead, HealthCheckPassed, Crash, stores
<1>. QED
  BY <1>2, <1>4, <1>5, <1>6, <1>7, <1>8, <1>9, <1>10, Zenon
     DEF Next, Handle, Respond, TimerExpires, Rest, vars, handling, stores

\* Every step keeps the numbers dense.
LEMMA DenseNext ==
  ASSUME SingleSite, TypeInv, TypeInv', NumberInv, Dense, [Next]_vars
  PROVE  Dense'
<1>1. \A s \in Sites : Present(s)' => Taken(StoredId(s), StoredNumber(s))'
  BY StoredNumberTaken, Zenon
<1>2. ASSUME NEW n \in Msgs, Numbered(n)', NEW k \in 1..Number(n)'
      PROVE  Taken(SessionId(n), k)'
  <2>1. held'[n].sess \in Session
    BY <1>2, Zenon DEF TypeInv, TypeOK, Numbered
  <2>2. Number(n)' \in Nat
    BY <2>1, Zenon DEF Number, Session, SessionOf
  <2>3. CASE k = Number(n)'
    BY <1>2, <2>3, Zenon DEF Taken
  <2>4. CASE Numbered(n) /\ k # Number(n)'
    <3>1. SessionId(n)' = SessionId(n) /\ Number(n)' = Number(n)
      BY <2>4, NumberedStays, Zenon
    <3>2. PICK x : x = SessionId(n)
      BY Zenon
    <3>3. Taken(x, k)
      BY <1>2, <2>4, <3>1, <3>2, Zenon DEF Dense, Taken
    <3>4. Taken(x, k)'
      BY <3>3, TakenStays, Zenon
    <3>. QED  BY <3>1, <3>2, <3>4, Zenon DEF Taken
  <2>5. CASE ~Numbered(n) /\ k # Number(n)'
    <3>1. PICK s \in Sites : /\ Present(s)
                            /\ SessionId(n)' = StoredId(s)
                            /\ Number(n)' = StoredNumber(s) + 1
      BY <1>2, <2>2, <2>5, NewNumber
    <3>2. StoredNumber(s) \in Nat
      BY <3>1, Zenon DEF Present, StoredNumber, TypeInv, TypeOK, Session, SessionOf
    <3>3. k \in 1..StoredNumber(s)
      BY <1>2, <2>2, <2>5, <3>1, <3>2
    <3>4. PICK o \in Msgs : Numbered(o) /\ SessionId(o) = StoredId(s) /\ Number(o) = StoredNumber(s)
      BY <3>1, Zenon DEF Dense, Taken
    <3>5. PICK x : x = SessionId(o)
      BY Zenon
    <3>6. Taken(x, k)
      BY <3>3, <3>4, <3>5, Zenon DEF Dense, Taken
    <3>7. Taken(x, k)'
      BY <3>6, TakenStays, Zenon
    <3>. QED  BY <3>1, <3>4, <3>5, <3>7, Zenon DEF Taken
  <2>. QED  BY <2>3, <2>4, <2>5, Zenon
<1>. QED  BY <1>1, <1>2, Zenon DEF Dense

\* Without remote stores the record numbers of a session have no holes: below every
\* ACR, each number belongs to a request that sent it, is about to, or was lost in a
\* crash after it had the number.
THEOREM DenseNumbersCorrect == SingleSite => (Spec => []DenseNumbers)
<1>. SUFFICES ASSUME SingleSite PROVE Spec => []DenseNumbers
  BY Zenon
<1>1. Init => Dense
  BY DEF Init, Dense, Present, Absent, Numbered
<1>2. TypeInv /\ TypeInv' /\ NumberInv /\ Dense /\ [Next]_vars => Dense'
  BY DenseNext, Zenon
<1>3. TypeInv /\ NumberInv /\ Dense => DenseNumbers
  <2>. SUFFICES ASSUME TypeInv, NumberInv, Dense, NEW a \in acrs, NEW n \in 1..a.number
                PROVE  \E m \in Msgs : Numbered(m) /\ SessionId(m) = a.session_id /\ Number(m) = n
    BY Zenon DEF DenseNumbers
  <2>1. a.msg \in Msgs
    BY Zenon DEF TypeInv, TypeOK, Acr
  <2>2. Numbered(a.msg) /\ a.session_id = SessionId(a.msg) /\ a.number = Number(a.msg)
    BY Zenon DEF NumberInv, SentAcrs
  <2>. QED  BY <2>1, <2>2 DEF Dense, Taken
<1>. QED  BY <1>1, <1>2, <1>3, TypeInvariant, NumbersInvariant, PTL DEF Spec
=============================================================================
