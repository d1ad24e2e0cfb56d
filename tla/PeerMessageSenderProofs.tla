---------------------- MODULE PeerMessageSenderProofs ----------------------
(***************************************************************************)
(* Proofs about PeerMessageSender for any number of requests, CCFs and     *)
(* lists: types, SessionIsOpen, GivesUpLast, and that failover implements  *)
(* the steps of AcrDelivery.                                               *)
(***************************************************************************)
EXTENDS PeerMessageSender, SequenceTheorems, TLAPS

\* The id is one of request m's own, open at a CCF of its list.
OpenFor(m, id) ==
  /\ id[1] = m
  /\ \E i \in 1..Len(ccfs[m]) : id \in open[ccfs[m][i]]

\* An ACR on its way is an attempt of its request.
Attempt(a) ==
  /\ pc[a.msg] # "idle"
  /\ a.which <= Len(ccfs[a.msg])
  /\ a.ccf = ccfs[a.msg][a.which]
  /\ a.session_id = SessionIdOf(a.msg, asked[a.msg], a.which)

\* A later request names a session whose START is over, and a STOP one that is no
\* longer stored.
Asks(m) ==
  /\ pc[m] = "idle" => asked[m] = NoId /\ result[m].code = "none"
  /\ type[m] \in {"INTERIM", "STOP"} <=> asked[m] # NoId
  /\ asked[m] # NoId => pc[asked[m][1]] = "done"
  /\ type[m] = "STOP" => session = NoSession \/ session.session_id # asked[m]

\* The id a START is accepted with is open until its session is stored.
AcceptedIsOpen ==
  /\ \A r \in answers :
       /\ pc[r.msg] # "idle"
       /\ pc[r.msg] = "out" /\ type[r.msg] = "START" /\ r.code = "SUCCESS" =>
            OpenFor(r.msg, r.session_id)
  /\ \A m \in Msgs :
       pc[m] = "respond" /\ type[m] = "START" /\ result[m].code = "SUCCESS" =>
         OpenFor(m, result[m].session_id)

SenderInv ==
  /\ TypeOK
  /\ \A a \in network : Attempt(a)
  /\ \A m \in Msgs : Asks(m)
  /\ AcceptedIsOpen
  /\ session # NoSession => pc[session.session_id[1]] = "done"
  /\ SessionIsOpen
  /\ GivesUpLast

\* A Session-Id is not the missing one.
LEMMA IdsAreNotNoId ==
  ASSUME NEW id \in SessionIds
  PROVE  id # NoId /\ id[1] \in Msgs
BY DEF SessionIds, NoId

\* A list that is not empty has a first member.
LEMMA ListLen ==
  ASSUME NEW list \in Seq(Ccfs) \ {<<>>}
  PROVE  /\ Len(list) \in Nat \ {0}
         /\ \A i \in 1..Len(list) : list[i] \in Ccfs
BY EmptySeq

\* The Session-Id of an attempt.
LEMMA SessionIdType ==
  ASSUME NEW m \in Msgs, NEW id \in SessionIds \cup {NoId}, NEW i \in Nat \ {0}
  PROVE  SessionIdOf(m, id, i) \in SessionIds
BY Zenon DEF SessionIdOf, SessionIds

\* An id that no CCF closes stays open for a request with the same list.
LEMMA OpenForKept ==
  ASSUME TypeOK, NEW n \in Msgs, NEW id, OpenFor(n, id), ccfs'[n] = ccfs[n],
         \A c \in Ccfs : id \in open[c] => id \in open'[c]
  PROVE  OpenFor(n, id)'
<1>1. ccfs[n] \in Seq(Ccfs)
  BY Zenon DEF TypeOK
<1>. QED  BY <1>1 DEF OpenFor

\* The initial state satisfies the invariant.
LEMMA SenderInit == Init => SenderInv
<1>. SUFFICES ASSUME Init PROVE SenderInv
  BY Zenon
<1>1. TypeOK
  BY DEF Init, TypeOK, RecordTypes, Result
<1>2. \A m \in Msgs : Asks(m)
  BY Zenon DEF Init, Asks
<1>. QED  BY <1>1, <1>2, Zenon DEF Init, SenderInv, AcceptedIsOpen, SessionIsOpen,
               GivesUpLast

\* A request is sent: t, list and id are those of handle().
LEMMA SenderSend ==
  ASSUME SenderInv, NEW m \in Msgs, NEW t \in RecordTypes, NEW list \in Seq(Ccfs) \ {<<>>},
         NEW id \in SessionIds \cup {NoId}, Send(m, t, list, id),
         t \in {"INTERIM", "STOP"} <=> id # NoId,
         id # NoId => pc[id[1]] = "done",
         \/ UNCHANGED session /\ t # "STOP"
         \/ session' = NoSession
  PROVE  SenderInv'
<1>1. /\ pc[m] = "idle"
      /\ pc' = [pc EXCEPT ![m] = "out"]
      /\ type' = [type EXCEPT ![m] = t]
      /\ ccfs' = [ccfs EXCEPT ![m] = list]
      /\ asked' = [asked EXCEPT ![m] = id]
      /\ which' = [which EXCEPT ![m] = 1]
      /\ network' = network \cup {[ msg |-> m, which |-> 1, ccf |-> list[1],
                                    session_id |-> SessionIdOf(m, id, 1) ]}
      /\ UNCHANGED <<answers, result, open>>
  BY Zenon DEF Send, IntSendMsg
<1>2. TypeOK
  BY Zenon DEF SenderInv
<1>3. SessionIdOf(m, id, 1) \in SessionIds /\ Len(list) \in Nat \ {0} /\ list[1] \in Ccfs
  <2>1. SessionIdOf(m, id, 1) \in SessionIds
    BY SessionIdType
  <2>2. Len(list) \in Nat \ {0} /\ list[1] \in Ccfs
    BY ListLen
  <2>. QED  BY <2>1, <2>2, Zenon
<1>4. TypeOK'
  BY <1>1, <1>2, <1>3 DEF TypeOK
<1>5. /\ pc \in [Msgs -> {"idle", "out", "respond", "done"}] /\ type \in [Msgs -> RecordTypes]
      /\ ccfs \in [Msgs -> Seq(Ccfs)] /\ asked \in [Msgs -> SessionIds \cup {NoId}]
      /\ which \in [Msgs -> Nat \ {0}] /\ \A a \in network : a.msg \in Msgs
      /\ \A n \in Msgs : asked[n] # NoId => asked[n][1] \in Msgs
      /\ \A r \in answers : r.msg \in Msgs
  BY <1>2, IdsAreNotNoId, Zenon DEF TypeOK
<1>6. \A a \in network' : Attempt(a)'
  <2>. SUFFICES ASSUME NEW a \in network' PROVE Attempt(a)'
    BY Zenon
  <2>1. CASE a \in network
    <3>1. Attempt(a) /\ a.msg \in Msgs /\ a.msg # m
      BY <1>1, <1>5, <2>1, Zenon DEF SenderInv, Attempt
    <3>. QED  BY <1>1, <1>5, <3>1, Zenon DEF Attempt
  <2>2. CASE a = [msg |-> m, which |-> 1, ccf |-> list[1], session_id |-> SessionIdOf(m, id, 1)]
    BY <1>1, <1>3, <1>5, <2>2 DEF Attempt
  <2>. QED  BY <1>1, <2>1, <2>2, Zenon
<1>7. \A n \in Msgs : Asks(n)'
  <2>. SUFFICES ASSUME NEW n \in Msgs PROVE Asks(n)'
    BY Zenon
  <2>1. CASE n = m
    BY <1>1, <1>5, <2>1 DEF Asks
  <2>2. CASE n # m
    <3>1. Asks(n)
      BY Zenon DEF SenderInv
    <3>. QED  BY <1>1, <1>5, <2>2, <3>1, Zenon DEF Asks
  <2>. QED  BY <2>1, <2>2, Zenon
<1>8. AcceptedIsOpen'
  <2>1. ASSUME NEW r \in answers
        PROVE  /\ pc'[r.msg] # "idle"
               /\ pc'[r.msg] = "out" /\ type'[r.msg] = "START" /\ r.code = "SUCCESS" =>
                    OpenFor(r.msg, r.session_id)'
    <3>1. /\ r.msg \in Msgs /\ r.msg # m
          /\ pc[r.msg] # "idle"
          /\ pc[r.msg] = "out" /\ type[r.msg] = "START" /\ r.code = "SUCCESS" =>
               OpenFor(r.msg, r.session_id)
      BY <1>1, <1>5, Zenon DEF SenderInv, AcceptedIsOpen
    <3>2. /\ pc'[r.msg] = pc[r.msg] /\ type'[r.msg] = type[r.msg]
          /\ ccfs'[r.msg] = ccfs[r.msg]
      BY <1>1, <1>5, <3>1, Zenon
    <3>. QED  BY <1>1, <1>2, <3>1, <3>2, OpenForKept, Zenon
  <2>2. ASSUME NEW n \in Msgs, pc'[n] = "respond", type'[n] = "START", result'[n].code = "SUCCESS"
        PROVE  OpenFor(n, result[n].session_id)'
    <3>1. n # m /\ pc[n] = "respond" /\ type[n] = "START" /\ ccfs'[n] = ccfs[n]
      BY <1>1, <1>5, <2>2, Zenon
    <3>2. OpenFor(n, result[n].session_id)
      BY <1>1, <2>2, <3>1, Zenon DEF SenderInv, AcceptedIsOpen
    <3>. QED  BY <1>1, <3>1, <3>2, Zenon DEF OpenFor
  <2>. QED  BY <1>1, <2>1, <2>2, Zenon DEF AcceptedIsOpen
<1>9. session' # NoSession => session' = session
  BY Zenon
<1>10. session' # NoSession => pc'[session'.session_id[1]] = "done"
  <2>1. session # NoSession => session.session_id[1] \in Msgs /\ pc[session.session_id[1]] = "done"
    BY <1>2, IdsAreNotNoId, Zenon DEF SenderInv, TypeOK, Session
  <2>. QED  BY <1>1, <1>5, <1>9, <2>1, Zenon
<1>11. SessionIsOpen'
  BY <1>1, <1>9, Zenon DEF SenderInv, SessionIsOpen
<1>12. GivesUpLast'
  BY <1>1, <1>5, Zenon DEF SenderInv, GivesUpLast, Asks
<1>. QED  BY <1>4, <1>6, <1>7, <1>8, <1>10, <1>11, <1>12, Zenon DEF SenderInv

\* START, EVENT, INTERIM and STOP are sent.
LEMMA SenderRequest ==
  ASSUME SenderInv, NEW m \in Msgs, SendFirst(m) \/ SendLater(m)
  PROVE  SenderInv'
<1>1. CASE SendFirst(m)
  <2>1. PICK t \in {"START", "EVENT"}, list \in CcfLists : Send(m, t, list, NoId) /\ UNCHANGED session
    BY <1>1, Zenon DEF SendFirst
  <2>2. t \in RecordTypes /\ list \in Seq(Ccfs) \ {<<>>}
    BY CcfAssumption, Zenon DEF RecordTypes
  <2>. QED  BY <2>1, <2>2, SenderSend, Zenon
<1>2. CASE SendLater(m)
  <2>1. session # NoSession
    BY <1>2, Zenon DEF SendLater
  <2>2. PICK t \in {"INTERIM", "STOP"} :
          /\ Send(m, t, session.ccf, session.session_id)
          /\ session' = IF t = "STOP" THEN NoSession ELSE session
    BY <1>2, Zenon DEF SendLater
  <2>3. session \in Session
    BY <2>1, Zenon DEF SenderInv, TypeOK
  <2>4. /\ session.ccf \in Seq(Ccfs) \ {<<>>} /\ session.session_id \in SessionIds
        /\ t \in RecordTypes
    BY <2>3, Zenon DEF Session, RecordTypes
  <2>5. session.session_id # NoId /\ pc[session.session_id[1]] = "done"
    BY <2>1, <2>4, IdsAreNotNoId, Zenon DEF SenderInv
  <2>. QED  BY <2>2, <2>4, <2>5, SenderSend, Zenon
<1>. QED  BY <1>1, <1>2, Zenon

\* send_cb: the next attempt, or the end of the request.
LEMMA SenderCb ==
  ASSUME SenderInv, NEW m \in Msgs, pc[m] = "out", NEW c \in ResultCodes,
         NEW id \in SessionIds \cup {NoId}, SendCb(m, c, id),
         answers' \subseteq answers, UNCHANGED <<type, ccfs, asked, open, session>>,
         type[m] = "START" /\ c = "SUCCESS" => OpenFor(m, id)
  PROVE  SenderInv'
<1>1. TypeOK
  BY Zenon DEF SenderInv
<1>2. /\ pc \in [Msgs -> {"idle", "out", "respond", "done"}] /\ which[m] \in Nat \ {0}
      /\ asked[m] \in SessionIds \cup {NoId} /\ ccfs[m] \in Seq(Ccfs)
      /\ which \in [Msgs -> Nat \ {0}] /\ result \in [Msgs -> Result]
      /\ which[m] <= Len(ccfs[m]) /\ Len(ccfs[m]) \in Nat
      /\ \A a \in network : a.msg \in Msgs /\ a.which \in Nat
      /\ \A r \in answers : r.msg \in Msgs
  BY <1>1 DEF TypeOK
<1>a. PICK i \in Nat \ {0} : i = which[m] + 1
  BY <1>2
<1>b. PICK acr : acr = [ msg |-> m, which |-> i, ccf |-> ccfs[m][i],
                         session_id |-> SessionIdOf(m, asked[m], i) ]
  BY Zenon
<1>3. CASE /\ c = "UNABLE_TO_DELIVER" /\ which[m] < Len(ccfs[m])
           /\ UNCHANGED <<pc, result>>
           /\ which' = [which EXCEPT ![m] = i]
           /\ network' = network \cup {acr}
  <2>0. SessionIdOf(m, asked[m], i) \in SessionIds
    BY <1>2, SessionIdType, Zenon
  <2>1. i \in 1..Len(ccfs[m])
    BY <1>2, <1>3, <1>a
  <2>2. acr \in [msg : Msgs, which : Nat \ {0}, ccf : Ccfs, session_id : SessionIds]
    BY <1>2, <1>b, <2>0, <2>1
  <2>3. Attempt(acr)'
    BY <1>2, <1>3, <1>b, <2>1 DEF Attempt
  <2>4. TypeOK'
    BY <1>1, <1>2, <1>3, <2>1, <2>2 DEF TypeOK
  <2>5. \A a \in network' : Attempt(a)'
    <3>1. \A a \in network : Attempt(a)'
      BY <1>3, Zenon DEF SenderInv, Attempt
    <3>. QED  BY <1>3, <2>3, <3>1, Zenon
  <2>6. \A n \in Msgs : Asks(n)'
    BY <1>3, Zenon DEF SenderInv, Asks
  <2>7. AcceptedIsOpen'
    BY <1>3, Zenon DEF SenderInv, AcceptedIsOpen, OpenFor
  <2>8. GivesUpLast'
    <3>1. result[m].code # "UNABLE_TO_DELIVER"
      BY <1>2, <1>3 DEF SenderInv, GivesUpLast
    <3>. QED  BY <1>2, <1>3, <3>1, Zenon DEF SenderInv, GivesUpLast
  <2>9. SessionIsOpen' /\ (session' # NoSession => pc'[session'.session_id[1]] = "done")
    BY <1>3, Zenon DEF SenderInv, SessionIsOpen
  <2>. QED  BY <2>4, <2>5, <2>6, <2>7, <2>8, <2>9, Zenon DEF SenderInv
<1>4. ASSUME NEW rid \in SessionIds \cup {NoId}, Respond(m, c, rid), UNCHANGED network,
             c # "UNABLE_TO_DELIVER" => rid = id,
             c = "UNABLE_TO_DELIVER" => which[m] = Len(ccfs[m])
      PROVE  SenderInv'
  <2>1. /\ pc' = [pc EXCEPT ![m] = "respond"] /\ UNCHANGED which
        /\ result' = [result EXCEPT ![m] = [code |-> c, session_id |-> rid]]
    BY <1>4, Zenon DEF Respond
  <2>2. TypeOK'
    BY <1>1, <1>2, <1>4, <2>1, Zenon DEF TypeOK, Result
  <2>3. \A a \in network' : Attempt(a)'
    BY <1>2, <1>4, <2>1, Zenon DEF SenderInv, Attempt
  <2>4. \A n \in Msgs : Asks(n)'
    <3>. SUFFICES ASSUME NEW n \in Msgs PROVE Asks(n)'
      BY Zenon
    <3>1. Asks(n) /\ (asked[n] # NoId => asked[n][1] \in Msgs)
      BY <1>1, IdsAreNotNoId, Zenon DEF SenderInv, TypeOK
    <3>2. CASE n = m
      BY <1>2, <2>1, <3>1, <3>2, Zenon DEF Asks
    <3>3. CASE n # m
      BY <1>2, <2>1, <3>1, <3>3, Zenon DEF Asks
    <3>. QED  BY <3>2, <3>3, Zenon
  <2>5. AcceptedIsOpen'
    <3>1. \A r \in answers' :
            /\ pc'[r.msg] # "idle"
            /\ pc'[r.msg] = "out" /\ type'[r.msg] = "START" /\ r.code = "SUCCESS" =>
                 OpenFor(r.msg, r.session_id)'
      BY <1>2, <2>1 DEF SenderInv, AcceptedIsOpen, OpenFor
    <3>2. ASSUME NEW n \in Msgs, pc'[n] = "respond", type'[n] = "START",
                 result'[n].code = "SUCCESS"
          PROVE  OpenFor(n, result[n].session_id)'
      <4>1. CASE n = m
        <5>1. c = "SUCCESS" /\ result'[m].session_id = id
          BY <1>2, <1>4, <2>1, <3>2, <4>1, Zenon
        <5>. QED  BY <3>2, <4>1, <5>1, Zenon DEF OpenFor
      <4>2. CASE n # m
        <5>1. pc[n] = "respond" /\ result'[n] = result[n]
          BY <1>2, <2>1, <3>2, <4>2, Zenon
        <5>. QED  BY <3>2, <5>1 DEF SenderInv, AcceptedIsOpen, OpenFor
      <4>. QED  BY <4>1, <4>2, Zenon
    <3>. QED  BY <3>1, <3>2, Zenon DEF AcceptedIsOpen
  <2>6. GivesUpLast'
    BY <1>2, <1>4, <2>1, Zenon DEF SenderInv, GivesUpLast
  <2>7. SessionIsOpen'
    BY Zenon DEF SenderInv, SessionIsOpen
  <2>8. session' # NoSession => pc'[session'.session_id[1]] = "done"
    <3>1. session # NoSession => session.session_id[1] \in Msgs /\ session.session_id[1] # m
      BY <1>1, IdsAreNotNoId, Zenon DEF SenderInv, TypeOK, Session
    <3>. QED  BY <1>2, <2>1, <3>1, Zenon DEF SenderInv
  <2>. QED  BY <2>2, <2>3, <2>4, <2>5, <2>6, <2>7, <2>8, Zenon DEF SenderInv
<1>5. CASE c # "UNABLE_TO_DELIVER"
  BY <1>4, <1>5, Zenon DEF SendCb
<1>6. CASE c = "UNABLE_TO_DELIVER" /\ which[m] < Len(ccfs[m])
  BY <1>3, <1>6, <1>a, <1>b, Zenon DEF SendCb, IntSendMsg
<1>7. CASE c = "UNABLE_TO_DELIVER" /\ ~(which[m] < Len(ccfs[m]))
  <2>1. which[m] = Len(ccfs[m])
    BY <1>2, <1>7
  <2>. QED  BY <1>4, <1>7, <2>1, Zenon DEF SendCb
<1>. QED  BY <1>5, <1>6, <1>7, Zenon

\* The callbacks of the transaction.
LEMMA SenderCallback ==
  ASSUME SenderInv, NEW m \in Msgs, OnResponse(m) \/ OnTimeout(m)
  PROVE  SenderInv'
<1>1. TypeOK
  BY Zenon DEF SenderInv
<1>2. CASE OnResponse(m)
  <2>1. PICK r \in answers : r.msg = m /\ answers' = answers \ {r} /\ SendCb(m, r.code, r.session_id)
    BY <1>2, Zenon DEF OnResponse
  <2>2. pc[m] = "out" /\ UNCHANGED <<type, ccfs, asked, open, session>>
    BY <1>2, Zenon DEF OnResponse
  <2>3. r.code \in ResultCodes /\ r.session_id \in SessionIds
    BY <1>1, Zenon DEF TypeOK
  <2>4. type[m] = "START" /\ r.code = "SUCCESS" => OpenFor(m, r.session_id)
    BY <2>1, <2>2, Zenon DEF SenderInv, AcceptedIsOpen
  <2>. QED  BY <2>1, <2>2, <2>3, <2>4, SenderCb, Zenon
<1>3. CASE OnTimeout(m)
  <2>1. /\ pc[m] = "out" /\ SendCb(m, "UNABLE_TO_DELIVER", NoId)
        /\ answers' \subseteq answers /\ UNCHANGED <<type, ccfs, asked, open, session>>
    BY <1>3, Zenon DEF OnTimeout
  <2>2. "UNABLE_TO_DELIVER" \in ResultCodes
    BY Zenon DEF ResultCodes
  <2>. QED  BY <2>1, <2>2, SenderCb, Zenon
<1>. QED  BY <1>2, <1>3

\* on_ccf_response stores the session of an accepted START, whose id is open.
LEMMA SenderResponse ==
  ASSUME SenderInv, NEW m \in Msgs, OnCcfResponse(m)
  PROVE  SenderInv'
<1>1. /\ pc[m] = "respond" /\ pc' = [pc EXCEPT ![m] = "done"]
      /\ UNCHANGED <<type, ccfs, asked, which, result, answers, network, open>>
  BY Zenon DEF OnCcfResponse
<1> DEFINE stored == [ccf |-> ccfs[m], session_id |-> result[m].session_id]
<1>2. \/ session' = NoSession
      \/ session' = session
      \/ type[m] = "START" /\ result[m].code = "SUCCESS" /\ session' = stored
  BY Zenon DEF OnCcfResponse
<1>3. TypeOK
  BY Zenon DEF SenderInv
<1>4. /\ pc \in [Msgs -> {"idle", "out", "respond", "done"}] /\ ccfs[m] \in Seq(Ccfs)
      /\ which[m] \in Nat \ {0} /\ which[m] <= Len(ccfs[m])
      /\ \A a \in network : a.msg \in Msgs
      /\ \A r \in answers : r.msg \in Msgs
  BY <1>1, <1>3, Zenon DEF TypeOK
<1>5. type[m] = "START" /\ result[m].code = "SUCCESS" =>
        /\ OpenFor(m, result[m].session_id)
        /\ result[m].session_id \in SessionIds /\ ccfs[m] # <<>>
  <2>1. ASSUME type[m] = "START", result[m].code = "SUCCESS"
        PROVE  OpenFor(m, result[m].session_id)
    BY <1>1, <2>1, Zenon DEF SenderInv, AcceptedIsOpen
  <2>2. ccfs[m] # <<>>
    BY <1>4
  <2>3. ASSUME NEW i \in 1..Len(ccfs[m]), result[m].session_id \in open[ccfs[m][i]]
        PROVE  result[m].session_id \in SessionIds
    BY <1>3, <1>4, <2>3 DEF TypeOK
  <2>. QED  BY <2>1, <2>2, <2>3, Zenon DEF OpenFor
<1>6. session' \in Session \cup {NoSession}
  <2>1. type[m] = "START" /\ result[m].code = "SUCCESS" => stored \in Session
    BY <1>4, <1>5, Zenon DEF Session
  <2>. HIDE DEF stored
  <2>. QED  BY <1>2, <1>3, <2>1, Zenon DEF TypeOK
<1>7. TypeOK'
  BY <1>1, <1>3, <1>6, Zenon DEF TypeOK
<1>8. \A a \in network' : Attempt(a)'
  BY <1>1, <1>4, Zenon DEF SenderInv, Attempt
<1>9. \A n \in Msgs : Asks(n)'
  <2>. SUFFICES ASSUME NEW n \in Msgs PROVE Asks(n)'
    BY Zenon
  <2>1. Asks(n) /\ (asked[n] # NoId => asked[n][1] \in Msgs)
    BY <1>3, IdsAreNotNoId, Zenon DEF SenderInv, TypeOK
  <2>2. type[n] = "STOP" => session' = NoSession \/ session'.session_id # asked[n]
    <3>1. CASE session' = stored /\ type[m] = "START" /\ result[m].code = "SUCCESS"
      <4>1. session'.session_id[1] = m
        BY <1>5, <3>1, Zenon DEF OpenFor
      <4>2. type[n] = "STOP" => asked[n] # NoId /\ pc[asked[n][1]] = "done"
        BY <2>1, Zenon DEF Asks
      <4>. QED  BY <1>1, <4>1, <4>2, Zenon
    <3>. HIDE DEF stored
    <3>. QED  BY <1>2, <2>1, <3>1, Zenon DEF Asks
  <2>. QED  BY <1>1, <1>4, <2>1, <2>2, Zenon DEF Asks
<1>10. AcceptedIsOpen'
  BY <1>1, <1>4 DEF SenderInv, AcceptedIsOpen, OpenFor
<1>11. SessionIsOpen'
  <2>1. CASE session' = stored /\ type[m] = "START" /\ result[m].code = "SUCCESS"
    BY <1>1, <1>5, <2>1, Zenon DEF SessionIsOpen, OpenFor
  <2>. HIDE DEF stored
  <2>. QED  BY <1>1, <1>2, <2>1, Zenon DEF SenderInv, SessionIsOpen
<1>12. session' # NoSession => pc'[session'.session_id[1]] = "done"
  <2>1. CASE session' = stored /\ type[m] = "START" /\ result[m].code = "SUCCESS"
    BY <1>1, <1>4, <1>5, <2>1, Zenon DEF OpenFor
  <2>2. session # NoSession => session.session_id[1] \in Msgs
    BY <1>3, IdsAreNotNoId, Zenon DEF TypeOK, Session
  <2>. HIDE DEF stored
  <2>. QED  BY <1>1, <1>2, <1>4, <2>1, <2>2, Zenon DEF SenderInv
<1>13. GivesUpLast'
  BY <1>1, Zenon DEF SenderInv, GivesUpLast
<1>. QED  BY <1>7, <1>8, <1>9, <1>10, <1>11, <1>12, <1>13, Zenon DEF SenderInv

\* Ids that a CCF does not close when it answers ACR a: those of requests that are
\* not over, and the stored one.
LEMMA StaysOpen ==
  ASSUME SenderInv, NEW a \in network, CcfAnswers(a), NEW id,
         \/ id[1] \in Msgs /\ pc[id[1]] # "done"
         \/ session # NoSession /\ id = session.session_id
  PROVE  \A c \in Ccfs : id \in open[c] => id \in open'[c]
<1>1. /\ open \in [Ccfs -> SUBSET SessionIds] /\ a.msg \in Msgs /\ a.ccf \in Ccfs
      /\ Attempt(a) /\ Asks(a.msg)
  BY Zenon DEF SenderInv, TypeOK
<1>2. open' = open \/ open' = [open EXCEPT ![a.ccf] = Billed(a)]
  BY Zenon DEF CcfAnswers
<1>3. type[a.msg] = "STOP" => a.session_id # id
  BY <1>1, Zenon DEF Attempt, Asks, SessionIdOf
<1>4. id \in open[a.ccf] => id \in Billed(a)
  BY <1>3, Zenon DEF Billed
<1>. QED  BY <1>1, <1>2, <1>4, Zenon

\* A CCF answers, or the stack has no route to it.
LEMMA SenderNetwork ==
  ASSUME SenderInv, NEW a \in network, CcfAnswers(a) \/ NoRoute(a)
  PROVE  SenderInv'
<1>1. TypeOK
  BY Zenon DEF SenderInv
<1>2. /\ a.msg \in Msgs /\ a.which \in Nat \ {0} /\ a.ccf \in Ccfs /\ a.session_id \in SessionIds
      /\ Attempt(a) /\ Asks(a.msg) /\ ccfs[a.msg] \in Seq(Ccfs)
      /\ open \in [Ccfs -> SUBSET SessionIds]
  BY <1>1, Zenon DEF SenderInv, TypeOK
<1>3. /\ UNCHANGED <<pc, type, ccfs, asked, which, result, session>>
      /\ network' \subseteq network
  BY Zenon DEF CcfAnswers, NoRoute, requests
<1>4. PICK code \in ResultCodes :
        /\ answers' \in {answers, answers \cup {[msg |-> a.msg, code |-> code, session_id |-> a.session_id]}}
        /\ \/ UNCHANGED open /\ code # "SUCCESS"
           \/ code = "SUCCESS" /\ open' = [open EXCEPT ![a.ccf] = Billed(a)]
  BY Zenon DEF CcfAnswers, NoRoute, Verdict, ResultCodes
<1>5. ASSUME NEW id, \/ id[1] \in Msgs /\ pc[id[1]] # "done"
                     \/ session # NoSession /\ id = session.session_id
      PROVE  \A c \in Ccfs : id \in open[c] => id \in open'[c]
  BY <1>5, StaysOpen, Zenon DEF NoRoute
<1>6. TypeOK'
  <2>1. Billed(a) \subseteq SessionIds
    BY <1>2, Zenon DEF Billed
  <2>2. open' \in [Ccfs -> SUBSET SessionIds]
    BY <1>2, <1>4, <2>1, Zenon
  <2>3. answers' \subseteq [msg : Msgs, code : ResultCodes, session_id : SessionIds]
    BY <1>1, <1>2, <1>4 DEF TypeOK
  <2>. QED  BY <1>1, <1>3, <2>2, <2>3, Zenon DEF TypeOK
<1>7. /\ \A b \in network' : Attempt(b)'
      /\ \A n \in Msgs : Asks(n)'
      /\ session' # NoSession => pc'[session'.session_id[1]] = "done"
      /\ GivesUpLast'
  BY <1>3, Zenon DEF SenderInv, Attempt, Asks, GivesUpLast
<1>8. AcceptedIsOpen'
  <2>1. ASSUME NEW r \in answers'
        PROVE  /\ pc'[r.msg] # "idle"
               /\ pc'[r.msg] = "out" /\ type'[r.msg] = "START" /\ r.code = "SUCCESS" =>
                    OpenFor(r.msg, r.session_id)'
    <3>1. CASE r \in answers
      <4>1. /\ r.msg \in Msgs /\ pc[r.msg] # "idle"
            /\ pc[r.msg] = "out" /\ type[r.msg] = "START" /\ r.code = "SUCCESS" =>
                 OpenFor(r.msg, r.session_id)
        BY <1>1, <3>1, Zenon DEF SenderInv, TypeOK, AcceptedIsOpen
      <4>2. ASSUME pc[r.msg] = "out", OpenFor(r.msg, r.session_id)
            PROVE  OpenFor(r.msg, r.session_id)'
        <5>1. \A c \in Ccfs : r.session_id \in open[c] => r.session_id \in open'[c]
          BY <1>5, <4>1, <4>2, Zenon DEF OpenFor
        <5>. QED  BY <1>1, <1>3, <4>1, <4>2, <5>1, OpenForKept, Zenon
      <4>. QED  BY <1>3, <4>1, <4>2, Zenon
    <3>2. CASE r = [msg |-> a.msg, code |-> code, session_id |-> a.session_id]
      <4>1. pc[a.msg] # "idle"
        BY <1>2, Zenon DEF Attempt
      <4>2. ASSUME type[a.msg] = "START", code = "SUCCESS"
            PROVE  OpenFor(a.msg, a.session_id)'
        <5>1. a.session_id[1] = a.msg
          BY <1>2, <4>2 DEF Asks, Attempt, SessionIdOf
        <5>2. a.session_id \in open'[a.ccf]
          BY <1>2, <1>4, <4>2, Zenon DEF Billed
        <5>. QED  BY <1>2, <1>3, <5>1, <5>2 DEF OpenFor, Attempt
      <4>. QED  BY <1>3, <3>2, <4>1, <4>2, Zenon
    <3>. QED  BY <1>4, <3>1, <3>2, Zenon
  <2>2. ASSUME NEW n \in Msgs, pc'[n] = "respond", type'[n] = "START", result'[n].code = "SUCCESS"
        PROVE  OpenFor(n, result[n].session_id)'
    <3>1. OpenFor(n, result[n].session_id) /\ pc[n] = "respond"
      BY <1>3, <2>2, Zenon DEF SenderInv, AcceptedIsOpen
    <3>2. PICK id : id = result[n].session_id
      BY Zenon
    <3>3. \A c \in Ccfs : id \in open[c] => id \in open'[c]
      BY <1>5, <3>1, <3>2, Zenon DEF OpenFor
    <3>4. OpenFor(n, id)'
      BY <1>1, <1>3, <3>1, <3>2, <3>3, OpenForKept, Zenon
    <3>. QED  BY <1>3, <3>2, <3>4, Zenon DEF OpenFor
  <2>. QED  BY <2>1, <2>2, Zenon DEF AcceptedIsOpen
<1>9. SessionIsOpen'
  <2>. SUFFICES ASSUME session # NoSession
                PROVE  \E i \in 1..Len(session.ccf) : session.session_id \in open'[session.ccf[i]]
    BY <1>3, Zenon DEF SessionIsOpen
  <2>1. PICK i \in 1..Len(session.ccf) : session.session_id \in open[session.ccf[i]]
    BY Zenon DEF SenderInv, SessionIsOpen
  <2>2. session.ccf \in Seq(Ccfs)
    BY <1>1, Zenon DEF TypeOK, Session
  <2>3. session.ccf[i] \in Ccfs
    BY <2>2
  <2>. QED  BY <1>5, <2>1, <2>3, Zenon
<1>. QED  BY <1>6, <1>7, <1>8, <1>9, Zenon DEF SenderInv

-----------------------------------------------------------------------------
(* The theorems *)

\* Every step keeps the invariant.
LEMMA SenderNext == SenderInv /\ [Next]_vars => SenderInv'
<1>. SUFFICES ASSUME SenderInv, [Next]_vars PROVE SenderInv'
  BY Zenon
<1>1. CASE UNCHANGED vars
  BY <1>1 DEF vars, requests, SenderInv, TypeOK, Attempt, Asks, AcceptedIsOpen, OpenFor,
              SessionIsOpen, GivesUpLast
<1>. QED  BY <1>1, SenderRequest, SenderCallback, SenderResponse, SenderNetwork, Zenon
          DEF Next, Callback, Rest

\* The invariant always holds.
LEMMA SenderInvariant == Spec => []SenderInv
BY SenderInit, SenderNext, PTL DEF Spec

\* The sender is type correct: _which never leaves the list of CCFs, whatever is
\* lost, late or refused.
THEOREM TypeCorrect == Spec => []TypeOK
<1>1. SenderInv => TypeOK
  BY Zenon DEF SenderInv
<1>. QED  BY <1>1, SenderInvariant, PTL

\* The Session-Id that on_ccf_response stores is open at a CCF of the stored list
\* for as long as the session is stored, with any number of failovers.
THEOREM StoredIdIsOpen == Spec => []SessionIsOpen
<1>1. SenderInv => SessionIsOpen
  BY Zenon DEF SenderInv
<1>. QED  BY <1>1, SenderInvariant, PTL

\* send_cb tries the whole list before it reports UNABLE_TO_DELIVER.
THEOREM TriesAll == Spec => []GivesUpLast
<1>1. SenderInv => GivesUpLast
  BY Zenon DEF SenderInv
<1>. QED  BY <1>1, SenderInvariant, PTL

\* Every step of the sender is a step of AcrDelivery or none: on_ccf_response is
\* called at most once for a message, only after it was sent.
THEOREM ImplementsDelivery == Spec => Abstract!Safety
<1> DEFINE phase == [m \in Msgs |-> CASE pc[m] = "idle" -> "idle"
                                      [] pc[m] = "out"  -> "wait"
                                      [] OTHER          -> "answered"]
           code == [m \in Msgs |-> result[m].code]
<1>1. Init => Abstract!Init
  BY DEF Init, Abstract!Init, Abstract!NoCode
<1>2. SenderInv /\ [Next]_vars => [Abstract!Next]_<<phase, code>>
  <2>. SUFFICES ASSUME SenderInv, [Next]_vars
                PROVE  Abstract!Next \/ UNCHANGED <<phase, code>>
    BY Zenon
  <2>1. /\ pc \in [Msgs -> {"idle", "out", "respond", "done"}]
        /\ result \in [Msgs -> Result]
    BY Zenon DEF SenderInv, TypeOK
  <2>2. ASSUME UNCHANGED <<pc, result>>
        PROVE  UNCHANGED <<phase, code>>
    BY <2>2, Zenon
  <2>3. ASSUME NEW m \in Msgs, SendFirst(m) \/ SendLater(m)
        PROVE  Abstract!Next
    <3>1. pc[m] = "idle" /\ pc' = [pc EXCEPT ![m] = "out"] /\ UNCHANGED result
      BY <2>3, Zenon DEF SendFirst, SendLater, Send
    <3>2. phase[m] = "idle" /\ phase' = [phase EXCEPT ![m] = "wait"] /\ UNCHANGED code
      BY <2>1, <3>1, Zenon
    <3>. QED  BY <3>2, Zenon DEF Abstract!Next, Abstract!Send
  <2>4. ASSUME NEW m \in Msgs, OnResponse(m) \/ OnTimeout(m)
        PROVE  Abstract!Next \/ UNCHANGED <<phase, code>>
    <3>1. PICK c, id : c \in ResultCodes /\ pc[m] = "out" /\ SendCb(m, c, id)
      BY <2>4, Zenon DEF OnResponse, OnTimeout, SenderInv, TypeOK, ResultCodes
    <3>2. CASE UNCHANGED <<pc, result>>
      BY <2>2, <3>2, Zenon
    <3>3. CASE \E rid : Respond(m, c, rid)
      <4>1. /\ pc' = [pc EXCEPT ![m] = "respond"]
            /\ \E rid : result' = [result EXCEPT ![m] = [code |-> c, session_id |-> rid]]
        BY <3>3, Zenon DEF Respond
      <4>2. phase[m] = "wait" /\ phase' = [phase EXCEPT ![m] = "answered"]
        BY <2>1, <3>1, <4>1, Zenon
      <4>3. code' = [code EXCEPT ![m] = c]
        <5>1. \A n \in Msgs : result'[n].code = IF n = m THEN c ELSE result[n].code
          BY <2>1, <4>1
        <5>. QED  BY <5>1, Zenon
      <4>4. c \in ResultCodes
        BY <3>1, Zenon
      <4>. QED  BY <4>2, <4>3, <4>4, Zenon DEF Abstract!Next, Abstract!Answer
    <3>. QED  BY <3>1, <3>2, <3>3, Zenon DEF SendCb
  <2>5. ASSUME NEW m \in Msgs, OnCcfResponse(m)
        PROVE  UNCHANGED <<phase, code>>
    <3>1. pc[m] = "respond" /\ pc' = [pc EXCEPT ![m] = "done"] /\ UNCHANGED result
      BY <2>5, Zenon DEF OnCcfResponse
    <3>. QED  BY <2>1, <3>1, Zenon
  <2>6. ASSUME NEW a \in network, CcfAnswers(a) \/ NoRoute(a)
        PROVE  UNCHANGED <<pc, result>>
    BY <2>6, Zenon DEF CcfAnswers, NoRoute, requests
  <2>7. CASE UNCHANGED vars
    BY <2>2, <2>7, Zenon DEF vars, requests
  <2>. HIDE DEF phase, code
  <2>. QED  BY <2>2, <2>3, <2>4, <2>5, <2>6, <2>7, Zenon DEF Next, Callback, Rest
<1>. QED  BY <1>1, <1>2, SenderInvariant, PTL DEF Spec, Abstract!Safety
=============================================================================
