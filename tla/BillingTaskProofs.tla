-------------------------- MODULE BillingTaskProofs --------------------------
(***************************************************************************)
(* Proofs about BillingTask: what parse_body takes, who owns the objects   *)
(* of a request while two threads race, how a request is answered, and, by *)
(* induction on the members of its event, what its ACR says.               *)
(***************************************************************************)
EXTENDS BillingTask, SequenceTheorems, WellFoundedInduction, TLAPS

\* The objects of a request are exactly those that one of its threads still
\* needs: the task until it has answered, the message and its body until handle()
\* or on_ccf_response is through with them, the sender until the ACR is answered.
Owned(m) ==
  /\ "task" \in live[m] <=> task[m] # "gone"
  /\ "body" \in live[m] <=> task[m] = "handle" \/ phase[m] = "wait"
  /\ "msg" \in live[m] <=> task[m] = "handle" \/ phase[m] = "wait"
  /\ "sender" \in live[m] <=> phase[m] = "wait"

\* What run() makes of the request.
Made(m) == ParseBody(req[m].body, req[m].timer_interim)

\* A message is the one parse_body made, up to what it takes of a stored session.
FromBody(m) ==
  LET parsed == Made(m).msg
  IN /\ req[m].post
     /\ parsed # NoMessage
     /\ msg[m].type = parsed.type
     /\ msg[m].timer_interim = req[m].timer_interim
     /\ IsFirst(msg[m].type) => msg[m].ccfs = parsed.ccfs

\* What the HTTP thread has done by the time it has come to a state.
Progress(m) ==
  /\ task[m] = "new" => msg[m] = NoMessage
  /\ task[m] \in {"handle", "reply"} => msg[m] # NoMessage
  /\ msg[m] # NoMessage => FromBody(m)
  /\ msg[m] = NoMessage \/ task[m] = "handle" => phase[m] = "idle"
  /\ msg[m] # NoMessage /\ task[m] # "handle" /\ IsFirst(msg[m].type) => phase[m] # "idle"
  /\ phase[m] = "wait" => msg[m].ccfs # <<>>

\* The reply: none before the end, then the code of parse_body or 200.
Replied(m) ==
  /\ task[m] # "gone" => reply[m] = <<>>
  /\ task[m] = "gone" /\ msg[m] # NoMessage => reply[m] = <<200>>
  /\ task[m] = "gone" /\ msg[m] = NoMessage /\ req[m].post =>
       Made(m).msg = NoMessage /\ reply[m] = <<Made(m).rc>>

TaskInv == TypeOK /\ \A m \in Msgs : Owned(m) /\ Progress(m) /\ Replied(m)

-----------------------------------------------------------------------------
(* parse_body *)

\* The list of CCFs that parse_body lets through is a list of strings that is not
\* empty.
LEMMA GoodList ==
  ASSUME NEW list \in Seq(Ccfs \cup {NotString}) \cup {Missing}
  PROVE  GoodCcfs(list) <=> list \in Seq(Ccfs) \ {<<>>}
<1>1. CASE list = Missing
  BY <1>1, AbsentAssumption DEF GoodCcfs
<1>2. CASE list \in Seq(Ccfs \cup {NotString}) /\ list # Missing
  <2>1. ASSUME GoodCcfs(list)
        PROVE  list \in Seq(Ccfs)
    BY <1>2, <2>1 DEF GoodCcfs
  <2>2. ASSUME list \in Seq(Ccfs)
        PROVE  \A i \in 1..Len(list) : list[i] # NotString
    BY <2>2, AbsentAssumption
  <2>. QED  BY <1>2, <2>1, <2>2, Zenon DEF GoodCcfs
<1>. QED  BY <1>1, <1>2, Zenon

\* The refresh time of a message fits into 32 bits.
LEMMA RefreshTyped ==
  ASSUME NEW interval \in (-Half)..(Half - 1) \cup {Missing}
  PROVE  RefreshTime(interval) \in 0..(2 * Half - 1)
  BY BodyAssumption, AbsentAssumption DEF RefreshTime

\* parse_body makes a message of exactly the bodies that docs/API.md describes,
\* and deletes every other body.
LEMMA ParseAccepts ==
  ASSUME NEW b \in Body, NEW timer_interim \in BOOLEAN
  PROVE  LET parsed == ParseBody(b, timer_interim)
         IN /\ ApiAccepts(b) =>
                 /\ parsed.msg \in Message
                 /\ parsed.msg.type = b.type
                 /\ parsed.msg.timer_interim = timer_interim
                 /\ IsFirst(b.type) => parsed.msg.ccfs = b.ccf
                 /\ ~parsed.deleted
            /\ ~ApiAccepts(b) => parsed.msg = NoMessage /\ parsed.deleted
            /\ ~ApiRequires(b) => parsed.rc = 400
            /\ parsed.rc \in {200, 400}
<1>. DEFINE parsed == ParseBody(b, timer_interim)
<1>1. /\ b.event \in BOOLEAN /\ b.ims \in BOOLEAN /\ b.role \in BOOLEAN
      /\ b.function \in BOOLEAN /\ b.peers \in BOOLEAN
      /\ b.type \in Int \cup {Missing}
      /\ RefreshTime(b.interval) \in 0..(2 * Half - 1)
      /\ b.ccf \in Seq(Ccfs \cup {NotString}) \cup {Missing}
  BY RefreshTyped, Zenon DEF Body
<1>2. GoodCcfs(b.ccf) <=> b.ccf \in Seq(Ccfs) \ {<<>>}
  BY <1>1, GoodList, Zenon
<1>3. CASE ApiAccepts(b) /\ b.type \in {3, 4}
  <2>1. parsed = Parsed(b, <<>>, timer_interim)
    BY <1>3, AbsentAssumption DEF ApiAccepts, ApiRequires, ParseBody, IsValid, IsLater
  <2>. QED  BY <1>1, <1>3, <2>1 DEF ApiAccepts, Parsed, Message, IsFirst
<1>4. CASE ApiAccepts(b) /\ b.type \in {1, 2}
  <2>1. parsed = Parsed(b, b.ccf, timer_interim)
    BY <1>2, <1>4, AbsentAssumption DEF ApiAccepts, ApiRequires, ParseBody, IsValid, IsLater
  <2>2. b.ccf \in Seq(Ccfs)
    BY <1>4, Zenon DEF ApiAccepts
  <2>. QED  BY <1>1, <1>4, <2>1, <2>2 DEF ApiAccepts, Parsed, Message, IsFirst
<1>5. CASE ~ApiAccepts(b)
  <2>1. parsed \in {Rejected, NoPeers}
    BY <1>1, <1>2, <1>5 DEF ApiAccepts, ApiRequires, ParseBody, IsValid, IsLater
  <2>2. ~ApiRequires(b) => parsed = Rejected
    BY <1>1 DEF ApiRequires, ParseBody
  <2>. QED  BY <1>5, <2>1, <2>2 DEF Rejected, NoPeers
<1>. QED  BY <1>3, <1>4, <1>5 DEF ApiAccepts

\* Every list that a stored session can have names a CCF.
LEMMA Stored ==
  ASSUME NEW stored \in StoredSessions
  PROVE  stored.ccfs \in Seq(Ccfs) \ {<<>>} /\ stored.refresh \in 0..(2 * Half - 1)
<1>1. PICK b \in Bodies : b.type = 2 /\ ParseBody(b, FALSE).msg # NoMessage
                         /\ stored = ParseBody(b, FALSE).msg
  BY Zenon DEF StoredSessions
<1>2. b \in Body
  BY BodyAssumption, Zenon
<1>3. ApiAccepts(b)
  BY <1>1, <1>2, ParseAccepts, Zenon
<1>4. stored \in Message /\ stored.ccfs = b.ccf
  BY <1>1, <1>2, <1>3, ParseAccepts, Zenon DEF IsFirst
<1>. QED  BY <1>1, <1>3, <1>4, Zenon DEF ApiAccepts, Message

-----------------------------------------------------------------------------
(* The invariant *)

\* The steps of one request leave the others alone.
LEMMA OthersKept ==
  ASSUME NEW m \in Msgs, NEW n \in Msgs, n # m,
         TaskInv, Step(m)
  PROVE  /\ task'[n] = task[n] /\ req'[n] = req[n] /\ msg'[n] = msg[n]
         /\ live'[n] = live[n] /\ reply'[n] = reply[n] /\ acr'[n] = acr[n]
         /\ phase'[n] = phase[n] /\ code'[n] = code[n]
<1>. USE DEF TaskInv, TypeOK
<1>1. CASE Run(m)
  BY <1>1 DEF Run
<1>2. CASE HandleIgnores(m) \/ Reply(m)
  BY <1>2 DEF HandleIgnores, Reply
<1>3. CASE HandleSends(m)
  <2>1. msg'[n] = msg[n] /\ acr'[n] = acr[n]
    <3>1. msg'[n] = msg[n]
      BY <1>3, Zenon DEF HandleSends
    <3>2. acr' = [acr EXCEPT ![m] = Request(EventOf(req[m].body))]
      BY <1>3, Zenon DEF HandleSends
    <3>. QED  BY <3>1, <3>2
  <2>2. /\ task'[n] = task[n] /\ req'[n] = req[n] /\ live'[n] = live[n]
        /\ reply'[n] = reply[n]
    BY <1>3, Zenon DEF HandleSends
  <2>3. phase'[n] = phase[n] /\ code'[n] = code[n]
    BY <1>3, Zenon DEF HandleSends, Delivery!Send
  <2>. QED  BY <2>1, <2>2, <2>3, Zenon
<1>4. CASE Answered(m)
  BY <1>4 DEF Answered, Delivery!Answer
<1>. QED  BY <1>1, <1>2, <1>3, <1>4, Zenon DEF Step

\* What is said of a request depends on its own state only.
LEMMA InvKept ==
  ASSUME NEW n \in Msgs,
         task'[n] = task[n], req'[n] = req[n], msg'[n] = msg[n], live'[n] = live[n],
         reply'[n] = reply[n], phase'[n] = phase[n],
         Owned(n), Progress(n), Replied(n)
  PROVE  Owned(n)' /\ Progress(n)' /\ Replied(n)'
  BY DEF Owned, Progress, FromBody, Replied, Made

\* A request that has not been looked at has only its task.
LEMMA InvInit == Init => TaskInv
<1>. SUFFICES ASSUME Init PROVE TaskInv
  BY Zenon
<1>1. TypeOK
  BY BodyAssumption DEF Init, TypeOK, Delivery!Init, Delivery!NoCode, ResultCodes
<1>2. ASSUME NEW m \in Msgs
      PROVE  Owned(m) /\ Progress(m) /\ Replied(m)
  BY Zenon DEF Init, Delivery!Init, Owned, Progress, Replied
<1>. QED  BY <1>1, <1>2, Zenon DEF TaskInv

\* run() answers a request at once, or hands handle() a message that docs/API.md
\* allows, with its body.
LEMMA InvRun ==
  ASSUME TaskInv, NEW m \in Msgs, Run(m)
  PROVE  TypeOK' /\ Owned(m)' /\ Progress(m)' /\ Replied(m)'
<1>1. req[m] \in [post : BOOLEAN, timer_interim : BOOLEAN, body : Body] /\ req' = req
  BY Zenon DEF TaskInv, TypeOK, Run
<1>2. req[m].body \in Body /\ req[m].timer_interim \in BOOLEAN
  BY <1>1, Zenon
<1>3. Owned(m) /\ Progress(m) /\ Replied(m)
  BY Zenon DEF TaskInv
<1>4. task[m] = "new"
  BY Zenon DEF Run
<1>5. CASE req[m].post /\ ApiAccepts(req[m].body)
  <2>. DEFINE parsed == ParseBody(req[m].body, req[m].timer_interim)
  <2>1. parsed.msg \in Message /\ parsed.msg # NoMessage /\ ~parsed.deleted
        /\ parsed.msg.timer_interim = req[m].timer_interim
    BY <1>2, <1>5, ParseAccepts, MessageAssumption
  <2>2. /\ task' = [task EXCEPT ![m] = "handle"]
        /\ msg' = [msg EXCEPT ![m] = parsed.msg]
        /\ live' = [live EXCEPT ![m] = @ \cup {"msg"} \cup {"body"}]
        /\ UNCHANGED <<req, reply, acr, phase, code>>
    BY <1>5, <2>1, Zenon DEF Run
  <2>. HIDE DEF parsed
  <2>3. TypeOK'
    BY <2>1, <2>2, Zenon DEF TaskInv, TypeOK
  <2>4. task'[m] = "handle" /\ msg'[m] = parsed.msg
        /\ live'[m] = live[m] \cup {"msg", "body"}
    BY <2>2 DEF TaskInv, TypeOK
  <2>5. FromBody(m)'
    BY <1>5, <2>1, <2>2, <2>4, Zenon DEF FromBody, Made, parsed
  <2>. QED  BY <1>3, <1>4, <2>1, <2>2, <2>3, <2>4, <2>5, Zenon DEF Owned, Progress, Replied
<1>6. CASE ~(req[m].post /\ ApiAccepts(req[m].body))
  <2>1. PICK rc \in {200, 400, 405} :
          /\ task' = [task EXCEPT ![m] = "gone"]
          /\ live' = [live EXCEPT ![m] = @ \ {"task"}]
          /\ reply' = [reply EXCEPT ![m] = Append(@, rc)]
          /\ req[m].post => rc = Made(m).rc
          /\ UNCHANGED <<req, msg, acr, phase, code>>
    <3>1. CASE req[m].post
      BY <1>2, <1>6, <3>1, ParseAccepts DEF Run, Made
    <3>2. CASE ~req[m].post
      BY <3>2 DEF Run, Rejected
    <3>. QED  BY <3>1, <3>2, Zenon
  <2>2. req[m].post => Made(m).msg = NoMessage
    BY <1>2, <1>6, ParseAccepts DEF Made
  <2>3. TypeOK'
    BY <2>1 DEF TaskInv, TypeOK
  <2>4. task'[m] = "gone" /\ live'[m] = live[m] \ {"task"} /\ reply'[m] = Append(reply[m], rc)
    BY <2>1 DEF TaskInv, TypeOK
  <2>5. Owned(m)' /\ Progress(m)'
    BY <1>3, <1>4, <2>1, <2>4, Zenon DEF Owned, Progress
  <2>6. reply'[m] = <<rc>> /\ msg'[m] = NoMessage
    <3>1. reply[m] = <<>> /\ msg[m] = NoMessage
      BY <1>3, <1>4, Zenon DEF Progress, Replied
    <3>2. Append(<<>>, rc) = <<rc>>
      OBVIOUS
    <3>. QED  BY <2>1, <2>4, <3>1, <3>2
  <2>7. Replied(m)'
    <3>1. Made(m)' = Made(m)
      BY <2>1, Zenon DEF Made
    <3>2. req[m].post => reply'[m] = <<Made(m).rc>>
      BY <2>1, <2>6
    <3>3. task'[m] = "gone" /\ msg'[m] = NoMessage /\ req'[m] = req[m]
      BY <2>1, <2>4, <2>6, Zenon
    <3>. QED  BY <2>2, <3>1, <3>2, <3>3, Zenon DEF Replied
  <2>. QED  BY <2>3, <2>5, <2>7, Zenon
<1>. QED  BY <1>5, <1>6, Zenon

\* handle() without a session lets go of the message and the body; the task is
\* still to answer.
LEMMA InvHandleIgnores ==
  ASSUME TaskInv, NEW m \in Msgs, HandleIgnores(m)
  PROVE  TypeOK' /\ Owned(m)' /\ Progress(m)' /\ Replied(m)'
<1>1. Owned(m) /\ Progress(m) /\ Replied(m)
  BY DEF TaskInv
<1>2. TypeOK'
  BY Zenon DEF TaskInv, TypeOK, HandleIgnores
<1>3. /\ task[m] = "handle" /\ task'[m] = "reply" /\ ~IsFirst(msg[m].type)
      /\ live'[m] = live[m] \ {"body", "msg"}
      /\ UNCHANGED <<req, msg, reply, phase>>
  BY DEF TaskInv, TypeOK, HandleIgnores, IsLater, IsFirst
<1>. QED  BY <1>1, <1>2, <1>3, Zenon DEF Owned, Progress, Replied, FromBody, Made

\* handle() gives message and body to a sender, with a CCF to send to: that of the
\* request or that of a stored session.
LEMMA InvHandleSends ==
  ASSUME TaskInv, NEW m \in Msgs, HandleSends(m)
  PROVE  TypeOK' /\ Owned(m)' /\ Progress(m)' /\ Replied(m)'
<1>1. Owned(m) /\ Progress(m) /\ Replied(m)
  BY DEF TaskInv
<1>2. task[m] = "handle" /\ msg[m] # NoMessage
  BY <1>1, Zenon DEF HandleSends, Progress
<1>3. msg[m] \in Message /\ req[m].body \in Body /\ req[m].timer_interim \in BOOLEAN
  BY <1>2 DEF TaskInv, TypeOK
<1>4. PICK ccfs \in Seq(Ccfs) \ {<<>>}, refresh \in 0..(2 * Half - 1) :
        /\ msg' = [msg EXCEPT ![m] = [msg[m] EXCEPT !.ccfs = ccfs, !.refresh = refresh]]
        /\ IsFirst(msg[m].type) => ccfs = msg[m].ccfs
  <2>1. CASE IsLater(msg[m].type) /\ ~IsFirst(msg[m].type)
    <3>1. PICK stored \in StoredSessions :
            msg' = [msg EXCEPT ![m].ccfs = stored.ccfs,
                               ![m].refresh = IF @ = 0 THEN stored.refresh ELSE @]
      BY <2>1, Zenon DEF HandleSends
    <3>2. stored.ccfs \in Seq(Ccfs) \ {<<>>} /\ stored.refresh \in 0..(2 * Half - 1)
          /\ msg[m].refresh \in 0..(2 * Half - 1)
      BY <1>3, Stored, Zenon DEF Message
    <3>. DEFINE refresh == IF msg[m].refresh = 0 THEN stored.refresh ELSE msg[m].refresh
    <3>3. msg' = [msg EXCEPT ![m] = [msg[m] EXCEPT !.ccfs = stored.ccfs, !.refresh = refresh]]
      BY <1>3, <3>1 DEF Message, TaskInv, TypeOK
    <3>4. refresh \in 0..(2 * Half - 1)
      BY <3>2, Zenon
    <3>. QED  BY <2>1, <3>2, <3>3, <3>4, Zenon
  <2>2. CASE IsFirst(msg[m].type) /\ ~IsLater(msg[m].type)
    <3>1. FromBody(m)
      BY <1>1, <1>2, Zenon DEF Progress
    <3>2. ApiAccepts(req[m].body)
      BY <1>3, <3>1, ParseAccepts, Zenon DEF FromBody, Made
    <3>3. msg[m].ccfs = req[m].body.ccf /\ IsFirst(req[m].body.type)
      BY <1>3, <2>2, <3>1, <3>2, ParseAccepts, Zenon DEF FromBody, Made
    <3>4. msg[m].ccfs \in Seq(Ccfs) \ {<<>>}
      BY <3>2, <3>3, Zenon DEF ApiAccepts, IsFirst
    <3>5. msg' = msg
      BY <2>2, Zenon DEF HandleSends
    <3>6. msg = [msg EXCEPT ![m] = [msg[m] EXCEPT !.ccfs = msg[m].ccfs, !.refresh = msg[m].refresh]]
      <4>1. msg[m] = [msg[m] EXCEPT !.ccfs = msg[m].ccfs, !.refresh = msg[m].refresh]
        BY <1>3 DEF Message
      <4>. QED  BY <4>1, Zenon DEF TaskInv, TypeOK
    <3>7. msg[m].refresh \in 0..(2 * Half - 1)
      BY <1>3, Zenon DEF Message
    <3>. QED  BY <3>4, <3>5, <3>6, <3>7, Zenon
  <2>3. (IsFirst(msg[m].type) /\ ~IsLater(msg[m].type)) \/ (IsLater(msg[m].type) /\ ~IsFirst(msg[m].type))
    BY <1>3 DEF Message, IsFirst, IsLater
  <2>. QED  BY <2>1, <2>2, <2>3, Zenon
<1>. DEFINE new == [msg[m] EXCEPT !.ccfs = ccfs, !.refresh = refresh]
<1>7. /\ new \in Message
      /\ new.type = msg[m].type /\ new.timer_interim = msg[m].timer_interim
      /\ new.ccfs = ccfs
  BY <1>3, Zenon DEF Message
<1>8. /\ task' = [task EXCEPT ![m] = "reply"]
      /\ live' = [live EXCEPT ![m] = @ \cup {"sender"}]
      /\ phase' = [phase EXCEPT ![m] = "wait"]
      /\ UNCHANGED <<req, reply, code>>
  BY Zenon DEF HandleSends, Delivery!Send
<1>9. TypeOK'
  <2>1. ASSUME NEW n \in Msgs, phase'[n] = "idle"
        PROVE  acr'[n] = <<>>
    <3>1. n # m
      BY <1>8, <2>1 DEF TaskInv, TypeOK
    <3>2. phase[n] = "idle" /\ acr'[n] = acr[n]
      BY <2>1, <3>1, OthersKept, Zenon DEF Step
    <3>. QED  BY <3>2, Zenon DEF TaskInv, TypeOK
  <2>2. msg' \in [Msgs -> Message \cup {NoMessage}]
    BY <1>4, <1>7, Zenon DEF TaskInv, TypeOK
  <2>. HIDE DEF new
  <2>. QED  BY <1>8, <2>1, <2>2 DEF TaskInv, TypeOK
<1>. HIDE DEF new
<1>10. /\ task'[m] = "reply" /\ phase'[m] = "wait"
       /\ live'[m] = live[m] \cup {"sender"}
       /\ msg'[m] = new
  BY <1>4, <1>8, Zenon DEF TaskInv, TypeOK, new
<1>11. msg'[m] # NoMessage
  BY <1>7, <1>10, MessageAssumption, Zenon
<1>13. FromBody(m)'
  BY <1>1, <1>2, <1>4, <1>7, <1>8, <1>10, Zenon DEF Progress, FromBody, Made
<1>. QED
  BY <1>1, <1>2, <1>4, <1>7, <1>8, <1>9, <1>10, <1>11, <1>13, Zenon DEF Owned, Progress, Replied

\* The reply of a request that was handled is 200 and ends the task.
LEMMA InvReply ==
  ASSUME TaskInv, NEW m \in Msgs, Reply(m)
  PROVE  TypeOK' /\ Owned(m)' /\ Progress(m)' /\ Replied(m)'
<1>1. Owned(m) /\ Progress(m) /\ Replied(m)
  BY DEF TaskInv
<1>2. TypeOK'
  BY DEF TaskInv, TypeOK, Reply
<1>3. /\ task[m] = "reply" /\ task'[m] = "gone"
      /\ live'[m] = live[m] \ {"task"}
      /\ reply'[m] = Append(reply[m], 200)
      /\ UNCHANGED <<req, msg, phase>>
  BY DEF TaskInv, TypeOK, Reply
<1>4. Owned(m)'
  BY <1>1, <1>3, Zenon DEF Owned
<1>5. Progress(m)'
  BY <1>1, <1>3, Zenon DEF Progress, FromBody, Made
<1>6. Replied(m)'
  <2>1. reply[m] = <<>> /\ msg[m] # NoMessage
    BY <1>1, <1>3, Zenon DEF Progress, Replied
  <2>2. Append(<<>>, 200) = <<200>>
    OBVIOUS
  <2>3. reply'[m] = <<200>>
    BY <1>3, <2>1, <2>2
  <2>. QED  BY <1>3, <2>1, <2>3, Zenon DEF Replied, Made
<1>. QED  BY <1>2, <1>4, <1>5, <1>6, Zenon

\* The answer frees the message, the body and the sender, whether the task has
\* answered its request or not.
LEMMA InvAnswered ==
  ASSUME TaskInv, NEW m \in Msgs, Answered(m)
  PROVE  TypeOK' /\ Owned(m)' /\ Progress(m)' /\ Replied(m)'
<1>1. Owned(m) /\ Progress(m) /\ Replied(m)
  BY DEF TaskInv
<1>2. PICK c \in ResultCodes : code' = [code EXCEPT ![m] = c]
  BY Zenon DEF Answered, Delivery!Answer
<1>3. /\ phase[m] = "wait"
      /\ phase' = [phase EXCEPT ![m] = "answered"]
      /\ live' = [live EXCEPT ![m] = @ \ {"body", "msg", "sender"}]
      /\ UNCHANGED <<task, req, msg, reply, acr>>
  BY Zenon DEF Answered, Delivery!Answer
<1>4. TypeOK'
  BY <1>2, <1>3 DEF TaskInv, TypeOK
<1>5. phase'[m] = "answered" /\ live'[m] = live[m] \ {"body", "msg", "sender"}
  BY <1>3 DEF TaskInv, TypeOK
<1>6. task[m] # "handle"
  BY <1>1, <1>3, Zenon DEF Progress
<1>7. Owned(m)'
  BY <1>1, <1>3, <1>5, <1>6, Zenon DEF Owned
<1>8. Progress(m)'
  BY <1>1, <1>3, <1>5, <1>6, Zenon DEF Progress, FromBody, Made
<1>9. Replied(m)'
  BY <1>1, <1>3, Zenon DEF Replied, Made
<1>. QED  BY <1>4, <1>7, <1>8, <1>9, Zenon

\* Every step keeps the invariant.
LEMMA InvNext == TaskInv /\ [Next]_vars => TaskInv'
<1>. SUFFICES ASSUME TaskInv, [Next]_vars PROVE TaskInv'
  BY Zenon
<1>1. ASSUME NEW m \in Msgs, Step(m)
      PROVE  TaskInv'
  <2>1. TypeOK' /\ Owned(m)' /\ Progress(m)' /\ Replied(m)'
    BY <1>1, InvRun, InvHandleIgnores, InvHandleSends, InvReply, InvAnswered DEF Step
  <2>2. ASSUME NEW n \in Msgs, n # m
        PROVE  Owned(n)' /\ Progress(n)' /\ Replied(n)'
    BY <1>1, <2>2, OthersKept, InvKept, Zenon DEF TaskInv
  <2>. QED  BY <2>1, <2>2, Zenon DEF TaskInv
<1>2. CASE UNCHANGED vars
  <2>1. TypeOK'
    BY <1>2, Zenon DEF TaskInv, TypeOK, vars
  <2>2. ASSUME NEW n \in Msgs
        PROVE  Owned(n)' /\ Progress(n)' /\ Replied(n)'
    BY <1>2, InvKept, Zenon DEF TaskInv, vars
  <2>. QED  BY <2>1, <2>2, Zenon DEF TaskInv
<1>. QED  BY <1>1, <1>2, Zenon DEF Next, Rest

\* TaskInv holds in every state of the task handler.
LEMMA TaskInvariant == Spec => []TaskInv
  BY InvInit, InvNext, PTL DEF Spec

-----------------------------------------------------------------------------
(* The AVPs of a member *)

\* Every set of numbers that is not empty has a least one.
LEMMA LeastNumber ==
  ASSUME NEW T \in SUBSET Nat, T # {}
  PROVE  \E x \in T : \A y \in T : x <= y
<1>. DEFINE R == OpToRel(<, Nat)
<1>1. \A x, y \in Nat : <<x, y>> \in R <=> x < y
  BY DEF OpToRel
<1>2. IsWellFoundedOn(R, Nat)
  BY NatLessThanWellFounded, Zenon
<1>. HIDE DEF R
<1>3. PICK x \in T : \A y \in T : ~ (<<y, x>> \in R)
  BY <1>2, WFMin, Zenon
<1>4. \A y \in T : ~ (y < x)
  BY <1>1, <1>3, Zenon
<1>5. \A y \in T : x <= y
  BY <1>3, <1>4
<1>. QED  BY <1>3, <1>5, Zenon

\* A set with 0 and the successor of each of its numbers up to N has all numbers to N.
LEMMA Induction ==
  ASSUME NEW N \in Nat, NEW S, 0 \in S, \A n \in 0..(N - 1) : n \in S => n + 1 \in S
  PROVE  0..N \subseteq S
<1>. SUFFICES ASSUME 0..N \ S # {}
              PROVE  FALSE
  BY Zenon
<1>1. 0..N \ S \in SUBSET Nat
  OBVIOUS
<1>2. PICK x \in 0..N \ S : \A y \in 0..N \ S : x <= y
  BY <1>1, LeastNumber, Zenon
<1>3. x - 1 \in 0..(N - 1)
  BY <1>2
<1>4. x - 1 \in S
  <2>1. x - 1 \in 0..N /\ ~ (x <= x - 1)
    BY <1>2, <1>3
  <2>. QED  BY <1>2, <2>1, Zenon
<1>. QED  BY <1>2, <1>3, <1>4

\* The names of AVPs: strings, among them those in the code.
AvpNames ==
  STRING \cup { "Session-Id", "Origin-Host", "Origin-Realm", "Acct-Application-Id",
                "Destination-Host", "Destination-Realm", "Accounting-Record-Number",
                "Service-Context-Id", "Accounting-Record-Type", "Acct-Interim-Interval",
                "Service-Information" }

\* What an AVP of an ACR can be, given the values of the event.
AvpsWith(V) == [name : AvpNames, value : V]

\* A member whose values come from V.
MembersWith(V) == [name : AvpNames, values : Seq(V)]

\* A function on 1..n is a sequence.
LEMMA FunctionIsSeq ==
  ASSUME NEW n \in Nat, NEW A, NEW f \in [1..n -> A]
  PROVE  f \in Seq(A)
OBVIOUS

\* The loop over an array ends with its last value or before the first that does not fit.
LEMMA FitChosen ==
  ASSUME NEW V, NEW values \in Seq(V)
  PROVE  LET fit == {n \in 0..Len(values) : \A i \in 1..n : values[i] # Unfit}
             n   == CHOOSE n \in fit : n + 1 \notin fit
         IN /\ n \in 0..Len(values)
            /\ (\A i \in 1..Len(values) : values[i] # Unfit) => n = Len(values)
<1>. DEFINE fit == {n \in 0..Len(values) : \A i \in 1..n : values[i] # Unfit}
            bad == {i \in 1..Len(values) : values[i] = Unfit}
            chosen == CHOOSE n \in fit : n + 1 \notin fit
<1>1. Len(values) \in Nat
  BY LenProperties, Zenon
<1>. DEFINE L == Len(values)
<1>2. \E n \in fit : n + 1 \notin fit
  <2>1. CASE bad = {}
    <3>1. L \in fit /\ L + 1 \notin fit
      BY <1>1, <2>1
    <3>. QED  BY <3>1, Zenon
  <2>2. CASE bad # {}
    <3>1. PICK x \in bad : \A y \in bad : x <= y
      <4>1. bad \in SUBSET Nat
        BY <1>1
      <4>. HIDE DEF bad
      <4>. QED  BY <2>2, <4>1, LeastNumber, Zenon
    <3>2. x \in 1..L /\ values[x] = Unfit /\ \A i \in 1..(x - 1) : values[i] # Unfit
      BY <1>1, <3>1
    <3>3. x - 1 \in fit /\ (x - 1) + 1 \notin fit
      BY <1>1, <3>2
    <3>. QED  BY <3>3, Zenon
  <2>. QED  BY <2>1, <2>2, Zenon
<1>3. chosen \in fit /\ chosen + 1 \notin fit
  <2>. HIDE DEF fit
  <2>. QED  BY <1>2, Zenon
<1>4. chosen \in 0..L
  <2>. HIDE DEF chosen
  <2>. QED  BY <1>3, Zenon
<1>5. ASSUME \A i \in 1..L : values[i] # Unfit PROVE chosen = L
  <2>. HIDE DEF chosen
  <2>. QED  BY <1>1, <1>3, <1>4, <1>5
<1>. QED  BY <1>4, <1>5, Zenon

\* A member gives AVPs of its own name, and one for each value if all of them fit.
LEMMA AvpsOfMember ==
  ASSUME NEW V, NEW member \in MembersWith(V)
  PROVE  /\ AvpsOf(member) \in Seq(AvpsWith(V))
         /\ \A i \in DOMAIN AvpsOf(member) : AvpsOf(member)[i].name = member.name
         /\ member.name \in Known /\ (\A i \in 1..Len(member.values) : member.values[i] # Unfit) =>
              AvpsOf(member) = Avps(member.name, member.values)
<1>. DEFINE values == member.values
            fit == {n \in 0..Len(values) : \A i \in 1..n : values[i] # Unfit}
            n == CHOOSE n \in fit : n + 1 \notin fit
<1>1. values \in Seq(V) /\ member.name \in AvpNames
  BY Zenon DEF MembersWith
<1>2. n \in 0..Len(values) /\ ((\A i \in 1..Len(values) : values[i] # Unfit) => n = Len(values))
  <2>. HIDE DEF values
  <2>. QED  BY <1>1, FitChosen, Zenon
<1>3. AvpsOf(member) = IF member.name \notin Known THEN <<>>
                       ELSE Avps(member.name, SubSeq(values, 1, n))
  BY Zenon DEF AvpsOf
<1>. HIDE DEF values, n
<1>4. SubSeq(values, 1, n) \in Seq(V) /\ (n = Len(values) => SubSeq(values, 1, n) = values)
  BY <1>1, <1>2
<1>5. ASSUME NEW s \in Seq(V)
      PROVE  /\ Avps(member.name, s) \in Seq(AvpsWith(V))
             /\ \A i \in DOMAIN Avps(member.name, s) : Avps(member.name, s)[i].name = member.name
  <2>. DEFINE t == Avps(member.name, s)
  <2>1. DOMAIN s = 1..Len(s) /\ Len(s) \in Nat /\ \A i \in 1..Len(s) : s[i] \in V
    OBVIOUS
  <2>2. DOMAIN t = 1..Len(s) /\ t = [i \in 1..Len(s) |-> [name |-> member.name, value |-> s[i]]]
    BY <2>1, Zenon DEF Avps
  <2>3. \A i \in 1..Len(s) : [name |-> member.name, value |-> s[i]] \in AvpsWith(V)
    BY <1>1, <2>1, Zenon DEF AvpsWith
  <2>4. t \in [1..Len(s) -> AvpsWith(V)]
    <3>. HIDE DEF t
    <3>. QED  BY <2>2, <2>3, Zenon
  <2>5. \A i \in 1..Len(s) : t[i].name = member.name
    <3>. HIDE DEF t
    <3>. QED  BY <2>2
  <2>6. t \in Seq(AvpsWith(V))
    BY <2>1, <2>4, FunctionIsSeq, Zenon
  <2>. QED  BY <2>2, <2>5, <2>6, Zenon
<1>6. <<>> \in Seq(AvpsWith(V)) /\ DOMAIN <<>> = {}
  OBVIOUS
<1>. DEFINE s == SubSeq(values, 1, n)
<1>7. /\ Avps(member.name, s) \in Seq(AvpsWith(V))
      /\ \A i \in DOMAIN Avps(member.name, s) : Avps(member.name, s)[i].name = member.name
      /\ n = Len(values) => s = values
  BY <1>4, <1>5, Zenon
<1>. HIDE DEF s
<1>8. AvpsOf(member) = IF member.name \notin Known THEN <<>> ELSE Avps(member.name, s)
  BY <1>3, Zenon DEF s
<1>9. AvpsOf(member) \in Seq(AvpsWith(V))
      /\ \A i \in DOMAIN AvpsOf(member) : AvpsOf(member)[i].name = member.name
  <2>1. CASE member.name \in Known
    BY <1>7, <1>8, <2>1, Zenon
  <2>2. CASE member.name \notin Known
    <3>1. AvpsOf(member) = <<>>
      BY <1>8, <2>2, Zenon
    <3>. QED  BY <1>6, <3>1, Zenon
  <2>. QED  BY <2>1, <2>2, Zenon
<1>. QED  BY <1>2, <1>7, <1>8, <1>9, Zenon DEF values

-----------------------------------------------------------------------------
(* The loop over the members *)

\* The ACR after each member.
After(members) ==
  CHOOSE f : f = [n \in 0..Len(members) |->
                    IF n = 0 THEN Fixed ELSE f[n - 1] \o AvpsOf(members[n])]

\* The recursion of Request ends: there is a function as it says.
LEMMA RequestRecursion ==
  ASSUME NEW members, Len(members) \in Nat
  PROVE  /\ Request(members) = After(members)[Len(members)]
         /\ After(members)[0] = Fixed
         /\ \A n \in 1..Len(members) : After(members)[n] = After(members)[n - 1] \o AvpsOf(members[n])
<1>. DEFINE N == Len(members)
            Step1(f, n) == IF n = 0 THEN Fixed ELSE f[n - 1] \o AvpsOf(members[n])
            Right(f, n) == \A i \in 0..n : f[i] = Step1(f, i)
            S == {n \in 0..N : \E f : DOMAIN f = 0..N /\ f = [i \in DOMAIN f |-> f[i]] /\ Right(f, n)}
<1>1. Request(members) = After(members)[N]
  BY Zenon DEF Request, After
<1>2. 0 \in S
  <2>. DEFINE g == [i \in 0..N |-> Fixed]
  <2>1. Right(g, 0) /\ DOMAIN g = 0..N /\ g = [i \in DOMAIN g |-> g[i]] /\ 0 \in 0..N
    OBVIOUS
  <2>. HIDE DEF Right, g
  <2>. QED  BY <2>1, Zenon
<1>3. ASSUME NEW n \in 0..(N - 1), n \in S
      PROVE  n + 1 \in S
  <2>1. PICK f : DOMAIN f = 0..N /\ f = [i \in DOMAIN f |-> f[i]] /\ Right(f, n)
    BY <1>3, Zenon
  <2>. DEFINE k == n + 1
              g == [i \in 0..N |-> IF i = k THEN Step1(f, k) ELSE f[i]]
  <2>2. k \in 0..N /\ 0..(n + 1) = {k} \cup 0..n /\ k # 0
    OBVIOUS
  <2>3. ASSUME NEW i \in {k} \cup 0..n
        PROVE  g[i] = Step1(g, i)
    <3>1. Step1(g, i) = Step1(f, i)
      <4>1. CASE i = 0
        BY <4>1
      <4>2. CASE i # 0
        <5>1. i - 1 \in 0..N /\ i - 1 # k
          BY <2>2, <4>2
        <5>2. g[i - 1] = f[i - 1]
          BY <5>1
        <5>. HIDE DEF g, k
        <5>. QED  BY <4>2, <5>2, Zenon
      <4>. QED  BY <4>1, <4>2, Zenon
    <3>2. g[i] = Step1(f, i)
      <4>1. CASE i = k
        BY <2>2, <4>1
      <4>2. CASE i # k
        <5>1. f[i] = Step1(f, i) /\ i \in 0..N
          BY <2>1, <2>2, <4>2
        <5>. QED  BY <4>2, <5>1
      <4>. QED  BY <4>1, <4>2, Zenon
    <3>. QED  BY <3>1, <3>2
  <2>4. Right(g, n + 1)
    BY <2>2, <2>3, Zenon
  <2>5. DOMAIN g = 0..N /\ g = [i \in DOMAIN g |-> g[i]] /\ n + 1 \in 0..N
    OBVIOUS
  <2>. HIDE DEF g, Right
  <2>. QED  BY <2>4, <2>5, Zenon
<1>4. N \in S
  <2>. HIDE DEF S
  <2>1. N \in 0..N
    OBVIOUS
  <2>. QED  BY <1>2, <1>3, <2>1, Induction, Zenon
<1>5. PICK f : f = [n \in 0..N |-> Step1(f, n)]
  <2>1. PICK f : DOMAIN f = 0..N /\ f = [i \in DOMAIN f |-> f[i]] /\ Right(f, N)
    BY <1>4, Zenon
  <2>2. \A i \in 0..N : f[i] = Step1(f, i)
    BY <2>1, Zenon
  <2>. HIDE DEF Step1
  <2>3. f = [n \in 0..N |-> Step1(f, n)]
    BY <2>1, <2>2
  <2>. QED  BY <2>3, Zenon
<1>6. \A n \in 0..N : After(members)[n] = Step1(After(members), n)
  <2>. DEFINE F == After(members)
  <2>1. F = [n \in 0..N |-> Step1(F, n)]
    BY <1>5, Zenon DEF After
  <2>. HIDE DEF F, Step1
  <2>2. \A n \in 0..N : F[n] = Step1(F, n)
    BY <2>1
  <2>. QED  BY <2>2, Zenon DEF F
<1>7. 0 \in 0..N /\ \A n \in 1..N : n \in 0..N /\ n # 0
  OBVIOUS
<1>. QED  BY <1>1, <1>6, <1>7, Zenon

\* AVPs with a name that is not there yet mirror their values when they are added.
LEMMA MirrorAdded ==
  ASSUME NEW A, NEW s \in Seq(A), NEW V, NEW values \in Seq(V), NEW name,
         Avps(name, values) \in Seq(A), \A i \in DOMAIN s : s[i].name # name
  PROVE  Mirrors(s \o Avps(name, values), name, values)
<1>. DEFINE t == Avps(name, values)
            u == s \o t
<1>1. Len(s) \in Nat /\ Len(values) \in Nat
  BY LenProperties, Zenon
<1>2. DOMAIN t = 1..Len(values) /\ Len(t) = Len(values)
      /\ \A j \in 1..Len(values) : t[j].name = name /\ t[j].value = values[j]
  BY <1>1 DEF Avps
<1>. HIDE DEF t
<1>3. /\ u \in Seq(A) /\ Len(u) = Len(s) + Len(t) /\ DOMAIN u = 1..Len(u) /\ DOMAIN s = 1..Len(s)
      /\ \A i \in 1..Len(s) : u[i] = s[i]
      /\ \A i \in 1..Len(t) : u[Len(s) + i] = t[i]
  BY DEF t
<1>. HIDE DEF u
<1>4. ASSUME NEW i \in DOMAIN u
      PROVE  u[i].name = name <=> i \in (Len(s) + 1)..(Len(s) + Len(values))
  <2>1. CASE i \in 1..Len(s)
    BY <1>1, <1>3, <2>1
  <2>2. CASE i \notin 1..Len(s)
    <3>1. i - Len(s) \in 1..Len(values) /\ i = Len(s) + (i - Len(s))
      BY <1>1, <1>2, <1>3, <1>4, <2>2
    <3>2. u[i] = t[i - Len(s)]
      BY <1>2, <1>3, <3>1
    <3>. QED  BY <1>1, <1>2, <3>1, <3>2
  <2>. QED  BY <2>1, <2>2, Zenon
<1>5. (Len(s) + 1)..(Len(s) + Len(values)) \subseteq DOMAIN u
  BY <1>1, <1>2, <1>3
<1>6. {i \in DOMAIN u : u[i].name = name} = (Len(s) + 1)..(Len(s) + Len(values))
  BY <1>4, <1>5, Zenon
<1>7. \A j \in 1..Len(values) : u[Len(s) + j].value = values[j]
  BY <1>2, <1>3, Zenon
<1>8. Len(s) \in 0..Len(u)
  BY <1>1, <1>2, <1>3
<1>. QED  BY <1>6, <1>7, <1>8, Zenon DEF Mirrors, u, t

\* AVPs of other names do not disturb a mirror.
LEMMA MirrorKept ==
  ASSUME NEW A, NEW s \in Seq(A), NEW t \in Seq(A), NEW name, NEW values, Len(values) \in Nat,
         Mirrors(s, name, values), \A i \in DOMAIN t : t[i].name # name
  PROVE  Mirrors(s \o t, name, values)
<1>. DEFINE u == s \o t
<1>1. Len(s) \in Nat /\ Len(t) \in Nat
  BY LenProperties, Zenon
<1>2. PICK k \in 0..Len(s) :
        /\ {i \in DOMAIN s : s[i].name = name} = (k + 1)..(k + Len(values))
        /\ \A j \in 1..Len(values) : s[k + j].value = values[j]
  BY Zenon DEF Mirrors
<1>3. /\ u \in Seq(A) /\ Len(u) = Len(s) + Len(t) /\ DOMAIN u = 1..Len(u)
      /\ DOMAIN s = 1..Len(s) /\ DOMAIN t = 1..Len(t)
      /\ \A i \in 1..Len(s) : u[i] = s[i]
      /\ \A i \in 1..Len(t) : u[Len(s) + i] = t[i]
  OBVIOUS
<1>. HIDE DEF u
<1>4. \A i \in (k + 1)..(k + Len(values)) : i \in 1..Len(s) /\ s[i].name = name
  BY <1>2, <1>3, Zenon
<1>5. ASSUME NEW i \in DOMAIN u
      PROVE  u[i].name = name <=> i \in (k + 1)..(k + Len(values))
  <2>1. CASE i \in 1..Len(s)
    BY <1>2, <1>3, <2>1, Zenon
  <2>2. CASE i \notin 1..Len(s)
    <3>1. i - Len(s) \in 1..Len(t) /\ i = Len(s) + (i - Len(s))
      BY <1>1, <1>3, <1>5, <2>2
    <3>2. u[i] = t[i - Len(s)]
      BY <1>3, <3>1
    <3>. QED  BY <1>3, <1>4, <2>2, <3>1, <3>2, Zenon
  <2>. QED  BY <2>1, <2>2, Zenon
<1>6. \A i \in 1..Len(s) : i \in DOMAIN u
  BY <1>1, <1>3
<1>7. {i \in DOMAIN u : u[i].name = name} = (k + 1)..(k + Len(values))
  BY <1>4, <1>5, <1>6, Zenon
<1>8. \A j \in 1..Len(values) : u[k + j].value = values[j]
  <2>. TAKE j \in 1..Len(values)
  <2>1. k + j \in (k + 1)..(k + Len(values))
    BY <1>1
  <2>. QED  BY <1>2, <1>3, <1>4, <2>1, Zenon
<1>9. k \in 0..Len(u)
  BY <1>1, <1>3
<1>. QED  BY <1>7, <1>8, <1>9, Zenon DEF Mirrors, u

\* Ralf's own AVPs are a sequence of AVPs.
LEMMA FixedType ==
  ASSUME NEW V, "Ralf" \in V
  PROVE  Fixed \in Seq(AvpsWith(V))
<1>. DEFINE names == << "Session-Id", "Origin-Host", "Origin-Realm", "Acct-Application-Id",
                        "Destination-Host", "Destination-Realm", "Accounting-Record-Number",
                        "Service-Context-Id" >>
<1>1. DOMAIN names = 1..8 /\ \A i \in 1..8 : names[i] \in AvpNames
  <2>1. DOMAIN names = 1..8
    OBVIOUS
  <2>2. /\ names[1] \in AvpNames /\ names[2] \in AvpNames /\ names[3] \in AvpNames
        /\ names[4] \in AvpNames /\ names[5] \in AvpNames /\ names[6] \in AvpNames
        /\ names[7] \in AvpNames /\ names[8] \in AvpNames
    BY Zenon DEF AvpNames
  <2>3. \A i \in 1..8 : i \in {1, 2, 3, 4, 5, 6, 7, 8}
    OBVIOUS
  <2>. HIDE DEF names
  <2>. QED  BY <2>1, <2>2, <2>3, Zenon
<1>2. Fixed = [i \in DOMAIN names |-> [name |-> names[i], value |-> "Ralf"]]
  BY Zenon DEF Fixed
<1>. HIDE DEF names
<1>3. Fixed \in [1..8 -> AvpsWith(V)]
  BY <1>1, <1>2, Zenon DEF AvpsWith
<1>4. 8 \in Nat
  OBVIOUS
<1>. QED  BY <1>3, <1>4, FunctionIsSeq, Zenon

\* Whatever the other members are, the ACR mirrors a member that has a name of its own
\* and values that all fit.
LEMMA RequestMirrors ==
  ASSUME NEW V, "Ralf" \in V, NEW members \in Seq(MembersWith(V)), NEW i \in DOMAIN members,
         members[i].name \in Known, IsOnly(members, i),
         \A j \in 1..Len(members[i].values) : members[i].values[j] # Unfit
  PROVE  Mirrors(Request(members), members[i].name, members[i].values)
<1>. DEFINE N == Len(members)
            A == AvpsWith(V)
            F == After(members)
            name == members[i].name
            values == members[i].values
            None(s) == \A j \in DOMAIN s : s[j].name # name
            S == {n \in 0..N : /\ F[n] \in Seq(A)
                               /\ n < i => None(F[n])
                               /\ n >= i => Mirrors(F[n], name, values)}
<1>1. N \in Nat /\ DOMAIN members = 1..N /\ i \in 1..N
  OBVIOUS
<1>2. \A n \in 1..N : members[n] \in MembersWith(V)
  BY <1>1
<1>3. values \in Seq(V)
  BY <1>1, <1>2, Zenon DEF MembersWith
<1>4. 0 \in S
  <2>1. F[0] = Fixed
    BY <1>1, RequestRecursion, Zenon
  <2>2. Fixed \in Seq(A) /\ None(Fixed)
    BY FixedType, Zenon DEF IsOnly
  <2>3. 0 \in 0..N /\ 0 < i /\ ~(0 >= i)
    BY <1>1
  <2>. HIDE DEF F, A, None
  <2>. QED  BY <2>1, <2>2, <2>3, Zenon
<1>5. ASSUME NEW n \in 0..(N - 1), n \in S
      PROVE  n + 1 \in S
  <2>. DEFINE t == AvpsOf(members[n + 1])
  <2>1. n + 1 \in 1..N /\ n + 1 \in 0..N /\ (n + 1) - 1 = n
    BY <1>1
  <2>2. F[n + 1] = F[n] \o t
    BY <1>1, <2>1, RequestRecursion
  <2>3. t \in Seq(A) /\ \A j \in DOMAIN t : t[j].name = members[n + 1].name
    BY <1>2, <2>1, AvpsOfMember, Zenon
  <2>4. F[n] \in Seq(A) /\ (n < i => None(F[n])) /\ (n >= i => Mirrors(F[n], name, values))
    BY <1>5, Zenon
  <2>5. Len(values) \in Nat
    BY <1>3, LenProperties, Zenon
  <2>6. n + 1 # i => members[n + 1].name # name
    BY <1>1, <2>1, Zenon DEF IsOnly
  <2>7. F[n + 1] \in Seq(A)
    <3>. HIDE DEF F, t, A
    <3>. QED  BY <2>2, <2>3, <2>4, ConcatProperties, Zenon
  <2>8. CASE n + 1 < i
    <3>1. n < i /\ n + 1 # i /\ ~(n + 1 >= i)
      BY <1>1, <2>8
    <3>2. None(F[n]) /\ None(t)
      BY <2>3, <2>4, <2>6, <3>1, Zenon
    <3>3. None(F[n] \o t)
      <4>. DEFINE s == F[n]
      <4>1. s \in Seq(A)
        BY <2>4, Zenon
      <4>. HIDE DEF F, t, A, name, s
      <4>2. \A j \in DOMAIN (s \o t) : \/ j \in DOMAIN s /\ (s \o t)[j] = s[j]
                                       \/ j - Len(s) \in DOMAIN t /\ (s \o t)[j] = t[j - Len(s)]
        BY <2>3, <4>1
      <4>3. None(s) /\ None(t)
        BY <3>2, Zenon DEF s
      <4>4. None(s \o t)
        BY <4>2, <4>3, Zenon
      <4>. QED  BY <4>4, Zenon DEF s
    <3>. HIDE DEF F, t, A, None
    <3>. QED  BY <2>1, <2>2, <2>7, <3>1, <3>3, Zenon
  <2>9. CASE n + 1 = i
    <3>1. n < i /\ ~(n + 1 < i)
      BY <1>1, <2>9
    <3>2. t = Avps(name, values)
      BY <1>2, <2>1, <2>9, AvpsOfMember, Zenon
    <3>3. None(F[n])
      BY <2>4, <3>1, Zenon
    <3>4. Mirrors(F[n] \o t, name, values)
      <4>. DEFINE s == F[n]
      <4>1. s \in Seq(A) /\ Avps(name, values) \in Seq(A) /\ None(s)
        BY <2>3, <2>4, <3>2, <3>3, Zenon
      <4>. HIDE DEF s, A, name, values
      <4>2. Mirrors(s \o Avps(name, values), name, values)
        BY <1>3, <4>1, MirrorAdded, Zenon
      <4>. QED  BY <3>2, <4>2, Zenon DEF s
    <3>. HIDE DEF F, t, A, None, name, values
    <3>. QED  BY <2>1, <2>2, <2>7, <3>1, <3>4, Zenon
  <2>10. CASE n >= i
    <3>1. n + 1 # i /\ ~(n + 1 < i)
      BY <1>1, <2>10
    <3>2. None(t)
      BY <2>3, <2>6, <3>1, Zenon
    <3>3. Mirrors(F[n] \o t, name, values)
      <4>. DEFINE s == F[n]
      <4>1. s \in Seq(A) /\ Mirrors(s, name, values)
        BY <2>4, <2>10, Zenon
      <4>. HIDE DEF s, t, A, name, values
      <4>2. Mirrors(s \o t, name, values)
        BY <2>3, <2>5, <3>2, <4>1, MirrorKept, Zenon
      <4>. QED  BY <4>2, Zenon DEF s
    <3>. HIDE DEF F, t, A, None, name, values
    <3>. QED  BY <2>1, <2>2, <2>7, <3>1, <3>3, Zenon
  <2>. QED  BY <1>1, <2>8, <2>9, <2>10
<1>6. N \in S
  <2>. HIDE DEF S
  <2>1. N \in 0..N
    BY <1>1
  <2>. QED  BY <1>1, <1>4, <1>5, <2>1, Induction, Zenon
<1>7. N >= i
  BY <1>1
<1>8. Mirrors(F[N], name, values)
  <2>. HIDE DEF F, None
  <2>. QED  BY <1>6, <1>7, Zenon
<1>. QED  BY <1>1, <1>8, RequestRecursion, Zenon

-----------------------------------------------------------------------------
(* The ACR *)

\* The values an AVP can have here.
AvpValues == {Value, Unfit, "Ralf"} \cup Int

\* The event of a body that parse_body accepts is a sequence of members, one of them the
\* record type.
LEMMA EventType ==
  ASSUME NEW b \in Body, b.type \in Int
  PROVE  /\ EventOf(b) \in Seq(MembersWith(AvpValues))
         /\ \E i \in DOMAIN EventOf(b) : EventOf(b)[i] = Member("Accounting-Record-Type", <<b.type>>)
<1>. DEFINE M == MembersWith(AvpValues)
            type == Member("Accounting-Record-Type", <<b.type>>)
            fitting == IF b.interval < 0 THEN Unfit ELSE b.interval
            interval == Member("Acct-Interim-Interval", <<fitting>>)
            info == Member("Service-Information", <<Value>>)
            optional == IF b.interval = Missing THEN <<>> ELSE <<interval>>
<1>1. b.others \in Seq(M)
  <2>1. b.others \in Seq(Members)
    BY Zenon DEF Body
  <2>2. Members \subseteq M
    <3>1. Seq({Value, Unfit}) \subseteq Seq(AvpValues)
      BY DEF AvpValues
    <3>. QED  BY <3>1, Zenon DEF Members, MembersWith, AvpNames
  <2>. HIDE DEF M
  <2>. QED  BY <2>1, <2>2
<1>2. ASSUME NEW name \in AvpNames, NEW value \in AvpValues
      PROVE  Member(name, <<value>>) \in M
  <2>1. <<value>> \in Seq(AvpValues)
    OBVIOUS
  <2>. QED  BY <2>1, Zenon DEF Member, MembersWith
<1>3. type \in M /\ info \in M /\ (b.interval # Missing => interval \in M)
  <2>1. b.type \in AvpValues /\ Value \in AvpValues
    BY Zenon DEF AvpValues
  <2>2. b.interval # Missing => fitting \in AvpValues
    <3>1. b.interval # Missing => b.interval \in Int
      BY BodyAssumption DEF Body
    <3>. QED  BY <3>1, Zenon DEF AvpValues
  <2>3. /\ "Accounting-Record-Type" \in AvpNames /\ "Acct-Interim-Interval" \in AvpNames
        /\ "Service-Information" \in AvpNames
    BY Zenon DEF AvpNames
  <2>. HIDE DEF M, fitting
  <2>. QED  BY <1>2, <2>1, <2>2, <2>3, Zenon
<1>4. EventOf(b) = ((b.others \o <<type>>) \o optional) \o <<info>>
  BY Zenon DEF EventOf
<1>. DEFINE s == b.others
<1>5. optional \in Seq(M) /\ <<type>> \in Seq(M) /\ <<info>> \in Seq(M) /\ s \in Seq(M)
  <2>. HIDE DEF M, type, interval, info
  <2>. QED  BY <1>1, <1>3
<1>. HIDE DEF M, type, info, optional, s
<1>6. ((s \o <<type>>) \o optional) \o <<info>> \in Seq(M)
  BY <1>5, ConcatProperties, Zenon
<1>7. /\ Len(s) + 1 \in DOMAIN (((s \o <<type>>) \o optional) \o <<info>>)
      /\ (((s \o <<type>>) \o optional) \o <<info>>)[Len(s) + 1] = type
  <2>1. s \o <<type>> \in Seq(M) /\ Len(s \o <<type>>) = Len(s) + 1
        /\ (s \o <<type>>)[Len(s) + 1] = type /\ Len(s) \in Nat
    BY <1>5
  <2>2. ASSUME NEW t \in Seq(M), NEW u \in Seq(M), NEW i \in 1..Len(t)
        PROVE  t \o u \in Seq(M) /\ i \in 1..Len(t \o u) /\ (t \o u)[i] = t[i]
               /\ DOMAIN (t \o u) = 1..Len(t \o u)
    OBVIOUS
  <2>3. Len(s) + 1 \in 1..Len(s \o <<type>>)
    BY <2>1
  <2>. DEFINE t == s \o <<type>>
  <2>4. t \in Seq(M) /\ Len(s) + 1 \in 1..Len(t) /\ t[Len(s) + 1] = type
    BY <2>1, <2>3, Zenon
  <2>. HIDE DEF t
  <2>5. t \o optional \in Seq(M) /\ Len(s) + 1 \in 1..Len(t \o optional)
        /\ (t \o optional)[Len(s) + 1] = type
    BY <1>5, <2>2, <2>4, Zenon
  <2>. DEFINE u == t \o optional
  <2>6. u \in Seq(M) /\ Len(s) + 1 \in 1..Len(u) /\ u[Len(s) + 1] = type
    BY <2>5, Zenon
  <2>. HIDE DEF u
  <2>7. Len(s) + 1 \in DOMAIN (u \o <<info>>) /\ (u \o <<info>>)[Len(s) + 1] = type
    <3>1. /\ Len(s) + 1 \in 1..Len(u \o <<info>>)
          /\ (u \o <<info>>)[Len(s) + 1] = u[Len(s) + 1]
          /\ DOMAIN (u \o <<info>>) = 1..Len(u \o <<info>>)
      BY <1>5, <2>2, <2>6, Zenon
    <3>. QED  BY <2>6, <3>1, Zenon
  <2>. QED  BY <2>7, Zenon DEF t, u
<1>8. EventOf(b) = ((s \o <<type>>) \o optional) \o <<info>>
  BY <1>4, Zenon DEF s
<1>. QED  BY <1>6, <1>7, <1>8, Zenon DEF M, type

\* The ACR of a request that was sent is the one made of its body, until its end.
AcrOfBody ==
  /\ DOMAIN acr = Msgs
  /\ \A m \in Msgs : phase[m] # "idle" => acr[m] = Request(EventOf(req[m].body))

\* No ACR has been sent at first.
LEMMA AcrStart == Init => AcrOfBody
BY Zenon DEF Init, Delivery!Init, AcrOfBody

\* handle() makes the ACR when it sends it, and no step changes it later.
LEMMA AcrKept == TaskInv /\ AcrOfBody /\ [Next]_vars => AcrOfBody'
<1>. SUFFICES ASSUME TaskInv, AcrOfBody, [Next]_vars PROVE AcrOfBody'
  BY Zenon
<1>0. DOMAIN acr' = Msgs
  BY Zenon DEF AcrOfBody, Next, Step, Run, HandleIgnores, HandleSends, Reply, Answered, Rest, vars
<1>. SUFFICES ASSUME NEW n \in Msgs, phase'[n] # "idle"
              PROVE  acr'[n] = Request(EventOf(req'[n].body))
  BY <1>0, Zenon DEF AcrOfBody
<1>1. ASSUME phase[n] # "idle", acr'[n] = acr[n], req'[n] = req[n]
      PROVE  acr'[n] = Request(EventOf(req'[n].body))
  BY <1>1, Zenon DEF AcrOfBody
<1>2. CASE UNCHANGED vars
  BY <1>1, <1>2, Zenon DEF vars
<1>3. ASSUME NEW m \in Msgs, Step(m)
      PROVE  acr'[n] = Request(EventOf(req'[n].body))
  <2>1. CASE n # m
    BY <1>1, <1>3, <2>1, OthersKept, Zenon
  <2>2. CASE n = m /\ (Run(m) \/ HandleIgnores(m) \/ Reply(m))
    BY <1>1, <2>2, Zenon DEF Run, HandleIgnores, Reply
  <2>3. CASE n = m /\ HandleSends(m)
    <3>1. acr' = [acr EXCEPT ![m] = Request(EventOf(req[m].body))] /\ req' = req
      BY <2>3, Zenon DEF HandleSends
    <3>2. m \in DOMAIN acr
      BY Zenon DEF AcrOfBody
    <3>. QED  BY <2>3, <3>1, <3>2, Zenon
  <2>4. CASE n = m /\ Answered(m)
    BY <1>1, <2>4, Zenon DEF Answered, Delivery!Answer
  <2>. QED  BY <1>3, <2>1, <2>2, <2>3, <2>4, Zenon DEF Step
<1>. QED  BY <1>2, <1>3, Zenon DEF Next, Rest

-----------------------------------------------------------------------------
(* What follows from it *)

\* Tasks, requests, messages, replies and ACRs keep their types; parse_body only
\* makes messages of a valid record type and a list of strings.
THEOREM TypeCorrect == Spec => []TypeOK
<1>1. TaskInv => TypeOK
  BY Zenon DEF TaskInv
<1>. QED  BY <1>1, TaskInvariant, PTL

\* However the HTTP thread and the Diameter thread interleave, each finds the
\* objects it uses and none is left when both are through.
THEOREM ObjectsOwned == Spec => []ObjectsAreOwned
<1>1. TaskInv => ObjectsAreOwned
  <2>. SUFFICES ASSUME TaskInv, NEW m \in Msgs
                PROVE  /\ task[m] # "gone" => "task" \in live[m]
                       /\ task[m] = "handle" => {"msg", "body"} \subseteq live[m]
                       /\ phase[m] = "wait" => {"msg", "body", "sender"} \subseteq live[m]
                       /\ Over(m) => live[m] = {}
    BY Zenon DEF ObjectsAreOwned
  <2>1. Owned(m) /\ live[m] \subseteq {"task", "body", "msg", "sender"}
    BY DEF TaskInv, TypeOK
  <2>. QED  BY <2>1, Zenon DEF Owned, Over
<1>. QED  BY <1>1, TaskInvariant, PTL

\* An ACR always has a first CCF to go to.
THEOREM CcfThere == Spec => []AcrHasCcf
<1>1. TaskInv => AcrHasCcf
  BY Zenon DEF TaskInv, AcrHasCcf, Progress
<1>. QED  BY <1>1, TaskInvariant, PTL

\* run() takes the requests that docs/API.md describes, answers them 200 and bills
\* the first of a session; it bills no other, and rejects what lacks a member that
\* docs/API.md requires.
THEOREM ApiKept == Spec => []ApiIsKept
<1>1. TaskInv => ApiIsKept
  <2>. SUFFICES ASSUME TaskInv, NEW m \in Msgs, task[m] = "gone", req[m].post
                PROVE  IF ApiAccepts(req[m].body)
                       THEN /\ reply[m] = <<200>>
                            /\ IsFirst(req[m].body.type) => phase[m] # "idle"
                       ELSE /\ phase[m] = "idle"
                            /\ ~ApiRequires(req[m].body) => reply[m] = <<400>>
    BY Zenon DEF ApiIsKept
  <2>1. /\ Progress(m) /\ Replied(m)
        /\ req[m].body \in Body /\ req[m].timer_interim \in BOOLEAN
    BY DEF TaskInv, TypeOK
  <2>2. CASE ApiAccepts(req[m].body)
    <3>1. msg[m] # NoMessage
      BY <2>1, <2>2, ParseAccepts, MessageAssumption, Zenon DEF Replied, Made
    <3>2. msg[m].type = req[m].body.type
      BY <2>1, <2>2, <3>1, ParseAccepts, Zenon DEF Progress, FromBody, Made
    <3>. QED  BY <2>1, <2>2, <3>1, <3>2, Zenon DEF Progress, Replied
  <2>3. CASE ~ApiAccepts(req[m].body)
    <3>1. Made(m).msg = NoMessage /\ (~ApiRequires(req[m].body) => Made(m).rc = 400)
      BY <2>1, <2>3, ParseAccepts DEF Made
    <3>2. msg[m] = NoMessage
      BY <2>1, <3>1, Zenon DEF Progress, FromBody
    <3>. QED  BY <2>1, <2>3, <3>1, <3>2, Zenon DEF Progress, Replied
  <2>. QED  BY <2>2, <2>3, Zenon
<1>. QED  BY <1>1, TaskInvariant, PTL

\* What SessionManager leaves with Chronos, the callback URI and the opaque data, comes
\* back as an INTERIM with the mark of the timer, for which SessionManager sets no
\* timer, and nothing else has that mark.
THEOREM TimerPopsTaken == Spec => []TimerPopsAreInterims
<1>1. TaskInv => TimerPopsAreInterims
  <2>. SUFFICES ASSUME TaskInv, NEW m \in Msgs
                PROVE  /\ req[m] = TimerRequest /\ task[m] # "new" =>
                            /\ reply[m] \in {<<>>, <<200>>}
                            /\ msg[m].type = 3 /\ msg[m].timer_interim
                       /\ msg[m] # NoMessage /\ msg[m].timer_interim => req[m].timer_interim
    BY Zenon DEF TimerPopsAreInterims
  <2>1. /\ Progress(m) /\ Replied(m) /\ req[m].body \in Body
        /\ task[m] \in {"new", "handle", "reply", "gone"}
    BY DEF TaskInv, TypeOK
  <2>2. ASSUME req[m] = TimerRequest, task[m] # "new"
        PROVE  reply[m] \in {<<>>, <<200>>} /\ msg[m].type = 3 /\ msg[m].timer_interim
    <3>1. req[m].post /\ req[m].timer_interim = TRUE /\ req[m].body = CreateOpaqueData
      BY <2>2 DEF TimerRequest
    <3>2. ApiAccepts(req[m].body) /\ req[m].body.type = 3
      BY <3>1, AbsentAssumption DEF CreateOpaqueData, ApiAccepts, ApiRequires
    <3>3. Made(m).msg \in Message /\ Made(m).msg.type = 3
      BY <2>1, <3>1, <3>2, ParseAccepts, Zenon DEF Made
    <3>4. msg[m] # NoMessage
      BY <2>1, <2>2, <3>1, <3>3, MessageAssumption, Zenon DEF Progress, Replied
    <3>. QED  BY <2>1, <3>1, <3>3, <3>4, Zenon DEF Progress, FromBody, Replied
  <2>3. msg[m] # NoMessage /\ msg[m].timer_interim => req[m].timer_interim
    BY <2>1, Zenon DEF Progress, FromBody
  <2>. QED  BY <2>2, <2>3, Zenon
<1>. QED  BY <1>1, TaskInvariant, PTL

\* However many members an event has, and whichever of them cannot be mapped, the ACR has
\* exactly the values of each member that fits, in order, and the record type that
\* handle() acted on.
THEOREM AcrsMirrorEvents == Spec => []AcrMirrorsEvent
<1>1. TaskInv /\ AcrOfBody => AcrMirrorsEvent
  <2>. SUFFICES ASSUME TaskInv, AcrOfBody, NEW m \in Msgs, phase[m] # "idle",
                       NEW i \in DOMAIN EventOf(req[m].body),
                       EventOf(req[m].body)[i].name \in Known, IsOnly(EventOf(req[m].body), i)
                PROVE  LET event == EventOf(req[m].body)
                       IN /\ (\A j \in 1..Len(event[i].values) : event[i].values[j] # Unfit) =>
                               Mirrors(acr[m], event[i].name, event[i].values)
                          /\ event[i].name = "Accounting-Record-Type" =>
                               Mirrors(acr[m], event[i].name, <<msg[m].type>>)
    BY Zenon DEF AcrMirrorsEvent
  <2>. DEFINE b == req[m].body
              event == EventOf(b)
  <2>1. Progress(m) /\ b \in Body /\ req[m].timer_interim \in BOOLEAN
    BY Zenon DEF TaskInv, TypeOK
  <2>2. FromBody(m)
    BY <2>1, Zenon DEF Progress
  <2>3. ApiAccepts(b) /\ msg[m].type = b.type
    BY <2>1, <2>2, ParseAccepts, Zenon DEF FromBody, Made
  <2>4. b.type \in Int
    BY <2>3 DEF ApiAccepts
  <2>5. /\ event \in Seq(MembersWith(AvpValues))
        /\ \E j \in DOMAIN event : event[j] = Member("Accounting-Record-Type", <<b.type>>)
    <3>. HIDE DEF b
    <3>. QED  BY <2>1, <2>4, EventType, Zenon
  <2>6. acr[m] = Request(event) /\ "Ralf" \in AvpValues
    BY Zenon DEF AcrOfBody, AvpValues
  <2>7. ASSUME \A j \in 1..Len(event[i].values) : event[i].values[j] # Unfit
        PROVE  Mirrors(acr[m], event[i].name, event[i].values)
    <3>1. i \in DOMAIN event /\ event[i].name \in Known /\ IsOnly(event, i)
      BY Zenon
    <3>. HIDE DEF event
    <3>2. Mirrors(Request(event), event[i].name, event[i].values)
      BY <2>5, <2>6, <2>7, <3>1, RequestMirrors, Zenon
    <3>. QED  BY <2>6, <3>2, Zenon
  <2>8. ASSUME event[i].name = "Accounting-Record-Type"
        PROVE  Mirrors(acr[m], event[i].name, <<msg[m].type>>)
    <3>1. PICK j \in DOMAIN event : event[j] = Member("Accounting-Record-Type", <<b.type>>)
      BY <2>5, Zenon
    <3>2. event[j].name = event[i].name
      BY <2>8, <3>1 DEF Member
    <3>3. event[i] = Member("Accounting-Record-Type", <<b.type>>)
      BY <3>1, <3>2, Zenon DEF IsOnly
    <3>4. event[i].values = <<msg[m].type>>
      BY <2>3, <3>3 DEF Member
    <3>5. \A k \in 1..Len(<<msg[m].type>>) : <<msg[m].type>>[k] # Unfit
      <4>1. msg[m].type # Unfit
        BY <2>3, <2>4, AbsentAssumption, Zenon
      <4>. QED  BY <4>1
    <3>. HIDE DEF event
    <3>. QED  BY <2>7, <3>4, <3>5, Zenon
  <2>. QED  BY <2>7, <2>8, Zenon
<1>. QED  BY <1>1, AcrStart, AcrKept, TaskInvariant, PTL DEF Spec

\* The task uses a sender as AcrDelivery allows: it gives it a message once, and is
\* called back once.
THEOREM UsesDelivery == Spec => Delivery!Safety
<1>1. Init => Delivery!Init
  BY Zenon DEF Init
<1>2. [Next]_vars => [Delivery!Next]_<<phase, code>>
  BY Zenon DEF Next, Step, Run, HandleIgnores, HandleSends, Reply, Answered, Rest, vars,
         Delivery!Next
<1>. QED  BY <1>1, <1>2, PTL DEF Spec, Delivery!Safety
=============================================================================
