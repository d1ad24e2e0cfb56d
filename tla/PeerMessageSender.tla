------------------------- MODULE PeerMessageSender -------------------------
(***************************************************************************)
(* PeerMessageSender (src/peer_message_sender.cpp), RalfTransaction        *)
(* (src/ralf_transaction.cpp) and the Session-Id of Rf::AccountingRequest  *)
(* (src/rf.cpp): the ACRs of one call on their way to the CCFs of its      *)
(* list, with failover, for several requests at once.  The session is what *)
(* SessionManager keeps of it between the requests.                        *)
(*                                                                         *)
(* External, modelled from their use here: the Diameter stack, which gives *)
(* a transaction one answer or one timeout, the network, and the CCFs.     *)
(***************************************************************************)
EXTENDS Naturals, Sequences, FiniteSets

CONSTANTS
  Msgs,      \* requests; bounds their number
  Ccfs,      \* CCFs
  CcfLists,  \* values of the peers.ccf list of a START or EVENT
  Down,      \* CCFs the Diameter stack may have no route to
  NoSession  \* no session is stored

ASSUME CcfAssumption ==
  /\ CcfLists \subseteq Seq(Ccfs) \ {<<>>}
  /\ Down \subseteq Ccfs

RecordTypes == {"EVENT", "START", "INTERIM", "STOP"}
ResultCodes == {"SUCCESS", "UNKNOWN_SESSION_ID", "OTHER", "UNABLE_TO_DELIVER"}

\* The Session-Id that add_new_session_id makes for attempt i of request m.
SessionIds == Msgs \X (Nat \ {0})
NoId       == <<>>

VARIABLES
  pc,       \* pc[m]: "idle", "out" while a transaction is open, "respond" in
            \* on_ccf_response, "done" when message and sender are deleted
  type,     \* type[m]: record_type of the message
  ccfs,     \* ccfs[m]: _ccfs of the sender
  asked,    \* asked[m]: session_id of the message, NoId for a new session
  which,    \* which[m]: _which of the sender, counted from 1
  answers,  \* answers on their way back: [msg, which, code, session_id]
  network,  \* ACRs on their way: [msg, which, ccf, session_id]
  result,   \* result[m]: arguments of on_ccf_response
  open,     \* open[c]: the sessions CCF c has open
  session   \* the stored session: its ccf list and session_id

requests == <<pc, type, ccfs, asked, which, result>>
vars     == <<requests, answers, network, open, session>>

Result  == [code : ResultCodes \cup {"none"}, session_id : SessionIds \cup {NoId}]
Session == [ccf : Seq(Ccfs) \ {<<>>}, session_id : SessionIds]

\* The Session-Id AVP of the ACR: a new one for every ACR that is built for a
\* message without a session.
SessionIdOf(m, id, i) == IF id = NoId THEN <<m, i>> ELSE id

\* int_send_msg: an ACR to the CCF number i of the list, in a new transaction.
IntSendMsg(m, id, list, i) ==
  /\ which' = [which EXCEPT ![m] = i]
  /\ network' = network \cup {[ msg |-> m, which |-> i, ccf |-> list[i],
                                session_id |-> SessionIdOf(m, id, i) ]}

\* send: handle() gives the message to a new sender.
Send(m, t, list, id) ==
  /\ pc[m] = "idle"
  /\ pc' = [pc EXCEPT ![m] = "out"]
  /\ type' = [type EXCEPT ![m] = t]
  /\ ccfs' = [ccfs EXCEPT ![m] = list]
  /\ asked' = [asked EXCEPT ![m] = id]
  /\ IntSendMsg(m, id, list, 1)
  /\ UNCHANGED <<answers, result, open>>

\* START and EVENT have the list of the request.
SendFirst(m) ==
  /\ \E t \in {"START", "EVENT"}, list \in CcfLists : Send(m, t, list, NoId)
  /\ UNCHANGED session

\* INTERIM and STOP have the list and the Session-Id of the stored session; a
\* STOP has removed it.
SendLater(m) ==
  /\ session # NoSession
  /\ \E t \in {"INTERIM", "STOP"} :
       /\ Send(m, t, session.ccf, session.session_id)
       /\ session' = IF t = "STOP" THEN NoSession ELSE session

-----------------------------------------------------------------------------
(* The network and the CCFs *)

\* A transaction is open as long as its sender waits for it.
IsOpen(a) == pc[a.msg] = "out" /\ which[a.msg] = a.which

\* What CCF a.ccf makes of the ACR: it opens, keeps or closes the session, or
\* knows none; or it fails and leaves the session alone.
Verdict(a) ==
  CASE type[a.msg] \in {"START", "EVENT"} -> "SUCCESS"
    [] a.session_id \in open[a.ccf]      -> "SUCCESS"
    [] OTHER                             -> "UNKNOWN_SESSION_ID"

Billed(a) ==
  CASE type[a.msg] = "START" -> open[a.ccf] \cup {a.session_id}
    [] type[a.msg] = "STOP"  -> open[a.ccf] \ {a.session_id}
    [] OTHER                 -> open[a.ccf]

\* The CCF answers, however late the ACR reaches it, if it does; the answer to a
\* transaction that has timed out is dropped.
CcfAnswers(a) ==
  /\ network' = network \ {a}
  /\ \E c \in {Verdict(a), "OTHER"} :
       /\ open' = IF c = "SUCCESS" THEN [open EXCEPT ![a.ccf] = Billed(a)] ELSE open
       /\ answers' = IF IsOpen(a)
                     THEN answers \cup {[ msg |-> a.msg, code |-> c,
                                          session_id |-> a.session_id ]}
                     ELSE answers
  /\ UNCHANGED <<requests, session>>

\* The stack has no route to the CCF.
NoRoute(a) ==
  /\ a.ccf \in Down
  /\ IsOpen(a)
  /\ network' = network \ {a}
  /\ answers' = answers \cup {[ msg |-> a.msg, code |-> "UNABLE_TO_DELIVER",
                                session_id |-> a.session_id ]}
  /\ UNCHANGED <<requests, open, session>>

-----------------------------------------------------------------------------
(* The callbacks *)

Respond(m, c, id) ==
  /\ pc' = [pc EXCEPT ![m] = "respond"]
  /\ result' = [result EXCEPT ![m] = [code |-> c, session_id |-> id]]
  /\ UNCHANGED which

\* Mutant: the list counts as used up one CCF early.
SendCbEndsEarly(m, c, id) ==
  IF c # "UNABLE_TO_DELIVER"
  THEN Respond(m, c, id) /\ UNCHANGED network
  ELSE IF which[m] + 1 < Len(ccfs[m])
  THEN IntSendMsg(m, asked[m], ccfs[m], which[m] + 1) /\ UNCHANGED <<pc, result>>
  ELSE Respond(m, c, NoId) /\ UNCHANGED network

\* Mutant: the list never counts as used up.
SendCbNoEnd(m, c, id) ==
  IF c # "UNABLE_TO_DELIVER"
  THEN Respond(m, c, id) /\ UNCHANGED network
  ELSE IntSendMsg(m, asked[m], ccfs[m] \o <<ccfs[m][1]>>, which[m] + 1) /\ UNCHANGED <<pc, result>>

\* Mutant: the session gets the id of the first ACR, not of the one answered.
SendCbFirstId(m, c, id) ==
  IF c # "UNABLE_TO_DELIVER"
  THEN Respond(m, c, SessionIdOf(m, asked[m], 1)) /\ UNCHANGED network
  ELSE IF which[m] < Len(ccfs[m])
  THEN IntSendMsg(m, asked[m], ccfs[m], which[m] + 1) /\ UNCHANGED <<pc, result>>
  ELSE Respond(m, c, NoId) /\ UNCHANGED network

\* Mutant: after the last CCF nobody is told.
SendCbSilent(m, c, id) ==
  IF c # "UNABLE_TO_DELIVER"
  THEN Respond(m, c, id) /\ UNCHANGED network
  ELSE IF which[m] < Len(ccfs[m])
  THEN IntSendMsg(m, asked[m], ccfs[m], which[m] + 1) /\ UNCHANGED <<pc, result>>
  ELSE UNCHANGED <<pc, which, result, network>>

\* send_cb: the next CCF if this one could not be reached and there is one,
\* otherwise on_ccf_response.
SendCb(m, c, id) ==
  IF c # "UNABLE_TO_DELIVER"
  THEN Respond(m, c, id) /\ UNCHANGED network
  ELSE IF which[m] < Len(ccfs[m])
  THEN IntSendMsg(m, asked[m], ccfs[m], which[m] + 1) /\ UNCHANGED <<pc, result>>
  ELSE Respond(m, c, NoId) /\ UNCHANGED network

\* RalfTransaction::on_response.  An answer without a Result-Code counts as 0, one of
\* the OTHER codes.  Every answer has the Session-Id, which RFC 6733 makes its first AVP.
OnResponse(m) ==
  /\ pc[m] = "out"
  /\ \E r \in answers :
       /\ r.msg = m
       /\ answers' = answers \ {r}
       /\ SendCb(m, r.code, r.session_id)
  /\ UNCHANGED <<type, ccfs, asked, open, session>>

\* RalfTransaction::on_timeout, with the ACR or its answer still on the way.
OnTimeout(m) ==
  /\ pc[m] = "out"
  /\ answers' = {r \in answers : r.msg # m}
  /\ SendCb(m, "UNABLE_TO_DELIVER", NoId)
  /\ UNCHANGED <<type, ccfs, asked, open, session>>

\* What on_ccf_response does to the stored session; then the message and the
\* sender are deleted.
OnCcfResponse(m) ==
  /\ pc[m] = "respond"
  /\ pc' = [pc EXCEPT ![m] = "done"]
  /\ session' =
       CASE /\ type[m] = "START"
            /\ result[m].code = "SUCCESS"
            /\ session = NoSession ->
              [ccf |-> ccfs[m], session_id |-> result[m].session_id]
         [] type[m] = "INTERIM" /\ result[m].code = "UNKNOWN_SESSION_ID" -> NoSession
         [] OTHER -> session
  /\ UNCHANGED <<type, ccfs, asked, which, result, answers, network, open>>

-----------------------------------------------------------------------------
Init ==
  /\ pc = [m \in Msgs |-> "idle"]
  /\ type = [m \in Msgs |-> "EVENT"]
  /\ ccfs = [m \in Msgs |-> <<>>]
  /\ asked = [m \in Msgs |-> NoId]
  /\ which = [m \in Msgs |-> 1]
  /\ answers = {}
  /\ network = {}
  /\ result = [m \in Msgs |-> [code |-> "none", session_id |-> NoId]]
  /\ open = [c \in Ccfs |-> {}]
  /\ session = NoSession

Callback(m) == OnResponse(m) \/ OnTimeout(m) \/ OnCcfResponse(m)

\* All requests of the instance are answered.
Rest ==
  /\ \A m \in Msgs : pc[m] = "done"
  /\ UNCHANGED vars

Next ==
  \/ \E m \in Msgs : SendFirst(m) \/ SendLater(m) \/ Callback(m)
  \/ \E a \in network : CcfAnswers(a) \/ NoRoute(a)
  \/ Rest

Spec == Init /\ [][Next]_vars

\* The stack answers or times out every transaction, and callbacks run on.
FairSpec == Spec /\ \A m \in Msgs : WF_vars(Callback(m))

-----------------------------------------------------------------------------
(* Properties *)

\* Requests, messages under way, CCFs and the stored session have their types,
\* and _which stays within the list.
TypeOK ==
  /\ pc \in [Msgs -> {"idle", "out", "respond", "done"}]
  /\ type \in [Msgs -> RecordTypes]
  /\ ccfs \in [Msgs -> Seq(Ccfs)]
  /\ asked \in [Msgs -> SessionIds \cup {NoId}]
  /\ which \in [Msgs -> Nat \ {0}]
  /\ answers \subseteq [msg : Msgs, code : ResultCodes, session_id : SessionIds]
  /\ network \subseteq [msg : Msgs, which : Nat \ {0}, ccf : Ccfs, session_id : SessionIds]
  /\ result \in [Msgs -> Result]
  /\ open \in [Ccfs -> SUBSET SessionIds]
  /\ session \in Session \cup {NoSession}
  /\ \A m \in Msgs : pc[m] # "idle" => which[m] <= Len(ccfs[m])

\* The stored Session-Id is one that a CCF of the stored list has open: after a
\* failover it is the id of the ACR that was answered, not of one before it.
SessionIsOpen ==
  session # NoSession =>
    \E i \in 1..Len(session.ccf) : session.session_id \in open[session.ccf[i]]

\* Delivery is given up only when the last CCF of the list has failed.
GivesUpLast ==
  \A m \in Msgs : result[m].code = "UNABLE_TO_DELIVER" => which[m] = Len(ccfs[m])

\* Failover keeps the promise to SessionManager: one call of on_ccf_response for
\* every message, whatever is lost, late or refused.
Abstract == INSTANCE AcrDelivery WITH
  phase <- [m \in Msgs |-> CASE pc[m] = "idle" -> "idle"
                             [] pc[m] = "out"  -> "wait"
                             [] OTHER          -> "answered"],
  code  <- [m \in Msgs |-> result[m].code]

Delivers == Abstract!Spec

\* src/session_manager.cpp, on_ccf_response: "5002 means the CDF has no record of
\* this session. It's pointless to send any more messages - delete the session
\* from the store."  When that deletes the session no CCF of its list has it.
DeletedSessionIsUnknown ==
  [][\A m \in Msgs :
       /\ pc[m] = "respond"
       /\ pc'[m] = "done"
       /\ session # NoSession
       /\ session' = NoSession
       => \A i \in 1..Len(session.ccf) :
            session.session_id \notin open[session.ccf[i]]]_vars
=============================================================================
