----------------------------- MODULE BillingTask -----------------------------
(***************************************************************************)
(* BillingTask (src/handlers.cpp): an HTTP request from Sprout or Chronos, *)
(* the Message made of its body, and who deletes the objects.  The HTTP    *)
(* thread that runs the task and the Diameter thread that answers the ACR  *)
(* run concurrently once handle() has sent it.  SessionManager is reduced  *)
(* to its ways out, and delivery to what AcrDelivery promises; the ACR is  *)
(* the one that AccountingRequest makes of the body.                       *)
(***************************************************************************)
EXTENDS AccountingRequest, Integers

CONSTANTS
  Msgs,       \* requests
  Ccfs,       \* strings in a peers.ccf list
  NotString,  \* any other element of such a list
  Missing,    \* a member that is absent or of another JSON type
  Bodies,     \* the bodies requests may have
  Value,      \* a value of a further member of an event
  Half,       \* 2^31: the values of an int are -Half..Half - 1
  NoMessage   \* a NULL Message

Members == [name : STRING, values : Seq({Value, Unfit})]

\* A request body, as far as parse_body looks at it.
Body == [ event    : BOOLEAN,                 \* an object with an object "event"
          ims      : BOOLEAN,                 \* its Service-Information.IMS-Information
          role     : BOOLEAN,                 \* Role-Of-Node
          function : BOOLEAN,                 \* Node-Functionality
          type     : Int \cup {Missing},      \* Accounting-Record-Type
          interval : (-Half)..(Half - 1) \cup {Missing},  \* Acct-Interim-Interval
          peers    : BOOLEAN,                 \* an object "peers"
          ccf      : Seq(Ccfs \cup {NotString}) \cup {Missing},
          others   : Seq(Members) ]           \* further members of "event"

ASSUME BodyAssumption == Half \in Nat \ {0} /\ Bodies \subseteq Body

\* What stands for an absent value is none.
ASSUME AbsentAssumption ==
  /\ Missing \notin Int
  /\ Missing \notin Seq(Ccfs \cup {NotString})
  /\ NotString \notin Ccfs
  /\ Unfit \notin Int

\* Mutant: one type too many.
IsValidFive(type) == type <= 5 /\ type >= 1

\* Rf::AccountingRecordType.
IsValid(type) == type <= 4 /\ type >= 1
IsFirst(type) == type = 1 \/ type = 2
IsLater(type) == type = 3 \/ type = 4

Message == [type : 1..4, refresh : 0..(2 * Half - 1), ccfs : Seq(Ccfs), timer_interim : BOOLEAN]

ASSUME MessageAssumption == NoMessage \notin Message

\* What parse_body returns: the HTTP code, *msg, and whether it deleted the body.
Rejected == [rc |-> 400, msg |-> NoMessage, deleted |-> TRUE]

\* session_refresh_time is a uint32_t; the value of the member is an int.
RefreshTime(interval) ==
  IF interval = Missing THEN 0
  ELSE IF interval < 0 THEN interval + 2 * Half ELSE interval

\* The message owns the body.
Parsed(b, list, timer_interim) ==
  [ rc      |-> 200,
    msg     |-> [ type |-> b.type, refresh |-> RefreshTime(b.interval), ccfs |-> list,
                  timer_interim |-> timer_interim ],
    deleted |-> FALSE ]

\* Mutant: the body is not deleted.
NoPeersKept == [rc |-> 200, msg |-> NoMessage, deleted |-> FALSE]

\* A START or EVENT without "peers" is no error, but there is nobody to bill.
NoPeers == [rc |-> 200, msg |-> NoMessage, deleted |-> TRUE]

\* Mutant: an empty list is let through.
GoodCcfsOrNone(list) ==
  /\ list # Missing
  /\ \A i \in 1..Len(list) : list[i] # NotString

\* Mutant: elements are not checked.
GoodCcfsUnchecked(list) == list # Missing /\ list # <<>>

\* A START or EVENT needs a list of strings, not an empty one.
GoodCcfs(list) ==
  /\ list # Missing
  /\ list # <<>>
  /\ \A i \in 1..Len(list) : list[i] # NotString

ParseBody(b, timer_interim) ==
  IF ~b.event \/ ~b.ims \/ ~b.role \/ ~b.function \/ b.type = Missing THEN Rejected
  ELSE IF ~IsValid(b.type) THEN Rejected
  ELSE IF IsLater(b.type) THEN Parsed(b, <<>>, timer_interim)
  ELSE IF ~b.peers THEN NoPeers
  ELSE IF GoodCcfs(b.ccf) THEN Parsed(b, b.ccf, timer_interim)
  ELSE Rejected

\* Mutant: Node-Functionality is left out.
CreateOpaqueDataShort ==
  [ event |-> TRUE, ims |-> TRUE, role |-> TRUE, function |-> FALSE, type |-> 3,
    interval |-> Missing, peers |-> FALSE, ccf |-> Missing, others |-> <<>> ]

\* SessionManager::create_opaque_data: the body Chronos posts when a timer pops.
CreateOpaqueData ==
  [ event |-> TRUE, ims |-> TRUE, role |-> TRUE, function |-> TRUE, type |-> 3,
    interval |-> Missing, peers |-> FALSE, ccf |-> Missing, others |-> <<>> ]

\* The request Chronos makes of the callback URI "/call-id/...?timer-interim=true" and
\* of the opaque data, both given to it with the timer.
TimerRequest == [post |-> TRUE, timer_interim |-> TRUE, body |-> CreateOpaqueData]

\* The members of "event" in a body that parse_body accepts.  No negative number fits
\* an AVP of type Unsigned32.
EventOf(b) ==
  b.others
  \o << Member("Accounting-Record-Type", <<b.type>>) >>
  \o (IF b.interval = Missing THEN <<>>
      ELSE << Member("Acct-Interim-Interval", <<IF b.interval < 0 THEN Unfit ELSE b.interval>>) >>)
  \o << Member("Service-Information", <<Value>>) >>

VARIABLES
  task,   \* task[m]: "new", "handle", "reply", "gone"
  req,    \* req[m]: whether it is a POST with timer-interim=true, and its body
  msg,    \* msg[m]: the Message made of it
  live,   \* live[m]: the objects that are allocated
  reply,  \* reply[m]: status codes of the HTTP replies
  acr,    \* acr[m]: the AVPs of the ACR
  phase,  \* phase[m], code[m]: the ACR, see AcrDelivery
  code

vars == <<task, req, msg, live, reply, acr, phase, code>>

ResultCodes == {"SUCCESS", "UNKNOWN_SESSION_ID", "OTHER", "UNABLE_TO_DELIVER"}
Delivery == INSTANCE AcrDelivery

-----------------------------------------------------------------------------
\* run() up to the call of handle().  Whatever is not given to handle() is
\* answered at once, and the task deletes itself.
Run(m) ==
  /\ task[m] = "new"
  /\ LET parsed == IF req[m].post THEN ParseBody(req[m].body, req[m].timer_interim)
                   ELSE [Rejected EXCEPT !.rc = 405]
         body   == IF parsed.deleted THEN {} ELSE {"body"}
     IN IF parsed.msg = NoMessage
        THEN /\ task' = [task EXCEPT ![m] = "gone"]
             /\ live' = [live EXCEPT ![m] = (@ \ {"task"}) \cup body]
             /\ reply' = [reply EXCEPT ![m] = Append(@, parsed.rc)]
             /\ UNCHANGED msg
        ELSE /\ task' = [task EXCEPT ![m] = "handle"]
             /\ msg' = [msg EXCEPT ![m] = parsed.msg]
             /\ live' = [live EXCEPT ![m] = @ \cup {"msg"} \cup body]
             /\ UNCHANGED reply
  /\ UNCHANGED <<req, acr, phase, code>>

\* Mutant: the message is not deleted.
HandleIgnoresLeaking(m) ==
  /\ task[m] = "handle"
  /\ IsLater(msg[m].type)
  /\ task' = [task EXCEPT ![m] = "reply"]
  /\ UNCHANGED <<req, msg, live, reply, acr, phase, code>>

\* handle() has no record of the session: it deletes the message and with it the
\* body.
HandleIgnores(m) ==
  /\ task[m] = "handle"
  /\ IsLater(msg[m].type)
  /\ task' = [task EXCEPT ![m] = "reply"]
  /\ live' = [live EXCEPT ![m] = @ \ {"body", "msg"}]
  /\ UNCHANGED <<req, msg, reply, acr, phase, code>>

\* The CCFs and refresh times a stored session can have: those of the STARTs that are
\* accepted.
StoredSessions == {ParseBody(b, FALSE).msg :
                     b \in {b \in Bodies : b.type = 2 /\ ParseBody(b, FALSE).msg # NoMessage}}

\* handle() gives the message to a new sender, which makes an ACR of the body.  An
\* INTERIM or a STOP takes what it lacks from the session.
HandleSends(m) ==
  /\ task[m] = "handle"
  /\ \/ ~IsLater(msg[m].type) /\ UNCHANGED msg
     \/ /\ IsLater(msg[m].type)
        /\ \E stored \in StoredSessions :
             msg' = [msg EXCEPT ![m].ccfs = stored.ccfs,
                                ![m].refresh = IF @ = 0 THEN stored.refresh ELSE @]
  /\ acr' = [acr EXCEPT ![m] = Request(EventOf(req[m].body))]
  /\ Delivery!Send(m)
  /\ task' = [task EXCEPT ![m] = "reply"]
  /\ live' = [live EXCEPT ![m] = @ \cup {"sender"}]
  /\ UNCHANGED <<req, reply>>

\* The end of run(): the reply, and the task deletes itself.
Reply(m) ==
  /\ task[m] = "reply"
  /\ reply' = [reply EXCEPT ![m] = Append(@, 200)]
  /\ task' = [task EXCEPT ![m] = "gone"]
  /\ live' = [live EXCEPT ![m] = @ \ {"task"}]
  /\ UNCHANGED <<req, msg, acr, phase, code>>

\* send_cb on a Diameter thread: on_ccf_response deletes the message, then the
\* sender deletes itself.
Answered(m) ==
  /\ Delivery!Answer(m)
  /\ live' = [live EXCEPT ![m] = @ \ {"body", "msg", "sender"}]
  /\ UNCHANGED <<task, req, msg, reply, acr>>

-----------------------------------------------------------------------------
Init ==
  /\ req \in [Msgs -> [post : BOOLEAN, timer_interim : BOOLEAN, body : Bodies]]
  /\ task = [m \in Msgs |-> "new"]
  /\ msg = [m \in Msgs |-> NoMessage]
  /\ live = [m \in Msgs |-> {"task"}]
  /\ reply = [m \in Msgs |-> <<>>]
  /\ acr = [m \in Msgs |-> <<>>]
  /\ Delivery!Init

Step(m) == Run(m) \/ HandleIgnores(m) \/ HandleSends(m) \/ Reply(m) \/ Answered(m)

Over(m) == task[m] = "gone" /\ phase[m] # "wait"

Rest == (\A m \in Msgs : Over(m)) /\ UNCHANGED vars

Next == (\E m \in Msgs : Step(m)) \/ Rest

Spec == Init /\ [][Next]_vars

\* The HTTP thread runs on, and every ACR is answered.
FairSpec == Spec /\ \A m \in Msgs : WF_vars(Step(m))

-----------------------------------------------------------------------------
(* Properties *)

\* Tasks, requests, messages, replies and ACRs have their types.
TypeOK ==
  /\ task \in [Msgs -> {"new", "handle", "reply", "gone"}]
  /\ req \in [Msgs -> [post : BOOLEAN, timer_interim : BOOLEAN, body : Body]]
  /\ msg \in [Msgs -> Message \cup {NoMessage}]
  /\ live \in [Msgs -> SUBSET {"task", "body", "msg", "sender"}]
  /\ reply \in [Msgs -> Seq({200, 400, 405})]
  /\ phase \in [Msgs -> {"idle", "wait", "answered"}]
  /\ code \in [Msgs -> ResultCodes \cup {"none"}]
  /\ \A m \in Msgs : phase[m] = "idle" => acr[m] = <<>>

\* The HTTP thread and the Diameter thread each find the objects they use, in
\* whichever order they finish, and together they leave none behind.
ObjectsAreOwned ==
  \A m \in Msgs :
    /\ task[m] # "gone" => "task" \in live[m]
    /\ task[m] = "handle" => {"msg", "body"} \subseteq live[m]
    /\ phase[m] = "wait" => {"msg", "body", "sender"} \subseteq live[m]
    /\ Over(m) => live[m] = {}

\* _ccfs[_which] of int_send_msg exists, for a request of either kind.
AcrHasCcf == \A m \in Msgs : phase[m] = "wait" => msg[m].ccfs # <<>>

\* docs/API.md: the members without which "Ralf rejects requests".
ApiRequires(b) == b.event /\ b.ims /\ b.role /\ b.function /\ b.type # Missing

\* docs/API.md: the members a request must have to be billed.
ApiAccepts(b) ==
  /\ ApiRequires(b)
  /\ b.type \in 1..4
  /\ b.type \in {1, 2} =>
       b.peers /\ b.ccf \in Seq(Ccfs) \ {<<>>}

\* A request that follows docs/API.md is answered 200 and, if it starts a session
\* or is an event, billed.  One that does not is never billed, and rejected if it
\* lacks one of the members that docs/API.md lists.
ApiIsKept ==
  \A m \in Msgs : task[m] = "gone" /\ req[m].post =>
    IF ApiAccepts(req[m].body)
    THEN /\ reply[m] = <<200>>
         /\ IsFirst(req[m].body.type) => phase[m] # "idle"
    ELSE /\ phase[m] = "idle"
         /\ ~ApiRequires(req[m].body) => reply[m] = <<400>>

\* What handle() and on_ccf_response see of a timer that popped is an INTERIM that is
\* marked as the timer's, for which they set no timer; nothing that Sprout sends is
\* marked so.
TimerPopsAreInterims ==
  \A m \in Msgs :
    /\ req[m] = TimerRequest /\ task[m] # "new" =>
         reply[m] \in {<<>>, <<200>>} /\ msg[m].type = 3 /\ msg[m].timer_interim
    /\ msg[m] # NoMessage /\ msg[m].timer_interim => req[m].timer_interim

\* docs/API.md: "Each field is mapped exactly to an ACR".  The CDF is told the type
\* of record handle() acted on, and every value of each member it can understand,
\* in order and once, whatever else is in the event and cannot be mapped.
AcrMirrorsEvent ==
  \A m \in Msgs : phase[m] # "idle" =>
    LET event == EventOf(req[m].body)
    IN \A i \in DOMAIN event : event[i].name \in Known /\ IsOnly(event, i) =>
         /\ (\A j \in 1..Len(event[i].values) : event[i].values[j] # Unfit) =>
              Mirrors(acr[m], event[i].name, event[i].values)
         /\ event[i].name = "Accounting-Record-Type" =>
              Mirrors(acr[m], event[i].name, <<msg[m].type>>)

\* Every request is answered once over HTTP, and nothing of it stays allocated.
Settles ==
  \A m \in Msgs : <>[](Len(reply[m]) = 1 /\ live[m] = {})
=============================================================================
