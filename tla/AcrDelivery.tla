---------------------------- MODULE AcrDelivery ----------------------------
(***************************************************************************)
(* What SessionManager relies on when it gives a Message to a              *)
(* PeerMessageSender (src/peer_message_sender.cpp): on_ccf_response is     *)
(* called back exactly once, with the result code of some CCF or with      *)
(* UNABLE_TO_DELIVER.  The steps are Send and OnCcfResponse of             *)
(* SessionManager, without what it does around them.                       *)
(***************************************************************************)
CONSTANTS Msgs, ResultCodes

VARIABLES
  phase,  \* phase[m]: "idle", "wait" for the answer, "answered"
  code    \* code[m]: the result code on_ccf_response was called with

NoCode == "none"

Init ==
  /\ phase = [m \in Msgs |-> "idle"]
  /\ code = [m \in Msgs |-> NoCode]

\* handle() calls PeerMessageSender::send.
Send(m) ==
  /\ phase[m] = "idle"
  /\ phase' = [phase EXCEPT ![m] = "wait"]
  /\ UNCHANGED code

\* send_cb calls on_ccf_response.
Answer(m) ==
  /\ phase[m] = "wait"
  /\ phase' = [phase EXCEPT ![m] = "answered"]
  /\ \E c \in ResultCodes : code' = [code EXCEPT ![m] = c]

Next == \E m \in Msgs : Send(m) \/ Answer(m)

\* At most one call for a message, and only after it was sent.
Safety == Init /\ [][Next]_<<phase, code>>

\* ... and one in the end.
Spec == Safety /\ \A m \in Msgs : WF_<<phase, code>>(Answer(m))
=============================================================================
