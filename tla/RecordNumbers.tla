---------------------------- MODULE RecordNumbers ----------------------------
(***************************************************************************)
(* The inductive invariant behind the numbering of ACRs in a deployment    *)
(* without remote stores: why the CAS of the local store is enough to give *)
(* every request a record number of its own.                               *)
(***************************************************************************)
EXTENDS SessionManager

\* No remote stores, and a store that only ever refuses a write by reporting
\* contention.  It may lose records.
SingleSite ==
  /\ \A s \in Sites : StoreOrder[s] = <<s>>
  /\ Unreliable = {}
  /\ CasMissStatus = "DATA_CONTENTION"

Present(s)      == store[s].cas # 0
StoredId(s)     == store[s].sess.session_id
StoredNumber(s) == store[s].sess.acct_record_number

\* Session x was stored by its START, which is past its write to site s.
StoredBy(x, s) ==
  /\ x \in Msgs
  /\ msg[x].record_type = "START"
  /\ msg[x].site = s
  /\ pc[x] \in {"pass", "done"}

\* Where a request can be, by its type.
Places ==
  \A m \in Msgs :
    /\ pc[m] \notin {"sync_read", "sync_write", "remove_remote"}
    /\ pc[m] \in {"lookup", "write", "remove"} => msg[m].record_type \in OngoingTypes
    /\ pc[m] = "write" => msg[m].record_type = "INTERIM"
    /\ pc[m] = "remove" => msg[m].record_type = "STOP"
    /\ pc[m] \in {"post", "put"} => msg[m].record_type = "START"

\* A stored record is older than the next CAS and belongs to a START here.
StoredRecords ==
  \A s \in Sites :
    /\ store[s].cas < nextCas[s]
    /\ Present(s) => StoredBy(StoredId(s), s)

\* A request between its read and its write holds the number after the stored
\* one, if its write can succeed at all.
Readers ==
  \A m \in Msgs : pc[m] \in {"write", "remove"} =>
    /\ ~fresh[m]
    /\ held[m].cas # 0
    /\ held[m].cas < nextCas[Local(m)]
    /\ StoredBy(SessionId(m), Local(m))
    /\ held[m].cas = store[Local(m)].cas =>
         SessionId(m) = StoredId(Local(m)) /\ Number(m) = StoredNumber(Local(m)) + 1

\* update_timer_id writes back the session and the number it read.
Retimers ==
  \A m \in Msgs : pc[m] = "retime_write" =>
    /\ copy[m].cas # 0
    /\ copy[m].cas < nextCas[Local(m)]
    /\ copy[m].cas = store[Local(m)].cas =>
         /\ copy[m].sess.session_id = StoredId(Local(m))
         /\ copy[m].sess.acct_record_number = StoredNumber(Local(m))

\* A numbered request: the first of its session, or a later one whose number
\* the store has reached; a numbered STOP has removed its session.
Owners ==
  \A m \in Msgs : Numbered(m) =>
    /\ msg[m].record_type \notin OngoingTypes => SessionId(m) = m /\ Number(m) = 1
    /\ msg[m].record_type \in OngoingTypes => StoredBy(SessionId(m), Local(m))
    /\ \A s \in Sites : Present(s) /\ StoredId(s) = SessionId(m) =>
         Number(m) <= StoredNumber(s) /\ msg[m].record_type # "STOP"

\* Numbers of a session are distinct and the STOP has the highest.
Distinct ==
  \A m, n \in Msgs :
    /\ m # n
    /\ Numbered(m)
    /\ Numbered(n)
    /\ SessionId(m) = SessionId(n)
    => /\ Number(m) # Number(n)
       /\ msg[m].record_type = "STOP" => Number(n) < Number(m)

\* An ACR carries the number of its request.
SentAcrs ==
  \A a \in acrs :
    /\ Numbered(a.msg)
    /\ a.session_id = SessionId(a.msg)
    /\ a.number = Number(a.msg)
    /\ a.record_type = msg[a.msg].record_type

NumberInv ==
  Places /\ StoredRecords /\ Readers /\ Retimers /\ Owners /\ Distinct /\ SentAcrs

\* Some request has number n of session x.
Taken(x, n) == \E m \in Msgs : Numbered(m) /\ SessionId(m) = x /\ Number(m) = n

\* The stored number was taken by a request, and so was every number below one that
\* was taken.
Dense ==
  /\ \A s \in Sites : Present(s) => Taken(StoredId(s), StoredNumber(s))
  /\ \A m \in Msgs : Numbered(m) => \A n \in 1..Number(m) : Taken(SessionId(m), n)
=============================================================================
