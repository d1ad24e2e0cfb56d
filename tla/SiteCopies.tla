----------------------------- MODULE SiteCopies -----------------------------
(***************************************************************************)
(* The inductive invariant behind the copies of a session at several       *)
(* sites: what every copy has in common, and why no write loses an update, *)
(* for any number of sites and whatever stores, Chronos and Ralf nodes     *)
(* fail.                                                                   *)
(***************************************************************************)
EXTENDS SessionManager

\* Request x is a START that was accepted, and its session may be stored.
Accepted(x) ==
  /\ x \in Msgs
  /\ pc[x] \in {"put", "pass", "done"}
  /\ msg[x].record_type = "START"
  /\ aca[x].accepted

\* A session that goes back to its accepted START, through any chain of copies.
Genuine(sess) ==
  /\ Accepted(sess.session_id)
  /\ sess.ccf = held[sess.session_id].sess.ccf
  /\ sess.session_refresh_time = held[sess.session_id].sess.session_refresh_time
  /\ sess.interim_interval = aca[sess.session_id].interim_interval

\* A session read from site s, if it can still be written there, is the stored one
\* with the same number or a higher one.
Fits(read, s) ==
  read.cas # 0 =>
    /\ read.cas < nextCas[s]
    /\ read.cas = store[s].cas =>
         /\ read.sess.session_id = store[s].sess.session_id
         /\ read.sess.acct_record_number >= store[s].sess.acct_record_number

\* The first request of a session has the session's id and is never at a step of
\* the later ones.
FirstPlaces(m) ==
  /\ pc[m] \in {"post", "put"} => msg[m].record_type = "START" /\ aca[m].accepted
  /\ msg[m].record_type \notin OngoingTypes /\ pc[m] # "idle" =>
       /\ pc[m] \in {"send", "wait", "post", "put", "pass", "done"}
       /\ SessionId(m) = m

\* What a later request holds is genuine, and fits the store it goes to.
HoldsGenuine(m) ==
  /\ msg[m].record_type \in OngoingTypes /\ pc[m] \notin {"idle", "lookup", "ignored"} =>
       Genuine(held[m].sess)
  /\ pc[m] = "write" /\ ~fresh[m] => Fits(held[m], Local(m))

CopiesGenuine(m) ==
  pc[m] \in {"sync_write", "retime_write"} =>
    Genuine(copy[m].sess) /\ Fits(copy[m], Current(m))

\* So is what a store has; its CAS was given out before.
StoresGenuine(s) ==
  /\ store[s].cas < nextCas[s]
  /\ store[s].cas # 0 => Genuine(store[s].sess)

CopyInv ==
  /\ \A m \in Msgs : FirstPlaces(m) /\ HoldsGenuine(m) /\ CopiesGenuine(m)
  /\ \A s \in Sites : StoresGenuine(s)

\* The numbers.  Every stored one, and every one on its way to a store, is at least
\* the first request's.
StoresNumbered == \A s \in Sites : store[s].cas # 0 => store[s].sess.acct_record_number > 0

\* The first request of a session has number 1, a later one a higher number, from
\* its lookup on.
HoldsNumber(m) ==
  /\ pc[m] \notin {"idle", "lookup", "ignored"} =>
       IF msg[m].record_type \in OngoingTypes THEN Number(m) > 1 ELSE Number(m) = 1
  /\ pc[m] \in {"sync_write", "retime_write"} => copy[m].sess.acct_record_number > 0

\* An ACR says what its request still holds.
SentAs(a) ==
  /\ Numbered(a.msg)
  /\ a.session_id = SessionId(a.msg)
  /\ a.number = Number(a.msg)
  /\ a.record_type = msg[a.msg].record_type

CopyNumbers ==
  /\ StoresNumbered
  /\ \A m \in Msgs : HoldsNumber(m)
  /\ \A a \in acrs : SentAs(a)
=============================================================================
