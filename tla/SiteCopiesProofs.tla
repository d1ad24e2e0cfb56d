-------------------------- MODULE SiteCopiesProofs --------------------------
(***************************************************************************)
(* Proofs about the copies of a session at any number of sites, with       *)
(* stores, Chronos and Ralf nodes that fail: OnlyAcceptedSessions,         *)
(* SitesAgree, NoLostUpdate and FirstIsLowest.                             *)
(***************************************************************************)
EXTENDS SessionManagerProofs, SiteCopies

-----------------------------------------------------------------------------
(* Steps *)

\* A step only request m takes.
OthersKept(m) ==
  \A n \in Msgs \ {m} :
    /\ pc'[n] = pc[n]
    /\ msg'[n] = msg[n]
    /\ held'[n] = held[n]
    /\ copy'[n] = copy[n]
    /\ fresh'[n] = fresh[n]
    /\ idx'[n] = idx[n]
    /\ aca'[n] = aca[n]

\* What identifies a session and never changes while it lives.
SameSession(old, new) ==
  /\ new.session_id = old.session_id
  /\ new.ccf = old.ccf
  /\ new.session_refresh_time = old.session_refresh_time
  /\ new.interim_interval = old.interim_interval

\* The session of an accepted START stays what it is.
StartsKept ==
  \A x \in Msgs :
    Accepted(x) => /\ Accepted(x)'
                   /\ SameSession(held[x].sess, held'[x].sess)
                   /\ aca'[x] = aca[x]

\* Site s keeps its record, loses it, or gets a genuine session with a new CAS; a
\* record is replaced only by the same session with no lower number.
SiteStep(s) ==
  /\ nextCas'[s] >= nextCas[s]
  /\ \/ store'[s] = store[s]
     \/ store'[s].cas = 0
     \/ /\ store'[s].cas = nextCas[s]
        /\ nextCas'[s] > nextCas[s]
        /\ Genuine(store[s].sess)'
  /\ store[s].cas # 0 /\ store'[s].cas # 0 =>
       /\ store'[s].sess.session_id = store[s].sess.session_id
       /\ store'[s].sess.acct_record_number >= store[s].sess.acct_record_number

\* Request m goes on to a step that writes nothing it has read before.
Moves(m) ==
  /\ pc'[m] \notin {"idle", "write", "sync_write", "retime_write"}
  /\ pc[m] # "idle"
  /\ pc[m] \in {"lookup", "ignored"} => pc'[m] \in {"lookup", "ignored"}
  /\ msg'[m].record_type = msg[m].record_type
  /\ SameSession(held[m].sess, held'[m].sess)
  /\ msg[m].record_type \notin OngoingTypes =>
       pc'[m] \in {"send", "wait", "post", "put", "pass", "done"}
  /\ pc'[m] \in {"post", "put"} => msg[m].record_type = "START" /\ aca'[m].accepted
  /\ Accepted(m) => pc'[m] \in {"put", "pass", "done"} /\ aca'[m] = aca[m]

\* What a read of a store returns fits the store as long as nothing is changed
\* but its number, upwards, and its timer.
LEMMA ReadFits ==
  ASSUME TypeInv, CopyInv, NEW s \in Sites, NEW got \in GetData(s), got.cas # 0
  PROVE  got = store[s] /\ got.cas < nextCas[s] /\ Genuine(got.sess) /\ got.sess \in Session
<1>1. got = store[s]
  BY DEF GetData, Absent
<1>. QED  BY <1>1, GetDataType, Zenon DEF CopyInv, StoresGenuine

\* A genuine session stays genuine.
LEMMA GenuineKept ==
  ASSUME StartsKept, NEW sess, Genuine(sess)
  PROVE  Genuine(sess)'
<1>1. sess.session_id \in Msgs
  BY Zenon DEF Genuine, Accepted
<1>. QED  BY <1>1, Zenon DEF StartsKept, Genuine, SameSession

\* What was read before a step fits a site after it.
LEMMA FitsKept ==
  ASSUME TypeInv, TypeInv', NEW s \in Sites, SiteStep(s),
         NEW read \in Record, Fits(read, s)
  PROVE  Fits(read, s)'
<1>1. /\ nextCas[s] \in Nat /\ nextCas'[s] \in Nat /\ read.cas \in Nat
      /\ store[s].cas \in Nat /\ store'[s].cas \in Nat
  BY Zenon DEF TypeInv, TypeOK, Record
<1>2. ASSUME read.cas # 0, read.cas < nextCas[s], read.cas = store'[s].cas
      PROVE  store'[s] = store[s]
  BY <1>1, <1>2 DEF SiteStep
<1>. QED  BY <1>1, <1>2 DEF Fits, SiteStep

\* A step of m that keeps the sites and what m itself holds keeps the invariant.
LEMMA CopiesKept ==
  ASSUME TypeInv, TypeInv', CopyInv, NEW m \in Msgs, OthersKept(m), StartsKept,
         \A s \in Sites : SiteStep(s),
         FirstPlaces(m)', HoldsGenuine(m)', CopiesGenuine(m)'
  PROVE  CopyInv'
<1>1. ASSUME NEW s \in Sites
      PROVE  StoresGenuine(s)'
  <2>1. /\ nextCas[s] \in Nat \ {0} /\ nextCas'[s] \in Nat \ {0}
        /\ store[s].cas \in Nat /\ store'[s].cas \in Nat
    BY Zenon DEF TypeInv, TypeOK, Record
  <2>2. SiteStep(s) /\ StoresGenuine(s)
    BY Zenon DEF CopyInv
  <2>3. store'[s].cas < nextCas'[s]
    BY <2>1, <2>2 DEF SiteStep, StoresGenuine
  <2>4. ASSUME store'[s].cas # 0
        PROVE  Genuine(store[s].sess)'
    <3>1. CASE store'[s] = store[s]
      BY <2>2, <2>4, <3>1, GenuineKept, Zenon DEF StoresGenuine, Genuine
    <3>. QED  BY <2>2, <2>4, <3>1, Zenon DEF SiteStep
  <2>. QED  BY <2>3, <2>4, Zenon DEF StoresGenuine
<1>2. ASSUME NEW n \in Msgs \ {m}
      PROVE  FirstPlaces(n)' /\ HoldsGenuine(n)' /\ CopiesGenuine(n)'
  <2>1. /\ pc'[n] = pc[n] /\ msg'[n] = msg[n] /\ held'[n] = held[n] /\ copy'[n] = copy[n]
        /\ fresh'[n] = fresh[n] /\ idx'[n] = idx[n] /\ aca'[n] = aca[n]
    BY Zenon DEF OthersKept
  <2>2. FirstPlaces(n) /\ HoldsGenuine(n) /\ CopiesGenuine(n)
    BY Zenon DEF CopyInv
  <2>3. /\ Local(n)' = Local(n) /\ Current(n)' = Current(n)
        /\ Local(n) \in Sites /\ Current(n) \in Sites
    BY <2>1, StoreInSites, Zenon DEF Local, Current, StoresOf
  <2>4. held[n] \in Record /\ copy[n] \in Record
    BY Zenon DEF TypeInv, TypeOK
  <2>5. FirstPlaces(n)'
    BY <2>1, <2>2, Zenon DEF FirstPlaces, SessionId
  <2>6. Genuine(held[n].sess) => Genuine(held[n].sess)'
    BY <2>1, GenuineKept DEF Genuine
  <2>7. Genuine(copy[n].sess) => Genuine(copy[n].sess)'
    BY <2>1, GenuineKept DEF Genuine
  <2>8. Fits(held[n], Local(n)) => Fits(held[n], Local(n))'
    BY <2>1, <2>3, <2>4, FitsKept DEF Fits
  <2>9. Fits(copy[n], Current(n)) => Fits(copy[n], Current(n))'
    BY <2>1, <2>3, <2>4, FitsKept DEF Fits
  <2>10. HoldsGenuine(n)'
    BY <2>1, <2>2, <2>6, <2>8, Zenon DEF HoldsGenuine
  <2>11. CopiesGenuine(n)'
    BY <2>1, <2>2, <2>7, <2>9, Zenon DEF CopiesGenuine
  <2>. QED  BY <2>5, <2>10, <2>11, Zenon
<1>. QED  BY <1>1, <1>2, Zenon DEF CopyInv

\* A request that moves on keeps the accepted STARTs.
LEMMA MoveKeepsStarts ==
  ASSUME NEW m \in Msgs, OthersKept(m), Moves(m)
  PROVE  StartsKept
<1>. SUFFICES ASSUME NEW x \in Msgs, Accepted(x)
              PROVE  Accepted(x)' /\ SameSession(held[x].sess, held'[x].sess) /\ aca'[x] = aca[x]
  BY Zenon DEF StartsKept
<1>1. CASE x = m
  BY <1>1, Zenon DEF Accepted, Moves
<1>2. CASE x # m
  BY <1>2, Zenon DEF Accepted, OthersKept, SameSession
<1>. QED  BY <1>1, <1>2, Zenon

\* ... and the invariant, whatever it does to the sites.
LEMMA MoveKeepsCopies ==
  ASSUME TypeInv, TypeInv', CopyInv, NEW m \in Msgs, OthersKept(m), Moves(m),
         \A s \in Sites : SiteStep(s)
  PROVE  CopyInv'
<1>1. StartsKept
  BY MoveKeepsStarts, Zenon
<1>2. FirstPlaces(m) /\ HoldsGenuine(m)
  BY Zenon DEF CopyInv
<1>3. FirstPlaces(m)'
  BY <1>2, Zenon DEF FirstPlaces, Moves, SessionId, SameSession
<1>4. CopiesGenuine(m)'
  BY Zenon DEF CopiesGenuine, Moves
<1>5. ASSUME msg'[m].record_type \in OngoingTypes, pc'[m] \notin {"idle", "lookup", "ignored"}
      PROVE  Genuine(held[m].sess)'
  <2>1. Genuine(held[m].sess)
    BY <1>2, <1>5, Zenon DEF HoldsGenuine, Moves
  <2>2. PICK x \in Msgs : x = SessionId(m)
    BY <2>1, Zenon DEF Genuine, Accepted, SessionId
  <2>3. Accepted(x)' /\ SameSession(held[x].sess, held'[x].sess) /\ aca'[x] = aca[x]
    BY <1>1, <2>1, <2>2, Zenon DEF StartsKept, Genuine, SessionId
  <2>4. SameSession(held[m].sess, held'[m].sess)
    BY Zenon DEF Moves
  <2>5. held'[m].sess.session_id = x
    BY <2>2, <2>4, Zenon DEF SameSession, SessionId
  <2>6. Accepted(held[m].sess.session_id)'
    BY <2>3, <2>5, Zenon DEF Accepted
  <2>7. /\ held'[m].sess.ccf = held'[x].sess.ccf
        /\ held'[m].sess.session_refresh_time = held'[x].sess.session_refresh_time
        /\ held'[m].sess.interim_interval = aca'[x].interim_interval
    BY <2>1, <2>2, <2>3, <2>4, Zenon DEF Genuine, SameSession, SessionId
  <2>. QED  BY <2>5, <2>6, <2>7, Zenon DEF Genuine
<1>6. HoldsGenuine(m)'
  BY <1>5, Zenon DEF HoldsGenuine, Moves
<1>. QED  BY <1>1, <1>3, <1>4, <1>6, CopiesKept, Zenon

\* What set_data can do to the stores.
LEMMA SetDataEffect ==
  ASSUME NEW s \in Sites, NEW sess, NEW cas, NEW expiry, NEW rc, TypeInv,
         SetData(s, sess, cas, expiry, rc)
  PROVE  \/ UNCHANGED stores
         \/ /\ cas = store[s].cas
            /\ Written(s, sess, expiry)
BY StoreAssumption, Zenon DEF SetData, SetStatus

\* A write of a genuine session that fits the store is a step of its site; a CAS
\* of 0 fits any store.
LEMMA WriteStep ==
  ASSUME TypeInv, StartsKept, NEW s \in Sites, NEW sess \in Session, NEW cas \in Nat, NEW rc,
         Genuine(sess), Fits([cas |-> cas, sess |-> sess], s),
         SetSession(s, sess, cas, rc)
  PROVE  \A t \in Sites : SiteStep(t)
<1>. SUFFICES ASSUME NEW t \in Sites PROVE SiteStep(t)
  BY Zenon
<1>1. /\ store \in [Sites -> Record] /\ nextCas \in [Sites -> Nat \ {0}]
      /\ nextCas[t] \in Nat /\ store[t].cas \in Nat
      /\ store[t].cas # 0 => store[t].sess.acct_record_number \in Nat
  BY Zenon DEF TypeInv, TypeOK, Record, Session, SessionOf
<1>2. CASE UNCHANGED stores
  BY <1>1, <1>2 DEF SiteStep, stores
<1>3. CASE cas = store[s].cas /\ Written(s, sess, Expiry(sess))
  <2>1. Genuine(sess)'
    BY GenuineKept, Zenon
  <2>2. CASE t # s
    BY <1>1, <1>3, <2>2 DEF Written, SiteStep
  <2>3. CASE t = s /\ Expiry(sess) = 0
    <3>1. store'[s] = Absent /\ nextCas'[s] = nextCas[s] + 1
      BY <1>1, <1>3, <2>3, Zenon DEF Written
    <3>. QED  BY <1>1, <2>3, <3>1 DEF SiteStep, Absent
  <2>4. CASE t = s /\ Expiry(sess) # 0
    <3>1. store'[s] = [cas |-> nextCas[s], sess |-> sess] /\ nextCas'[s] = nextCas[s] + 1
      BY <1>1, <1>3, <2>4, Zenon DEF Written
    <3>2. Genuine(store[s].sess)'
      BY <2>1, <3>1 DEF Genuine
    <3>3. store[s].cas # 0 => /\ sess.session_id = store[s].sess.session_id
                              /\ sess.acct_record_number >= store[s].sess.acct_record_number
      BY <1>3, Zenon DEF Fits
    <3>. QED  BY <1>1, <2>4, <3>1, <3>2, <3>3 DEF SiteStep
  <2>. QED  BY <2>2, <2>3, <2>4, Zenon
<1>. QED  BY <1>2, <1>3, SetDataEffect, Zenon DEF SetSession

\* A deletion is a step of its site, under a CAS or not.
LEMMA DeleteStep ==
  ASSUME TypeInv, NEW s \in Sites, NEW cas, NEW rc,
         CasDelete(s, cas, rc) \/ DeleteData(s)
  PROVE  \A t \in Sites : SiteStep(t)
<1>. SUFFICES ASSUME NEW t \in Sites PROVE SiteStep(t)
  BY Zenon
<1>1. /\ store \in [Sites -> Record] /\ nextCas \in [Sites -> Nat \ {0}]
      /\ nextCas[t] \in Nat /\ store[t].cas \in Nat
      /\ store[t].cas # 0 => store[t].sess.acct_record_number \in Nat
  BY Zenon DEF TypeInv, TypeOK, Record, Session, SessionOf
<1>2. \/ UNCHANGED stores
      \/ store' = [store EXCEPT ![s] = Absent] /\ nextCas' = [nextCas EXCEPT ![s] = @ + 1]
      \/ store' = [store EXCEPT ![s] = Absent] /\ UNCHANGED nextCas
  BY SetDataEffect, Zenon DEF CasDelete, DeleteData, Written, stores
<1>. QED  BY <1>1, <1>2 DEF SiteStep, stores, Absent

\* Sites that nothing is done to take a step.
LEMMA NoStep ==
  ASSUME TypeInv, UNCHANGED stores
  PROVE  \A t \in Sites : SiteStep(t)
<1>1. \A t \in Sites : /\ nextCas[t] \in Nat
                       /\ store[t].cas # 0 => store[t].sess.acct_record_number \in Nat
  BY Zenon DEF TypeInv, TypeOK, Session, SessionOf
<1>. QED  BY <1>1 DEF SiteStep, stores

-----------------------------------------------------------------------------
(* One lemma per action, or per group of actions alike *)

\* What every step does.
CopiesStep == CopyInv' /\ \A s \in Sites : SiteStep(s)

\* The loop over the stores moves m and no other request.
LEMMA NextStoreMoves ==
  ASSUME TypeInv, NEW m \in Msgs, NEW body, NEW after, NextStore(m, body, after)
  PROVE  /\ pc'[m] \in {body, after}
         /\ \A n \in Msgs \ {m} : pc'[n] = pc[n] /\ idx'[n] = idx[n]
<1>1. pc \in [Msgs -> PCs] /\ idx \in [Msgs -> Nat \ {0}]
  BY Zenon DEF TypeInv, TypeOK
<1>. QED  BY <1>1, Zenon DEF NextStore, Goto

\* A later request between its lookup and its send is one with a genuine session.
LEMMA LaterPlaces ==
  ASSUME CopyInv, NEW m \in Msgs,
         pc[m] \in {"lookup", "write", "sync_read", "sync_write", "remove", "remove_remote",
                    "cancel", "update", "retime_read", "retime_write", "kill"}
  PROVE  /\ msg[m].record_type \in OngoingTypes
         /\ pc[m] # "lookup" => Genuine(held[m].sess)
         /\ ~Accepted(m)
<1>1. FirstPlaces(m) /\ HoldsGenuine(m)
  BY Zenon DEF CopyInv
<1>2. msg[m].record_type \in OngoingTypes
  BY <1>1, Zenon DEF FirstPlaces
<1>. QED  BY <1>1, <1>2, Zenon DEF HoldsGenuine, Accepted

\* The writes of an INTERIM: to the local store, and to a remote one.
LEMMA CopiesWrite ==
  ASSUME TypeInv, TypeInv', CopyInv, NEW m \in Msgs, Write(m)
  PROVE  CopiesStep
<1> DEFINE cas == IF fresh[m] THEN 0 ELSE held[m].cas
<1>1. PICK rc \in Status :
        /\ SetSession(Local(m), held[m].sess, cas, rc)
        /\ IF rc = "DATA_CONTENTION"
           THEN Goto(m, "lookup") /\ UNCHANGED idx
           ELSE NextStore(m, "sync_read", "send")
  BY Zenon DEF Write
<1>2. /\ pc[m] = "write"
      /\ UNCHANGED <<msg, held, copy, fresh, aca, timers, acrs, passed>>
  BY Zenon DEF Write
<1>3. /\ pc'[m] \in {"lookup", "sync_read", "send"}
      /\ \A n \in Msgs \ {m} : pc'[n] = pc[n] /\ idx'[n] = idx[n]
  <2>1. pc \in [Msgs -> PCs]
    BY Zenon DEF TypeInv, TypeOK
  <2>. QED  BY <1>1, <2>1, NextStoreMoves DEF Goto
<1>4. /\ msg[m].record_type \in OngoingTypes
      /\ Genuine(held[m].sess) /\ ~Accepted(m)
  BY <1>2, LaterPlaces, Zenon
<1>5. Moves(m) /\ OthersKept(m)
  BY <1>2, <1>3, <1>4, Zenon DEF Moves, OthersKept, SameSession
<1>6. StartsKept
  BY <1>5, MoveKeepsStarts, Zenon
<1>7. held[m].sess \in Session /\ cas \in Nat /\ Local(m) \in Sites
  BY <1>2, StoreInSites, Zenon DEF TypeInv, TypeOK, Record
<1>8. Fits([cas |-> cas, sess |-> held[m].sess], Local(m))
  <2>1. ~fresh[m] => Fits(held[m], Local(m))
    BY <1>2, Zenon DEF CopyInv, HoldsGenuine
  <2>. QED  BY <2>1, Zenon DEF Fits
<1>9. \A s \in Sites : SiteStep(s)
  <2>. HIDE DEF cas
  <2>. QED  BY <1>1, <1>4, <1>6, <1>7, <1>8, WriteStep, Zenon
<1>. QED  BY <1>5, <1>9, MoveKeepsCopies, Zenon DEF CopiesStep

\* Writing to a remote store, also with a new timer id.
LEMMA CopiesRemoteWrite ==
  ASSUME TypeInv, TypeInv', CopyInv, NEW m \in Msgs, SyncWrite(m) \/ RetimeWrite(m)
  PROVE  CopiesStep
<1>1. PICK rc \in Status : SetSession(Current(m), copy[m].sess, copy[m].cas, rc)
  BY Zenon DEF SyncWrite, RetimeWrite
<1>2. /\ pc[m] \in {"sync_write", "retime_write"}
      /\ UNCHANGED <<msg, held, copy, fresh, aca, timers, acrs, passed>>
  BY Zenon DEF SyncWrite, RetimeWrite
<1>3. /\ pc'[m] \in {"sync_read", "send", "retime_read", "pass", "done"}
      /\ \A n \in Msgs \ {m} : pc'[n] = pc[n] /\ idx'[n] = idx[n]
  <2>1. pc \in [Msgs -> PCs]
    BY Zenon DEF TypeInv, TypeOK
  <2>2. CASE SyncWrite(m)
    BY <2>1, <2>2, NextStoreMoves, Zenon DEF SyncWrite, Goto
  <2>3. CASE RetimeWrite(m)
    <3>1. NextStore(m, "retime_read", Finish(aca[m].accepted)) /\ Finish(aca[m].accepted) \in {"pass", "done"}
      BY <2>3, Zenon DEF RetimeWrite, Finish
    <3>. QED  BY <3>1, NextStoreMoves
  <2>. QED  BY <2>2, <2>3, Zenon
<1>4. msg[m].record_type \in OngoingTypes /\ ~Accepted(m)
  BY <1>2, LaterPlaces, Zenon
<1>5. Moves(m) /\ OthersKept(m)
  BY <1>2, <1>3, <1>4, Zenon DEF Moves, OthersKept, SameSession
<1>6. StartsKept
  BY <1>5, MoveKeepsStarts, Zenon
<1>7. copy[m].sess \in Session /\ copy[m].cas \in Nat /\ Current(m) \in Sites
  BY <1>2, StoreInSites, Zenon DEF TypeInv, TypeOK, Record
<1>8. Genuine(copy[m].sess) /\ Fits(copy[m], Current(m))
  BY <1>2, Zenon DEF CopyInv, CopiesGenuine
<1>9. Fits([cas |-> copy[m].cas, sess |-> copy[m].sess], Current(m))
  BY <1>8, Zenon DEF Fits
<1>10. \A s \in Sites : SiteStep(s)
  BY <1>1, <1>6, <1>7, <1>8, <1>9, WriteStep, Zenon
<1>. QED  BY <1>5, <1>10, MoveKeepsCopies, Zenon DEF CopiesStep

\* The deletes of a STOP and of a 5002.
LEMMA CopiesDelete ==
  ASSUME TypeInv, TypeInv', CopyInv, NEW m \in Msgs,
         Remove(m) \/ RemoveRemote(m) \/ Kill(m)
  PROVE  CopiesStep
<1>1. \A s \in Sites : SiteStep(s)
  BY DeleteStep, StoreInSites, Zenon DEF Remove, RemoveRemote, Kill
<1>2. /\ pc[m] \in {"remove", "remove_remote", "kill"}
      /\ UNCHANGED <<msg, held, copy, fresh, aca, timers, acrs, passed>>
  BY Zenon DEF Remove, RemoveRemote, Kill
<1>3. /\ pc'[m] \in {"lookup", "remove_remote", "cancel", "kill", "done"}
      /\ \A n \in Msgs \ {m} : pc'[n] = pc[n] /\ idx'[n] = idx[n]
  <2>1. pc \in [Msgs -> PCs]
    BY Zenon DEF TypeInv, TypeOK
  <2>. QED  BY <2>1, NextStoreMoves DEF Remove, RemoveRemote, Kill, Goto
<1>4. msg[m].record_type \in OngoingTypes /\ ~Accepted(m)
  BY <1>2, LaterPlaces, Zenon
<1>5. Moves(m) /\ OthersKept(m)
  BY <1>2, <1>3, <1>4, Zenon DEF Moves, OthersKept, SameSession
<1>. QED  BY <1>1, <1>5, MoveKeepsCopies, Zenon DEF CopiesStep

\* The writes of an accepted START: its session is genuine by definition.
LEMMA CopiesPut ==
  ASSUME TypeInv, TypeInv', CopyInv, NEW m \in Msgs, Put(m)
  PROVE  CopiesStep
<1> DEFINE sess == [held[m].sess EXCEPT !.interim_interval = aca[m].interim_interval]
<1>1. PICK rc \in Status : SetSession(Current(m), sess, 0, rc)
  BY Zenon DEF Put
<1>2. /\ pc[m] = "put" /\ NextStore(m, "put", "pass")
      /\ UNCHANGED <<msg, held, copy, fresh, aca, timers, acrs, passed>>
  BY Zenon DEF Put
<1>3. pc'[m] \in {"put", "pass"} /\ \A n \in Msgs \ {m} : pc'[n] = pc[n] /\ idx'[n] = idx[n]
  BY <1>2, NextStoreMoves, Zenon
<1>4. /\ msg[m].record_type = "START" /\ aca[m].accepted /\ SessionId(m) = m
      /\ "START" \notin OngoingTypes
  BY <1>2, Zenon DEF CopyInv, FirstPlaces, OngoingTypes
<1>5. Moves(m) /\ OthersKept(m)
  BY <1>2, <1>3, <1>4, Zenon DEF Moves, OthersKept, SameSession
<1>6. StartsKept
  BY <1>5, MoveKeepsStarts
<1>7. held[m].sess \in Session /\ aca[m].interim_interval \in Nat /\ Current(m) \in Sites
  BY <1>2, StoreInSites, Zenon DEF TypeInv, TypeOK
<1>8. /\ sess \in Session /\ sess.session_id = held[m].sess.session_id /\ sess.ccf = held[m].sess.ccf
      /\ sess.session_refresh_time = held[m].sess.session_refresh_time
      /\ sess.interim_interval = aca[m].interim_interval
  BY <1>7, Zenon DEF Session, SessionOf
<1>. HIDE DEF sess
<1>9. Genuine(sess)
  BY <1>2, <1>4, <1>8, Zenon DEF Genuine, Accepted, SessionId
<1>10. Fits([cas |-> 0, sess |-> sess], Current(m))
  BY Zenon DEF Fits
<1>11. \A s \in Sites : SiteStep(s)
  BY <1>1, <1>6, <1>7, <1>8, <1>9, <1>10, WriteStep, Zenon
<1>. QED  BY <1>5, <1>11, MoveKeepsCopies DEF CopiesStep

\* Another timer id, and nothing else, in the session a request holds.
LEMMA NewTimerId ==
  ASSUME TypeInv, NEW m \in Msgs, NEW id, held[m].sess \in Session,
         held' = [held EXCEPT ![m].sess.timer_id = id]
  PROVE  /\ SameSession(held[m].sess, held'[m].sess)
         /\ \A n \in Msgs \ {m} : held'[n] = held[n]
<1>1. held \in [Msgs -> Record]
  BY Zenon DEF TypeInv, TypeOK
<1>2. held'[m].sess = [held[m].sess EXCEPT !.timer_id = id]
  BY <1>1, Zenon DEF Record
<1>. QED  BY <1>1, <1>2 DEF SameSession, Session, SessionOf

\* The calls to Chronos.
LEMMA CopiesChronos ==
  ASSUME TypeInv, TypeInv', CopyInv, NEW m \in Msgs, Cancel(m) \/ Post(m) \/ Update(m)
  PROVE  CopiesStep
<1>1. pc \in [Msgs -> PCs] /\ held \in [Msgs -> Record]
  BY Zenon DEF TypeInv, TypeOK
<1>2. UNCHANGED stores
  BY Zenon DEF Cancel, Post, Update
<1>3. CASE Cancel(m)
  <2>1. /\ pc[m] = "cancel" /\ pc' = [pc EXCEPT ![m] = "send"]
        /\ UNCHANGED <<msg, held, copy, fresh, idx, aca>>
    BY <1>3, Zenon DEF Cancel, Goto
  <2>2. msg[m].record_type \in OngoingTypes /\ ~Accepted(m)
    BY <2>1, LaterPlaces, Zenon
  <2>3. Moves(m) /\ OthersKept(m)
    BY <1>1, <2>1, <2>2, Zenon DEF Moves, OthersKept, SameSession
  <2>. QED  BY <1>2, <2>3, NoStep, MoveKeepsCopies, Zenon DEF CopiesStep
<1>4. CASE Post(m)
  <2>1. /\ pc[m] = "post" /\ pc' = [pc EXCEPT ![m] = "put"]
        /\ UNCHANGED <<msg, copy, fresh, idx, aca>>
        /\ \E id : held' = [held EXCEPT ![m].sess.timer_id = id]
    BY <1>4, Zenon DEF Post, Goto
  <2>2. /\ SameSession(held[m].sess, held'[m].sess)
        /\ \A n \in Msgs \ {m} : held'[n] = held[n]
    BY <2>1, NewTimerId, Zenon DEF TypeInv, TypeOK
  <2>3. msg[m].record_type = "START" /\ aca[m].accepted
    BY <2>1, Zenon DEF CopyInv, FirstPlaces
  <2>4. Moves(m) /\ OthersKept(m)
    BY <1>1, <2>1, <2>2, <2>3, Zenon DEF Moves, OthersKept, Accepted
  <2>. QED  BY <1>2, <2>4, NoStep, MoveKeepsCopies DEF CopiesStep
<1>5. CASE Update(m)
  <2>1. /\ pc[m] = "update"
        /\ \E l \in {"pass", "done", "retime_read"} : pc' = [pc EXCEPT ![m] = l]
        /\ UNCHANGED <<msg, copy, fresh, idx, aca>>
        /\ \E id : held' = [held EXCEPT ![m].sess.timer_id = id]
    BY <1>5, Zenon DEF Update, Goto, Finish
  <2>2. /\ SameSession(held[m].sess, held'[m].sess)
        /\ \A n \in Msgs \ {m} : held'[n] = held[n]
    BY <2>1, NewTimerId, Zenon DEF TypeInv, TypeOK
  <2>3. msg[m].record_type \in OngoingTypes /\ ~Accepted(m)
    BY <2>1, LaterPlaces, Zenon
  <2>4. Moves(m) /\ OthersKept(m)
    BY <1>1, <2>1, <2>2, <2>3, Zenon DEF Moves, OthersKept
  <2>. QED  BY <1>2, <2>4, NoStep, MoveKeepsCopies DEF CopiesStep
<1>. QED  BY <1>3, <1>4, <1>5, Zenon

\* The send, the answer of the CDF, the health check and a crash.
LEMMA CopiesSend ==
  ASSUME TypeInv, TypeInv', CopyInv, NEW m \in Msgs,
         Send(m) \/ HealthCheckPassed(m) \/ Crash(m)
  PROVE  CopiesStep
<1>1. /\ pc \in [Msgs -> PCs] /\ msg \in [Msgs -> Message]
      /\ copy \in [Msgs -> Record] /\ idx \in [Msgs -> Nat \ {0}]
  BY Zenon DEF TypeInv, TypeOK
<1>2. UNCHANGED <<stores, held, aca, fresh>>
  BY Zenon DEF Send, HealthCheckPassed, Crash
<1>3. CASE Send(m)
  <2>1. pc[m] = "send" /\ pc' = [pc EXCEPT ![m] = "wait"] /\ UNCHANGED <<copy, idx>>
    BY <1>3, Zenon DEF Send, Goto
  <2>2. /\ msg'[m].record_type = msg[m].record_type
        /\ \A n \in Msgs \ {m} : msg'[n] = msg[n]
    BY <1>1, <1>3, Zenon DEF Send, Message
  <2>3. Moves(m) /\ OthersKept(m)
    BY <1>1, <1>2, <2>1, <2>2, Zenon DEF Moves, OthersKept, SameSession, Accepted
  <2>. QED  BY <1>2, <2>3, NoStep, MoveKeepsCopies, Zenon DEF CopiesStep
<1>4. CASE HealthCheckPassed(m)
  <2>1. /\ pc[m] = "pass" /\ pc' = [pc EXCEPT ![m] = "done"]
        /\ UNCHANGED <<msg, copy, idx>>
    BY <1>4, Zenon DEF HealthCheckPassed, Goto
  <2>2. Moves(m) /\ OthersKept(m)
    BY <1>1, <1>2, <2>1, Zenon DEF Moves, OthersKept, SameSession
  <2>. QED  BY <1>2, <2>2, NoStep, MoveKeepsCopies DEF CopiesStep
<1>5. CASE Crash(m)
  <2> DEFINE label == IF Numbered(m) THEN "done" ELSE "ignored"
  <2>1. /\ pc[m] \notin {"idle", "ignored"} /\ pc' = [pc EXCEPT ![m] = label]
        /\ idx' = [idx EXCEPT ![m] = 1]
        /\ copy' = [copy EXCEPT ![m] = Absent]
        /\ UNCHANGED msg
    BY <1>5, Zenon DEF Crash, Goto, FinalPCs
  <2>2. msg[m].record_type \notin OngoingTypes => label = "done"
    BY <2>1, Zenon DEF CopyInv, FirstPlaces, Numbered
  <2>3. /\ Accepted(m) => label = "done"
        /\ pc[m] = "lookup" => label = "ignored"
        /\ label \in {"done", "ignored"}
    BY Zenon DEF Accepted, Numbered
  <2>. HIDE DEF label
  <2>4. Moves(m) /\ OthersKept(m)
    BY <1>1, <1>2, <2>1, <2>2, <2>3, Zenon DEF Moves, OthersKept, SameSession
  <2>. QED  BY <1>2, <2>4, NoStep, MoveKeepsCopies DEF CopiesStep
<1>. QED  BY <1>3, <1>4, <1>5

\* The answer of the CDF: only a START that is accepted goes on to be stored.
LEMMA CopiesAnswer ==
  ASSUME TypeInv, TypeInv', CopyInv, NEW m \in Msgs, OnCcfResponse(m)
  PROVE  CopiesStep
<1>1. pc \in [Msgs -> PCs] /\ aca \in [Msgs -> [accepted : BOOLEAN, interim_interval : Nat]]
  BY Zenon DEF TypeInv, TypeOK
<1>2. pc[m] = "wait" /\ UNCHANGED <<msg, held, copy, fresh, idx, stores>>
  BY Zenon DEF OnCcfResponse
<1>3. PICK rc \in {"SUCCESS", "UNKNOWN_SESSION_ID", "OTHER"}, answered \in Intervals :
        LET interval == EffectiveInterval(answered, held[m].sess.interim_interval,
                                          msg[m].session_refresh_time)
        IN /\ aca' = [aca EXCEPT ![m] = [ accepted |-> (rc = "SUCCESS"),
                                          interim_interval |-> interval ]]
           /\ Goto(m, Reaction(m, rc, interval))
  BY Zenon DEF OnCcfResponse
<1>. DEFINE interval == EffectiveInterval(answered, held[m].sess.interim_interval,
                                          msg[m].session_refresh_time)
<1>4. /\ pc'[m] = Reaction(m, rc, interval)
      /\ aca'[m].accepted <=> rc = "SUCCESS"
      /\ \A n \in Msgs \ {m} : pc'[n] = pc[n] /\ aca'[n] = aca[n]
  BY <1>1, <1>3, Zenon DEF Goto
<1>5. /\ Reaction(m, rc, interval) \in {"post", "put", "kill", "update", "pass", "done"}
      /\ Reaction(m, rc, interval) \in {"post", "put"} =>
           msg[m].record_type = "START" /\ rc = "SUCCESS"
      /\ Reaction(m, rc, interval) \in {"kill", "update"} => msg[m].record_type = "INTERIM"
  BY Zenon DEF Reaction, RenewsTimer, Finish
<1>6. Moves(m) /\ OthersKept(m)
  BY <1>2, <1>4, <1>5, Zenon DEF Moves, OthersKept, SameSession, Accepted, OngoingTypes
<1>. QED  BY <1>2, <1>6, NoStep, MoveKeepsCopies, Zenon DEF CopiesStep

\* A step that changes no held session, and no request but one that is not an
\* accepted START, keeps the accepted STARTs.
LEMMA StartsUntouched ==
  ASSUME NEW m \in Msgs, OthersKept(m), ~Accepted(m)
  PROVE  StartsKept
BY Zenon DEF OthersKept, StartsKept, Accepted, SameSession

\* The reads: what is found in a store is genuine and fits it.
LEMMA CopiesLookup ==
  ASSUME TypeInv, TypeInv', CopyInv, NEW m \in Msgs, Lookup(m)
  PROVE  CopiesStep
<1>1. /\ pc \in [Msgs -> PCs] /\ held \in [Msgs -> Record] /\ fresh \in [Msgs -> BOOLEAN]
      /\ idx \in [Msgs -> Nat \ {0}] /\ idx[m] \in Nat \ {0}
  BY Zenon DEF TypeInv, TypeOK
<1>2. pc[m] = "lookup" /\ UNCHANGED <<msg, copy, aca, stores>>
  BY Zenon DEF Lookup
<1>3. msg[m].record_type \in OngoingTypes /\ ~Accepted(m)
  BY <1>2, LaterPlaces, Zenon
<1>4. PICK got \in GetData(Current(m)) :
        IF got.cas # 0
        THEN /\ held' = [held EXCEPT ![m] = [got EXCEPT !.sess = NextRecord(@)]]
             /\ fresh' = [fresh EXCEPT ![m] = (idx[m] > 1)]
             /\ idx' = [idx EXCEPT ![m] = 1]
             /\ Goto(m, IF msg[m].record_type = "INTERIM" THEN "write" ELSE "remove")
        ELSE NextStore(m, "lookup", "ignored") /\ UNCHANGED <<held, fresh>>
  BY Zenon DEF Lookup
<1>5. \A s \in Sites : SiteStep(s)
  BY <1>2, NoStep, Zenon
<1>6. CASE got.cas = 0
  <2>1. NextStore(m, "lookup", "ignored") /\ UNCHANGED <<held, fresh>>
    BY <1>4, <1>6, Zenon
  <2>2. /\ pc'[m] \in {"lookup", "ignored"}
        /\ \A n \in Msgs \ {m} : pc'[n] = pc[n] /\ idx'[n] = idx[n]
    BY <2>1, NextStoreMoves, Zenon
  <2>3. Moves(m) /\ OthersKept(m)
    BY <1>2, <1>3, <2>1, <2>2, Zenon DEF Moves, OthersKept, SameSession
  <2>. QED  BY <1>5, <2>3, MoveKeepsCopies, Zenon DEF CopiesStep
<1>7. CASE got.cas # 0
  <2>1. /\ held'[m] = [got EXCEPT !.sess = NextRecord(@)]
        /\ fresh'[m] <=> idx[m] > 1
        /\ pc'[m] \in {"write", "remove"}
        /\ \A n \in Msgs \ {m} : pc'[n] = pc[n] /\ idx'[n] = idx[n]
                                 /\ held'[n] = held[n] /\ fresh'[n] = fresh[n]
    BY <1>1, <1>4, <1>7, ZenonT(30) DEF Goto
  <2>2. OthersKept(m)
    BY <1>2, <2>1, ZenonT(30) DEF OthersKept
  <2>3. StartsKept
    BY <1>3, <2>2, StartsUntouched, Zenon
  <2>4. Current(m) \in Sites /\ Local(m) \in Sites /\ StoresOf(m)[1] = Local(m) /\ got \in Record
    BY StoreInSites, GetDataType, Zenon
  <2>5. /\ got = store[Current(m)] /\ got.cas < nextCas[Current(m)]
        /\ Genuine(got.sess) /\ got.sess \in Session
    BY <1>7, <2>4, ReadFits, Zenon
  <2>6. /\ SameSession(got.sess, held'[m].sess) /\ held'[m].cas = got.cas
        /\ held'[m].sess.acct_record_number = got.sess.acct_record_number + 1
        /\ got.sess.acct_record_number \in Nat
    BY <2>1, <2>4, <2>5 DEF NextRecord, SameSession, Session, SessionOf, Record
  <2>7. Genuine(got.sess)'
    BY <2>3, <2>5, GenuineKept, Zenon
  <2>8. Genuine(held[m].sess)'
    BY <2>3, <2>5, <2>6, GenuineKept, ZenonT(30) DEF Genuine, SameSession
  <2>9. ~fresh'[m] => Current(m) = Local(m)
    BY <1>1, <2>1, <2>4 DEF Current
  <2>10. Local(m)' = Local(m)
    BY <1>2, ZenonT(30) DEF Local
  <2>11. ~fresh'[m] => Fits(held[m], Local(m))'
    BY <1>2, <2>5, <2>6, <2>9, <2>10 DEF Fits, SameSession, stores
  <2>12. HoldsGenuine(m)' /\ FirstPlaces(m)' /\ CopiesGenuine(m)'
    BY <1>2, <1>3, <2>1, <2>8, <2>11, Zenon DEF HoldsGenuine, FirstPlaces, CopiesGenuine
  <2>. QED  BY <1>5, <2>2, <2>3, <2>12, CopiesKept, Zenon DEF CopiesStep
<1>. QED  BY <1>6, <1>7, Zenon

\* The read of a remote store by an INTERIM; a missing copy will be added with the
\* session the INTERIM holds.
LEMMA CopiesSyncRead ==
  ASSUME TypeInv, TypeInv', CopyInv, NEW m \in Msgs, SyncRead(m)
  PROVE  CopiesStep
<1>1. pc \in [Msgs -> PCs] /\ copy \in [Msgs -> Record]
  BY Zenon DEF TypeInv, TypeOK
<1>2. PICK got \in GetData(Current(m)) :
        copy' = [copy EXCEPT ![m] =
                   IF got.cas = 0 THEN [cas |-> 0, sess |-> held[m].sess]
                   ELSE [got EXCEPT !.sess = NextRecord(@)]]
  BY Zenon DEF SyncRead
<1>3. /\ pc[m] = "sync_read" /\ pc' = [pc EXCEPT ![m] = "sync_write"]
      /\ UNCHANGED <<msg, held, fresh, idx, aca, stores>>
  BY Zenon DEF SyncRead, Goto
<1>4. msg[m].record_type \in OngoingTypes /\ Genuine(held[m].sess) /\ ~Accepted(m)
  BY <1>3, LaterPlaces, Zenon
<1>5. OthersKept(m)
  BY <1>1, <1>2, <1>3, Zenon DEF OthersKept
<1>6. StartsKept
  BY <1>4, <1>5, StartsUntouched, Zenon
<1>7. Genuine(held[m].sess)'
  BY <1>3, <1>4, <1>6, GenuineKept, Zenon DEF Genuine
<1>8. Current(m) \in Sites /\ Current(m)' = Current(m) /\ got \in Record
  BY <1>3, StoreInSites, GetDataType, Zenon DEF Current, StoresOf
<1>9. Genuine(copy[m].sess)' /\ Fits(copy[m], Current(m))'
  <2>1. CASE got.cas = 0
    <3>1. copy'[m] = [cas |-> 0, sess |-> held[m].sess]
      BY <1>1, <1>2, <2>1, Zenon
    <3>. QED  BY <1>3, <1>7, <3>1 DEF Genuine, Fits
  <2>2. CASE got.cas # 0
    <3>1. /\ got = store[Current(m)] /\ got.cas < nextCas[Current(m)]
          /\ Genuine(got.sess) /\ got.sess \in Session
      BY <1>8, <2>2, ReadFits, Zenon
    <3>2. /\ SameSession(got.sess, copy'[m].sess) /\ copy'[m].cas = got.cas
          /\ copy'[m].sess.acct_record_number = got.sess.acct_record_number + 1
          /\ got.sess.acct_record_number \in Nat
      BY <1>1, <1>2, <1>8, <2>2, <3>1, Zenon DEF NextRecord, SameSession, Session,
         SessionOf, Record
    <3>3. Genuine(copy[m].sess)'
      BY <1>6, <3>1, <3>2, GenuineKept, ZenonT(30) DEF Genuine, SameSession
    <3>4. Fits(copy[m], Current(m))'
      BY <1>3, <1>8, <3>1, <3>2 DEF Fits, SameSession, stores
    <3>. QED  BY <3>3, <3>4, ZenonT(30)
  <2>. QED  BY <2>1, <2>2, Zenon
<1>10. HoldsGenuine(m)' /\ FirstPlaces(m)' /\ CopiesGenuine(m)'
  BY <1>1, <1>3, <1>4, <1>7, <1>9, Zenon DEF HoldsGenuine, FirstPlaces, CopiesGenuine
<1>11. \A s \in Sites : SiteStep(s)
  BY <1>3, NoStep, Zenon
<1>. QED  BY <1>5, <1>6, <1>10, <1>11, CopiesKept, Zenon DEF CopiesStep

\* The read of update_timer_id: the timer id goes into a session that may be
\* another one than the request's.
LEMMA CopiesRetimeRead ==
  ASSUME TypeInv, TypeInv', CopyInv, NEW m \in Msgs, RetimeRead(m)
  PROVE  CopiesStep
<1>1. pc \in [Msgs -> PCs] /\ copy \in [Msgs -> Record]
  BY DEF TypeInv, TypeOK
<1>2. pc[m] = "retime_read" /\ UNCHANGED <<msg, held, fresh, aca, stores>>
  BY Zenon DEF RetimeRead
<1>3. PICK got \in GetData(Current(m)) :
        IF got.cas # 0
        THEN /\ copy' = [copy EXCEPT ![m] =
                  [got EXCEPT !.sess = [@ EXCEPT !.timer_id = held[m].sess.timer_id]]]
             /\ Goto(m, "retime_write")
             /\ UNCHANGED idx
        ELSE /\ NextStore(m, "retime_read", Finish(aca[m].accepted))
             /\ UNCHANGED copy
  BY Zenon DEF RetimeRead
<1>4. msg[m].record_type \in OngoingTypes /\ Genuine(held[m].sess) /\ ~Accepted(m)
  BY <1>2, LaterPlaces, Zenon
<1>5. \A s \in Sites : SiteStep(s)
  BY <1>2, NoStep, Zenon
<1>6. CASE got.cas = 0
  <2>1. /\ NextStore(m, "retime_read", Finish(aca[m].accepted)) /\ UNCHANGED copy
        /\ Finish(aca[m].accepted) \in {"pass", "done"}
    BY <1>3, <1>6, Zenon DEF Finish
  <2>2. /\ pc'[m] \in {"retime_read", "pass", "done"}
        /\ \A n \in Msgs \ {m} : pc'[n] = pc[n] /\ idx'[n] = idx[n]
    BY <2>1, NextStoreMoves
  <2>3. Moves(m) /\ OthersKept(m)
    BY <1>2, <1>4, <2>1, <2>2, Zenon DEF Moves, OthersKept, SameSession
  <2>. QED  BY <1>5, <2>3, MoveKeepsCopies DEF CopiesStep
<1>7. CASE got.cas # 0
  <2>1. /\ copy'[m] = [got EXCEPT !.sess = [@ EXCEPT !.timer_id = held[m].sess.timer_id]]
        /\ pc'[m] = "retime_write" /\ UNCHANGED idx
        /\ \A n \in Msgs \ {m} : pc'[n] = pc[n] /\ copy'[n] = copy[n]
    BY <1>1, <1>3, <1>7, Zenon DEF Goto
  <2>2. OthersKept(m)
    BY <1>2, <2>1, Zenon DEF OthersKept
  <2>3. StartsKept
    BY <1>4, <2>2, StartsUntouched
  <2>4. Current(m) \in Sites /\ Current(m)' = Current(m) /\ got \in Record
    BY <1>2, <2>1, StoreInSites, GetDataType, Zenon DEF Current, StoresOf
  <2>5. /\ got = store[Current(m)] /\ got.cas < nextCas[Current(m)]
        /\ Genuine(got.sess) /\ got.sess \in Session
    BY <1>7, <2>4, ReadFits, Zenon
  <2>6. /\ SameSession(got.sess, copy'[m].sess) /\ copy'[m].cas = got.cas
        /\ copy'[m].sess.acct_record_number = got.sess.acct_record_number
        /\ got.sess.acct_record_number \in Nat
    BY <2>1, <2>4, <2>5 DEF SameSession, Session, SessionOf, Record
  <2>7. Genuine(copy[m].sess)'
    <3>1. PICK sess : sess = got.sess
      OBVIOUS
    <3>2. Genuine(sess)' /\ SameSession(sess, copy'[m].sess)
      BY <2>3, <2>5, <2>6, <3>1, GenuineKept, Zenon
    <3>3. Accepted(copy[m].sess.session_id)'
      BY <3>2, Zenon DEF Genuine, SameSession, Accepted
    <3>. QED  BY <3>2, <3>3, Zenon DEF Genuine, SameSession
  <2>8. Genuine(held[m].sess)'
    BY <1>2, <1>4, <2>3, GenuineKept, Zenon DEF Genuine
  <2>9. Fits(copy[m], Current(m))'
    BY <1>2, <2>4, <2>5, <2>6 DEF Fits, SameSession, stores
  <2>10. HoldsGenuine(m)' /\ FirstPlaces(m)' /\ CopiesGenuine(m)'
    BY <1>2, <1>4, <2>1, <2>7, <2>8, <2>9, Zenon DEF HoldsGenuine, FirstPlaces,
       CopiesGenuine
  <2>. QED  BY <1>5, <2>2, <2>3, <2>10, CopiesKept DEF CopiesStep
<1>. QED  BY <1>6, <1>7

\* A request arrives.
LEMMA CopiesRequest ==
  ASSUME TypeInv, TypeInv', CopyInv, NEW m \in Msgs, Request(m)
  PROVE  CopiesStep
<1>1. pc \in [Msgs -> PCs] /\ msg \in [Msgs -> Message] /\ held \in [Msgs -> Record]
  BY Zenon DEF TypeInv, TypeOK
<1>2. pc[m] = "idle" /\ UNCHANGED <<copy, fresh, idx, aca, stores>>
  BY Zenon DEF Request, First, Ongoing, TimerPop, Arrive
<1>3. \A s \in Sites : SiteStep(s)
  BY <1>2, NoStep, Zenon
<1>4. ~Accepted(m)
  BY <1>2, Zenon DEF Accepted
<1>5. CASE First(m)
  <2>1. /\ pc'[m] = "send" /\ msg'[m].record_type \notin OngoingTypes
        /\ held'[m].sess.session_id = m
        /\ \A n \in Msgs \ {m} : pc'[n] = pc[n] /\ msg'[n] = msg[n] /\ held'[n] = held[n]
    BY <1>1, <1>5 DEF First, Arrive, Goto
  <2>2. OthersKept(m)
    BY <1>2, <2>1, Zenon DEF OthersKept
  <2>3. StartsKept
    BY <1>4, <2>2, StartsUntouched, Zenon
  <2>4. HoldsGenuine(m)' /\ FirstPlaces(m)' /\ CopiesGenuine(m)'
    BY <2>1, Zenon DEF HoldsGenuine, FirstPlaces, CopiesGenuine, SessionId
  <2>. QED  BY <1>3, <2>2, <2>3, <2>4, CopiesKept, Zenon DEF CopiesStep
<1>6. CASE Ongoing(m) \/ TimerPop(m)
  <2>1. /\ pc'[m] = "lookup" /\ msg'[m].record_type \in OngoingTypes
        /\ UNCHANGED held
        /\ \A n \in Msgs \ {m} : pc'[n] = pc[n] /\ msg'[n] = msg[n]
    <3>1. \E type \in OngoingTypes :
            \E site, refresh, timer_interim : Arrive(m, type, site, refresh, timer_interim)
      BY <1>6, Zenon DEF Ongoing, TimerPop, OngoingTypes
    <3>2. pc' = [pc EXCEPT ![m] = "lookup"] /\ UNCHANGED held
      BY <1>6, Zenon DEF Ongoing, TimerPop, Goto
    <3>. QED  BY <1>1, <3>1, <3>2 DEF Arrive
  <2>2. OthersKept(m)
    BY <1>2, <2>1, Zenon DEF OthersKept
  <2>3. StartsKept
    BY <1>4, <2>2, StartsUntouched
  <2>4. HoldsGenuine(m)' /\ FirstPlaces(m)' /\ CopiesGenuine(m)'
    BY <2>1, Zenon DEF HoldsGenuine, FirstPlaces, CopiesGenuine
  <2>. QED  BY <1>3, <2>2, <2>3, <2>4, CopiesKept DEF CopiesStep
<1>. QED  BY <1>5, <1>6, Zenon DEF Request

\* Expiring timers and lost records.
LEMMA CopiesEnvironment ==
  ASSUME TypeInv, TypeInv', CopyInv,
         \/ \E t \in TimerIds : TimerExpires(t)
         \/ \E s \in Sites : Lose(s)
         \/ UNCHANGED vars
  PROVE  CopiesStep
<1>1. UNCHANGED handling /\ UNCHANGED nextCas
  BY Zenon DEF TimerExpires, Lose, vars, stores
<1>2. \A t \in Sites : store'[t] = store[t] \/ store'[t].cas = 0
  <2>1. store \in [Sites -> Record]
    BY Zenon DEF TypeInv, TypeOK
  <2>. QED  BY <2>1 DEF TimerExpires, Lose, vars, stores, Absent
<1>3. \A t \in Sites : SiteStep(t)
  <2>1. \A t \in Sites : /\ nextCas[t] \in Nat
                         /\ store[t].cas # 0 => store[t].sess.acct_record_number \in Nat
    BY Zenon DEF TypeInv, TypeOK, Session, SessionOf
  <2>. QED  BY <1>1, <1>2, <2>1 DEF SiteStep
<1>4. UNCHANGED <<pc, msg, held, copy, fresh, idx, aca>>
  BY <1>1, Zenon DEF handling
<1>5. StartsKept
  BY <1>4, Zenon DEF StartsKept, Accepted, SameSession
<1>6. CASE Msgs = {}
  <2>1. \A s \in Sites : store[s].cas = 0 /\ 0 < nextCas[s] /\ nextCas'[s] = nextCas[s]
    BY <1>1, <1>6, Zenon DEF CopyInv, StoresGenuine, Genuine, Accepted
  <2>2. \A s \in Sites : StoresGenuine(s)'
    BY <1>2, <2>1, Zenon DEF StoresGenuine
  <2>. QED  BY <1>3, <1>6, <2>2, Zenon DEF CopiesStep, CopyInv
<1>7. ASSUME NEW m \in Msgs
      PROVE  CopyInv'
  <2>1. OthersKept(m)
    BY <1>4, Zenon DEF OthersKept
  <2>2. FirstPlaces(m) /\ HoldsGenuine(m) /\ CopiesGenuine(m)
    BY Zenon DEF CopyInv
  <2>3. /\ Local(m)' = Local(m) /\ Current(m)' = Current(m)
        /\ Local(m) \in Sites /\ Current(m) \in Sites
        /\ held[m] \in Record /\ copy[m] \in Record
    BY <1>4, StoreInSites, Zenon DEF Local, Current, StoresOf, TypeInv, TypeOK
  <2>4. FirstPlaces(m)'
    BY <1>4, <2>2, Zenon DEF FirstPlaces, SessionId
  <2>5. /\ Genuine(held[m].sess) => Genuine(held[m].sess)'
        /\ Genuine(copy[m].sess) => Genuine(copy[m].sess)'
    BY <1>4, ZenonT(30) DEF Genuine, Accepted
  <2>6. /\ Fits(held[m], Local(m)) => Fits(held[m], Local(m))'
        /\ Fits(copy[m], Current(m)) => Fits(copy[m], Current(m))'
    BY <1>3, <1>4, <2>3, FitsKept DEF Fits
  <2>7. HoldsGenuine(m)' /\ CopiesGenuine(m)'
    BY <1>4, <2>2, <2>5, <2>6, Zenon DEF HoldsGenuine, CopiesGenuine
  <2>. QED  BY <1>3, <1>5, <2>1, <2>4, <2>7, CopiesKept, Zenon
<1>. QED  BY <1>3, <1>6, <1>7, Zenon DEF CopiesStep

-----------------------------------------------------------------------------
(* The theorems *)

\* No site has a record and no request has arrived.
LEMMA CopiesInit == Init => CopyInv
<1>. SUFFICES ASSUME Init PROVE CopyInv
  BY Zenon
<1>1. /\ \A m \in Msgs : pc[m] = "idle"
      /\ \A s \in Sites : store[s].cas = 0 /\ nextCas[s] = 1
  BY Zenon DEF Init, Absent
<1>. QED  BY <1>1 DEF CopyInv, FirstPlaces, HoldsGenuine, CopiesGenuine, StoresGenuine

\* Every step of the specification is one of those above.
LEMMA CopiesNext == TypeInv /\ TypeInv' /\ CopyInv /\ [Next]_vars => CopiesStep
<1>. SUFFICES ASSUME TypeInv, TypeInv', CopyInv, [Next]_vars PROVE CopiesStep
  BY Zenon
<1>1. ASSUME NEW m \in Msgs, Handle(m)
      PROVE  CopiesStep
  BY <1>1, CopiesLookup, CopiesWrite, CopiesSyncRead, CopiesRemoteWrite, CopiesDelete,
     CopiesChronos, CopiesSend, Zenon DEF Handle
<1>2. ASSUME NEW m \in Msgs, Respond(m)
      PROVE  CopiesStep
  BY <1>2, CopiesAnswer, CopiesChronos, CopiesPut, CopiesRetimeRead, CopiesRemoteWrite,
     CopiesDelete, CopiesSend, Zenon DEF Respond
<1>. QED  BY <1>1, <1>2, CopiesRequest, CopiesSend, CopiesEnvironment, Zenon DEF Next, Rest

\* The invariant holds with any number of sites and any failures.
LEMMA CopyInvariant == Spec => []CopyInv
<1>1. TypeInv /\ TypeInv' /\ CopyInv /\ [Next]_vars => CopyInv'
  BY CopiesNext, Zenon DEF CopiesStep
<1>. QED  BY <1>1, CopiesInit, TypeInvariant, PTL DEF Spec

\* Whatever fails, a session in a store goes back to a START the CDF accepted,
\* through any chain of the copies that handle() and update_timer_id() make.
THEOREM AcceptedOnly == Spec => []OnlyAcceptedSessions
<1>1. CopyInv => OnlyAcceptedSessions
  BY Zenon DEF CopyInv, StoresGenuine, Genuine, Accepted, OnlyAcceptedSessions
<1>. QED  BY <1>1, CopyInvariant, PTL

\* All copies of a session have its CCFs, refresh time and interval.
THEOREM CopiesAgree == Spec => []SitesAgree
<1>1. CopyInv => SitesAgree
  BY DEF CopyInv, StoresGenuine, Genuine, SitesAgree
<1>. QED  BY <1>1, CopyInvariant, PTL

\* No write of handle() or update_timer_id() lowers the number of a stored session
\* or replaces the session by another.
THEOREM UpdatesKept == Spec => NoLostUpdate
<1>1. TypeInv /\ TypeInv' /\ CopyInv /\ [Next]_vars =>
        [\A s \in Sites :
           store[s].cas # 0 /\ store'[s].cas # 0 =>
             /\ store'[s].sess.session_id = store[s].sess.session_id
             /\ store'[s].sess.acct_record_number >= store[s].sess.acct_record_number]_vars
  BY CopiesNext, Zenon DEF CopiesStep, SiteStep
<1>. QED  BY <1>1, CopyInvariant, TypeInvariant, PTL DEF Spec, NoLostUpdate

-----------------------------------------------------------------------------
(* The numbers of the requests *)

\* Request m keeps what its ACR says, once it has its number.
KeepsNumber(m) ==
  /\ pc[m] \in {"idle", "lookup", "ignored"} => pc'[m] \in {"lookup", "ignored"}
  /\ pc[m] \notin {"idle", "lookup", "ignored"} =>
       /\ msg'[m].record_type = msg[m].record_type
       /\ Number(m)' = Number(m)
       /\ SessionId(m)' = SessionId(m)
  /\ Numbered(m) => Numbered(m)'
  /\ pc'[m] \in {"sync_write", "retime_write"} => copy'[m].sess.acct_record_number > 0

\* A step of handle() or on_ccf_response() for m, its arrival and a crash change
\* nothing of another request.
LEMMA OthersKeep ==
  ASSUME TypeInv, NEW m \in Msgs, Request(m) \/ Handle(m) \/ Respond(m) \/ Crash(m)
  PROVE  OthersKept(m)
<1>1. /\ pc \in [Msgs -> PCs] /\ msg \in [Msgs -> Message] /\ held \in [Msgs -> Record]
      /\ copy \in [Msgs -> Record] /\ fresh \in [Msgs -> BOOLEAN]
      /\ idx \in [Msgs -> Nat \ {0}]
      /\ aca \in [Msgs -> [accepted : BOOLEAN, interim_interval : Nat]]
  BY Zenon DEF TypeInv, TypeOK
<1>. SUFFICES ASSUME NEW n \in Msgs, n # m
              PROVE  /\ pc'[n] = pc[n] /\ msg'[n] = msg[n] /\ held'[n] = held[n]
                     /\ copy'[n] = copy[n] /\ fresh'[n] = fresh[n] /\ idx'[n] = idx[n]
                     /\ aca'[n] = aca[n]
  BY Zenon DEF OthersKept
<1>2. CASE Request(m)
  BY <1>1, <1>2, Zenon DEF Request, First, Ongoing, TimerPop, Arrive, Goto
<1>3. CASE Handle(m)
  <2>1. CASE Lookup(m) \/ Cancel(m) \/ Send(m)
    BY <1>1, <2>1, Zenon DEF Lookup, Cancel, Send, NextStore, Goto
  <2>2. CASE Write(m) \/ Remove(m) \/ RemoveRemote(m)
    BY <1>1, <2>2, Zenon DEF Write, Remove, RemoveRemote, NextStore, Goto
  <2>3. CASE SyncRead(m) \/ SyncWrite(m)
    BY <1>1, <2>3, Zenon DEF SyncRead, SyncWrite, NextStore, Goto
  <2>. QED  BY <1>3, <2>1, <2>2, <2>3, Zenon DEF Handle
<1>4. CASE Respond(m)
  <2>1. CASE OnCcfResponse(m) \/ Post(m) \/ Put(m)
    BY <1>1, <2>1, Zenon DEF OnCcfResponse, Post, Put, NextStore, Goto
  <2>2. CASE Update(m) \/ RetimeRead(m)
    BY <1>1, <2>2, Zenon DEF Update, RetimeRead, NextStore, Goto
  <2>3. CASE RetimeWrite(m) \/ Kill(m) \/ HealthCheckPassed(m)
    BY <1>1, <2>3, Zenon DEF RetimeWrite, Kill, HealthCheckPassed, NextStore, Goto
  <2>. QED  BY <1>4, <2>1, <2>2, <2>3, Zenon DEF Respond
<1>5. CASE Crash(m)
  BY <1>1, <1>5, Zenon DEF Crash, Goto
<1>. QED  BY <1>2, <1>3, <1>4, <1>5, Zenon

\* The invariant depends on the request that takes the step, the stores and the
\* ACRs of that request.
LEMMA NumbersOf ==
  ASSUME TypeInv, CopyNumbers, NEW m \in Msgs, OthersKept(m),
         StoresNumbered', HoldsNumber(m)',
         \A a \in acrs' : SentAs(a)' \/ (a \in acrs /\ a.msg # m)
  PROVE  CopyNumbers'
<1>1. ASSUME NEW n \in Msgs
      PROVE  HoldsNumber(n)'
  BY Zenon DEF CopyNumbers, HoldsNumber, Number, OthersKept
<1>2. ASSUME NEW a \in acrs', a \in acrs, a.msg # m
      PROVE  SentAs(a)'
  <2>1. a.msg \in Msgs /\ SentAs(a)
    BY <1>2, Zenon DEF TypeInv, TypeOK, Acr, CopyNumbers
  <2>2. /\ pc'[a.msg] = pc[a.msg] /\ msg'[a.msg] = msg[a.msg]
        /\ held'[a.msg] = held[a.msg]
    BY <1>2, <2>1, Zenon DEF OthersKept
  <2>. QED  BY <2>1, <2>2, Zenon DEF SentAs, Numbered, SessionId, Number
<1>. QED  BY <1>1, <1>2, Zenon DEF CopyNumbers

\* A request that keeps its number keeps the invariant.
LEMMA NumberKept ==
  ASSUME TypeInv, CopyNumbers, NEW m \in Msgs, OthersKept(m), KeepsNumber(m),
         StoresNumbered', UNCHANGED acrs
  PROVE  CopyNumbers'
<1>1. HoldsNumber(m)
  BY Zenon DEF CopyNumbers
<1>2. HoldsNumber(m)'
  BY <1>1, Zenon DEF HoldsNumber, KeepsNumber
<1>3. ASSUME NEW a \in acrs', a.msg = m
      PROVE  SentAs(a)'
  <2>1. SentAs(a)
    BY <1>3, Zenon DEF CopyNumbers
  <2>2. pc[m] \notin {"idle", "lookup", "ignored"} /\ Numbered(m)
    BY <1>3, <2>1, Zenon DEF SentAs, Numbered
  <2>. QED  BY <1>3, <2>1, <2>2, Zenon DEF SentAs, KeepsNumber
<1>. QED  BY <1>2, <1>3, NumbersOf, Zenon

\* A write of a session with a number leaves the stores with numbers.
LEMMA NumberWritten ==
  ASSUME TypeInv, StoresNumbered, NEW s \in Sites, NEW sess, NEW cas, NEW rc,
         sess.acct_record_number > 0, SetSession(s, sess, cas, rc)
  PROVE  StoresNumbered'
<1>1. store \in [Sites -> Record]
  BY Zenon DEF TypeInv, TypeOK
<1>2. CASE UNCHANGED stores
  BY <1>2, Zenon DEF stores, StoresNumbered
<1>3. CASE Written(s, sess, Expiry(sess))
  <2>1. \/ store' = [store EXCEPT ![s] = Absent]
        \/ store' = [store EXCEPT ![s] = [cas |-> nextCas[s], sess |-> sess]]
    BY <1>3, Zenon DEF Written
  <2>2. ASSUME NEW t \in Sites, store'[t].cas # 0
        PROVE  store'[t].sess.acct_record_number > 0
    <3>1. CASE t # s
      BY <1>1, <2>1, <2>2, <3>1, Zenon DEF StoresNumbered
    <3>2. CASE t = s
      <4>1. store'[t] = Absent \/ store'[t] = [cas |-> nextCas[s], sess |-> sess]
        BY <1>1, <2>1, <3>2, Zenon
      <4>. QED  BY <2>2, <4>1 DEF Absent
    <3>. QED  BY <3>1, <3>2, Zenon
  <2>. QED  BY <2>2, Zenon DEF StoresNumbered
<1>. QED  BY <1>2, <1>3, SetDataEffect, Zenon DEF SetSession

\* So does a deletion, and a loss.
LEMMA NumberDeleted ==
  ASSUME TypeInv, StoresNumbered, NEW s \in Sites, NEW cas, NEW rc,
         CasDelete(s, cas, rc) \/ DeleteData(s) \/ Lose(s) \/ UNCHANGED store
  PROVE  StoresNumbered'
<1>1. store \in [Sites -> Record]
  BY Zenon DEF TypeInv, TypeOK
<1>2. UNCHANGED store \/ store' = [store EXCEPT ![s] = Absent]
  BY SetDataEffect, Zenon DEF CasDelete, DeleteData, Lose, Written, stores
<1>3. \A t \in Sites : store'[t] = store[t] \/ store'[t].cas = 0
  BY <1>1, <1>2 DEF Absent
<1>. QED  BY <1>3, Zenon DEF StoresNumbered

\* The arrival of a request.
LEMMA NumberRequest ==
  ASSUME TypeInv, CopyNumbers, NEW m \in Msgs, Request(m)
  PROVE  CopyNumbers'
<1>1. pc \in [Msgs -> PCs] /\ msg \in [Msgs -> Message] /\ held \in [Msgs -> Record]
  BY Zenon DEF TypeInv, TypeOK
<1>2. pc[m] = "idle" /\ UNCHANGED <<stores, acrs>>
  BY Zenon DEF Request, First, Ongoing, TimerPop, Arrive
<1>3. OthersKept(m) /\ StoresNumbered'
  BY <1>2, OthersKeep, Zenon DEF CopyNumbers, StoresNumbered, stores
<1>4. CASE First(m)
  <2>1. pc'[m] = "send" /\ msg'[m].record_type \notin OngoingTypes /\ Number(m)' = 1
    BY <1>1, <1>4 DEF First, Arrive, Goto, Number
  <2>2. HoldsNumber(m)'
    BY <2>1, Zenon DEF HoldsNumber
  <2>3. \A a \in acrs' : a \in acrs /\ a.msg # m
    BY <1>2, Zenon DEF CopyNumbers, SentAs, Numbered
  <2>. QED  BY <1>3, <2>2, <2>3, NumbersOf, Zenon
<1>5. CASE Ongoing(m) \/ TimerPop(m)
  <2>1. pc'[m] = "lookup"
    BY <1>1, <1>5, Zenon DEF Ongoing, TimerPop, Goto
  <2>2. KeepsNumber(m)
    BY <1>2, <2>1, Zenon DEF KeepsNumber, Numbered
  <2>. QED  BY <1>2, <1>3, <2>2, NumberKept, Zenon
<1>. QED  BY <1>4, <1>5, Zenon DEF Request

\* The lookup: the number is one more than that of a store.
LEMMA NumberLookup ==
  ASSUME TypeInv, CopyInv, CopyNumbers, NEW m \in Msgs, Lookup(m)
  PROVE  CopyNumbers'
<1>1. pc \in [Msgs -> PCs] /\ held \in [Msgs -> Record]
  BY Zenon DEF TypeInv, TypeOK
<1>2. pc[m] = "lookup" /\ UNCHANGED <<msg, stores, acrs>>
  BY Zenon DEF Lookup
<1>3. OthersKept(m) /\ StoresNumbered'
  BY <1>2, OthersKeep, Zenon DEF CopyNumbers, StoresNumbered, stores, Handle
<1>4. PICK got \in GetData(Current(m)) :
        IF got.cas # 0
        THEN /\ held' = [held EXCEPT ![m] = [got EXCEPT !.sess = NextRecord(@)]]
             /\ Goto(m, IF msg[m].record_type = "INTERIM" THEN "write" ELSE "remove")
        ELSE NextStore(m, "lookup", "ignored")
  BY Zenon DEF Lookup
<1>5. CASE got.cas = 0
  <2>1. pc'[m] \in {"lookup", "ignored"}
    BY <1>4, <1>5, NextStoreMoves, Zenon
  <2>2. KeepsNumber(m)
    BY <1>2, <2>1, Zenon DEF KeepsNumber, Numbered
  <2>. QED  BY <1>2, <1>3, <2>2, NumberKept, Zenon
<1>6. CASE got.cas # 0
  <2>1. held'[m] = [got EXCEPT !.sess = NextRecord(@)] /\ pc'[m] \in {"write", "remove"}
    BY <1>1, <1>4, <1>6, Zenon DEF Goto
  <2>2. Current(m) \in Sites /\ got \in Record
    BY StoreInSites, GetDataType, Zenon
  <2>3. got = store[Current(m)] /\ got.sess \in Session
    BY <1>6, <2>2, ReadFits, Zenon
  <2>4. got.sess.acct_record_number > 0 /\ got.sess.acct_record_number \in Nat
    BY <1>6, <2>2, <2>3, Zenon DEF CopyNumbers, StoresNumbered, Session, SessionOf
  <2>5. Number(m)' = got.sess.acct_record_number + 1
    BY <2>1, <2>2, <2>3 DEF Number, NextRecord, Record, Session, SessionOf
  <2>6. Number(m)' > 1
    BY <2>4, <2>5
  <2>7. msg'[m].record_type \in OngoingTypes
    BY <1>2, LaterPlaces, Zenon
  <2>8. HoldsNumber(m)'
    BY <2>1, <2>6, <2>7, Zenon DEF HoldsNumber
  <2>9. \A a \in acrs' : a \in acrs /\ a.msg # m
    BY <1>2, Zenon DEF CopyNumbers, SentAs, Numbered
  <2>. QED  BY <1>3, <2>8, <2>9, NumbersOf, Zenon
<1>. QED  BY <1>5, <1>6, Zenon

\* A later request after its lookup holds a number that may be stored.
LEMMA LaterNumber ==
  ASSUME TypeInv, CopyInv, CopyNumbers, NEW m \in Msgs,
         pc[m] \in {"write", "sync_read", "sync_write", "remove", "remove_remote",
                    "cancel", "update", "retime_read", "retime_write", "kill"}
  PROVE  held[m].sess.acct_record_number > 0
<1>1. Number(m) > 1 /\ held[m].sess \in Session
  BY LaterPlaces, Zenon DEF CopyNumbers, HoldsNumber, TypeInv, TypeOK
<1>2. held[m].sess.acct_record_number \in Nat
  BY <1>1, Zenon DEF Session, SessionOf
<1>. QED  BY <1>1, <1>2 DEF Number

\* The writes, with the session held, a copy, or that of a START.
LEMMA NumberWrite ==
  ASSUME TypeInv, CopyInv, CopyNumbers, NEW m \in Msgs,
         Write(m) \/ SyncWrite(m) \/ RetimeWrite(m) \/ Put(m)
  PROVE  CopyNumbers'
<1>1. pc \in [Msgs -> PCs]
  BY Zenon DEF TypeInv, TypeOK
<1>2. UNCHANGED <<msg, held, copy, acrs>> /\ pc[m] \notin {"idle", "lookup", "ignored"}
  BY Zenon DEF Write, SyncWrite, RetimeWrite, Put
<1>3. OthersKept(m) /\ Current(m) \in Sites /\ Local(m) \in Sites /\ HoldsNumber(m) /\ StoresNumbered
  BY OthersKeep, StoreInSites, Zenon DEF Handle, Respond, CopyNumbers
<1>4. /\ pc'[m] \in {"lookup", "sync_read", "send", "retime_read", "pass", "done", "put"}
      /\ Numbered(m) => pc'[m] # "lookup"
  <2>1. CASE Write(m)
    BY <1>1, <2>1, NextStoreMoves, Zenon DEF Write, Goto, Numbered
  <2>2. CASE SyncWrite(m)
    BY <1>1, <2>2, NextStoreMoves DEF SyncWrite, Goto
  <2>3. CASE RetimeWrite(m)
    <3>1. /\ NextStore(m, "retime_read", Finish(aca[m].accepted))
          /\ Finish(aca[m].accepted) \in {"pass", "done"}
      BY <2>3, Zenon DEF RetimeWrite, Finish
    <3>. QED  BY <3>1, NextStoreMoves
  <2>4. CASE Put(m)
    <3>1. NextStore(m, "put", "pass")
      BY <2>4, Zenon DEF Put
    <3>. QED  BY <3>1, NextStoreMoves
  <2>. QED  BY <2>1, <2>2, <2>3, <2>4, Zenon
<1>5. StoresNumbered'
  <2>1. CASE Write(m)
    <3>1. held[m].sess.acct_record_number > 0
      BY <2>1, LaterNumber, Zenon DEF Write
    <3>. QED  BY <1>3, <2>1, <3>1, NumberWritten, Zenon DEF Write
  <2>2. CASE SyncWrite(m) \/ RetimeWrite(m)
    <3>1. copy[m].sess.acct_record_number > 0
      BY <1>3, <2>2, Zenon DEF SyncWrite, RetimeWrite, HoldsNumber
    <3>. QED  BY <1>3, <2>2, <3>1, NumberWritten, Zenon DEF SyncWrite, RetimeWrite
  <2>3. CASE Put(m)
    <3> DEFINE sess == [held[m].sess EXCEPT !.interim_interval = aca[m].interim_interval]
    <3>1. pc[m] = "put" /\ \E rc \in Status : SetSession(Current(m), sess, 0, rc)
      BY <2>3, Zenon DEF Put
    <3>2. msg[m].record_type = "START" /\ held[m].sess \in Session
      BY <3>1, Zenon DEF CopyInv, FirstPlaces, TypeInv, TypeOK
    <3>3. Number(m) = 1
      BY <1>3, <3>1, <3>2, Zenon DEF HoldsNumber, OngoingTypes
    <3>4. sess.acct_record_number = 1
      BY <3>2, <3>3, Zenon DEF Number, Session, SessionOf
    <3>. HIDE DEF sess
    <3>5. sess.acct_record_number > 0
      BY <3>4
    <3>. QED  BY <1>3, <3>1, <3>5, NumberWritten, Zenon
  <2>. QED  BY <2>1, <2>2, <2>3, Zenon
<1>6. KeepsNumber(m)
  BY <1>2, <1>4, Zenon DEF KeepsNumber, Numbered, Number, SessionId
<1>. QED  BY <1>2, <1>3, <1>5, <1>6, NumberKept, Zenon

\* The deletes of a STOP and of a 5002.
LEMMA NumberDelete ==
  ASSUME TypeInv, CopyInv, CopyNumbers, NEW m \in Msgs,
         Remove(m) \/ RemoveRemote(m) \/ Kill(m)
  PROVE  CopyNumbers'
<1>1. pc \in [Msgs -> PCs]
  BY Zenon DEF TypeInv, TypeOK
<1>2. UNCHANGED <<msg, held, copy, acrs>> /\ pc[m] \in {"remove", "remove_remote", "kill"}
  BY Zenon DEF Remove, RemoveRemote, Kill
<1>3. OthersKept(m) /\ Current(m) \in Sites /\ Local(m) \in Sites /\ StoresNumbered
  BY OthersKeep, StoreInSites, Zenon DEF Handle, Respond, CopyNumbers
<1>4. StoresNumbered'
  BY <1>3, NumberDeleted, Zenon DEF Remove, RemoveRemote, Kill
<1>5. /\ pc'[m] \in {"lookup", "remove_remote", "cancel", "kill", "done"}
      /\ pc[m] # "remove" => pc'[m] # "lookup"
  BY <1>1, NextStoreMoves DEF Remove, RemoveRemote, Kill, Goto
<1>6. KeepsNumber(m)
  BY <1>2, <1>5, Zenon DEF KeepsNumber, Numbered, Number, SessionId
<1>. QED  BY <1>2, <1>3, <1>4, <1>6, NumberKept, Zenon

\* The reads of handle()'s remote loop and of update_timer_id().
LEMMA NumberRead ==
  ASSUME TypeInv, CopyInv, CopyNumbers, NEW m \in Msgs, SyncRead(m) \/ RetimeRead(m)
  PROVE  CopyNumbers'
<1>1. pc \in [Msgs -> PCs] /\ copy \in [Msgs -> Record]
  BY Zenon DEF TypeInv, TypeOK
<1>2. UNCHANGED <<msg, held, stores, acrs>> /\ pc[m] \in {"sync_read", "retime_read"}
  BY Zenon DEF SyncRead, RetimeRead
<1>3. OthersKept(m) /\ StoresNumbered'
  BY <1>2, OthersKeep, Zenon DEF CopyNumbers, StoresNumbered, stores, Handle, Respond
<1>4. Current(m) \in Sites /\ held[m].sess.acct_record_number > 0
  BY <1>2, StoreInSites, LaterNumber, Zenon
<1>5. ASSUME NEW got \in GetData(Current(m)), got.cas # 0
      PROVE  /\ got \in Record /\ got.sess \in Session
             /\ got.sess.acct_record_number \in Nat /\ got.sess.acct_record_number > 0
  <2>1. got = store[Current(m)] /\ got.sess \in Session /\ got \in Record
    BY <1>4, <1>5, ReadFits, GetDataType, Zenon
  <2>. QED  BY <1>4, <1>5, <2>1, Zenon DEF CopyNumbers, StoresNumbered, Session, SessionOf
<1>6. CASE SyncRead(m)
  <2>1. PICK got \in GetData(Current(m)) :
          copy' = [copy EXCEPT ![m] =
                     IF got.cas = 0 THEN [cas |-> 0, sess |-> held[m].sess]
                     ELSE [got EXCEPT !.sess = NextRecord(@)]]
    BY <1>6, Zenon DEF SyncRead
  <2>3. copy'[m].sess.acct_record_number > 0
    <3>1. CASE got.cas = 0
      BY <1>1, <1>4, <2>1, <3>1, Zenon
    <3>2. CASE got.cas # 0
      <4>1. copy'[m].sess.acct_record_number = got.sess.acct_record_number + 1
        BY <1>1, <1>5, <2>1, <3>2, Zenon DEF NextRecord, Session, SessionOf, Record
      <4>. QED  BY <1>5, <3>2, <4>1
    <3>. QED  BY <3>1, <3>2, Zenon
  <2>4. pc'[m] = "sync_write"
    BY <1>1, <1>6, Zenon DEF SyncRead, Goto
  <2>5. KeepsNumber(m)
    BY <1>2, <2>3, <2>4, Zenon DEF KeepsNumber, Numbered, Number, SessionId
  <2>. QED  BY <1>2, <1>3, <2>5, NumberKept, Zenon
<1>7. CASE RetimeRead(m)
  <2>1. PICK got \in GetData(Current(m)) :
          IF got.cas # 0
          THEN /\ copy' = [copy EXCEPT ![m] =
                    [got EXCEPT !.sess = [@ EXCEPT !.timer_id = held[m].sess.timer_id]]]
               /\ Goto(m, "retime_write")
          ELSE NextStore(m, "retime_read", Finish(aca[m].accepted))
    BY <1>7, Zenon DEF RetimeRead
  <2>2. /\ pc'[m] \in {"retime_read", "retime_write", "pass", "done"}
        /\ pc'[m] = "retime_write" => got.cas # 0
    <3>1. CASE got.cas # 0
      BY <1>1, <2>1, <3>1, Zenon DEF Goto
    <3>2. CASE got.cas = 0
      <4>1. /\ NextStore(m, "retime_read", Finish(aca[m].accepted))
            /\ Finish(aca[m].accepted) \in {"pass", "done"}
        BY <2>1, <3>2, Zenon DEF Finish
      <4>. QED  BY <4>1, NextStoreMoves
    <3>. QED  BY <3>1, <3>2, Zenon
  <2>3. ASSUME got.cas # 0
        PROVE  copy'[m].sess.acct_record_number = got.sess.acct_record_number
    <3>1. copy'[m] = [got EXCEPT !.sess = [@ EXCEPT !.timer_id = held[m].sess.timer_id]]
      BY <1>1, <2>1, <2>3, Zenon
    <3>. QED  BY <1>5, <2>3, <3>1 DEF Session, SessionOf, Record
  <2>4. KeepsNumber(m)
    BY <1>2, <1>5, <2>2, <2>3, Zenon DEF KeepsNumber, Numbered, Number, SessionId
  <2>. QED  BY <1>2, <1>3, <2>4, NumberKept, Zenon
<1>. QED  BY <1>6, <1>7, Zenon

\* The send: the ACR says what the request holds.
LEMMA NumberSend ==
  ASSUME TypeInv, CopyNumbers, NEW m \in Msgs, Send(m)
  PROVE  CopyNumbers'
<1> DEFINE new == [ msg         |-> m,
                    session_id  |-> held[m].sess.session_id,
                    number      |-> held[m].sess.acct_record_number,
                    record_type |-> msg[m].record_type ]
<1>1. pc \in [Msgs -> PCs] /\ msg \in [Msgs -> Message]
  BY Zenon DEF TypeInv, TypeOK
<1>2. pc[m] = "send" /\ UNCHANGED <<held, copy, stores>> /\ acrs' = acrs \cup {new}
  BY Zenon DEF Send
<1>3. OthersKept(m) /\ StoresNumbered'
  BY <1>2, OthersKeep, Zenon DEF CopyNumbers, StoresNumbered, stores, Handle
<1>4. pc'[m] = "wait" /\ msg'[m].record_type = msg[m].record_type
  BY <1>1, Zenon DEF Send, Goto, Message
<1>5. HoldsNumber(m)'
  BY <1>2, <1>4, Zenon DEF CopyNumbers, HoldsNumber, Number
<1>6. ASSUME NEW a, a = new
      PROVE  SentAs(a)'
  <2>1. /\ a.msg = m /\ a.session_id = held[m].sess.session_id
        /\ a.number = held[m].sess.acct_record_number /\ a.record_type = msg[m].record_type
    BY <1>6, Zenon
  <2>. QED  BY <1>2, <1>4, <2>1, Zenon DEF SentAs, Numbered, Number, SessionId
<1>. HIDE DEF new
<1>7. ASSUME NEW a \in acrs, a.msg = m
      PROVE  SentAs(a)'
  BY <1>2, <1>4, <1>7, Zenon DEF CopyNumbers, SentAs, Numbered, Number, SessionId
<1>8. \A a \in acrs' : SentAs(a)' \/ (a \in acrs /\ a.msg # m)
  BY <1>2, <1>6, <1>7, Zenon
<1>. QED  BY <1>3, <1>5, <1>8, NumbersOf, Zenon

\* The other steps touch neither the stores nor a number.
LEMMA NumberOther ==
  ASSUME TypeInv, CopyNumbers, NEW m \in Msgs,
         \/ Cancel(m) \/ OnCcfResponse(m) \/ Post(m) \/ Update(m)
         \/ HealthCheckPassed(m) \/ Crash(m)
  PROVE  CopyNumbers'
<1>1. pc \in [Msgs -> PCs] /\ held \in [Msgs -> Record] /\ copy \in [Msgs -> Record]
  BY Zenon DEF TypeInv, TypeOK
<1>2. UNCHANGED <<msg, stores, acrs>> /\ pc[m] \notin {"idle", "ignored"}
  BY Zenon DEF Cancel, OnCcfResponse, Post, Update, HealthCheckPassed, Crash, FinalPCs
<1>3. OthersKept(m) /\ StoresNumbered'
  BY <1>2, OthersKeep, Zenon DEF CopyNumbers, StoresNumbered, stores, Handle, Respond
<1>4. /\ pc[m] # "lookup" => Number(m)' = Number(m) /\ SessionId(m)' = SessionId(m)
  <2>1. CASE UNCHANGED held
    BY <2>1, Zenon DEF Number, SessionId
  <2>2. CASE Post(m) \/ Update(m)
    <3>1. PICK id : held' = [held EXCEPT ![m].sess.timer_id = id]
      BY <2>2, Zenon DEF Post, Update
    <3>2. held[m].sess \in Session
      BY <2>2, Zenon DEF Post, Update, TypeInv, TypeOK
    <3>3. held'[m].sess = [held[m].sess EXCEPT !.timer_id = id]
      BY <1>1, <3>1, Zenon DEF Record
    <3>. QED  BY <3>2, <3>3, Zenon DEF Number, SessionId, Session, SessionOf
  <2>. QED  BY <2>1, <2>2, Zenon DEF Cancel, OnCcfResponse, HealthCheckPassed, Crash
<1>5. /\ pc'[m] \in {"send", "put", "post", "kill", "update", "retime_read", "pass", "done", "ignored"}
      /\ pc[m] = "lookup" => pc'[m] = "ignored"
      /\ Numbered(m) => pc'[m] # "ignored"
  <2>1. CASE OnCcfResponse(m)
    <3>1. PICK rc, interval : Goto(m, Reaction(m, rc, interval))
      BY <2>1, Zenon DEF OnCcfResponse
    <3>2. Reaction(m, rc, interval) \in {"post", "put", "kill", "update", "pass", "done"}
      BY Zenon DEF Reaction, Finish
    <3>. QED  BY <1>1, <2>1, <3>1, <3>2, Zenon DEF OnCcfResponse, Goto
  <2>2. CASE Crash(m)
    BY <1>1, <2>2, Zenon DEF Crash, Goto, Numbered
  <2>3. CASE Cancel(m) \/ Post(m) \/ Update(m) \/ HealthCheckPassed(m)
    BY <1>1, <2>3, Zenon DEF Cancel, Post, Update, HealthCheckPassed, Goto, Finish
  <2>. QED  BY <2>1, <2>2, <2>3, Zenon
<1>6. KeepsNumber(m)
  BY <1>2, <1>4, <1>5, Zenon DEF KeepsNumber, Numbered
<1>. QED  BY <1>2, <1>3, <1>6, NumberKept, Zenon

\* Every step of the specification is one of those above, or the environment's.
LEMMA NumberNext == TypeInv /\ CopyInv /\ CopyNumbers /\ [Next]_vars => CopyNumbers'
<1>. SUFFICES ASSUME TypeInv, CopyInv, CopyNumbers, [Next]_vars PROVE CopyNumbers'
  BY Zenon
<1>1. ASSUME NEW m \in Msgs, Handle(m)
      PROVE  CopyNumbers'
  BY <1>1, NumberLookup, NumberWrite, NumberRead, NumberDelete, NumberOther, NumberSend,
     Zenon DEF Handle
<1>2. ASSUME NEW m \in Msgs, Respond(m)
      PROVE  CopyNumbers'
  BY <1>2, NumberOther, NumberWrite, NumberRead, NumberDelete, Zenon DEF Respond
<1>3. CASE (\E t \in TimerIds : TimerExpires(t)) \/ (\E s \in Sites : Lose(s)) \/ UNCHANGED vars
  <2>1. UNCHANGED <<handling, acrs>>
    BY <1>3, Zenon DEF TimerExpires, Lose, vars
  <2>2. UNCHANGED <<pc, msg, held, copy, acrs>>
    BY <2>1, Zenon DEF handling
  <2>3. StoresNumbered'
    <3>1. CASE UNCHANGED store
      BY <3>1, Zenon DEF CopyNumbers, StoresNumbered
    <3>2. CASE \E s \in Sites : Lose(s)
      BY <3>2, NumberDeleted, Zenon DEF CopyNumbers
    <3>. QED  BY <1>3, <3>1, <3>2, Zenon DEF TimerExpires, vars, stores
  <2>. QED  BY <2>2, <2>3, Zenon DEF CopyNumbers, HoldsNumber, SentAs, Numbered, Number, SessionId
<1>. QED  BY <1>1, <1>2, <1>3, NumberRequest, NumberOther, Zenon DEF Next, Rest

\* The invariant of the numbers holds with any number of sites and any failures.
LEMMA NumberInvariant == Spec => []CopyNumbers
<1>1. Init => CopyNumbers
  <2>. SUFFICES ASSUME Init PROVE CopyNumbers
    BY Zenon
  <2>1. /\ \A m \in Msgs : pc[m] = "idle"
        /\ \A s \in Sites : store[s].cas = 0
        /\ acrs = {}
    BY Zenon DEF Init, Absent
  <2>. QED  BY <2>1 DEF CopyNumbers, StoresNumbered, HoldsNumber
<1>. QED  BY <1>1, NumberNext, CopyInvariant, TypeInvariant, PTL DEF Spec

\* Whatever sites handle the later requests and whatever fails to be saved, the ACR
\* that opens a session has a lower number than every other of the session.
THEOREM FirstLowest == Spec => []FirstIsLowest
<1>1. TypeInv /\ CopyInv /\ CopyNumbers => FirstIsLowest
  <2>. SUFFICES ASSUME TypeInv, CopyInv, CopyNumbers, NEW a \in acrs, NEW b \in acrs,
                       a.record_type \notin OngoingTypes, a.session_id = b.session_id, a # b
                PROVE  a.number < b.number
    BY Zenon DEF FirstIsLowest
  <2>1. a \in Acr /\ b \in Acr /\ a.msg \in Msgs /\ b.msg \in Msgs
    BY Zenon DEF TypeInv, TypeOK, Acr
  <2>2. SentAs(a) /\ SentAs(b)
    BY Zenon DEF CopyNumbers
  <2>3. \A m \in Msgs : HoldsNumber(m) /\ FirstPlaces(m)
    BY Zenon DEF CopyNumbers, CopyInv
  <2>4. a.number = 1 /\ a.session_id = a.msg
    BY <2>1, <2>2, <2>3, Zenon DEF SentAs, HoldsNumber, FirstPlaces, Numbered
  <2>5. b.msg # a.msg
    BY <2>1, <2>2 DEF SentAs, Acr
  <2>6. b.record_type \in OngoingTypes
    BY <2>1, <2>2, <2>3, <2>4, <2>5, Zenon DEF SentAs, FirstPlaces, Numbered
  <2>7. b.number > 1 /\ b.number \in Nat
    BY <2>1, <2>2, <2>3, <2>6, Zenon DEF SentAs, HoldsNumber, Numbered, Acr
  <2>. QED  BY <2>4, <2>7
<1>. QED  BY <1>1, NumberInvariant, CopyInvariant, TypeInvariant, PTL
=============================================================================
