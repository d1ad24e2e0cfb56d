------------------------ MODULE SessionManagerProofs ------------------------
(***************************************************************************)
(* Proofs about SessionManager for any number of requests, sites, timers,  *)
(* CCF lists, refresh times and intervals.                                 *)
(***************************************************************************)
EXTENDS SessionManager, TLAPS

-----------------------------------------------------------------------------
(* Type correctness *)

\* TypeOK is inductive once an idle request is known to start at its local
\* store: its site, and so its list of stores, is chosen when it arrives.
TypeInv ==
  /\ TypeOK
  /\ \A m \in Msgs : pc[m] = "idle" => idx[m] = 1

\* The stores of a site: its own first, all of them sites.
LEMMA StoreOrderType ==
  ASSUME NEW s \in Sites
  PROVE  /\ Len(StoreOrder[s]) \in Nat \ {0}
         /\ StoreOrder[s][1] = s
         /\ \A i \in 1..Len(StoreOrder[s]) : StoreOrder[s][i] \in Sites
<1>1. StoreOrder[s] \in Seq(Sites)
  BY StoreAssumption, Zenon
<1>2. Len(StoreOrder[s]) > 0 /\ StoreOrder[s][1] = s
  BY StoreAssumption, Zenon
<1>. QED  BY <1>1, <1>2

\* The store the iterator is at is a site, as is the local store.
LEMMA StoreInSites ==
  ASSUME TypeInv, NEW m \in Msgs
  PROVE  /\ Current(m) \in Sites
         /\ Local(m) \in Sites
         /\ Len(StoresOf(m)) \in Nat \ {0}
         /\ StoresOf(m)[1] = Local(m)
<1>1. msg[m] \in Message /\ idx[m] \in Nat \ {0} /\ idx[m] <= Len(StoresOf(m))
  BY Zenon DEF TypeInv, TypeOK
<1>2. msg[m].site \in Sites
  BY <1>1, Zenon DEF Message
<1>. QED  BY <1>1, <1>2, StoreOrderType DEF Current, Local, StoresOf

\* Moving the iterator on keeps it within the list of stores.
LEMMA NextStoreType ==
  ASSUME TypeInv, NEW m \in Msgs, NEW body \in PCs \ {"idle"}, NEW after \in PCs \ {"idle"},
         NextStore(m, body, after)
  PROVE  /\ pc' \in [Msgs -> PCs]
         /\ idx' \in [Msgs -> Nat \ {0}]
         /\ \A n \in Msgs : idx'[n] <= Len(StoresOf(n))
         /\ \A n \in Msgs : pc'[n] = "idle" => idx'[n] = 1
         /\ pc' = [pc EXCEPT ![m] = body] \/ pc' = [pc EXCEPT ![m] = after]
<1>1. /\ pc \in [Msgs -> PCs] /\ idx \in [Msgs -> Nat \ {0}]
      /\ \A n \in Msgs : idx[n] <= Len(StoresOf(n)) /\ (pc[n] = "idle" => idx[n] = 1)
  BY Zenon DEF TypeInv, TypeOK
<1>2. \A n \in Msgs : Len(StoresOf(n)) \in Nat \ {0}
  BY StoreInSites, Zenon
<1>3. CASE idx[m] < Len(StoresOf(m))
  <2>1. idx' = [idx EXCEPT ![m] = idx[m] + 1] /\ pc' = [pc EXCEPT ![m] = body]
    BY <1>3, Zenon DEF NextStore, Goto
  <2>. QED  BY <1>1, <1>2, <1>3, <2>1
<1>4. CASE ~(idx[m] < Len(StoresOf(m)))
  <2>1. idx' = [idx EXCEPT ![m] = 1] /\ pc' = [pc EXCEPT ![m] = after]
    BY <1>4, Zenon DEF NextStore, Goto
  <2>. QED  BY <1>1, <1>2, <2>1
<1>. QED  BY <1>3, <1>4, Zenon

\* Going to another label leaves the iterator as it is.
LEMMA GotoType ==
  ASSUME TypeInv, NEW m \in Msgs, NEW label \in PCs \ {"idle"},
         Goto(m, label), UNCHANGED idx
  PROVE  /\ pc' \in [Msgs -> PCs]
         /\ idx' \in [Msgs -> Nat \ {0}]
         /\ \A n \in Msgs : idx'[n] <= Len(StoresOf(n))
         /\ \A n \in Msgs : pc'[n] = "idle" => idx'[n] = 1
         /\ pc' = [pc EXCEPT ![m] = label]
BY Zenon DEF Goto, TypeInv, TypeOK

\* A write to a store keeps the stores well typed.
LEMMA SetDataType ==
  ASSUME TypeInv, NEW s \in Sites, NEW sess, NEW cas, NEW expiry, NEW rc,
         expiry # 0 => sess \in Session,
         SetData(s, sess, cas, expiry, rc)
  PROVE  /\ store' \in [Sites -> Record]
         /\ nextCas' \in [Sites -> Nat \ {0}]
         /\ \A t \in Sites : store'[t].cas # 0 => store'[t].sess \in Session
<1>1. /\ store \in [Sites -> Record] /\ nextCas \in [Sites -> Nat \ {0}]
      /\ \A t \in Sites : store[t].cas # 0 => store[t].sess \in Session
  BY Zenon DEF TypeInv, TypeOK
<1>2. CASE UNCHANGED stores
  BY <1>1, <1>2, Zenon DEF stores
<1>3. CASE Written(s, sess, expiry)
  BY <1>1, <1>3 DEF Written, Record, Absent
<1>. QED  BY <1>2, <1>3, Zenon DEF SetData

\* What get_session_data returns is a record; a found session is one.
LEMMA GetDataType ==
  ASSUME TypeInv, NEW s \in Sites, NEW got \in GetData(s)
  PROVE  got \in Record /\ (got.cas # 0 => got.sess \in Session)
<1>1. CASE got = store[s]
  BY <1>1, Zenon DEF TypeInv, TypeOK
<1>2. CASE got = Absent
  BY <1>2, Zenon DEF Absent, Record
<1>. QED  BY <1>1, <1>2, Zenon DEF GetData

\* Incrementing the record number of a session gives a session.
LEMMA NextRecordType ==
  ASSUME NEW s \in Session
  PROVE  NextRecord(s) \in Session
BY DEF NextRecord, Session, SessionOf

\* The initial state is well typed.
LEMMA TypeInit == Init => TypeInv
<1>. SUFFICES ASSUME Init PROVE TypeInv
  BY Zenon
<1>1. (CHOOSE s \in Sites : TRUE) \in Sites
  BY StoreAssumption, Zenon
<1>2. \A m \in Msgs : Len(StoresOf(m)) >= 1 /\ Len(StoresOf(m)) \in Nat
  BY <1>1, StoreOrderType DEF Init, StoresOf
<1>. QED  BY <1>1, <1>2 DEF Init, TypeInv, TypeOK, PCs, Message, RecordTypes, Record, Absent

\* An arriving request is well typed and starts at the local store of its site.
LEMMA ArriveType ==
  ASSUME TypeInv, NEW m \in Msgs, NEW type \in RecordTypes, NEW site \in FrontSites,
         NEW refresh \in Nat, NEW timer_interim \in BOOLEAN,
         Arrive(m, type, site, refresh, timer_interim)
  PROVE  /\ msg' \in [Msgs -> Message]
         /\ idx[m] = 1
         /\ \A n \in Msgs : idx[n] <= Len(StoresOf(n)')
<1>1. msg \in [Msgs -> Message] /\ site \in Sites /\ idx[m] = 1
  BY StoreAssumption, Zenon DEF TypeInv, TypeOK, Arrive
<1>2. msg' = [msg EXCEPT ![m] = [ record_type |-> type, timer_interim |-> timer_interim,
                                  session_refresh_time |-> refresh, site |-> site ]]
  BY Zenon DEF Arrive
<1>3. msg' \in [Msgs -> Message]
  BY <1>1, <1>2, Zenon DEF Message
<1>4. ASSUME NEW n \in Msgs
      PROVE  idx[n] <= Len(StoresOf(n)')
  <2>1. CASE n = m
    <3>1. StoresOf(n)' = StoreOrder[site]
      BY <1>1, <1>2, <2>1, Zenon DEF StoresOf
    <3>2. Len(StoreOrder[site]) \in Nat \ {0}
      BY <1>1, StoreOrderType, Zenon
    <3>. QED  BY <1>1, <2>1, <3>1, <3>2
  <2>2. CASE n # m
    <3>1. StoresOf(n)' = StoresOf(n)
      BY <1>1, <1>2, <2>2, Zenon DEF StoresOf
    <3>2. idx[n] <= Len(StoresOf(n))
      BY Zenon DEF TypeInv, TypeOK
    <3>. QED  BY <3>1, <3>2, Zenon
  <2>. QED  BY <2>1, <2>2, Zenon
<1>. QED  BY <1>1, <1>3, <1>4, Zenon

\* A START or EVENT (the else branch of handle()) keeps the state well typed.
LEMMA TypeFirst ==
  ASSUME TypeInv, NEW m \in Msgs, First(m)
  PROVE  TypeInv'
<1>1. PICK type \in RecordTypes \ OngoingTypes, site \in FrontSites,
           refresh \in RefreshTimes, ccfs \in CcfLists :
        /\ Arrive(m, type, site, refresh, FALSE)
        /\ held' = [held EXCEPT ![m] =
             [ cas |-> 0,
               sess |-> [ session_id           |-> m,
                          ccf                  |-> ccfs,
                          acct_record_number   |-> 1,
                          timer_id             |-> NO_TIMER,
                          session_refresh_time |-> refresh,
                          interim_interval     |-> 0 ]]]
        /\ Goto(m, "send")
        /\ UNCHANGED <<copy, fresh, idx, aca, stores, timers, acrs, passed>>
  BY Zenon DEF First
<1>2. pc' = [pc EXCEPT ![m] = "send"]
  BY <1>1, Zenon DEF Goto
<1>3. msg' \in [Msgs -> Message] /\ \A n \in Msgs : idx[n] <= Len(StoresOf(n)')
  BY <1>1, ArriveType, ValueAssumption, Zenon
<1>4. held' \in [Msgs -> Record] /\ held'[m].sess \in Session
      /\ \A n \in Msgs : n # m => held'[n] = held[n]
  BY <1>1, ValueAssumption, Zenon DEF TypeInv, TypeOK, Record, Session, SessionOf
<1>. QED  BY <1>1, <1>2, <1>3, <1>4, Zenon DEF TypeInv, TypeOK, stores, PCs, HandlePCs

\* An INTERIM or STOP, of Sprout or of a timer, keeps the state well typed.
LEMMA TypeOngoing ==
  ASSUME TypeInv, NEW m \in Msgs, Ongoing(m) \/ TimerPop(m)
  PROVE  TypeInv'
<1>1. PICK type \in RecordTypes, site \in FrontSites, refresh \in Nat, ti \in BOOLEAN :
        Arrive(m, type, site, refresh, ti)
  BY ValueAssumption, Zenon DEF Ongoing, TimerPop, OngoingTypes, RecordTypes
<1>2. /\ pc' = [pc EXCEPT ![m] = "lookup"]
      /\ UNCHANGED <<held, copy, fresh, idx, aca, stores, timers, acrs, passed>>
  BY Zenon DEF Ongoing, TimerPop, Goto
<1>3. msg' \in [Msgs -> Message] /\ \A n \in Msgs : idx[n] <= Len(StoresOf(n)')
  BY <1>1, ArriveType, Zenon
<1>. QED  BY <1>2, <1>3, Zenon DEF TypeInv, TypeOK, stores, PCs, HandlePCs

\* The lookup of handle() keeps the state well typed: what it holds afterwards is
\* a session.
LEMMA TypeLookup ==
  ASSUME TypeInv, NEW m \in Msgs, Lookup(m)
  PROVE  TypeInv'
<1>1. PICK got \in GetData(Current(m)) :
        IF got.cas # 0
        THEN /\ held' = [held EXCEPT ![m] = [got EXCEPT !.sess = NextRecord(@)]]
             /\ fresh' = [fresh EXCEPT ![m] = (idx[m] > 1)]
             /\ idx' = [idx EXCEPT ![m] = 1]
             /\ Goto(m, IF msg[m].record_type = "INTERIM" THEN "write" ELSE "remove")
        ELSE NextStore(m, "lookup", "ignored") /\ UNCHANGED <<held, fresh>>
  BY Zenon DEF Lookup
<1>2. UNCHANGED <<msg, copy, aca, stores, timers, acrs, passed>>
  BY Zenon DEF Lookup
<1>3. CASE got.cas # 0
  <2>1. got \in Record /\ got.sess \in Session
    BY <1>3, StoreInSites, GetDataType, Zenon
  <2> DEFINE read == [got EXCEPT !.sess = NextRecord(@)]
  <2>2. read \in Record /\ read.sess \in Session
    BY <2>1, NextRecordType, Zenon DEF Record
  <2>3. \A n \in Msgs : 1 <= Len(StoresOf(n))
    BY StoreInSites
  <2>4. pc' = [pc EXCEPT ![m] = "write"] \/ pc' = [pc EXCEPT ![m] = "remove"]
    BY <1>1, <1>3, Zenon DEF Goto
  <2>5. /\ held' = [held EXCEPT ![m] = read]
        /\ fresh' = [fresh EXCEPT ![m] = (idx[m] > 1)]
        /\ idx' = [idx EXCEPT ![m] = 1]
    BY <1>1, <1>3, Zenon
  <2>6. (idx[m] > 1) \in BOOLEAN
    OBVIOUS
  <2> HIDE DEF read
  <2>7. fresh' \in [Msgs -> BOOLEAN] /\ held' \in [Msgs -> Record] /\ idx' \in [Msgs -> Nat \ {0}]
    BY <2>2, <2>5, <2>6 DEF TypeInv, TypeOK
  <2>. QED  BY <1>2, <2>2, <2>3, <2>4, <2>5, <2>7, ZenonT(30)
            DEF TypeInv, TypeOK, StoresOf, stores, PCs, HandlePCs
<1>4. CASE got.cas = 0
  <2>1. NextStore(m, "lookup", "ignored") /\ UNCHANGED <<held, fresh>>
    BY <1>1, <1>4, Zenon
  <2>2. /\ pc' \in [Msgs -> PCs] /\ idx' \in [Msgs -> Nat \ {0}]
        /\ \A n \in Msgs : idx'[n] <= Len(StoresOf(n)) /\ (pc'[n] = "idle" => idx'[n] = 1)
        /\ pc' = [pc EXCEPT ![m] = "lookup"] \/ pc' = [pc EXCEPT ![m] = "ignored"]
    BY <2>1, NextStoreType, Zenon DEF PCs, HandlePCs, FinalPCs
  <2>. QED  BY <1>2, <2>1, <2>2 DEF TypeInv, TypeOK, StoresOf, stores
<1>. QED  BY <1>3, <1>4, Zenon

\* The local write of an INTERIM keeps the state well typed.
LEMMA TypeWrite ==
  ASSUME TypeInv, NEW m \in Msgs, Write(m)
  PROVE  TypeInv'
<1>1. PICK rc \in Status :
        /\ SetSession(Local(m), held[m].sess,
                      IF fresh[m] THEN 0 ELSE held[m].cas, rc)
        /\ IF rc = "DATA_CONTENTION"
           THEN Goto(m, "lookup") /\ UNCHANGED idx
           ELSE NextStore(m, "sync_read", "send")
  BY Zenon DEF Write
<1>2. pc[m] = "write" /\ UNCHANGED <<msg, held, copy, fresh, aca, timers, acrs, passed>>
  BY Zenon DEF Write
<1>3. /\ store' \in [Sites -> Record] /\ nextCas' \in [Sites -> Nat \ {0}]
      /\ \A t \in Sites : store'[t].cas # 0 => store'[t].sess \in Session
  <2>1. held[m].sess \in Session
    BY <1>2, Zenon DEF TypeInv, TypeOK
  <2>. QED  BY <1>1, <2>1, StoreInSites, SetDataType, Zenon DEF SetSession
<1>4. /\ pc' \in [Msgs -> PCs] /\ idx' \in [Msgs -> Nat \ {0}]
      /\ \A n \in Msgs : idx'[n] <= Len(StoresOf(n)) /\ (pc'[n] = "idle" => idx'[n] = 1)
      /\ \/ pc' = [pc EXCEPT ![m] = "lookup"]
         \/ pc' = [pc EXCEPT ![m] = "sync_read"]
         \/ pc' = [pc EXCEPT ![m] = "send"]
  <2>1. CASE rc = "DATA_CONTENTION"
    BY <1>1, <2>1, GotoType, Zenon DEF PCs, HandlePCs
  <2>2. CASE rc # "DATA_CONTENTION"
    BY <1>1, <2>2, NextStoreType, Zenon DEF PCs, HandlePCs
  <2>. QED  BY <2>1, <2>2, Zenon
<1>. QED  BY <1>2, <1>3, <1>4, ZenonT(30) DEF TypeInv, TypeOK, StoresOf, stores

\* Reading a remote copy keeps the state well typed: the copy is a session, read
\* or made from the local one.
LEMMA TypeSyncRead ==
  ASSUME TypeInv, NEW m \in Msgs, SyncRead(m)
  PROVE  TypeInv'
<1>1. PICK got \in GetData(Current(m)) :
        copy' = [copy EXCEPT ![m] =
                   IF got.cas = 0 THEN [cas |-> 0, sess |-> held[m].sess]
                   ELSE [got EXCEPT !.sess = NextRecord(@)]]
  BY Zenon DEF SyncRead
<1>2. /\ pc[m] = "sync_read"
      /\ pc' = [pc EXCEPT ![m] = "sync_write"]
      /\ UNCHANGED <<msg, held, fresh, idx, aca, stores, timers, acrs, passed>>
  BY Zenon DEF SyncRead, Goto
<1> DEFINE c == IF got.cas = 0 THEN [cas |-> 0, sess |-> held[m].sess]
                ELSE [got EXCEPT !.sess = NextRecord(@)]
<1>3. c \in Record /\ c.sess \in Session
  <2>1. CASE got.cas = 0
    <3>1. held[m].sess \in Session
      BY <1>2, Zenon DEF TypeInv, TypeOK
    <3>2. [cas |-> 0, sess |-> held[m].sess] \in Record
      BY <3>1, Zenon DEF Record
    <3>. QED  BY <2>1, <3>1, <3>2, Zenon
  <2>2. CASE got.cas # 0
    <3>1. got \in Record /\ got.sess \in Session
      BY <2>2, StoreInSites, GetDataType
    <3>2. [got EXCEPT !.sess = NextRecord(@)] \in Record
          /\ [got EXCEPT !.sess = NextRecord(@)].sess \in Session
      BY <3>1, NextRecordType, Zenon DEF Record
    <3>. QED  BY <2>2, <3>2, Zenon
  <2>. QED  BY <2>1, <2>2, Zenon
<1>4. copy' = [copy EXCEPT ![m] = c]
  BY <1>1, Zenon
<1> HIDE DEF c
<1>. QED  BY <1>2, <1>3, <1>4, Zenon DEF TypeInv, TypeOK, StoresOf, stores, PCs, HandlePCs

\* Writing a remote copy keeps the state well typed.
LEMMA TypeSyncWrite ==
  ASSUME TypeInv, NEW m \in Msgs, SyncWrite(m)
  PROVE  TypeInv'
<1>1. PICK rc \in Status :
        /\ SetSession(Current(m), copy[m].sess, copy[m].cas, rc)
        /\ IF rc = "DATA_CONTENTION"
           THEN Goto(m, "sync_read") /\ UNCHANGED idx
           ELSE NextStore(m, "sync_read", "send")
  BY Zenon DEF SyncWrite
<1>2. pc[m] = "sync_write" /\ UNCHANGED <<msg, held, copy, fresh, aca, timers, acrs, passed>>
  BY Zenon DEF SyncWrite
<1>3. /\ store' \in [Sites -> Record] /\ nextCas' \in [Sites -> Nat \ {0}]
      /\ \A t \in Sites : store'[t].cas # 0 => store'[t].sess \in Session
  <2>1. copy[m].sess \in Session
    BY <1>2, Zenon DEF TypeInv, TypeOK
  <2>. QED  BY <1>1, <2>1, StoreInSites, SetDataType, Zenon DEF SetSession
<1>4. /\ pc' \in [Msgs -> PCs] /\ idx' \in [Msgs -> Nat \ {0}]
      /\ \A n \in Msgs : idx'[n] <= Len(StoresOf(n)) /\ (pc'[n] = "idle" => idx'[n] = 1)
      /\ \/ pc' = [pc EXCEPT ![m] = "sync_read"]
         \/ pc' = [pc EXCEPT ![m] = "send"]
  <2>1. CASE rc = "DATA_CONTENTION"
    BY <1>1, <2>1, GotoType, Zenon DEF PCs, HandlePCs
  <2>2. CASE rc # "DATA_CONTENTION"
    BY <1>1, <2>2, NextStoreType, Zenon DEF PCs, HandlePCs
  <2>. QED  BY <2>1, <2>2, Zenon
<1>. QED  BY <1>2, <1>3, <1>4 DEF TypeInv, TypeOK, StoresOf, stores

\* The CAS delete of a STOP keeps the state well typed.
LEMMA TypeRemove ==
  ASSUME TypeInv, NEW m \in Msgs, Remove(m)
  PROVE  TypeInv'
<1>1. PICK rc \in Status :
        /\ CasDelete(Local(m), held[m].cas, rc)
        /\ IF rc = "DATA_CONTENTION"
           THEN Goto(m, "lookup") /\ UNCHANGED idx
           ELSE NextStore(m, "remove_remote", "cancel")
  BY Zenon DEF Remove
<1>2. pc[m] = "remove" /\ UNCHANGED <<msg, held, copy, fresh, aca, timers, acrs, passed>>
  BY Zenon DEF Remove
<1>3. /\ store' \in [Sites -> Record] /\ nextCas' \in [Sites -> Nat \ {0}]
      /\ \A t \in Sites : store'[t].cas # 0 => store'[t].sess \in Session
  BY <1>1, StoreInSites, SetDataType, Zenon DEF CasDelete
<1>4. /\ pc' \in [Msgs -> PCs] /\ idx' \in [Msgs -> Nat \ {0}]
      /\ \A n \in Msgs : idx'[n] <= Len(StoresOf(n)) /\ (pc'[n] = "idle" => idx'[n] = 1)
      /\ \/ pc' = [pc EXCEPT ![m] = "lookup"]
         \/ pc' = [pc EXCEPT ![m] = "remove_remote"]
         \/ pc' = [pc EXCEPT ![m] = "cancel"]
  <2>1. CASE rc = "DATA_CONTENTION"
    BY <1>1, <2>1, GotoType, Zenon DEF PCs, HandlePCs
  <2>2. CASE rc # "DATA_CONTENTION"
    BY <1>1, <2>2, NextStoreType, Zenon DEF PCs, HandlePCs
  <2>. QED  BY <2>1, <2>2, Zenon
<1>. QED  BY <1>2, <1>3, <1>4, ZenonT(30) DEF TypeInv, TypeOK, StoresOf, stores

\* Deleting a record keeps the stores well typed.
LEMMA DeleteDataType ==
  ASSUME TypeInv, NEW s \in Sites, DeleteData(s)
  PROVE  /\ store' \in [Sites -> Record]
         /\ nextCas' \in [Sites -> Nat \ {0}]
         /\ \A t \in Sites : store'[t].cas # 0 => store'[t].sess \in Session
<1>1. /\ store \in [Sites -> Record] /\ nextCas \in [Sites -> Nat \ {0}]
      /\ \A t \in Sites : store[t].cas # 0 => store[t].sess \in Session
  BY Zenon DEF TypeInv, TypeOK
<1>2. Absent \in Record /\ Absent.cas = 0
  BY Zenon DEF Absent, Record
<1>3. nextCas' = nextCas /\ (store' = store \/ store' = [store EXCEPT ![s] = Absent])
  BY Zenon DEF DeleteData
<1>. QED  BY <1>1, <1>2, <1>3, Zenon

\* The remote deletes of a STOP keep the state well typed.
LEMMA TypeRemoveRemote ==
  ASSUME TypeInv, NEW m \in Msgs, RemoveRemote(m)
  PROVE  TypeInv'
<1>1. /\ pc[m] = "remove_remote"
      /\ UNCHANGED <<msg, held, copy, fresh, aca, timers, acrs, passed>>
  BY Zenon DEF RemoveRemote
<1>2. /\ store' \in [Sites -> Record] /\ nextCas' \in [Sites -> Nat \ {0}]
      /\ \A t \in Sites : store'[t].cas # 0 => store'[t].sess \in Session
  BY StoreInSites, DeleteDataType, Zenon DEF RemoveRemote
<1>3. /\ pc' \in [Msgs -> PCs] /\ idx' \in [Msgs -> Nat \ {0}]
      /\ \A n \in Msgs : idx'[n] <= Len(StoresOf(n)) /\ (pc'[n] = "idle" => idx'[n] = 1)
      /\ pc' = [pc EXCEPT ![m] = "remove_remote"] \/ pc' = [pc EXCEPT ![m] = "cancel"]
  BY NextStoreType, Zenon DEF RemoveRemote, PCs, HandlePCs
<1>. QED  BY <1>1, <1>2, <1>3, ZenonT(30) DEF TypeInv, TypeOK, StoresOf, stores

\* The deletes that follow a 5002 keep the state well typed.
LEMMA TypeKill ==
  ASSUME TypeInv, NEW m \in Msgs, Kill(m)
  PROVE  TypeInv'
<1>1. /\ pc[m] = "kill"
      /\ UNCHANGED <<msg, held, copy, fresh, aca, timers, acrs, passed>>
  BY Zenon DEF Kill
<1>2. /\ store' \in [Sites -> Record] /\ nextCas' \in [Sites -> Nat \ {0}]
      /\ \A t \in Sites : store'[t].cas # 0 => store'[t].sess \in Session
  BY StoreInSites, DeleteDataType, Zenon DEF Kill
<1>3. /\ pc' \in [Msgs -> PCs] /\ idx' \in [Msgs -> Nat \ {0}]
      /\ \A n \in Msgs : idx'[n] <= Len(StoresOf(n)) /\ (pc'[n] = "idle" => idx'[n] = 1)
      /\ pc' = [pc EXCEPT ![m] = "kill"] \/ pc' = [pc EXCEPT ![m] = "done"]
  BY NextStoreType, Zenon DEF Kill, PCs, ResponsePCs, FinalPCs
<1>. QED  BY <1>1, <1>2, <1>3, ZenonT(30) DEF TypeInv, TypeOK, StoresOf, stores

\* Cancelling the timer keeps the state well typed.
LEMMA TypeCancel ==
  ASSUME TypeInv, NEW m \in Msgs, Cancel(m)
  PROVE  TypeInv'
<1>1. /\ pc[m] = "cancel" /\ Goto(m, "send")
      /\ UNCHANGED <<msg, held, copy, fresh, idx, aca, stores, acrs, passed>>
  BY Zenon DEF Cancel
<1>2. timers' \in [TimerIds -> {"free", "live", "dead"}]
  BY Zenon DEF Cancel, ChronosDelete, TypeInv, TypeOK
<1>3. pc' = [pc EXCEPT ![m] = "send"]
  BY <1>1, Zenon DEF Goto
<1>. QED  BY <1>1, <1>2, <1>3, Zenon DEF TypeInv, TypeOK, StoresOf, stores, PCs, HandlePCs

\* Sending the ACR keeps the state well typed: its number and session are those of
\* a session.
LEMMA TypeSend ==
  ASSUME TypeInv, NEW m \in Msgs, Send(m)
  PROVE  TypeInv'
<1> DEFINE refresh == IF msg[m].session_refresh_time = 0
                      THEN held[m].sess.session_refresh_time
                      ELSE msg[m].session_refresh_time
           acr == [ msg         |-> m,
                    session_id  |-> held[m].sess.session_id,
                    number      |-> held[m].sess.acct_record_number,
                    record_type |-> msg[m].record_type ]
<1>1. /\ pc[m] = "send"
      /\ pc' = [pc EXCEPT ![m] = "wait"]
      /\ UNCHANGED <<held, copy, fresh, idx, aca, stores, timers, passed>>
  BY Zenon DEF Send, Goto
<1>2. held[m].sess \in Session /\ msg[m] \in Message
  BY <1>1, Zenon DEF TypeInv, TypeOK
<1>3. refresh \in Nat /\ acr \in Acr
  BY <1>2, Zenon DEF Session, SessionOf, Message, Acr
<1>4. msg' = [msg EXCEPT ![m] = [msg[m] EXCEPT !.session_refresh_time = refresh]]
      /\ acrs' = acrs \cup {acr}
  BY Zenon DEF Send
<1> HIDE DEF refresh, acr
<1>5. [msg[m] EXCEPT !.session_refresh_time = refresh] \in Message
      /\ [msg[m] EXCEPT !.session_refresh_time = refresh].site = msg[m].site
  BY <1>2, <1>3, Zenon DEF Message
<1>6. msg' \in [Msgs -> Message] /\ \A n \in Msgs : msg'[n].site = msg[n].site
  BY <1>4, <1>5, Zenon DEF TypeInv, TypeOK
<1>. QED  BY <1>1, <1>3, <1>4, <1>6, Zenon
          DEF TypeInv, TypeOK, StoresOf, stores, PCs, ResponsePCs

\* The interval worked with is one of the answer, the store and the request.
LEMMA EffectiveIntervalType ==
  ASSUME NEW a \in Nat, NEW s \in Nat, NEW r \in Nat
  PROVE  EffectiveInterval(a, s, r) \in {a, s, r}
BY Zenon DEF EffectiveInterval

\* The answer of the CDF keeps the state well typed.
LEMMA TypeOnCcfResponse ==
  ASSUME TypeInv, NEW m \in Msgs, OnCcfResponse(m)
  PROVE  TypeInv'
<1>1. /\ pc[m] = "wait"
      /\ UNCHANGED <<msg, held, copy, fresh, idx, stores, timers, acrs, passed>>
  BY Zenon DEF OnCcfResponse
<1>2. held[m].sess \in Session /\ msg[m] \in Message
  BY <1>1, Zenon DEF TypeInv, TypeOK
<1>3. PICK rc \in {"SUCCESS", "UNKNOWN_SESSION_ID", "OTHER"}, answered \in Intervals :
        LET interval == EffectiveInterval(answered, held[m].sess.interim_interval,
                                          msg[m].session_refresh_time)
        IN /\ aca' = [aca EXCEPT ![m] = [ accepted |-> (rc = "SUCCESS"),
                                          interim_interval |-> interval ]]
           /\ Goto(m, Reaction(m, rc, interval))
  BY Zenon DEF OnCcfResponse
<1> DEFINE interval == EffectiveInterval(answered, held[m].sess.interim_interval,
                                         msg[m].session_refresh_time)
<1>4. /\ aca' = [aca EXCEPT ![m] = [ accepted |-> (rc = "SUCCESS"),
                                     interim_interval |-> interval ]]
      /\ pc' = [pc EXCEPT ![m] = Reaction(m, rc, interval)]
  BY <1>3, Zenon DEF Goto
<1>5. interval \in Nat
  <2>1. answered \in Nat /\ held[m].sess.interim_interval \in Nat
        /\ msg[m].session_refresh_time \in Nat
    BY <1>2, ValueAssumption, Zenon DEF Session, SessionOf, Message
  <2>. QED  BY <2>1, EffectiveIntervalType
<1> HIDE DEF interval
<1>6. Reaction(m, rc, interval) \in {"post", "put", "kill", "update", "pass", "done"}
  BY Zenon DEF Reaction, Finish
<1>7. aca' \in [Msgs -> [accepted : BOOLEAN, interim_interval : Nat]]
  BY <1>4, <1>5, Zenon DEF TypeInv, TypeOK
<1>8. /\ pc' \in [Msgs -> PCs]
      /\ \A n \in Msgs : n # m => pc'[n] = pc[n]
      /\ pc'[m] \in {"post", "put", "kill", "update", "pass", "done"}
  BY <1>4, <1>6, Zenon DEF TypeInv, TypeOK, PCs, ResponsePCs, FinalPCs
<1>9. \A n \in Msgs :
        /\ idx'[n] <= Len(StoresOf(n)') /\ (pc'[n] = "idle" => idx'[n] = 1)
        /\ pc'[n] \notin {"idle", "lookup", "ignored"} => held'[n].sess \in Session
        /\ pc'[n] \in {"sync_write", "retime_write"} => copy'[n].sess \in Session
  BY <1>1, <1>2, <1>8, Zenon DEF TypeInv, TypeOK, StoresOf
<1>. QED  BY <1>1, <1>7, <1>8, <1>9, Zenon DEF TypeInv, TypeOK, stores

\* Chronos requests keep the timers well typed.
LEMMA ChronosType ==
  ASSUME TypeInv, NEW t \in TimerIds \cup {NO_TIMER}, NEW id,
         ChronosPost(id) \/ SendChronosUpdate(t, id)
  PROVE  timers' \in [TimerIds -> {"free", "live", "dead"}]
BY Zenon DEF TypeInv, TypeOK, ChronosPost, ChronosPut, SendChronosUpdate

\* Another timer id in a session gives a session.
LEMMA TimerIdType ==
  ASSUME NEW r \in Record, r.sess \in Session, NEW id \in TimerIds \cup {NO_TIMER}
  PROVE  /\ [r EXCEPT !.sess = [@ EXCEPT !.timer_id = id]] \in Record
         /\ [r EXCEPT !.sess = [@ EXCEPT !.timer_id = id]].sess \in Session
<1>1. [r.sess EXCEPT !.timer_id = id] \in Session
  BY Zenon DEF Session, SessionOf
<1>. QED  BY <1>1, Zenon DEF Record

\* Creating the timer of a START keeps the state well typed.
LEMMA TypePost ==
  ASSUME TypeInv, NEW m \in Msgs, Post(m)
  PROVE  TypeInv'
<1>1. PICK id \in TimerIds \cup {NO_TIMER} :
        /\ ChronosPost(id)
        /\ held' = [held EXCEPT ![m].sess.timer_id = id]
  BY Zenon DEF Post
<1>2. /\ pc[m] = "post" /\ pc' = [pc EXCEPT ![m] = "put"]
      /\ UNCHANGED <<msg, copy, fresh, idx, aca, stores, acrs, passed>>
  BY Zenon DEF Post, Goto
<1>3. timers' \in [TimerIds -> {"free", "live", "dead"}]
  BY <1>1, ChronosType, Zenon
<1> DEFINE r == [held[m] EXCEPT !.sess = [@ EXCEPT !.timer_id = id]]
<1>4. r \in Record /\ r.sess \in Session
  BY <1>2, TimerIdType, Zenon DEF TypeInv, TypeOK
<1>5. held' = [held EXCEPT ![m] = r]
  BY <1>1, Zenon
<1> HIDE DEF r
<1>. QED  BY <1>2, <1>3, <1>4, <1>5, Zenon DEF TypeInv, TypeOK, StoresOf, stores, PCs,
               ResponsePCs

\* Storing the session of a START keeps the state well typed.
LEMMA TypePut ==
  ASSUME TypeInv, NEW m \in Msgs, Put(m)
  PROVE  TypeInv'
<1> DEFINE sess == [held[m].sess EXCEPT !.interim_interval = aca[m].interim_interval]
<1>1. PICK rc \in Status : SetSession(Current(m), sess, 0, rc)
  BY Zenon DEF Put
<1>2. /\ pc[m] = "put" /\ NextStore(m, "put", "pass")
      /\ UNCHANGED <<msg, held, copy, fresh, aca, timers, acrs, passed>>
  BY Zenon DEF Put
<1>3. sess \in Session
  BY <1>2, ZenonT(30) DEF TypeInv, TypeOK, Session, SessionOf
<1> HIDE DEF sess
<1>4. /\ store' \in [Sites -> Record] /\ nextCas' \in [Sites -> Nat \ {0}]
      /\ \A t \in Sites : store'[t].cas # 0 => store'[t].sess \in Session
  BY <1>1, <1>3, StoreInSites, SetDataType, Zenon DEF SetSession
<1>5. /\ pc' \in [Msgs -> PCs] /\ idx' \in [Msgs -> Nat \ {0}]
      /\ \A n \in Msgs : idx'[n] <= Len(StoresOf(n)) /\ (pc'[n] = "idle" => idx'[n] = 1)
      /\ pc' = [pc EXCEPT ![m] = "put"] \/ pc' = [pc EXCEPT ![m] = "pass"]
  BY <1>2, NextStoreType, Zenon DEF PCs, ResponsePCs
<1>. QED  BY <1>2, <1>4, <1>5, ZenonT(30) DEF TypeInv, TypeOK, StoresOf, stores

\* send_chronos_update keeps the state well typed.
LEMMA TypeUpdate ==
  ASSUME TypeInv, NEW m \in Msgs, Update(m)
  PROVE  TypeInv'
<1>1. PICK id \in TimerIds \cup {NO_TIMER} :
        /\ SendChronosUpdate(held[m].sess.timer_id, id)
        /\ held' = [held EXCEPT ![m].sess.timer_id = id]
        /\ Goto(m, IF id = held[m].sess.timer_id
                   THEN Finish(aca[m].accepted)
                   ELSE "retime_read")
  BY Zenon DEF Update
<1>2. /\ pc[m] = "update"
      /\ UNCHANGED <<msg, copy, fresh, idx, aca, stores, acrs, passed>>
  BY Zenon DEF Update
<1>3. held[m] \in Record /\ held[m].sess \in Session
  BY <1>2, Zenon DEF TypeInv, TypeOK
<1>4. timers' \in [TimerIds -> {"free", "live", "dead"}]
  <2>1. held[m].sess.timer_id \in TimerIds \cup {NO_TIMER}
    BY <1>3, Zenon DEF Session, SessionOf
  <2>. QED  BY <1>1, <2>1, ChronosType, Zenon
<1> DEFINE r == [held[m] EXCEPT !.sess = [@ EXCEPT !.timer_id = id]]
<1>5. r \in Record /\ r.sess \in Session
  BY <1>3, TimerIdType, Zenon
<1>6. held' = [held EXCEPT ![m] = r]
  BY <1>1, Zenon
<1>7. \/ pc' = [pc EXCEPT ![m] = "pass"]
      \/ pc' = [pc EXCEPT ![m] = "done"]
      \/ pc' = [pc EXCEPT ![m] = "retime_read"]
  BY <1>1, Zenon DEF Goto, Finish
<1> HIDE DEF r
<1>. QED  BY <1>2, <1>4, <1>5, <1>6, <1>7, ZenonT(30)
          DEF TypeInv, TypeOK, StoresOf, stores, PCs, ResponsePCs, FinalPCs

\* The read of update_timer_id keeps the state well typed.
LEMMA TypeRetimeRead ==
  ASSUME TypeInv, NEW m \in Msgs, RetimeRead(m)
  PROVE  TypeInv'
<1>1. PICK got \in GetData(Current(m)) :
        IF got.cas # 0
        THEN /\ copy' = [copy EXCEPT ![m] =
                  [got EXCEPT !.sess = [@ EXCEPT !.timer_id = held[m].sess.timer_id]]]
             /\ Goto(m, "retime_write")
             /\ UNCHANGED idx
        ELSE /\ NextStore(m, "retime_read", Finish(aca[m].accepted))
             /\ UNCHANGED copy
  BY Zenon DEF RetimeRead
<1>2. /\ pc[m] = "retime_read"
      /\ UNCHANGED <<msg, held, fresh, aca, stores, timers, acrs, passed>>
  BY Zenon DEF RetimeRead
<1>3. CASE got.cas # 0
  <2> DEFINE c == [got EXCEPT !.sess = [@ EXCEPT !.timer_id = held[m].sess.timer_id]]
  <2>1. held[m].sess.timer_id \in TimerIds \cup {NO_TIMER}
    BY <1>2, Zenon DEF TypeInv, TypeOK, Session, SessionOf
  <2>2. got \in Record /\ got.sess \in Session
    BY <1>3, StoreInSites, GetDataType
  <2>3. c \in Record /\ c.sess \in Session
    BY <2>1, <2>2, TimerIdType, Zenon
  <2>4. copy' = [copy EXCEPT ![m] = c] /\ idx' = idx /\ pc' = [pc EXCEPT ![m] = "retime_write"]
    BY <1>1, <1>3, Zenon DEF Goto
  <2> HIDE DEF c
  <2>. QED  BY <1>2, <2>3, <2>4, Zenon DEF TypeInv, TypeOK, StoresOf, stores, PCs,
                 ResponsePCs
<1>4. CASE got.cas = 0
  <2>1. NextStore(m, "retime_read", Finish(aca[m].accepted)) /\ UNCHANGED copy
    BY <1>1, <1>4, Zenon
  <2>2. Finish(aca[m].accepted) \in {"pass", "done"}
    BY Zenon DEF Finish
  <2>3. /\ pc' \in [Msgs -> PCs] /\ idx' \in [Msgs -> Nat \ {0}]
        /\ \A n \in Msgs : idx'[n] <= Len(StoresOf(n)) /\ (pc'[n] = "idle" => idx'[n] = 1)
        /\ \/ pc' = [pc EXCEPT ![m] = "retime_read"]
           \/ pc' = [pc EXCEPT ![m] = Finish(aca[m].accepted)]
    BY <2>1, <2>2, NextStoreType, Zenon DEF PCs, ResponsePCs, FinalPCs
  <2>. QED  BY <1>2, <2>1, <2>2, <2>3, ZenonT(30) DEF TypeInv, TypeOK, StoresOf, stores
<1>. QED  BY <1>3, <1>4

\* The write of update_timer_id keeps the state well typed.
LEMMA TypeRetimeWrite ==
  ASSUME TypeInv, NEW m \in Msgs, RetimeWrite(m)
  PROVE  TypeInv'
<1>1. PICK rc \in Status : SetSession(Current(m), copy[m].sess, copy[m].cas, rc)
  BY Zenon DEF RetimeWrite
<1>2. /\ pc[m] = "retime_write"
      /\ NextStore(m, "retime_read", Finish(aca[m].accepted))
      /\ UNCHANGED <<msg, held, copy, fresh, aca, timers, acrs, passed>>
  BY Zenon DEF RetimeWrite
<1>3. copy[m].sess \in Session
  BY <1>2, Zenon DEF TypeInv, TypeOK
<1>4. /\ store' \in [Sites -> Record] /\ nextCas' \in [Sites -> Nat \ {0}]
      /\ \A t \in Sites : store'[t].cas # 0 => store'[t].sess \in Session
  BY <1>1, <1>3, StoreInSites, SetDataType, Zenon DEF SetSession
<1>5. Finish(aca[m].accepted) \in {"pass", "done"}
  BY Zenon DEF Finish
<1>6. /\ pc' \in [Msgs -> PCs] /\ idx' \in [Msgs -> Nat \ {0}]
      /\ \A n \in Msgs : idx'[n] <= Len(StoresOf(n)) /\ (pc'[n] = "idle" => idx'[n] = 1)
      /\ \/ pc' = [pc EXCEPT ![m] = "retime_read"]
         \/ pc' = [pc EXCEPT ![m] = Finish(aca[m].accepted)]
  BY <1>2, <1>5, NextStoreType DEF PCs, ResponsePCs, FinalPCs
<1>. QED  BY <1>2, <1>4, <1>5, <1>6, Zenon DEF TypeInv, TypeOK, StoresOf, stores

\* health_check_passed keeps the state well typed.
LEMMA TypeHealthCheckPassed ==
  ASSUME TypeInv, NEW m \in Msgs, HealthCheckPassed(m)
  PROVE  TypeInv'
BY Zenon DEF TypeInv, TypeOK, HealthCheckPassed, Goto, StoresOf, stores, PCs, FinalPCs

\* A crash keeps the state well typed.
LEMMA TypeCrash ==
  ASSUME TypeInv, NEW m \in Msgs, Crash(m)
  PROVE  TypeInv'
<1>1. PICK label \in FinalPCs :
        /\ pc' = [pc EXCEPT ![m] = label]
        /\ idx' = [idx EXCEPT ![m] = 1]
        /\ copy' = [copy EXCEPT ![m] = Absent]
        /\ UNCHANGED <<msg, held, fresh, aca, stores, timers, acrs, passed>>
        /\ label = "done" => pc[m] \notin {"idle", "lookup", "ignored"}
  BY Zenon DEF Crash, Goto, FinalPCs, Numbered
<1>2. Absent \in Record /\ Len(StoresOf(m)) \in Nat \ {0}
  BY StoreInSites, Zenon DEF Absent, Record
<1>3. label \in PCs /\ label \notin {"idle", "sync_write", "retime_write"}
  BY Zenon DEF FinalPCs, PCs
<1>. QED  BY <1>1, <1>2, <1>3 DEF TypeInv, TypeOK, StoresOf, stores, FinalPCs

\* Expiring timers and lost records keep the state well typed.
LEMMA TypeEnvironment ==
  ASSUME TypeInv,
         \/ \E t \in TimerIds : TimerExpires(t)
         \/ \E s \in Sites : Lose(s)
         \/ UNCHANGED vars
  PROVE  TypeInv'
<1>1. ASSUME NEW t \in TimerIds, TimerExpires(t)
      PROVE  TypeInv'
  BY <1>1, Zenon DEF TypeInv, TypeOK, TimerExpires, StoresOf, handling, stores
<1>2. ASSUME NEW s \in Sites, Lose(s)
      PROVE  TypeInv'
  <2>1. Absent \in Record /\ Absent.cas = 0
    BY Zenon DEF Absent, Record
  <2>2. store' = [store EXCEPT ![s] = Absent] /\ UNCHANGED <<handling, nextCas, timers, acrs, passed>>
    BY <1>2, Zenon DEF Lose
  <2>. QED  BY <2>1, <2>2, Zenon DEF TypeInv, TypeOK, StoresOf, handling
<1>3. CASE UNCHANGED vars
  BY <1>3, Zenon DEF TypeInv, TypeOK, StoresOf, vars, handling, stores
<1>. QED  BY <1>1, <1>2, <1>3, Zenon

\* A step of the specification keeps the state well typed.
LEMMA TypeNext == TypeInv /\ [Next]_vars => TypeInv'
<1>. SUFFICES ASSUME TypeInv, [Next]_vars PROVE TypeInv'
  BY Zenon
<1>1. ASSUME NEW m \in Msgs, Request(m)
      PROVE  TypeInv'
  BY <1>1, TypeFirst, TypeOngoing, Zenon DEF Request
<1>2. ASSUME NEW m \in Msgs, Handle(m)
      PROVE  TypeInv'
  BY <1>2, TypeLookup, TypeWrite, TypeSyncRead, TypeSyncWrite, TypeRemove,
     TypeRemoveRemote, TypeCancel, TypeSend, Zenon DEF Handle
<1>3. ASSUME NEW m \in Msgs, Respond(m)
      PROVE  TypeInv'
  BY <1>3, TypeOnCcfResponse, TypePost, TypePut, TypeUpdate, TypeRetimeRead,
     TypeRetimeWrite, TypeKill, TypeHealthCheckPassed, Zenon DEF Respond
<1>. QED  BY <1>1, <1>2, <1>3, TypeCrash, TypeEnvironment, Zenon DEF Next, Rest

\* The invariant behind type correctness always holds.
LEMMA TypeInvariant == Spec => []TypeInv
BY TypeInit, TypeNext, PTL DEF Spec

\* SessionManager is type correct, with any faults of the stores and Chronos: no
\* step of handle() or on_ccf_response() works on a missing session or a store
\* outside the list of the site.
THEOREM TypeCorrect == Spec => []TypeOK
<1>1. TypeInv => TypeOK
  BY Zenon DEF TypeInv
<1>. QED  BY <1>1, TypeInvariant, PTL

-----------------------------------------------------------------------------
(* Who sets timers *)

\* A request that is about to call Chronos for a timer is not one of the timer.
SetsTimers(m) ==
  /\ msg[m].timer_interim => msg[m].record_type = "INTERIM"
  /\ pc[m] = "post" => msg[m].record_type = "START"
  /\ pc[m] = "update" => ~msg[m].timer_interim

\* A step of handle() or on_ccf_response() moves one request, and only the answer
\* of the CDF sends it on to set a timer.
LEMMA OneRequestMoves ==
  ASSUME TypeInv, NEW m \in Msgs,
         Request(m) \/ Handle(m) \/ Respond(m) \/ Crash(m)
  PROVE  /\ \A n \in Msgs : n # m => pc'[n] = pc[n] /\ msg'[n] = msg[n]
         /\ pc'[m] \in {"post", "update"} => OnCcfResponse(m)
         /\ ~Request(m) => /\ msg'[m].record_type = msg[m].record_type
                           /\ msg'[m].timer_interim = msg[m].timer_interim
<1>. USE DEF TypeInv, TypeOK, Goto, NextStore
<1>1. CASE First(m) \/ Ongoing(m) \/ TimerPop(m)
  BY <1>1, ZenonT(30) DEF First, Ongoing, TimerPop, Arrive, Request
<1>2. CASE Lookup(m) \/ Write(m) \/ SyncRead(m) \/ SyncWrite(m)
  BY <1>2, Zenon DEF Lookup, Write, SyncRead, SyncWrite
<1>3. CASE Remove(m) \/ RemoveRemote(m) \/ Cancel(m)
  BY <1>3, Zenon DEF Remove, RemoveRemote, Cancel
<1>4. CASE Send(m)
  BY <1>4 DEF Send, Message
<1>5. CASE OnCcfResponse(m)
  BY <1>5, Zenon DEF OnCcfResponse
<1>6. CASE Post(m) \/ Put(m) \/ Kill(m) \/ HealthCheckPassed(m)
  BY <1>6, Zenon DEF Post, Put, Kill, HealthCheckPassed
<1>7. CASE Update(m) \/ RetimeRead(m) \/ RetimeWrite(m)
  BY <1>7, Zenon DEF Update, RetimeRead, RetimeWrite, Finish
<1>8. CASE Crash(m)
  BY <1>8, Zenon DEF Crash
<1>. QED  BY <1>1, <1>2, <1>3, <1>4, <1>5, <1>6, <1>7, <1>8, Zenon DEF Request, Handle,
               Respond

\* The answer of the CDF: only a START is sent on to create a timer, and only an
\* INTERIM of Sprout to renew one.
LEMMA SettersAnswered ==
  ASSUME TypeInv, NEW m \in Msgs, SetsTimers(m), OnCcfResponse(m)
  PROVE  SetsTimers(m)'
<1>1. PICK rc, interval :
        pc' = [pc EXCEPT ![m] = Reaction(m, rc, interval)]
  BY Zenon DEF OnCcfResponse, Goto
<1>2. pc'[m] = Reaction(m, rc, interval) /\ msg' = msg
  BY <1>1, Zenon DEF OnCcfResponse, TypeInv, TypeOK
<1>3. Reaction(m, rc, interval) = "post" => msg[m].record_type = "START"
  BY Zenon DEF Reaction, Finish
<1>4. Reaction(m, rc, interval) = "update" => ~msg[m].timer_interim
  BY Zenon DEF Reaction, Finish, RenewsTimer
<1>. QED  BY <1>2, <1>3, <1>4, Zenon DEF SetsTimers

\* Every step keeps it so.
LEMMA SettersNext ==
  TypeInv /\ (\A m \in Msgs : SetsTimers(m)) /\ [Next]_vars
    => \A m \in Msgs : SetsTimers(m)'
<1>. SUFFICES ASSUME TypeInv, \A m \in Msgs : SetsTimers(m), [Next]_vars, NEW n \in Msgs
              PROVE  SetsTimers(n)'
  BY Zenon
<1>1. ASSUME NEW m \in Msgs, Request(m) \/ Handle(m) \/ Respond(m) \/ Crash(m)
      PROVE  SetsTimers(n)'
  <2>1. CASE n # m
    BY <1>1, <2>1, OneRequestMoves DEF SetsTimers
  <2>2. CASE n = m /\ OnCcfResponse(m)
    BY <2>2, SettersAnswered, Zenon
  <2>3. CASE n = m /\ Request(m)
    <3>0. pc \in [Msgs -> PCs] /\ DOMAIN msg = Msgs
      BY Zenon DEF TypeInv, TypeOK
    <3>1. CASE First(m) \/ Ongoing(m)
      BY <2>3, <3>0, <3>1 DEF First, Ongoing, Arrive, Goto, SetsTimers
    <3>2. CASE TimerPop(m)
      BY <2>3, <3>0, <3>2 DEF TimerPop, Arrive, Goto, SetsTimers
    <3>. QED  BY <2>3, <3>1, <3>2, Zenon DEF Request
  <2>4. CASE n = m /\ ~OnCcfResponse(m) /\ ~Request(m)
    BY <1>1, <2>4, OneRequestMoves, Zenon DEF SetsTimers
  <2>. QED  BY <2>1, <2>2, <2>3, <2>4, Zenon
<1>2. CASE UNCHANGED <<pc, msg>>
  BY <1>2, Zenon DEF SetsTimers
<1>. QED
  BY <1>1, <1>2, Zenon DEF Next, TimerExpires, Lose, Rest, vars, handling

\* Timers are only ever set by a START or an INTERIM of Sprout, so that a session
\* which ended unnoticed is not kept alive by its own timer.
THEOREM TimersSetBySprout == Spec => OnlySproutSetsTimers
<1>. DEFINE Setters == \A m \in Msgs : SetsTimers(m)
            Set == \A t \in TimerIds :
                     timers[t] # "live" /\ timers'[t] = "live" =>
                       \E m \in Msgs : pc'[m] # pc[m] /\ ~msg[m].timer_interim
<1>1. Init => Setters
  BY DEF Init, SetsTimers
<1>2. TypeInv /\ Setters /\ [Next]_vars => Setters'
  BY SettersNext, Zenon
<1>3. TypeInv /\ Setters /\ [Next]_vars => [Set]_vars
  <2>. SUFFICES ASSUME TypeInv, Setters, [Next]_vars, NEW t \in TimerIds,
                       timers[t] # "live", timers'[t] = "live"
                PROVE  \E m \in Msgs : pc'[m] # pc[m] /\ ~msg[m].timer_interim
    BY Zenon
  <2>1. PICK m \in Msgs : Post(m) \/ Update(m)
    BY ZenonT(30) DEF Next, Request, First, Ongoing, TimerPop, Handle, Lookup, Write,
       SyncRead, SyncWrite,
       Remove, RemoveRemote, Cancel, ChronosDelete, Send, Respond, OnCcfResponse, Put,
       RetimeRead, RetimeWrite, Kill, HealthCheckPassed, Crash, TimerExpires, Lose, Rest,
       vars, TypeInv, TypeOK
  <2>2. pc[m] \in {"post", "update"} /\ pc'[m] # pc[m]
    BY <2>1, Zenon DEF Post, Update, Goto, Finish, TypeInv, TypeOK
  <2>. QED  BY <2>2, Zenon DEF SetsTimers
<1>. QED  BY <1>1, <1>2, <1>3, TypeInvariant, PTL DEF Spec, OnlySproutSetsTimers
=============================================================================
