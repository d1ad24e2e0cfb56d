--------------------------- MODULE RalfMainProofs ---------------------------
(***************************************************************************)
(* TypeOK, SemaphoreUsable, NoUseAfterDelete, ThreadsJoined,               *)
(* LimitsPositive and OptionsAsGiven for any command lines, HTTP workers,  *)
(* signals and ACRs.  The proofs rest on where main() does what: its steps *)
(* are numbered as they follow each other, and the invariant says what     *)
(* holds between two numbers.  What getopt_long makes of a command line is *)
(* shown by induction on the elements that are left.                       *)
(***************************************************************************)
EXTENDS RalfMain, SequenceTheorems, WellFoundedInduction, TLAPS

-----------------------------------------------------------------------------
(* The steps of main() and their places *)

\* The objects main() makes before it starts the HTTP stack.
Early ==
  { "alarm_manager", "cdf_comm_monitor", "chronos_comm_monitor", "astaire_comm_monitor",
    "remote_astaire_comm_monitor", "access_logger", "sas_service", "load_monitor", "hc",
    "exception_handler", "diameter_stack", "dict", "dns_resolver", "astaire_resolver",
    "local_memstore", "local_session_store", "remote_memstores", "remote_session_stores",
    "cfg", "factory", "http_resolver", "chronos_http_client", "chronos_http_conn",
    "timer_conn", "mgr", "http_stack", "billing_handler" }

\* All of them.
Objects == Early \cup {"diameter_resolver", "realm_manager"}

\* The steps that are neither about an object nor about a part.
Marks ==
  { "sem_init", "catch_sigterm", "init_logging_options", "init_options", "pidfile",
    "hostname", "stores", "sem_wait", "default_sigterm", "sem_destroy", "return" }

\* All steps.
Steps ==
  {Do(what) : what \in Marks}
  \cup {New(object) : object \in Objects} \cup {Delete(object) : object \in Objects}
  \cup {Start(part) : part \in Parts} \cup {Stop(part) : part \in Parts}
  \cup {Wait(part) : part \in Parts}

\* The steps main() is written with are steps.
LEMMA StepTypes ==
  /\ \A what \in Marks : Do(what) \in Steps
  /\ \A object \in Objects : New(object) \in Steps /\ Delete(object) \in Steps
  /\ \A part \in Parts : Start(part) \in Steps /\ Stop(part) \in Steps /\ Wait(part) \in Steps
BY Zenon DEF Steps

\* Each block of main() is a sequence of steps, of a known length.
LEMMA BlockTypes ==
  /\ Prologue \in Seq(Steps) /\ Len(Prologue) = 7
  /\ StartDiameter \in Seq(Steps) /\ Len(StartDiameter) = 14
  /\ NewStores \in Seq(Steps) /\ Len(NewStores) = 8
  /\ StartHttp \in Seq(Steps) /\ Len(StartHttp) = 8
  /\ StartRealm \in Seq(Steps) /\ Len(StartRealm) = 3
  /\ StopParts \in Seq(Steps) /\ Len(StopParts) = 7
  /\ DeleteObjects \in Seq(Steps) /\ Len(DeleteObjects) = 13
  /\ Epilogue \in Seq(Steps) /\ Len(Epilogue) = 14
<1>1. Prologue \in Seq(Steps) /\ Len(Prologue) = 7
  BY StepTypes DEF Prologue, Marks, Objects, Early, Parts
<1>2. StartDiameter \in Seq(Steps) /\ Len(StartDiameter) = 14
  BY StepTypes DEF StartDiameter, Marks, Objects, Early, Parts
<1>3. NewStores \in Seq(Steps) /\ Len(NewStores) = 8
  BY StepTypes DEF NewStores, Marks, Objects, Early, Parts
<1>4. StartHttp \in Seq(Steps) /\ Len(StartHttp) = 8
  BY StepTypes DEF StartHttp, Marks, Objects, Early, Parts
<1>5. StartRealm \in Seq(Steps) /\ Len(StartRealm) = 3
  BY StepTypes DEF StartRealm, Marks, Objects, Early, Parts
<1>6. StopParts \in Seq(Steps) /\ Len(StopParts) = 7
  BY StepTypes DEF StopParts, Marks, Objects, Early, Parts
<1>7. DeleteObjects \in Seq(Steps) /\ Len(DeleteObjects) = 13
  BY StepTypes DEF DeleteObjects, Marks, Objects, Early, Parts
<1>8. Epilogue \in Seq(Steps) /\ Len(Epilogue) = 14
  BY StepTypes DEF Epilogue, Marks, Objects, Early, Parts
<1>. QED  BY <1>1, <1>2, <1>3, <1>4, <1>5, <1>6, <1>7, <1>8, Zenon

\* A step that deletes deletes an object.
LEMMA DeleteSteps ==
  ASSUME NEW step \in Steps, step.do = "delete"
  PROVE  step = Delete(step.of)
<1>1. \/ \E what \in Marks : step = Do(what)
      \/ \E o \in Objects : step = New(o) \/ step = Delete(o)
      \/ \E part \in Parts : step = Start(part) \/ step = Stop(part) \/ step = Wait(part)
  BY Zenon DEF Steps
<1>2. \A what \in Marks : step # Do(what)
  BY DEF Do, Marks
<1>3. \A o : step # New(o) /\ step # Start(o) /\ step # Stop(o) /\ step # Wait(o)
  BY DEF New, Start, Stop, Wait
<1>4. \A o : Delete(o).of = o
  BY DEF Delete
<1>. QED  BY <1>1, <1>2, <1>3, <1>4, Zenon

\* One block after others.
LEMMA NextBlock ==
  ASSUME NEW s \in Seq(Steps), NEW t \in Seq(Steps)
  PROVE  /\ s \o t \in Seq(Steps) /\ Len(s \o t) = Len(s) + Len(t)
         /\ \A i \in 1..Len(s) : (s \o t)[i] = s[i]
         /\ \A i \in 1..Len(t) : (s \o t)[Len(s) + i] = t[i]
OBVIOUS

\* main() has 74 steps, and each block has its place among them.
LEMMA MainBlocks ==
  /\ Main \in Seq(Steps) /\ Len(Main) = 74
  /\ \A i \in 1..7 : Main[i] = Prologue[i]
  /\ \A i \in 1..14 : Main[7 + i] = StartDiameter[i]
  /\ \A i \in 1..8 : Main[21 + i] = NewStores[i]
  /\ \A i \in 1..8 : Main[29 + i] = StartHttp[i]
  /\ \A i \in 1..3 : Main[37 + i] = StartRealm[i]
  /\ \A i \in 1..7 : Main[40 + i] = StopParts[i]
  /\ \A i \in 1..13 : Main[47 + i] = DeleteObjects[i]
  /\ \A i \in 1..14 : Main[60 + i] = Epilogue[i]
<1>. DEFINE s1 == Prologue \o StartDiameter
            s2 == s1 \o NewStores
            s3 == s2 \o StartHttp
            s4 == s3 \o StartRealm
            s5 == s4 \o StopParts
            s6 == s5 \o DeleteObjects
<1>1. /\ s1 \in Seq(Steps) /\ Len(s1) = 21
      /\ \A i \in 1..7 : s1[i] = Prologue[i]
      /\ \A i \in 1..14 : s1[7 + i] = StartDiameter[i]
  <2>1. /\ s1 \in Seq(Steps) /\ Len(s1) = Len(Prologue) + Len(StartDiameter)
        /\ \A i \in 1..Len(Prologue) : s1[i] = Prologue[i]
        /\ \A i \in 1..Len(StartDiameter) : s1[Len(Prologue) + i] = StartDiameter[i]
    <3>1. Prologue \in Seq(Steps) /\ StartDiameter \in Seq(Steps)
      BY BlockTypes, Zenon
    <3>. QED  BY <3>1, NextBlock, Zenon
  <2>. HIDE DEF s1
  <2>. QED  BY <2>1, BlockTypes
<1>. HIDE DEF s1
<1>2. /\ s2 \in Seq(Steps) /\ Len(s2) = 29
      /\ \A i \in 1..21 : s2[i] = s1[i]
      /\ \A i \in 1..8 : s2[21 + i] = NewStores[i]
  <2>1. /\ s2 \in Seq(Steps) /\ Len(s2) = Len(s1) + Len(NewStores)
        /\ \A i \in 1..Len(s1) : s2[i] = s1[i]
        /\ \A i \in 1..Len(NewStores) : s2[Len(s1) + i] = NewStores[i]
    <3>1. s1 \in Seq(Steps) /\ NewStores \in Seq(Steps)
      BY <1>1, BlockTypes, Zenon
    <3>. QED  BY <3>1, NextBlock, Zenon
  <2>. HIDE DEF s2
  <2>. QED  BY <2>1, <1>1, BlockTypes
<1>. HIDE DEF s2
<1>3. /\ s3 \in Seq(Steps) /\ Len(s3) = 37
      /\ \A i \in 1..29 : s3[i] = s2[i]
      /\ \A i \in 1..8 : s3[29 + i] = StartHttp[i]
  <2>1. /\ s3 \in Seq(Steps) /\ Len(s3) = Len(s2) + Len(StartHttp)
        /\ \A i \in 1..Len(s2) : s3[i] = s2[i]
        /\ \A i \in 1..Len(StartHttp) : s3[Len(s2) + i] = StartHttp[i]
    <3>1. s2 \in Seq(Steps) /\ StartHttp \in Seq(Steps)
      BY <1>2, BlockTypes, Zenon
    <3>. QED  BY <3>1, NextBlock, Zenon
  <2>. HIDE DEF s3
  <2>. QED  BY <2>1, <1>2, BlockTypes
<1>. HIDE DEF s3
<1>4. /\ s4 \in Seq(Steps) /\ Len(s4) = 40
      /\ \A i \in 1..37 : s4[i] = s3[i]
      /\ \A i \in 1..3 : s4[37 + i] = StartRealm[i]
  <2>1. /\ s4 \in Seq(Steps) /\ Len(s4) = Len(s3) + Len(StartRealm)
        /\ \A i \in 1..Len(s3) : s4[i] = s3[i]
        /\ \A i \in 1..Len(StartRealm) : s4[Len(s3) + i] = StartRealm[i]
    <3>1. s3 \in Seq(Steps) /\ StartRealm \in Seq(Steps)
      BY <1>3, BlockTypes, Zenon
    <3>. QED  BY <3>1, NextBlock, Zenon
  <2>. HIDE DEF s4
  <2>. QED  BY <2>1, <1>3, BlockTypes
<1>. HIDE DEF s4
<1>5. /\ s5 \in Seq(Steps) /\ Len(s5) = 47
      /\ \A i \in 1..40 : s5[i] = s4[i]
      /\ \A i \in 1..7 : s5[40 + i] = StopParts[i]
  <2>1. /\ s5 \in Seq(Steps) /\ Len(s5) = Len(s4) + Len(StopParts)
        /\ \A i \in 1..Len(s4) : s5[i] = s4[i]
        /\ \A i \in 1..Len(StopParts) : s5[Len(s4) + i] = StopParts[i]
    <3>1. s4 \in Seq(Steps) /\ StopParts \in Seq(Steps)
      BY <1>4, BlockTypes, Zenon
    <3>. QED  BY <3>1, NextBlock, Zenon
  <2>. HIDE DEF s5
  <2>. QED  BY <2>1, <1>4, BlockTypes
<1>. HIDE DEF s5
<1>6. /\ s6 \in Seq(Steps) /\ Len(s6) = 60
      /\ \A i \in 1..47 : s6[i] = s5[i]
      /\ \A i \in 1..13 : s6[47 + i] = DeleteObjects[i]
  <2>1. /\ s6 \in Seq(Steps) /\ Len(s6) = Len(s5) + Len(DeleteObjects)
        /\ \A i \in 1..Len(s5) : s6[i] = s5[i]
        /\ \A i \in 1..Len(DeleteObjects) : s6[Len(s5) + i] = DeleteObjects[i]
    <3>1. s5 \in Seq(Steps) /\ DeleteObjects \in Seq(Steps)
      BY <1>5, BlockTypes, Zenon
    <3>. QED  BY <3>1, NextBlock, Zenon
  <2>. HIDE DEF s6
  <2>. QED  BY <2>1, <1>5, BlockTypes
<1>. HIDE DEF s6
<1>7. /\ Main \in Seq(Steps) /\ Len(Main) = 74
      /\ \A i \in 1..60 : Main[i] = s6[i]
      /\ \A i \in 1..14 : Main[60 + i] = Epilogue[i]
  <2>1. /\ Main \in Seq(Steps) /\ Len(Main) = Len(s6) + Len(Epilogue)
        /\ \A i \in 1..Len(s6) : Main[i] = s6[i]
        /\ \A i \in 1..Len(Epilogue) : Main[Len(s6) + i] = Epilogue[i]
    <3>1. Main = s6 \o Epilogue
      BY Zenon DEF Main, s1, s2, s3, s4, s5, s6
    <3>2. LET s7 == s6 \o Epilogue
          IN /\ s7 \in Seq(Steps) /\ Len(s7) = Len(s6) + Len(Epilogue)
             /\ \A i \in 1..Len(s6) : s7[i] = s6[i]
             /\ \A i \in 1..Len(Epilogue) : s7[Len(s6) + i] = Epilogue[i]
      <4>1. s6 \in Seq(Steps) /\ Epilogue \in Seq(Steps)
        BY <1>6, BlockTypes, Zenon
      <4>. QED  BY <4>1, NextBlock, Zenon
    <3>. QED  BY <3>1, <3>2, Zenon
  <2>. QED  BY <2>1, <1>6, BlockTypes
<1>. QED  BY <1>1, <1>2, <1>3, <1>4, <1>5, <1>6, <1>7

\* Where the steps that matter are in main().
LEMMA Where ==
  ASSUME NEW i \in 1..74
  PROVE  /\ Main[i].do = "catch_sigterm" => i = 2
         /\ Main[i].do = "init_logging_options" <=> i = 3
         /\ Main[i].do = "init_options" <=> i = 4
         /\ Main[i].do = "new" => i > 7
         /\ Main[i].do = "default_sigterm" <=> i = 72
         /\ Main[i].do = "sem_destroy" => i = 73
         /\ Main[i].do = "return" <=> i = 74
         /\ Main[i].do = "start" => i \in {17, 21, 37, 40}
         /\ Main[i].do = "wait_stopped" => i \in {43, 45, 47, 62}
         /\ Main[i].do = "stop" => i \in {42, 44, 46, 61}
         /\ Main[i].do = "delete" => i > 47
         /\ Main[i] = Delete("hc") => i = 64
<1>. DEFINE Fine(n, step) ==
         /\ step.do = "catch_sigterm" => n = 2
         /\ step.do = "init_logging_options" <=> n = 3
         /\ step.do = "init_options" <=> n = 4
         /\ step.do = "new" => n > 7
         /\ step.do = "default_sigterm" <=> n = 72
         /\ step.do = "sem_destroy" => n = 73
         /\ step.do = "return" <=> n = 74
         /\ step.do = "start" => n \in {17, 21, 37, 40}
         /\ step.do = "wait_stopped" => n \in {43, 45, 47, 62}
         /\ step.do = "stop" => n \in {42, 44, 46, 61}
         /\ step.do = "delete" => n > 47
         /\ step = Delete("hc") => n = 64
<1>1. \A k \in 1..7 : Fine(k, Prologue[k])
  BY DEF Prologue, Do, Delete
<1>2. \A k \in 1..14 : Fine(7 + k, StartDiameter[k])
  BY DEF StartDiameter, New, Start, Delete
<1>3. \A k \in 1..8 : Fine(21 + k, NewStores[k])
  BY DEF NewStores, New, Start, Delete
<1>4. \A k \in 1..8 : Fine(29 + k, StartHttp[k])
  BY DEF StartHttp, New, Start, Delete
<1>5. \A k \in 1..3 : Fine(37 + k, StartRealm[k])
  BY DEF StartRealm, New, Start, Delete
<1>6. \A k \in 1..7 : Fine(40 + k, StopParts[k])
  BY DEF StopParts, Do, Stop, Wait, Delete
<1>7. \A k \in 1..13 : Fine(47 + k, DeleteObjects[k])
  BY DEF DeleteObjects, Delete
<1>8. \A k \in 1..14 : Fine(60 + k, Epilogue[k])
  BY DEF Epilogue, Do, Stop, Wait, Delete
<1>. HIDE DEF Fine
<1>9. Fine(i, Main[i])
  <2>1. CASE i \in 1..7
    BY <1>1, <2>1, MainBlocks, Zenon
  <2>2. CASE i \in 8..21
    <3>1. i - 7 \in 1..14 /\ 7 + (i - 7) = i
      BY <2>2
    <3>. QED  BY <1>2, <3>1, MainBlocks, Zenon
  <2>3. CASE i \in 22..29
    <3>1. i - 21 \in 1..8 /\ 21 + (i - 21) = i
      BY <2>3
    <3>. QED  BY <1>3, <3>1, MainBlocks, Zenon
  <2>4. CASE i \in 30..37
    <3>1. i - 29 \in 1..8 /\ 29 + (i - 29) = i
      BY <2>4
    <3>. QED  BY <1>4, <3>1, MainBlocks, Zenon
  <2>5. CASE i \in 38..40
    <3>1. i - 37 \in 1..3 /\ 37 + (i - 37) = i
      BY <2>5
    <3>. QED  BY <1>5, <3>1, MainBlocks, Zenon
  <2>6. CASE i \in 41..47
    <3>1. i - 40 \in 1..7 /\ 40 + (i - 40) = i
      BY <2>6
    <3>. QED  BY <1>6, <3>1, MainBlocks, Zenon
  <2>7. CASE i \in 48..60
    <3>1. i - 47 \in 1..13 /\ 47 + (i - 47) = i
      BY <2>7
    <3>. QED  BY <1>7, <3>1, MainBlocks, Zenon
  <2>8. CASE i \in 61..74
    <3>1. i - 60 \in 1..14 /\ 60 + (i - 60) = i
      BY <2>8
    <3>. QED  BY <1>8, <3>1, MainBlocks, Zenon
  <2>. QED  BY <2>1, <2>2, <2>3, <2>4, <2>5, <2>6, <2>7, <2>8
<1>. QED  BY <1>9, Zenon DEF Fine

\* Where parts are started and waited for.
StartAt == [hc |-> 17, diameter |-> 21, http |-> 37, realm |-> 40]
WaitAt  == [hc |-> 62, diameter |-> 45, http |-> 43, realm |-> 47]

\* Each part is started, and later stopped and at once waited for, at its places; the
\* semaphore is initialised first, SIGTERM caught next.
LEMMA PartSteps ==
  /\ \A part \in Parts : /\ Main[StartAt[part]] = Start(part)
                         /\ Main[WaitAt[part]] = Wait(part)
                         /\ Main[WaitAt[part] - 1] = Stop(part)
                         /\ StartAt[part] \in 1..74 /\ WaitAt[part] \in 1..74
                         /\ StartAt[part] < WaitAt[part] - 1
  /\ Main[1] = Do("sem_init") /\ Main[2] = Do("catch_sigterm") /\ Main[73] = Do("sem_destroy")
<1>1. /\ StartDiameter[10] = Start("hc") /\ StartDiameter[14] = Start("diameter")
      /\ StartHttp[8] = Start("http") /\ StartRealm[3] = Start("realm")
  BY Zenon DEF StartDiameter, StartHttp, StartRealm
<1>2. /\ StopParts[2] = Stop("http") /\ StopParts[3] = Wait("http")
      /\ StopParts[4] = Stop("diameter") /\ StopParts[5] = Wait("diameter")
      /\ StopParts[6] = Stop("realm") /\ StopParts[7] = Wait("realm")
  BY Zenon DEF StopParts
<1>3. Epilogue[1] = Stop("hc") /\ Epilogue[2] = Wait("hc") /\ Epilogue[13] = Do("sem_destroy")
  BY Zenon DEF Epilogue
<1>4. Prologue[1] = Do("sem_init") /\ Prologue[2] = Do("catch_sigterm")
  BY Zenon DEF Prologue
<1>5. /\ Main[17] = Start("hc") /\ Main[21] = Start("diameter")
      /\ Main[37] = Start("http") /\ Main[40] = Start("realm")
  <2>1. /\ Main[7 + 10] = StartDiameter[10] /\ Main[7 + 14] = StartDiameter[14]
        /\ Main[29 + 8] = StartHttp[8] /\ Main[37 + 3] = StartRealm[3]
    BY MainBlocks
  <2>. QED  BY <1>1, <2>1
<1>6. /\ Main[42] = Stop("http") /\ Main[43] = Wait("http")
      /\ Main[44] = Stop("diameter") /\ Main[45] = Wait("diameter")
      /\ Main[46] = Stop("realm") /\ Main[47] = Wait("realm")
  <2>1. /\ Main[40 + 2] = StopParts[2] /\ Main[40 + 3] = StopParts[3]
        /\ Main[40 + 4] = StopParts[4] /\ Main[40 + 5] = StopParts[5]
        /\ Main[40 + 6] = StopParts[6] /\ Main[40 + 7] = StopParts[7]
    BY MainBlocks
  <2>. QED  BY <1>2, <2>1
<1>7. Main[61] = Stop("hc") /\ Main[62] = Wait("hc") /\ Main[73] = Do("sem_destroy")
  <2>1. /\ Main[60 + 1] = Epilogue[1] /\ Main[60 + 2] = Epilogue[2]
        /\ Main[60 + 13] = Epilogue[13]
    BY MainBlocks
  <2>. QED  BY <1>3, <2>1
<1>8. Main[1] = Do("sem_init") /\ Main[2] = Do("catch_sigterm")
  <2>1. Main[1] = Prologue[1] /\ Main[2] = Prologue[2]
    BY MainBlocks
  <2>. QED  BY <1>4, <2>1, Zenon
<1>. QED  BY <1>5, <1>6, <1>7, <1>8 DEF StartAt, WaitAt, Parts

\* What is made before the HTTP stack and before the realm manager are started.
LEMMA MadeBefore ==
  /\ \A o \in Early : \E i \in 1..36 : Main[i] = New(o)
  /\ \A o \in Objects : \E i \in 1..39 : Main[i] = New(o)
  /\ Main[16] = New("hc")
<1>. DEFINE First == { "alarm_manager", "cdf_comm_monitor", "chronos_comm_monitor",
                       "astaire_comm_monitor", "remote_astaire_comm_monitor",
                       "access_logger", "sas_service", "load_monitor", "hc",
                       "exception_handler", "diameter_stack", "dict" }
            Second == { "dns_resolver", "astaire_resolver", "local_memstore",
                        "local_session_store", "remote_memstores",
                        "remote_session_stores", "cfg", "factory" }
            Third == { "http_resolver", "chronos_http_client", "chronos_http_conn",
                       "timer_conn", "mgr", "http_stack", "billing_handler" }
<1>1. \A o \in First : \E k \in 1..14 : StartDiameter[k] = New(o)
  BY DEF StartDiameter
<1>2. \A o \in Second : \E k \in 1..8 : NewStores[k] = New(o)
  BY DEF NewStores
<1>3. \A o \in Third : \E k \in 1..7 : StartHttp[k] = New(o)
  BY DEF StartHttp
<1>4. \A o \in {"diameter_resolver", "realm_manager"} : \E k \in 1..2 : StartRealm[k] = New(o)
  BY DEF StartRealm
<1>5. StartDiameter[9] = New("hc")
  BY Zenon DEF StartDiameter
<1>6. \A o : (\E k \in 1..14 : StartDiameter[k] = New(o)) => \E i \in 1..36 : Main[i] = New(o)
  <2>1. \A k \in 1..14 : Main[7 + k] = StartDiameter[k]
    BY MainBlocks, Zenon
  <2>2. \A k \in 1..14 : 7 + k \in 1..36
    OBVIOUS
  <2>. QED  BY <2>1, <2>2, Zenon
<1>7. \A o : (\E k \in 1..8 : NewStores[k] = New(o)) => \E i \in 1..36 : Main[i] = New(o)
  <2>1. \A k \in 1..8 : Main[21 + k] = NewStores[k]
    BY MainBlocks, Zenon
  <2>2. \A k \in 1..8 : 21 + k \in 1..36
    OBVIOUS
  <2>. QED  BY <2>1, <2>2, Zenon
<1>8. \A o : (\E k \in 1..7 : StartHttp[k] = New(o)) => \E i \in 1..36 : Main[i] = New(o)
  <2>1. \A k \in 1..7 : Main[29 + k] = StartHttp[k]
    <3>1. \A k \in 1..7 : k \in 1..8
      OBVIOUS
    <3>. QED  BY <3>1, MainBlocks, Zenon
  <2>2. \A k \in 1..7 : 29 + k \in 1..36
    OBVIOUS
  <2>. QED  BY <2>1, <2>2, Zenon
<1>9. \A o : (\E k \in 1..2 : StartRealm[k] = New(o)) => \E i \in 1..39 : Main[i] = New(o)
  <2>1. \A k \in 1..2 : Main[37 + k] = StartRealm[k]
    <3>1. \A k \in 1..2 : k \in 1..3
      OBVIOUS
    <3>. QED  BY <3>1, MainBlocks, Zenon
  <2>2. \A k \in 1..2 : 37 + k \in 1..39
    OBVIOUS
  <2>. QED  BY <2>1, <2>2, Zenon
<1>10. \A o \in Early : \E i \in 1..36 : Main[i] = New(o)
  <2>1. Early \subseteq First \cup Second \cup Third
    BY DEF Early
  <2>. HIDE DEF First, Second, Third
  <2>. QED  BY <1>1, <1>2, <1>3, <1>6, <1>7, <1>8, <2>1, Zenon
<1>11. \A o \in Objects : \E i \in 1..39 : Main[i] = New(o)
  <2>1. \A i \in 1..36 : i \in 1..39
    OBVIOUS
  <2>. QED  BY <1>4, <1>9, <1>10, <2>1, Zenon DEF Objects
<1>12. Main[16] = New("hc")
  <2>1. Main[7 + 9] = StartDiameter[9]
    BY MainBlocks
  <2>. QED  BY <1>5, <2>1
<1>. QED  BY <1>10, <1>11, <1>12, Zenon

\* What they hold is made by then, too.
LEMMA UsesMade ==
  /\ Uses["http"] \subseteq Early
  /\ Uses["diameter"] \subseteq Early
  /\ Uses["realm"] \subseteq Objects
  /\ Uses["hc"] = {"hc"}
<1>1. \A o \in Early : Holds(o) \subseteq Early
  BY DEF Holds, Early
<1>2. \A o \in Objects : Holds(o) \subseteq Objects
  BY DEF Holds, Early, Objects
<1>3. ASSUME NEW S, S \subseteq Early PROVE Reachable(S) \subseteq Early
  <2>1. \A T : T \subseteq Early => Held(T) \subseteq Early
    BY <1>1, Zenon DEF Held
  <2>. QED  BY <1>3, <2>1, Zenon DEF Reachable
<1>4. ASSUME NEW S, S \subseteq Objects PROVE Reachable(S) \subseteq Objects
  <2>1. \A T : T \subseteq Objects => Held(T) \subseteq Objects
    BY <1>2 DEF Held
  <2>. QED  BY <1>4, <2>1 DEF Reachable
<1>5. {"http_stack"} \subseteq Early /\ {"diameter_stack", "mgr"} \subseteq Early
      /\ {"realm_manager"} \subseteq Objects
  BY Zenon DEF Early, Objects
<1>. QED  BY <1>3, <1>4, <1>5, Zenon DEF Uses, Parts

-----------------------------------------------------------------------------
(* The inductive invariant *)

\* main() has made the object.
Made(o) == \E i \in 1..(pc - 1) : Main[i] = New(o)

\* The semaphore is there between its two steps, SIGTERM is caught within them, and
\* the semaphore counts no signal that was not sent.
Signalled ==
  /\ sem <= signals
  /\ sem >= 0 <=> pc \in 2..73
  /\ sigterm = "post" <=> pc \in 3..72

\* What was made is there until the first step that deletes, the health checker
\* until it is deleted.
Exists ==
  /\ pc <= 48 => \A o \in Objects : Made(o) => o \in live
  /\ pc <= 64 /\ Made("hc") => "hc" \in live

\* A part runs between its start and its wait_stopped.
Runs ==
  \A part \in running : StartAt[part] < pc /\ (caught = {} => pc <= WaitAt[part])

\* Threads work for parts that run, and ACRs come from requests.
Works ==
  /\ \A thread \in busy : PartOf(thread) \in running
  /\ acrs > 0 \/ "diameter" \in busy => pc > 37

\* main() returns at its last step.
Returned == ended = "0" => pc = 74

\* The inductive invariant.
MainInv == TypeOK /\ Signalled /\ Exists /\ Runs /\ Works /\ Returned

\* A process that starts satisfies the invariant.
LEMMA MainStart == Init => MainInv
<1>. SUFFICES ASSUME Init PROVE MainInv
  BY Zenon
<1>1. TypeOK
  <2>1. pc \in 1..Len(Main) /\ argv \in CommandLines /\ sem \in -1..MaxSignals
        /\ acrs \in 0..MaxAcrs /\ signals \in 0..MaxSignals
    BY MainBlocks, MainAssumption DEF Init
  <2>2. /\ sigterm \in {"default", "post"}
        /\ live = {} /\ stopping = {} /\ running = {} /\ caught = {} /\ busy = {}
        /\ dying \in BOOLEAN
        /\ ended \in {"no", "0", "1", "2", "killed", "aborted", "exited"}
    BY Zenon DEF Init
  <2>. QED  BY <2>1, <2>2, Zenon DEF TypeOK
<1>2. Signalled /\ Runs /\ Works /\ Returned
  BY DEF Init, Signalled, Runs, Works, Returned
<1>3. Exists
  BY DEF Init, Exists, Made
<1>. QED  BY <1>1, <1>2, <1>3, Zenon DEF MainInv

\* A step makes at most the object it names.
LEMMA MadeNext ==
  ASSUME TypeOK, pc' = pc + 1
  PROVE  \A o : Made(o)' => Made(o) \/ Main[pc] = New(o)
<1>1. pc \in 1..74
  BY MainBlocks, Zenon DEF TypeOK
<1>2. \A i \in 1..(pc' - 1) : i \in 1..(pc - 1) \/ i = pc
  BY <1>1
<1>. QED  BY <1>2, Zenon DEF Made

\* A step that makes and deletes nothing keeps what exists.
LEMMA ExistsKept ==
  ASSUME TypeOK, Exists, pc' = pc + 1, live' = live, Main[pc].do # "new"
  PROVE  Exists'
<1>1. pc \in 1..74
  BY MainBlocks, Zenon DEF TypeOK
<1>2. \A o : Main[pc] # New(o)
  BY DEF New
<1>3. \A o : Made(o)' => Made(o)
  BY <1>2, MadeNext, Zenon
<1>4. (pc' <= 48 => pc <= 48) /\ (pc' <= 64 => pc <= 64)
  BY <1>1
<1>. QED  BY <1>3, <1>4, Zenon DEF Exists

\* A step other than wait_stopped comes no later than the wait_stopped of any part
\* that runs.
LEMMA RunsKept ==
  ASSUME TypeOK, Runs, pc' = pc + 1, running' = running, caught' = caught,
         Main[pc].do # "wait_stopped"
  PROVE  Runs'
<1>1. pc \in 1..74 /\ running \subseteq Parts
  BY MainBlocks, Zenon DEF TypeOK
<1>2. \A part \in Parts : WaitAt[part] # pc
  <2>1. \A part \in Parts : Main[WaitAt[part]] = Wait(part)
    BY PartSteps, Zenon
  <2>2. \A part : Wait(part).do = "wait_stopped"
    BY Zenon DEF Wait
  <2>. QED  BY <2>1, <2>2, Zenon
<1>3. \A part \in Parts : WaitAt[part] \in 1..74 /\ StartAt[part] \in 1..74
  BY PartSteps, Zenon
<1>. QED  BY <1>1, <1>2, <1>3 DEF Runs

\* A step that leaves the threads alone keeps them at work for parts that run.
LEMMA WorksKept ==
  ASSUME TypeOK, Works, pc' \in Nat, pc' >= pc, running' = running, busy' = busy,
         acrs' = acrs
  PROVE  Works'
<1>1. pc \in Nat
  BY MainBlocks DEF TypeOK
<1>. QED  BY <1>1 DEF Works, PartOf

\* A step other than the four that prepare and withdraw the handling of SIGTERM stays
\* between them.
LEMMA SignalledKept ==
  ASSUME TypeOK, Signalled, pc' = pc + 1, sem' = sem, sigterm' = sigterm,
         signals' = signals, Main[pc].do \notin {"sem_init", "catch_sigterm",
         "default_sigterm", "sem_destroy"}
  PROVE  Signalled'
<1>1. pc \in 1..74
  BY MainBlocks, Zenon DEF TypeOK
<1>2. pc # 1 /\ pc # 2 /\ pc # 72 /\ pc # 73
  <2>1. /\ Main[1].do = "sem_init" /\ Main[2].do = "catch_sigterm"
        /\ Main[73].do = "sem_destroy"
    BY PartSteps DEF Do
  <2>2. pc # 72
    BY <1>1, Where, Zenon
  <2>. QED  BY <2>1, <2>2, Zenon
<1>. QED  BY <1>1, <1>2 DEF Signalled

\* The place of a step that main() comes from is not the last one.
LEMMA Place ==
  ASSUME TypeOK
  PROVE  /\ pc \in 1..74
         /\ Main[pc].do # "return" => pc + 1 \in 1..74
         /\ Main[pc].do = "stop" => pc + 2 \in 1..74
<1>1. pc \in 1..74
  BY MainBlocks, Zenon DEF TypeOK
<1>2. /\ Main[pc].do # "return" => pc # 74
      /\ Main[pc].do = "stop" => pc \in {42, 44, 46, 61}
  BY <1>1, Where, Zenon
<1>. QED  BY <1>1, <1>2

\* A step that only moves on.
LEMMA MovesOn ==
  ASSUME MainInv, pc' = pc + 1, Main[pc].do # "return", ended = "no", ended' = "no",
         UNCHANGED <<argv, sigterm, live, threads, signals, sem>>,
         Main[pc].do \in {"init_logging_options", "init_options", "pidfile", "hostname",
                          "stores", "start"}
  PROVE  MainInv'
<1>1. TypeOK'
  BY Place, MainBlocks, Zenon DEF MainInv, TypeOK, threads
<1>2. Signalled'
  BY SignalledKept, Zenon DEF MainInv
<1>3. Exists'
  BY ExistsKept, Zenon DEF MainInv
<1>4. Runs'
  BY RunsKept, Zenon DEF MainInv, threads
<1>5. Works'
  <2>1. pc' \in Nat /\ pc' >= pc
    BY Place DEF MainInv
  <2>. QED  BY <2>1, WorksKept, Zenon DEF MainInv, threads
<1>6. Returned'
  BY Zenon DEF Returned
<1>. QED  BY <1>1, <1>2, <1>3, <1>4, <1>5, <1>6, Zenon DEF MainInv

\* A process that ends without a return leaves everything as it is.
LEMMA Ends ==
  ASSUME MainInv, UNCHANGED <<pc, argv, sem, sigterm, live, threads, signals>>,
         ended' \in {"1", "2", "killed", "aborted", "exited"}
  PROVE  MainInv'
<1>1. TypeOK'
  BY Zenon DEF MainInv, TypeOK, threads
<1>2. Signalled' /\ Runs' /\ Works'
  BY Zenon DEF MainInv, Signalled, Runs, Works, PartOf, threads
<1>3. Exists'
  BY Zenon DEF MainInv, Exists, Made
<1>4. Returned'
  BY Zenon DEF Returned
<1>. QED  BY <1>1, <1>2, <1>3, <1>4, Zenon DEF MainInv

\* The steps about SIGTERM and its semaphore keep the invariant.
LEMMA SignalSteps ==
  ASSUME MainInv, SemInit \/ CatchSigterm \/ SemWait \/ DefaultSigterm \/ SemDestroy
  PROVE  MainInv'
<1>1. /\ TypeOK /\ Signalled /\ Exists /\ Runs /\ Works
      /\ ended = "no" /\ ended' = "no" /\ pc' = pc + 1
      /\ UNCHANGED <<argv, live, threads, signals>>
      /\ Main[pc].do \in {"sem_init", "catch_sigterm", "sem_wait", "default_sigterm",
                          "sem_destroy"}
  BY Zenon DEF MainInv, SemInit, CatchSigterm, SemWait, DefaultSigterm, SemDestroy, At,
     Next1, Goto
<1>2. pc \in 1..73 /\ pc + 1 \in 1..74
  BY <1>1, Place
<1>3. Exists'
  BY <1>1, ExistsKept, Zenon
<1>4. Runs'
  BY <1>1, RunsKept, Zenon DEF threads
<1>5. Works'
  BY <1>1, <1>2, WorksKept DEF threads
<1>6. Returned'
  BY <1>1, Zenon DEF Returned
<1>7. /\ pc = 1 => Main[pc].do = "sem_init"
      /\ pc = 2 <=> Main[pc].do = "catch_sigterm"
      /\ pc = 72 <=> Main[pc].do = "default_sigterm"
      /\ pc = 73 <=> Main[pc].do = "sem_destroy"
  <2>1. Main[1].do = "sem_init" /\ Main[2].do = "catch_sigterm" /\ Main[73].do = "sem_destroy"
    BY PartSteps DEF Do
  <2>2. pc \in 1..74
    BY <1>2
  <2>3. /\ Main[pc].do = "catch_sigterm" => pc = 2
        /\ Main[pc].do = "default_sigterm" <=> pc = 72
        /\ Main[pc].do = "sem_destroy" => pc = 73
    BY <2>2, Where, Zenon
  <2>. QED  BY <2>1, <2>3, ZenonT(30)
<1>8. sem \in -1..MaxSignals /\ signals \in 0..MaxSignals
  BY <1>1, Zenon DEF TypeOK
<1>9. Signalled' /\ sem' \in -1..MaxSignals /\ sigterm' \in {"default", "post"}
  <2>1. CASE SemInit
    <3>1. pc # 2 /\ pc # 72 /\ pc # 73 /\ sem' = 0 /\ sigterm' = sigterm
      BY <1>7, <2>1, Zenon DEF SemInit, At
    <3>2. sem' \in -1..MaxSignals /\ sigterm' \in {"default", "post"}
      BY <1>1, <3>1, MainAssumption DEF TypeOK
    <3>3. sem' <= signals'
      BY <1>1, <1>8, <3>1, MainAssumption
    <3>4. sem' >= 0 /\ pc' \in 2..73
      BY <1>1, <1>2, <3>1
    <3>5. pc' \in 3..72 <=> pc \in 3..72
      BY <1>1, <1>2, <3>1
    <3>. QED  BY <1>1, <3>1, <3>2, <3>3, <3>4, <3>5, Zenon DEF Signalled
  <2>2. CASE CatchSigterm
    BY <1>1, <1>2, <1>7, <1>8, <2>2, MainAssumption DEF CatchSigterm, At, Signalled
  <2>3. CASE SemWait
    BY <1>1, <1>2, <1>7, <1>8, <2>3, MainAssumption DEF SemWait, At, Signalled, TypeOK
  <2>4. CASE DefaultSigterm
    BY <1>1, <1>2, <1>7, <1>8, <2>4, MainAssumption DEF DefaultSigterm, At, Signalled
  <2>5. CASE SemDestroy
    BY <1>1, <1>2, <1>7, <1>8, <2>5, MainAssumption DEF SemDestroy, At, Signalled, TypeOK
  <2>. QED  BY <2>1, <2>2, <2>3, <2>4, <2>5, Zenon
<1>10. TypeOK'
  BY <1>1, <1>2, <1>9, MainBlocks, Zenon DEF TypeOK, threads
<1>. QED  BY <1>3, <1>4, <1>5, <1>6, <1>9, <1>10, Zenon DEF MainInv

\* So do the options and the checks before anything is started: they move on or end
\* the process.
LEMMA ReadAndCheck ==
  ASSUME MainInv, ReadOptions \/ Check
  PROVE  MainInv'
<1>1. /\ ended = "no"
      /\ UNCHANGED <<argv, sem, sigterm, live, threads, signals>>
      /\ Main[pc].do \in {"init_logging_options", "init_options", "pidfile", "hostname",
                          "stores"}
      /\ \/ pc' = pc + 1 /\ ended' = "no"
         \/ UNCHANGED pc /\ ended' \in {"1", "2"}
  <2>1. CASE ReadOptions
    BY <2>1, Zenon DEF ReadOptions, At, Next1, Goto, Exit
  <2>2. CASE Check
    BY <2>2, Zenon DEF Check, At, Next1, Goto, Exit
  <2>. QED  BY <2>1, <2>2, Zenon
<1>2. CASE pc' = pc + 1 /\ ended' = "no"
  BY <1>1, <1>2, MovesOn, Zenon
<1>3. CASE UNCHANGED pc /\ ended' \in {"1", "2"}
  BY <1>1, <1>3, Ends, Zenon
<1>. QED  BY <1>1, <1>2, <1>3, Zenon

\* A constructor adds its object.
LEMMA ObjectMade ==
  ASSUME MainInv, NewObject
  PROVE  MainInv'
<1>1. /\ TypeOK /\ Signalled /\ Exists /\ Runs /\ Works
      /\ ended = "no" /\ ended' = "no" /\ pc' = pc + 1 /\ Main[pc].do = "new"
      /\ live' = live \cup {Main[pc].of}
      /\ UNCHANGED <<argv, sem, sigterm, threads, signals>>
  BY Zenon DEF MainInv, NewObject, At, Next1, Goto
<1>2. pc \in 1..74 /\ pc + 1 \in 1..74
  BY <1>1, Place, Zenon
<1>3. Signalled'
  BY <1>1, SignalledKept, Zenon
<1>4. Runs'
  BY <1>1, RunsKept, Zenon DEF threads
<1>5. Works'
  BY <1>1, <1>2, WorksKept DEF threads
<1>6. Returned'
  BY <1>1, Zenon DEF Returned
<1>7. Exists'
  <2>1. \A o : Made(o)' => Made(o) \/ Main[pc] = New(o)
    BY <1>1, MadeNext, Zenon
  <2>2. \A o : Main[pc] = New(o) => o \in live'
    BY <1>1 DEF New
  <2>3. (pc' <= 48 => pc <= 48) /\ (pc' <= 64 => pc <= 64)
    BY <1>1, <1>2
  <2>4. live \subseteq live'
    BY <1>1, Zenon
  <2>. QED  BY <1>1, <2>1, <2>2, <2>3, <2>4, Zenon DEF Exists
<1>8. TypeOK'
  <2>1. Main[pc].of \in {Main[i].of : i \in {i \in 1..Len(Main) : Main[i].do = "new"}}
    BY <1>1, <1>2, MainBlocks, Zenon
  <2>2. live' \subseteq {Main[i].of : i \in {i \in 1..Len(Main) : Main[i].do = "new"}}
    BY <1>1, <2>1, Zenon DEF TypeOK
  <2>3. pc' \in 1..Len(Main)
    BY <1>1, <1>2, MainBlocks
  <2>. QED  BY <1>1, <2>2, <2>3, Zenon DEF TypeOK, threads
<1>. QED  BY <1>3, <1>4, <1>5, <1>6, <1>7, <1>8, Zenon DEF MainInv

\* A destructor comes after the first 47 steps, and the one of the health checker is
\* step 64.
LEMMA ObjectDeleted ==
  ASSUME MainInv, DeleteObject
  PROVE  MainInv'
<1>1. /\ TypeOK /\ Signalled /\ Exists /\ Runs /\ Works
      /\ ended = "no" /\ ended' = "no" /\ pc' = pc + 1 /\ Main[pc].do = "delete"
      /\ live' = live \ {Main[pc].of}
      /\ UNCHANGED <<argv, sem, sigterm, threads, signals>>
  BY Zenon DEF MainInv, DeleteObject, At, Next1, Goto
<1>2. pc \in 1..74 /\ pc + 1 \in 1..74
  BY <1>1, Place, Zenon
<1>3. Signalled'
  BY <1>1, SignalledKept, Zenon
<1>4. Runs'
  BY <1>1, RunsKept, Zenon DEF threads
<1>5. Works'
  BY <1>1, <1>2, WorksKept DEF threads
<1>6. Returned'
  BY <1>1, Zenon DEF Returned
<1>7. Exists'
  <2>1. pc > 47
    BY <1>1, <1>2, Where, Zenon
  <2>2. pc' > 48
    BY <1>1, <1>2, <2>1
  <2>3. ASSUME pc' <= 64, Made("hc")' PROVE "hc" \in live'
    <3>1. pc # 64 /\ pc <= 64
      BY <1>1, <1>2, <2>3
    <3>2. Main[pc].of # "hc"
      <4>1. Main[pc] \in Steps
        <5>1. Main \in Seq(Steps) /\ pc \in 1..Len(Main)
          BY <1>2, MainBlocks, Zenon
        <5>. QED  BY <5>1, ElementOfSeq, Zenon
      <4>2. Main[pc] = Delete(Main[pc].of)
        BY <1>1, <4>1, DeleteSteps, Zenon
      <4>3. Main[pc] = Delete("hc") => pc = 64
        BY <1>2, Where, ZenonT(30)
      <4>. QED  BY <3>1, <4>2, <4>3, Zenon
    <3>3. Made("hc")
      <4>1. \A o : Main[pc] # New(o)
        BY <1>1 DEF New
      <4>. QED  BY <1>1, <2>3, <4>1, MadeNext, Zenon
    <3>. QED  BY <1>1, <3>1, <3>2, <3>3, Zenon DEF Exists
  <2>4. ~(pc' <= 48)
    BY <1>1, <1>2, <2>2
  <2>. QED  BY <2>3, <2>4, Zenon DEF Exists
<1>8. TypeOK'
  BY <1>1, <1>2, MainBlocks, Zenon DEF TypeOK, threads
<1>. QED  BY <1>3, <1>4, <1>5, <1>6, <1>7, <1>8 DEF MainInv

\* A part that is started is at its place, and its wait_stopped is still to come.
LEMMA PartStarted ==
  ASSUME MainInv, StartPart
  PROVE  MainInv'
<1>1. /\ TypeOK /\ Signalled /\ Exists /\ Runs /\ Works
      /\ ended = "no" /\ Main[pc].do = "start"
      /\ UNCHANGED <<argv, sem, sigterm, live, stopping, caught, busy, acrs, dying, signals>>
  BY Zenon DEF MainInv, StartPart, At
<1>2. pc \in 1..74 /\ pc + 1 \in 1..74
  BY <1>1, Place, Zenon
<1>3. PICK part \in Parts : pc = StartAt[part]
  <2>1. pc \in {17, 21, 37, 40}
    BY <1>1, <1>2, Where, Zenon
  <2>. QED  BY <2>1, Zenon DEF StartAt, Parts
<1>4. Main[pc].of = part
  <2>1. Main[StartAt[part]] = Start(part)
    BY PartSteps, Zenon
  <2>. QED  BY <1>3, <2>1 DEF Start
<1>5. CASE running' = running \cup {part} /\ pc' = pc + 1 /\ ended' = "no"
  <2>1. Signalled'
    BY <1>1, <1>5, SignalledKept, Zenon
  <2>2. Exists'
    BY <1>1, <1>5, ExistsKept, Zenon
  <2>3. \A p \in Parts : WaitAt[p] # pc
    <3>1. \A p \in Parts : Main[WaitAt[p]] = Wait(p)
      BY PartSteps, Zenon
    <3>2. \A p : Wait(p).do = "wait_stopped"
      BY Zenon DEF Wait
    <3>. QED  BY <1>1, <3>1, <3>2, Zenon
  <2>4. \A p \in Parts : /\ WaitAt[p] \in 1..74 /\ StartAt[p] \in 1..74
                         /\ StartAt[p] < WaitAt[p] - 1
    BY PartSteps, Zenon
  <2>5. ASSUME NEW p \in running' PROVE StartAt[p] < pc' /\ (caught' = {} => pc' <= WaitAt[p])
    <3>1. p \in Parts /\ (p \in running \/ p = part)
      BY <1>1, <1>3, <1>5, <2>5, Zenon DEF TypeOK
    <3>2. CASE p = part
      BY <1>2, <1>3, <1>5, <2>4, <3>2
    <3>3. CASE p \in running
      BY <1>1, <1>2, <1>5, <2>3, <2>4, <3>1, <3>3 DEF Runs
    <3>. QED  BY <3>1, <3>2, <3>3, Zenon
  <2>6. Runs'
    BY <2>5, Zenon DEF Runs
  <2>7. Works'
    BY <1>1, <1>2, <1>5 DEF Works, PartOf
  <2>8. Returned'
    BY <1>5, Zenon DEF Returned
  <2>9. TypeOK'
    BY <1>1, <1>2, <1>3, <1>5, MainBlocks, ZenonT(30) DEF TypeOK
  <2>. QED  BY <2>1, <2>2, <2>6, <2>7, <2>8, <2>9, ZenonT(30) DEF MainInv
<1>6. CASE UNCHANGED <<pc, running>> /\ ended' = "2"
  BY <1>1, <1>6, Ends, Zenon DEF threads
<1>7. CASE pc' = pc + 1 /\ ended' = "no" /\ UNCHANGED running
  BY <1>1, <1>7, MovesOn, Zenon DEF threads
<1>. QED  BY <1>1, <1>4, <1>5, <1>6, <1>7, Zenon DEF StartPart, Next1, Goto, Exit

\* stop is followed by wait_stopped, unless it throws, which is remembered.
LEMMA PartStopped ==
  ASSUME MainInv, StopPart
  PROVE  MainInv'
<1>1. /\ TypeOK /\ Signalled /\ Exists /\ Runs /\ Works
      /\ ended = "no" /\ ended' = "no" /\ Main[pc].do = "stop"
      /\ UNCHANGED <<argv, sem, sigterm, live, running, busy, acrs, dying, signals>>
  BY Zenon DEF MainInv, StopPart, At, Next1, Goto
<1>2. pc \in 1..74 /\ pc + 1 \in 1..74 /\ pc + 2 \in 1..74 /\ pc \in {42, 44, 46, 61}
  BY <1>1, Place, Where, Zenon
<1>3. PICK part \in Parts : pc = WaitAt[part] - 1
  BY <1>2 DEF WaitAt, Parts
<1>4. Main[pc] = Stop(part) /\ Main[pc + 1] = Wait(part) /\ Main[pc].of = part
  <2>1. Main[WaitAt[part] - 1] = Stop(part) /\ Main[WaitAt[part]] = Wait(part)
    BY PartSteps, Zenon
  <2>2. WaitAt[part] = pc + 1
    BY <1>2, <1>3, PartSteps
  <2>. QED  BY <1>3, <2>1, <2>2 DEF Stop
<1>5. Returned'
  BY <1>1, Zenon DEF Returned
<1>6. CASE stopping' = stopping \cup {part} /\ pc' = pc + 1 /\ UNCHANGED caught
  <2>1. Signalled' /\ Exists' /\ Runs'
    BY <1>1, <1>6, SignalledKept, ExistsKept, RunsKept, Zenon
  <2>2. Works'
    BY <1>1, <1>2, <1>6, WorksKept
  <2>3. TypeOK'
    BY <1>1, <1>2, <1>3, <1>6, MainBlocks, ZenonT(30) DEF TypeOK
  <2>. QED  BY <1>5, <2>1, <2>2, <2>3, ZenonT(30) DEF MainInv
<1>7. CASE /\ part \in {"http", "diameter"} /\ caught' = caught \cup {part}
           /\ pc' = pc + 2 /\ UNCHANGED stopping
  <2>1. Signalled'
    BY <1>1, <1>2, <1>7 DEF Signalled
  <2>2. Exists'
    <3>1. \A o : Main[pc] # New(o) /\ Main[pc + 1] # New(o)
      BY <1>4 DEF New, Stop, Wait
    <3>2. \A i \in 1..(pc' - 1) : i \in 1..(pc - 1) \/ i = pc \/ i = pc + 1
      BY <1>2, <1>7
    <3>3. \A o : Made(o)' => Made(o)
      BY <3>1, <3>2, Zenon DEF Made
    <3>4. (pc' <= 48 => pc <= 48) /\ (pc' <= 64 => pc <= 64)
      BY <1>2, <1>7
    <3>. QED  BY <1>1, <3>3, <3>4, Zenon DEF Exists
  <2>3. Runs'
    <3>1. caught' # {}
      BY <1>7, Zenon
    <3>2. \A p \in Parts : StartAt[p] \in 1..74
      BY PartSteps, Zenon
    <3>3. ASSUME NEW p \in running' PROVE StartAt[p] < pc'
      <4>1. p \in running /\ p \in Parts
        BY <1>1, <3>3, Zenon DEF TypeOK
      <4>. QED  BY <1>1, <1>2, <1>7, <3>2, <4>1 DEF Runs
    <3>. QED  BY <3>1, <3>3, Zenon DEF Runs
  <2>4. Works'
    BY <1>1, <1>2, <1>7, WorksKept
  <2>5. TypeOK'
    BY <1>1, <1>2, <1>7, MainBlocks, Zenon DEF TypeOK
  <2>. QED  BY <1>5, <2>1, <2>2, <2>3, <2>4, <2>5, Zenon DEF MainInv
<1>. QED  BY <1>1, <1>4, <1>6, <1>7, Zenon DEF StopPart, Next1, Goto

\* wait_stopped leaves no thread of its part at work, unless it throws.
LEMMA PartWaitedFor ==
  ASSUME MainInv, WaitStopped
  PROVE  MainInv'
<1>1. /\ TypeOK /\ Signalled /\ Exists /\ Runs /\ Works
      /\ ended = "no" /\ ended' = "no" /\ Main[pc].do = "wait_stopped" /\ pc' = pc + 1
      /\ UNCHANGED <<argv, sem, sigterm, live, stopping, busy, acrs, dying, signals>>
  BY Zenon DEF MainInv, WaitStopped, At, Next1, Goto
<1>2. pc \in 1..74 /\ pc + 1 \in 1..74 /\ pc \in {43, 45, 47, 62}
  BY <1>1, Place, Where, Zenon
<1>3. PICK part \in Parts : pc = WaitAt[part]
  BY <1>2, Zenon DEF WaitAt, Parts
<1>4. Main[pc].of = part
  <2>1. Main[WaitAt[part]] = Wait(part)
    BY PartSteps, Zenon
  <2>. QED  BY <1>3, <2>1 DEF Wait
<1>5. Returned'
  BY <1>1, Zenon DEF Returned
<1>6. Signalled' /\ Exists'
  BY <1>1, SignalledKept, ExistsKept, Zenon
<1>7. \A p \in Parts : StartAt[p] \in 1..74 /\ WaitAt[p] \in 1..74
  BY PartSteps, Zenon
<1>8. CASE /\ \A thread \in busy : PartOf(thread) # part
           /\ running' = running \ {part}
           /\ UNCHANGED caught
  <2>1. ASSUME NEW p \in running' PROVE StartAt[p] < pc' /\ (caught' = {} => pc' <= WaitAt[p])
    <3>1. p \in Parts /\ p \in running /\ p # part
      BY <1>1, <1>8, <2>1, Zenon DEF TypeOK
    <3>2. WaitAt[p] # pc
      BY <1>3, <3>1 DEF WaitAt, Parts
    <3>. QED  BY <1>1, <1>2, <1>7, <1>8, <3>1, <3>2 DEF Runs
  <2>2. Runs'
    BY <2>1, Zenon DEF Runs
  <2>3. Works'
    <3>1. pc > 37 => pc' > 37
      BY <1>1, <1>2
    <3>2. \A thread \in busy' : PartOf(thread)' \in running'
      BY <1>1, <1>8, Zenon DEF Works, PartOf
    <3>. QED  BY <1>1, <3>1, <3>2, Zenon DEF Works
  <2>4. TypeOK'
    BY <1>1, <1>2, <1>8, MainBlocks, Zenon DEF TypeOK
  <2>. QED  BY <1>5, <1>6, <2>2, <2>3, <2>4, Zenon DEF MainInv
<1>9. CASE /\ part \in {"http", "diameter"} /\ caught' = caught \cup {part}
           /\ UNCHANGED running
  <2>1. Runs'
    <3>1. caught' # {}
      BY <1>9, Zenon
    <3>2. ASSUME NEW p \in running' PROVE StartAt[p] < pc'
      <4>1. p \in running /\ p \in Parts
        BY <1>1, <1>9, <3>2, Zenon DEF TypeOK
      <4>. QED  BY <1>1, <1>2, <1>7, <4>1 DEF Runs
    <3>. QED  BY <3>1, <3>2, Zenon DEF Runs
  <2>2. Works'
    BY <1>1, <1>2, <1>9, WorksKept
  <2>3. TypeOK'
    BY <1>1, <1>2, <1>9, MainBlocks, Zenon DEF TypeOK
  <2>. QED  BY <1>5, <1>6, <2>1, <2>2, <2>3 DEF MainInv
<1>. QED  BY <1>1, <1>4, <1>8, <1>9, Zenon DEF WaitStopped

\* main() returns at its last step.
LEMMA Returns ==
  ASSUME MainInv, Return
  PROVE  MainInv'
<1>1. /\ Main[pc].do = "return" /\ ended' = "0"
      /\ UNCHANGED <<pc, argv, sem, sigterm, live, threads, signals>>
  BY Zenon DEF Return, At, Exit
<1>2. TypeOK'
  BY <1>1, Zenon DEF MainInv, TypeOK, threads
<1>3. Signalled' /\ Runs' /\ Works'
  BY <1>1, Zenon DEF MainInv, Signalled, Runs, Works, PartOf, threads
<1>4. Exists'
  BY <1>1, Zenon DEF MainInv, Exists, Made
<1>5. Returned'
  BY <1>1, Place, Where, Zenon DEF MainInv, Returned
<1>. QED  BY <1>2, <1>3, <1>4, <1>5, Zenon DEF MainInv

\* A SIGTERM posts the semaphore or kills the process.
LEMMA SignalCaught ==
  ASSUME MainInv, Sigterm
  PROVE  MainInv'
<1>1. /\ TypeOK /\ Signalled /\ Exists /\ Runs /\ Works /\ Returned
      /\ signals \in 0..MaxSignals /\ signals < MaxSignals /\ signals' = signals + 1
      /\ sem \in -1..MaxSignals /\ ended = "no"
      /\ UNCHANGED <<pc, argv, sigterm, live, threads>>
  BY Zenon DEF MainInv, TypeOK, Sigterm
<1>2. /\ \/ sem' = sem
         \/ sem >= 0 /\ sem' = sem + 1
      /\ ended' \in {"no", "killed"}
  BY <1>1 DEF Sigterm, Post
<1>3. Signalled' /\ sem' \in -1..MaxSignals /\ signals' \in 0..MaxSignals
  BY <1>1, <1>2, MainAssumption DEF Signalled
<1>4. TypeOK'
  BY <1>1, <1>2, <1>3, Zenon DEF TypeOK, threads
<1>5. Runs' /\ Works' /\ Returned'
  BY <1>1, <1>2 DEF Runs, Works, Returned, PartOf, threads
<1>6. Exists'
  BY <1>1, Zenon DEF Exists, Made
<1>. QED  BY <1>3, <1>4, <1>5, <1>6, Zenon DEF MainInv

\* A thread begins work for a part that runs, a Diameter thread with the answer to an
\* ACR.
LEMMA ThreadBegins ==
  ASSUME MainInv, NEW thread \in Threads, Begin(thread)
  PROVE  MainInv'
<1>1. /\ TypeOK /\ Signalled /\ Exists /\ Runs /\ Works /\ Returned
      /\ busy' = busy \cup {thread} /\ PartOf(thread) \in running
      /\ UNCHANGED <<pc, argv, options, sem, sigterm, live, running, stopping, caught, dying,
                     ended, signals>>
  BY Zenon DEF MainInv, Begin
<1>2. /\ acrs \in 0..MaxAcrs /\ acrs' \in 0..MaxAcrs
      /\ thread = "diameter" => acrs > 0 /\ acrs' = acrs - 1
      /\ thread # "diameter" => acrs' = acrs
  BY <1>1, MainAssumption DEF TypeOK, Begin
<1>3. TypeOK'
  BY <1>1, <1>2, Zenon DEF TypeOK
<1>4. Signalled' /\ Runs' /\ Returned'
  BY <1>1 DEF Signalled, Runs, Returned
<1>5. Exists'
  BY <1>1, Zenon DEF Exists, Made
<1>6. Works'
  <2>1. \A th \in busy' : PartOf(th)' \in running'
    BY <1>1, Zenon DEF Works, PartOf
  <2>2. acrs' > 0 \/ "diameter" \in busy' => acrs > 0 \/ "diameter" \in busy
    BY <1>1, <1>2, MainAssumption, Zenon
  <2>. QED  BY <1>1, <2>1, <2>2, Zenon DEF Works
<1>. QED  BY <1>3, <1>4, <1>5, <1>6, Zenon DEF MainInv

\* ACRs are left behind by HTTP workers, so that the HTTP stack has been started.
LEMMA ThreadFinishes ==
  ASSUME MainInv, NEW thread \in Threads, Finish(thread)
  PROVE  MainInv'
<1>1. /\ TypeOK /\ Signalled /\ Exists /\ Runs /\ Works /\ Returned
      /\ thread \in busy /\ busy' = busy \ {thread}
      /\ UNCHANGED <<pc, argv, options, sem, sigterm, live, running, stopping, caught, dying,
                     ended, signals>>
  BY Zenon DEF MainInv, Finish
<1>2. /\ acrs \in 0..MaxAcrs /\ acrs' \in 0..MaxAcrs
      /\ acrs' = acrs \/ thread \in HttpWorkers
  BY <1>1, MainAssumption DEF TypeOK, Finish
<1>3. TypeOK'
  BY <1>1, <1>2, Zenon DEF TypeOK
<1>4. Signalled' /\ Runs' /\ Returned'
  BY <1>1 DEF Signalled, Runs, Returned
<1>5. Exists'
  BY <1>1, Zenon DEF Exists, Made
<1>6. thread \in HttpWorkers => pc > 37
  BY <1>1, Zenon DEF Works, Runs, PartOf, StartAt, TypeOK
<1>7. Works'
  <2>1. \A th \in busy' : PartOf(th)' \in running'
    BY <1>1, Zenon DEF Works, PartOf
  <2>2. acrs' > 0 \/ "diameter" \in busy' => pc' > 37
    BY <1>1, <1>2, <1>6, Zenon DEF Works
  <2>. QED  BY <2>1, <2>2, Zenon DEF Works
<1>. QED  BY <1>3, <1>4, <1>5, <1>7 DEF MainInv

\* A fault ends the work of the thread or the process.
LEMMA ThreadFaults ==
  ASSUME MainInv, NEW thread \in Threads, Fault(thread)
  PROVE  MainInv'
<1>1. /\ TypeOK /\ Signalled /\ Exists /\ Runs /\ Works /\ Returned
      /\ UNCHANGED <<pc, argv, options, sem, sigterm, live, running, stopping, caught, acrs,
                     signals>>
  BY Zenon DEF MainInv, Fault
<1>2. CASE busy' = busy \ {thread} /\ dying' = TRUE /\ ended' = ended
  <2>1. TypeOK'
    BY <1>1, <1>2, Zenon DEF TypeOK
  <2>2. Signalled' /\ Runs' /\ Returned'
    BY <1>1, <1>2 DEF Signalled, Runs, Returned
  <2>3. Exists'
    BY <1>1, Zenon DEF Exists, Made
  <2>4. Works'
    BY <1>1, <1>2, Zenon DEF Works, PartOf
  <2>. QED  BY <2>1, <2>2, <2>3, <2>4 DEF MainInv
<1>3. CASE ended' = "aborted" /\ UNCHANGED <<busy, dying>>
  BY <1>1, <1>3, Ends, Zenon DEF threads
<1>. QED  BY <1>2, <1>3, Zenon DEF Fault

\* Every step keeps the invariant.
LEMMA MainNext == MainInv /\ [Next]_vars => MainInv'
<1>. SUFFICES ASSUME MainInv, [Next]_vars PROVE MainInv'
  BY Zenon
<1>1. CASE SemInit \/ CatchSigterm \/ SemWait \/ DefaultSigterm \/ SemDestroy
  BY <1>1, SignalSteps, Zenon
<1>2. CASE ReadOptions \/ Check
  BY <1>2, ReadAndCheck, Zenon
<1>3. CASE NewObject
  BY <1>3, ObjectMade, Zenon
<1>4. CASE StartPart
  BY <1>4, PartStarted, Zenon
<1>5. CASE StopPart
  BY <1>5, PartStopped
<1>6. CASE WaitStopped
  BY <1>6, PartWaitedFor
<1>7. CASE DeleteObject
  BY <1>7, ObjectDeleted
<1>8. CASE Return
  BY <1>8, Returns
<1>9. CASE Sigterm
  BY <1>9, SignalCaught
<1>10. ASSUME NEW thread \in Threads, Begin(thread) \/ Finish(thread) \/ Fault(thread)
       PROVE  MainInv'
  BY <1>10, ThreadBegins, ThreadFinishes, ThreadFaults, Zenon
<1>11. CASE DelayedExit
  BY <1>11, Ends, Zenon DEF DelayedExit
<1>12. CASE UNCHANGED vars
  <2>1. TypeOK'
    BY <1>12, Zenon DEF MainInv, TypeOK, vars, threads
  <2>2. Signalled' /\ Runs' /\ Works' /\ Returned'
    BY <1>12 DEF MainInv, Signalled, Runs, Works, Returned, PartOf, vars, threads
  <2>3. Exists'
    BY <1>12, Zenon DEF MainInv, Exists, Made, vars
  <2>. QED  BY <2>1, <2>2, <2>3, Zenon DEF MainInv
<1>. QED  BY <1>1, <1>2, <1>3, <1>4, <1>5, <1>6, <1>7, <1>8, <1>9, <1>10, <1>11, <1>12, Zenon
          DEF Next, MainThread, Rest

\* The invariant holds throughout.
LEMMA MainInvCorrect == Spec => []MainInv
BY MainStart, MainNext, PTL DEF Spec

-----------------------------------------------------------------------------
(* The options *)

\* Every set of numbers that is not empty has a least one.
LEMMA LeastNumber ==
  ASSUME NEW T \in SUBSET Nat, T # {}
  PROVE  \E x \in T : \A y \in T : x <= y
<1>. DEFINE R == OpToRel(<, Nat)
<1>1. \A x, y \in Nat : <<x, y>> \in R <=> x < y
  BY DEF OpToRel
<1>2. IsWellFoundedOn(R, Nat)
  BY NatLessThanWellFounded, Zenon
<1>. HIDE DEF R
<1>3. PICK x \in T : \A y \in T : ~ (<<y, x>> \in R)
  BY <1>2, WFMin, Zenon
<1>4. \A y \in T : ~ (y < x)
  BY <1>1, <1>3, Zenon
<1>5. \A y \in T : x <= y
  BY <1>3, <1>4
<1>. QED  BY <1>3, <1>5, Zenon

\* A set with 0 and the successor of each of its numbers up to N has all numbers to N.
LEMMA Induction ==
  ASSUME NEW N \in Nat, NEW S, 0 \in S, \A n \in 0..(N - 1) : n \in S => n + 1 \in S
  PROVE  0..N \subseteq S
<1>. SUFFICES ASSUME 0..N \ S # {}
              PROVE  FALSE
  BY Zenon
<1>1. 0..N \ S \in SUBSET Nat
  OBVIOUS
<1>2. PICK x \in 0..N \ S : \A y \in 0..N \ S : x <= y
  BY <1>1, LeastNumber, Zenon
<1>3. x - 1 \in 0..(N - 1)
  BY <1>2
<1>4. x - 1 \in S
  <2>1. x - 1 \in 0..N /\ ~ (x <= x - 1)
    BY <1>2, <1>3
  <2>. QED  BY <1>2, <2>1, Zenon
<1>. QED  BY <1>2, <1>3, <1>4

\* getopt_long from element i on.
From(line) ==
  CHOOSE f : f = [i \in 1..(Len(line) + 1) |->
        IF i > Len(line) THEN <<>>
        ELSE ResultOf(line, i) \o f[IF TakesNext(line, i) THEN i + 2 ELSE i + 1]]

\* The recursion of getopt_long ends: there is a function as it says.
LEMMA GetoptRecursion ==
  ASSUME NEW line, Len(line) \in Nat
  PROVE  /\ getopt_long(line) = From(line)[1]
         /\ \A i \in 1..(Len(line) + 1) :
              From(line)[i] = IF i > Len(line) THEN <<>>
                ELSE ResultOf(line, i) \o From(line)[IF TakesNext(line, i) THEN i + 2 ELSE i + 1]
<1>. DEFINE N == Len(line)
            After(i) == IF TakesNext(line, i) THEN i + 2 ELSE i + 1
            Step(f, i) == IF i > N THEN <<>> ELSE ResultOf(line, i) \o f[After(i)]
            \* f is as the recursion says for the last n elements.
            Right(f, n) == \A i \in (N + 2 - n)..(N + 1) : f[i] = Step(f, i)
            S == {n \in 0..(N + 1) : \E f : DOMAIN f = 1..(N + 1) /\ f = [i \in DOMAIN f |-> f[i]] /\ Right(f, n)}
<1>1. getopt_long(line) = From(line)[1]
  BY Zenon DEF getopt_long, From
<1>2. \A i \in 1..N : After(i) \in (i + 1)..(N + 1)
  BY DEF TakesNext
<1>. HIDE DEF After
<1>3. 0 \in S
  <2>1. Right([i \in 1..(N + 1) |-> <<>>], 0)
    OBVIOUS
  <2>. HIDE DEF Right
  <2>. QED  BY <2>1
<1>4. ASSUME NEW n \in 0..N, n \in S
      PROVE  n + 1 \in S
  <2>1. PICK f : DOMAIN f = 1..(N + 1) /\ f = [i \in DOMAIN f |-> f[i]] /\ Right(f, n)
    BY <1>4, Zenon
  <2>. DEFINE k == N + 1 - n
              g == [i \in 1..(N + 1) |-> IF i = k THEN Step(f, k) ELSE f[i]]
  <2>2. k \in 1..(N + 1) /\ (N + 2 - (n + 1))..(N + 1) = {k} \cup (N + 2 - n)..(N + 1)
    OBVIOUS
  <2>3. ASSUME NEW i \in {k} \cup (N + 2 - n)..(N + 1)
        PROVE  g[i] = Step(g, i)
    <3>1. Step(g, i) = Step(f, i)
      <4>1. CASE i > N
        BY <4>1
      <4>2. CASE i \in 1..N
        <5>1. After(i) \in 1..(N + 1) /\ After(i) # k
          BY <1>2, <2>2, <2>3, <4>2
        <5>2. g[After(i)] = f[After(i)]
          BY <5>1
        <5>. HIDE DEF g, k
        <5>. QED  BY <5>2, Zenon
      <4>. QED  BY <2>2, <4>1, <4>2
    <3>2. g[i] = Step(f, i)
      <4>1. CASE i = k
        BY <2>2, <4>1
      <4>2. CASE i # k
        <5>1. f[i] = Step(f, i) /\ i \in 1..(N + 1)
          BY <2>1, <2>2, <4>2
        <5>. QED  BY <4>2, <5>1
      <4>. QED  BY <4>1, <4>2
    <3>. QED  BY <3>1, <3>2
  <2>4. Right(g, n + 1)
    BY <2>2, <2>3, Zenon
  <2>5. DOMAIN g = 1..(N + 1) /\ g = [i \in DOMAIN g |-> g[i]]
    OBVIOUS
  <2>. HIDE DEF g, Right
  <2>6. n + 1 \in 0..(N + 1)
    OBVIOUS
  <2>. QED  BY <2>4, <2>5, <2>6, Zenon
<1>5. N + 1 \in S
  <2>. HIDE DEF S
  <2>1. N + 1 \in Nat /\ 0..((N + 1) - 1) = 0..N /\ N + 1 \in 0..(N + 1)
    OBVIOUS
  <2>2. 0..(N + 1) \subseteq S
    BY <1>3, <1>4, <2>1, Induction, Zenon
  <2>. QED  BY <2>1, <2>2, Zenon
<1>6. PICK f : f = [i \in 1..(N + 1) |-> Step(f, i)]
  <2>1. PICK f : DOMAIN f = 1..(N + 1) /\ f = [i \in DOMAIN f |-> f[i]] /\ Right(f, N + 1)
    BY <1>5, Zenon
  <2>2. (N + 2 - (N + 1))..(N + 1) = 1..(N + 1)
    OBVIOUS
  <2>3. \A i \in 1..(N + 1) : f[i] = Step(f, i)
    BY <2>1, <2>2, Zenon
  <2>. HIDE DEF Step
  <2>4. f = [i \in 1..(N + 1) |-> Step(f, i)]
    BY <2>1, <2>3
  <2>. QED  BY <2>4, Zenon
<1>7. From(line) = [i \in 1..(N + 1) |-> Step(From(line), i)]
  BY <1>6, Zenon DEF From, After
<1>8. \A i \in 1..(N + 1) : From(line)[i] = Step(From(line), i)
  <2>. HIDE DEF Step
  <2>. DEFINE F == From(line)
  <2>1. F = [i \in 1..(N + 1) |-> Step(F, i)]
    BY <1>7, Zenon
  <2>. HIDE DEF F
  <2>2. \A i \in 1..(N + 1) : F[i] = Step(F, i)
    BY <2>1
  <2>. QED  BY <2>2, Zenon DEF F
<1>. QED  BY <1>1, <1>8, Zenon DEF After

\* What a result of getopt_long can be: an option with its argument, or an error.
Results(line) ==
  LET places == 1..Len(line)
  IN [ opt    : {line[i].name : i \in places} \cup {"?"},
       optarg : {line[i] : i \in places} \cup {Word(line[i].text) : i \in places}
                \cup {Word(NoText)} ]

\* An element gives at most one option, with its text or an element as the argument.
LEMMA ResultOfType ==
  ASSUME NEW line, Len(line) \in Nat, NEW i \in 1..Len(line)
  PROVE  ResultOf(line, i) \in Seq(Results(line))
<1>1. ASSUME NEW x \in Results(line) PROVE <<x>> \in Seq(Results(line))
  OBVIOUS
<1>2. <<>> \in Seq(Results(line))
  OBVIOUS
<1>3. [opt |-> line[i].name, optarg |-> Word(NoText)] \in Results(line)
  BY DEF Results
<1>4. [opt |-> line[i].name, optarg |-> Word(line[i].text)] \in Results(line)
  BY DEF Results
<1>5. [opt |-> "?", optarg |-> line[i]] \in Results(line)
  BY DEF Results
<1>6. TakesNext(line, i) => [opt |-> line[i].name, optarg |-> line[i + 1]] \in Results(line)
  <2>1. TakesNext(line, i) => i + 1 \in 1..Len(line)
    BY DEF TakesNext
  <2>. QED  BY <2>1 DEF Results
<1>. QED  BY <1>1, <1>2, <1>3, <1>4, <1>5, <1>6, Zenon DEF ResultOf

\* The results of getopt_long are a finite sequence, whatever is on the command line.
LEMMA GetoptType ==
  ASSUME NEW line, Len(line) \in Nat
  PROVE  getopt_long(line) \in Seq(Results(line))
<1>. DEFINE N == Len(line)
            F == From(line)
            S == {n \in 0..N : \A i \in (N + 1 - n)..(N + 1) : F[i] \in Seq(Results(line))}
<1>1. 0 \in S
  <2>1. N + 1 \in 1..(N + 1) /\ N + 1 > N /\ (N + 1 - 0)..(N + 1) = {N + 1}
    OBVIOUS
  <2>2. F[N + 1] = <<>>
    BY <2>1, GetoptRecursion, Zenon
  <2>3. <<>> \in Seq(Results(line)) /\ 0 \in 0..N
    OBVIOUS
  <2>. HIDE DEF F
  <2>. QED  BY <2>1, <2>2, <2>3, Zenon
<1>2. ASSUME NEW n \in 0..(N - 1), n \in S
      PROVE  n + 1 \in S
  <2>. DEFINE k == N - n
              next == IF TakesNext(line, k) THEN k + 2 ELSE k + 1
  <2>1. k \in 1..N /\ k \in 1..(N + 1) /\ ~(k > N)
    OBVIOUS
  <2>2. F[k] = ResultOf(line, k) \o F[next]
    BY <2>1, GetoptRecursion, Zenon
  <2>3. next \in (N + 1 - n)..(N + 1)
    BY DEF TakesNext
  <2>4. ResultOf(line, k) \in Seq(Results(line)) /\ F[next] \in Seq(Results(line))
    <3>. HIDE DEF F, next
    <3>1. F[next] \in Seq(Results(line))
      BY <1>2, <2>3, Zenon
    <3>. QED  BY <2>1, <3>1, ResultOfType, Zenon
  <2>5. F[k] \in Seq(Results(line))
    BY <2>2, <2>4, ConcatProperties, Zenon
  <2>6. (N + 1 - (n + 1))..(N + 1) = {k} \cup (N + 1 - n)..(N + 1) /\ n + 1 \in 0..N
    OBVIOUS
  <2>. HIDE DEF F, k
  <2>. QED  BY <1>2, <2>5, <2>6, Zenon
<1>3. N \in S
  <2>. HIDE DEF S
  <2>1. N \in 0..N
    OBVIOUS
  <2>. QED  BY <1>1, <1>2, <2>1, Induction, Zenon
<1>4. 1 \in (N + 1 - N)..(N + 1)
  OBVIOUS
<1>. QED  BY <1>3, <1>4, GetoptRecursion, Zenon

\* A set of numbers up to n that is not empty has a largest one, which Max chooses.
LEMMA Largest ==
  ASSUME NEW n \in Nat, NEW T \in SUBSET (1..n), T # {}
  PROVE  Max(T) \in T /\ \A y \in T : y <= Max(T)
<1>. DEFINE U == {n - y : y \in T}
<1>1. U \in SUBSET Nat /\ U # {}
  <2>1. \A y \in T : n - y \in Nat
    OBVIOUS
  <2>. QED  BY <2>1, Zenon
<1>2. PICK u \in U : \A v \in U : u <= v
  <2>. HIDE DEF U
  <2>. QED  BY <1>1, LeastNumber, Zenon
<1>3. PICK x \in T : u = n - x
  BY <1>2, Zenon
<1>4. \A y \in T : x >= y
  <2>. TAKE y \in T
  <2>1. u <= n - y
    BY <1>2, Zenon
  <2>. QED  BY <1>3, <2>1
<1>5. Max(T) \in T /\ \A y \in T : Max(T) >= y
  BY <1>3, <1>4, Zenon DEF Max
<1>. QED  BY <1>5

\* Of a command line as declared, getopt_long makes one result of every element.
LEMMA DeclaredResults ==
  ASSUME NEW line, Len(line) \in Nat, AsDeclared(line)
  PROVE  getopt_long(line) =
           [i \in 1..Len(line) |-> [opt |-> line[i].name, optarg |-> Word(line[i].text)]]
<1>. DEFINE N == Len(line)
            F == From(line)
            R(i) == [opt |-> line[i].name, optarg |-> Word(line[i].text)]
            Last(n) == [j \in 1..n |-> R(N - n + j)]
            S == {n \in 0..N : F[N + 1 - n] = Last(n)}
<1>1. \A i \in 1..N : ResultOf(line, i) = <<R(i)>> /\ ~TakesNext(line, i)
  <2>. TAKE i \in 1..N
  <2>1. line[i].name \in OptionNames /\ (line[i].text = NoText <=> line[i].name \in no_argument)
    BY Zenon DEF AsDeclared
  <2>2. line[i].name # NoText
    BY <2>1, OptionAssumption, Zenon
  <2>3. line[i].name \in no_argument => line[i].name \notin required_argument
    BY Zenon DEF no_argument, required_argument
  <2>4. ~TakesNext(line, i)
    BY <2>1, <2>3, Zenon DEF TakesNext
  <2>5. CASE line[i].name \in no_argument
    <3>1. line[i].text = NoText
      BY <2>1, <2>5, Zenon
    <3>. QED  BY <2>2, <2>3, <2>4, <2>5, <3>1, Zenon DEF ResultOf
  <2>6. CASE line[i].name \notin no_argument
    <3>1. line[i].text # NoText /\ line[i].name \in required_argument
      BY <2>1, <2>6, Zenon DEF OptionNames
    <3>. QED  BY <2>2, <2>4, <2>6, <3>1, Zenon DEF ResultOf
  <2>. QED  BY <2>4, <2>5, <2>6, Zenon
<1>. HIDE DEF R
<1>2. 0 \in S
  <2>1. N + 1 \in 1..(N + 1) /\ N + 1 > N /\ N + 1 - 0 = N + 1 /\ Last(0) = <<>> /\ 0 \in 0..N
    OBVIOUS
  <2>2. F[N + 1] = <<>>
    BY <2>1, GetoptRecursion, Zenon
  <2>. HIDE DEF F, Last
  <2>. QED  BY <2>1, <2>2
<1>3. ASSUME NEW n \in 0..(N - 1), n \in S
      PROVE  n + 1 \in S
  <2>. DEFINE k == N - n
  <2>1. k \in 1..N /\ k \in 1..(N + 1) /\ ~(k > N) /\ N + 1 - (n + 1) = k /\ k + 1 = N + 1 - n
        /\ n + 1 \in 0..N
    OBVIOUS
  <2>2. F[k] = ResultOf(line, k) \o F[IF TakesNext(line, k) THEN k + 2 ELSE k + 1]
    <3>. HIDE DEF k
    <3>. QED  BY <2>1, GetoptRecursion, Zenon
  <2>3. F[k] = <<R(k)>> \o Last(n)
    <3>. HIDE DEF F, Last, k
    <3>1. F[k + 1] = Last(n)
      BY <1>3, <2>1, Zenon
    <3>. QED  BY <1>1, <2>1, <2>2, <3>1, Zenon
  <2>4. <<R(k)>> \o Last(n) = Last(n + 1)
    OBVIOUS
  <2>. HIDE DEF F, Last, k
  <2>. QED  BY <2>1, <2>3, <2>4, Zenon
<1>4. N \in S
  <2>. HIDE DEF S
  <2>1. N \in 0..N
    OBVIOUS
  <2>. QED  BY <1>2, <1>3, <2>1, Induction, Zenon
<1>5. N + 1 - N = 1 /\ Last(N) = [i \in 1..N |-> R(i)]
  OBVIOUS
<1>6. F[1] = [i \in 1..N |-> R(i)]
  <2>. HIDE DEF F, Last
  <2>. QED  BY <1>4, <1>5, Zenon
<1>. QED  BY <1>6, GetoptRecursion, Zenon DEF R

\* The options that main() makes the load monitor with.
Limits == {"target-latency-us", "max-tokens", "init-token-rate", "min-token-rate"}

\* A limit that init_options accepts.
Positive(value) == value = Word("default") \/ Atoi(value) > 0

\* atoi returns an integer.
LEMMA AtoiType == \A value : Atoi(value) \in Int
BY OptionAssumption DEF Atoi

\* What init_options does not refuse leaves the limits positive.
LEMMA LimitTaken ==
  ASSUME NEW line, Len(line) \in Nat, ~OptionsRefused(line),
         NEW opts, NEW names, NEW name \in Limits, name \in DOMAIN opts, Positive(opts[name])
  PROVE  Positive(Taken(opts, getopt_long(line), names)[name])
<1>. DEFINE results == getopt_long(line)
            given == {i \in 1..Len(results) : results[i].opt = name}
<1>1. Len(results) \in Nat
  BY GetoptType, LenProperties, Zenon
<1>2. Taken(opts, results, names)[name] =
        IF name \notin names \/ given = {} THEN opts[name]
        ELSE IF name \in Flags THEN Set ELSE results[Max(given)].optarg
  BY Zenon DEF Taken
<1>3. name \notin Flags
  BY Zenon DEF Limits, Flags, no_argument
<1>4. ASSUME given # {} PROVE Atoi(results[Max(given)].optarg) > 0
  <2>1. Max(given) \in given
    <3>1. given \in SUBSET (1..Len(results))
      BY Zenon
    <3>. HIDE DEF given
    <3>. QED  BY <1>1, <1>4, <3>1, Largest, Zenon
  <2>. DEFINE i == Max(given)
  <2>2. i \in 1..Len(results) /\ results[i].opt = name
    BY <2>1, Zenon
  <2>. HIDE DEF i
  <2>3. ~Invalid(name, results[i].optarg)
    BY <2>2, Zenon DEF OptionsRefused
  <2>4. ~(Atoi(results[i].optarg) <= 0)
    BY <2>3, Zenon DEF Invalid, Limits
  <2>5. Atoi(results[i].optarg) \in Int
    BY AtoiType, Zenon
  <2>6. Atoi(results[i].optarg) > 0
    <3>. DEFINE number == Atoi(results[i].optarg)
    <3>. HIDE DEF number
    <3>1. number \in Int /\ ~(number <= 0)
      BY <2>4, <2>5, Zenon DEF number
    <3>2. number > 0
      BY <3>1
    <3>. QED  BY <3>2, Zenon DEF number
  <2>. QED  BY <2>6, Zenon DEF i
<1>. HIDE DEF given
<1>. QED  BY <1>2, <1>3, <1>4, Zenon DEF Positive

\* The last element of a command line as declared that gives an option decides it.
LEMMA LastTaken ==
  ASSUME NEW line, Len(line) \in Nat, AsDeclared(line), NEW i \in 1..Len(line), IsLast(line, i),
         NEW opts, NEW names, line[i].name \in names, line[i].name \in DOMAIN opts
  PROVE  /\ Taken(opts, getopt_long(line), names)[line[i].name] =
              IF line[i].name \in Flags THEN Set ELSE Word(line[i].text)
         /\ \E j \in 1..Len(getopt_long(line)) : getopt_long(line)[j].opt = line[i].name
<1>. DEFINE results == getopt_long(line)
            name == line[i].name
            given == {j \in 1..Len(results) : results[j].opt = name}
<1>1. results = [j \in 1..Len(line) |-> [opt |-> line[j].name, optarg |-> Word(line[j].text)]]
  BY DeclaredResults, Zenon
<1>2. /\ Len(results) = Len(line)
      /\ \A j \in 1..Len(line) : results[j].opt = line[j].name /\ results[j].optarg = Word(line[j].text)
  <2>. HIDE DEF results
  <2>. QED  BY <1>1
<1>3. i \in given /\ given \in SUBSET (1..Len(line))
  BY <1>2, Zenon
<1>4. ASSUME NEW j \in given PROVE j <= i
  <2>1. j \in 1..Len(line) /\ line[j].name = line[i].name
    BY <1>2, <1>4, Zenon
  <2>2. j \notin (i + 1)..Len(line)
    BY <2>1, Zenon DEF IsLast
  <2>. QED  BY <2>1, <2>2
<1>5. Max(given) = i
  <2>. HIDE DEF given
  <2>1. Max(given) \in given /\ i <= Max(given)
    BY <1>3, Largest, Zenon
  <2>2. Max(given) <= i /\ Max(given) \in 1..Len(line)
    BY <1>3, <1>4, <2>1, Zenon
  <2>. QED  BY <2>1, <2>2
<1>6. Taken(opts, results, names)[name] =
        IF name \notin names \/ given = {} THEN opts[name]
        ELSE IF name \in Flags THEN Set ELSE results[Max(given)].optarg
  BY Zenon DEF Taken
<1>7. results[i].optarg = Word(line[i].text)
  BY <1>2, Zenon
<1>8. \E j \in 1..Len(results) : results[j].opt = name
  BY <1>3, Zenon
<1>. HIDE DEF given
<1>. QED  BY <1>3, <1>5, <1>6, <1>7, <1>8, Zenon

\* An option of a command line as declared has its value.
Given(names) ==
  AsDeclared(argv) => \A i \in 1..Len(argv) : IsLast(argv, i) /\ argv[i].name \in names =>
    options[argv[i].name] = IF argv[i].name \in Flags THEN Set ELSE Word(argv[i].text)

\* What is known of the options after each of the two passes.
OptionsInv ==
  /\ DOMAIN options = OptionNames \ {"help"}
  /\ \A name \in Limits : Positive(options[name])
  /\ pc > 3 => Given(LoggingOptions)
  /\ pc > 4 => Given(OptionNames)
  /\ "load_monitor" \in live => pc > 4

\* It holds before main() looks at argv.
LEMMA OptionsStart == Init => OptionsInv
<1>. SUFFICES ASSUME Init PROVE OptionsInv
  BY Zenon
<1>1. PICK value \in {Set, Unset} : options = Default(value)
  BY Zenon DEF Init
<1>2. DOMAIN options = OptionNames \ {"help"}
  BY <1>1, Zenon DEF Default
<1>3. ASSUME NEW name \in Limits PROVE options[name] = Word("default")
  <2>1. name \in OptionNames \ {"help"} /\ name # "http-acr-logging" /\ name \notin Flags
        /\ name \notin {"ralf-hostname", "pidfile"}
    BY Zenon DEF Limits, OptionNames, Flags, no_argument, required_argument
  <2>. QED  BY <1>1, <2>1, Zenon DEF Default
<1>4. ~(pc > 3) /\ ~(pc > 4) /\ live = {}
  BY DEF Init
<1>. QED  BY <1>2, <1>3, <1>4, Zenon DEF OptionsInv, Positive

\* The first pass gives the options of logging their values, and no limit.
LEMMA FirstPass ==
  ASSUME MainInv, OptionsInv, At("init_logging_options"), Next1,
         options' = init_logging_options(options, argv), argv' = argv, live' = live
  PROVE  OptionsInv'
<1>1. pc = 3 /\ pc' = 4
  <2>1. pc \in 1..74
    BY Place, Zenon DEF MainInv
  <2>2. pc = 3
    BY <2>1, Where, Zenon DEF At
  <2>. QED  BY <2>2 DEF Next1, Goto
<1>2. Len(argv) \in Nat
  BY ArgvAssumption, LenProperties, Zenon DEF MainInv, TypeOK
<1>3. DOMAIN options' = OptionNames \ {"help"}
  BY Zenon DEF OptionsInv, init_logging_options, Taken
<1>4. ASSUME NEW name \in Limits PROVE options'[name] = options[name]
  <2>1. name \notin LoggingOptions
    BY Zenon DEF Limits, LoggingOptions
  <2>2. name \in DOMAIN options
    BY Zenon DEF OptionsInv, Limits, OptionNames, required_argument
  <2>. QED  BY <2>1, <2>2, Zenon DEF init_logging_options, Taken
<1>5. Given(LoggingOptions)'
  <2>. SUFFICES ASSUME AsDeclared(argv), NEW i \in 1..Len(argv), IsLast(argv, i),
                       argv[i].name \in LoggingOptions
                PROVE  options'[argv[i].name] =
                         IF argv[i].name \in Flags THEN Set ELSE Word(argv[i].text)
    BY Zenon DEF Given
  <2>1. argv[i].name \in DOMAIN options
    BY Zenon DEF OptionsInv, LoggingOptions, OptionNames, no_argument, required_argument
  <2>. DEFINE names == LoggingOptions
              taken == Taken(options, getopt_long(argv), names)
  <2>2. options' = taken
    BY Zenon DEF init_logging_options
  <2>3. argv[i].name \in names
    BY Zenon
  <2>4. /\ taken[argv[i].name] = IF argv[i].name \in Flags THEN Set ELSE Word(argv[i].text)
        /\ \E j \in 1..Len(getopt_long(argv)) : getopt_long(argv)[j].opt = argv[i].name
    <3>. HIDE DEF names
    <3>. QED  BY <1>2, <2>1, <2>3, LastTaken, Zenon
  <2>. HIDE DEF taken
  <2>. QED  BY <2>2, <2>4, Zenon
<1>6. "load_monitor" \notin live /\ ~(pc' > 4)
  BY <1>1 DEF OptionsInv
<1>7. \A name \in Limits : Positive(options'[name])
  BY <1>4, Zenon DEF OptionsInv
<1>. QED  BY <1>3, <1>5, <1>6, <1>7, Zenon DEF OptionsInv

\* The second pass gives the others theirs, keeps those, and takes no limit that is
\* not positive.
LEMMA SecondPass ==
  ASSUME MainInv, OptionsInv, At("init_options"), Next1, ~OptionsRefused(argv),
         options' = init_options(options, argv), argv' = argv, live' = live
  PROVE  OptionsInv'
<1>. DEFINE results == getopt_long(argv)
            names == OptionNames \ LoggingOptions
            taken == Taken(options, results, names)
            timeout == "diameter-timeout-ms"
<1>1. pc = 4 /\ pc' = 5
  <2>1. pc \in 1..74
    BY Place, Zenon DEF MainInv
  <2>2. pc = 4
    BY <2>1, Where, Zenon DEF At
  <2>. QED  BY <2>2 DEF Next1, Goto
<1>2. Len(argv) \in Nat
  BY ArgvAssumption, LenProperties, Zenon DEF MainInv, TypeOK
<1>3. DOMAIN taken = OptionNames \ {"help"}
  BY Zenon DEF OptionsInv, Taken
<1>4. \/ options' = taken
      \/ /\ options' = [taken EXCEPT ![timeout] = Word("calculated")]
         /\ ~ \E j \in 1..Len(results) : results[j].opt = timeout
  BY Zenon DEF init_options
<1>5. /\ DOMAIN options' = OptionNames \ {"help"}
      /\ \A name \in OptionNames \ {"help"} :
           \/ options'[name] = taken[name]
           \/ name = timeout /\ ~ \E j \in 1..Len(results) : results[j].opt = name
  <2>. HIDE DEF taken, results, timeout
  <2>. QED  BY <1>3, <1>4, Zenon
<1>6. ASSUME NEW name \in Limits PROVE Positive(options'[name])
  <2>1. name # timeout /\ name \in OptionNames \ {"help"}
    BY Zenon DEF Limits, OptionNames, required_argument
  <2>2. name \in DOMAIN options /\ Positive(options[name])
    BY <2>1, Zenon DEF OptionsInv
  <2>3. Positive(taken[name])
    <3>. HIDE DEF names
    <3>. QED  BY <1>2, <2>2, LimitTaken, Zenon
  <2>. HIDE DEF taken, results, timeout
  <2>4. options'[name] = taken[name]
    BY <1>5, <2>1, Zenon
  <2>. QED  BY <2>3, <2>4, Zenon
<1>7. Given(OptionNames)'
  <2>. SUFFICES ASSUME AsDeclared(argv), NEW i \in 1..Len(argv), IsLast(argv, i),
                       argv[i].name \in OptionNames
                PROVE  options'[argv[i].name] =
                         IF argv[i].name \in Flags THEN Set ELSE Word(argv[i].text)
    BY Zenon DEF Given
  <2>. DEFINE name == argv[i].name
              value == IF name \in Flags THEN Set ELSE Word(argv[i].text)
  <2>1. name # "help"
    <3>1. results = [j \in 1..Len(argv) |-> [opt |-> argv[j].name, optarg |-> Word(argv[j].text)]]
      BY <1>2, DeclaredResults, Zenon
    <3>2. i \in 1..Len(results) /\ results[i].opt = name
      <4>. HIDE DEF results
      <4>. QED  BY <1>2, <3>1
    <3>. QED  BY <3>2, Zenon DEF OptionsRefused
  <2>2. name \in DOMAIN options /\ name \in OptionNames \ {"help"}
    BY <2>1, Zenon DEF OptionsInv
  <2>3. ASSUME name \in LoggingOptions PROVE options'[name] = value
    <3>1. options[name] = value
      <4>1. pc > 3
        BY <1>1
      <4>. QED  BY <2>3, <4>1, Zenon DEF OptionsInv, Given
    <3>2. taken[name] = options[name]
      BY <2>2, <2>3, Zenon DEF Taken
    <3>3. name # timeout
      BY <2>3, Zenon DEF LoggingOptions
    <3>. HIDE DEF taken, value, results, timeout, name
    <3>. QED  BY <1>5, <2>2, <3>1, <3>2, <3>3, Zenon
  <2>4. ASSUME name \notin LoggingOptions PROVE options'[name] = value
    <3>1. name \in names
      BY <2>4, Zenon
    <3>2. taken[name] = value /\ \E j \in 1..Len(results) : results[j].opt = name
      <4>. HIDE DEF names
      <4>. QED  BY <1>2, <2>2, <3>1, LastTaken, Zenon
    <3>. HIDE DEF taken, value, results, timeout, name
    <3>. QED  BY <1>5, <2>2, <3>2, Zenon
  <2>. QED  BY <2>3, <2>4, Zenon
<1>8. Given(LoggingOptions)'
  <2>1. LoggingOptions \subseteq OptionNames
    BY Zenon DEF LoggingOptions, OptionNames, no_argument, required_argument
  <2>. QED  BY <1>7, <2>1, Zenon DEF Given
<1>9. pc' > 4
  BY <1>1
<1>. QED  BY <1>5, <1>6, <1>7, <1>8, <1>9, Zenon DEF OptionsInv

\* Steps that leave argv and the options alone keep the invariant if main() does not
\* step over a pass and makes the load monitor beyond both.
LEMMA OptionsKept ==
  ASSUME OptionsInv, argv' = argv, options' = options,
         pc' > 3 => pc > 3, pc' > 4 => pc > 4, "load_monitor" \in live' => pc' > 4
  PROVE  OptionsInv'
BY Zenon DEF OptionsInv, Given

\* main() passes over nothing, except after an exception in stop, and makes objects only
\* beyond the two passes.
LEMMA OtherSteps ==
  ASSUME MainInv, OptionsInv, Main[pc].do \notin {"init_logging_options", "init_options"},
         argv' = argv, options' = options,
         pc' \in {pc, pc + 1} \/ (pc' = pc + 2 /\ Main[pc].do = "stop"),
         live' \subseteq live \/ (Main[pc].do = "new" /\ pc' = pc + 1)
  PROVE  OptionsInv'
<1>1. pc \in 1..74
  BY Place, Zenon DEF MainInv
<1>2. /\ pc # 3 /\ pc # 4
      /\ Main[pc].do = "stop" => pc \in {42, 44, 46, 61}
      /\ Main[pc].do = "new" => pc > 7
  BY <1>1, Where, Zenon
<1>3. (pc' > 3 => pc > 3) /\ (pc' > 4 => pc > 4) /\ (pc > 4 => pc' > 4)
  BY <1>1, <1>2
<1>4. "load_monitor" \in live => pc > 4
  BY Zenon DEF OptionsInv
<1>5. "load_monitor" \in live' => pc' > 4
  <2>1. CASE live' \subseteq live
    BY <1>3, <1>4, <2>1, Zenon
  <2>2. CASE Main[pc].do = "new" /\ pc' = pc + 1
    BY <1>1, <1>2, <2>2
  <2>. QED  BY <2>1, <2>2, Zenon
<1>. QED  BY <1>3, <1>5, OptionsKept, Zenon

\* Every step keeps the invariant.
LEMMA OptionsNext == MainInv /\ OptionsInv /\ [Next]_vars => OptionsInv'
<1>. SUFFICES ASSUME MainInv, OptionsInv, [Next]_vars PROVE OptionsInv'
  BY Zenon
<1>1. CASE ReadOptions
  <2>1. argv' = argv /\ live' = live
    BY <1>1, Zenon DEF ReadOptions
  <2>2. CASE Exit("1") /\ UNCHANGED options
    <3>1. pc' = pc /\ options' = options
      BY <2>2, Zenon DEF Exit
    <3>2. "load_monitor" \in live' => pc' > 4
      BY <2>1, <3>1, Zenon DEF OptionsInv
    <3>. QED  BY <2>1, <3>1, <3>2, OptionsKept, Zenon
  <2>. QED  BY <1>1, <2>1, <2>2, FirstPass, SecondPass, Zenon DEF ReadOptions
<1>2. CASE SemInit \/ CatchSigterm \/ SemWait \/ DefaultSigterm \/ SemDestroy \/ Return
  BY <1>2, OtherSteps, Zenon
     DEF SemInit, CatchSigterm, SemWait, DefaultSigterm, SemDestroy, Return, At, Next1, Goto, Exit
<1>3. CASE Check
  BY <1>3, OtherSteps, Zenon DEF Check, At, Next1, Goto, Exit
<1>4. CASE NewObject \/ DeleteObject
  BY <1>4, OtherSteps, Zenon DEF NewObject, DeleteObject, At, Next1, Goto
<1>5. CASE StartPart \/ StopPart \/ WaitStopped
  BY <1>5, OtherSteps, Zenon DEF StartPart, StopPart, WaitStopped, At, Next1, Goto, Exit
<1>6. CASE UNCHANGED <<pc, argv, options, live>>
  BY <1>6, OptionsKept, Zenon DEF OptionsInv
<1>7. CASE Sigterm \/ DelayedExit \/ \E thread \in Threads : Begin(thread) \/ Finish(thread) \/ Fault(thread)
  <2>1. UNCHANGED <<pc, argv, options, live>>
    BY <1>7, Zenon DEF Sigterm, DelayedExit, Begin, Finish, Fault
  <2>. QED  BY <1>6, <2>1, Zenon
<1>8. CASE UNCHANGED vars
  BY <1>6, <1>8, Zenon DEF vars
<1>. QED  BY <1>1, <1>2, <1>3, <1>4, <1>5, <1>7, <1>8, Zenon DEF Next, MainThread, Rest

\* The invariant holds throughout.
LEMMA OptionsInvCorrect == Spec => []OptionsInv
BY OptionsStart, OptionsNext, MainInvCorrect, PTL DEF Spec

-----------------------------------------------------------------------------
(* The theorems *)

\* main() never runs past its last step, no more is posted than was signalled, and no
\* more ACRs are answered than were sent, for any number of workers, signals and ACRs.
THEOREM TypeCorrect == Spec => []TypeOK
<1>1. MainInv => TypeOK
  BY Zenon DEF MainInv
<1>. QED  BY <1>1, MainInvCorrect, PTL

\* Whenever SIGTERM is caught, terminate_handler finds a semaphore that has been
\* initialised and not destroyed.
THEOREM SemaphoreThere == Spec => []SemaphoreUsable
<1>1. MainInv => SemaphoreUsable
  <2>. SUFFICES ASSUME MainInv, sigterm = "post" PROVE sem >= 0
    BY Zenon DEF SemaphoreUsable
  <2>1. pc \in 3..72
    BY Zenon DEF MainInv, Signalled
  <2>. QED  BY <2>1 DEF MainInv, Signalled
<1>. QED  BY <1>1, MainInvCorrect, PTL

\* No thread of the stacks, the realm manager or the health checker can reach an object
\* that is not there, whatever the threads do while main() starts and stops them, unless
\* stopping a stack threw.
THEOREM NoneUsedAfterDelete == Spec => []NoUseAfterDelete
<1>1. MainInv => NoUseAfterDelete
  <2>. SUFFICES ASSUME MainInv, caught = {}, NEW thread \in busy
                PROVE  Uses[PartOf(thread)] \subseteq live
    BY Zenon DEF NoUseAfterDelete
  <2>1. pc \in 1..74
    BY Place, Zenon DEF MainInv
  <2>2. ASSUME NEW part \in running, part = PartOf(thread)
        PROVE  part \in Parts /\ StartAt[part] < pc /\ pc <= WaitAt[part]
    BY Zenon DEF MainInv, TypeOK, Runs
  <2>3. ASSUME 37 < pc, pc <= 48 PROVE Early \subseteq live
    <3>1. ASSUME NEW o \in Early PROVE Made(o) /\ o \in Objects
      <4>1. \A i \in 1..36 : i \in 1..(pc - 1)
        BY <2>1, <2>3
      <4>. QED  BY <4>1, MadeBefore, Zenon DEF Made, Objects
    <3>. QED  BY <2>3, <3>1, Zenon DEF MainInv, Exists
  <2>4. ASSUME 40 < pc, pc <= 48 PROVE Objects \subseteq live
    <3>1. ASSUME NEW o \in Objects PROVE Made(o)
      <4>1. \A i \in 1..39 : i \in 1..(pc - 1)
        BY <2>1, <2>4
      <4>. QED  BY <4>1, MadeBefore, Zenon DEF Made
    <3>. QED  BY <2>4, <3>1, Zenon DEF MainInv, Exists
  <2>5. ASSUME 17 < pc, pc <= 62 PROVE "hc" \in live
    <3>1. 16 \in 1..(pc - 1) /\ pc <= 64
      BY <2>1, <2>5
    <3>2. Made("hc")
      BY <3>1, MadeBefore, Zenon DEF Made
    <3>. QED  BY <3>1, <3>2, Zenon DEF MainInv, Exists
  <2>6. PartOf(thread) \in running
    BY Zenon DEF MainInv, Works
  <2>7. PartOf(thread) \in Parts
    BY <2>2, <2>6, Zenon
  <2>8. CASE PartOf(thread) = "http"
    <3>1. 37 < pc /\ pc <= 43
      BY <2>2, <2>6, <2>8 DEF StartAt, WaitAt
    <3>. QED  BY <2>1, <2>3, <2>8, <3>1, UsesMade
  <2>9. CASE PartOf(thread) = "diameter"
    <3>1. pc <= 45
      BY <2>2, <2>6, <2>9 DEF WaitAt
    <3>2. "diameter" \in busy
      BY <2>9, Zenon DEF PartOf
    <3>3. pc > 37
      BY <3>2, Zenon DEF MainInv, Works
    <3>. QED  BY <2>1, <2>3, <2>9, <3>1, <3>3, UsesMade
  <2>10. CASE PartOf(thread) = "realm"
    <3>1. 40 < pc /\ pc <= 47
      BY <2>2, <2>6, <2>10 DEF StartAt, WaitAt
    <3>. QED  BY <2>1, <2>4, <2>10, <3>1, UsesMade
  <2>11. CASE PartOf(thread) = "hc"
    <3>1. 17 < pc /\ pc <= 62
      BY <2>2, <2>6, <2>11 DEF StartAt, WaitAt
    <3>. QED  BY <2>1, <2>5, <2>11, <3>1, UsesMade, Zenon
  <2>. QED  BY <2>7, <2>8, <2>9, <2>10, <2>11, Zenon DEF Parts
<1>. QED  BY <1>1, MainInvCorrect, PTL

\* When main() returns every part has been waited for and no thread is at work, unless
\* stopping a stack threw.
THEOREM AllJoined == Spec => []ThreadsJoined
<1>1. MainInv => ThreadsJoined
  <2>. SUFFICES ASSUME MainInv, ended = "0", caught = {} PROVE running = {} /\ busy = {}
    BY Zenon DEF ThreadsJoined
  <2>1. pc = 74
    BY Zenon DEF MainInv, Returned
  <2>2. running = {}
    <3>1. \A part \in running : part \in Parts /\ pc <= WaitAt[part]
      BY Zenon DEF MainInv, Runs, TypeOK
    <3>2. \A part \in Parts : ~(74 <= WaitAt[part])
      BY DEF WaitAt, Parts
    <3>. QED  BY <2>1, <3>1, <3>2, Zenon
  <2>. QED  BY <2>2, Zenon DEF MainInv, Works
<1>. QED  BY <1>1, MainInvCorrect, PTL

\* Whatever is on the command line, in whichever order and however often, the limits the
\* load monitor is made with are positive.
THEOREM LimitsArePositive == Spec => []LimitsPositive
<1>1. OptionsInv => LimitsPositive
  BY Zenon DEF OptionsInv, LimitsPositive, Positive, Limits
<1>. QED  BY <1>1, OptionsInvCorrect, PTL

\* Each option of a command line as long_opt declares it has its value once the options
\* are used, the last one if it was given more than once, for command lines of any length.
THEOREM OptionsTaken == Spec => []OptionsAsGiven
<1>1. OptionsInv => OptionsAsGiven
  BY Zenon DEF OptionsInv, OptionsAsGiven, Given, AsDeclared
<1>. QED  BY <1>1, OptionsInvCorrect, PTL
=============================================================================
