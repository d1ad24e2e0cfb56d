------------------------------ MODULE RalfMain ------------------------------
(***************************************************************************)
(* main() of Ralf (src/main.cpp) from the command line to the return, as   *)
(* the sequence of its steps, with the threads it starts and stops and the *)
(* signals that reach it at any moment.                                    *)
(*                                                                         *)
(* External, modelled from their use here: the HTTP and Diameter stacks,   *)
(* RealmManager and HealthChecker, whose threads use the objects that      *)
(* main() gave them until stop and wait_stopped (or stop) return.          *)
(***************************************************************************)
EXTENDS RalfOptions

CONSTANTS
  CommandLines,  \* values of argv
  HttpWorkers,   \* threads of the HTTP stack
  MaxSignals,    \* bounds the SIGTERMs
  MaxAcrs        \* bounds the ACRs without answer

ASSUME ArgvAssumption == \A line \in CommandLines : line \in Seq({line[i] : i \in DOMAIN line})

VARIABLES
  pc,        \* main() has come to step Main[pc]
  argv,
  options,
  sem,       \* the value of term_sem, -1 while it may not be used
  sigterm,   \* the action for SIGTERM: "default" or "post"
  live,      \* the objects that exist
  running,   \* parts whose threads run
  stopping,  \* parts told to stop
  caught,    \* stacks whose stop or wait_stopped threw an exception
  busy,      \* threads that are at work
  acrs,      \* number of ACRs without answer
  dying,     \* the exception handler is to exit the process
  ended,     \* how the process ended, "no" while it runs
  signals    \* number of SIGTERMs so far

threads == <<running, stopping, caught, busy, acrs, dying>>
vars    == <<pc, argv, options, sem, sigterm, live, threads, ended, signals>>

-----------------------------------------------------------------------------
(* The steps of main() *)

Do(what)    == [do |-> what, of |-> "main"]
New(object) == [do |-> "new", of |-> object]
Start(part) == [do |-> "start", of |-> part]
Stop(part)  == [do |-> "stop", of |-> part]
Wait(part)  == [do |-> "wait_stopped", of |-> part]
Delete(object) == [do |-> "delete", of |-> object]

\* Mutant: SIGTERM is caught before the semaphore is there.
PrologueSwapped ==
  << Do("catch_sigterm"), Do("sem_init"), Do("init_logging_options"), Do("init_options"),
     Do("pidfile"), Do("hostname"), Do("stores") >>

\* Signals, options and what main() checks before it starts anything.
Prologue ==
  << Do("sem_init"), Do("catch_sigterm"), Do("init_logging_options"), Do("init_options"),
     Do("pidfile"), Do("hostname"), Do("stores") >>

\* Alarms, monitors and the health checker, then the Diameter stack.
StartDiameter ==
  << New("alarm_manager"), New("cdf_comm_monitor"), New("chronos_comm_monitor"),
     New("astaire_comm_monitor"), New("remote_astaire_comm_monitor"), New("access_logger"),
     New("sas_service"), New("load_monitor"), New("hc"), Start("hc"),
     New("exception_handler"), New("diameter_stack"), New("dict"), Start("diameter") >>

\* The stores, and what the handler and the senders are configured with.
NewStores ==
  << New("dns_resolver"), New("astaire_resolver"), New("local_memstore"),
     New("local_session_store"), New("remote_memstores"), New("remote_session_stores"),
     New("cfg"), New("factory") >>

\* Chronos and the session manager, then the HTTP stack.
StartHttp ==
  << New("http_resolver"), New("chronos_http_client"), New("chronos_http_conn"),
     New("timer_conn"), New("mgr"), New("http_stack"), New("billing_handler"), Start("http") >>

StartRealm == << New("diameter_resolver"), New("realm_manager"), Start("realm") >>

\* Mutant: objects are deleted while the realm manager runs.
StopPartsShort ==
  << Do("sem_wait"), Stop("http"), Wait("http"), Stop("diameter"), Wait("diameter") >>

StopParts ==
  << Do("sem_wait"), Stop("http"), Wait("http"), Stop("diameter"), Wait("diameter"),
     Stop("realm"), Wait("realm") >>

DeleteObjects ==
  << Delete("realm_manager"), Delete("diameter_resolver"), Delete("timer_conn"),
     Delete("chronos_http_conn"), Delete("chronos_http_client"), Delete("http_resolver"),
     Delete("dns_resolver"), Delete("load_monitor"), Delete("local_session_store"),
     Delete("local_memstore"), Delete("remote_session_stores"), Delete("remote_memstores"),
     Delete("astaire_resolver") >>

\* Mutant: the health checker is deleted before it is stopped.
EpilogueHasty ==
  << Delete("exception_handler"), Delete("hc"), Stop("hc"), Wait("hc"), Delete("http_stack"),
     Delete("cdf_comm_monitor"), Delete("chronos_comm_monitor"), Delete("astaire_comm_monitor"),
     Delete("remote_astaire_comm_monitor"), Delete("alarm_manager"), Delete("sas_service"),
     Do("default_sigterm"), Do("sem_destroy"), Do("return") >>

Epilogue ==
  << Stop("hc"), Wait("hc"), Delete("exception_handler"), Delete("hc"), Delete("http_stack"),
     Delete("cdf_comm_monitor"), Delete("chronos_comm_monitor"), Delete("astaire_comm_monitor"),
     Delete("remote_astaire_comm_monitor"), Delete("alarm_manager"), Delete("sas_service"),
     Do("default_sigterm"), Do("sem_destroy"), Do("return") >>

Main ==
  Prologue \o StartDiameter \o NewStores \o StartHttp \o StartRealm
  \o StopParts \o DeleteObjects \o Epilogue

\* The objects each object was given by its constructor or, the Diameter stack, by
\* configure().
Holds(o) ==
  CASE o \in {"cdf_comm_monitor", "chronos_comm_monitor", "astaire_comm_monitor",
              "remote_astaire_comm_monitor"} -> {"alarm_manager"}
    [] o = "exception_handler" -> {"hc"}
    [] o = "diameter_stack" -> {"exception_handler", "cdf_comm_monitor"}
    [] o \in {"astaire_resolver", "http_resolver", "diameter_resolver"} -> {"dns_resolver"}
    [] o = "local_memstore" -> {"astaire_resolver", "astaire_comm_monitor"}
    [] o = "remote_memstores" -> {"astaire_resolver", "remote_astaire_comm_monitor"}
    [] o = "local_session_store" -> {"local_memstore"}
    [] o = "remote_session_stores" -> {"remote_memstores"}
    [] o = "chronos_http_client" -> {"http_resolver", "chronos_comm_monitor"}
    [] o = "chronos_http_conn" -> {"chronos_http_client"}
    [] o = "timer_conn" -> {"chronos_http_conn"}
    [] o = "mgr" -> {"local_session_store", "remote_session_stores", "dict", "factory",
                     "timer_conn", "diameter_stack", "hc"}
    [] o = "http_stack" -> {"exception_handler", "access_logger", "load_monitor", "billing_handler"}
    [] o = "billing_handler" -> {"cfg"}
    [] o = "cfg" -> {"mgr"}
    [] o = "realm_manager" -> {"diameter_stack", "diameter_resolver"}
    [] OTHER -> {}

\* The objects and those they hold.
Held(objects) == objects \cup UNION {Holds(o) : o \in objects}

\* What can be reached from the objects, in as many steps as it takes.
Reachable(objects) ==
  Held(Held(Held(Held(Held(Held(Held(Held(objects))))))))

Parts == {"hc", "diameter", "http", "realm"}

\* What the threads of a part may use; a Diameter thread calls back into the
\* session manager when an ACR is answered.
Uses ==
  [ part \in Parts |->
      CASE part = "hc" -> {"hc"}
        [] part = "diameter" -> Reachable({"diameter_stack", "mgr"})
        [] part = "http" -> Reachable({"http_stack"})
        [] part = "realm" -> Reachable({"realm_manager"}) ]

\* The steps of Reachable are enough.
ASSUME ReachableIsClosed == \A part \in Parts : Held(Uses[part]) = Uses[part]

PartOf(thread) == IF thread \in HttpWorkers THEN "http" ELSE thread
Threads == HttpWorkers \cup (Parts \ {"http"})

\* The workers of the HTTP stack are no threads of another part.
ASSUME MainAssumption ==
  HttpWorkers \cap Parts = {} /\ MaxSignals \in Nat /\ MaxAcrs \in Nat

-----------------------------------------------------------------------------
(* The main thread *)

Goto(n) == pc' = n /\ UNCHANGED ended
Next1   == Goto(pc + 1)
Exit(how) == ended' = how /\ UNCHANGED pc

\* main() is at a step of this kind.
At(what) == ended = "no" /\ Main[pc].do = what

SemInit ==
  /\ At("sem_init")
  /\ sem' = 0
  /\ Next1
  /\ UNCHANGED <<argv, options, sigterm, live, threads, signals>>

CatchSigterm ==
  /\ At("catch_sigterm")
  /\ sigterm' = "post"
  /\ Next1
  /\ UNCHANGED <<argv, options, sem, live, threads, signals>>

ReadOptions ==
  /\ \/ /\ At("init_logging_options")
        /\ options' = init_logging_options(options, argv)
        /\ Next1
     \/ /\ At("init_options")
        /\ ~OptionsRefused(argv)
        /\ options' = init_options(options, argv)
        /\ Next1
     \/ /\ At("init_options")
        /\ OptionsRefused(argv)
        /\ Exit("1")
        /\ UNCHANGED options
  /\ UNCHANGED <<argv, sem, sigterm, live, threads, signals>>

\* The pidfile may be locked; the list of stores may lack the local site.
Check ==
  /\ \/ At("pidfile") /\ Next1
     \/ At("pidfile") /\ options["pidfile"] # Word(NoText) /\ Exit("2")
     \/ At("hostname") /\ options["ralf-hostname"] # Word(NoText) /\ Next1
     \/ At("hostname") /\ options["ralf-hostname"] = Word(NoText) /\ Exit("1")
     \/ At("stores") /\ Next1
     \/ At("stores") /\ Exit("1")
  /\ UNCHANGED <<argv, options, sem, sigterm, live, threads, signals>>

NewObject ==
  /\ At("new")
  /\ live' = live \cup {Main[pc].of}
  /\ Next1
  /\ UNCHANGED <<argv, options, sem, sigterm, threads, signals>>

\* An exception of the Diameter stack ends the process, one of the HTTP stack is
\* only logged.
StartPart ==
  /\ At("start")
  /\ \/ running' = running \cup {Main[pc].of} /\ Next1
     \/ Main[pc].of = "diameter" /\ Exit("2") /\ UNCHANGED running
     \/ Main[pc].of = "http" /\ Next1 /\ UNCHANGED running
  /\ UNCHANGED <<argv, options, sem, sigterm, live, stopping, caught, busy, acrs, dying, signals>>

SemWait ==
  /\ At("sem_wait")
  /\ sem > 0
  /\ sem' = sem - 1
  /\ Next1
  /\ UNCHANGED <<argv, options, sigterm, live, threads, signals>>

\* stop and wait_stopped are in one try block: an exception in stop skips the wait.
StopPart ==
  /\ At("stop")
  /\ LET part == Main[pc].of
     IN \/ stopping' = stopping \cup {part} /\ Next1 /\ UNCHANGED caught
        \/ /\ part \in {"http", "diameter"}
           /\ caught' = caught \cup {part}
           /\ Goto(pc + 2)
           /\ UNCHANGED stopping
  /\ UNCHANGED <<argv, options, sem, sigterm, live, running, busy, acrs, dying, signals>>

WaitStopped ==
  /\ At("wait_stopped")
  /\ LET part == Main[pc].of
     IN \/ /\ \A thread \in busy : PartOf(thread) # part
           /\ running' = running \ {part}
           /\ UNCHANGED caught
        \/ /\ part \in {"http", "diameter"}
           /\ caught' = caught \cup {part}
           /\ UNCHANGED running
  /\ Next1
  /\ UNCHANGED <<argv, options, sem, sigterm, live, stopping, busy, acrs, dying, signals>>

DeleteObject ==
  /\ At("delete")
  /\ live' = live \ {Main[pc].of}
  /\ Next1
  /\ UNCHANGED <<argv, options, sem, sigterm, threads, signals>>

DefaultSigterm ==
  /\ At("default_sigterm")
  /\ sigterm' = "default"
  /\ Next1
  /\ UNCHANGED <<argv, options, sem, live, threads, signals>>

SemDestroy ==
  /\ At("sem_destroy")
  /\ sem' = -1
  /\ Next1
  /\ UNCHANGED <<argv, options, sigterm, live, threads, signals>>

Return ==
  /\ At("return")
  /\ Exit("0")
  /\ UNCHANGED <<argv, options, sem, sigterm, live, threads, signals>>

MainThread ==
  \/ SemInit \/ CatchSigterm \/ ReadOptions \/ Check \/ NewObject \/ StartPart \/ SemWait
  \/ StopPart \/ WaitStopped \/ DeleteObject \/ DefaultSigterm \/ SemDestroy \/ Return

-----------------------------------------------------------------------------
(* Signals and the other threads *)

\* Mutant: the signal is only noticed by a main thread that waits.
PostWaiting == sem' = IF At("sem_wait") THEN sem + 1 ELSE sem

\* terminate_handler
Post == sem' = IF sem < 0 THEN sem ELSE sem + 1

Sigterm ==
  /\ ended = "no"
  /\ signals < MaxSignals
  /\ signals' = signals + 1
  /\ \/ sigterm = "post" /\ Post /\ UNCHANGED ended
     \/ sigterm = "default" /\ ended' = "killed" /\ UNCHANGED sem
  /\ UNCHANGED <<pc, argv, options, sigterm, live, threads>>

\* Mutant: an ACR is answered twice.
BeginAgain(thread) ==
  /\ ended = "no"
  /\ thread \notin busy
  /\ PartOf(thread) \in running \ stopping
  /\ acrs' = IF thread = "diameter" THEN acrs - 1 ELSE acrs
  /\ busy' = busy \cup {thread}
  /\ UNCHANGED <<pc, argv, options, sem, sigterm, live, running, stopping, caught, dying, ended, signals>>

\* A request, an answered ACR, a round of the realm manager or the health checker.
Begin(thread) ==
  /\ ended = "no"
  /\ thread \notin busy
  /\ PartOf(thread) \in running \ stopping
  /\ IF thread = "diameter" THEN acrs > 0 /\ acrs' = acrs - 1 ELSE UNCHANGED acrs
  /\ busy' = busy \cup {thread}
  /\ UNCHANGED <<pc, argv, options, sem, sigterm, live, running, stopping, caught, dying, ended, signals>>

\* A request may leave an ACR to be answered.
Finish(thread) ==
  /\ ended = "no"
  /\ thread \in busy
  /\ busy' = busy \ {thread}
  /\ \/ UNCHANGED acrs
     \/ thread \in HttpWorkers /\ acrs < MaxAcrs /\ acrs' = acrs + 1
  /\ UNCHANGED <<pc, argv, options, sem, sigterm, live, running, stopping, caught, dying, ended, signals>>

\* signal_handler: the exception handler abandons what the thread of a stack does
\* and exits the process later; without one the process dumps core.
Fault(thread) ==
  /\ ended = "no"
  /\ thread \in busy
  /\ \/ /\ "exception_handler" \in live
        /\ PartOf(thread) \in {"http", "diameter"}
        /\ busy' = busy \ {thread}
        /\ dying' = TRUE
        /\ UNCHANGED ended
     \/ /\ "exception_handler" \notin live \/ PartOf(thread) \notin {"http", "diameter"}
        /\ ended' = "aborted"
        /\ UNCHANGED <<busy, dying>>
  /\ UNCHANGED <<pc, argv, options, sem, sigterm, live, running, stopping, caught, acrs, signals>>

DelayedExit ==
  /\ ended = "no"
  /\ dying
  /\ ended' = "exited"
  /\ UNCHANGED <<pc, argv, options, sem, sigterm, live, threads, signals>>

-----------------------------------------------------------------------------
Init ==
  /\ pc = 1
  /\ argv \in CommandLines
  /\ options \in {Default(Set), Default(Unset)}
  /\ sem = -1
  /\ sigterm = "default"
  /\ live = {}
  /\ running = {}
  /\ stopping = {}
  /\ caught = {}
  /\ busy = {}
  /\ acrs = 0
  /\ dying = FALSE
  /\ ended = "no"
  /\ signals = 0

Rest == ended # "no" /\ UNCHANGED vars

Next ==
  \/ MainThread
  \/ Sigterm
  \/ \E thread \in Threads : Begin(thread) \/ Finish(thread) \/ Fault(thread)
  \/ DelayedExit
  \/ Rest

Spec == Init /\ [][Next]_vars

\* Every thread is scheduled, and what it waits for times out.
FairSpec ==
  Spec /\ WF_vars(MainThread) /\ \A thread \in Threads : WF_vars(Finish(thread))

-----------------------------------------------------------------------------
(* Properties *)

\* main() does not run past its end, each caught SIGTERM posts once, and only ACRs
\* that were sent are answered.
TypeOK ==
  /\ pc \in 1..Len(Main)
  /\ argv \in CommandLines
  /\ sem \in -1..MaxSignals
  /\ sigterm \in {"default", "post"}
  /\ live \subseteq {Main[i].of : i \in {i \in 1..Len(Main) : Main[i].do = "new"}}
  /\ stopping \subseteq Parts
  /\ running \subseteq Parts
  /\ caught \subseteq {"http", "diameter"}
  /\ busy \subseteq Threads
  /\ acrs \in 0..MaxAcrs
  /\ dying \in BOOLEAN
  /\ ended \in {"no", "0", "1", "2", "killed", "aborted", "exited"}
  /\ signals \in 0..MaxSignals

\* The limits the load monitor is made with are positive, whichever of the options
\* were given, in either pass and however often.
LimitsPositive ==
  "load_monitor" \in live =>
    \A name \in {"target-latency-us", "max-tokens", "init-token-rate", "min-token-rate"} :
      options[name] = Word("default") \/ Atoi(options[name]) > 0

\* Each option of a command line as long_opt declares it has its effect, in one of the
\* two passes; the last one counts if it is given more than once.
OptionsAsGiven ==
  "load_monitor" \in live /\ AsDeclared(argv) =>
    \A i \in 1..Len(argv) : IsLast(argv, i) =>
      options[argv[i].name] = IF argv[i].name \in Flags THEN Set ELSE Word(argv[i].text)

\* A SIGTERM that is caught, also one in the middle of start-up or while main() is
\* on its way out, finds the semaphore initialised and not yet destroyed.
SemaphoreUsable == sigterm = "post" => sem >= 0

\* No thread, of whatever part, can reach an object that main() has deleted or not
\* made yet, unless stopping a stack failed, which main() only logs.
NoUseAfterDelete ==
  caught = {} => \A thread \in busy : Uses[PartOf(thread)] \subseteq live

\* When main() returns no thread is left, unless stopping a stack failed.
ThreadsJoined == ended = "0" /\ caught = {} => running = {} /\ busy = {}

\* A SIGTERM ends the process, whenever it comes and also if a stack does not stop:
\* the semaphore remembers it while main() is still starting.
TermEnds == signals > 0 ~> ended # "no"
=============================================================================
