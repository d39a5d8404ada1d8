---------------------------- MODULE EvsipLifecycle ----------------------------
(***************************************************************************)
(* The life of the evsip process: main and the init, start, stop and       *)
(* deinit functions it calls, the signal handlers, the "exit" command and  *)
(* the root event loop (evsip_main.c, evsip_core.c, evsip_sig.c, and the   *)
(* init/start/stop/deinit of evsip_cli.c and evsip_config.c).              *)
(*                                                                         *)
(* Three actors run concurrently.  The main thread executes main up to     *)
(* su_root_run and then the event loop.  The nua thread, created by        *)
(* nua_create, posts events to the task of the root.  Signals arrive at    *)
(* any moment on either thread; on the main thread the handler stops the   *)
(* loop directly, on the nua thread su_task_execute queues a message and   *)
(* keeps the thread in the handler until the loop has executed it.         *)
(*                                                                         *)
(* `pc' names the call main is about to make.  As in EvsipRegistry, an     *)
(* access C or sofia-sip gives no meaning to sets `fault' and the model    *)
(* stops there.                                                            *)
(***************************************************************************)
EXTENDS Naturals, Sequences, FiniteSets

CONSTANTS
  Fail,        \* the calls that may fail
  MaxSignals,  \* signals that arrive (bound)
  MaxQueue     \* progress events of one nua shutdown that are pending (bound)

Calls == {"args", "fopen", "home", "root", "nua", "sigaction", "wait", "command"}

ASSUME FailAssumption == Fail \subseteq Calls
ASSUME BoundsAssumption == MaxSignals \in Nat /\ MaxQueue \in Nat

VARIABLES
  pc,         \* the next call of main, or how the process ended
  tty,        \* the terminal's mode
  cliState,   \* EVSIP_CLI_STATE_INIT is set
  confFd,     \* pEvSipConfigCtx->fd
  memPage,    \* the memory pool: zeroed, su_home_init'ed, su_home_deinit'ed
  cmdl,       \* the state memPage had when the command vector was created in it
  cmds,       \* the CLI commands allocated
  root,       \* rootEventLoop
  running,    \* sup_running of the root's port
  queue,      \* messages for the root's task, in the order of their posting
  nua,        \* the SIP stack
  nuaThread,  \* "free", or "handler": inside su_task_execute in a signal handler
  handlers,   \* signals with evsip_sig_sigaction installed
  sigCtx,     \* pEvSipSigCtx->task and ->root are set
  signals,    \* signals still to arrive
  fault

mainVars == <<tty, cliState, confFd, memPage, cmdl, cmds, handlers, sigCtx>>
loopVars == <<root, running, queue, nua, nuaThread>>
vars == <<pc, mainVars, loopVars, signals, fault>>

\* The messages that stop the loop: su_task_execute's, nua_shutdown's report.
Break == [event |-> "break"]
Shutdown == [event |-> "nua_r_shutdown"]
Waiting(m) == {i \in DOMAIN queue : queue[i] = m}

Signal == {"SIGINT", "SIGTERM"}
Startup == {"evsip_args", "evsip_cli_init", "evsip_config_init", "evsip_config_start_parse",
            "evsip_mem_init", "su_root_create", "nua_create", "sigaction_int",
            "sigaction_term", "su_root_task", "evsip_cli_start", "evsip_start", "su_root_run"}
Leave == {"evsip_cli_deinit", "evsip_config_deinit", "evsip_deinit"}
Ended == {"EXIT_SUCCESS", "EXIT_FAILURE", "killed", "aborted"}
LEAVE_ERROR == "evsip_cli_deinit"   \* evsip_sig_deinit does nothing

Init ==
  /\ pc = "evsip_args"
  /\ tty = "cooked" /\ cliState = FALSE
  /\ confFd = "unopened"
  /\ memPage = "zero" /\ cmdl = "none" /\ cmds = {}
  /\ root = "none" /\ running = FALSE /\ queue = <<>>
  /\ nua = "none" /\ nuaThread = "free"
  /\ handlers = {} /\ sigCtx = FALSE
  /\ signals = MaxSignals
  /\ fault = "none"

At(call) == pc = call /\ fault = "none"
Alive == pc \notin Ended /\ fault = "none"
Stops == At("loop") /\ queue # <<>> /\ Head(queue) \in {Break, Shutdown}

-----------------------------------------------------------------------------
(* main: from its first call to su_root_run. *)

\* The call succeeds and main goes to the next one, or it fails and main
\* goes to LEAVE_ERROR.
Fails(call) == call \in Fail /\ pc' = LEAVE_ERROR

Args ==
  /\ At("evsip_args")
  /\ pc' = "evsip_cli_init" \/ Fails("args")
  /\ UNCHANGED <<mainVars, loopVars, signals, fault>>

\* Seeded bug: the terminal is changed without remembering it.
Bug_CliInit ==
  /\ At("evsip_cli_init")
  /\ tty' = "raw"
  /\ pc' = "evsip_config_init"
  /\ UNCHANGED <<cliState, confFd, memPage, cmdl, cmds, handlers, sigCtx, loopVars, signals, fault>>

CliInit ==
  /\ At("evsip_cli_init")
  /\ tty' = "raw" /\ cliState' = TRUE
  /\ pc' = "evsip_config_init"
  /\ UNCHANGED <<confFd, memPage, cmdl, cmds, handlers, sigCtx, loopVars, signals, fault>>

\* evsip_cli_cmd_init and evsip_cli_cmd_register of the commands names, in
\* the order of the calls; no caller of the wrapping functions looks at the
\* result, but each stops at its own first failure.
RegisterCommands(names) ==
  /\ \/ cmds' = cmds \cup names
     \/ "command" \in Fail /\ cmds' \in {cmds \cup s : s \in SUBSET names \ {names}}
  /\ cmdl' \in {IF cmdl = "none" THEN memPage ELSE cmdl}
                 \cup {cmdl : k \in Fail \cap {"command"}}
  /\ cmds' # {} => cmdl' # "none"

ConfigInit ==
  /\ At("evsip_config_init")
  /\ RegisterCommands({"conf"})
  /\ pc' = "evsip_config_start_parse"
  /\ UNCHANGED <<tty, cliState, confFd, memPage, handlers, sigCtx, loopVars, signals, fault>>

\* A file that cannot be opened leaves the default values; nothing closes it
\* when it could.
ConfigStartParse ==
  /\ At("evsip_config_start_parse")
  /\ confFd' = "open" \/ ("fopen" \in Fail /\ UNCHANGED confFd)
  /\ pc' = "evsip_mem_init"
  /\ UNCHANGED <<tty, cliState, memPage, cmdl, cmds, handlers, sigCtx, loopVars, signals, fault>>

\* su_home_init forgets the blocks memPage already has.
MemInit ==
  /\ At("evsip_mem_init")
  /\ memPage' = "inited"
  /\ pc' = "su_root_create" \/ Fails("home")
  /\ UNCHANGED <<tty, cliState, confFd, cmdl, cmds, handlers, sigCtx, loopVars, signals, fault>>

RootCreate ==
  /\ At("su_root_create")
  /\ \/ root' = "up" /\ pc' = "nua_create"
     \/ Fails("root") /\ UNCHANGED root
  /\ UNCHANGED <<mainVars, running, queue, nua, nuaThread, signals, fault>>

NuaCreate ==
  /\ At("nua_create")
  /\ \/ nua' = "up" /\ pc' = "sigaction_int"
     \/ Fails("nua") /\ UNCHANGED nua
  /\ UNCHANGED <<mainVars, root, running, queue, nuaThread, signals, fault>>

Sigaction(call, s, next) ==
  /\ At(call)
  /\ \/ handlers' = handlers \cup {s} /\ pc' = next
     \/ Fails("sigaction") /\ UNCHANGED handlers
  /\ UNCHANGED <<tty, cliState, confFd, memPage, cmdl, cmds, sigCtx, loopVars, signals, fault>>

\* Seeded bug: the second handler is set for another signal.
Bug_SigInitOther ==
  \/ Sigaction("sigaction_int", "SIGINT", "sigaction_term")
  \/ Sigaction("sigaction_term", "SIGHUP", "su_root_task")

\* Seeded bug: a failure of the second sigaction is ignored.
Bug_SigInitIgnores ==
  \/ Sigaction("sigaction_int", "SIGINT", "sigaction_term")
  \/ Sigaction("sigaction_term", "SIGTERM", "su_root_task")
  \/ /\ At("sigaction_term") /\ "sigaction" \in Fail
     /\ pc' = "su_root_task"
     /\ UNCHANGED <<mainVars, loopVars, signals, fault>>

\* evsip_sig_init: the handlers are installed first, what they use comes last.
SigInit ==
  \/ Sigaction("sigaction_int", "SIGINT", "sigaction_term")
  \/ Sigaction("sigaction_term", "SIGTERM", "su_root_task")

\* Seeded bug: what the handlers use is not stored.
Bug_SigContext ==
  /\ At("su_root_task")
  /\ pc' = "evsip_cli_start"
  /\ UNCHANGED <<mainVars, loopVars, signals, fault>>

SigContext ==
  /\ At("su_root_task")
  /\ sigCtx' = TRUE
  /\ pc' = "evsip_cli_start"
  /\ UNCHANGED <<tty, cliState, confFd, memPage, cmdl, cmds, handlers, loopVars, signals, fault>>

CliStart ==
  /\ At("evsip_cli_start")
  /\ \/ RegisterCommands({"help"}) /\ pc' = "evsip_start"
     \/ Fails("wait") /\ UNCHANGED <<cmdl, cmds>>
  /\ UNCHANGED <<tty, cliState, confFd, memPage, handlers, sigCtx, loopVars, signals, fault>>

Start ==
  /\ At("evsip_start")
  /\ RegisterCommands({"dump", "exit"})
  /\ pc' = "su_root_run"
  /\ UNCHANGED <<tty, cliState, confFd, memPage, handlers, sigCtx, loopVars, signals, fault>>

\* Seeded bug: messages from before the loop are dropped.
Bug_RootRunFlushes ==
  /\ At("su_root_run")
  /\ running' = TRUE
  /\ queue' = <<>>
  /\ pc' = "loop"
  /\ UNCHANGED <<mainVars, root, nua, nuaThread, signals, fault>>

\* Whatever su_root_break did before, the loop starts.
RootRun ==
  /\ At("su_root_run")
  /\ running' = TRUE
  /\ pc' = "loop"
  /\ UNCHANGED <<mainVars, root, queue, nua, nuaThread, signals, fault>>

-----------------------------------------------------------------------------
(* main: the event loop and the way out. *)

\* Seeded bug: the caller of su_task_execute is not woken.
Bug_DispatchKeepsCaller ==
  /\ Stops
  /\ running' = FALSE
  /\ queue' = Tail(queue)
  /\ UNCHANGED <<pc, mainVars, root, nua, nuaThread, signals, fault>>

\* Seeded bug: nua_r_shutdown does not stop the loop.
Bug_DispatchIgnoresShutdown ==
  /\ Stops
  /\ running' = (running /\ Head(queue) # Break)
  /\ nuaThread' = IF Head(queue) = Break THEN "free" ELSE nuaThread
  /\ queue' = Tail(queue)
  /\ UNCHANGED <<pc, mainVars, root, nua, signals, fault>>

\* evsip_sig_task_clbk for "break", evsip_evsofia_main for "nua_r_shutdown",
\* whatever status it reports; a message su_task_execute waits for frees its
\* caller.
Dispatch ==
  /\ Stops
  /\ running' = FALSE
  /\ nuaThread' = IF Head(queue) = Break THEN "free" ELSE nuaThread
  /\ queue' = Tail(queue)
  /\ UNCHANGED <<pc, mainVars, root, nua, signals, fault>>

\* Seeded bug: evsip_stop breaks the loop itself.
Bug_ExitCommand ==
  /\ At("loop")
  /\ "exit" \in cmds
  /\ running' = FALSE
  /\ UNCHANGED <<pc, mainVars, root, queue, nua, nuaThread, signals, fault>>

\* The user enters "exit" (a second "exit" changes nothing any more).  The
\* round of the loop in which su_root_break was called still reads input.
ExitCommand ==
  /\ At("loop")
  /\ "exit" \in cmds /\ nua = "up"
  /\ nua' = "closing"
  /\ UNCHANGED <<pc, mainVars, root, running, queue, nuaThread, signals, fault>>

LoopEnds ==
  /\ At("loop") /\ ~running
  /\ pc' = "evsip_cli_stop"
  /\ UNCHANGED <<mainVars, loopVars, signals, fault>>

\* main returns from here: nothing is deinitialised.
CliStop ==
  /\ At("evsip_cli_stop")
  /\ pc' = "EXIT_SUCCESS"
  /\ UNCHANGED <<mainVars, loopVars, signals, fault>>

\* su_vector_destroy gives the vector back to memPage.  If memPage was
\* initialised since, it does not know the block: an assertion of sofia-sip
\* ends the process, or the call does nothing in a build without assertions.
\* The commands themselves are not freed, the vector has no destructor.
CliDeinit ==
  /\ At("evsip_cli_deinit")
  /\ \/ /\ cmdl \notin {"none", memPage}
        /\ pc' = "aborted"
        /\ UNCHANGED <<tty, cmdl>>
     \/ /\ pc' = "evsip_config_deinit"
        /\ cmdl' = "none"
        /\ tty' = IF cliState THEN "cooked" ELSE tty
  /\ UNCHANGED <<cliState, confFd, memPage, cmds, handlers, sigCtx, loopVars, signals, fault>>

ConfigDeinit ==
  /\ At("evsip_config_deinit")
  /\ confFd' = IF confFd = "open" THEN "closed" ELSE confFd
  /\ pc' = "evsip_deinit"
  /\ UNCHANGED <<tty, cliState, memPage, cmdl, cmds, handlers, sigCtx, loopVars, signals, fault>>

Deinit ==
  /\ At("evsip_deinit")
  /\ root' = IF root = "up" THEN "destroyed" ELSE root
  /\ memPage' = "deinited"
  /\ pc' = "return"
  /\ UNCHANGED <<tty, cliState, confFd, cmdl, cmds, handlers, sigCtx, running, queue,
                 nua, nuaThread, signals, fault>>

ReturnFailure ==
  /\ At("return")
  /\ pc' = "EXIT_FAILURE"
  /\ UNCHANGED <<mainVars, loopVars, signals, fault>>

Main ==
  \/ Args \/ CliInit \/ ConfigInit \/ ConfigStartParse
  \/ MemInit \/ RootCreate \/ NuaCreate \/ SigInit \/ SigContext
  \/ CliStart \/ Start \/ RootRun
  \/ Dispatch \/ LoopEnds \/ CliStop
  \/ CliDeinit \/ ConfigDeinit \/ Deinit \/ ReturnFailure

-----------------------------------------------------------------------------
(* The nua thread: nua_shutdown reports progress, then its end. *)

NuaProgress ==
  /\ Alive /\ nua = "closing" /\ nuaThread = "free"
  /\ Cardinality(Waiting(Shutdown)) < MaxQueue
  /\ queue' = Append(queue, Shutdown)
  /\ UNCHANGED <<pc, mainVars, root, running, nua, nuaThread, signals, fault>>

NuaDown ==
  /\ Alive /\ nua = "closing" /\ nuaThread = "free"
  /\ nua' = "down"
  /\ queue' = Append(queue, Shutdown)
  /\ UNCHANGED <<pc, mainVars, root, running, nuaThread, signals, fault>>

-----------------------------------------------------------------------------
(* Signals. *)

SignalDefault(s) ==
  /\ s \notin handlers
  /\ pc' = "killed"
  /\ UNCHANGED <<mainVars, loopVars, fault>>

\* The context is still zero: su_root_break meets no root and does nothing,
\* or an assertion of sofia-sip ends the process.
SignalBeforeContext(s) ==
  /\ s \in handlers /\ ~sigCtx
  /\ pc' \in {pc, "aborted"}
  /\ UNCHANGED <<mainVars, loopVars, fault>>

SignalOnMain(s) ==
  /\ s \in handlers /\ sigCtx /\ root = "up"
  /\ running' = FALSE
  /\ UNCHANGED <<pc, mainVars, root, queue, nua, nuaThread, fault>>

SignalOnNua(s) ==
  /\ s \in handlers /\ sigCtx /\ root = "up"
  /\ nua # "none" /\ nuaThread = "free"
  /\ nuaThread' = "handler"
  /\ queue' = Append(queue, Break)
  /\ UNCHANGED <<pc, mainVars, root, running, nua, fault>>

\* evsip_deinit has destroyed the root, the handlers still use it.
SignalOnDeadRoot(s) ==
  /\ s \in handlers /\ sigCtx /\ root = "destroyed"
  /\ fault' = "dead_root"
  /\ UNCHANGED <<pc, mainVars, loopVars>>

SignalArrives ==
  /\ Alive /\ signals > 0
  /\ signals' = signals - 1
  /\ \E s \in Signal :
       \/ SignalDefault(s)
       \/ SignalBeforeContext(s)
       \/ SignalOnMain(s)
       \/ SignalOnNua(s)
       \/ SignalOnDeadRoot(s)

Next == Main \/ ExitCommand \/ NuaProgress \/ NuaDown \/ SignalArrives

\* The main thread is never starved, and nua ends a shutdown: by itself, or
\* by its own timeout of 30 seconds.  Nobody has to type "exit" and no signal
\* has to come.
Fairness == WF_vars(Main) /\ WF_vars(NuaDown)

Spec == Init /\ [][Next]_vars /\ Fairness

-----------------------------------------------------------------------------
(* Properties. *)

Over == pc \in Ended \/ fault # "none"

\* Every variable has a value the code can give it.
TypeOK ==
  /\ pc \in Startup \cup Leave \cup Ended \cup {"loop", "evsip_cli_stop", "return"}
  /\ tty \in {"cooked", "raw"}
  /\ cliState \in BOOLEAN
  /\ confFd \in {"unopened", "open", "closed"}
  /\ memPage \in {"zero", "inited", "deinited"}
  /\ cmdl \in {"none", "zero", "inited"}
  /\ cmds \subseteq {"conf", "help", "dump", "exit"}
  /\ root \in {"none", "up", "destroyed"}
  /\ running \in BOOLEAN
  /\ queue \in Seq({Break, Shutdown})
  /\ nua \in {"none", "up", "closing", "down"}
  /\ nuaThread \in {"free", "handler"}
  /\ handlers \subseteq Signal
  /\ sigCtx \in BOOLEAN
  /\ signals \in 0..MaxSignals
  /\ fault \in {"none", "dead_root"}

\* When the loop runs, everything a message, a signal or a line of input can
\* reach is there: the root, the stack, the pool, the handlers and what they
\* use, whichever of the calls whose result nobody looks at have failed.
LoopIsReady ==
  pc = "loop" =>
    /\ root = "up" /\ nua # "none" /\ memPage = "inited"
    /\ handlers = Signal /\ sigCtx

\* The nua thread waits in su_task_execute for exactly one message, and that
\* message is in the queue: it is neither lost nor executed for nobody.
HandlerHasMessage == Cardinality(Waiting(Break)) = IF nuaThread = "handler" THEN 1 ELSE 0

\* A start that failed gives back what the calls before it took: terminal,
\* file, root and pool, whichever call failed.
FailureCleansUp ==
  pc \in {"return", "EXIT_FAILURE"} =>
    tty = "cooked" /\ confFd # "open" /\ root # "up" /\ memPage = "deinited"

\* The loop is left by su_root_break and in no other way: no signal kills or
\* aborts the process once su_root_run runs.
LoopLeftByBreak == [][pc = "loop" /\ pc' # pc => ~running /\ pc' = "evsip_cli_stop"]_vars

\* Once the handlers have what they use, and as long as the root lives, no signal
\* harms the process, on the way out neither; and a signal stops the loop, at
\* once or by a message that stays in the queue, so that a server can be stopped
\* even if its "exit" command could not be registered.
SignalHeeded ==
  [][signals' # signals =>
       /\ sigCtx /\ root = "up" => UNCHANGED <<pc, fault>>
       /\ pc = "loop" => ~running' \/ Waiting(Break)' # {}]_vars

\* A stop that was queued for the loop ends the process, even if it was queued
\* before su_root_run, which forgets a break made directly.
QueuedStopHonoured == queue # <<>> ~> Over
=============================================================================
