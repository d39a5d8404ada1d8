------------------------- MODULE EvsipLifecycleProofs -------------------------
(***************************************************************************)
(* Proofs about EvsipLifecycle, for any set of failing calls, any number   *)
(* of signals and any number of pending reports of nua.  The inductive     *)
(* invariant IInv says, call by call, what the calls of main before it     *)
(* have set up (Started), what the way out has taken back (TakenBack), and *)
(* which message the nua thread waits for (Message).                       *)
(***************************************************************************)
EXTENDS EvsipLifecycle, FiniteSetTheorems, TLAPS

\* What main has behind it when it makes the calls from su_root_create,
\* nua_create, ... on.
Started ==
  /\ pc \in Startup => memPage # "deinited"
  /\ pc \in {"su_root_create", "nua_create", "sigaction_int", "sigaction_term", "su_root_task",
             "evsip_cli_start", "evsip_start", "su_root_run", "loop"} => memPage = "inited"
  /\ pc \in {"nua_create", "sigaction_int", "sigaction_term", "su_root_task",
             "evsip_cli_start", "evsip_start", "su_root_run", "loop"} => root = "up"
  /\ pc \in {"sigaction_int", "sigaction_term", "su_root_task",
             "evsip_cli_start", "evsip_start", "su_root_run", "loop"} => nua # "none"
  /\ pc \in {"sigaction_term", "su_root_task",
             "evsip_cli_start", "evsip_start", "su_root_run", "loop"} => "SIGINT" \in handlers
  /\ pc \in {"su_root_task",
             "evsip_cli_start", "evsip_start", "su_root_run", "loop"} => "SIGTERM" \in handlers
  /\ pc \in {"evsip_cli_start", "evsip_start", "su_root_run", "loop"} => sigCtx
  /\ sigCtx => handlers = Signal

\* The way out finds the terminal by cliState, the file and the root by
\* themselves.
TakenBack ==
  /\ tty = "raw" => cliState
  /\ pc \in {"evsip_config_deinit", "evsip_deinit", "return", "EXIT_FAILURE"} => tty = "cooked"
  /\ pc \in {"evsip_deinit", "return", "EXIT_FAILURE"} => confFd # "open"
  /\ pc \in {"return", "EXIT_FAILURE"} => root # "up" /\ memPage = "deinited"

Message ==
  IF nuaThread = "handler"
  THEN \E i \in DOMAIN queue : Waiting(Break) = {i}
  ELSE Waiting(Break) = {}

IInv == TypeOK /\ Started /\ TakenBack /\ Message

LEMMA TwoMessages == Break # Shutdown
  BY DEF Break, Shutdown

LEMMA InitIInv == Init => IInv
<1> SUFFICES ASSUME Init PROVE IInv
  OBVIOUS
<1>1. TypeOK
  <2>1. queue \in Seq({Break, Shutdown})
    BY DEF Init
  <2>2. cliState \in BOOLEAN /\ running \in BOOLEAN /\ sigCtx \in BOOLEAN
    BY Zenon DEF Init
  <2>3. signals \in 0..MaxSignals
    BY BoundsAssumption DEF Init
  <2> QED
    BY <2>1, <2>2, <2>3 DEF Init, TypeOK, Startup, Signal
<1>2. Started /\ TakenBack
  BY DEF Init, Started, TakenBack
<1>3. Message
  BY DEF Init, Message, Waiting
<1> QED
  BY <1>1, <1>2, <1>3 DEF IInv

-----------------------------------------------------------------------------
(* The queue: Waiting(Break) after a message came in or went out. *)

\* A report of nua goes behind the message of the handler, if there is one.
LEMMA ReportKeepsMessage ==
  ASSUME queue \in Seq({Break, Shutdown}), Message,
         queue' = Append(queue, Shutdown), nuaThread' = nuaThread
  PROVE  queue' \in Seq({Break, Shutdown}) /\ Message'
<1>1. queue' \in Seq({Break, Shutdown})
  OBVIOUS
<1>2. Waiting(Break)' = Waiting(Break)
  BY TwoMessages DEF Waiting
<1>3. DOMAIN queue \subseteq DOMAIN queue'
  OBVIOUS
<1> QED
  BY <1>1, <1>2, <1>3 DEF Message

\* su_task_execute queues the only message of its kind.
LEMMA ExecuteAddsMessage ==
  ASSUME queue \in Seq({Break, Shutdown}), Message, nuaThread = "free",
         queue' = Append(queue, Break), nuaThread' = "handler"
  PROVE  queue' \in Seq({Break, Shutdown}) /\ Message'
<1>1. queue' \in Seq({Break, Shutdown})
  OBVIOUS
<1>2. Waiting(Break) = {}
  BY DEF Message
<1>3. Waiting(Break)' = {Len(queue) + 1}
  BY <1>2 DEF Waiting
<1>4. Len(queue) + 1 \in DOMAIN queue'
  OBVIOUS
<1> QED
  BY <1>1, <1>3, <1>4 DEF Message

\* The head that is executed is the message of the handler, or leaves it where
\* it is, one place further ahead.
LEMMA DispatchFreesCaller ==
  ASSUME queue \in Seq({Break, Shutdown}), nuaThread \in {"free", "handler"}, Message,
         queue # <<>>,
         queue' = Tail(queue),
         nuaThread' = IF Head(queue) = Break THEN "free" ELSE nuaThread
  PROVE  queue' \in Seq({Break, Shutdown}) /\ Message'
<1>1. queue' \in Seq({Break, Shutdown})
  OBVIOUS
<1>2. /\ DOMAIN queue' = 1..(Len(queue) - 1)
      /\ \A i \in DOMAIN queue' : queue'[i] = queue[i + 1] /\ i + 1 \in DOMAIN queue
  OBVIOUS
<1>3. 1 \in DOMAIN queue /\ Head(queue) = queue[1]
  OBVIOUS
<1>4. \A i \in Waiting(Break)' : i + 1 \in Waiting(Break) /\ i + 1 # 1
  BY <1>2 DEF Waiting
<1>5. CASE Head(queue) = Break
  <2>1. 1 \in Waiting(Break)
    BY <1>3, <1>5 DEF Waiting
  <2>2. PICK i \in DOMAIN queue : Waiting(Break) = {i}
    BY <2>1 DEF Message
  <2>3. Waiting(Break)' = {}
    BY <2>1, <2>2, <1>4
  <2> QED
    BY <1>1, <1>5, <2>3 DEF Message
<1>6. CASE Head(queue) # Break
  <2>1. CASE nuaThread = "handler"
    <3>1. PICK i \in DOMAIN queue : Waiting(Break) = {i}
      BY <2>1 DEF Message
    <3>2. i # 1
      BY <1>3, <1>6, <3>1 DEF Waiting
    <3>3. i - 1 \in DOMAIN queue' /\ (i - 1) + 1 = i
      BY <1>2, <3>2
    <3>4. i - 1 \in Waiting(Break)'
      BY <1>2, <3>1, <3>3 DEF Waiting
    <3>5. \A j \in Waiting(Break)' : j = i - 1
      BY <1>2, <1>4, <3>1 DEF Waiting
    <3>6. Waiting(Break)' = {i - 1}
      BY <3>4, <3>5
    <3> QED
      BY <1>1, <1>6, <2>1, <3>3, <3>6 DEF Message
  <2>2. CASE nuaThread # "handler"
    BY <1>1, <1>4, <1>6, <2>2 DEF Message
  <2> QED
    BY <2>1, <2>2
<1> QED
  BY <1>5, <1>6

LEMMA QuietKeepsMessage == Message /\ UNCHANGED <<queue, nuaThread>> => Message'
  BY DEF Message, Waiting

-----------------------------------------------------------------------------
(* One step of each actor. *)

AllCommands == {"conf", "help", "dump", "exit"}

LEMMA RegisterKeepsType ==
  ASSUME NEW names, names \subseteq AllCommands, cmds \subseteq AllCommands,
         cmdl \in {"none", "zero", "inited"}, memPage \in {"zero", "inited"},
         RegisterCommands(names)
  PROVE  cmds' \subseteq AllCommands /\ cmdl' \in {"none", "zero", "inited"}
<1>1. cmds' \subseteq AllCommands
  <2>1. CASE cmds' = cmds \cup names
    BY <2>1
  <2>2. CASE cmds' \in {cmds \cup s : s \in SUBSET names \ {names}}
    BY <2>2
  <2> QED
    BY <2>1, <2>2 DEF RegisterCommands
<1>2. cmdl' \in {"none", "zero", "inited"}
  BY DEF RegisterCommands
<1> QED
  BY <1>1, <1>2

LEMMA StartUpIInv ==
  ASSUME IInv,
         Args \/ CliInit \/ ConfigInit \/ ConfigStartParse \/ MemInit \/ RootCreate
           \/ NuaCreate \/ SigInit \/ SigContext \/ CliStart \/ Start \/ RootRun
  PROVE  IInv'
<1> USE DEF IInv, TypeOK, Started, TakenBack, At, Fails, LEAVE_ERROR, Startup, Leave, Ended,
            Signal, mainVars, loopVars
<1>0. UNCHANGED <<queue, nuaThread>>
  BY DEF Args, CliInit, ConfigInit, ConfigStartParse, MemInit, RootCreate, NuaCreate,
         SigInit, Sigaction, SigContext, CliStart, Start, RootRun
<1>m. Message'
  BY <1>0, QuietKeepsMessage
<1>1. CASE Args
  BY <1>1, <1>m DEF Args
<1>2. CASE CliInit
  BY <1>2, <1>m DEF CliInit
<1>3. CASE ConfigInit
  <2>1. cmds' \subseteq AllCommands /\ cmdl' \in {"none", "zero", "inited"}
    BY <1>3, RegisterKeepsType DEF ConfigInit, AllCommands
  <2> QED
    BY <1>3, <2>1, <1>m DEF ConfigInit, AllCommands
<1>4. CASE ConfigStartParse
  BY <1>4, <1>m DEF ConfigStartParse
<1>5. CASE MemInit
  BY <1>5, <1>m DEF MemInit
<1>6. CASE RootCreate
  BY <1>6, <1>m DEF RootCreate
<1>7. CASE NuaCreate
  BY <1>7, <1>m DEF NuaCreate
<1>8. CASE SigInit
  <2>1. CASE Sigaction("sigaction_int", "SIGINT", "sigaction_term")
    <3>1. CASE handlers' = handlers \cup {"SIGINT"} /\ pc' = "sigaction_term"
      BY <2>1, <3>1, <1>m DEF Sigaction
    <3>2. CASE handlers' = handlers /\ pc' = "evsip_cli_deinit"
      BY <2>1, <3>2, <1>m DEF Sigaction
    <3> QED
      BY <2>1, <3>1, <3>2 DEF Sigaction
  <2>2. CASE Sigaction("sigaction_term", "SIGTERM", "su_root_task")
    <3>1. CASE handlers' = handlers \cup {"SIGTERM"} /\ pc' = "su_root_task"
      BY <2>2, <3>1, <1>m DEF Sigaction
    <3>2. CASE handlers' = handlers /\ pc' = "evsip_cli_deinit"
      BY <2>2, <3>2, <1>m DEF Sigaction
    <3> QED
      BY <2>2, <3>1, <3>2 DEF Sigaction
  <2> QED
    BY <1>8, <2>1, <2>2 DEF SigInit
<1>9. CASE SigContext
  BY <1>9, <1>m DEF SigContext
<1>10. CASE CliStart
  <2>1. cmds' \subseteq AllCommands /\ cmdl' \in {"none", "zero", "inited"}
    BY <1>10, RegisterKeepsType DEF CliStart, AllCommands
  <2> QED
    BY <1>10, <2>1, <1>m DEF CliStart, AllCommands
<1>11. CASE Start
  <2>1. cmds' \subseteq AllCommands /\ cmdl' \in {"none", "zero", "inited"}
    BY <1>11, RegisterKeepsType DEF Start, AllCommands
  <2> QED
    BY <1>11, <2>1, <1>m DEF Start, AllCommands
<1>12. CASE RootRun
  BY <1>12, <1>m DEF RootRun
<1> QED
  BY <1>1, <1>2, <1>3, <1>4, <1>5, <1>6, <1>7, <1>8, <1>9, <1>10, <1>11, <1>12

LEMMA LoopIInv ==
  ASSUME IInv, Dispatch \/ ExitCommand \/ LoopEnds
  PROVE  IInv'
<1> USE DEF IInv, TypeOK, Started, TakenBack, At, Startup, Leave, Ended, mainVars, loopVars
<1>1. CASE Dispatch
  <2>1. queue' \in Seq({Break, Shutdown}) /\ Message'
    BY <1>1, DispatchFreesCaller DEF Dispatch, Stops
  <2>2. nuaThread' \in {"free", "handler"}
    BY <1>1 DEF Dispatch
  <2> QED
    BY <1>1, <2>1, <2>2 DEF Dispatch, Stops
<1>2. CASE ExitCommand
  <2>1. Message'
    BY <1>2, QuietKeepsMessage DEF ExitCommand
  <2> QED
    BY <1>2, <2>1 DEF ExitCommand
<1>3. CASE LoopEnds
  <2>1. Message'
    BY <1>3, QuietKeepsMessage DEF LoopEnds
  <2> QED
    BY <1>3, <2>1 DEF LoopEnds
<1> QED
  BY <1>1, <1>2, <1>3

LEMMA WayOutIInv ==
  ASSUME IInv, CliStop \/ CliDeinit \/ ConfigDeinit \/ Deinit \/ ReturnFailure
  PROVE  IInv'
<1> USE DEF IInv, TypeOK, Started, TakenBack, At, Startup, Leave, Ended, mainVars, loopVars
<1>m. Message'
  BY QuietKeepsMessage DEF CliStop, CliDeinit, ConfigDeinit, Deinit, ReturnFailure
<1>1. CASE CliStop
  BY <1>1, <1>m DEF CliStop
<1>2. CASE CliDeinit
  BY <1>2, <1>m DEF CliDeinit
<1>3. CASE ConfigDeinit
  BY <1>3, <1>m DEF ConfigDeinit
<1>4. CASE Deinit
  BY <1>4, <1>m DEF Deinit
<1>5. CASE ReturnFailure
  BY <1>5, <1>m DEF ReturnFailure
<1> QED
  BY <1>1, <1>2, <1>3, <1>4, <1>5

LEMMA NuaIInv ==
  ASSUME IInv, NuaProgress \/ NuaDown
  PROVE  IInv'
<1> USE DEF IInv, TypeOK, Started, TakenBack, mainVars, loopVars
<1>1. queue' \in Seq({Break, Shutdown}) /\ Message'
  BY ReportKeepsMessage DEF NuaProgress, NuaDown
<1>2. CASE NuaProgress
  BY <1>1, <1>2 DEF NuaProgress
<1>3. CASE NuaDown
  BY <1>1, <1>3 DEF NuaDown
<1> QED
  BY <1>2, <1>3

LEMMA SignalIInv ==
  ASSUME IInv, SignalArrives
  PROVE  IInv'
<1> USE DEF IInv, TypeOK, Started, TakenBack, Startup, Leave, Ended, mainVars, loopVars
<1>1. signals' \in 0..MaxSignals
  BY BoundsAssumption DEF SignalArrives
<1>2. PICK s \in Signal :
        \/ SignalDefault(s) \/ SignalBeforeContext(s) \/ SignalOnMain(s)
        \/ SignalOnNua(s) \/ SignalOnDeadRoot(s)
  BY DEF SignalArrives
<1>3. CASE SignalDefault(s)
  <2>1. Message'
    BY <1>3, QuietKeepsMessage DEF SignalDefault
  <2> QED
    BY <1>1, <1>3, <2>1 DEF SignalDefault
<1>4. CASE SignalBeforeContext(s)
  <2>1. Message'
    BY <1>4, QuietKeepsMessage DEF SignalBeforeContext
  <2> QED
    BY <1>1, <1>4, <2>1 DEF SignalBeforeContext
<1>5. CASE SignalOnMain(s)
  <2>1. Message'
    BY <1>5, QuietKeepsMessage DEF SignalOnMain
  <2>2. running' \in BOOLEAN
    BY <1>5, Zenon DEF SignalOnMain
  <2> QED
    BY <1>1, <1>5, <2>1, <2>2 DEF SignalOnMain
<1>6. CASE SignalOnNua(s)
  <2>1. queue' \in Seq({Break, Shutdown}) /\ Message'
    BY <1>6, ExecuteAddsMessage DEF SignalOnNua
  <2> QED
    BY <1>1, <1>6, <2>1 DEF SignalOnNua
<1>7. CASE SignalOnDeadRoot(s)
  <2>1. Message'
    BY <1>7, QuietKeepsMessage DEF SignalOnDeadRoot
  <2> QED
    BY <1>1, <1>7, <2>1 DEF SignalOnDeadRoot
<1> QED
  BY <1>2, <1>3, <1>4, <1>5, <1>6, <1>7

LEMMA NextIInv == IInv /\ [Next]_vars => IInv'
<1> SUFFICES ASSUME IInv, [Next]_vars PROVE IInv'
  OBVIOUS
<1>1. CASE Main \/ ExitCommand
  BY <1>1, StartUpIInv, LoopIInv, WayOutIInv DEF Main
<1>2. CASE NuaProgress \/ NuaDown
  BY <1>2, NuaIInv
<1>3. CASE SignalArrives
  BY <1>3, SignalIInv
<1>4. CASE UNCHANGED vars
  <2>1. Message'
    BY <1>4, QuietKeepsMessage DEF IInv, vars, loopVars
  <2> QED
    BY <1>4, <2>1 DEF IInv, TypeOK, Started, TakenBack, vars, mainVars, loopVars
<1> QED
  BY <1>1, <1>2, <1>3, <1>4 DEF Next

LEMMA Invariance == Spec => []IInv
  BY InitIInv, NextIInv, PTL DEF Spec

-----------------------------------------------------------------------------
(* The properties of the run `lifecycle' that no fairness is needed for. *)

\* Every variable has a value the code can give it.
THEOREM TypeCorrect == Spec => []TypeOK
<1>1. IInv => TypeOK
  BY DEF IInv
<1> QED
  BY <1>1, Invariance, PTL

\* Whichever unchecked call failed, the loop has its root, the stack, the pool
\* and both handlers with their context when it runs.
THEOREM LoopFullySetUp == Spec => []LoopIsReady
<1>1. IInv => LoopIsReady
  BY DEF IInv, TypeOK, Started, LoopIsReady, Signal
<1> QED
  BY <1>1, Invariance, PTL

\* The nua thread is in the handler exactly as long as its message is queued.
THEOREM OneMessagePerHandler == Spec => []HandlerHasMessage
<1>1. IInv => HandlerHasMessage
  <2> SUFFICES ASSUME IInv PROVE HandlerHasMessage
    OBVIOUS
  <2>1. CASE nuaThread = "handler"
    <3>1. PICK i \in DOMAIN queue : Waiting(Break) = {i}
      BY <2>1 DEF IInv, Message
    <3> QED
      BY <2>1, <3>1, FS_Singleton DEF HandlerHasMessage
  <2>2. CASE nuaThread # "handler"
    BY <2>2, FS_EmptySet DEF IInv, Message, HandlerHasMessage
  <2> QED
    BY <2>1, <2>2
<1> QED
  BY <1>1, Invariance, PTL

\* However far the start came, main returns with the terminal as it was, the
\* file closed and the root and the pool gone.
THEOREM FailedStartCleansUp == Spec => []FailureCleansUp
<1>1. IInv => FailureCleansUp
  BY DEF IInv, TakenBack, FailureCleansUp
<1> QED
  BY <1>1, Invariance, PTL

\* Once the loop runs, neither a signal nor a failed call gets main out of it:
\* only su_root_break does.
THEOREM OnlyBreakLeavesLoop == Spec => LoopLeftByBreak
<1>1. IInv /\ [Next]_vars => [pc = "loop" /\ pc' # pc => ~running /\ pc' = "evsip_cli_stop"]_vars
  <2> SUFFICES ASSUME IInv, Next, pc = "loop", pc' # pc
               PROVE  ~running /\ pc' = "evsip_cli_stop"
    OBVIOUS
  <2> USE DEF At
  <2>1. handlers = Signal /\ sigCtx
    BY DEF IInv, TypeOK, Started, Signal
  <2>2. CASE Main
    BY <2>2 DEF Main, Args, CliInit, ConfigInit, ConfigStartParse, MemInit, RootCreate,
         NuaCreate, SigInit, Sigaction, SigContext, CliStart, Start, RootRun, Dispatch,
         LoopEnds, CliStop, CliDeinit, ConfigDeinit, Deinit, ReturnFailure
  <2>3. CASE ExitCommand \/ NuaProgress \/ NuaDown
    BY <2>3 DEF ExitCommand, NuaProgress, NuaDown
  <2>4. CASE SignalArrives
    BY <2>1, <2>4 DEF SignalArrives, SignalDefault, SignalBeforeContext, SignalOnMain,
         SignalOnNua, SignalOnDeadRoot
  <2> QED
    BY <2>2, <2>3, <2>4 DEF Next
<1> QED
  BY <1>1, Invariance, PTL DEF Spec, LoopLeftByBreak

\* From the moment the handlers have what they use until the root is destroyed,
\* no signal harms the process, and one that comes while the loop runs stops it.
THEOREM SignalsAreHeeded == Spec => SignalHeeded
<1>1. ASSUME IInv, Next, signals' # signals
      PROVE  /\ sigCtx /\ root = "up" => UNCHANGED <<pc, fault>>
             /\ pc = "loop" => ~running' \/ Waiting(Break)' # {}
  <2>1. SignalArrives
    BY <1>1 DEF Next, Main, Args, CliInit, ConfigInit, ConfigStartParse, MemInit, RootCreate,
         NuaCreate, SigInit, Sigaction, SigContext, CliStart, Start, RootRun, Dispatch,
         LoopEnds, CliStop, CliDeinit, ConfigDeinit, Deinit, ReturnFailure, ExitCommand,
         NuaProgress, NuaDown
  <2>2. PICK s \in Signal :
          \/ SignalDefault(s) \/ SignalBeforeContext(s) \/ SignalOnMain(s)
          \/ SignalOnNua(s) \/ SignalOnDeadRoot(s)
    BY <2>1 DEF SignalArrives
  <2>3. sigCtx => handlers = Signal
    BY <1>1 DEF IInv, Started
  <2>4. sigCtx /\ root = "up" => UNCHANGED <<pc, fault>>
    BY <2>2, <2>3 DEF SignalDefault, SignalBeforeContext, SignalOnMain, SignalOnNua,
         SignalOnDeadRoot
  <2>5. ASSUME pc = "loop" PROVE ~running' \/ Waiting(Break)' # {}
    <3>1. sigCtx /\ root = "up"
      BY <1>1, <2>5 DEF IInv, Started
    <3>2. CASE SignalOnMain(s)
      BY <3>2 DEF SignalOnMain
    <3>3. CASE SignalOnNua(s)
      <4>1. Message' /\ nuaThread' = "handler"
        BY <1>1, <3>3, ExecuteAddsMessage DEF IInv, TypeOK, SignalOnNua
      <4> QED
        BY <4>1 DEF Message
    <3> QED
      BY <2>2, <2>3, <3>1, <3>2, <3>3
         DEF SignalDefault, SignalBeforeContext, SignalOnDeadRoot
  <2> QED
    BY <2>4, <2>5
<1>2. IInv /\ [Next]_vars =>
        [signals' # signals =>
           /\ sigCtx /\ root = "up" => UNCHANGED <<pc, fault>>
           /\ pc = "loop" => ~running' \/ Waiting(Break)' # {}]_vars
  BY <1>1
<1> QED
  BY <1>2, Invariance, PTL DEF Spec, SignalHeeded
===============================================================================
