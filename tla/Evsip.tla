-------------------------------- MODULE Evsip --------------------------------
(***************************************************************************)
(* The whole server: the process of EvsipLifecycle with the registrar of   *)
(* EvsipRegistry in its event loop (evsip_evsofia.c, evsip_core.c,         *)
(* evsip_endp.c, evsip_invite.c).                                          *)
(*                                                                         *)
(* The nua thread receives SIP requests from the moment nua_create returns *)
(* and posts each as an event to the task of the root, in one queue with   *)
(* the report of nua_shutdown and the message of a signal handler.  The    *)
(* main thread takes them out, runs evsip_evsofia_main on them, and runs   *)
(* the CLI in between.  So requests pile up before su_root_run and are in  *)
(* the queue before and behind what stops the loop.                        *)
(*                                                                         *)
(* The two modules share `fault': undefined behaviour in a handler ends    *)
(* the process, and the other way round.  A command is one step, as        *)
(* EvsipCli's refinement of CommandLine allows: "exit" is                  *)
(* Life!ExitCommand, "dump" is below, "help" and "conf" only print.        *)
(***************************************************************************)
EXTENDS Integers, Sequences, FiniteSets

CONSTANTS
  Fail, MaxSignals, MaxQueue,                            \* of EvsipLifecycle
  Host, User, Endp, NULL, Requests, AllocFault, Word,    \* of EvsipRegistry
  MaxRequests                                            \* requests received (bound)

ASSUME BoundsAssumption == MaxRequests \in Nat /\ MaxSignals \in Nat

VARIABLES
  pc, tty, cliState, confFd, memPage, cmdl, cmds, root, running, queue, nua, nuaThread,
  handlers, sigCtx, signals,
  info, home, added, gpEndpList, listHome, reply, lost, starved,
  fault,
  received,   \* requests the nua thread posted so far
  served      \* of these, the ones evsip_evsofia_main was called for

Life == INSTANCE EvsipLifecycle
Reg == INSTANCE EvsipRegistry

\* What EvsipRegistry assumes of its constants.
ASSUME RegistryAssumption ==
  /\ NULL \notin Host \cup User \cup Endp \cup Int
  /\ Requests \subseteq Reg!Request
  /\ AllocFault \subseteq {"clone", "strdup", "vector", "append"}
  /\ Word \in Nat /\ Word > 300

regVars == <<info, home, added, gpEndpList, listHome, reply, lost, starved>>
lifeVars == <<pc, tty, cliState, confFd, memPage, cmdl, cmds, root, running, nua, nuaThread,
              handlers, sigCtx, signals>>
requestVars == <<received, served>>
vars == <<lifeVars, queue, fault, regVars, requestVars>>

Init == Life!Init /\ Reg!Init /\ received = 0 /\ served = 0

\* late: it came after "exit" was entered.
Register(r) == [event |-> "nua_i_register", request |-> r, late |-> nua # "up"]
Invite == [event |-> "nua_i_invite", late |-> nua # "up"]
IsRequest(m) == m \notin {Life!Break, Life!Shutdown}

-----------------------------------------------------------------------------
(* The nua thread. *)

\* A failed start destroys the root and not the stack that posts to it.
Post(m) ==
  IF root = "up"
  THEN queue' = Append(queue, m) /\ UNCHANGED fault
  ELSE fault' = "dead_root" /\ UNCHANGED queue

Receive ==
  /\ Life!Alive /\ nua \in {"up", "closing"} /\ nuaThread = "free"
  /\ received < MaxRequests
  /\ received' = received + 1
  /\ \E m \in {Register(r) : r \in Requests} \cup {Invite} : Post(m)
  /\ UNCHANGED <<lifeVars, regVars, served>>

-----------------------------------------------------------------------------
(* The main thread, in the loop. *)

Handler(m) ==
  \/ m.event = "nua_i_register" /\ Reg!Register(m.request)
  \/ m.event = "nua_i_invite" /\ Reg!Invite

\* Seeded bug: the event is not taken out of the queue.
Bug_ServeAgain ==
  /\ Life!At("loop") /\ queue # <<>> /\ IsRequest(Head(queue))
  /\ served' = served + 1
  /\ Handler(Head(queue))
  /\ UNCHANGED <<lifeVars, queue, received>>

\* Seeded bug: events are taken as soon as there is a root.
Bug_ServeEarly ==
  /\ Life!Alive /\ root = "up" /\ queue # <<>> /\ IsRequest(Head(queue))
  /\ queue' = Tail(queue)
  /\ served' = served + 1
  /\ Handler(Head(queue))
  /\ UNCHANGED <<lifeVars, received>>

\* evsip_evsofia_main for a request; the others are Life!Dispatch.
Serve ==
  /\ Life!At("loop") /\ queue # <<>> /\ IsRequest(Head(queue))
  /\ queue' = Tail(queue)
  /\ served' = served + 1
  /\ Handler(Head(queue))
  /\ UNCHANGED <<lifeVars, received>>

\* The user enters "dump".
DumpCommand ==
  /\ Life!At("loop") /\ "dump" \in cmds
  /\ Reg!DumpList
  /\ UNCHANGED <<lifeVars, queue, regVars, requestVars>>

Process == Life!Next /\ UNCHANGED <<regVars, requestVars>>

Next == Process \/ Receive \/ Serve \/ DumpCommand

\* As in EvsipLifecycle, with the requests that main takes out of the queue.
MainThread == (Life!Main /\ UNCHANGED <<regVars, requestVars>>) \/ Serve

Fairness == WF_vars(MainThread) /\ WF_vars(Life!NuaDown /\ UNCHANGED <<regVars, requestVars>>)

Spec == Init /\ [][Next]_vars /\ Fairness

-----------------------------------------------------------------------------
(* Properties. *)

Requested == {i \in DOMAIN queue : IsRequest(queue[i])}

\* Queue, stack and counters of the composition: what nua posted and nobody
\* took is in the queue, and nothing else is.
TypeOK ==
  /\ queue \in Seq({Life!Break, Life!Shutdown}
                     \cup [event : {"nua_i_register"}, request : Requests, late : BOOLEAN]
                     \cup [event : {"nua_i_invite"}, late : BOOLEAN])
  /\ received \in 0..MaxRequests
  /\ served \in 0..received

\* "exit" is polite: evsip_stop asks nua to shut down instead of breaking the
\* loop, so that every request that came before it is handled before the process
\* ends, unless a signal breaks the loop.
HandledBeforeExit ==
  pc = "EXIT_SUCCESS" /\ signals = MaxSignals =>
    received - served = Cardinality({i \in Requested : queue[i].late})

\* A request that came in is handled or the process is over, even if it came
\* while main was still starting.
RequestsHandled == received > served ~> received = served \/ Life!Over

\* "exit" ends the process whatever requests wait before and behind the report
\* of nua, and whatever they do to the server.
ExitNotStarved == nua = "closing" ~> Life!Over

\* The commands and the INVITE handler read the list whenever they please and
\* never find it gone: only a REGISTER can end the process by a wild pointer.
OnlyRegisterBreaks ==
  [][fault = "none" /\ fault' \in {"use_after_free", "null_deref"} =>
       served' = served + 1 /\ Head(queue).event = "nua_i_register"]_vars

-----------------------------------------------------------------------------
(* The process implements the server. *)

Phase ==
  IF fault # "none" \/ pc \in {"killed", "aborted"} THEN "dead"
  ELSE IF pc \in Life!Startup THEN "starting"
  ELSE IF pc = "loop" THEN "serving"
  ELSE IF pc \in {"evsip_cli_stop", "EXIT_SUCCESS"} THEN "stopped"
  ELSE "failed"

Server == INSTANCE SipServer WITH
  phase <- Phase, binding <- Reg!Bound, answer <- Reg!FinalAnswer

\* Start, requests, commands, signals and stop together are the server that
\* SipServer describes, as long as memory lasts.
ImplementsSipServer == Server!Spec
=============================================================================
