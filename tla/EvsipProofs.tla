------------------------------ MODULE EvsipProofs ------------------------------
(***************************************************************************)
(* Proofs about Evsip, for any number of requests, any requests and any    *)
(* failures: what is in the queue of the root when, that "exit" waits for  *)
(* the requests before it, that no reader of the list finds it gone, and   *)
(* that every step is one SipServer allows.                                *)
(***************************************************************************)
EXTENDS Evsip, SequenceTheorems, FiniteSetTheorems, TLAPS

Request == [event : {"nua_i_register"}, request : Requests, late : BOOLEAN]
             \cup [event : {"nua_i_invite"}, late : BOOLEAN]
Stop == {Life!Break, Life!Shutdown}

LEMMA RequestsAreNoStops == \A m \in Request : IsRequest(m)
  BY DEF Request, IsRequest, Life!Break, Life!Shutdown

LEMMA StopsDiffer == Life!Break # Life!Shutdown
  BY DEF Life!Break, Life!Shutdown

-----------------------------------------------------------------------------
(* The requests in a queue. *)

RequestsIn(q) == {i \in DOMAIN q : IsRequest(q[i])}

LEMMA RequestedFinite ==
  ASSUME NEW S, NEW q \in Seq(S)
  PROVE  IsFiniteSet(RequestsIn(q)) /\ Cardinality(RequestsIn(q)) \in Nat
<1>1. IsFiniteSet(1..Len(q)) /\ RequestsIn(q) \in SUBSET (1..Len(q))
  BY FS_Interval DEF RequestsIn
<1>2. IsFiniteSet(RequestsIn(q))
  BY <1>1, FS_Subset
<1> QED
  BY <1>2, FS_CardinalityType

LEMMA PostedCounts ==
  ASSUME NEW S, NEW q \in Seq(S), NEW m \in S
  PROVE  Cardinality(RequestsIn(Append(q, m))) =
           Cardinality(RequestsIn(q)) + IF IsRequest(m) THEN 1 ELSE 0
<1> DEFINE r == Append(q, m)
           n == Len(q)
<1>1. /\ n \in Nat /\ DOMAIN q = 1..n /\ DOMAIN r = 1..(n + 1)
      /\ r[n + 1] = m /\ \A i \in 1..n : r[i] = q[i]
  OBVIOUS
<1>2. IsFiniteSet(RequestsIn(q)) /\ Cardinality(RequestsIn(q)) \in Nat
  BY RequestedFinite
<1> HIDE DEF r, n
<1>3. n + 1 \notin RequestsIn(q)
  BY <1>1 DEF RequestsIn
<1>4. CASE IsRequest(m)
  <2>1. RequestsIn(r) = RequestsIn(q) \cup {n + 1}
    BY <1>1, <1>4 DEF RequestsIn
  <2> QED
    BY <1>2, <1>3, <1>4, <2>1, FS_AddElement DEF r
<1>5. CASE ~IsRequest(m)
  <2>1. RequestsIn(r) = RequestsIn(q)
    BY <1>1, <1>5 DEF RequestsIn
  <2> QED
    BY <1>2, <1>5, <2>1 DEF r
<1> QED
  BY <1>4, <1>5

LEMMA ShiftCounts ==
  ASSUME NEW T \in SUBSET Nat, IsFiniteSet(T)
  PROVE  Cardinality({i + 1 : i \in T}) = Cardinality(T)
<1> DEFINE S == {i + 1 : i \in T}
           f == [i \in T |-> i + 1]
<1>1. f \in Bijection(T, S)
  BY DEF Bijection, Injection, Surjection, IsInjective
<1>2. ExistsBijection(T, S)
  BY <1>1 DEF ExistsBijection
<1> HIDE DEF S
<1>3. Cardinality(S) = Cardinality(T)
  BY <1>2, FS_Bijection
<1> QED
  BY <1>3 DEF S

LEMMA TakenCounts ==
  ASSUME NEW S, NEW q \in Seq(S), q # <<>>
  PROVE  Cardinality(RequestsIn(q)) =
           Cardinality(RequestsIn(Tail(q))) + IF IsRequest(Head(q)) THEN 1 ELSE 0
<1> DEFINE t == Tail(q)
           n == Len(q)
           T == RequestsIn(t)
           U == {i + 1 : i \in T}
<1>1. /\ n \in Nat /\ n >= 1 /\ DOMAIN q = 1..n /\ DOMAIN t = 1..(n - 1) /\ t \in Seq(S)
      /\ Head(q) = q[1] /\ \A i \in 1..(n - 1) : t[i] = q[i + 1]
  OBVIOUS
<1>2. IsFiniteSet(T) /\ T \in SUBSET Nat /\ Cardinality(T) \in Nat
  <2>1. IsFiniteSet(T) /\ Cardinality(T) \in Nat
    BY <1>1, RequestedFinite
  <2>2. T \in SUBSET Nat
    <3> HIDE DEF t, n
    <3> QED
      BY <1>1 DEF RequestsIn
  <2> QED
    BY <2>1, <2>2
<1>3. Cardinality(U) = Cardinality(T)
  BY <1>2, ShiftCounts
<1>4. IsFiniteSet(RequestsIn(q)) /\ Cardinality(RequestsIn(q)) \in Nat
  BY RequestedFinite
<1> HIDE DEF t, n
<1>5. U = RequestsIn(q) \ {1}
  <2>1. ASSUME NEW i \in T PROVE i + 1 \in RequestsIn(q) \ {1}
    BY <1>1 DEF RequestsIn
  <2>2. ASSUME NEW j \in RequestsIn(q) \ {1} PROVE j - 1 \in T /\ j = (j - 1) + 1
    <3>1. j \in 2..n /\ j - 1 \in 1..(n - 1)
      BY <1>1 DEF RequestsIn
    <3> QED
      BY <1>1, <3>1 DEF RequestsIn
  <2> QED
    BY <2>1, <2>2
<1>6. 1 \in RequestsIn(q) <=> IsRequest(Head(q))
  BY <1>1 DEF RequestsIn
<1> HIDE DEF T, U
<1>7. Cardinality(U) = IF 1 \in RequestsIn(q) THEN Cardinality(RequestsIn(q)) - 1
                                             ELSE Cardinality(RequestsIn(q))
  BY <1>4, <1>5, FS_RemoveElement
<1>8. Cardinality(RequestsIn(q)) = Cardinality(T) + IF IsRequest(Head(q)) THEN 1 ELSE 0
  BY <1>2, <1>3, <1>4, <1>6, <1>7
<1> QED
  BY <1>8 DEF T, t
-----------------------------------------------------------------------------
(* The invariant. *)

\* What nua posted and main did not take is in the queue.
Counted == received - served = Cardinality(RequestsIn(queue))

\* As long as no signal came, only reports of nua stop the loop.  nua reports
\* after "exit", so what is behind a report came after "exit", and so did all
\* that is left in the queue once the loop was stopped.
Stopped == (pc = "loop" /\ ~running) \/ pc \in {"evsip_cli_stop", "EXIT_SUCCESS"}
Exiting == nua \in {"closing", "down"}
AllLate == \A i \in RequestsIn(queue) : queue[i].late = TRUE

Polite ==
  /\ \A i \in DOMAIN queue : queue[i] # Life!Break /\ (queue[i] = Life!Shutdown => Exiting)
  /\ \A i, j \in DOMAIN queue : queue[i] = Life!Shutdown /\ i < j /\ IsRequest(queue[j]) =>
                                  queue[j].late = TRUE
  /\ Stopped => Exiting /\ AllLate

IInv ==
  /\ TypeOK
  /\ signals \in 0..MaxSignals
  /\ pc \in Life!Startup => ~Exiting
  /\ pc = "EXIT_SUCCESS" => fault = "none"
  /\ fault = "none" => Counted
  /\ signals = MaxSignals => Polite

LEMMA QueueType == TypeOK => queue \in Seq(Stop \cup Request)
  BY DEF TypeOK, Stop, Request

LEMMA InitIInv == Init => IInv
<1> SUFFICES ASSUME Init PROVE IInv
  OBVIOUS
<1>1. /\ queue = <<>> /\ received = 0 /\ served = 0 /\ signals = MaxSignals
      /\ pc = "evsip_args" /\ nua = "none"
  BY DEF Init, Life!Init
<1>2. TypeOK
  BY <1>1, BoundsAssumption DEF TypeOK
<1>3. RequestsIn(queue) = {}
  BY <1>1 DEF RequestsIn
<1>4. Counted
  BY <1>1, <1>3, FS_EmptySet DEF Counted
<1>5. Polite
  BY <1>1, <1>3 DEF Polite, Exiting, Stopped, AllLate
<1>6. ~Exiting
  BY <1>1 DEF Exiting
<1> QED
  BY <1>1, <1>2, <1>4, <1>5, <1>6, BoundsAssumption DEF IInv

-----------------------------------------------------------------------------
(* The steps of the process, by what they do to the queue. *)

\* main goes on, or the user enters "exit", or a signal does not get through.
Goes ==
  /\ UNCHANGED queue
  /\ pc' \in Life!Startup => pc \in Life!Startup /\ (nua' = nua \/ nua' = "up")
  /\ Exiting => nua' = nua
  /\ pc' = "EXIT_SUCCESS" => pc = "EXIT_SUCCESS" \/ pc = "evsip_cli_stop"
  /\ pc' = "evsip_cli_stop" => pc = "evsip_cli_stop" \/ (pc = "loop" /\ ~running)
  /\ signals' = signals =>
       (pc' = "loop" /\ running' = FALSE => pc = "loop" /\ running = FALSE)

Reports ==
  /\ queue' = Append(queue, Life!Shutdown)
  /\ Exiting /\ Exiting'
  /\ UNCHANGED <<pc, running, signals>>

Interrupts ==
  /\ queue' = Append(queue, Life!Break)
  /\ signals' # signals
  /\ UNCHANGED <<pc, nua>>

Dispatches ==
  /\ queue # <<>> /\ Head(queue) \in Stop /\ queue' = Tail(queue)
  /\ pc = "loop"
  /\ UNCHANGED <<pc, nua, signals>>

LEMMA ProcessSteps ==
  ASSUME IInv, Process
  PROVE  /\ Goes \/ Reports \/ Interrupts \/ Dispatches
         /\ UNCHANGED requestVars /\ fault = "none" /\ (pc' = "EXIT_SUCCESS" => fault' = "none")
         /\ signals' = signals \/ (signals > 0 /\ signals' = signals - 1)
<1> USE DEF Life!At, Life!Alive, Life!Fails, Life!LEAVE_ERROR, Life!mainVars, Life!loopVars, Exiting,
            Life!Startup, Life!Ended
<1>0. UNCHANGED requestVars /\ signals \in 0..MaxSignals /\ MaxSignals \in Nat
  BY BoundsAssumption DEF Process, IInv
<1>1. CASE Life!Args \/ Life!CliInit \/ Life!ConfigInit \/ Life!ConfigStartParse \/ Life!MemInit
             \/ Life!RootCreate \/ Life!NuaCreate \/ Life!SigInit \/ Life!SigContext
             \/ Life!CliStart \/ Life!Start \/ Life!RootRun
  <2>1. /\ UNCHANGED <<queue, signals, fault>> /\ fault = "none"
        /\ pc \in Life!Startup /\ pc' \in Life!Startup \cup {Life!LEAVE_ERROR, "loop"}
        /\ pc' = "loop" => running' = TRUE
        /\ nua' = nua \/ nua' = "up"
    BY <1>1 DEF Life!Args, Life!CliInit, Life!ConfigInit, Life!ConfigStartParse, Life!MemInit,
                Life!RootCreate, Life!NuaCreate, Life!SigInit, Life!Sigaction, Life!SigContext,
                Life!CliStart, Life!Start, Life!RootRun
  <2>2. ~Exiting
    BY <2>1 DEF IInv
  <2> QED
    BY <1>0, <2>1, <2>2 DEF Goes
<1>2. CASE Life!Dispatch
  <2>1. Dispatches /\ UNCHANGED fault /\ fault = "none"
    BY <1>2 DEF Life!Dispatch, Life!Stops, Dispatches, Stop
  <2> QED
    BY <1>0, <2>1 DEF Dispatches
<1>3. CASE \/ Life!LoopEnds \/ Life!CliStop
           \/ Life!CliDeinit \/ Life!ConfigDeinit \/ Life!Deinit \/ Life!ReturnFailure
  <2>1. /\ UNCHANGED <<queue, nua, signals, fault>> /\ fault = "none"
        /\ \/ pc = "loop" /\ ~running /\ pc' = "evsip_cli_stop"
           \/ pc = "evsip_cli_stop" /\ pc' = "EXIT_SUCCESS"
           \/ pc' \in {"aborted", "evsip_config_deinit", "evsip_deinit", "return", "EXIT_FAILURE"}
    BY <1>3 DEF Life!LoopEnds, Life!CliStop, Life!CliDeinit, Life!ConfigDeinit, Life!Deinit,
                Life!ReturnFailure
  <2> QED
    BY <1>0, <2>1 DEF Goes
<1>4. CASE Life!ExitCommand
  <2>1. /\ pc = "loop" /\ nua = "up" /\ UNCHANGED <<pc, running, queue, signals, fault>>
        /\ fault = "none"
    BY <1>4 DEF Life!ExitCommand
  <2> QED
    BY <1>0, <2>1 DEF Goes
<1>5. CASE Life!NuaProgress \/ Life!NuaDown
  <2>1. Reports /\ UNCHANGED fault /\ fault = "none"
    BY <1>5 DEF Life!NuaProgress, Life!NuaDown, Reports
  <2> QED
    BY <1>0, <2>1 DEF Reports
<1>6. CASE Life!SignalArrives
  <2>1. signals > 0 /\ signals' = signals - 1 /\ pc \notin Life!Ended /\ fault = "none"
    BY <1>6 DEF Life!SignalArrives
  <2>2. signals' # signals
    BY <1>0, <2>1
  <2>3. ASSUME NEW s, Life!SignalOnNua(s) PROVE Interrupts /\ pc' = pc
    BY <2>2, <2>3 DEF Life!SignalOnNua, Interrupts
  <2>4. ASSUME NEW s, \/ Life!SignalDefault(s) \/ Life!SignalBeforeContext(s)
                      \/ Life!SignalOnMain(s) \/ Life!SignalOnDeadRoot(s)
        PROVE  Goes /\ pc' \in {pc, "killed", "aborted"}
    <3>1. UNCHANGED <<queue, nua>> /\ pc' \in {pc, "killed", "aborted"}
      BY <2>4 DEF Life!SignalDefault, Life!SignalBeforeContext, Life!SignalOnMain, Life!SignalOnDeadRoot
    <3> QED
      BY <2>1, <2>2, <3>1 DEF Goes
  <2>5. (Goes \/ Interrupts) /\ pc' \in {pc, "killed", "aborted"}
    BY <1>6, <2>3, <2>4 DEF Life!SignalArrives
  <2> QED
    BY <1>0, <2>1, <2>5
<1> QED
  BY <1>1, <1>2, <1>3, <1>4, <1>5, <1>6 DEF Process, Life!Next, Life!Main

-----------------------------------------------------------------------------
(* They keep the invariant. *)

LEMMA GoesIInv ==
  ASSUME IInv, Process, Goes
  PROVE  IInv'
<1>1. /\ UNCHANGED requestVars /\ fault = "none" /\ (pc' = "EXIT_SUCCESS" => fault' = "none")
      /\ (signals' = signals \/ (signals > 0 /\ signals' = signals - 1))
  BY ProcessSteps
<1>2. UNCHANGED <<queue, received, served>>
  BY <1>1 DEF Goes, requestVars
<1>3. TypeOK' /\ Counted'
  BY <1>1, <1>2 DEF IInv, TypeOK, Counted, RequestsIn
<1>4. signals' \in 0..MaxSignals /\ (signals' = MaxSignals => signals = MaxSignals /\ signals' = signals)
  BY <1>1, BoundsAssumption DEF IInv
<1>5. pc' \in Life!Startup => ~Exiting'
  BY DEF IInv, Goes, Exiting
<1>6. Exiting => Exiting'
  BY DEF Goes, Exiting
<1>7. ASSUME signals' = MaxSignals PROVE Polite'
  <2>1. Polite /\ signals' = signals
    BY <1>4, <1>7 DEF IInv
  <2>2. Stopped' => Stopped
    BY <2>1 DEF Goes, Stopped
  <2>3. Stopped' => Exiting' /\ AllLate'
    BY <1>2, <1>6, <2>1, <2>2 DEF Polite, AllLate, RequestsIn
  <2> QED
    BY <1>2, <1>6, <2>1, <2>3 DEF Polite
<1> QED
  BY <1>1, <1>3, <1>4, <1>5, <1>7 DEF IInv
LEMMA QueueFacts ==
  ASSUME IInv, fault = "none"
  PROVE  /\ queue \in Seq(Stop \cup Request) /\ Len(queue) \in Nat /\ DOMAIN queue = 1..Len(queue)
         /\ received \in 0..MaxRequests /\ served \in 0..received /\ MaxRequests \in Nat
         /\ Counted
  BY QueueType, BoundsAssumption DEF IInv, TypeOK

\* The type of the composition and the count after m was posted.
LEMMA PostedIInv ==
  ASSUME IInv, fault = "none", NEW m \in Stop \cup Request, queue' = Append(queue, m),
         received' = received + (IF IsRequest(m) THEN 1 ELSE 0), served' = served,
         received' <= MaxRequests
  PROVE  TypeOK' /\ Counted'
<1>1. /\ queue \in Seq(Stop \cup Request) /\ received \in 0..MaxRequests /\ served \in 0..received
      /\ MaxRequests \in Nat /\ Counted
  BY QueueFacts
<1>2. queue' \in Seq(Stop \cup Request)
  BY <1>1
<1>3. Cardinality(RequestsIn(queue')) =
        Cardinality(RequestsIn(queue)) + IF IsRequest(m) THEN 1 ELSE 0
  BY <1>1, PostedCounts
<1>4. Cardinality(RequestsIn(queue)) \in Nat
  BY <1>1, RequestedFinite
<1>5. Counted'
  BY <1>1, <1>3, <1>4 DEF Counted
<1>6. received' \in 0..MaxRequests /\ served' \in 0..received'
  BY <1>1
<1>7. TypeOK'
  BY <1>2, <1>6 DEF TypeOK, Stop, Request
<1> QED
  BY <1>5, <1>7

\* ... and after the head was taken.
LEMMA TakenIInv ==
  ASSUME IInv, fault = "none", queue # <<>>, queue' = Tail(queue), received' = received,
         served' = served + (IF IsRequest(Head(queue)) THEN 1 ELSE 0)
  PROVE  TypeOK' /\ Counted'
<1>1. /\ queue \in Seq(Stop \cup Request) /\ received \in 0..MaxRequests /\ served \in 0..received
      /\ MaxRequests \in Nat /\ Counted
  BY QueueFacts
<1>2. queue' \in Seq(Stop \cup Request)
  BY <1>1
<1>3. Cardinality(RequestsIn(queue)) =
        Cardinality(RequestsIn(queue')) + IF IsRequest(Head(queue)) THEN 1 ELSE 0
  BY <1>1, TakenCounts
<1>4. Cardinality(RequestsIn(queue')) \in Nat
  BY <1>2, RequestedFinite
<1>5. Counted'
  BY <1>1, <1>3, <1>4 DEF Counted
<1>6. served' \in 0..received' /\ received' \in 0..MaxRequests
  BY <1>1, <1>3, <1>4 DEF Counted
<1>7. TypeOK'
  BY <1>2, <1>6 DEF TypeOK, Stop, Request
<1> QED
  BY <1>5, <1>7

LEMMA ReportsIInv ==
  ASSUME IInv, Process, Reports
  PROVE  IInv'
<1> DEFINE m == Life!Shutdown
<1>1. /\ UNCHANGED <<received, served, pc, running, signals>> /\ Exiting /\ Exiting'
      /\ fault = "none" /\ (pc' = "EXIT_SUCCESS" => fault' = "none")
      /\ queue' = Append(queue, m)
  BY ProcessSteps DEF Reports, requestVars
<1>2. m \in Stop /\ ~IsRequest(m) /\ m # Life!Break
  BY StopsDiffer DEF Stop, IsRequest
<1>3. /\ queue \in Seq(Stop \cup Request) /\ Len(queue) \in Nat /\ DOMAIN queue = 1..Len(queue)
      /\ received \in 0..MaxRequests /\ MaxRequests \in Nat
  BY <1>1, QueueFacts
<1> HIDE DEF m
<1>4. TypeOK' /\ Counted'
  BY <1>1, <1>2, <1>3, PostedIInv
<1>5. /\ DOMAIN queue' = 1..(Len(queue) + 1) /\ queue'[Len(queue) + 1] = m
      /\ \A i \in DOMAIN queue : queue'[i] = queue[i]
  BY <1>1, <1>2, <1>3
<1>6. RequestsIn(queue') = RequestsIn(queue) /\ \A i \in RequestsIn(queue) : queue'[i] = queue[i]
  BY <1>2, <1>3, <1>5 DEF RequestsIn
<1>7. ASSUME signals' = MaxSignals PROVE Polite'
  <2>1. Polite
    BY <1>1, <1>7 DEF IInv
  <2>2. \A i \in DOMAIN queue' : queue'[i] # Life!Break
    BY <1>2, <1>3, <1>5, <2>1 DEF Polite
  <2>3. \A i, j \in DOMAIN queue' :
          queue'[i] = Life!Shutdown /\ i < j /\ IsRequest(queue'[j]) => queue'[j].late = TRUE
    BY <1>2, <1>3, <1>5, <2>1 DEF Polite
  <2>4. Stopped' => AllLate'
    BY <1>1, <1>6, <2>1 DEF Polite, Stopped, AllLate
  <2> QED
    BY <1>1, <2>2, <2>3, <2>4 DEF Polite
<1> QED
  BY <1>1, <1>4, <1>7 DEF IInv

LEMMA InterruptsIInv ==
  ASSUME IInv, Process, Interrupts
  PROVE  IInv'
<1>1. /\ UNCHANGED <<received, served>> /\ queue' = Append(queue, Life!Break)
      /\ fault = "none" /\ (pc' = "EXIT_SUCCESS" => fault' = "none")
      /\ signals > 0 /\ signals' = signals - 1 /\ signals \in 0..MaxSignals /\ MaxSignals \in Nat
  BY ProcessSteps, BoundsAssumption DEF Interrupts, requestVars, IInv
<1>2. Life!Break \in Stop /\ ~IsRequest(Life!Break)
  BY DEF Stop, IsRequest
<1>3. received \in 0..MaxRequests /\ MaxRequests \in Nat
  BY <1>1, QueueFacts
<1>4. TypeOK' /\ Counted'
  BY <1>1, <1>2, <1>3, PostedIInv
<1>5. signals' \in 0..MaxSignals /\ signals' # MaxSignals
  BY <1>1
<1>6. pc' \in Life!Startup => ~Exiting'
  BY DEF IInv, Interrupts, Exiting
<1> QED
  BY <1>1, <1>4, <1>5, <1>6 DEF IInv
\* The head and what is left, for the steps of main that take it.
LEMMA TailFacts ==
  ASSUME IInv, fault = "none", queue # <<>>, queue' = Tail(queue)
  PROVE  /\ 1 \in DOMAIN queue /\ Head(queue) = queue[1]
         /\ \A i \in DOMAIN queue' : /\ i + 1 \in DOMAIN queue /\ queue'[i] = queue[i + 1]
                                     /\ i \in Nat /\ 1 < i + 1
BY QueueFacts

LEMMA TakenPolite ==
  ASSUME IInv, fault = "none", queue # <<>>, queue' = Tail(queue), Exiting => Exiting', Polite,
         Stopped' => Exiting' /\ AllLate'
  PROVE  Polite'
<1>1. \A i \in DOMAIN queue' : i + 1 \in DOMAIN queue /\ queue'[i] = queue[i + 1] /\ i \in Nat
  BY TailFacts
<1>2. \A i \in DOMAIN queue' : queue'[i] # Life!Break /\ (queue'[i] = Life!Shutdown => Exiting')
  BY <1>1 DEF Polite
<1>3. ASSUME NEW i \in DOMAIN queue', NEW j \in DOMAIN queue',
             queue'[i] = Life!Shutdown, i < j, IsRequest(queue'[j])
      PROVE  queue'[j].late = TRUE
  <2>1. i + 1 < j + 1
    BY <1>1, <1>3
  <2> QED
    BY <1>1, <1>3, <2>1 DEF Polite
<1> QED
  BY <1>2, <1>3 DEF Polite

LEMMA DispatchesIInv ==
  ASSUME IInv, Process, Dispatches
  PROVE  IInv'
<1>1. /\ UNCHANGED <<received, served, pc, nua, signals>>
      /\ fault = "none" /\ (pc' = "EXIT_SUCCESS" => fault' = "none")
      /\ queue # <<>> /\ Head(queue) \in Stop /\ queue' = Tail(queue)
  BY ProcessSteps DEF Dispatches, requestVars
<1>2. ~IsRequest(Head(queue))
  BY <1>1 DEF Stop, IsRequest
<1>3. served \in Nat
  BY <1>1, QueueFacts
<1>4. TypeOK' /\ Counted'
  BY <1>1, <1>2, <1>3, TakenIInv
<1>5. Exiting' = Exiting
  BY <1>1 DEF Exiting
<1>6. ASSUME signals' = MaxSignals PROVE Polite'
  <2>1. Polite
    BY <1>1, <1>6 DEF IInv
  <2>2. 1 \in DOMAIN queue /\ queue[1] = Life!Shutdown
    BY <1>1, <2>1, TailFacts DEF Stop, Polite
  <2>3. Exiting
    BY <2>1, <2>2 DEF Polite
  <2>4. AllLate'
    BY <1>1, <2>1, <2>2, TailFacts DEF Polite, AllLate, RequestsIn
  <2> QED
    BY <1>1, <1>5, <2>1, <2>3, <2>4, TakenPolite
<1> QED
  BY <1>1, <1>4, <1>5, <1>6 DEF IInv

LEMMA ServeIInv ==
  ASSUME IInv, Serve
  PROVE  IInv'
<1>1. /\ UNCHANGED <<received, pc, running, nua, signals>> /\ served' = served + 1
      /\ fault = "none" /\ pc = "loop"
      /\ queue # <<>> /\ IsRequest(Head(queue)) /\ queue' = Tail(queue)
  BY DEF Serve, lifeVars, Life!At
<1>2. TypeOK' /\ Counted'
  BY <1>1, TakenIInv
<1>3. Exiting' = Exiting /\ Stopped' = Stopped
  BY <1>1 DEF Exiting, Stopped
<1>4. ASSUME signals' = MaxSignals PROVE Polite'
  <2>1. Polite
    BY <1>1, <1>4 DEF IInv
  <2>2. AllLate => AllLate'
    BY <1>1, TailFacts DEF AllLate, RequestsIn
  <2>3. Stopped' => Exiting' /\ AllLate'
    BY <1>3, <2>1, <2>2 DEF Polite
  <2> QED
    BY <1>1, <1>3, <2>1, <2>3, TakenPolite
<1> QED
  BY <1>1, <1>2, <1>3, <1>4 DEF IInv

LEMMA ReceiveIInv ==
  ASSUME IInv, Receive
  PROVE  IInv'
<1>1. /\ UNCHANGED <<served, pc, running, nua, signals>> /\ received' = received + 1
      /\ received < MaxRequests /\ fault = "none" /\ pc # "EXIT_SUCCESS"
  BY DEF Receive, lifeVars, Life!Alive, Life!Ended
<1>2. PICK m \in {Register(r) : r \in Requests} \cup {Invite} : Post(m)
  BY DEF Receive
<1>3. m \in Request /\ (Exiting => m.late = TRUE)
  <2>1. PICK late \in BOOLEAN : late = (nua # "up")
    OBVIOUS
  <2>2. Exiting => late = TRUE
    BY <2>1 DEF Exiting
  <2>3. \/ \E r \in Requests : m = [event |-> "nua_i_register", request |-> r, late |-> late]
        \/ m = [event |-> "nua_i_invite", late |-> late]
    BY <1>2, <2>1 DEF Register, Invite
  <2>4. m \in Request /\ m.late = late
    BY <2>3 DEF Request
  <2> QED
    BY <2>2, <2>4
<1>4. Exiting' = Exiting /\ Stopped' = Stopped
  BY <1>1 DEF Exiting, Stopped
<1>5. /\ queue \in Seq(Stop \cup Request) /\ Len(queue) \in Nat /\ DOMAIN queue = 1..Len(queue)
      /\ received \in 0..MaxRequests /\ served \in 0..received /\ MaxRequests \in Nat
  BY <1>1, QueueFacts
<1>6. CASE queue' = queue /\ fault' # "none"
  <2>1. TypeOK'
    BY <1>1, <1>5, <1>6 DEF IInv, TypeOK
  <2>2. signals' = MaxSignals => Polite'
    BY <1>1, <1>4, <1>6 DEF IInv, Polite, AllLate, RequestsIn
  <2> QED
    BY <1>1, <1>4, <1>6, <2>1, <2>2 DEF IInv
<1>7. CASE queue' = Append(queue, m) /\ fault' = "none"
  <2>1. IsRequest(m) /\ m \in Stop \cup Request /\ m # Life!Break /\ m # Life!Shutdown
    BY <1>3, RequestsAreNoStops DEF IsRequest
  <2>2. TypeOK' /\ Counted'
    BY <1>1, <1>5, <1>7, <2>1, PostedIInv
  <2>3. /\ DOMAIN queue' = 1..(Len(queue) + 1) /\ queue'[Len(queue) + 1] = m
        /\ \A i \in DOMAIN queue : queue'[i] = queue[i]
    BY <1>5, <1>7, <2>1
  <2>4. Exiting => m.late = TRUE
    BY <1>3
  <2>5. ASSUME signals' = MaxSignals PROVE Polite'
    <3>1. Polite
      BY <1>1, <2>5 DEF IInv
    <3>2. \A i \in DOMAIN queue' : queue'[i] # Life!Break /\ (queue'[i] = Life!Shutdown => Exiting')
      BY <1>4, <1>5, <2>1, <2>3, <3>1 DEF Polite
    <3>3. \A i, j \in DOMAIN queue' :
            queue'[i] = Life!Shutdown /\ i < j /\ IsRequest(queue'[j]) => queue'[j].late = TRUE
      BY <1>5, <2>1, <2>3, <2>4, <3>1 DEF Polite
    <3>4. Stopped' => Exiting' /\ AllLate'
      BY <1>4, <1>5, <2>3, <2>4, <3>1 DEF Polite, AllLate, RequestsIn
    <3> QED
      BY <3>2, <3>3, <3>4 DEF Polite
  <2> QED
    BY <1>1, <1>4, <1>7, <2>2, <2>5 DEF IInv
<1> QED
  BY <1>1, <1>2, <1>6, <1>7 DEF Post

LEMMA NextIInv == IInv /\ [Next]_vars => IInv'
<1> SUFFICES ASSUME IInv, [Next]_vars PROVE IInv'
  OBVIOUS
<1>1. CASE Process
  BY <1>1, ProcessSteps, GoesIInv, ReportsIInv, InterruptsIInv, DispatchesIInv
<1>2. CASE Receive
  BY <1>2, ReceiveIInv
<1>3. CASE Serve
  BY <1>3, ServeIInv
<1>4. CASE DumpCommand \/ UNCHANGED vars
  <2>1. /\ UNCHANGED <<queue, received, served, signals, pc, running, nua>>
        /\ fault' = fault \/ (fault = "none" /\ pc = "loop")
    BY <1>4 DEF DumpCommand, Life!At, vars, lifeVars, requestVars
  <2>2. TypeOK'
    BY <2>1 DEF IInv, TypeOK
  <2>3. fault' = "none" => Counted'
    BY <2>1 DEF IInv, Counted, RequestsIn
  <2>4. Exiting' = Exiting /\ Stopped' = Stopped /\ AllLate' = AllLate
    BY <2>1 DEF Exiting, Stopped, AllLate, RequestsIn
  <2>5. signals' = MaxSignals => Polite'
    BY <2>1, <2>4 DEF IInv, Polite
  <2> QED
    BY <2>1, <2>2, <2>3, <2>4, <2>5 DEF IInv
<1> QED
  BY <1>1, <1>2, <1>3, <1>4 DEF Next

LEMMA Invariance == Spec => []IInv
  BY InitIInv, NextIInv, PTL DEF Spec

-----------------------------------------------------------------------------
(* The properties of the run `system' that no fairness is needed for. *)

\* The queue has what the actors post, and main handles no request that was
\* not received.
THEOREM TypeCorrect == Spec => []TypeOK
<1>1. IInv => TypeOK
  BY DEF IInv
<1> QED
  BY <1>1, Invariance, PTL

\* If no signal came, the requests main never handled are those that came
\* after "exit", for any number of requests and whatever is in the queue.
THEOREM ExitIsPolite == Spec => []HandledBeforeExit
<1>1. ASSUME IInv PROVE HandledBeforeExit
  <2> SUFFICES ASSUME pc = "EXIT_SUCCESS", signals = MaxSignals
               PROVE  received - served = Cardinality({i \in Requested : queue[i].late})
    BY DEF HandledBeforeExit
  <2>1. Counted /\ AllLate
    BY <1>1 DEF IInv, Polite, Stopped
  <2>2. {i \in Requested : queue[i].late} = RequestsIn(queue)
    BY <2>1 DEF AllLate, Requested, RequestsIn
  <2> QED
    BY <2>1, <2>2 DEF Counted
<1> QED
  BY <1>1, Invariance, PTL
-----------------------------------------------------------------------------
(* The registrar in the server: what EvsipRegistryProofs proves of it holds *)
(* here, since a handler is one of its steps and nothing else touches it.   *)
(* RegP is the registrar of the proofs, Reg that of Evsip.                  *)

RegP == INSTANCE EvsipRegistryProofs

\* As long as nothing went wrong, the registrar keeps its invariant.
ListOK == fault = "none" => RegP!IInv

LEMMA RegistryAssumptions ==
  /\ NULL \notin Host \cup User \cup Endp \cup Int
  /\ Requests \subseteq RegP!Request
  /\ AllocFault \subseteq {"clone", "strdup", "vector", "append"}
  /\ Word \in Nat /\ Word > 300
BY RegistryAssumption DEF Reg!Request, RegP!Request, Reg!Contact, RegP!Contact

LEMMA InitListOK == Init => ListOK
<1>1. Reg!Init => RegP!Init
  BY DEF Reg!Init, RegP!Init, Reg!NoInfo, RegP!NoInfo, Reg!NoReply, RegP!NoReply,
         Reg!Plain, RegP!Plain
<1> QED
  BY <1>1, RegP!InitIInv, RegistryAssumptions DEF Init, ListOK

LEMMA RegisterIsStep ==
  ASSUME NEW r \in Requests, Reg!Register(r)
  PROVE  RegP!Next
<1> USE DEF Reg!ExpTime, RegP!ExpTime, Reg!Complete, RegP!Complete, Reg!Looked, RegP!Looked,
            Reg!LookupFaults, RegP!LookupFaults, Reg!PassedOver, RegP!PassedOver,
            Reg!HostAt, RegP!HostAt, Reg!NotFound, RegP!NotFound, Reg!FoundAt, RegP!FoundAt,
            Reg!Answer, RegP!Answer, Reg!Printed, RegP!Printed, Reg!Plain, RegP!Plain,
            Reg!endpVars, RegP!endpVars, Reg!history, RegP!history,
            Reg!Unref, RegP!Unref, Reg!RemoveAt, RegP!RemoveAt
<1>1. Reg!RegisterMalformed(r) => RegP!RegisterMalformed(r)
  BY DEF Reg!RegisterMalformed, RegP!RegisterMalformed
<1>2. Reg!RegisterIncomplete(r) => RegP!RegisterIncomplete(r)
  BY DEF Reg!RegisterIncomplete, RegP!RegisterIncomplete
<1>3. Reg!RegisterWithoutContact(r) => RegP!RegisterWithoutContact(r)
  BY DEF Reg!RegisterWithoutContact, RegP!RegisterWithoutContact
<1>4. Reg!RegisterLookupFaults(r) => RegP!RegisterLookupFaults(r)
  BY DEF Reg!RegisterLookupFaults, RegP!RegisterLookupFaults
<1>5. Reg!RegisterCreateFails(r) => RegP!RegisterCreateFails(r)
  BY DEF Reg!RegisterCreateFails, RegP!RegisterCreateFails
<1>s. ASSUME NEW e, NEW c PROVE Reg!Store(e, c) => RegP!Store(e, c)
  BY DEF Reg!Store, RegP!Store, Reg!SetInfo, RegP!SetInfo, Reg!Strdup, RegP!Strdup,
         Reg!IsAttached, RegP!IsAttached, Reg!Listed, RegP!Listed, Reg!ToSet, RegP!ToSet,
         Reg!Add, RegP!Add, Reg!Appended, RegP!Appended, Reg!NotAppended, RegP!NotAppended,
         Reg!NoInfo, RegP!NoInfo
<1>6. ASSUME NEW e \in Endp PROVE Reg!RegisterNew(r, e) => RegP!RegisterNew(r, e)
  BY <1>s DEF Reg!RegisterNew, RegP!RegisterNew
<1>7. ASSUME NEW i \in DOMAIN gpEndpList
      PROVE  Reg!RegisterRefresh(r, i) => RegP!RegisterRefresh(r, i)
  BY <1>s DEF Reg!RegisterRefresh, RegP!RegisterRefresh
<1>8. ASSUME NEW i \in DOMAIN gpEndpList
      PROVE  Reg!RegisterRemove(r, i) => RegP!RegisterRemove(r, i)
  BY DEF Reg!RegisterRemove, RegP!RegisterRemove
<1>9. ASSUME NEW i \in DOMAIN gpEndpList
      PROVE  Reg!RegisterRemoveOwner(r, i) => RegP!RegisterRemoveOwner(r, i)
  BY DEF Reg!RegisterRemoveOwner, RegP!RegisterRemoveOwner
<1>10. Reg!RegisterRemoveUnknown(r) => RegP!RegisterRemoveUnknown(r)
  BY DEF Reg!RegisterRemoveUnknown, RegP!RegisterRemoveUnknown
<1>11. RegP!Register(r)
  BY <1>1, <1>2, <1>3, <1>4, <1>5, <1>6, <1>7, <1>8, <1>9, <1>10 DEF Reg!Register, RegP!Register
<1> QED
  BY <1>11 DEF RegP!Next

\* Nothing a dump reads is gone.
LEMMA ListNotGone == ASSUME ListOK, fault = "none" PROVE ~Reg!ListGone
  BY DEF ListOK, RegP!IInv, RegP!ListedReadable, RegP!Running, RegP!Listed, RegP!ToSet,
         Reg!ListGone, Reg!Listed, Reg!ToSet

\* The step of main on a request, for a registrar in order.
LEMMA HandlerSteps ==
  ASSUME IInv, ListOK, Serve
  PROVE  /\ RegP!Next /\ fault = "none"
         /\ Head(queue).event # "nua_i_register" => fault' = "none"
<1> DEFINE m == Head(queue)
<1>1. fault = "none" /\ Handler(m) /\ m \in Stop \cup Request /\ IsRequest(m)
  <2>1. queue \in Seq(Stop \cup Request) /\ queue # <<>>
    BY QueueType DEF IInv, Serve
  <2> QED
    BY <2>1 DEF Serve, Life!At
<1>2. m \in Request
  BY <1>1 DEF Stop, IsRequest
<1>3. CASE m.event = "nua_i_register" /\ Reg!Register(m.request)
  <2>1. m.request \in Requests
    BY <1>2, <1>3 DEF Request
  <2> QED
    BY <1>1, <1>3, <2>1, RegisterIsStep
<1>4. CASE m.event = "nua_i_invite" /\ Reg!Invite
  <2>1. fault' = "none"
    BY <1>1, <1>4, ListNotGone DEF Reg!Invite, Reg!DumpList
  <2>2. RegP!Invite
    BY <1>4 DEF Reg!Invite, RegP!Invite, Reg!NoReply, RegP!NoReply, Reg!Plain, RegP!Plain,
       Reg!DumpList, RegP!DumpList, Reg!ListGone, RegP!ListGone, Reg!Listed, RegP!Listed,
       Reg!ToSet, RegP!ToSet, Reg!endpVars, RegP!endpVars, Reg!history, RegP!history
  <2> QED
    BY <1>1, <1>4, <2>1, <2>2 DEF RegP!Next
<1> QED
  BY <1>1, <1>3, <1>4 DEF Handler

\* The other steps leave the registrar alone and break nothing it has.
LEMMA OtherSteps ==
  ASSUME ListOK, Process \/ Receive \/ DumpCommand
  PROVE  UNCHANGED regVars /\ fault = "none" /\ fault' \in {"none", "dead_root"}
<1> USE DEF Life!At, Life!Alive, Life!Fails, Life!mainVars, Life!loopVars
<1>1. CASE DumpCommand
  BY <1>1, ListNotGone DEF DumpCommand, Reg!DumpList
<1>2. CASE Receive
  BY <1>2 DEF Receive, Post
<1>3. CASE Process
  <2>1. CASE Life!Args \/ Life!CliInit \/ Life!ConfigInit \/ Life!ConfigStartParse \/ Life!MemInit
               \/ Life!RootCreate \/ Life!NuaCreate \/ Life!SigInit \/ Life!SigContext
               \/ Life!CliStart \/ Life!Start \/ Life!RootRun
    BY <1>3, <2>1 DEF Process,
                Life!Args, Life!CliInit, Life!ConfigInit, Life!ConfigStartParse, Life!MemInit,
                Life!RootCreate, Life!NuaCreate, Life!SigInit, Life!Sigaction, Life!SigContext,
                Life!CliStart, Life!Start, Life!RootRun
  <2>2. CASE Life!Dispatch \/ Life!LoopEnds \/ Life!CliStop
               \/ Life!CliDeinit \/ Life!ConfigDeinit \/ Life!Deinit \/ Life!ReturnFailure
    BY <1>3, <2>2 DEF Process,
                Life!Dispatch, Life!Stops, Life!LoopEnds, Life!CliStop, Life!CliDeinit,
                Life!ConfigDeinit, Life!Deinit, Life!ReturnFailure
  <2>3. CASE Life!ExitCommand \/ Life!NuaProgress \/ Life!NuaDown
    BY <1>3, <2>3 DEF Process, Life!ExitCommand, Life!NuaProgress, Life!NuaDown
  <2>4. CASE Life!SignalArrives
    BY <1>3, <2>4 DEF Process,
                Life!SignalArrives, Life!SignalDefault, Life!SignalBeforeContext,
                Life!SignalOnMain, Life!SignalOnNua, Life!SignalOnDeadRoot
  <2> QED
    BY <1>3, <2>1, <2>2, <2>3, <2>4 DEF Process, Life!Next, Life!Main
<1> QED
  BY <1>1, <1>2, <1>3

LEMMA NextListOK == IInv /\ ListOK /\ [Next]_vars => ListOK'
<1> SUFFICES ASSUME IInv, ListOK, [Next]_vars, fault' = "none" PROVE RegP!IInv'
  BY DEF ListOK
<1>1. CASE Serve
  BY <1>1, HandlerSteps, RegP!NextIInv, RegistryAssumptions DEF ListOK
<1>2. CASE Process \/ Receive \/ DumpCommand \/ UNCHANGED vars
  <2>1. UNCHANGED regVars /\ fault = "none"
    BY <1>2, OtherSteps DEF vars
  <2>2. RegP!IInv /\ UNCHANGED RegP!vars
    BY <2>1 DEF ListOK, regVars, RegP!vars, RegP!endpVars, RegP!history
  <2> QED
    BY <2>2, RegP!NextIInv, RegistryAssumptions
<1> QED
  BY <1>1, <1>2 DEF Next

\* A command or an INVITE that reads the list never finds it gone, whatever
\* was registered and removed before and whichever allocations failed.
THEOREM ReadersAreSafe == Spec => OnlyRegisterBreaks
<1>1. Spec => []IInv
  BY Invariance
<1>2. Spec => []ListOK
  BY InitListOK, NextListOK, <1>1, PTL DEF Spec
<1>3. IInv /\ ListOK /\ [Next]_vars =>
        [fault = "none" /\ fault' \in {"use_after_free", "null_deref"} =>
           served' = served + 1 /\ Head(queue).event = "nua_i_register"]_vars
  <2> SUFFICES ASSUME IInv, ListOK, Next, fault' \in {"use_after_free", "null_deref"}
               PROVE  served' = served + 1 /\ Head(queue).event = "nua_i_register"
    OBVIOUS
  <2>1. Serve
    BY OtherSteps DEF Next
  <2>2. served' = served + 1
    BY <2>1 DEF Serve
  <2> QED
    BY <2>1, <2>2, HandlerSteps
<1> QED
  BY <1>1, <1>2, <1>3, PTL DEF Spec, OnlyRegisterBreaks
-----------------------------------------------------------------------------
(* The server as SipServer sees it. *)

\* What main has prepared when it makes the calls from nua_create on, and
\* never takes back once it has come to the loop.
Prepared ==
  /\ pc \in {"nua_create", "sigaction_int", "sigaction_term", "su_root_task", "evsip_cli_start",
             "evsip_start", "su_root_run", "loop", "evsip_cli_stop", "EXIT_SUCCESS"} => root = "up"
  /\ pc \in {"sigaction_term", "su_root_task", "evsip_cli_start",
             "evsip_start", "su_root_run", "loop", "evsip_cli_stop", "EXIT_SUCCESS"} =>
       "SIGINT" \in handlers
  /\ pc \in {"su_root_task", "evsip_cli_start",
             "evsip_start", "su_root_run", "loop", "evsip_cli_stop", "EXIT_SUCCESS"} =>
       "SIGTERM" \in handlers
  /\ pc \in {"evsip_cli_start",
             "evsip_start", "su_root_run", "loop", "evsip_cli_stop", "EXIT_SUCCESS"} => sigCtx

\* Without the loop nothing is registered and nothing answered.
CameToLoop == {"loop", "evsip_cli_stop", "EXIT_SUCCESS"}
Untouched == pc \notin CameToLoop => gpEndpList = <<>> /\ reply.sent = <<>>

\* What SipServer does in the steps that are not requests.
PhaseMoves ==
  \/ Phase' = Phase
  \/ Phase = "starting" /\ Phase' \in {"serving", "failed", "dead"}
  \/ Phase = "serving" /\ Phase' = "stopped"
  \/ Phase = "failed" /\ Phase' = "dead"

LEMMA InitServer == Init => Prepared /\ Untouched
BY DEF Init, Life!Init, Reg!Init, Reg!NoReply, Reg!Plain, Prepared, Untouched

LEMMA ProcessMoves ==
  ASSUME Prepared, Untouched, Process
  PROVE  Prepared' /\ (pc' \notin CameToLoop => pc \notin CameToLoop) /\ PhaseMoves
         /\ (fault' # fault => pc \notin CameToLoop)
<1> USE DEF Life!At, Life!Alive, Life!Fails, Life!LEAVE_ERROR, Life!mainVars, Life!loopVars,
            Life!Startup, Life!Ended, CameToLoop
<1>1. CASE Life!Args \/ Life!CliInit \/ Life!ConfigInit \/ Life!ConfigStartParse \/ Life!MemInit
             \/ Life!RootCreate \/ Life!NuaCreate
  <2>1. /\ pc \in {"evsip_args", "evsip_cli_init", "evsip_config_init",
                   "evsip_config_start_parse", "evsip_mem_init", "su_root_create", "nua_create"}
        /\ pc' \in {"evsip_cli_init", "evsip_config_init", "evsip_config_start_parse",
                    "evsip_mem_init", "su_root_create", "evsip_cli_deinit"}
           \/ (pc' = "nua_create" /\ root' = "up")
           \/ (pc' = "sigaction_int" /\ pc = "nua_create" /\ root' = root)
        /\ fault = "none" /\ fault' = "none"
    BY <1>1 DEF Life!Args, Life!CliInit, Life!ConfigInit, Life!ConfigStartParse, Life!MemInit,
                Life!RootCreate, Life!NuaCreate
  <2>2. Prepared'
    BY <2>1 DEF Prepared
  <2> QED
    BY <2>1, <2>2 DEF PhaseMoves, Phase
<1>2. CASE Life!SigInit \/ Life!SigContext \/ Life!CliStart \/ Life!Start \/ Life!RootRun
  <2>1. /\ UNCHANGED root /\ handlers \subseteq handlers' /\ (sigCtx => sigCtx')
        /\ \/ pc = "sigaction_int" /\ pc' = "sigaction_term" /\ "SIGINT" \in handlers'
           \/ pc = "sigaction_term" /\ pc' = "su_root_task" /\ "SIGTERM" \in handlers'
           \/ pc = "su_root_task" /\ pc' = "evsip_cli_start" /\ sigCtx'
           \/ pc = "evsip_cli_start" /\ pc' = "evsip_start"
           \/ pc = "evsip_start" /\ pc' = "su_root_run"
           \/ pc = "su_root_run" /\ pc' = "loop"
           \/ pc \in {"sigaction_int", "sigaction_term", "evsip_cli_start"}
              /\ pc' = "evsip_cli_deinit"
        /\ fault = "none" /\ fault' = "none"
    BY <1>2 DEF Life!SigInit, Life!Sigaction, Life!SigContext, Life!CliStart, Life!Start,
                Life!RootRun
  <2>2. Prepared'
    BY <2>1 DEF Prepared
  <2> QED
    BY <2>1, <2>2 DEF PhaseMoves, Phase
<1>3. CASE \/ Life!Dispatch \/ Life!LoopEnds \/ Life!CliStop
           \/ Life!ExitCommand \/ Life!NuaProgress \/ Life!NuaDown
  <2>1. /\ UNCHANGED <<root, handlers, sigCtx>>
        /\ \/ pc' = pc
           \/ pc = "loop" /\ pc' = "evsip_cli_stop"
           \/ pc = "evsip_cli_stop" /\ pc' = "EXIT_SUCCESS"
        /\ fault = "none" /\ fault' = "none"
    BY <1>3 DEF Life!Dispatch, Life!Stops, Life!LoopEnds, Life!CliStop, Life!ExitCommand,
                Life!NuaProgress, Life!NuaDown
  <2>2. Prepared'
    BY <2>1 DEF Prepared
  <2> QED
    BY <2>1, <2>2 DEF PhaseMoves, Phase
<1>4. CASE Life!CliDeinit \/ Life!ConfigDeinit \/ Life!Deinit \/ Life!ReturnFailure
  <2>1. /\ pc \in {"evsip_cli_deinit", "evsip_config_deinit", "evsip_deinit", "return"}
        /\ pc' \in {"aborted", "evsip_config_deinit", "evsip_deinit", "return", "EXIT_FAILURE"}
        /\ fault = "none" /\ fault' = "none"
    BY <1>4 DEF Life!CliDeinit, Life!ConfigDeinit, Life!Deinit, Life!ReturnFailure
  <2>2. Prepared'
    BY <2>1 DEF Prepared
  <2> QED
    BY <2>1, <2>2 DEF PhaseMoves, Phase
<1>5. CASE Life!SignalArrives
  <2>1. fault = "none" /\ pc \notin Life!Ended
    BY <1>5 DEF Life!SignalArrives
  <2>2. PICK s \in {"SIGINT", "SIGTERM"} :
          \/ Life!SignalDefault(s) \/ Life!SignalBeforeContext(s) \/ Life!SignalOnMain(s)
          \/ Life!SignalOnNua(s) \/ Life!SignalOnDeadRoot(s)
    BY <1>5 DEF Life!SignalArrives, Life!Signal
  <2>3. /\ UNCHANGED <<root, handlers, sigCtx>>
        /\ \/ pc' = pc /\ fault' = "none"
           \/ s \notin handlers /\ pc' = "killed" /\ fault' = "none"
           \/ ~sigCtx /\ pc' \in {pc, "aborted"} /\ fault' = "none"
           \/ root = "destroyed" /\ pc' = pc /\ fault' = "dead_root"
    BY <2>1, <2>2 DEF Life!SignalDefault, Life!SignalBeforeContext, Life!SignalOnMain,
       Life!SignalOnNua, Life!SignalOnDeadRoot
  <2>4. pc' = pc \/ pc' \in {"killed", "aborted"}
    BY <2>3
  <2>5. pc \in CameToLoop => pc' = pc /\ fault' = "none"
    BY <2>2, <2>3 DEF Prepared
  <2>6. Prepared'
    BY <2>3, <2>4 DEF Prepared
  <2>7. PhaseMoves
    BY <2>1, <2>3, <2>4, <2>5 DEF PhaseMoves, Phase
  <2> QED
    BY <2>1, <2>4, <2>5, <2>6, <2>7
<1> QED
  BY <1>1, <1>2, <1>3, <1>4, <1>5 DEF Process, Life!Next, Life!Main

\* What the service shows does not change with the phase: what was bound stays,
\* and where a fault takes everything there was nothing.
LEMMA ShowsTheSame ==
  ASSUME UNCHANGED regVars,
         fault' = fault \/ (gpEndpList = <<>> /\ reply.sent = <<>>)
  PROVE  UNCHANGED <<Reg!Bound, Reg!FinalAnswer>>
<1> USE DEF Reg!Bound, Reg!FinalAnswer, Reg!Serving, Reg!Running, Reg!Listed, regVars
<1>1. CASE fault' = fault
  BY <1>1
<1>2. CASE gpEndpList = <<>> /\ reply.sent = <<>>
  <2>1. Reg!ToSet(gpEndpList) = {} /\ Reg!ToSet(gpEndpList)' = {}
    BY <1>2 DEF Reg!ToSet
  <2>2. Reg!Bound = Reg!Bindings(info, {}) /\ Reg!Bound' = Reg!Bindings(info, {})
    BY <2>1 DEF Reg!Bindings
  <2> QED
    BY <1>2, <2>2
<1> QED
  BY <1>1, <1>2

\* The two views of the registrar, here and in its proofs, are one.
LEMMA OneView ==
  /\ Reg!Bound = RegP!Bound /\ Reg!FinalAnswer = RegP!FinalAnswer
  /\ Reg!Serving = RegP!Serving
BY DEF Reg!Bound, RegP!Bound, Reg!FinalAnswer, RegP!FinalAnswer, Reg!Serving, RegP!Serving,
       Reg!Running, RegP!Running, Reg!Listed, RegP!Listed, Reg!ToSet, RegP!ToSet,
       Reg!Bindings, RegP!Bindings, Reg!Last, RegP!Last

LEMMA OneViewNext ==
  /\ Reg!Bound' = RegP!Bound' /\ Reg!FinalAnswer' = RegP!FinalAnswer'
  /\ Reg!Serving' = RegP!Serving'
BY DEF Reg!Bound, RegP!Bound, Reg!FinalAnswer, RegP!FinalAnswer, Reg!Serving, RegP!Serving,
       Reg!Running, RegP!Running, Reg!Listed, RegP!Listed, Reg!ToSet, RegP!ToSet,
       Reg!Bindings, RegP!Bindings, Reg!Last, RegP!Last

\* A step of the location service that leaves it alive is one in the phase
\* "serving".
LEMMA ServiceInPhase ==
  ASSUME RegP!Registrar!Next, RegP!Serving, RegP!Serving', Phase = "serving", Phase' = "serving"
  PROVE  Server!Location!Next
<1>1. /\ Reg!Bound = RegP!Bound /\ Reg!Bound' = RegP!Bound'
      /\ Reg!FinalAnswer' = RegP!FinalAnswer'
  BY OneView, OneViewNext
<1>2. ASSUME NEW h PROVE RegP!Registrar!Searchable(h) => Server!Location!Searchable(h)
  BY <1>1 DEF RegP!Registrar!Searchable, Server!Location!Searchable
<1>3. ASSUME NEW h, NEW u PROVE RegP!Registrar!Bind(h, u) => Server!Location!Bind(h, u)
  BY <1>1, <1>2 DEF RegP!Registrar!Bind, Server!Location!Bind
<1>4. ASSUME NEW h PROVE RegP!Registrar!Unbind(h) => Server!Location!Unbind(h)
  BY <1>1, <1>2 DEF RegP!Registrar!Unbind, Server!Location!Unbind,
     RegP!Registrar!Restrict, Server!Location!Restrict,
     RegP!Registrar!UserName, Server!Location!UserName
<1>5. ASSUME NEW c PROVE RegP!Registrar!Refuse(c) => Server!Location!Refuse(c)
  BY <1>1 DEF RegP!Registrar!Refuse, Server!Location!Refuse,
     RegP!Registrar!NoAnswer, Server!Location!NoAnswer
<1>6. RegP!Registrar!Ignore => Server!Location!Ignore
  BY <1>1 DEF RegP!Registrar!Ignore, Server!Location!Ignore,
     RegP!Registrar!NoAnswer, Server!Location!NoAnswer
<1>7. ~RegP!Registrar!Die
  BY DEF RegP!Registrar!Die
<1> QED
  BY <1>3, <1>4, <1>5, <1>6, <1>7 DEF RegP!Registrar!Next, Server!Location!Next,
     RegP!Registrar!HostKey, Server!Location!HostKey,
     RegP!Registrar!UserName, Server!Location!UserName

\* As long as nothing went wrong, the location service is at work.
Serves == fault = "none" => RegP!NullAlone /\ lost = {} /\ starved = FALSE

LEMMA InitServes == Init => Serves
BY DEF Init, Reg!Init, Serves, RegP!NullAlone

LEMMA ServeMoves ==
  ASSUME AllocFault = {}, IInv, ListOK, Serves, Serve
  PROVE  Serves' /\ [Server!Next]_(Server!vars)
<1>1. RegP!Next /\ fault = "none" /\ pc = "loop" /\ pc' = "loop" /\ UNCHANGED <<root, handlers, sigCtx>>
  BY HandlerSteps DEF Serve, Life!At, lifeVars
<1>2. RegP!IInv /\ RegP!NullAlone /\ lost = {} /\ starved = FALSE
  BY <1>1 DEF ListOK, Serves
<1>3. RegP!NullAlone' /\ [RegP!Registrar!Next]_<<RegP!Bound, RegP!FinalAnswer, ~RegP!Serving>>
  BY <1>1, <1>2, RegP!StepServes, RegistryAssumptions
<1>4. lost' = {} /\ starved' = FALSE
  BY <1>1, <1>2, RegP!NothingLost, RegistryAssumptions
<1>5. Serves'
  BY <1>3, <1>4 DEF Serves
<1>6. Phase = "serving" /\ RegP!Serving
  BY <1>1, <1>2 DEF Phase, Life!Startup, RegP!Serving, RegP!Running
<1>7. CASE fault' = "none"
  <2>1. Phase' = "serving" /\ RegP!Serving'
    BY <1>1, <1>4, <1>7 DEF Phase, Life!Startup, RegP!Serving, RegP!Running
  <2>2. CASE RegP!Registrar!Next
    BY <1>5, <1>6, <2>1, <2>2, ServiceInPhase DEF Server!Next, Server!Serve
  <2>3. CASE UNCHANGED <<RegP!Bound, RegP!FinalAnswer, ~RegP!Serving>>
    BY <1>5, <1>6, <2>1, <2>3, OneView, OneViewNext DEF Server!vars
  <2> QED
    BY <1>3, <1>5, <2>2, <2>3
<1>8. CASE fault' # "none"
  <2>1. Phase' = "dead" /\ ~RegP!Serving'
    BY <1>8 DEF Phase, RegP!Serving, RegP!Running
  <2>2. RegP!Registrar!Die
    BY <2>1, RegP!Dies, RegistryAssumptions
  <2>3. Server!Location!Die
    BY <2>1, <2>2, OneViewNext DEF RegP!Registrar!Die, Server!Location!Die,
       RegP!Registrar!NoAnswer, Server!Location!NoAnswer
  <2> QED
    BY <1>5, <1>6, <2>1, <2>3 DEF Server!Next, Server!Serve, Server!Location!Next
<1> QED
  BY <1>7, <1>8

ServerInv == Prepared /\ Untouched /\ Serves

LEMMA ServerSteps ==
  ASSUME AllocFault = {}, IInv, ListOK, ServerInv, [Next]_vars
  PROVE  ServerInv' /\ [Server!Next]_(Server!vars)
<1>1. CASE Serve
  <2>1. /\ UNCHANGED <<pc, root, handlers, sigCtx>> /\ pc = "loop"
    BY <1>1 DEF Serve, Life!At, lifeVars
  <2>2. Prepared' /\ Untouched'
    BY <2>1 DEF ServerInv, Prepared, Untouched, CameToLoop
  <2> QED
    BY <1>1, <2>2, ServeMoves DEF ServerInv
<1>2. CASE Process \/ Receive \/ DumpCommand \/ UNCHANGED vars
  <2>1. /\ UNCHANGED regVars /\ (fault' = "none" => fault = "none")
        /\ fault = "none" \/ UNCHANGED vars
    BY <1>2, OtherSteps DEF vars
  <2>2. /\ Prepared' /\ (pc' \notin CameToLoop => pc \notin CameToLoop) /\ PhaseMoves
        /\ (fault' # fault => pc \notin CameToLoop)
    <3>1. CASE Process
      BY <3>1, ProcessMoves DEF ServerInv
    <3>2. CASE Receive \/ DumpCommand
      <4>1. UNCHANGED <<pc, root, handlers, sigCtx>> /\ fault = "none" /\ pc \notin Life!Ended
        BY <3>2 DEF Receive, DumpCommand, lifeVars, Life!Alive, Life!At, Life!Ended
      <4>2. fault' = fault \/ root # "up"
        BY <3>2, <4>1, ListNotGone DEF Receive, Post, DumpCommand, Reg!DumpList
      <4>3. fault' # fault => pc \notin CameToLoop
        BY <4>2 DEF ServerInv, Prepared, CameToLoop
      <4>4. Prepared'
        BY <4>1 DEF ServerInv, Prepared
      <4>5. PhaseMoves
        BY <4>1, <4>3 DEF PhaseMoves, Phase, Life!Ended, CameToLoop
      <4> QED
        BY <4>1, <4>3, <4>4, <4>5
    <3>3. CASE UNCHANGED vars
      BY <3>3 DEF vars, lifeVars, ServerInv, Prepared, PhaseMoves, Phase
    <3> QED
      BY <1>2, <3>1, <3>2, <3>3
  <2>3. UNCHANGED <<gpEndpList, reply, info, lost, starved>>
    BY <2>1 DEF regVars
  <2>4. Untouched'
    BY <2>2, <2>3 DEF ServerInv, Untouched
  <2>5. Serves'
    BY <2>1, <2>3 DEF ServerInv, Serves, RegP!NullAlone, RegP!Serving, RegP!Running, RegP!HostAt
  <2>6. UNCHANGED <<Reg!Bound, Reg!FinalAnswer>>
    BY <2>1, <2>2, ShowsTheSame DEF ServerInv, Untouched
  <2>7. [Server!Next]_(Server!vars)
    BY <2>2, <2>6 DEF PhaseMoves, Server!Next, Server!Ready, Server!GiveUp, Server!Stop, Server!Die,
       Server!vars
  <2> QED
    BY <2>2, <2>4, <2>5, <2>7 DEF ServerInv
<1> QED
  BY <1>1, <1>2 DEF Next

\* As long as memory lasts, every step of the process is one of SipServer or
\* none: it answers and binds as a location service does, only in the loop,
\* and dies only at a request, while it starts or after a failed start.  (That
\* a start comes to an end is SipServer's fairness and not claimed here.)
THEOREM ProcessIsSipServer ==
  ASSUME AllocFault = {}
  PROVE  Spec => Server!Init /\ [][Server!Next]_(Server!vars)
<1>1. Init => IInv /\ ListOK /\ ServerInv
  BY InitIInv, InitListOK, InitServer, InitServes DEF ServerInv
<1>2. Init => Server!Init
  <2> SUFFICES ASSUME Init PROVE Server!Init
    OBVIOUS
  <2>1. /\ pc = "evsip_args" /\ fault = "none" /\ gpEndpList = <<>> /\ reply.sent = <<>>
    BY DEF Init, Life!Init, Reg!Init, Reg!NoReply, Reg!Plain
  <2>2. Phase = "starting"
    BY <2>1 DEF Phase, Life!Startup
  <2>3. Reg!ToSet(gpEndpList) = {}
    BY <2>1 DEF Reg!ToSet
  <2>4. Reg!Bound = [h \in {} |-> NULL] /\ Reg!FinalAnswer = Server!Location!NoAnswer
    BY <2>1, <2>3 DEF Reg!Bound, Reg!Bindings, Reg!Listed, Reg!FinalAnswer, Server!Location!NoAnswer
  <2> QED
    BY <2>2, <2>4 DEF Server!Init, Server!Location!Init
<1>3. IInv /\ ListOK /\ ServerInv /\ [Next]_vars =>
        ServerInv' /\ [Server!Next]_(Server!vars)
  BY ServerSteps
<1> QED
  BY <1>1, <1>2, <1>3, NextIInv, NextListOK, PTL DEF Spec
=============================================================================
