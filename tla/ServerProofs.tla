---------------------------- MODULE ServerProofs ----------------------------
(***************************************************************************)
(* Proofs about Server, for any processes, queues, policies and bounds.    *)
(* The channels of the clients are accounted for by an invariant that says *)
(* who is responsible for closing each of them: the watcher, once the      *)
(* process is in waits, or the step of a thread that has not been taken.   *)
(* The tables of its scheduler agree by the invariant of that module.  An  *)
(* event of a client is followed through the channel, the receiver and the *)
(* event queue to the tables: that gives what an exit leaves behind        *)
(* (ExitsClean) and what a client and the server know of each other        *)
(* (ClientsCorrect), and with what a round decides, whom CHPF and AWF let  *)
(* run (OsPriorityCorrect, ActiveCorrect).                                 *)
(***************************************************************************)
EXTENDS Server, LocalSchedulerProofs

Stages == {"out", "connected", "using", "exited", "crashed"}

Messages ==
  {ProcessCreate(p) : p \in Procs} \cup {ProcessDestroy(p) : p \in Procs}
  \cup {XQueueCreate(QueueOf(p), DeviceOf[QueueOf(p)]) : p \in Procs}
  \cup {XQueueReady(QueueOf(p)) : p \in Procs}
  \cup {XQueueIdle(QueueOf(p)) : p \in Procs}

RecvSteps ==
  {<<"receive">>} \cup ({"watch", "announce", "gone", "close"} \X Procs)

ChannelType ==
  /\ stage \in [Procs -> Stages]
  /\ channel \in Seq(Messages)
  /\ recv \in RecvSteps
  /\ waits \subseteq Procs /\ client_chans \subseteq Procs
  /\ watcher \in Procs \cup {NoPid}

(* A message that stands in the channel agrees with its sender: announced  *)
(* processes have started, those that said goodbye are gone.               *)
Truthful(e, stages) ==
  /\ e.type = "process_create" => stages[e.pid] # "out"
  /\ e.type = "process_destroy" => stages[e.pid] \in {"exited", "crashed"}

(* The threads of the server work on processes in the right state.         *)
ThreadsTruthful ==
  /\ \A i \in 1 .. Len(channel) : Truthful(channel[i], stage)
  /\ recv[1] = "watch" => stage[recv[2]] # "out"
  /\ recv[1] \in {"gone", "close"} => Dead(recv[2])
  /\ watcher # NoPid => Dead(watcher)

(* Every channel has somebody who will close it, and every process that is *)
(* watched has a channel or is dead.                                       *)
Accounted ==
  /\ \A p \in client_chans \cup waits : stage[p] # "out"
  /\ \A p \in client_chans :
       p \in waits \/ watcher = p \/ recv = <<"watch", p>> \/ recv = <<"gone", p>>
  /\ \A p \in waits : p \in client_chans \/ Dead(p)
  /\ recv[1] = "watch" => recv[2] \in client_chans \/ Dead(recv[2])

ChannelInv == ChannelType /\ ThreadsTruthful /\ Accounted

-----------------------------------------------------------------------------
(* The beginning: nobody has started.                                      *)
LEMMA ChannelInvInit == Init => ChannelInv
  BY DEF Init, ChannelInv, ChannelType, ThreadsTruthful, Accounted, Stages, RecvSteps,
         Dead, Truthful

(* A step of a client changes the stage of a process, and what has started *)
(* or died stays so.                                                       *)
Onward ==
  /\ stage' \in [Procs -> Stages]
  /\ \A p \in Procs : (stage[p] # "out" => stage'[p] # "out") /\ (Dead(p) => Dead(p)')

(* A client that goes on and sends what is true disturbs nothing: used for *)
(* Connect, CreateQueue, Submit, ReportIdle, ClientExecute, Exit, Crash.   *)
LEMMA ClientStep ==
  ASSUME ChannelInv, Onward, UNCHANGED serverVars,
         \/ UNCHANGED channel
         \/ \E e \in Messages : channel' = Append(channel, e) /\ Truthful(e, stage')
  PROVE  ChannelInv'
<1> USE DEF ChannelInv
<1>1. ChannelType'
  <2>1. channel' \in Seq(Messages)
    BY AppendProperties DEF ChannelType
  <2> QED BY <2>1 DEF ChannelType, Onward, serverVars
<1>2. \A i \in 1 .. Len(channel') : Truthful(channel'[i], stage')
  <2>1. \A i \in 1 .. Len(channel) : Truthful(channel[i], stage')
    <3> TAKE i \in 1 .. Len(channel)
    <3>1. channel[i] \in Messages BY DEF ChannelType
    <3>2. channel[i].type \in {"process_create", "process_destroy"} =>
            channel[i].pid \in Procs
      BY <3>1 DEF Messages, ProcessCreate, ProcessDestroy, XQueueCreate, XQueueReady, XQueueIdle
    <3>3. Truthful(channel[i], stage) BY DEF ThreadsTruthful
    <3> QED BY <3>2, <3>3 DEF Truthful, Onward, Dead
  <2>2. CASE UNCHANGED channel BY <2>1, <2>2
  <2>3. CASE \E e \in Messages : channel' = Append(channel, e) /\ Truthful(e, stage')
    <3>1. PICK e \in Messages : channel' = Append(channel, e) /\ Truthful(e, stage') BY <2>3
    <3>2. /\ Len(channel') = Len(channel) + 1
          /\ \A i \in 1 .. Len(channel) : channel'[i] = channel[i]
          /\ channel'[Len(channel) + 1] = e
      BY <3>1, AppendProperties DEF ChannelType
    <3>3. Len(channel) \in Nat BY DEF ChannelType
    <3> QED BY <2>1, <3>1, <3>2, <3>3
  <2> QED BY <2>2, <2>3
<1>3. ThreadsTruthful'
  <2>1. recv[1] \in {"watch", "gone", "close"} => recv[2] \in Procs
    BY DEF ChannelType, RecvSteps
  <2> QED BY <1>2, <2>1 DEF ThreadsTruthful, Onward, serverVars, ChannelType
<1>4. Accounted'
  <2>1. recv[1] = "watch" => recv[2] \in Procs BY DEF ChannelType, RecvSteps
  <2> QED BY <2>1 DEF Accounted, Onward, serverVars, ChannelType
<1> QED BY <1>1, <1>3, <1>4

-----------------------------------------------------------------------------
(* The steps of the clients, one by one.                                   *)
LEMMA ClientSteps ==
  ASSUME ChannelInv, NEW p \in Procs,
         \/ Connect(p) \/ CreateQueue(p) \/ Submit(p) \/ ReportIdle(p)
         \/ ClientExecute(p) \/ Exit(p) \/ Crash(p)
  PROVE  ChannelInv'
<1> USE DEF serverVars, ChannelInv
<1>1. CASE Connect(p)
  <2>1. ProcessCreate(p) \in Messages /\ Truthful(ProcessCreate(p), stage')
    BY <1>1 DEF Connect, Enters, Messages, Truthful, ProcessCreate, ChannelType
  <2>2. Onward
    BY <1>1 DEF Connect, Enters, Onward, Dead, ChannelType, Stages
  <2> QED BY <1>1, <2>1, <2>2, ClientStep DEF Connect, Send
<1>2. CASE CreateQueue(p)
  <2> DEFINE e == XQueueCreate(QueueOf(p), DeviceOf[QueueOf(p)])
  <2>1. e \in Messages /\ Truthful(e, stage')
    BY DEF Messages, Truthful, XQueueCreate
  <2>2. Onward
    BY <1>2 DEF CreateQueue, Enters, Onward, Dead, ChannelType, Stages
  <2> QED BY <1>2, <2>1, <2>2, ClientStep DEF CreateQueue, Send
<1>3. CASE Submit(p)
  <2>1. XQueueReady(QueueOf(p)) \in Messages /\ Truthful(XQueueReady(QueueOf(p)), stage')
    BY DEF Messages, Truthful, XQueueReady
  <2>2. Onward BY <1>3 DEF Submit, Onward, Dead, ChannelType
  <2> QED BY <1>3, <2>1, <2>2, ClientStep DEF Submit, Send
<1>4. CASE ReportIdle(p)
  <2>1. XQueueIdle(QueueOf(p)) \in Messages /\ Truthful(XQueueIdle(QueueOf(p)), stage')
    BY DEF Messages, Truthful, XQueueIdle
  <2>2. Onward BY <1>4 DEF ReportIdle, Onward, Dead, ChannelType
  <2> QED BY <1>4, <2>1, <2>2, ClientStep DEF ReportIdle, Send
<1>5. CASE ClientExecute(p)
  <2>1. Onward BY <1>5 DEF ClientExecute, Onward, Dead, ChannelType
  <2> QED BY <1>5, <2>1, ClientStep DEF ClientExecute
<1>6. CASE Exit(p)
  <2>1. ProcessDestroy(p) \in Messages /\ Truthful(ProcessDestroy(p), stage')
    BY <1>6 DEF Exit, Vanish, Enters, Messages, Truthful, ProcessDestroy, ChannelType
  <2>2. Onward
    BY <1>6 DEF Exit, Vanish, Enters, Alive, Onward, Dead, ChannelType, Stages
  <2> QED BY <1>6, <2>1, <2>2, ClientStep DEF Exit, Vanish, Send
<1>7. CASE Crash(p)
  <2>1. Onward
    BY <1>7 DEF Crash, Vanish, Enters, Alive, Onward, Dead, ChannelType, Stages
  <2> QED BY <1>7, <2>1, ClientStep DEF Crash, Vanish
<1> QED BY <1>1, <1>2, <1>3, <1>4, <1>5, <1>6, <1>7

(* Receive takes the first message, and what it begins is justified by it. *)
LEMMA ReceiveStep == ASSUME ChannelInv, Receive PROVE ChannelInv'
<1> USE DEF ChannelInv
<1>1. /\ channel # <<>> /\ channel' = Tail(channel) /\ UNCHANGED clientVars
      /\ UNCHANGED <<waits, watcher>> /\ recv = <<"receive">>
  BY DEF Receive, Receiving
<1>2. /\ channel' \in Seq(Messages) /\ Len(channel') = Len(channel) - 1
      /\ \A i \in 1 .. Len(channel') : channel'[i] = channel[i + 1]
      /\ Received \in Messages /\ Received = channel[1] /\ Len(channel) \in Nat \ {0}
  BY <1>1, HeadTailProperties, EmptySeq DEF ChannelType, Received
<1>3. \A i \in 1 .. Len(channel') : Truthful(channel'[i], stage')
  <2> TAKE i \in 1 .. Len(channel')
  <2>1. i + 1 \in 1 .. Len(channel) BY <1>2
  <2> QED BY <1>1, <1>2, <2>1 DEF ThreadsTruthful, clientVars
<1>4. Truthful(Received, stage)
  BY <1>2 DEF ThreadsTruthful
<1>5. Received.type \in {"process_create", "process_destroy"} => Received.pid \in Procs
  BY <1>2 DEF Messages, ProcessCreate, ProcessDestroy, XQueueCreate, XQueueReady, XQueueIdle
<1>6. stage' = stage BY <1>1 DEF clientVars
<1>7. CASE /\ Received.type = "process_create"
           /\ client_chans' = client_chans \cup {Received.pid}
           /\ recv' = <<"watch", Received.pid>>
  <2>1. ChannelType' BY <1>1, <1>2, <1>5, <1>6, <1>7 DEF ChannelType, RecvSteps
  <2>2. ThreadsTruthful'
    BY <1>1, <1>3, <1>4, <1>6, <1>7 DEF ThreadsTruthful, Truthful, Dead
  <2>3. Accounted'
    BY <1>1, <1>4, <1>6, <1>7 DEF Accounted, Truthful, Dead
  <2> QED BY <2>1, <2>2, <2>3
<1>8. CASE /\ Received.type = "process_destroy"
           /\ recv' = <<"close", Received.pid>> /\ UNCHANGED client_chans
  <2>1. ChannelType' BY <1>1, <1>2, <1>5, <1>6, <1>8 DEF ChannelType, RecvSteps
  <2>2. ThreadsTruthful'
    BY <1>1, <1>3, <1>4, <1>6, <1>8 DEF ThreadsTruthful, Truthful, Dead
  <2>3. Accounted'
    BY <1>1, <1>6, <1>8 DEF Accounted, Dead
  <2> QED BY <2>1, <2>2, <2>3
<1>9. CASE UNCHANGED <<client_chans, recv>>
  <2>1. ChannelType' BY <1>1, <1>2, <1>6, <1>9 DEF ChannelType
  <2>2. ThreadsTruthful' BY <1>1, <1>3, <1>6, <1>9 DEF ThreadsTruthful, Dead
  <2>3. Accounted' BY <1>1, <1>6, <1>9 DEF Accounted, Dead
  <2> QED BY <2>1, <2>2, <2>3
<1> QED BY <1>7, <1>8, <1>9 DEF Receive

(* The steps that follow, and those of the watcher: each hands the process *)
(* over to the next one who is responsible for it.                         *)
LEMMA HandOver ==
  ASSUME ChannelInv,
         AddWait \/ CleanUpProcess \/ Announce \/ ProcessTerminate \/ CloseTerminated
  PROVE  ChannelInv'
<1> USE DEF ChannelInv
<1>1. stage' = stage /\ channel' = channel
  BY DEF AddWait, CleanUpProcess, Announce, ProcessTerminate, CloseTerminated, clientVars
<1>2. \A i \in 1 .. Len(channel') : Truthful(channel'[i], stage')
  BY <1>1 DEF ThreadsTruthful
<1>3. recv[1] # "receive" => recv[2] \in Procs /\ recv = <<recv[1], recv[2]>>
  BY DEF ChannelType, RecvSteps
<1>4. CASE AddWait
  <2>1. ChannelType' BY <1>1, <1>3, <1>4 DEF ChannelType, AddWait, RecvSteps
  <2>2. ThreadsTruthful' BY <1>1, <1>2, <1>4 DEF ThreadsTruthful, AddWait, Dead
  <2>3. Accounted'
    <3>1. stage[recv[2]] # "out" BY <1>4 DEF AddWait, ThreadsTruthful
    <3>4. UNCHANGED <<client_chans, watcher>> BY <1>4 DEF AddWait
    <3>5. \A p \in client_chans : p \in waits \/ watcher = p \/ recv[2] = p
      BY DEF Accounted
    <3>2. CASE waits' = waits \cup {recv[2]}
      <4>1. recv[2] \in client_chans \/ Dead(recv[2]) BY <1>4 DEF AddWait, Accounted
      <4>2. \A p \in client_chans' : p \in waits' \/ watcher' = p
        BY <3>2, <3>4, <3>5
      <4> QED BY <1>1, <3>1, <3>2, <3>4, <4>1, <4>2, <1>4 DEF Accounted, Dead, AddWait
    <3>3. CASE recv' = <<"gone", recv[2]>> /\ UNCHANGED waits
      BY <1>1, <1>3, <1>4, <3>1, <3>3 DEF AddWait, Accounted, Dead
    <3> QED BY <1>4, <3>2, <3>3 DEF AddWait
  <2> QED BY <2>1, <2>2, <2>3
<1>5. CASE CleanUpProcess
  <2>1. ChannelType' BY <1>1, <1>3, <1>5 DEF ChannelType, CleanUpProcess, RecvSteps
  <2>2. ThreadsTruthful' BY <1>1, <1>2, <1>5 DEF ThreadsTruthful, CleanUpProcess, Dead
  <2>3. Accounted'
    BY <1>1, <1>3, <1>5 DEF CleanUpProcess, Accounted, ThreadsTruthful, Dead
  <2> QED BY <2>1, <2>2, <2>3
<1>6. CASE Announce
  <2>1. ChannelType' BY <1>1, <1>3, <1>6 DEF ChannelType, Announce, RecvSteps
  <2>2. ThreadsTruthful' BY <1>1, <1>2, <1>6 DEF ThreadsTruthful, Announce, Dead
  <2>3. Accounted' BY <1>1, <1>3, <1>6 DEF Announce, Accounted, Dead
  <2> QED BY <2>1, <2>2, <2>3
<1>7. CASE ProcessTerminate
  <2>1. PICK p \in waits : Dead(p) /\ waits' = waits \ {p} /\ watcher' = p
    BY <1>7 DEF ProcessTerminate
  <2>2. UNCHANGED <<recv, client_chans>> BY <1>7 DEF ProcessTerminate
  <2>3. ChannelType' BY <1>1, <2>1, <2>2 DEF ChannelType
  <2>4. ThreadsTruthful' BY <1>1, <1>2, <2>1, <2>2 DEF ThreadsTruthful, Dead
  <2>5. Accounted'
    <3>1. watcher = NoPid BY <1>7 DEF ProcessTerminate
    <3> QED BY <1>1, <2>1, <2>2, <3>1, PidAssumption DEF Accounted, Dead, ChannelType
  <2> QED BY <2>3, <2>4, <2>5
<1>8. CASE CloseTerminated
  <2>1. ChannelType' BY <1>1, <1>8 DEF ChannelType, CloseTerminated
  <2>2. ThreadsTruthful' BY <1>1, <1>2, <1>8 DEF ThreadsTruthful, CloseTerminated, Dead
  <2>3. Accounted'
    BY <1>1, <1>8 DEF CloseTerminated, Accounted, ThreadsTruthful, Dead
  <2> QED BY <2>1, <2>2, <2>3
<1> QED BY <1>4, <1>5, <1>6, <1>7, <1>8

(* All other steps are those of the scheduler and of time.                 *)
LEMMA ChannelInvStep == ASSUME ChannelInv, [Next]_vars PROVE ChannelInv'
<1>1. ASSUME UNCHANGED <<stage, channel, recv, waits, client_chans, watcher>>
      PROVE  ChannelInv'
  BY <1>1 DEF ChannelInv, ChannelType, ThreadsTruthful, Accounted, Dead, Truthful
<1>2. CASE \E p \in Procs : \/ Connect(p) \/ CreateQueue(p) \/ Submit(p) \/ ReportIdle(p)
                            \/ ClientExecute(p) \/ Exit(p) \/ Crash(p)
  BY <1>2, ClientSteps
<1>3. CASE RecvWorker \/ WaitWorker
  BY <1>3, ReceiveStep, HandOver DEF RecvWorker, WaitWorker
<1>4. CASE SendHint \/ SchedThread \/ Lone(Tick) \/ Terminating \/ UNCHANGED vars
  BY <1>1, <1>4 DEF SendHint, SchedThread, Lone, Execute, Terminating, vars, clientVars, serverVars
<1> QED BY <1>2, <1>3, <1>4 DEF Next

(* Whatever the order in which events, deaths and callbacks come, a server *)
(* at rest keeps exactly the channels of the living processes it watches.  *)
THEOREM ChannelsCorrect == Spec => []ChannelsReclaimed
<1>1. ChannelInv => ChannelsReclaimed
  <2> SUFFICES ASSUME ChannelInv, ServerAtRest
               PROVE  client_chans = waits /\ \A p \in client_chans : Alive(p)
    BY DEF ChannelsReclaimed
  <2>1. watcher = NoPid /\ recv = <<"receive">> /\ \A p \in waits : ~Dead(p)
    BY DEF ServerAtRest, Receiving
  <2>2. client_chans \subseteq waits
    BY <2>1, PidAssumption DEF ChannelInv, Accounted, ChannelType
  <2>3. waits \subseteq client_chans
    BY <2>1 DEF ChannelInv, Accounted
  <2>4. \A p \in client_chans : stage[p] \in Stages /\ stage[p] # "out"
    BY DEF ChannelInv, Accounted, ChannelType
  <2> QED BY <2>1, <2>2, <2>3, <2>4 DEF Alive, Dead, Stages
<1> QED BY <1>1, ChannelInvInit, ChannelInvStep, PTL DEF Spec

-----------------------------------------------------------------------------
(* Whatever is sent, and whatever the server adds, is a well-formed event. *)
LEMMA MessagesWellFormed == \A e \in Messages : WellFormed(e)
<1>1. \A p \in Procs : QueueOf(p) \in Queues
  <2> TAKE p \in Procs
  <2>1. \E q \in Queues : Pid[q] = p BY OneQueueEach DEF QueuesOf
  <2> QED BY <2>1 DEF QueueOf
<1>2. \A p \in Procs : WellFormed(ProcessCreate(p)) /\ WellFormed(ProcessDestroy(p))
  BY DEF WellFormed, ProcessCreate, ProcessDestroy
<1>3. ASSUME NEW q \in Queues, NEW d
      PROVE  /\ WellFormed(XQueueCreate(q, d))
             /\ WellFormed(XQueueReady(q)) /\ WellFormed(XQueueIdle(q))
  BY DEF WellFormed, XQueueCreate, XQueueReady, XQueueIdle
<1> QED BY <1>1, <1>2, <1>3 DEF Messages

TablesInv == ChannelInv /\ SchedInv

LEMMA TablesInvInit == Init => TablesInv
<1> SUFFICES ASSUME Init PROVE TablesInv OBVIOUS
<1>1. SchedInit /\ event_queue = <<>> BY DEF Init
<1> QED BY <1>1, NoEvents, SchedStarts, ChannelInvInit DEF TablesInv

LEMMA TablesInvStep == ASSUME TablesInv, [Next]_vars PROVE TablesInv'
<1>1. ChannelInv' BY ChannelInvStep DEF TablesInv
<1> SUFFICES SchedInv' BY <1>1 DEF TablesInv
<1>2. SchedInv BY DEF TablesInv
<1>3. ASSUME UNCHANGED schedVars PROVE SchedInv'
  BY <1>2, <1>3, Undisturbed DEF SchedInv, schedVars, policyVars, workerVars
<1>4. ASSUME NEW e, WellFormed(e), RecvEvent(e), OnlyEvents PROVE SchedInv'
  BY <1>2, <1>4, OneEvent, EventsCome DEF RecvEvent, OnlyEvents, policyVars, workerVars
<1>5. CASE \E p \in Procs : \/ Connect(p) \/ CreateQueue(p) \/ Submit(p) \/ ReportIdle(p)
                            \/ ClientExecute(p) \/ Exit(p) \/ Crash(p)
  BY <1>3, <1>5 DEF Connect, CreateQueue, Submit, ReportIdle, ClientExecute, Exit, Crash, Vanish
<1>6. CASE Receive
  <2>1. Received \in Messages
    BY <1>6, HeadTailProperties DEF TablesInv, ChannelInv, ChannelType, Receive, Received
  <2>2. WellFormed(Received) BY <2>1, MessagesWellFormed
  <2> QED BY <1>3, <1>4, <1>6, <2>2 DEF Receive
<1>7. CASE AddWait \/ CleanUpProcess \/ Announce
  <2>1. recv[1] \in {"watch", "announce"} => recv[2] \in Procs
    BY DEF TablesInv, ChannelInv, ChannelType, RecvSteps
  <2>2. \A p \in Procs : WellFormed(ProcessCreate(p)) /\ WellFormed(ProcessDestroy(p))
    BY DEF WellFormed, ProcessCreate, ProcessDestroy
  <2> QED BY <1>3, <1>4, <1>7, <2>1, <2>2 DEF AddWait, CleanUpProcess, Announce
<1>8. CASE WaitWorker
  <2>1. \A p \in waits : WellFormed(ProcessDestroy(p))
    BY DEF WellFormed, ProcessDestroy, TablesInv, ChannelInv, ChannelType
  <2> QED BY <1>3, <1>4, <1>8, <2>1 DEF WaitWorker, ProcessTerminate, CloseTerminated
<1>9. CASE SendHint
  <2>1. \A h : WellFormed(Hint(h)) BY DEF WellFormed, Hint
  <2> QED BY <1>4, <1>9, <2>1 DEF SendHint
<1>10. CASE SchedThread \/ Lone(Tick)
  <2>1. ASSUME NEW p \in Procs, Execute(p) PROVE SchedInv'
    BY <1>2, <2>1, Undisturbed DEF Execute, policyVars, SchedInv
  <2> QED BY <1>2, <1>10, <2>1, WorkerSteps, TickSteps DEF SchedThread, Lone
<1>11. CASE Terminating \/ UNCHANGED vars
  BY <1>3, <1>11 DEF Terminating, vars
<1> QED BY <1>5, <1>6, <1>7, <1>8, <1>9, <1>10, <1>11 DEF Next, RecvWorker

(* The tables of the scheduler of the server agree under every policy,     *)
(* whatever the clients send and in whatever order they die.               *)
THEOREM TablesCorrect == Spec => []TablesAgree
<1>1. TablesInv => TablesAgree BY DEF TablesInv, SchedInv
<1> QED BY <1>1, TablesInvInit, TablesInvStep, PTL DEF Spec

-----------------------------------------------------------------------------
(* What the server will know once it has worked through the events that    *)
(* are under way.  They stand in three queues, the newest in channel, then *)
(* event_queue, then tmp_queue; of those that matter to a question, a set  *)
(* S, the last one counts.                                                 *)
Events ==
  Messages
  \cup {[type |-> "ready", q |-> q, age |-> a] : q \in Queues, a \in Nat}
  \cup {Hint(Windows[n]) : n \in 1 .. Len(Windows)}

(* The events about a queue, and those that enter a process in the tables. *)
Concerns(q) == {e \in Events : e.type \in {"create", "ready", "idle"} /\ e.q = q}
Creates(q)  == {e \in Concerns(q) : e.type = "create"}
Shows(q, s) == {e \in Concerns(q) : e.type = "ready" <=> s = "Ready"}
Introduces(p) ==
  {e \in Events : \/ e.type = "process_create" /\ e.pid = p
                  \/ e.type \in {"create", "ready", "idle"} /\ Pid[e.q] = p}

LEMMA OlderEventSays ==
  ASSUME NEW e \in Events
  PROVE  /\ OlderEvent(e) \in Events /\ OlderEvent(e).type = e.type
         /\ e.type = "ready" => OlderEvent(e).q = e.q
         /\ e.type # "ready" => OlderEvent(e) = e
<1>1. CASE e.type # "ready" BY <1>1 DEF OlderEvent
<1>2. CASE e.type = "ready"
  <2>1. PICK q \in Queues, a \in Nat : e = [type |-> "ready", q |-> q, age |-> a]
    <3>1. \A p \in Procs : QueueOf(p) \in Queues
      <4> TAKE p \in Procs
      <4>1. \E q \in Queues : Pid[q] = p BY OneQueueEach DEF QueuesOf
      <4> QED BY <4>1 DEF QueueOf
    <3>2. CASE e \in Messages
      <4>1. PICK p \in Procs : e = XQueueReady(QueueOf(p))
        BY <1>2, <3>2 DEF Messages, ProcessCreate, ProcessDestroy, XQueueCreate, XQueueIdle
      <4> QED BY <3>1, <4>1 DEF XQueueReady
    <3> QED BY <1>2, <3>2 DEF Events, Hint
  <2>2. OlderEvent(e) = [type |-> "ready", q |-> q, age |-> Older(a)]
    BY <1>2, <2>1 DEF OlderEvent
  <2>3. Older(a) \in Nat BY DEF Older
  <2> QED BY <1>2, <2>1, <2>2, <2>3 DEF Events
<1> QED BY <1>1, <1>2

LEMMA OlderSays ==
  ASSUME NEW es \in Seq(Events), NEW S, NEW A,
         \A e \in Events : (OlderEvent(e) \in S <=> e \in S) /\ (OlderEvent(e) \in A <=> e \in A)
  PROVE  LET new == OlderEvents(es) IN
         /\ new \in Seq(Events)
         /\ Silent(new, S) <=> Silent(es, S)
         /\ LastIn(new, S, A) <=> LastIn(es, S, A)
         /\ FirstIn(new, S, A) <=> FirstIn(es, S, A)
  BY OlderKept, OlderEventSays

-----------------------------------------------------------------------------
LEMMA QueueOfEach ==
  ASSUME NEW p \in Procs
  PROVE  /\ QueueOf(p) \in Queues /\ Pid[QueueOf(p)] = p
         /\ \A q \in Queues : Pid[q] = p => q = QueueOf(p)
<1>1. PICK q \in Queues : QueuesOf(p) = {q} BY OneQueueEach
<1>2. q \in Queues /\ Pid[q] = p /\ \A r \in Queues : Pid[r] = p => r = q
  BY <1>1 DEF QueuesOf
<1>3. QueueOf(p) = q BY <1>2 DEF QueueOf
<1> QED BY <1>2, <1>3

LEMMA EventKinds ==
  ASSUME NEW e \in Events
  PROVE  /\ WellFormed(e)
         /\ e.type \in {"process_create", "process_destroy", "create", "ready", "idle", "hint"}
         /\ e.type = "process_destroy" => e = ProcessDestroy(e.pid)
         /\ e.type = "process_create" => e = ProcessCreate(e.pid)
<1>1. CASE e \in Messages
  <2>1. WellFormed(e) BY <1>1, MessagesWellFormed
  <2> QED BY <1>1, <2>1 DEF Messages, ProcessCreate, ProcessDestroy, XQueueCreate, XQueueReady,
           XQueueIdle
<1>2. CASE e \notin Messages
  BY <1>2 DEF Events, WellFormed, Hint, ProcessCreate, ProcessDestroy
<1> QED BY <1>1, <1>2

(* Which events belong to which question.                                  *)
LEMMA AboutProcesses ==
  ASSUME NEW p \in Procs
  PROVE  /\ ProcessCreate(p) \in Events /\ ProcessDestroy(p) \in Events
         /\ ProcessCreate(p) # ProcessDestroy(p)
         /\ \A q : ProcessCreate(p) \notin Concerns(q) /\ ProcessDestroy(p) \notin Concerns(q)
         /\ \A r \in Procs : /\ ProcessDestroy(p) \notin Introduces(r)
                             /\ r # p => /\ ProcessCreate(p) \notin Introduces(r)
                                         /\ ProcessCreate(p) # ProcessCreate(r)
                                         /\ ProcessDestroy(p) # ProcessDestroy(r)
         /\ \A n \in 1 .. Len(Windows) : Hint(Windows[n]) \in Events
         /\ \A h, q : Hint(h) \notin Concerns(q) /\ Hint(h) \notin Introduces(q)
<1>1. ProcessCreate(p) \in Events /\ ProcessDestroy(p) \in Events BY DEF Events, Messages
<1>2. \A n \in 1 .. Len(Windows) : Hint(Windows[n]) \in Events BY DEF Events
<1> QED BY <1>1, <1>2 DEF ProcessCreate, ProcessDestroy, Concerns, Introduces, Hint

LEMMA AboutQueues ==
  ASSUME NEW p \in Procs,
         NEW e, \/ e = XQueueCreate(QueueOf(p), DeviceOf[QueueOf(p)])
                \/ e = XQueueReady(QueueOf(p)) \/ e = XQueueIdle(QueueOf(p))
  PROVE  /\ e \in Events /\ e \in Concerns(QueueOf(p))
         /\ e.type = "create" <=> e \in Creates(QueueOf(p))
         /\ \A s : e \in Shows(QueueOf(p), s) <=> (e.type = "ready" <=> s = "Ready")
         /\ \A r \in Procs : /\ e # ProcessDestroy(r) /\ e # ProcessCreate(r)
                             /\ r # p => /\ e \notin Introduces(r)
                                         /\ e \notin Concerns(QueueOf(r))
<1>1. e \in Events BY DEF Events, Messages
<1>2. e.type \in {"create", "ready", "idle"} /\ e.q = QueueOf(p)
  BY DEF XQueueCreate, XQueueReady, XQueueIdle
<1>3. e \in Concerns(QueueOf(p)) BY <1>1, <1>2 DEF Concerns
<1>4. /\ e.type = "create" <=> e \in Creates(QueueOf(p))
      /\ \A s : e \in Shows(QueueOf(p), s) <=> (e.type = "ready" <=> s = "Ready")
  BY <1>3 DEF Creates, Shows
<1>5. \A r \in Procs : e # ProcessDestroy(r) /\ e # ProcessCreate(r)
  BY <1>2 DEF ProcessDestroy, ProcessCreate
<1>6. ASSUME NEW r \in Procs, r # p
      PROVE  e \notin Introduces(r) /\ e \notin Concerns(QueueOf(r))
  <2>1. QueueOf(r) # QueueOf(p) /\ Pid[QueueOf(p)] = p BY <1>6, QueueOfEach
  <2> QED BY <1>2, <1>6, <2>1 DEF Introduces, Concerns
<1> QED BY <1>1, <1>3, <1>4, <1>5, <1>6

(* Age changes none of this.                                               *)
LEMMA AboutOlder ==
  ASSUME NEW e \in Events
  PROVE  LET o == OlderEvent(e) IN
         /\ \A q \in Queues : \A s :
              /\ o \in Concerns(q) <=> e \in Concerns(q)
              /\ o \in Creates(q) <=> e \in Creates(q)
              /\ o \in Shows(q, s) <=> e \in Shows(q, s)
         /\ \A p \in Procs : /\ o \in Introduces(p) <=> e \in Introduces(p)
                             /\ o \in {ProcessDestroy(p)} <=> e \in {ProcessDestroy(p)}
<1> DEFINE o == OlderEvent(e)
<1>1. CASE e.type # "ready" BY <1>1, OlderEventSays
<1>2. CASE e.type = "ready"
  <2>1. o \in Events /\ o.type = "ready" /\ o.q = e.q BY <1>2, OlderEventSays
  <2> HIDE DEF o
  <2>2. \A q \in Queues : o \in Concerns(q) <=> e \in Concerns(q)
    BY <1>2, <2>1 DEF Concerns
  <2>3. \A q \in Queues : \A s :
          /\ o \in Creates(q) <=> e \in Creates(q)
          /\ o \in Shows(q, s) <=> e \in Shows(q, s)
    BY <1>2, <2>1, <2>2 DEF Creates, Shows
  <2>4. \A p \in Procs : o \in Introduces(p) <=> e \in Introduces(p)
    BY <1>2, <2>1 DEF Introduces
  <2>5. \A p \in Procs : o # ProcessDestroy(p) /\ e # ProcessDestroy(p)
    BY <1>2, <2>1 DEF ProcessDestroy
  <2> QED BY <2>2, <2>3, <2>4, <2>5 DEF o
<1> QED BY <1>1, <1>2

-----------------------------------------------------------------------------
(* What one event does to what the tables say of one process.              *)
LEMMA UpdateSays ==
  ASSUME SchedInv, NEW e \in Events, UpdateStatus(e), NEW p \in Procs
  PROVE  /\ e = ProcessDestroy(p) => p \notin procs'
         /\ p \notin procs /\ e \notin Introduces(p) => p \notin procs'
<1> USE DEF SchedInv, TableType
<1>1. CASE e.type = "process_destroy"
  <2>1. DestroyProcess(e.pid) /\ e.pid \in Procs
    BY <1>1, EventKinds DEF UpdateStatus, WellFormed
  <2>2. procs' = procs \ {e.pid} BY <2>1 DEF DestroyProcess, tableVars
  <2> QED BY <2>2 DEF ProcessDestroy
<1>2. CASE e.type = "process_create"
  <2>1. procs' = procs \cup {e.pid} BY <1>2 DEF UpdateStatus
  <2> QED BY <1>2, <2>1 DEF ProcessDestroy, Introduces
<1>3. CASE e.type \in {"create", "ready", "idle"}
  <2>1. procs' = procs \/ procs' = procs \cup {Pid[e.q]}
    BY <1>3 DEF UpdateStatus, Configured, BecomesReady, BecomesIdle, CreateXQueueStatus
  <2> QED BY <1>3, <2>1 DEF ProcessDestroy, Introduces
<1>4. CASE e.type = "hint"
  <2>1. procs' = procs BY <1>4 DEF UpdateStatus, tableVars
  <2> QED BY <1>4, <2>1 DEF ProcessDestroy
<1> QED BY <1>1, <1>2, <1>3, <1>4, EventKinds

(* ... and of its queue.                                                   *)
LEMMA UpdateSaysOfQueue ==
  ASSUME SchedInv, NEW e \in Events, UpdateStatus(e), NEW p \in Procs, NEW q,
         q = QueueOf(p), e # ProcessDestroy(p)
  PROVE  /\ q \in suspended' <=> q \in suspended
         /\ e \notin Concerns(q) => (q \in known' <=> q \in known) /\ (q \in ready' <=> q \in ready)
         /\ e \in Concerns(q) => q \in known'
         /\ e \in Concerns(q) /\ e.type = "ready" => q \in ready'
         /\ e \in Concerns(q) /\ (e.type = "create" => q \notin known) /\ e.type # "ready" =>
              q \notin ready'
<1> USE DEF SchedInv, TableType
<1>0. q \in Queues /\ Pid[q] = p BY QueueOfEach
<1>1. CASE e.type = "process_destroy"
  <2>1. DestroyProcess(e.pid) /\ e.pid \in Procs /\ e.pid # p
    BY <1>1, EventKinds DEF UpdateStatus, WellFormed
  <2>2. CASE e.pid \notin procs
    BY <1>1, <2>1, <2>2 DEF DestroyProcess, tableVars, Concerns
  <2>3. CASE e.pid \in procs
    <3>1. q \notin running[e.pid] \cup halted[e.pid] BY <1>0, <2>1 DEF TablesAgree
    <3>2. Forget(running[e.pid] \cup halted[e.pid]) BY <2>1, <2>3 DEF DestroyProcess
    <3> QED BY <1>1, <3>1, <3>2 DEF Forget, Concerns
  <2> QED BY <2>2, <2>3
<1>2. CASE e.type = "process_create"
  BY <1>2 DEF UpdateStatus, Concerns
<1>3. CASE e.type = "hint"
  BY <1>3 DEF UpdateStatus, tableVars, Concerns
<1>4. CASE e.type \in {"create", "ready", "idle"}
  <2>1. /\ e \in Concerns(q) <=> e.q = q
        /\ e.q \notin known => q \notin suspended \/ e.q # q
    BY <1>4 DEF Concerns, TablesAgree
  <2>2. CASE e.type = "create"
    <3>1. Configured(e.q, e.device) BY <2>2 DEF UpdateStatus
    <3> QED BY <2>1, <2>2, <3>1 DEF Configured, CreateXQueueStatus
  <2>3. CASE e.type = "ready"
    <3>1. BecomesReady(e.q, e.age) BY <2>3 DEF UpdateStatus
    <3> QED BY <2>1, <2>3, <3>1 DEF BecomesReady, CreateXQueueStatus
  <2>4. CASE e.type = "idle"
    <3>1. BecomesIdle(e.q) BY <2>4 DEF UpdateStatus
    <3> QED BY <2>1, <2>4, <3>1 DEF BecomesIdle, CreateXQueueStatus
  <2> QED BY <1>4, <2>2, <2>3, <2>4
<1> QED BY <1>1, <1>2, <1>3, <1>4, EventKinds

-----------------------------------------------------------------------------
(* The queues hold events, the worker has left none behind when it waits,  *)
(* and a process it is about to send an operation to has queues.           *)
PipeType ==
  /\ event_queue \in Seq(Events) /\ tmp_queue \in Seq(Events)
  /\ windows \in 0 .. Len(Windows)
  /\ sched_pc \in {"wait", "events", "execute", "end"}
  /\ sched_pc # "events" => tmp_queue = <<>>
  /\ sched_pc # "execute" => ops = {}

PipeInv == TablesInv /\ PipeType

LEMMA ChannelEvents == ASSUME TablesInv PROVE channel \in Seq(Events)
  BY SeqMonotonic DEF TablesInv, ChannelInv, ChannelType, Events

LEMMA Appended ==
  ASSUME NEW es \in Seq(Events), NEW e \in Events
  PROVE  es \o <<e>> = Append(es, e)
  OBVIOUS

(* The steps after which another event stands in event_queue.              *)
EventEnters(e) ==
  /\ e \in Events /\ event_queue' = Append(event_queue, e)
  /\ UNCHANGED <<tableVars, tmp_queue, sched_pc, ops>>

LEMMA ReceiveEnters ==
  ASSUME PipeInv, Receive
  PROVE  /\ channel # <<>> /\ channel' = Tail(channel) /\ Received \in Events
         /\ Received = Head(channel)
         /\ UNCHANGED <<tableVars, tmp_queue, sched_pc, ops, stage, xq_state, paused, inbox>>
         /\ client_chans \subseteq client_chans' /\ recv = <<"receive">>
         /\ \/ /\ Received = ProcessCreate(Received.pid) /\ Received.pid \in Procs
               /\ recv' = <<"watch", Received.pid>> /\ UNCHANGED event_queue
               /\ Received.pid \in client_chans'
            \/ /\ Received.type # "process_create" /\ EventEnters(Received)
               /\ recv'[1] \in {"receive", "close"}
<1>1. channel # <<>> /\ channel' = Tail(channel) /\ recv = <<"receive">>
  BY DEF Receive, Receiving
<1>2. Received \in Events /\ Received = Head(channel)
  BY <1>1, ChannelEvents, HeadTailProperties DEF PipeInv, Received
<1>3. event_queue \in Seq(Events) BY DEF PipeInv, PipeType
<1>4. CASE Received.type = "process_create"
  <2>1. Received = ProcessCreate(Received.pid) /\ Received.pid \in Procs
    BY <1>2, <1>4, EventKinds DEF WellFormed
  <2> QED BY <1>1, <1>2, <1>4, <2>1 DEF Receive, schedVars, workerVars, clientVars
<1>5. CASE Received.type # "process_create"
  <2>1. EventEnters(Received)
    BY <1>2, <1>3, <1>5, Appended
    DEF Receive, RecvEvent, RecvEvents, EventEnters, OnlyEvents, workerVars
  <2> QED BY <1>1, <1>2, <1>5, <2>1 DEF Receive, OnlyEvents, workerVars, clientVars
<1> QED BY <1>4, <1>5

(* What the other threads of the server enter.                             *)
LEMMA ServerEnters ==
  ASSUME PipeInv, AddWait \/ Announce \/ ProcessTerminate \/ SendHint
  PROVE  /\ UNCHANGED <<channel, stage, xq_state, paused, inbox, client_chans>>
         /\ \/ AddWait /\ recv' = <<"announce", recv[2]>> /\ UNCHANGED event_queue
               /\ UNCHANGED <<tableVars, tmp_queue, sched_pc, ops>>
            \/ /\ AddWait /\ recv' = <<"gone", recv[2]>> /\ recv[2] \in Procs /\ Dead(recv[2])
               /\ EventEnters(ProcessDestroy(recv[2]))
            \/ /\ Announce /\ recv[2] \in Procs /\ recv' = <<"receive">>
               /\ recv = <<"announce", recv[2]>>
               /\ EventEnters(ProcessCreate(recv[2]))
            \/ \E p \in Procs : /\ Dead(p) /\ EventEnters(ProcessDestroy(p))
                                /\ UNCHANGED recv
            \/ \E n \in 1 .. Len(Windows) : EventEnters(Hint(Windows[n])) /\ UNCHANGED recv
<1>1. event_queue \in Seq(Events) /\ windows \in 0 .. Len(Windows) BY DEF PipeInv, PipeType
<1>2. recv[1] # "receive" => recv[2] \in Procs /\ recv = <<recv[1], recv[2]>>
  BY DEF PipeInv, TablesInv, ChannelInv, ChannelType, RecvSteps
<1>3. ASSUME NEW e \in Events, RecvEvent(e), OnlyEvents PROVE EventEnters(e)
  BY <1>1, <1>3, Appended DEF RecvEvent, RecvEvents, EventEnters, OnlyEvents, workerVars
<1>4. CASE AddWait
  <2>1. recv[2] \in Procs BY <1>2, <1>4 DEF AddWait
  <2>2. UNCHANGED <<channel, stage, xq_state, paused, inbox, client_chans>>
    BY <1>4 DEF AddWait, clientVars
  <2>3. CASE recv' = <<"announce", recv[2]>> /\ UNCHANGED schedVars
    BY <1>4, <2>2, <2>3 DEF schedVars, workerVars
  <2>4. CASE /\ recv' = <<"gone", recv[2]>> /\ Dead(recv[2])
             /\ RecvEvent(ProcessDestroy(recv[2])) /\ OnlyEvents
    <3>1. EventEnters(ProcessDestroy(recv[2])) BY <1>3, <2>1, <2>4, AboutProcesses
    <3> QED BY <1>4, <2>1, <2>2, <2>4, <3>1
  <2> QED BY <1>4, <2>3, <2>4 DEF AddWait
<1>5. CASE Announce
  <2>1. recv[2] \in Procs /\ recv = <<"announce", recv[2]>> BY <1>2, <1>5 DEF Announce
  <2> QED BY <1>3, <1>5, <2>1, AboutProcesses DEF Announce, clientVars
<1>6. CASE ProcessTerminate
  <2>1. PICK p \in waits : Dead(p) /\ RecvEvent(ProcessDestroy(p)) /\ OnlyEvents
    BY <1>6 DEF ProcessTerminate
  <2>2. p \in Procs BY DEF PipeInv, TablesInv, ChannelInv, ChannelType
  <2> QED BY <1>3, <1>6, <2>1, <2>2, AboutProcesses DEF ProcessTerminate, clientVars
<1>7. CASE SendHint
  <2>1. windows' \in 1 .. Len(Windows) BY <1>1, <1>7, WindowsAssumption DEF SendHint
  <2>2. Hint(Windows[windows']) \in Events BY <2>1 DEF Events
  <2>3. EventEnters(Hint(Windows[windows'])) BY <1>3, <1>7, <2>2 DEF SendHint
  <2> QED BY <1>7, <2>1, <2>3 DEF SendHint, clientVars, serverVars
<1> QED BY <1>4, <1>5, <1>6, <1>7

(* What is left: nothing enters, and the worker and time go on.            *)
Inner ==
  \/ Lone(Worker) \/ Lone(Tick) \/ (\E p \in Procs : Execute(p))
  \/ CleanUpProcess \/ CloseTerminated \/ Terminating \/ UNCHANGED vars

LEMMA InnerMoves ==
  ASSUME PipeInv, Inner
  PROVE  /\ UNCHANGED <<channel, stage, xq_state>>
         /\ recv' = recv \/ recv' = <<"receive">> \/ recv' = <<"announce", recv[2]>>
         /\ recv' # recv => /\ recv[1] \in {"close", "gone"}
                            /\ (recv[1] = "gone" <=> recv' # <<"receive">>)
         /\ \/ /\ Take /\ tmp_queue = <<>> /\ tmp_queue' = event_queue /\ event_queue' = <<>>
               /\ UNCHANGED <<tableVars, ops, inbox, paused>>
            \/ /\ Update /\ tmp_queue # <<>> /\ tmp_queue' = Tail(tmp_queue)
               /\ UpdateStatus(Head(tmp_queue)) /\ UNCHANGED <<event_queue, ops, inbox, paused>>
            \/ /\ UNCHANGED <<tmp_queue, known, ready, procs>>
               /\ event_queue' \in {event_queue, OlderEvents(event_queue)}
<1>1. ASSUME UNCHANGED <<clientVars, serverVars, channel, inbox>>, Worker
      PROVE  \/ /\ Take /\ tmp_queue = <<>> /\ tmp_queue' = event_queue /\ event_queue' = <<>>
                /\ UNCHANGED <<tableVars, ops>>
             \/ /\ Update /\ tmp_queue # <<>> /\ tmp_queue' = Tail(tmp_queue)
                /\ UpdateStatus(Head(tmp_queue)) /\ UNCHANGED <<event_queue, ops>>
             \/ UNCHANGED <<tmp_queue, known, ready, procs, event_queue>>
  <2>1. CASE Take BY <2>1 DEF Take, PipeInv, PipeType
  <2>2. CASE Update BY <2>2 DEF Update
  <2>3. CASE TimerFires \/ EndRound BY <2>3 DEF TimerFires, EndRound, tableVars
  <2>4. CASE Round BY <2>4 DEF Round, entryVars
  <2> QED BY <1>1, <2>1, <2>2, <2>3, <2>4 DEF Worker
<1>2. CASE Lone(Worker) BY <1>1, <1>2 DEF Lone, clientVars, serverVars
<1>3. CASE Lone(Tick) BY <1>3 DEF Lone, Tick, clientVars, serverVars
<1>4. CASE \E p \in Procs : Execute(p)
  BY <1>4 DEF Execute, tableVars, clientVars, serverVars
<1>5. CASE CleanUpProcess
  BY <1>5 DEF CleanUpProcess, schedVars, tableVars, workerVars, clientVars
<1>6. CASE CloseTerminated
  BY <1>6 DEF CloseTerminated, schedVars, tableVars, workerVars, clientVars
<1>7. CASE Terminating \/ UNCHANGED vars
  BY <1>7 DEF Terminating, vars, schedVars, tableVars, workerVars, clientVars, serverVars
<1> QED BY <1>2, <1>3, <1>4, <1>5, <1>6, <1>7 DEF Inner

-----------------------------------------------------------------------------
LEMMA PipeInvInit == Init => PipeInv
  BY TablesInvInit DEF Init, SchedInit, PipeInv, PipeType

LEMMA NextSteps ==
  ASSUME PipeInv, [Next]_vars
  PROVE  \/ \E p \in Procs : \/ Connect(p) \/ CreateQueue(p) \/ Submit(p) \/ ReportIdle(p)
                             \/ ClientExecute(p) \/ Exit(p) \/ Crash(p)
         \/ Receive
         \/ AddWait \/ Announce \/ ProcessTerminate \/ SendHint
         \/ Inner
  BY DEF Next, RecvWorker, WaitWorker, SchedThread, Inner

LEMMA PipeInvStep == ASSUME PipeInv, [Next]_vars PROVE PipeInv'
<1>1. TablesInv' BY TablesInvStep DEF PipeInv
<1> SUFFICES PipeType' BY <1>1 DEF PipeInv
<1>2. PipeType BY DEF PipeInv
<1>3. CASE \E p \in Procs : \/ Connect(p) \/ CreateQueue(p) \/ Submit(p) \/ ReportIdle(p)
                            \/ ClientExecute(p) \/ Exit(p) \/ Crash(p)
  <2>1. UNCHANGED <<schedVars, windows>>
    BY <1>3 DEF Connect, CreateQueue, Submit, ReportIdle, ClientExecute, Exit, Crash, Vanish
  <2> QED BY <1>2, <2>1 DEF PipeType, schedVars, workerVars
<1>4. ASSUME NEW e, EventEnters(e), windows' \in 0 .. Len(Windows) PROVE PipeType'
  BY <1>2, <1>4, OneMore DEF PipeType, EventEnters
<1>5. CASE Receive
  BY <1>2, <1>4, <1>5, ReceiveEnters DEF PipeType, Receive
<1>6. CASE AddWait \/ Announce \/ ProcessTerminate \/ SendHint
  <2>1. windows' \in 0 .. Len(Windows)
    BY <1>2, <1>6 DEF PipeType, AddWait, Announce, ProcessTerminate, SendHint
  <2> QED BY <1>2, <1>4, <1>6, <2>1, ServerEnters DEF PipeType
<1>7. CASE Inner
  <2>1. CASE CleanUpProcess \/ CloseTerminated \/ Terminating \/ UNCHANGED vars
    BY <1>2, <2>1 DEF PipeType, CleanUpProcess, CloseTerminated, Terminating, vars,
                      schedVars, workerVars
  <2>2. CASE \E p \in Procs : Execute(p) BY <1>2, <2>2 DEF PipeType, Execute
  <2>3. CASE Lone(Tick)
    <3>1. OlderEvents(event_queue) \in Seq(Events)
      <4>1. \A e \in Events : OlderEvent(e) \in Events <=> e \in Events BY OlderEventSays
      <4> QED BY <1>2, <4>1, OlderSays DEF PipeType
    <3> QED BY <1>2, <2>3, <3>1 DEF PipeType, Lone, Tick
  <2>4. CASE Lone(Worker)
    <3>1. <<>> \in Seq(Events) OBVIOUS
    <3>2. tmp_queue # <<>> => Tail(tmp_queue) \in Seq(Events) BY <1>2, OneLess DEF PipeType
    <3>3. UNCHANGED windows /\ Worker BY <2>4 DEF Lone
    <3>4. CASE Take BY <1>2, <3>1, <3>3, <3>4 DEF PipeType, Take
    <3>5. CASE Update BY <1>2, <3>2, <3>3, <3>5 DEF PipeType, Update
    <3>6. CASE TimerFires \/ Round \/ EndRound
      BY <1>2, <3>3, <3>6 DEF PipeType, TimerFires, Round, EndRound
    <3> QED BY <3>3, <3>4, <3>5, <3>6 DEF Worker
  <2> QED BY <1>7, <2>1, <2>2, <2>3, <2>4 DEF Inner
<1> QED BY <1>3, <1>5, <1>6, <1>7, NextSteps

(* What a step of the worker, of time or of a callback does to an answer.  *)
LEMMA InnerSettled ==
  ASSUME PipeInv, Inner, NEW S, NEW A, NEW b \in BOOLEAN, NEW c \in BOOLEAN,
         Settled(event_queue, tmp_queue, S, A, b),
         \A e \in Events : (OlderEvent(e) \in S <=> e \in S) /\ (OlderEvent(e) \in A <=> e \in A),
         \A e \in Events : UpdateStatus(e) => (e \in A => c) /\ (b /\ e \notin S => c),
         b /\ UNCHANGED <<known, ready, procs>> => c
  PROVE  Settled(event_queue', tmp_queue', S, A, c)
<1>1. event_queue \in Seq(Events) /\ tmp_queue \in Seq(Events) BY DEF PipeInv, PipeType
<1>2. CASE /\ tmp_queue = <<>> /\ tmp_queue' = event_queue /\ event_queue' = <<>>
           /\ UNCHANGED tableVars
  <2>1. b => c BY <1>2 DEF tableVars
  <2>2. Settled(event_queue, <<>>, S, A, c) BY <1>2, <2>1 DEF Settled
  <2> QED BY <1>2, <2>2, SettledTaken
<1>3. CASE /\ tmp_queue # <<>> /\ tmp_queue' = Tail(tmp_queue)
           /\ UpdateStatus(Head(tmp_queue)) /\ UNCHANGED event_queue
  <2>1. Head(tmp_queue) \in Events BY <1>1, <1>3, OneLess
  <2> QED BY <1>1, <1>3, <2>1, SettledApplied
<1>4. CASE /\ UNCHANGED <<tmp_queue, known, ready, procs>>
           /\ event_queue' \in {event_queue, OlderEvents(event_queue)}
  <2>1. b => c BY <1>4
  <2>2. /\ Silent(event_queue', S) <=> Silent(event_queue, S)
        /\ LastIn(event_queue', S, A) <=> LastIn(event_queue, S, A)
    BY <1>1, <1>4, OlderSays
  <2> QED BY <1>4, <2>1, <2>2 DEF Settled
<1> QED BY <1>2, <1>3, <1>4, InnerMoves

-----------------------------------------------------------------------------
(* A process that said goodbye: after everything that introduces it to the *)
(* scheduler comes an event that erases it, or has come.                   *)
Goodbye(p) == {ProcessDestroy(p)}

ErasedHere(p) ==
  /\ recv \notin {"watch", "announce", "gone"} \X {p}
  /\ Settled(event_queue, tmp_queue, Introduces(p), Goodbye(p), p \notin procs)

Erased(p) ==
  \/ LastIn(channel, Introduces(p), Goodbye(p))
  \/ Silent(channel, Introduces(p)) /\ ErasedHere(p)

LEMMA ErasedAfterMessage ==
  ASSUME PipeInv, NEW p \in Procs, Erased(p), UNCHANGED <<recv, event_queue, tmp_queue, procs>>,
         NEW e \in Events, channel' = Append(channel, e), e \notin Introduces(p)
  PROVE  Erased(p)'
<1>1. channel \in Seq(Events) BY ChannelEvents DEF PipeInv
<1> QED BY <1>1, OneMore DEF Erased, ErasedHere

LEMMA ErasedStep ==
  ASSUME PipeInv, [Next]_vars, NEW p \in Procs, stage'[p] = "exited",
         stage[p] = "exited" => Erased(p)
  PROVE  Erased(p)'
<1>1. channel \in Seq(Events) /\ event_queue \in Seq(Events)
  BY ChannelEvents DEF PipeInv, PipeType
<1>2. stage \in [Procs -> Stages] BY DEF PipeInv, TablesInv, ChannelInv, ChannelType
<1>3. CASE \E r \in Procs : \/ Connect(r) \/ CreateQueue(r) \/ Submit(r) \/ ReportIdle(r)
                            \/ ClientExecute(r) \/ Exit(r) \/ Crash(r)
  <2>1. PICK r \in Procs : \/ Connect(r) \/ CreateQueue(r) \/ Submit(r) \/ ReportIdle(r)
                           \/ ClientExecute(r) \/ Exit(r) \/ Crash(r)
    BY <1>3
  <2>2. UNCHANGED <<recv, event_queue, tmp_queue, procs>>
    BY <2>1 DEF Connect, CreateQueue, Submit, ReportIdle, ClientExecute, Exit, Crash, Vanish,
                schedVars, tableVars, workerVars, serverVars
  <2>3. CASE Exit(r) /\ r = p
    <3>1. channel' = Append(channel, ProcessDestroy(p)) BY <2>3 DEF Exit, Send
    <3>2. ProcessDestroy(p) \in Events /\ ProcessDestroy(p) \in Goodbye(p)
      BY AboutProcesses DEF Goodbye
    <3> QED BY <1>1, <3>1, <3>2, OneMore DEF Erased
  <2>4. CASE ~(Exit(r) /\ r = p)
    <3>1. stage[p] = "exited" /\ (stage[r] # "exited" => r # p)
      BY <1>2, <2>1, <2>4
         DEF Connect, CreateQueue, Submit, ReportIdle, ClientExecute, Exit, Crash, Vanish, Enters
    <3>2. Erased(p) BY <3>1
    <3>3. CASE UNCHANGED channel BY <2>2, <3>2, <3>3 DEF Erased, ErasedHere
    <3>4. ASSUME NEW e \in Events, channel' = Append(channel, e), e \notin Introduces(p)
          PROVE  Erased(p)'
      BY <2>2, <3>2, <3>4, ErasedAfterMessage
    <3>5. CASE Connect(r)
      <4>1. r # p BY <3>1, <3>5 DEF Connect
      <4> QED BY <3>4, <3>5, <4>1, AboutProcesses DEF Connect, Send
    <3>6. CASE CreateQueue(r) \/ Submit(r) \/ ReportIdle(r)
      <4>1. r # p BY <3>1, <3>6 DEF CreateQueue, Submit, ReportIdle
      <4> QED BY <3>4, <3>6, <4>1, AboutQueues DEF CreateQueue, Submit, ReportIdle, Send
    <3>7. CASE Exit(r) BY <3>4, <3>7, AboutProcesses DEF Exit, Send
    <3>8. CASE ClientExecute(r) \/ Crash(r) BY <3>3, <3>8 DEF ClientExecute, Crash
    <3> QED BY <2>1, <3>5, <3>6, <3>7, <3>8
  <2> QED BY <2>3, <2>4
<1> SUFFICES ASSUME ~(\E r \in Procs : \/ Connect(r) \/ CreateQueue(r) \/ Submit(r)
                        \/ ReportIdle(r) \/ ClientExecute(r) \/ Exit(r) \/ Crash(r))
             PROVE  Erased(p)'
  BY <1>3
<1>4. ASSUME stage' = stage PROVE Erased(p) BY <1>4
<1>5. ASSUME Settled(event_queue, tmp_queue, Introduces(p), Goodbye(p), p \notin procs),
             NEW e, EventEnters(e), e \notin Introduces(p)
      PROVE  Settled(event_queue', tmp_queue', Introduces(p), Goodbye(p), p \notin procs')
  <2>1. (p \notin procs) \in BOOLEAN OBVIOUS
  <2>2. Settled(event_queue', tmp_queue, Introduces(p), Goodbye(p), p \notin procs)
    BY <1>1, <1>5, <2>1, SettledEnters DEF EventEnters
  <2> QED BY <1>5, <2>2 DEF EventEnters, tableVars
<1>6. ASSUME EventEnters(ProcessDestroy(p))
      PROVE  Settled(event_queue', tmp_queue', Introduces(p), Goodbye(p), p \notin procs')
  <2>1. LastIn(event_queue', Introduces(p), Goodbye(p))
    BY <1>1, <1>6, OneMore DEF EventEnters, Goodbye
  <2> QED BY <2>1 DEF Settled
<1>7. ASSUME UNCHANGED <<stage, channel>>, ErasedHere(p) => ErasedHere(p)'
      PROVE  Erased(p)'
  BY <1>4, <1>7 DEF Erased
<1>8. CASE Receive
  <2>1. /\ channel # <<>> /\ channel' = Tail(channel) /\ Received \in Events
        /\ Received = Head(channel)
    BY <1>8, ReceiveEnters
  <2>2. Erased(p) BY <1>4, <1>8, ReceiveEnters
  <2>3. CASE LastIn(channel', Introduces(p), Goodbye(p)) BY <2>3 DEF Erased
  <2>4. CASE Received = ProcessDestroy(p) /\ Silent(channel', Introduces(p))
    <3>1. EventEnters(ProcessDestroy(p)) /\ recv'[1] \in {"receive", "close"}
      BY <1>8, <2>4, ReceiveEnters DEF ProcessDestroy, ProcessCreate
    <3> QED BY <1>6, <2>4, <3>1 DEF Erased, ErasedHere
  <2>5. CASE Silent(channel, Introduces(p)) /\ ErasedHere(p)
    <3>1. Received \notin Introduces(p) /\ Silent(channel', Introduces(p))
      BY <1>1, <2>1, <2>5, OneLess
    <3>2. CASE EventEnters(Received) /\ recv'[1] \in {"receive", "close"}
      BY <1>5, <2>5, <3>1, <3>2 DEF Erased, ErasedHere
    <3>3. CASE /\ Received = ProcessCreate(Received.pid) /\ UNCHANGED event_queue
               /\ recv' = <<"watch", Received.pid>>
      <4>1. Received.pid # p
        BY <2>1, <3>1, <3>3 DEF Introduces, ProcessCreate
      <4>2. UNCHANGED <<tmp_queue, procs>> BY <1>8, ReceiveEnters DEF tableVars
      <4> QED BY <2>5, <3>1, <3>3, <4>1, <4>2 DEF Erased, ErasedHere
    <3> QED BY <1>8, <3>2, <3>3, ReceiveEnters
  <2> QED BY <1>1, <2>1, <2>2, <2>3, <2>4, <2>5, OneLess DEF Erased, Goodbye
<1>9. CASE AddWait \/ Announce \/ ProcessTerminate \/ SendHint
  <2>1. UNCHANGED <<stage, channel>> BY <1>9, ServerEnters
  <2> SUFFICES ASSUME ErasedHere(p) PROVE ErasedHere(p)' BY <1>7, <2>1
  <2>2. recv \notin {"watch", "announce", "gone"} \X {p}
    BY DEF ErasedHere
  <2>3. ASSUME NEW e, EventEnters(e), e \notin Introduces(p),
               recv' \notin {"watch", "announce", "gone"} \X {p}
        PROVE  ErasedHere(p)'
    BY <1>5, <2>3 DEF ErasedHere
  <2>4. recv[1] # "receive" => recv[2] \in Procs /\ recv = <<recv[1], recv[2]>>
    BY DEF PipeInv, TablesInv, ChannelInv, ChannelType, RecvSteps
  <2>5. AddWait => recv[2] \in Procs /\ recv[2] # p BY <2>2, <2>4 DEF AddWait
  <2>6. CASE /\ AddWait /\ recv' = <<"announce", recv[2]>> /\ UNCHANGED event_queue
             /\ UNCHANGED <<tableVars, tmp_queue>>
    BY <2>5, <2>6 DEF ErasedHere, tableVars
  <2>7. CASE /\ AddWait /\ recv' = <<"gone", recv[2]>> /\ EventEnters(ProcessDestroy(recv[2]))
    BY <2>3, <2>5, <2>7, AboutProcesses
  <2>8. CASE /\ Announce /\ recv' = <<"receive">> /\ recv = <<"announce", recv[2]>>
             /\ recv[2] \in Procs /\ EventEnters(ProcessCreate(recv[2]))
    BY <2>2, <2>3, <2>8, AboutProcesses
  <2>9. CASE \E r \in Procs : EventEnters(ProcessDestroy(r)) /\ UNCHANGED recv
    BY <2>2, <2>3, <2>9, AboutProcesses
  <2>10. CASE \E n \in 1 .. Len(Windows) : EventEnters(Hint(Windows[n])) /\ UNCHANGED recv
    BY <2>2, <2>3, <2>10, AboutProcesses
  <2> QED BY <1>9, <2>6, <2>7, <2>8, <2>9, <2>10, ServerEnters
<1>10. CASE Inner
  <2>1. UNCHANGED <<stage, channel>> BY <1>10, InnerMoves
  <2> SUFFICES ASSUME ErasedHere(p) PROVE ErasedHere(p)' BY <1>7, <2>1
  <2>2. recv \notin {"watch", "announce", "gone"} \X {p} BY DEF ErasedHere
  <2>3. recv' \notin {"watch", "announce", "gone"} \X {p}
    <3>1. recv[1] # "receive" => recv[2] \in Procs /\ recv = <<recv[1], recv[2]>>
      BY DEF PipeInv, TablesInv, ChannelInv, ChannelType, RecvSteps
    <3> QED BY <1>10, <2>2, <3>1, InnerMoves
  <2>4. \A e \in Events : /\ OlderEvent(e) \in Introduces(p) <=> e \in Introduces(p)
                          /\ OlderEvent(e) \in Goodbye(p) <=> e \in Goodbye(p)
    BY AboutOlder DEF Goodbye
  <2>5. SchedInv BY DEF PipeInv, TablesInv
  <2>6. \A e \in Events : UpdateStatus(e) =>
          /\ e \in Goodbye(p) => p \notin procs'
          /\ p \notin procs /\ e \notin Introduces(p) => p \notin procs'
    BY <2>5, UpdateSays DEF Goodbye
  <2>7. Settled(event_queue', tmp_queue', Introduces(p), Goodbye(p), p \notin procs')
    <3> DEFINE b == p \notin procs
               c == p \notin procs'
    <3>1. b \in BOOLEAN /\ c \in BOOLEAN /\ (b /\ UNCHANGED <<known, ready, procs>> => c)
      OBVIOUS
    <3>2. Settled(event_queue, tmp_queue, Introduces(p), Goodbye(p), b)
      BY DEF ErasedHere
    <3>3. \A e \in Events : UpdateStatus(e) =>
            (e \in Goodbye(p) => c) /\ (b /\ e \notin Introduces(p) => c)
      BY <2>6
    <3> HIDE DEF b, c
    <3>4. Settled(event_queue', tmp_queue', Introduces(p), Goodbye(p), c)
      BY <1>10, <2>4, <3>1, <3>2, <3>3, InnerSettled
    <3> QED BY <3>4 DEF c
  <2> QED BY <2>3, <2>7 DEF ErasedHere
<1> QED BY <1>8, <1>9, <1>10, NextSteps

ExitInv == PipeInv /\ \A p \in Procs : stage[p] = "exited" => Erased(p)

(* A process that exits in good order leaves nothing in the tables of the  *)
(* server, although its death may be noticed, and reported, before the     *)
(* events it has sent are read: the last of them erases it once more.      *)
THEOREM ExitsClean == Spec => []ExitLeavesNothing
<1>1. Init => ExitInv
  <2> SUFFICES ASSUME Init PROVE ExitInv OBVIOUS
  <2>1. \A p \in Procs : stage[p] # "exited" BY DEF Init
  <2> QED BY <2>1, PipeInvInit DEF ExitInv
<1>2. ExitInv /\ [Next]_vars => ExitInv'
  <2> SUFFICES ASSUME ExitInv, [Next]_vars PROVE ExitInv' OBVIOUS
  <2>1. PipeInv BY DEF ExitInv
  <2>2. \A p \in Procs : stage'[p] = "exited" => Erased(p)'
    BY <2>1, ErasedStep DEF ExitInv
  <2> QED BY <2>1, <2>2, PipeInvStep DEF ExitInv
<1>3. ExitInv => ExitLeavesNothing
  <2> SUFFICES ASSUME ExitInv, ServerAtRest, NEW p \in Procs, stage[p] = "exited"
               PROVE  p \notin procs /\ QueueOf(p) \notin known
    BY DEF ExitLeavesNothing
  <2>1. channel = <<>> /\ event_queue = <<>> /\ sched_pc = "wait"
    BY DEF ServerAtRest, AtRest
  <2>2. tmp_queue = <<>> BY <2>1 DEF ExitInv, PipeInv, PipeType
  <2>3. p \notin procs
    BY <2>1, <2>2, NoneYet DEF ExitInv, Erased, ErasedHere, Settled
  <2>4. TablesAgree BY DEF ExitInv, PipeInv, TablesInv, SchedInv
  <2> QED BY <2>3, <2>4, QueueOfEach DEF TablesAgree
<1> QED BY <1>1, <1>2, <1>3, PTL DEF Spec

-----------------------------------------------------------------------------
(* A process that lives.  The server has not been told of its end; it      *)
(* hears nothing of the queue before there is one ...                      *)
NotMissed(p) ==
  \A es \in {channel, event_queue, tmp_queue} : Silent(es, Goodbye(p))

Unheard(p) ==
  /\ QueueOf(p) \notin known
  /\ Silent(tmp_queue, Concerns(QueueOf(p))) /\ Silent(event_queue, Concerns(QueueOf(p)))

NotEarly(p) ==
  stage[p] # "using" =>
    Unheard(p) /\ Silent(channel, Concerns(QueueOf(p))) /\ xq_state[p] = "Idle"

(* ... nor before it has opened the channel to the process; ...            *)
Reachable(p) ==
  stage[p] = "out" \/ p \in client_chans \/
  /\ Unheard(p) /\ ~Silent(channel, {ProcessCreate(p)})
  /\ FirstIn(channel, Concerns(QueueOf(p)), {ProcessCreate(p)})

(* ... the creation of the queue is the first it hears; ...                *)
CreateFirst(p) ==
  LET about == Concerns(QueueOf(p))
      create == Creates(QueueOf(p))
  IN /\ \A es \in {channel, event_queue, tmp_queue} : FirstIn(es, about, create)
     /\ ~Silent(tmp_queue, create) => QueueOf(p) \notin known
     /\ ~Silent(event_queue, create) => QueueOf(p) \notin known /\ Silent(tmp_queue, about)
     /\ ~Silent(channel, create) => Unheard(p)

(* ... the last it hears is the state of the queue ...                     *)
Shown(p) ==
  QueueOf(p) \in known /\ (QueueOf(p) \in ready <=> xq_state[p] = "Ready")

Told(p) ==
  LET about == Concerns(QueueOf(p))
      right == Shows(QueueOf(p), xq_state[p])
  IN stage[p] = "using" =>
       \/ LastIn(channel, about, right)
       \/ Silent(channel, about) /\ Settled(event_queue, tmp_queue, about, right, Shown(p))

(* ... and the last operation on its way to the process is what the table  *)
(* says of the queue, unless there is one to be sent.                      *)
Obeyed(p) ==
  LET q == QueueOf(p)
      n == Len(inbox[p])
  IN /\ q \notin known => n = 0 /\ p \notin ops
     /\ p \notin ops =>
          (q \in suspended <=> IF n = 0 THEN paused[p] ELSE q \in inbox[p][n].suspended)

Heard(p) == NotMissed(p) /\ NotEarly(p) /\ Reachable(p) /\ CreateFirst(p) /\ Told(p)

OpsType ==
  /\ inbox \in [Procs -> Seq([suspended : SUBSET Queues])]
  /\ paused \in [Procs -> BOOLEAN]
  /\ xq_state \in [Procs -> {"Idle", "Ready"}]

AgreeInv ==
  PipeInv /\ OpsType /\ \A p \in Procs : ~Dead(p) => Heard(p) /\ Obeyed(p)

-----------------------------------------------------------------------------
LEMMA AgreeInvInit == Init => AgreeInv
<1> SUFFICES ASSUME Init PROVE AgreeInv OBVIOUS
<1>1. PipeInv BY PipeInvInit
<1>2. OpsType BY DEF Init, OpsType
<1>3. ASSUME NEW p \in Procs PROVE Heard(p) /\ Obeyed(p)
  <2>1. /\ channel = <<>> /\ event_queue = <<>> /\ tmp_queue = <<>> /\ known = {}
        /\ suspended = {} /\ stage[p] = "out" /\ inbox[p] = <<>> /\ paused[p] = FALSE
        /\ ops = {} /\ xq_state[p] = "Idle"
    BY <1>3 DEF Init, SchedInit
  <2>2. Heard(p)
    BY <2>1, NoneYet DEF Heard, NotMissed, NotEarly, Unheard, Reachable, CreateFirst, Told
  <2> QED BY <2>1, <2>2 DEF Obeyed
<1> QED BY <1>1, <1>2, <1>3 DEF AgreeInv

(* The ways an event can go, for a process that lives before and after.    *)
LEMMA HeardBefore ==
  ASSUME PipeInv, NEW p \in Procs, Heard(p),
         UNCHANGED <<channel, known, ready, tmp_queue, stage, xq_state>>,
         event_queue' \in {event_queue, OlderEvents(event_queue)},
         p \in client_chans => p \in client_chans'
  PROVE  Heard(p)'
<1> DEFINE q == QueueOf(p)
<1>1. event_queue \in Seq(Events) BY DEF PipeInv, PipeType
<1>2. q \in Queues BY QueueOfEach
<1> HIDE DEF q
<1>3. \A e \in Events :
        /\ OlderEvent(e) \in Concerns(q) <=> e \in Concerns(q)
        /\ OlderEvent(e) \in Creates(q) <=> e \in Creates(q)
        /\ OlderEvent(e) \in Shows(q, xq_state[p]) <=> e \in Shows(q, xq_state[p])
        /\ OlderEvent(e) \in Goodbye(p) <=> e \in Goodbye(p)
  BY <1>2, AboutOlder DEF Goodbye
<1>4. /\ Silent(event_queue', Concerns(q)) <=> Silent(event_queue, Concerns(q))
      /\ FirstIn(event_queue', Concerns(q), Creates(q))
         <=> FirstIn(event_queue, Concerns(q), Creates(q))
      /\ LastIn(event_queue', Concerns(q), Shows(q, xq_state[p]))
         <=> LastIn(event_queue, Concerns(q), Shows(q, xq_state[p]))
      /\ Silent(event_queue', Creates(q)) <=> Silent(event_queue, Creates(q))
      /\ Silent(event_queue', Goodbye(p)) <=> Silent(event_queue, Goodbye(p))
  <2>1. CASE event_queue' = event_queue BY <2>1
  <2>2. CASE event_queue' = OlderEvents(event_queue)
    <3>1. \A S : (\A e \in Events : OlderEvent(e) \in S <=> e \in S) =>
                   (Silent(event_queue', S) <=> Silent(event_queue, S))
      BY <1>1, <2>2, OlderSays
    <3>2. \A S, A : (\A e \in Events : (OlderEvent(e) \in S <=> e \in S)
                                       /\ (OlderEvent(e) \in A <=> e \in A)) =>
                   /\ FirstIn(event_queue', S, A) <=> FirstIn(event_queue, S, A)
                   /\ LastIn(event_queue', S, A) <=> LastIn(event_queue, S, A)
      BY <1>1, <2>2, OlderSays
    <3> QED BY <1>3, <3>1, <3>2
  <2> QED BY <2>1, <2>2
<1>5. NotMissed(p)' BY <1>4 DEF Heard, NotMissed
<1>6. Unheard(p)' <=> Unheard(p) BY <1>4 DEF Unheard, q
<1>7. NotEarly(p)' /\ Reachable(p)' BY <1>6 DEF Heard, NotEarly, Reachable
<1>8. CreateFirst(p)' BY <1>4, <1>6 DEF Heard, CreateFirst, q
<1>9. Told(p)' BY <1>4 DEF Heard, Told, Settled, Shown, q
<1> QED BY <1>5, <1>7, <1>8, <1>9 DEF Heard

(* A process sends a message: another one, or about something else ...     *)
LEMMA HeardAfterOthers ==
  ASSUME PipeInv, NEW p \in Procs, Heard(p),
         UNCHANGED <<known, ready, event_queue, tmp_queue, client_chans>>,
         stage'[p] = stage[p], xq_state'[p] = xq_state[p],
         NEW e \in Events, channel' = Append(channel, e),
         e \notin Goodbye(p), e \notin Concerns(QueueOf(p)), e # ProcessCreate(p)
  PROVE  Heard(p)'
<1> DEFINE q == QueueOf(p)
<1>1. channel \in Seq(Events) BY ChannelEvents DEF PipeInv
<1>2. e \notin Creates(q) BY DEF Creates
<1> HIDE DEF q
<1>3. \A S : Silent(channel', S) <=> Silent(channel, S) /\ e \notin S BY <1>1, OneMore
<1>4. \A S, A : /\ FirstIn(channel, S, A) /\ e \notin A => FirstIn(channel', S, A)
                /\ LastIn(channel, S, A) /\ e \notin S => LastIn(channel', S, A)
  BY <1>1, OneMore
<1>5. NotMissed(p)' BY <1>3 DEF Heard, NotMissed
<1>6. Unheard(p)' <=> Unheard(p) BY DEF Unheard
<1>7. NotEarly(p)' BY <1>3, <1>6 DEF Heard, NotEarly
<1>8. Reachable(p)'
  <2>1. e \notin {ProcessCreate(p)} OBVIOUS
  <2> QED BY <1>3, <1>4, <1>6, <2>1 DEF Heard, Reachable
<1>9. CreateFirst(p)' BY <1>2, <1>3, <1>4, <1>6 DEF Heard, CreateFirst, q
<1>10. Told(p)' BY <1>3, <1>4 DEF Heard, Told, Settled, Shown
<1> QED BY <1>5, <1>7, <1>8, <1>9, <1>10 DEF Heard

(* ... or it begins, ...                                                   *)
LEMMA HeardAfterConnect ==
  ASSUME PipeInv, NEW p \in Procs, Heard(p), Connect(p)
  PROVE  Heard(p)'
<1> DEFINE q == QueueOf(p)
           e == ProcessCreate(p)
<1>1. channel \in Seq(Events) /\ e \in Events BY ChannelEvents, AboutProcesses DEF PipeInv
<1>2. e \notin Goodbye(p) /\ e \notin Concerns(q) /\ e \notin Creates(q)
  BY AboutProcesses DEF Goodbye, Creates
<1>3. /\ channel' = Append(channel, e) /\ stage[p] = "out"
      /\ stage'[p] = "connected" /\ UNCHANGED xq_state
      /\ UNCHANGED <<known, ready, event_queue, tmp_queue, client_chans>>
  BY DEF Connect, Enters, Send, PipeInv, TablesInv, ChannelInv, ChannelType, schedVars,
         tableVars, workerVars, serverVars
<1> HIDE DEF q, e
<1>4. \A S : Silent(channel', S) <=> Silent(channel, S) /\ e \notin S BY <1>1, <1>3, OneMore
<1>5. \A S, A : FirstIn(channel, S, A) /\ (e \in A => Silent(channel, S)) =>
                  FirstIn(channel', S, A)
  BY <1>1, <1>3, OneMore
<1>6. Unheard(p) /\ Silent(channel, Concerns(q)) /\ xq_state[p] = "Idle"
  BY <1>3 DEF Heard, NotEarly, q
<1>7. Unheard(p)' BY <1>3, <1>6 DEF Unheard
<1>8. NotMissed(p)' BY <1>2, <1>3, <1>4 DEF Heard, NotMissed
<1>9. NotEarly(p)' BY <1>2, <1>3, <1>4, <1>6, <1>7 DEF NotEarly, q
<1>10. Reachable(p)'
  <2>1. FirstIn(channel, Concerns(q), {e}) BY <1>6 DEF FirstIn, Silent
  <2>2. FirstIn(channel', Concerns(q), {e}) BY <1>5, <1>6, <2>1
  <2>3. ~Silent(channel', {e}) BY <1>4
  <2> QED BY <1>7, <2>2, <2>3 DEF Reachable, q, e
<1>11. CreateFirst(p)' BY <1>2, <1>3, <1>4, <1>5, <1>7 DEF Heard, CreateFirst, q
<1>12. Told(p)' BY <1>3 DEF Told
<1> QED BY <1>8, <1>9, <1>10, <1>11, <1>12 DEF Heard

(* ... or it says something of its queue: that it is there, first of all,  *)
(* or what has become of it.                                               *)
LEMMA HeardAfterOwn ==
  ASSUME PipeInv, NEW p \in Procs, Heard(p),
         CreateQueue(p) \/ Submit(p) \/ ReportIdle(p), OpsType
  PROVE  Heard(p)'
<1> DEFINE q == QueueOf(p)
<1>1. PICK e : /\ channel' = Append(channel, e)
               /\ \/ e = XQueueCreate(q, DeviceOf[q]) /\ CreateQueue(p)
                  \/ e = XQueueReady(q) /\ Submit(p)
                  \/ e = XQueueIdle(q) /\ ReportIdle(p)
  BY DEF CreateQueue, Submit, ReportIdle, Send
<1>2. /\ e \in Events /\ e \in Concerns(q) /\ (e.type = "create" <=> e \in Creates(q))
      /\ e \notin Goodbye(p) /\ e # ProcessCreate(p)
      /\ \A s : e \in Shows(q, s) <=> (e.type = "ready" <=> s = "Ready")
  BY <1>1, AboutQueues DEF Goodbye
<1>3. channel \in Seq(Events) BY ChannelEvents DEF PipeInv
<1>4. /\ UNCHANGED <<known, ready, event_queue, tmp_queue, client_chans>>
      /\ stage[p] # "out" /\ stage'[p] = "using"
      /\ CreateQueue(p) => stage[p] # "using"
  BY DEF CreateQueue, Submit, ReportIdle, Enters, PipeInv, TablesInv, ChannelInv, ChannelType,
         schedVars, tableVars, workerVars, serverVars
<1>5. e \in Shows(q, xq_state'[p])
  <2>1. CASE CreateQueue(p)
    <3>1. e.type = "create" BY <1>1, <1>2, <2>1 DEF XQueueCreate, Submit, ReportIdle, CreateQueue
    <3>2. xq_state'[p] = "Idle" BY <1>4, <2>1 DEF CreateQueue, Heard, NotEarly
    <3> QED BY <1>2, <3>1, <3>2
  <2>2. CASE ~CreateQueue(p)
    BY <1>1, <1>2, <2>2 DEF Submit, ReportIdle, OpsType, XQueueReady, XQueueIdle
  <2> QED BY <2>1, <2>2
<1>6. e \in Creates(q) => CreateQueue(p)
  BY <1>1, <1>2 DEF XQueueReady, XQueueIdle
<1> HIDE DEF q
<1>7. \A S : Silent(channel', S) <=> Silent(channel, S) /\ e \notin S BY <1>1, <1>2, <1>3, OneMore
<1>8. \A S, A : FirstIn(channel, S, A) /\ (e \in A => Silent(channel, S)) =>
                  FirstIn(channel', S, A)
  BY <1>1, <1>2, <1>3, OneMore
<1>9. \A S, A : e \in A => LastIn(channel', S, A) BY <1>1, <1>2, <1>3, OneMore
<1>10. NotMissed(p)' BY <1>2, <1>4, <1>7 DEF Heard, NotMissed
<1>11. Unheard(p)' <=> Unheard(p) BY <1>4 DEF Unheard
<1>12. NotEarly(p)' BY <1>4 DEF NotEarly
<1>13. Reachable(p)'
  <2>1. e \notin {ProcessCreate(p)} BY <1>2
  <2> QED BY <1>4, <1>7, <1>8, <1>11, <2>1 DEF Heard, Reachable
<1>14. CreateFirst(p)'
  <2>1. CASE e \in Creates(q)
    <3>1. Unheard(p) /\ Silent(channel, Concerns(q)) BY <1>4, <1>6, <2>1 DEF Heard, NotEarly, q
    <3> QED BY <1>4, <1>8, <1>11, <3>1 DEF Heard, CreateFirst, q
  <2>2. CASE e \notin Creates(q)
    BY <1>4, <1>7, <1>8, <1>11, <2>2 DEF Heard, CreateFirst, q
  <2> QED BY <2>1, <2>2
<1>15. Told(p)' BY <1>5, <1>9 DEF Told, q
<1> QED BY <1>10, <1>12, <1>13, <1>14, <1>15 DEF Heard

(* The server reads the next message, ...                                  *)
LEMMA HeardAfterReceive ==
  ASSUME PipeInv, NEW p \in Procs, ~Dead(p), Heard(p), Receive
  PROVE  Heard(p)'
<1> DEFINE q == QueueOf(p)
<1>1. channel \in Seq(Events) /\ event_queue \in Seq(Events)
  BY ChannelEvents DEF PipeInv, PipeType
<1>2. /\ channel # <<>> /\ channel' = Tail(channel) /\ Received \in Events
      /\ Received = Head(channel) /\ client_chans \subseteq client_chans'
      /\ UNCHANGED <<known, ready, tmp_queue, stage, xq_state>>
  BY ReceiveEnters DEF tableVars
<1>3. \/ /\ Received = ProcessCreate(Received.pid) /\ Received.pid \in Procs
         /\ UNCHANGED event_queue /\ Received.pid \in client_chans'
      \/ /\ Received.type # "process_create" /\ event_queue' = Append(event_queue, Received)
  BY ReceiveEnters DEF EventEnters
<1> DEFINE e == Received
<1>0. Creates(q) \subseteq Concerns(q) /\ ProcessCreate(p).type = "process_create"
  BY DEF Creates, ProcessCreate
<1> HIDE DEF q, e
<1>4. \A S : Silent(channel, S) <=> e \notin S /\ Silent(channel', S)
  BY <1>1, <1>2, OneLess DEF e
<1>5. \A S, A : /\ LastIn(channel, S, A) =>
                     LastIn(channel', S, A) \/ (e \in A /\ Silent(channel', S))
                /\ FirstIn(channel, S, A) =>
                     FirstIn(channel', S, A) /\ (e \in S => Silent(channel', A))
  BY <1>1, <1>2, OneLess DEF e
<1>6. e \notin Goodbye(p) BY <1>4 DEF Heard, NotMissed
<1>7. CASE e.type = "process_create"
  <2>1. e \notin Concerns(q) /\ e \notin Creates(q) /\ UNCHANGED event_queue
        /\ e = ProcessCreate(e.pid) /\ e.pid \in client_chans' /\ e.pid \in Procs
    BY <1>0, <1>3, <1>7 DEF e, Concerns
  <2>2. Unheard(p)' <=> Unheard(p) BY <1>2, <2>1 DEF Unheard
  <2>3. NotMissed(p)' BY <1>2, <1>4, <2>1 DEF Heard, NotMissed
  <2>4. NotEarly(p)' BY <1>2, <1>4, <2>2 DEF Heard, NotEarly
  <2>5. Reachable(p)'
    <3>1. CASE e = ProcessCreate(p)
      <4>1. e.pid = p BY <3>1 DEF ProcessCreate
      <4> QED BY <2>1, <4>1 DEF Reachable
    <3>2. CASE e # ProcessCreate(p)
      BY <1>2, <1>4, <1>5, <2>2, <3>2 DEF Heard, Reachable
    <3> QED BY <3>1, <3>2
  <2>6. CreateFirst(p)' BY <1>2, <1>4, <1>5, <2>1, <2>2 DEF Heard, CreateFirst, q
  <2>7. Told(p)'
    <3>1. e \notin Shows(q, xq_state[p]) BY <2>1 DEF Shows
    <3> QED BY <1>2, <1>4, <1>5, <2>1, <3>1 DEF Heard, Told, Shown, q
  <2> QED BY <2>3, <2>4, <2>5, <2>6, <2>7 DEF Heard
<1>8. CASE e.type # "process_create"
  <2>1. event_queue' = Append(event_queue, e) BY <1>3, <1>8, <1>0 DEF e, ProcessCreate
  <2>2. \A S : Silent(event_queue', S) <=> Silent(event_queue, S) /\ e \notin S
    BY <1>1, <1>2, <2>1, OneMore DEF e
  <2>3. \A S, A : /\ e \in A => LastIn(event_queue', S, A)
                  /\ FirstIn(event_queue, S, A) /\ (e \in A => Silent(event_queue, S)) =>
                       FirstIn(event_queue', S, A)
    BY <1>1, <1>2, <2>1, OneMore DEF e
  <2>4. NotMissed(p)' BY <1>2, <1>4, <1>6, <2>2 DEF Heard, NotMissed
  <2>5. e \notin Concerns(q) => (Unheard(p)' <=> Unheard(p))
    BY <1>2, <2>2 DEF Unheard, q
  <2>6. NotEarly(p)' BY <1>2, <1>4, <2>5 DEF Heard, NotEarly, q
  <2>7. Reachable(p)'
    <3>1. e \notin {ProcessCreate(p)} BY <1>0, <1>8
    <3> QED BY <1>2, <1>4, <1>5, <2>5, <3>1 DEF Heard, Reachable, q
  <2>8. CreateFirst(p)'
    <3>1. CASE e \in Creates(q)
      <4>1. Unheard(p) /\ Silent(channel', Creates(q))
        BY <1>0, <1>4, <1>5, <3>1 DEF Heard, CreateFirst, q
      <4> QED BY <1>0, <1>2, <1>5, <2>2, <2>3, <4>1 DEF Heard, CreateFirst, Unheard, q
    <3>2. CASE e \notin Creates(q)
      <4>1. /\ FirstIn(channel', Concerns(q), Creates(q))
            /\ FirstIn(event_queue', Concerns(q), Creates(q))
        BY <1>5, <2>3, <3>2 DEF Heard, CreateFirst, q
      <4>2. ~Silent(channel', Creates(q)) => Unheard(p)'
        BY <1>4, <1>5, <2>5 DEF Heard, CreateFirst, q
      <4> QED BY <1>2, <2>2, <3>2, <4>1, <4>2 DEF Heard, CreateFirst, q
    <3> QED BY <3>1, <3>2
  <2>9. Told(p)'
    <3> SUFFICES ASSUME stage[p] = "using", ~LastIn(channel', Concerns(q), Shows(q, xq_state[p]))
                 PROVE  /\ Silent(channel', Concerns(q))
                        /\ Settled(event_queue', tmp_queue, Concerns(q), Shows(q, xq_state[p]),
                                    Shown(p))
      BY <1>2 DEF Told, Shown, q
    <3>1. CASE e \in Shows(q, xq_state[p]) /\ Silent(channel', Concerns(q))
      BY <2>3, <3>1 DEF Settled
    <3>2. CASE /\ Silent(channel, Concerns(q))
               /\ Settled(event_queue, tmp_queue, Concerns(q), Shows(q, xq_state[p]), Shown(p))
      <4>1. e \notin Concerns(q) /\ Silent(channel', Concerns(q)) BY <1>4, <3>2
      <4>2. Shown(p) \in BOOLEAN BY DEF Shown
      <4> QED BY <1>1, <1>2, <2>1, <3>2, <4>1, <4>2, SettledEnters DEF e
    <3> QED BY <1>5, <3>1, <3>2 DEF Heard, Told, q
  <2> QED BY <2>4, <2>6, <2>7, <2>8, <2>9 DEF Heard
<1> QED BY <1>7, <1>8

(* ... enters something else, ...                                          *)
LEMMA HeardAfterEnter ==
  ASSUME PipeInv, NEW p \in Procs, Heard(p), NEW e, EventEnters(e),
         e \notin Goodbye(p), e \notin Concerns(QueueOf(p)),
         UNCHANGED <<channel, stage, xq_state>>, client_chans' = client_chans
  PROVE  Heard(p)'
<1> DEFINE q == QueueOf(p)
<1>1. /\ event_queue \in Seq(Events) /\ e \in Events /\ event_queue' = Append(event_queue, e)
      /\ UNCHANGED <<known, ready, tmp_queue>>
  BY DEF PipeInv, PipeType, EventEnters, tableVars
<1>2. e \notin Creates(q) BY DEF Creates
<1> HIDE DEF q
<1>3. \A S : Silent(event_queue', S) <=> Silent(event_queue, S) /\ e \notin S BY <1>1, OneMore
<1>4. \A S, A : FirstIn(event_queue, S, A) /\ e \notin A => FirstIn(event_queue', S, A)
  BY <1>1, OneMore
<1>5. NotMissed(p)' BY <1>1, <1>3 DEF Heard, NotMissed
<1>6. Unheard(p)' <=> Unheard(p) BY <1>1, <1>3 DEF Unheard
<1>7. NotEarly(p)' /\ Reachable(p)' BY <1>6 DEF Heard, NotEarly, Reachable
<1>8. CreateFirst(p)' BY <1>1, <1>2, <1>3, <1>4, <1>6 DEF Heard, CreateFirst, q
<1>9. Told(p)'
  <2> DEFINE right == Shows(q, xq_state[p])
             b == Shown(p)
  <2>1. b \in BOOLEAN BY DEF Shown
  <2>2. Settled(event_queue, tmp_queue, Concerns(q), right, b) =>
          Settled(event_queue', tmp_queue, Concerns(q), right, b)
    <3> HIDE DEF right, b
    <3> QED BY <1>1, <2>1, SettledEnters DEF q
  <2> QED BY <1>1, <2>2 DEF Heard, Told, Shown, q
<1> QED BY <1>5, <1>7, <1>8, <1>9 DEF Heard

(* ... and its worker takes the events and applies one after the other.    *)
LEMMA HeardAfterTake ==
  ASSUME PipeInv, NEW p \in Procs, Heard(p), tmp_queue = <<>>, tmp_queue' = event_queue,
         event_queue' = <<>>, UNCHANGED <<tableVars, channel, stage, xq_state>>,
         p \in client_chans => p \in client_chans'
  PROVE  Heard(p)'
<1> DEFINE q == QueueOf(p)
<1>1. UNCHANGED <<known, ready>> BY DEF tableVars
<1> HIDE DEF q
<1>2. \A S : Silent(event_queue', S) /\ Silent(tmp_queue, S) BY NoneYet
<1>3. \A S, A : FirstIn(event_queue', S, A) BY NoneYet
<1>4. NotMissed(p)' BY <1>2 DEF Heard, NotMissed
<1>5. Unheard(p)' <=> Unheard(p) BY <1>1, <1>2 DEF Unheard
<1>6. NotEarly(p)' /\ Reachable(p)' BY <1>5 DEF Heard, NotEarly, Reachable
<1>7. CreateFirst(p)' BY <1>1, <1>2, <1>3, <1>5 DEF Heard, CreateFirst
<1>8. Told(p)'
  <2> DEFINE right == Shows(q, xq_state[p])
             b == Shown(p)
  <2>1. b \in BOOLEAN BY DEF Shown
  <2>2. Settled(event_queue, tmp_queue, Concerns(q), right, b) =>
          Settled(event_queue', tmp_queue', Concerns(q), right, b)
    <3> HIDE DEF right, b
    <3> QED BY <2>1, SettledTaken
  <2> QED BY <1>1, <2>2 DEF Heard, Told, Shown, q
<1> QED BY <1>4, <1>6, <1>7, <1>8 DEF Heard

LEMMA HeardAfterUpdate ==
  ASSUME PipeInv, NEW p \in Procs, Heard(p), tmp_queue # <<>>, tmp_queue' = Tail(tmp_queue),
         UpdateStatus(Head(tmp_queue)),
         UNCHANGED <<event_queue, channel, stage, xq_state>>,
         p \in client_chans => p \in client_chans'
  PROVE  Heard(p)' /\ (QueueOf(p) \in suspended' <=> QueueOf(p) \in suspended)
                   /\ (QueueOf(p) \in known => QueueOf(p) \in known')
<1> DEFINE q == QueueOf(p)
           e == Head(tmp_queue)
<1>1. tmp_queue \in Seq(Events) /\ e \in Events BY OneLess DEF PipeInv, PipeType
<1>2. Creates(q) \subseteq Concerns(q) /\ \A s : Shows(q, s) \subseteq Concerns(q)
  BY DEF Creates, Shows
<1>3. \A S : Silent(tmp_queue, S) <=> e \notin S /\ Silent(tmp_queue', S)
  BY <1>1, OneLess
<1>4. \A S, A : FirstIn(tmp_queue, S, A) =>
                  FirstIn(tmp_queue', S, A) /\ (e \in S => Silent(tmp_queue', A))
  BY <1>1, OneLess
<1>5. e # ProcessDestroy(p) BY <1>3 DEF Heard, NotMissed, Goodbye
<1>6. /\ q \in suspended' <=> q \in suspended
      /\ e \notin Concerns(q) => (q \in known' <=> q \in known) /\ (q \in ready' <=> q \in ready)
      /\ e \in Concerns(q) => q \in known'
      /\ e \in Concerns(q) /\ e.type = "ready" => q \in ready'
      /\ e \in Concerns(q) /\ (e.type = "create" => q \notin known) /\ e.type # "ready" =>
           q \notin ready'
  BY <1>1, <1>5, UpdateSaysOfQueue DEF PipeInv, TablesInv
<1>7. e \in Concerns(q) /\ e.type = "create" => e \in Creates(q) BY DEF Creates
<1> HIDE DEF e, q
<1>8. NotMissed(p)' BY <1>3 DEF Heard, NotMissed
<1>9. Unheard(p) => Unheard(p)' /\ e \notin Concerns(q) BY <1>3, <1>6 DEF Unheard, q
<1>10. NotEarly(p)' /\ Reachable(p)' BY <1>9 DEF Heard, NotEarly, Reachable
<1>11. CreateFirst(p)'
  <2>1. FirstIn(tmp_queue', Concerns(q), Creates(q)) BY <1>4 DEF Heard, CreateFirst, q
  <2>2. ~Silent(tmp_queue', Creates(q)) => q \notin known'
    BY <1>3, <1>4, <1>6 DEF Heard, CreateFirst, q
  <2>3. ~Silent(event_queue, Creates(q)) => q \notin known' /\ Silent(tmp_queue', Concerns(q))
    BY <1>3, <1>6 DEF Heard, CreateFirst, q
  <2> QED BY <1>9, <2>1, <2>2, <2>3 DEF Heard, CreateFirst, q
<1>12. e \in Creates(q) => q \notin known
  BY <1>3 DEF Heard, CreateFirst, q
<1>13. Told(p)'
  <2> DEFINE right == Shows(q, xq_state[p])
             b == Shown(p)
             c == Shown(p)'
  <2>1. b \in BOOLEAN /\ c \in BOOLEAN BY DEF Shown
  <2>2. e \in right => c
    <3>1. SUFFICES ASSUME e \in right PROVE c OBVIOUS
    <3>2. e \in Concerns(q) /\ (e.type = "ready" <=> xq_state[p] = "Ready")
      BY <3>1 DEF Shows
    <3> QED BY <1>6, <1>7, <1>12, <3>2 DEF Shown, q
  <2>3. b /\ e \notin Concerns(q) => c BY <1>6 DEF Shown, q
  <2>4. Settled(event_queue, tmp_queue, Concerns(q), right, b) =>
          Settled(event_queue, tmp_queue', Concerns(q), right, c)
    <3> HIDE DEF right, b, c
    <3> QED BY <1>1, <2>1, <2>2, <2>3, SettledApplied DEF e
  <2> QED BY <2>4 DEF Heard, Told, q
<1>14. q \in known => q \in known' BY <1>6
<1> QED BY <1>6, <1>8, <1>10, <1>11, <1>13, <1>14 DEF Heard, q

(* The steps, for a process that lives when they are over.                 *)
LEMMA HeardStep ==
  ASSUME AgreeInv, [Next]_vars, NEW p \in Procs, ~Dead(p)'
  PROVE  ~Dead(p) /\ Heard(p)'
<1>1. PipeInv /\ OpsType /\ stage \in [Procs -> Stages]
  BY DEF AgreeInv, PipeInv, TablesInv, ChannelInv, ChannelType
<1>2. CASE \E r \in Procs : \/ Connect(r) \/ CreateQueue(r) \/ Submit(r) \/ ReportIdle(r)
                            \/ ClientExecute(r) \/ Exit(r) \/ Crash(r)
  <2>1. PICK r \in Procs : \/ Connect(r) \/ CreateQueue(r) \/ Submit(r) \/ ReportIdle(r)
                           \/ ClientExecute(r) \/ Exit(r) \/ Crash(r)
    BY <1>2
  <2>2. UNCHANGED <<known, ready, event_queue, tmp_queue, client_chans>>
    BY <2>1 DEF Connect, CreateQueue, Submit, ReportIdle, ClientExecute, Exit, Crash, Vanish,
                schedVars, tableVars, workerVars, serverVars
  <2>3. ~Dead(p)
    BY <1>1, <2>1 DEF Connect, CreateQueue, Submit, ReportIdle, ClientExecute, Exit, Crash,
                      Vanish, Enters, Dead, Alive
  <2>4. Heard(p) BY <2>3 DEF AgreeInv
  <2> SUFFICES Heard(p)' BY <2>3
  <2>5. CASE r = p
    <3>1. ~Exit(p) /\ ~Crash(p)
      BY <1>1 DEF Exit, Crash, Vanish, Enters, Dead
    <3>2. CASE ClientExecute(p)
      BY <1>1, <2>2, <2>4, <3>2, HeardBefore DEF ClientExecute
    <3> QED BY <1>1, <2>1, <2>4, <2>5, <3>1, <3>2, HeardAfterConnect, HeardAfterOwn
  <2>6. CASE r # p
    <3>1. stage'[p] = stage[p] /\ xq_state'[p] = xq_state[p]
      BY <1>1, <2>1, <2>6 DEF Connect, CreateQueue, Submit, ReportIdle, ClientExecute, Exit,
                              Crash, Vanish, Enters, OpsType
    <3> DEFINE fine(e) == /\ e \in Events /\ e \notin Goodbye(p)
                          /\ e \notin Concerns(QueueOf(p)) /\ e # ProcessCreate(p)
    <3>2. ASSUME NEW e, channel' = Append(channel, e), fine(e) PROVE Heard(p)'
      BY <1>1, <2>2, <2>4, <3>1, <3>2, HeardAfterOthers
    <3>3. CASE Connect(r)
      <4>1. ProcessCreate(r) \notin Goodbye(p) BY DEF Goodbye, ProcessCreate, ProcessDestroy
      <4>2. fine(ProcessCreate(r)) BY <2>6, <4>1, AboutProcesses
      <4> QED BY <3>2, <3>3, <4>2 DEF Connect, Send
    <3>4. CASE CreateQueue(r) \/ Submit(r) \/ ReportIdle(r)
      <4>1. PICK e : /\ channel' = Append(channel, e)
                     /\ \/ e = XQueueCreate(QueueOf(r), DeviceOf[QueueOf(r)])
                        \/ e = XQueueReady(QueueOf(r)) \/ e = XQueueIdle(QueueOf(r))
        BY <3>4 DEF CreateQueue, Submit, ReportIdle, Send
      <4>2. fine(e) BY <2>6, <4>1, AboutQueues DEF Goodbye
      <4> QED BY <3>2, <4>1, <4>2
    <3>5. CASE Exit(r)
      <4>1. ProcessDestroy(r) \notin Goodbye(p) BY <2>6, AboutProcesses DEF Goodbye
      <4>2. ProcessDestroy(r) # ProcessCreate(p) BY DEF ProcessCreate, ProcessDestroy
      <4>3. fine(ProcessDestroy(r)) BY <4>1, <4>2, AboutProcesses
      <4> QED BY <3>2, <3>5, <4>3 DEF Exit, Send
    <3>6. CASE UNCHANGED channel
      BY <1>1, <2>2, <2>4, <3>1, <3>6 DEF Heard, NotMissed, NotEarly, Unheard, Reachable,
                                          CreateFirst, Told, Shown
    <3> QED BY <2>1, <3>3, <3>4, <3>5, <3>6 DEF ClientExecute, Crash
  <2> QED BY <2>3, <2>5, <2>6
<1>3. ASSUME stage' = stage PROVE ~Dead(p) /\ Heard(p) BY <1>3 DEF AgreeInv, Dead
<1>4. CASE Receive
  BY <1>1, <1>3, <1>4, ReceiveEnters, HeardAfterReceive
<1>5. CASE AddWait \/ Announce \/ ProcessTerminate \/ SendHint
  <2>1. UNCHANGED <<channel, stage, xq_state, client_chans>> BY <1>1, <1>5, ServerEnters
  <2>2. ~Dead(p) /\ Heard(p) BY <1>3, <2>1
  <2>3. ASSUME NEW e, EventEnters(e), e \notin Goodbye(p), e \notin Concerns(QueueOf(p))
        PROVE  Heard(p)'
    BY <1>1, <2>1, <2>2, <2>3, HeardAfterEnter
  <2>4. ASSUME NEW r \in Procs, Dead(r), EventEnters(ProcessDestroy(r)) PROVE Heard(p)'
    <3>1. r # p BY <2>2, <2>4
    <3>2. ProcessDestroy(r) \notin Goodbye(p) BY <3>1, AboutProcesses DEF Goodbye
    <3> QED BY <2>3, <2>4, <3>2, AboutProcesses
  <2>5. ASSUME NEW r \in Procs, EventEnters(ProcessCreate(r)) PROVE Heard(p)'
    <3>1. ProcessCreate(r) \notin Goodbye(p) BY DEF Goodbye, ProcessCreate, ProcessDestroy
    <3> QED BY <2>3, <2>5, <3>1, AboutProcesses
  <2>6. ASSUME NEW n \in 1 .. Len(Windows), EventEnters(Hint(Windows[n])) PROVE Heard(p)'
    <3>1. Hint(Windows[n]) \notin Goodbye(p) BY DEF Goodbye, Hint, ProcessDestroy
    <3> QED BY <2>3, <2>6, <3>1, AboutProcesses
  <2>7. CASE UNCHANGED <<event_queue, tableVars, tmp_queue>>
    BY <1>1, <2>1, <2>2, <2>7, HeardBefore DEF tableVars
  <2> QED BY <1>1, <1>5, <2>2, <2>4, <2>5, <2>6, <2>7, ServerEnters
<1>6. CASE Inner
  <2>1. UNCHANGED <<channel, stage, xq_state>> BY <1>1, <1>6, InnerMoves
  <2>2. ~Dead(p) /\ Heard(p) BY <1>3, <2>1
  <2>3. p \in client_chans => p \in client_chans'
    <3>1. recv[1] \in {"gone", "close"} => Dead(recv[2])
      BY DEF AgreeInv, PipeInv, TablesInv, ChannelInv, ThreadsTruthful
    <3>2. watcher # NoPid => Dead(watcher)
      BY DEF AgreeInv, PipeInv, TablesInv, ChannelInv, ThreadsTruthful
    <3>3. \/ UNCHANGED client_chans
          \/ recv[1] \in {"gone", "close"} /\ client_chans' = client_chans \ {recv[2]}
          \/ watcher # NoPid /\ client_chans' = client_chans \ {watcher}
      BY <1>6 DEF Inner, Lone, Execute, CleanUpProcess, CloseTerminated, Terminating, vars,
                  serverVars
    <3> QED BY <2>2, <3>1, <3>2, <3>3
  <2> SUFFICES Heard(p)' BY <2>2
  <2>4. CASE /\ tmp_queue = <<>> /\ tmp_queue' = event_queue /\ event_queue' = <<>>
             /\ UNCHANGED tableVars
    BY <1>1, <2>1, <2>2, <2>3, <2>4, HeardAfterTake
  <2>5. CASE /\ tmp_queue # <<>> /\ tmp_queue' = Tail(tmp_queue)
             /\ UpdateStatus(Head(tmp_queue)) /\ UNCHANGED event_queue
    BY <1>1, <2>1, <2>2, <2>3, <2>5, HeardAfterUpdate
  <2>6. CASE /\ UNCHANGED <<tmp_queue, known, ready, procs>>
             /\ event_queue' \in {event_queue, OlderEvents(event_queue)}
    BY <1>1, <2>1, <2>2, <2>3, <2>6, HeardBefore
  <2> QED BY <1>1, <1>6, <2>4, <2>5, <2>6, InnerMoves
<1> QED BY <1>1, <1>2, <1>4, <1>5, <1>6, NextSteps

-----------------------------------------------------------------------------
(* The operations: what the table says of a queue reaches its process.     *)
LEMMA OpsTypeStep == ASSUME AgreeInv, [Next]_vars PROVE OpsType'
<1>1. OpsType BY DEF AgreeInv
<1>2. CASE \E p \in Procs : \/ Connect(p) \/ CreateQueue(p) \/ Submit(p) \/ ReportIdle(p)
                            \/ ClientExecute(p) \/ Exit(p) \/ Crash(p)
  <2>1. PICK p \in Procs : \/ Connect(p) \/ CreateQueue(p) \/ Submit(p) \/ ReportIdle(p)
                           \/ ClientExecute(p) \/ Exit(p) \/ Crash(p)
    BY <1>2
  <2>2. CASE Connect(p) \/ CreateQueue(p)
    BY <1>1, <2>2 DEF Connect, CreateQueue, OpsType
  <2>3. CASE Submit(p) \/ ReportIdle(p)
    <3>1. \E s \in {"Idle", "Ready"} : xq_state' = [xq_state EXCEPT ![p] = s]
      BY <2>3 DEF Submit, ReportIdle
    <3>2. UNCHANGED <<inbox, paused>> BY <2>3 DEF Submit, ReportIdle
    <3> QED BY <1>1, <3>1, <3>2 DEF OpsType
  <2>4. CASE ClientExecute(p)
    <3>1. inbox[p] \in Seq([suspended : SUBSET Queues]) /\ inbox[p] # <<>>
      BY <1>1, <2>4 DEF OpsType, ClientExecute
    <3>2. Tail(inbox[p]) \in Seq([suspended : SUBSET Queues]) BY <3>1, HeadTailProperties
    <3> DEFINE b == QueueOf(p) \in Head(inbox[p]).suspended
    <3>3. b \in BOOLEAN /\ paused' = [paused EXCEPT ![p] = b] BY <2>4 DEF ClientExecute
    <3> HIDE DEF b
    <3>4. paused' \in [Procs -> BOOLEAN] BY <1>1, <3>3 DEF OpsType
    <3>5. xq_state' = xq_state /\ inbox' = [inbox EXCEPT ![p] = Tail(@)]
      BY <2>4 DEF ClientExecute
    <3> QED BY <1>1, <3>2, <3>4, <3>5 DEF OpsType
  <2>5. CASE Exit(p) \/ Crash(p)
    <3>1. <<>> \in Seq([suspended : SUBSET Queues]) OBVIOUS
    <3> QED BY <1>1, <2>5, <3>1 DEF Exit, Crash, Vanish, OpsType
  <2> QED BY <2>1, <2>2, <2>3, <2>4, <2>5
<1>3. ASSUME UNCHANGED <<inbox, paused, xq_state>> PROVE OpsType' BY <1>1, <1>3 DEF OpsType
<1>4. PipeInv BY DEF AgreeInv
<1>5. CASE Receive BY <1>3, <1>4, <1>5, ReceiveEnters
<1>6. CASE AddWait \/ Announce \/ ProcessTerminate \/ SendHint
  BY <1>3, <1>4, <1>6, ServerEnters
<1>7. CASE Inner
  <2>1. CASE \E p \in Procs : Execute(p)
    <3>1. PICK p \in Procs : Execute(p) BY <2>1
    <3>2. halted[p] \subseteq Queues
      BY DEF AgreeInv, PipeInv, TablesInv, SchedInv, TableType
    <3>3. inbox[p] \in Seq([suspended : SUBSET Queues]) BY <1>1 DEF OpsType
    <3>4. Append(inbox[p], [suspended |-> halted[p]]) \in Seq([suspended : SUBSET Queues])
      BY <3>2, <3>3, AppendProperties
    <3> QED BY <1>1, <3>1, <3>4 DEF Execute, OpsType, clientVars
  <2>2. CASE ~(\E p \in Procs : Execute(p))
    BY <1>3, <1>7, <2>2 DEF Inner, Lone, CleanUpProcess, CloseTerminated, Terminating, vars,
                clientVars
  <2> QED BY <2>1, <2>2
<1> QED BY <1>2, <1>4, <1>5, <1>6, <1>7, NextSteps

LEMMA ObeyedStep ==
  ASSUME AgreeInv, [Next]_vars, NEW p \in Procs, ~Dead(p), ~Dead(p)'
  PROVE  Obeyed(p)'
<1> DEFINE q == QueueOf(p)
<1>1. PipeInv /\ OpsType /\ Heard(p) /\ Obeyed(p) BY DEF AgreeInv
<1>2. SchedInv /\ TablesAgree BY <1>1 DEF PipeInv, TablesInv, SchedInv
<1>3. q \in Queues /\ Pid[q] = p /\ \A r \in Queues : Pid[r] = p => r = q BY QueueOfEach
<1>4. PipeInv' BY <1>1, PipeInvStep
<1> HIDE DEF q
<1>5. ASSUME inbox'[p] = inbox[p], paused'[p] = paused[p], ops' = ops,
             UNCHANGED <<known, suspended>>
      PROVE  Obeyed(p)'
  BY <1>1, <1>5 DEF Obeyed
<1>6. CASE \E r \in Procs : \/ Connect(r) \/ CreateQueue(r) \/ Submit(r) \/ ReportIdle(r)
                            \/ ClientExecute(r) \/ Exit(r) \/ Crash(r)
  <2>1. PICK r \in Procs : \/ Connect(r) \/ CreateQueue(r) \/ Submit(r) \/ ReportIdle(r)
                           \/ ClientExecute(r) \/ Exit(r) \/ Crash(r)
    BY <1>6
  <2>2. UNCHANGED <<known, suspended, ops>>
    BY <2>1 DEF Connect, CreateQueue, Submit, ReportIdle, ClientExecute, Exit, Crash, Vanish,
                schedVars, tableVars, workerVars
  <2>3. CASE Connect(r) \/ CreateQueue(r) \/ Submit(r) \/ ReportIdle(r)
    BY <1>5, <2>2, <2>3 DEF Connect, CreateQueue, Submit, ReportIdle
  <2>4. CASE Exit(r) \/ Crash(r)
    <3>1. r # p
      BY <2>4 DEF Exit, Crash, Vanish, Enters, Dead, PipeInv, TablesInv, ChannelInv, ChannelType,
                  AgreeInv
    <3> QED BY <1>1, <1>5, <2>2, <2>4, <3>1 DEF Exit, Crash, Vanish, OpsType
  <2>5. CASE ClientExecute(r) /\ r # p
    BY <1>1, <1>5, <2>2, <2>5 DEF ClientExecute, OpsType
  <2>6. CASE ClientExecute(p)
    <3> DEFINE box == inbox[p]
               n == Len(box)
    <3>1. /\ box # <<>> /\ box \in Seq([suspended : SUBSET Queues])
          /\ inbox'[p] = Tail(box) /\ (paused'[p] <=> q \in Head(box).suspended)
      BY <1>1, <2>6 DEF ClientExecute, OpsType, q
    <3> HIDE DEF box
    <3>2. /\ n \in Nat \ {0} /\ Len(Tail(box)) = n - 1 /\ Head(box) = box[1]
          /\ \A i \in 1 .. n - 1 : Tail(box)[i] = box[i + 1]
      BY <3>1, HeadTailProperties, EmptySeq
    <3>3. q \in known /\ (p \notin ops => (q \in suspended <=> q \in box[n].suspended))
      BY <1>1, <3>2 DEF Obeyed, q, box
    <3>4. CASE n = 1 BY <2>2, <3>1, <3>2, <3>3, <3>4 DEF Obeyed, q
    <3>5. CASE n # 1
      <4>1. n - 1 \in 1 .. n - 1 /\ (n - 1) + 1 = n /\ n - 1 # 0 BY <3>2, <3>5
      <4>2. Tail(box)[n - 1] = box[n] BY <3>2, <4>1
      <4> QED BY <2>2, <3>1, <3>2, <3>3, <4>1, <4>2 DEF Obeyed, q
    <3> QED BY <3>4, <3>5
  <2> QED BY <2>1, <2>3, <2>4, <2>5, <2>6
<1>7. CASE Receive BY <1>1, <1>5, <1>7, ReceiveEnters DEF tableVars
<1>8. CASE AddWait \/ Announce \/ ProcessTerminate \/ SendHint
  BY <1>1, <1>5, <1>8, ServerEnters DEF EventEnters, tableVars
<1>9. CASE Inner
  <2>1. ASSUME NEW r \in Procs, Execute(r) PROVE Obeyed(p)'
    <3>1. /\ sched_pc = "execute" /\ r \in ops /\ ops' = ops \ {r}
          /\ UNCHANGED <<known, suspended, paused>>
      BY <2>1 DEF Execute, tableVars, clientVars
    <3>2. CASE r # p
      <4>1. inbox'[p] = inbox[p] BY <1>1, <2>1, <3>2 DEF Execute, OpsType
      <4> QED BY <1>1, <3>1, <3>2, <4>1 DEF Obeyed
    <3>3. CASE r = p
      <4>1. q \in known BY <1>1, <3>1, <3>3 DEF Obeyed, q
      <4>2. p \in client_chans /\ ~Dead(p)
        <5>1. stage[p] = "using" \/ Unheard(p) BY <1>1 DEF Heard, NotEarly
        <5> QED BY <1>1, <4>1, <5>1 DEF Heard, Reachable, Unheard, q
      <4>3. inbox'[p] = Append(inbox[p], [suspended |-> halted[p]])
        BY <1>1, <2>1, <3>3, <4>2 DEF Execute, OpsType
      <4>4. q \in halted[p] <=> q \in suspended BY <1>2, <1>3, <4>1 DEF TablesAgree
      <4>5. halted[p] \subseteq Queues BY <1>2 DEF SchedInv, TableType
      <4>6. inbox[p] \in Seq([suspended : SUBSET Queues]) BY <1>1 DEF OpsType
      <4>7. /\ Len(inbox[p]) \in Nat /\ Len(inbox'[p]) = Len(inbox[p]) + 1
            /\ inbox'[p][Len(inbox'[p])] = [suspended |-> halted[p]]
        BY <4>3, <4>5, <4>6, AppendProperties
      <4> QED BY <3>1, <4>1, <4>4, <4>7 DEF Obeyed, q
    <3> QED BY <3>2, <3>3
  <2>2. CASE Lone(Round)
    <3>1. /\ UNCHANGED <<inbox, paused, known, procs>>
          /\ ops' = {r \in procs : HasQueues(r)} /\ ops = {}
      BY <1>1, <2>2 DEF Lone, Round, entryVars, clientVars, PipeInv, PipeType
    <3>2. q \in known => p \in ops'
      <4> SUFFICES ASSUME q \in known PROVE p \in ops' OBVIOUS
      <4>1. q \in running[p] \cup halted[p] BY <1>2, <1>3 DEF TablesAgree
      <4>2. p \in procs BY <1>2, <4>1 DEF TablesAgree
      <4> QED BY <3>1, <4>1, <4>2 DEF HasQueues
    <3>3. q \notin known => p \notin ops' /\ q \notin suspended /\ q \notin suspended'
      <4> SUFFICES ASSUME q \notin known
                   PROVE  p \notin ops' /\ q \notin suspended /\ q \notin suspended'
        OBVIOUS
      <4>1. TablesAgree' BY <1>4 DEF PipeInv, TablesInv, SchedInv
      <4>2. q \notin suspended /\ q \notin suspended' BY <1>2, <3>1, <4>1 DEF TablesAgree
      <4>3. running[p] \cup halted[p] = {}
        BY <1>2, <1>3 DEF TablesAgree, SchedInv, TableType
      <4> QED BY <3>1, <4>2, <4>3 DEF HasQueues
    <3> QED BY <1>1, <3>1, <3>2, <3>3 DEF Obeyed, q
  <2>3. CASE Lone(Update)
    <3>1. /\ UNCHANGED <<inbox, paused, ops>> /\ ops = {}
          /\ UNCHANGED <<event_queue, channel, stage, xq_state, client_chans>>
          /\ tmp_queue # <<>> /\ tmp_queue' = Tail(tmp_queue) /\ UpdateStatus(Head(tmp_queue))
      BY <1>1, <2>3 DEF Lone, Update, clientVars, serverVars, PipeInv, PipeType
    <3>2. (q \in suspended' <=> q \in suspended) /\ (q \in known => q \in known')
      BY <1>1, <3>1, HeardAfterUpdate DEF q
    <3> QED BY <1>1, <3>1, <3>2 DEF Obeyed, q
  <2>4. CASE \/ Lone(Take) \/ Lone(TimerFires) \/ Lone(EndRound) \/ Lone(Tick)
    BY <1>5, <2>4 DEF Lone, Take, TimerFires, EndRound, Tick, tableVars, clientVars
  <2>5. CASE CleanUpProcess \/ CloseTerminated \/ Terminating \/ UNCHANGED vars
    BY <1>5, <2>5 DEF CleanUpProcess, CloseTerminated, Terminating, vars, schedVars, tableVars,
                      workerVars, clientVars
  <2> QED BY <1>9, <2>1, <2>2, <2>3, <2>4, <2>5 DEF Inner, Lone, Worker
<1> QED BY <1>1, <1>6, <1>7, <1>8, <1>9, NextSteps

LEMMA AgreeInvStep == ASSUME AgreeInv, [Next]_vars PROVE AgreeInv'
<1>1. PipeInv' BY PipeInvStep DEF AgreeInv
<1>2. OpsType' BY OpsTypeStep
<1>3. \A p \in Procs : ~Dead(p)' => Heard(p)' /\ Obeyed(p)'
  BY HeardStep, ObeyedStep
<1> QED BY <1>1, <1>2, <1>3 DEF AgreeInv

LEMMA AgreeShown == ASSUME AgreeInv PROVE ClientsAgree
<1> SUFFICES ASSUME AgreeInv, AllAtRest, NEW p \in Procs, stage[p] = "using"
             PROVE  /\ p \in procs /\ QueueOf(p) \in known
                    /\ QueueOf(p) \in ready <=> xq_state[p] = "Ready"
                    /\ QueueOf(p) \in suspended <=> paused[p]
  BY DEF ClientsAgree
<1>1. /\ channel = <<>> /\ event_queue = <<>> /\ sched_pc = "wait" /\ inbox[p] = <<>>
  BY DEF AllAtRest, ServerAtRest, AtRest
<1>2. tmp_queue = <<>> /\ ops = {} BY <1>1 DEF AgreeInv, PipeInv, PipeType
<1>3. Heard(p) /\ Obeyed(p) BY DEF AgreeInv, Dead
<1>4. Shown(p) BY <1>1, <1>2, <1>3, NoneYet DEF Heard, Told, Settled
<1>5. p \in procs
  <2>1. TablesAgree BY DEF AgreeInv, PipeInv, TablesInv, SchedInv
  <2>2. QueueOf(p) \in running[p] \cup halted[p]
    BY <1>4, <2>1, QueueOfEach DEF Shown, TablesAgree
  <2> QED BY <2>1, <2>2 DEF TablesAgree
<1>6. QueueOf(p) \in suspended <=> paused[p]
  BY <1>1, <1>2, <1>3 DEF Obeyed
<1> QED BY <1>4, <1>5, <1>6 DEF Shown

(* Once everything has arrived, the server has every living queue in the   *)
(* state it is in, and the worker of every living queue does what the      *)
(* server last decided, across both channels and whatever else happens.    *)
THEOREM ClientsCorrect == Spec => []ClientsAgree
<1> QED BY AgreeInvInit, AgreeInvStep, AgreeShown, PTL DEF Spec

-----------------------------------------------------------------------------
(* What the policies CHPF and AWF have decided.  The server never changes  *)
(* its policy, and from a round to the next event nothing changes of what  *)
(* they decide on.                                                         *)
RoundOver == sched_pc \in {"wait", "execute"}

RankedByOs ==
  policy = "CHPF" /\ RoundOver =>
    pol.os \in [Procs -> Readable] /\ suspended = OutrankedOnDevice(PidPrio(pol.os))

Inactive == {q \in known : Pid[q] \notin pol.active}

WindowsFirst ==
  policy = "AWF" /\ RoundOver => suspended = IF ready \subseteq Inactive THEN {} ELSE Inactive

(* With one display the active processes are those that it shows.          *)
OneDisplay == \A d, e \in Displays : d = e

OnScreen == {pol.window[d] : d \in Displays} \ {NoPid}

WindowsShown ==
  policy = "AWF" => DOMAIN pol.window = Displays /\ pol.active = OnScreen

(* A queue that is not in the table yet is entered by its creation, so     *)
(* that the table has the device of every living queue right.              *)
Introduced(p) ==
  LET create == Creates(QueueOf(p)) IN
  stage[p] = "using" =>
    \/ QueueOf(p) \in known
    \/ ~Silent(channel, create) \/ ~Silent(event_queue, create) \/ ~Silent(tmp_queue, create)

Placed(p) == QueueOf(p) \in known => device[QueueOf(p)] = DeviceOf[QueueOf(p)]

DeviceInv ==
  /\ DOMAIN device = Queues
  /\ \A p \in Procs : IF Dead(p) THEN xq_state[p] = "Idle" ELSE Introduced(p) /\ Placed(p)

DecideInv == AgreeInv /\ DeviceInv /\ RankedByOs /\ WindowsFirst

LEMMA DecideInvInit == Init => DecideInv
<1> SUFFICES ASSUME Init PROVE DecideInv OBVIOUS
<1>1. /\ known = {} /\ suspended = {} /\ ready = {} /\ DOMAIN device = Queues
      /\ \A p \in Procs : stage[p] = "out"
  BY DEF Init, SchedInit
<1>2. DeviceInv BY <1>1 DEF DeviceInv, Introduced, Placed, Dead
<1>3. pol.os \in [Procs -> Readable]
  <2>1. pol = CreatePolicy BY DEF Init, SchedInit
  <2>2. pol.os = [p \in Procs |-> NoEntry] BY <2>1 DEF CreatePolicy
  <2> QED BY <2>2 DEF Readable
<1>4. RankedByOs /\ WindowsFirst
  BY <1>1, <1>3 DEF RankedByOs, WindowsFirst, OutrankedOnDevice, Inactive
<1> QED BY <1>2, <1>4, AgreeInvInit DEF DecideInv

LEMMA WhatEventsSay ==
  ASSUME NEW e \in Events
  PROVE  /\ e.type = "create" => e.device = DeviceOf[e.q]
         /\ e.type = "hint" =>
              e.hint \in [kind : {"window"}, display : Displays, pid : Procs]
<1>1. CASE e \in Messages
  BY <1>1 DEF Messages, ProcessCreate, ProcessDestroy, XQueueCreate, XQueueReady, XQueueIdle
<1>2. CASE e \notin Messages /\ e.type # "hint" BY <1>2 DEF Events, Hint
<1>3. CASE e \notin Messages /\ e.type = "hint"
  <2>1. PICK n \in 1 .. Len(Windows) : e = Hint(Windows[n]) BY <1>3 DEF Events
  <2> DEFINE W == [kind : {"window"}, display : Displays, pid : Procs]
  <2>2. Windows \in Seq(W) BY WindowsAssumption
  <2> HIDE DEF W
  <2>3. Windows[n] \in W BY <2>2
  <2>4. e.hint = Windows[n] BY <2>1 DEF Hint
  <2> QED BY <1>3, <2>3, <2>4 DEF W
<1> QED BY <1>1, <1>2, <1>3

(* What the policies go by changes with an event, and what they decide in  *)
(* a round.                                                                *)
LEMMA TableMoves ==
  ASSUME PipeInv, [Next]_vars
  PROVE  /\ policy' = policy
         /\ \/ /\ UNCHANGED <<known, ready, suspended, device>>
               /\ pol'.active = pol.active /\ pol'.window = pol.window /\ pol'.os = pol.os
               /\ RoundOver' => RoundOver
            \/ Lone(Update) \/ Lone(Round)
<1>1. pol.slice = pol.slice /\ DOMAIN pol = PolicyFields
  BY DEF PipeInv, TablesInv, SchedInv, PolicyType
<1>2. CASE \E p \in Procs : \/ Connect(p) \/ CreateQueue(p) \/ Submit(p) \/ ReportIdle(p)
                            \/ ClientExecute(p) \/ Exit(p) \/ Crash(p)
  <2>1. UNCHANGED schedVars
    BY <1>2 DEF Connect, CreateQueue, Submit, ReportIdle, ClientExecute, Exit, Crash, Vanish
  <2> QED BY <2>1 DEF schedVars, tableVars, policyVars, workerVars, RoundOver
<1>3. CASE RecvWorker \/ WaitWorker \/ SendHint \/ Terminating \/ UNCHANGED vars
  <2>1. UNCHANGED schedVars \/ OnlyEvents
    BY <1>3 DEF RecvWorker, WaitWorker, Receive, AddWait, CleanUpProcess, Announce,
                ProcessTerminate, CloseTerminated, SendHint, Terminating, vars
  <2> QED BY <2>1 DEF schedVars, OnlyEvents, tableVars, policyVars, workerVars, RoundOver
<1>4. CASE Lone(Tick)
  <2>1. pol'.active = pol.active /\ pol'.window = pol.window /\ pol'.os = pol.os
    BY <1>1, <1>4 DEF Lone, Tick, PolicyFields
  <2>2. UNCHANGED <<known, ready, suspended, device, policy, sched_pc>>
    BY <1>4 DEF Lone, Tick
  <2> QED BY <2>1, <2>2 DEF RoundOver
<1>5. CASE \E p \in Procs : Execute(p)
  BY <1>5 DEF Execute, tableVars, policyVars, RoundOver
<1>6. CASE Lone(Take) \/ Lone(TimerFires) \/ Lone(EndRound)
  BY <1>6 DEF Lone, Take, TimerFires, EndRound, tableVars, policyVars, RoundOver
<1>7. CASE Lone(Update) \/ Lone(Round)
  BY <1>7 DEF Lone, Update, UpdateStatus, Round
<1>8. Lone(Worker) => \/ Lone(Take) \/ Lone(TimerFires) \/ Lone(Update) \/ Lone(Round)
                      \/ Lone(EndRound)
  BY DEF Lone, Worker
<1> QED BY <1>2, <1>3, <1>4, <1>5, <1>6, <1>7, <1>8 DEF Next, SchedThread

LEMMA DecisionStep ==
  ASSUME PipeInv, RankedByOs, WindowsFirst, [Next]_vars
  PROVE  RankedByOs' /\ WindowsFirst'
<1>1. CASE /\ UNCHANGED <<known, ready, suspended, device, policy>>
           /\ pol'.active = pol.active /\ pol'.os = pol.os /\ (RoundOver' => RoundOver)
  <2>1. OutrankedOnDevice(PidPrio(pol.os))' = OutrankedOnDevice(PidPrio(pol.os))
    BY <1>1 DEF OutrankedOnDevice, PidPrio
  <2>2. Inactive' = Inactive BY <1>1 DEF Inactive
  <2> QED BY <1>1, <2>1, <2>2 DEF RankedByOs, WindowsFirst
<1>2. CASE Lone(Update)
  BY <1>2 DEF Lone, Update, RankedByOs, WindowsFirst, RoundOver
<1>3. CASE Lone(Round)
  <2>1. /\ suspended \subseteq known /\ UNCHANGED <<known, ready, device, policy>> /\ Sched
    BY <1>3 DEF Lone, Round, entryVars, PipeInv, TablesInv, SchedInv, TablesAgree
  <2>2. ASSUME policy = "CHPF"
        PROVE  /\ pol'.os \in [Procs -> Readable]
               /\ suspended' = OutrankedOnDevice(PidPrio(pol.os))'
    <3>1. CHPFSched BY <2>1, <2>2 DEF Sched
    <3>2. PICK os \in [Procs -> Readable] :
            /\ SuspendOnly(OutrankedOnDevice(PidPrio(os))) /\ pol' = [pol EXCEPT !.os = os]
      BY <3>1, CHPFReads
    <3>3. pol'.os = os
      BY <3>2 DEF PipeInv, TablesInv, SchedInv, PolicyType, PolicyFields
    <3>4. OutrankedOnDevice(PidPrio(os)) \in SUBSET known BY DEF OutrankedOnDevice
    <3>5. suspended' = OutrankedOnDevice(PidPrio(os)) BY <2>1, <3>2, <3>4, SuspendsThese
    <3>6. OutrankedOnDevice(PidPrio(pol.os))' = OutrankedOnDevice(PidPrio(os))
      BY <2>1, <3>3 DEF OutrankedOnDevice, PidPrio
    <3> QED BY <3>3, <3>5, <3>6
  <2>3. ASSUME policy = "AWF"
        PROVE  suspended' = IF ready' \subseteq Inactive' THEN {} ELSE Inactive'
    <3>1. SuspendOnly(IF ready \subseteq Inactive THEN {} ELSE Inactive) /\ UNCHANGED pol
      BY <2>1, <2>3 DEF Sched, AWFSched, Inactive
    <3>2. Inactive' = Inactive /\ Inactive \in SUBSET known BY <2>1, <3>1 DEF Inactive
    <3> QED BY <2>1, <3>1, <3>2, SuspendsThese
  <2> QED BY <2>1, <2>2, <2>3 DEF RankedByOs, WindowsFirst
<1> QED BY <1>1, <1>2, <1>3, TableMoves

(* The devices: a creation says it, and nothing else that is heard of a    *)
(* known queue changes it.                                                 *)
LEMMA UpdatePlaces ==
  ASSUME SchedInv, DOMAIN device = Queues, NEW e \in Events, UpdateStatus(e)
  PROVE  /\ DOMAIN device' = Queues
         /\ \A p \in Procs :
              /\ Placed(p) /\ e # ProcessDestroy(p)
              /\ e \in Concerns(QueueOf(p)) \ Creates(QueueOf(p)) => QueueOf(p) \in known
              => Placed(p)'
<1> SUFFICES ASSUME NEW p \in Procs
             PROVE  /\ DOMAIN device' = Queues
                    /\ /\ Placed(p) /\ e # ProcessDestroy(p)
                       /\ e \in Concerns(QueueOf(p)) \ Creates(QueueOf(p)) => QueueOf(p) \in known
                       => Placed(p)'
  BY ProcsAssumption
<1> DEFINE q == QueueOf(p)
<1>0. q \in Queues /\ Pid[q] = p BY QueueOfEach
<1> HIDE DEF q
<1>1. ASSUME DOMAIN device' = Queues, device'[q] = device[q], q \in known' => q \in known
      PROVE  DOMAIN device' = Queues /\ (Placed(p) => Placed(p)')
  BY <1>1 DEF Placed, q
<1>2. CASE e.type = "process_destroy"
  <2>1. DestroyProcess(e.pid) /\ e.pid \in Procs
    BY <1>2, EventKinds DEF UpdateStatus, WellFormed
  <2>2. CASE e.pid \notin procs BY <1>1, <2>1, <2>2 DEF DestroyProcess, tableVars
  <2>3. CASE e.pid \in procs
    <3>1. Forget(running[e.pid] \cup halted[e.pid]) BY <2>1, <2>3 DEF DestroyProcess
    <3>2. DOMAIN device' = Queues BY <3>1 DEF Forget
    <3>3. ASSUME e # ProcessDestroy(p) PROVE device'[q] = device[q] /\ known' \subseteq known
      <4>1. e.pid # p BY <1>2, <3>3, EventKinds
      <4>2. q \notin running[e.pid] \cup halted[e.pid]
        BY <1>0, <2>1, <4>1 DEF SchedInv, TablesAgree
      <4> QED BY <1>0, <3>1, <4>2 DEF Forget
    <3> QED BY <1>1, <3>2, <3>3
  <2> QED BY <2>2, <2>3
<1>3. CASE e.type = "process_create" BY <1>1, <1>3 DEF UpdateStatus
<1>4. CASE e.type = "hint" BY <1>1, <1>4 DEF UpdateStatus, tableVars
<1>5. CASE e.type \in {"create", "ready", "idle"}
  <2>1. e.q \in Queues BY <1>5, EventKinds DEF WellFormed
  <2>2. e \in Concerns(q) <=> e.q = q BY <1>5 DEF Concerns
  <2>3. CASE e.type = "create"
    <3>1. Configured(e.q, e.device) BY <2>3 DEF UpdateStatus
    <3>2. /\ device' = [device EXCEPT ![e.q] = e.device]
          /\ known' = known \cup {e.q} \/ known' = known
      BY <3>1 DEF Configured, CreateXQueueStatus
    <3>3. e.device = DeviceOf[e.q] BY <2>3, WhatEventsSay
    <3> QED BY <1>0, <2>1, <3>2, <3>3 DEF Placed, q
  <2>4. CASE e.type # "create"
    <3>1. BecomesReady(e.q, e.age) \/ BecomesIdle(e.q) BY <1>5, <2>4 DEF UpdateStatus
    <3>2. e \notin Creates(q) BY <2>4 DEF Creates
    <3>3. CASE e.q \in known
      <4>1. UNCHANGED <<known, device>> BY <3>1, <3>3 DEF BecomesReady, BecomesIdle
      <4> QED BY <1>1, <4>1
    <3>4. CASE e.q \notin known
      <4>1. device' = [device EXCEPT ![e.q] = Unknown] /\ known' = known \cup {e.q}
        BY <3>1, <3>4 DEF BecomesReady, BecomesIdle, CreateXQueueStatus
      <4>2. e.q # q => device'[q] = device[q] /\ (q \in known' => q \in known)
        BY <1>0, <4>1
      <4> QED BY <1>1, <2>2, <3>2, <3>4, <4>1, <4>2 DEF q
    <3> QED BY <3>3, <3>4
  <2> QED BY <2>3, <2>4
<1> QED BY <1>2, <1>3, <1>4, <1>5, EventKinds DEF q

(* The creation of a queue is on its way until it is in the table.         *)
LEMMA IntroducedStep ==
  ASSUME AgreeInv, [Next]_vars, NEW p \in Procs, ~Dead(p), ~Dead(p)', Introduced(p)
  PROVE  Introduced(p)'
<1> DEFINE q == QueueOf(p)
           create == Creates(q)
<1>0. q \in Queues BY QueueOfEach
<1> HIDE DEF q
<1>1. /\ PipeInv /\ Heard(p) /\ stage \in [Procs -> Stages]
      /\ channel \in Seq(Events) /\ event_queue \in Seq(Events) /\ tmp_queue \in Seq(Events)
  BY ChannelEvents DEF AgreeInv, PipeInv, PipeType, TablesInv, ChannelInv, ChannelType
<1>2. \A e \in Events : \A es \in Seq(Events) :
        Silent(Append(es, e), create) => Silent(es, create) /\ e \notin create
  BY OneMore
<1>3. CASE \E r \in Procs : \/ Connect(r) \/ CreateQueue(r) \/ Submit(r) \/ ReportIdle(r)
                            \/ ClientExecute(r) \/ Exit(r) \/ Crash(r)
  <2>1. PICK r \in Procs : \/ Connect(r) \/ CreateQueue(r) \/ Submit(r) \/ ReportIdle(r)
                           \/ ClientExecute(r) \/ Exit(r) \/ Crash(r)
    BY <1>3
  <2>2. UNCHANGED <<known, event_queue, tmp_queue>>
    BY <2>1 DEF Connect, CreateQueue, Submit, ReportIdle, ClientExecute, Exit, Crash, Vanish,
                schedVars, tableVars, workerVars
  <2>3. CASE CreateQueue(p)
    <3> DEFINE e == XQueueCreate(QueueOf(p), DeviceOf[QueueOf(p)])
    <3>1. channel' = Append(channel, e) BY <2>3 DEF CreateQueue, Send
    <3>2. e \in Events /\ e.type = "create" BY AboutQueues DEF XQueueCreate
    <3>3. e \in create BY <3>2, AboutQueues DEF q
    <3> HIDE DEF e
    <3>4. ~Silent(channel', create) BY <1>1, <1>2, <3>1, <3>2, <3>3
    <3> QED BY <3>4 DEF Introduced, q
  <2>4. CASE ~CreateQueue(p)
    <3>1. stage'[p] = "using" => stage[p] = "using"
      BY <1>1, <2>1, <2>4 DEF Connect, CreateQueue, Submit, ReportIdle, ClientExecute, Exit, Crash,
                              Vanish, Enters
    <3>2. channel' = channel \/ \E e \in Events : channel' = Append(channel, e)
      <4>1. CASE Connect(r)
        BY <4>1, AboutProcesses DEF Connect, Send
      <4>2. CASE Exit(r)
        BY <4>2, AboutProcesses DEF Exit, Send
      <4>3. CASE CreateQueue(r) \/ Submit(r) \/ ReportIdle(r)
        BY <4>3, AboutQueues DEF CreateQueue, Submit, ReportIdle, Send
      <4>4. CASE ClientExecute(r) \/ Crash(r) BY <4>4 DEF ClientExecute, Crash
      <4> QED BY <2>1, <4>1, <4>2, <4>3, <4>4
    <3>3. ~Silent(channel, create) => ~Silent(channel', create) BY <1>1, <1>2, <3>2
    <3> QED BY <2>2, <3>1, <3>3 DEF Introduced, q
  <2> QED BY <2>3, <2>4
<1>4. CASE Receive
  <2>1. /\ channel # <<>> /\ channel' = Tail(channel) /\ Received \in Events
        /\ Received = Head(channel) /\ UNCHANGED <<known, tmp_queue, stage>>
        /\ \/ Received = ProcessCreate(Received.pid) /\ UNCHANGED event_queue
           \/ event_queue' = Append(event_queue, Received)
    BY <1>1, <1>4, ReceiveEnters DEF tableVars, EventEnters
  <2>2. Silent(channel, create) <=> Received \notin create /\ Silent(channel', create)
    BY <1>1, <2>1, OneLess
  <2>3. CASE Received = ProcessCreate(Received.pid) /\ UNCHANGED event_queue
    <3>1. Received \notin create BY <2>3 DEF Creates, ProcessCreate
    <3> QED BY <2>1, <2>2, <2>3, <3>1 DEF Introduced, q
  <2>4. CASE event_queue' = Append(event_queue, Received)
    <3>1. Silent(event_queue', create) => Silent(event_queue, create) /\ Received \notin create
      BY <1>1, <1>2, <2>1, <2>4
    <3> QED BY <2>1, <2>2, <3>1 DEF Introduced, q
  <2> QED BY <2>1, <2>3, <2>4
<1>5. CASE AddWait \/ Announce \/ ProcessTerminate \/ SendHint
  <2>1. UNCHANGED <<channel, stage, known, tmp_queue>>
    BY <1>1, <1>5, ServerEnters DEF EventEnters, tableVars
  <2>2. event_queue' = event_queue \/ \E e \in Events : event_queue' = Append(event_queue, e)
    BY <1>1, <1>5, ServerEnters DEF EventEnters
  <2>3. ~Silent(event_queue, create) => ~Silent(event_queue', create) BY <1>1, <1>2, <2>2
  <2> QED BY <2>1, <2>3 DEF Introduced, q
<1>6. CASE Inner
  <2>1. channel' = channel /\ stage' = stage
    <3>1. channel' = channel BY <1>1, <1>6, InnerMoves
    <3>2. stage' = stage
      BY <1>6 DEF Inner, Lone, Execute, CleanUpProcess, CloseTerminated, Terminating, vars,
                  clientVars
    <3> QED BY <3>1, <3>2
  <2>2. CASE /\ tmp_queue' = event_queue /\ UNCHANGED tableVars /\ tmp_queue = <<>>
    <3>1. Silent(tmp_queue, create) BY <2>2, NoneYet
    <3> QED BY <2>1, <2>2, <3>1 DEF Introduced, q, tableVars
  <2>3. CASE /\ tmp_queue # <<>> /\ tmp_queue' = Tail(tmp_queue) /\ UNCHANGED event_queue
             /\ UpdateStatus(Head(tmp_queue))
    <3>1. /\ Head(tmp_queue) \in Events
          /\ Silent(tmp_queue, create) <=>
               Head(tmp_queue) \notin create /\ Silent(tmp_queue', create)
          /\ Silent(tmp_queue, Goodbye(p)) => Head(tmp_queue) \notin Goodbye(p)
      BY <1>1, <2>3, OneLess
    <3>2. Head(tmp_queue) # ProcessDestroy(p) BY <1>1, <3>1 DEF Heard, NotMissed, Goodbye
    <3>3. SchedInv BY <1>1 DEF PipeInv, TablesInv
    <3>4. /\ Head(tmp_queue) \in Concerns(q) => q \in known'
          /\ q \in known => q \in known'
      BY <2>3, <3>1, <3>2, <3>3, UpdateSaysOfQueue DEF q
    <3>5. create \subseteq Concerns(q) BY DEF Creates
    <3> QED BY <2>1, <2>3, <3>1, <3>4, <3>5 DEF Introduced, q
  <2>4. CASE /\ UNCHANGED <<tmp_queue, known, ready, procs>>
             /\ event_queue' \in {event_queue, OlderEvents(event_queue)}
    <3>1. \A e \in Events : OlderEvent(e) \in create <=> e \in create BY <1>0, AboutOlder
    <3>2. Silent(event_queue', create) <=> Silent(event_queue, create)
      <4> HIDE DEF create
      <4> QED BY <1>1, <2>4, <3>1, OlderSays
    <3> QED BY <2>1, <2>4, <3>2 DEF Introduced, q
  <2> QED BY <1>1, <1>6, <2>2, <2>3, <2>4, InnerMoves
<1> QED BY <1>1, <1>3, <1>4, <1>5, <1>6, NextSteps

LEMMA DeviceStep == ASSUME AgreeInv, DeviceInv, [Next]_vars PROVE DeviceInv'
<1>1. PipeInv /\ SchedInv /\ OpsType /\ stage \in [Procs -> Stages]
  BY DEF AgreeInv, PipeInv, TablesInv, ChannelInv, ChannelType
<1>2. Lone(Update) =>
        /\ tmp_queue # <<>> /\ tmp_queue \in Seq(Events) /\ UpdateStatus(Head(tmp_queue))
        /\ Head(tmp_queue) \in Events /\ UNCHANGED stage
  BY <1>1, OneLess DEF Lone, Update, PipeInv, PipeType, clientVars
<1>3. DOMAIN device' = Queues
  <2>1. Lone(Update) => DOMAIN device' = Queues BY <1>1, <1>2, UpdatePlaces DEF DeviceInv
  <2>2. Lone(Round) => device' = device BY DEF Lone, Round, entryVars
  <2> QED BY <1>1, <2>1, <2>2, TableMoves DEF DeviceInv
<1>4. ASSUME NEW p \in Procs, Dead(p)' PROVE xq_state'[p] = "Idle"
  <2>1. CASE \E r \in Procs : \/ Connect(r) \/ CreateQueue(r) \/ Submit(r) \/ ReportIdle(r)
                              \/ ClientExecute(r) \/ Exit(r) \/ Crash(r)
    BY <1>1, <1>4, <2>1 DEF Connect, CreateQueue, Submit, ReportIdle, ClientExecute, Exit, Crash,
         Vanish, Enters, DeviceInv, Dead, OpsType
  <2>2. CASE UNCHANGED <<stage, xq_state>> BY <1>4, <2>2 DEF DeviceInv, Dead
  <2> QED BY <1>1, <2>1, <2>2, NextSteps, ReceiveEnters, ServerEnters, InnerMoves
           DEF Inner, Lone, Execute, CleanUpProcess, CloseTerminated, Terminating, vars, clientVars
<1>5. ASSUME NEW p \in Procs, ~Dead(p)' PROVE Introduced(p)' /\ Placed(p)'
  <2> DEFINE q == QueueOf(p)
  <2>1. ~Dead(p) /\ Heard(p) /\ Introduced(p) /\ Placed(p)
    <3>1. ~Dead(p) BY <1>5, HeardStep
    <3> QED BY <3>1 DEF AgreeInv, DeviceInv
  <2>2. Introduced(p)' BY <1>5, <2>1, IntroducedStep
  <2>3. CASE UNCHANGED <<known, device>> BY <2>1, <2>2, <2>3 DEF Placed
  <2>4. CASE Lone(Update)
    <3> DEFINE e == Head(tmp_queue)
    <3>1. /\ e \in Events
          /\ \A S : Silent(tmp_queue, S) <=> e \notin S /\ Silent(Tail(tmp_queue), S)
          /\ \A S, A : FirstIn(tmp_queue, S, A) => (e \in S => Silent(Tail(tmp_queue), A))
      BY <1>2, <2>4, OneLess
    <3> HIDE DEF e
    <3>2. e # ProcessDestroy(p) BY <2>1, <3>1 DEF Heard, NotMissed, Goodbye
    <3>3. ASSUME e \in Concerns(q) \ Creates(q) PROVE q \in known
      <4>1. ~Silent(tmp_queue, Concerns(q)) /\ Silent(tmp_queue, Creates(q))
        BY <2>1, <3>1, <3>3 DEF Heard, CreateFirst
      <4>2. stage[p] = "using" BY <2>1, <4>1 DEF Heard, NotEarly, Unheard
      <4> QED BY <2>1, <4>1, <4>2 DEF Introduced, Heard, CreateFirst, Unheard
    <3> QED BY <1>1, <1>2, <2>1, <2>2, <2>4, <3>1, <3>2, <3>3, UpdatePlaces DEF DeviceInv, e
  <2>5. Lone(Round) => UNCHANGED <<known, device>> BY DEF Lone, Round, entryVars
  <2> QED BY <1>1, <2>2, <2>3, <2>4, <2>5, TableMoves
<1> QED BY <1>3, <1>4, <1>5 DEF DeviceInv

LEMMA WindowStep ==
  ASSUME PipeInv, OneDisplay, WindowsShown, [Next]_vars
  PROVE  WindowsShown'
<1> SUFFICES ASSUME policy' = "AWF"
             PROVE  DOMAIN pol'.window = Displays /\ pol'.active = OnScreen'
  BY DEF WindowsShown
<1>1. policy = "AWF" /\ DOMAIN pol.window = Displays /\ pol.active = OnScreen
  BY TableMoves DEF WindowsShown
<1>2. CASE pol'.active = pol.active /\ pol'.window = pol.window
  BY <1>1, <1>2 DEF OnScreen
<1>3. CASE Lone(Update)
  <2> DEFINE e == Head(tmp_queue)
  <2>1. e \in Events /\ UpdateStatus(e)
    BY <1>3, OneLess DEF Lone, Update, PipeInv, PipeType
  <2> HIDE DEF e
  <2>2. CASE e.type # "hint" BY <1>2, <2>1, <2>2 DEF UpdateStatus
  <2>3. CASE e.type = "hint"
    <3> DEFINE h == e.hint
    <3>1. h.kind = "window" /\ h.display \in Displays /\ h.pid \in Procs
      BY <2>1, <2>3, WhatEventsSay
    <3>2. pol' = RecvHint(h) BY <2>1, <2>3 DEF UpdateStatus
    <3> HIDE DEF h
    <3>3. pol' = RecvWindow(h) BY <1>1, <3>1, <3>2 DEF RecvHint
    <3>4. "active" \in DOMAIN pol /\ "window" \in DOMAIN pol
      BY DEF PipeInv, TablesInv, SchedInv, PolicyType, PolicyFields
    <3>5. /\ pol'.active = (pol.active \ {pol.window[h.display]}) \cup {h.pid}
          /\ pol'.window = [pol.window EXCEPT ![h.display] = h.pid]
      BY <3>3, <3>4 DEF RecvWindow
    <3>6. \A d \in Displays : d = h.display BY <3>1 DEF OneDisplay
    <3>7. pol'.active = {h.pid} BY <1>1, <3>5, <3>6 DEF OnScreen
    <3>8. DOMAIN pol'.window = Displays /\ pol'.window[h.display] = h.pid BY <1>1, <3>1, <3>5
    <3>9. {pol'.window[d] : d \in Displays} = {h.pid} BY <3>1, <3>6, <3>8
    <3>10. h.pid # NoPid BY <3>1, PidAssumption
    <3> QED BY <3>7, <3>8, <3>9, <3>10 DEF OnScreen
  <2> QED BY <2>2, <2>3
<1>4. CASE Lone(Round)
  <2>1. Sched BY <1>4 DEF Lone, Round
  <2>2. UNCHANGED pol BY <1>1, <2>1 DEF Sched, AWFSched
  <2> QED BY <1>2, <2>2
<1> QED BY <1>2, <1>3, <1>4, TableMoves

(* At rest, without ghosts, a queue is ready in the table exactly when it  *)
(* is one of a living process and has work.                                *)
LEMMA ReadyIsReal ==
  ASSUME DecideInv, AllAtRest, Ghosts = {}
  PROVE  /\ \A q \in ready : xq_state[Pid[q]] = "Ready"
         /\ \A p \in Procs : xq_state[p] = "Ready" => stage[p] = "using" /\ QueueOf(p) \in ready
         /\ \A q \in known : /\ Alive(Pid[q]) /\ stage[Pid[q]] = "using" /\ q = QueueOf(Pid[q])
                             /\ device[q] = DeviceOf[q]
         /\ \A p \in Procs : stage[p] = "using" =>
              QueueOf(p) \in known /\ (paused[p] <=> QueueOf(p) \in suspended)
<1>1. TablesAgree /\ TableType BY DEF DecideInv, AgreeInv, PipeInv, TablesInv, SchedInv
<1>2. /\ channel = <<>> /\ event_queue = <<>> /\ tmp_queue = <<>>
  BY DEF AllAtRest, ServerAtRest, AtRest, DecideInv, AgreeInv, PipeInv, PipeType
<1>3. ClientsAgree BY AgreeShown DEF DecideInv
<1>4. \A p \in Procs : stage[p] = "using" =>
        /\ QueueOf(p) \in known
        /\ QueueOf(p) \in ready <=> xq_state[p] = "Ready"
        /\ QueueOf(p) \in suspended <=> paused[p]
  BY <1>3 DEF ClientsAgree
<1>5. ASSUME NEW p \in Procs, xq_state[p] = "Ready" PROVE stage[p] = "using"
  <2>1. ~Dead(p) BY <1>5 DEF DecideInv, DeviceInv
  <2> QED BY <1>5, <2>1 DEF DecideInv, AgreeInv, Heard, NotEarly
<1>6. ASSUME NEW q \in known
      PROVE  /\ Alive(Pid[q]) /\ stage[Pid[q]] = "using" /\ q = QueueOf(Pid[q])
             /\ device[q] = DeviceOf[q]
  <2>1. q \in Queues /\ Pid[q] \in Procs BY <1>1, PidAssumption DEF TableType
  <2>2. Alive(Pid[q]) BY DEF Ghosts
  <2>3. q = QueueOf(Pid[q]) BY <2>1, QueueOfEach
  <2>4. ~Dead(Pid[q]) BY <2>2 DEF Alive, Dead
  <2>5. stage[Pid[q]] = "using"
    BY <2>1, <2>3, <2>4 DEF DecideInv, AgreeInv, Heard, NotEarly, Unheard
  <2>6. device[q] = DeviceOf[q]
    BY <2>1, <2>3, <2>4 DEF DecideInv, DeviceInv, Placed
  <2> QED BY <2>2, <2>3, <2>5, <2>6
<1>7. \A q \in known : Pid[q] \in Procs BY <1>1, PidAssumption DEF TableType
<1> QED BY <1>1, <1>4, <1>5, <1>6, <1>7 DEF TablesAgree

LEMMA DecideInvStep == ASSUME DecideInv, [Next]_vars PROVE DecideInv'
  BY AgreeInvStep, DeviceStep, DecisionStep DEF DecideInv, AgreeInv

(* Of two processes the one that goes before the other has the larger      *)
(* number of the two: the conversion orders what it reads as GoesBefore    *)
(* says, with the normal priorities as Linux has them, behind all others,  *)
(* and with the real-time ones the wrong way round.                        *)
LEMMA ConvertedOrder ==
  ASSUME pol.os \in [Procs -> Readable], NEW r \in Procs, NEW p \in Procs
  PROVE  Converted(pol.os[r]) > Converted(pol.os[p]) <=> GoesBefore(r, p)
<1>1. ASSUME NEW x \in Procs
      PROVE  /\ Normal(x) => Converted(pol.os[x]) = -pol.os[x]
             /\ ~Normal(x) => Converted(pol.os[x]) = Real(x)
             /\ Normal(x) => pol.os[x] \in Int /\ pol.os[x] >= 100
             /\ ~Normal(x) => Real(x) \in Int /\ Real(x) >= -1
  <2>1. pol.os[x] \in Readable OBVIOUS
  <2>2. CASE pol.os[x] = NoEntry BY <2>2 DEF Normal, Real, Converted
  <2>3. CASE pol.os[x] # NoEntry
    <3>1. pol.os[x] \in Int /\ pol.os[x] >= -1 BY <2>1, <2>3 DEF Readable
    <3> QED BY <2>3, <3>1 DEF Normal, Real, Converted
  <2> QED BY <2>2, <2>3
<1> QED BY <1>1 DEF GoesBefore

(* CHPF: once everything has arrived, and no queue of a dead process is    *)
(* left, the worker of a queue is paused exactly while a process on the    *)
(* same device that goes before it, by what the last round read of both,   *)
(* has work.  Real-time processes go the wrong way round (GoesBefore).     *)
THEOREM OsPriorityCorrect == Spec => []OsPriorityFirst
<1>1. DecideInv => OsPriorityFirst
  <2> SUFFICES ASSUME DecideInv, AllAtRest, policy = "CHPF", Ghosts = {},
                      NEW p \in Procs, stage[p] = "using"
               PROVE  paused[p] <=> \E r \in Procs :
                                      /\ xq_state[r] = "Ready"
                                      /\ DeviceOf[QueueOf(r)] = DeviceOf[QueueOf(p)]
                                      /\ GoesBefore(r, p)
    BY DEF OsPriorityFirst
  <2> DEFINE q == QueueOf(p)
  <2>1. suspended = OutrankedOnDevice(PidPrio(pol.os)) /\ pol.os \in [Procs -> Readable]
    BY DEF DecideInv, RankedByOs, RoundOver, AllAtRest, ServerAtRest, AtRest
  <2>2. ready \subseteq known /\ known \subseteq Queues
    BY DEF DecideInv, AgreeInv, PipeInv, TablesInv, SchedInv, TablesAgree, TableType
  <2>3. q \in known /\ (paused[p] <=> q \in suspended) /\ Pid[q] = p /\ device[q] = DeviceOf[q]
    BY ReadyIsReal, QueueOfEach
  <2> HIDE DEF q
  <2>4. paused[p] <=>
          \E s \in ready : /\ device[s] = device[q]
                           /\ Converted(pol.os[Pid[s]]) > Converted(pol.os[Pid[q]])
    BY <2>1, <2>2, <2>3 DEF OutrankedOnDevice, PidPrio
  <2>5. ASSUME NEW s \in ready
        PROVE  /\ Pid[s] \in Procs /\ xq_state[Pid[s]] = "Ready" /\ s = QueueOf(Pid[s])
               /\ device[s] = DeviceOf[s]
    BY <2>2, ReadyIsReal, PidAssumption
  <2>6. ASSUME NEW r \in Procs, xq_state[r] = "Ready"
        PROVE  QueueOf(r) \in ready /\ Pid[QueueOf(r)] = r
    BY <2>6, ReadyIsReal, QueueOfEach
  <2>7. paused[p] <=> \E r \in Procs : /\ xq_state[r] = "Ready"
                                       /\ DeviceOf[QueueOf(r)] = DeviceOf[q]
                                       /\ Converted(pol.os[r]) > Converted(pol.os[p])
    BY <2>3, <2>4, <2>5, <2>6
  <2>8. \A r \in Procs : Converted(pol.os[r]) > Converted(pol.os[p]) <=> GoesBefore(r, p)
    BY <2>1, ConvertedOrder
  <2> QED BY <2>7, <2>8 DEF q
<1> QED BY <1>1, DecideInvInit, DecideInvStep, PTL DEF Spec

(* AWF, with one display: once everything has arrived, and no queue of a   *)
(* dead process is left, a queue is paused exactly while the process shown *)
(* is another one and has work.                                            *)
THEOREM ActiveCorrect == ASSUME OneDisplay PROVE Spec => []ActiveFirst
<1>1. Init => WindowsShown
  BY DEF Init, SchedInit, CreatePolicy, WindowsShown, OnScreen
<1>2. DecideInv /\ WindowsShown /\ [Next]_vars => WindowsShown'
  BY WindowStep DEF DecideInv, AgreeInv
<1>3. DecideInv /\ WindowsShown => ActiveFirst
  <2> SUFFICES ASSUME DecideInv, WindowsShown, AllAtRest, policy = "AWF", Ghosts = {}
               PROVE  LET active == {p \in Procs : Alive(p)
                                                           /\ \E d \in Displays : pol.window[d] = p}
                      IN \A p \in Procs : stage[p] = "using" =>
                           (paused[p] <=> /\ p \notin active
                                           /\ \E r \in active : xq_state[r] = "Ready")
    BY DEF ActiveFirst
  <2> DEFINE active == {p \in Procs : Alive(p) /\ \E d \in Displays : pol.window[d] = p}
  <2>1. suspended = IF ready \subseteq Inactive THEN {} ELSE Inactive
    BY DEF DecideInv, WindowsFirst, RoundOver, AllAtRest, ServerAtRest, AtRest
  <2>2. ready \subseteq known /\ known \subseteq Queues
    BY DEF DecideInv, AgreeInv, PipeInv, TablesInv, SchedInv, TablesAgree, TableType
  <2>3. \A p \in Procs : Alive(p) => (p \in active <=> p \in pol.active)
    BY PidAssumption DEF WindowsShown, OnScreen
  <2>4. active \subseteq Procs OBVIOUS
  <2> HIDE DEF active
  <2>5. \A q \in known : q \in Inactive <=> Pid[q] \notin active
    BY <2>2, <2>3, ReadyIsReal, PidAssumption DEF Inactive
  <2>6. ready \subseteq Inactive <=> ~\E r \in active : xq_state[r] = "Ready"
    <3>1. ASSUME NEW s \in ready, s \notin Inactive
          PROVE  \E r \in active : xq_state[r] = "Ready"
      BY <2>2, <2>5, <3>1, ReadyIsReal
    <3>2. ASSUME NEW r \in active, xq_state[r] = "Ready"
          PROVE  QueueOf(r) \in ready /\ QueueOf(r) \notin Inactive
      BY <2>2, <2>4, <2>5, <3>2, ReadyIsReal, QueueOfEach
    <3> QED BY <3>1, <3>2
  <2>7. ASSUME NEW p \in Procs, stage[p] = "using"
        PROVE  paused[p] <=> p \notin active /\ \E r \in active : xq_state[r] = "Ready"
    <3>1. QueueOf(p) \in known /\ (paused[p] <=> QueueOf(p) \in suspended) /\ Pid[QueueOf(p)] = p
      BY <2>7, ReadyIsReal, QueueOfEach
    <3> QED BY <2>1, <2>5, <2>6, <3>1
  <2> QED BY <2>7 DEF active
<1> QED BY <1>1, <1>2, <1>3, DecideInvInit, DecideInvStep, PTL DEF Spec
=============================================================================
