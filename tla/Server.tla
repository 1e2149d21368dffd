------------------------------- MODULE Server -------------------------------
(***************************************************************************)
(* The scheduling server (service/server/src/server.cpp) and its clients:  *)
(* processes whose GlobalScheduler sends every event into the channel of   *)
(* the server and executes what comes back in its own channel.  In the     *)
(* server one thread receives, one watches the processes                   *)
(* (utils/src/waitpid.cpp), HTTP threads give hints, and the worker of a   *)
(* LocalScheduler decides.  Processes leave in good order or die at any    *)
(* moment.  The channels (3rdparty/ipc) are FIFO and lose nothing.         *)
(*                                                                         *)
(* Bounds: a pid is used once and connects once, and a process has one     *)
(* queue, which it keeps for its lifetime.                                 *)
(***************************************************************************)
EXTENDS LocalScheduler

CONSTANTS
  Policies,      (* the policies the server may be started with            *)
  DeviceOf,
  MaxJobs,       (* bound: times a queue becomes ready                     *)
  MayEnd,        (* bound: triples of a policy, a process that may end     *)
                 (* under it, and how: "exited" or "crashed"               *)
  MaxChannel,    (* bound: events waiting in the channel of the server     *)
  MaxInbox,      (* bound: operations waiting in the channel of a client   *)
  Windows        (* bound: the hints on active windows, in this order      *)

ASSUME OneQueueEach == \A p \in Procs : \E q \in Queues : QueuesOf(p) = {q}
ASSUME DeviceAssumption == DeviceOf \in [Queues -> Devices]
ASSUME WindowsAssumption ==
  Windows \in Seq([kind : {"window"}, display : Displays, pid : Procs])

VARIABLES
  stage,         (* per process: "out", "connected", "using" (it has a     *)
                 (* queue), "exited", "crashed"                            *)
  xq_state, paused,  (* of its queue, as in LocalSystem                    *)
  submitted,     (* times its queue has become ready                       *)
  inbox,         (* per process: recv_chan_, the operations sent to it     *)
  channel,       (* the recv_chan_ of the server                           *)
  recv,          (* where RecvWorker is: at <<"receive">>, or at a later   *)
                 (* step of the handler of an event of a process           *)
  client_chans,  (* the keys of client_chans_                              *)
  waits,         (* the pids the PidWaiter watches                         *)
  watcher,       (* the pid whose channel its callback is to close         *)
  windows        (* hints given so far                                     *)

clientVars == <<stage, submitted, xq_state, paused>>
serverVars == <<recv, client_chans, waits, watcher>>
vars == <<schedVars, clientVars, serverVars, inbox, channel, windows>>

Receiving == recv = <<"receive">>

Init ==
  /\ SchedInit
  /\ policy \in Policies /\ event_queue = <<>>
  /\ stage = [p \in Procs |-> "out"]
  /\ submitted = [p \in Procs |-> 0]
  /\ xq_state = [p \in Procs |-> "Idle"] /\ paused = [p \in Procs |-> FALSE]
  /\ inbox = [p \in Procs |-> <<>>] /\ channel = <<>>
  /\ recv = <<"receive">> /\ client_chans = {} /\ waits = {}
  /\ watcher = NoPid /\ windows = 0

QueueOf(p) == CHOOSE q \in Queues : Pid[q] = p
Alive(p)   == stage[p] \in {"connected", "using"}
Dead(p)    == stage[p] \in {"exited", "crashed"}
Enters(p, s) == stage' = [stage EXCEPT ![p] = s]

(* What a step of the server, which only appends events, leaves alone.     *)
OnlyEvents == UNCHANGED <<tableVars, policyVars, workerVars, next_policy, switched>>
-----------------------------------------------------------------------------
(* The clients.                                                            *)
Send(e) == Len(channel) < MaxChannel /\ channel' = Append(channel, e)

(* The agent of a process starts: GlobalScheduler::Run, then the event.    *)
(* Bound: the processes start one after the other.                         *)
Connect(p) ==
  /\ stage[p] = "out" /\ Enters(p, "connected")
  /\ \A q \in Queues : q < QueueOf(p) => stage[Pid[q]] \notin {"out", "connected"}
  /\ Send(ProcessCreate(p))
  /\ UNCHANGED <<schedVars, serverVars, submitted, xq_state, paused, inbox, windows>>

CreateQueue(p) ==
  /\ stage[p] = "connected" /\ Enters(p, "using")
  /\ Send(XQueueCreate(QueueOf(p), DeviceOf[QueueOf(p)]))
  /\ UNCHANGED <<schedVars, serverVars, submitted, xq_state, paused, inbox, windows>>

Submit(p) ==
  /\ stage[p] = "using" /\ xq_state[p] = "Idle" /\ submitted[p] < MaxJobs
  /\ submitted' = [submitted EXCEPT ![p] = @ + 1]
  /\ xq_state' = [xq_state EXCEPT ![p] = "Ready"]
  /\ Send(XQueueReady(QueueOf(p)))
  /\ UNCHANGED <<schedVars, serverVars, stage, paused, inbox, windows>>

ReportIdle(p) ==
  /\ stage[p] = "using" /\ xq_state[p] = "Ready"
  /\ xq_state' = [xq_state EXCEPT ![p] = "Idle"]
  /\ Send(XQueueIdle(QueueOf(p)))
  /\ UNCHANGED <<schedVars, serverVars, stage, submitted, paused, inbox, windows>>

(* GlobalScheduler::Worker: receives an operation and executes it.         *)
ClientExecute(p) ==
  /\ Alive(p) /\ inbox[p] # <<>>
  /\ paused' = [paused EXCEPT ![p] = QueueOf(p) \in Head(inbox[p]).suspended]
  /\ inbox' = [inbox EXCEPT ![p] = Tail(@)]
  /\ UNCHANGED <<schedVars, serverVars, stage, submitted, xq_state, channel, windows>>

(* The process is gone, and what was only in its memory with it.           *)
Vanish(p, how) ==
  /\ <<policy, p, how>> \in MayEnd
  /\ Alive(p) /\ Enters(p, how)
  /\ xq_state' = [xq_state EXCEPT ![p] = "Idle"]
  /\ paused' = [paused EXCEPT ![p] = FALSE]
  /\ inbox' = [inbox EXCEPT ![p] = <<>>]
  /\ UNCHANGED <<schedVars, serverVars, submitted, windows>>

(* Mutant: the process ends without its ProcessDestroyEvent.               *)
ExitSilently(p) == Vanish(p, "exited") /\ UNCHANGED channel

(* FiniScheduler: the last event of a process that exits in good order.    *)
Exit(p) == Vanish(p, "exited") /\ Send(ProcessDestroy(p))

Crash(p) == Vanish(p, "crashed") /\ UNCHANGED channel
-----------------------------------------------------------------------------
(* RecvWorker.  It registers the channel of a new client before it watches *)
(* it and before the scheduler hears of it; of one that leaves, the        *)
(* scheduler hears before the channel is closed.                           *)
Received == Head(channel)

Receive ==
  /\ Receiving /\ channel # <<>>
  /\ channel' = Tail(channel)
  /\ \/ /\ Received.type = "process_create"
        /\ client_chans' = client_chans \cup {Received.pid}
        /\ recv' = <<"watch", Received.pid>>
        /\ UNCHANGED schedVars
     \/ /\ Received.type = "process_destroy"
        /\ recv' = <<"close", Received.pid>>
        /\ RecvEvent(Received) /\ OnlyEvents
        /\ UNCHANGED client_chans
     \/ /\ Received.type \notin {"process_create", "process_destroy"}
        /\ RecvEvent(Received) /\ OnlyEvents
        /\ UNCHANGED <<client_chans, recv>>
  /\ UNCHANGED <<clientVars, waits, watcher, inbox, windows>>

(* Mutant: a process that is no more is not reported.                      *)
WaitInVain ==
  /\ recv[1] = "watch"
  /\ waits' = IF Dead(recv[2]) THEN waits ELSE waits \cup {recv[2]}
  /\ recv' = <<"announce", recv[2]>>
  /\ UNCHANGED <<schedVars, clientVars, client_chans, watcher, inbox, channel, windows>>

(* AddWait: a process that is no more is reported at once, on this thread; *)
(* one that is not reaped yet can still be watched.                        *)
AddWait ==
  /\ recv[1] = "watch"
  /\ \/ /\ waits' = waits \cup {recv[2]}
        /\ recv' = <<"announce", recv[2]>>
        /\ UNCHANGED schedVars
     \/ /\ Dead(recv[2])
        /\ recv' = <<"gone", recv[2]>>
        /\ RecvEvent(ProcessDestroy(recv[2])) /\ OnlyEvents
        /\ UNCHANGED waits
  /\ UNCHANGED <<clientVars, client_chans, watcher, inbox, channel, windows>>

(* CleanUpProcess, after a ProcessDestroyEvent or in the callback.         *)
CleanUpProcess ==
  /\ recv[1] \in {"close", "gone"}
  /\ client_chans' = client_chans \ {recv[2]}
  /\ recv' = IF recv[1] = "gone" THEN <<"announce", recv[2]>> ELSE <<"receive">>
  /\ UNCHANGED <<schedVars, clientVars, waits, watcher, inbox, channel, windows>>

Announce ==
  /\ recv[1] = "announce" /\ recv' = <<"receive">>
  /\ RecvEvent(ProcessCreate(recv[2])) /\ OnlyEvents
  /\ UNCHANGED <<clientVars, client_chans, waits, watcher, inbox, channel, windows>>

(* The watcher: ProcessTerminate, called for a process that has ended.     *)
ProcessTerminate ==
  /\ watcher = NoPid
  /\ \E p \in waits :
       /\ Dead(p)
       /\ waits' = waits \ {p} /\ watcher' = p
       /\ RecvEvent(ProcessDestroy(p)) /\ OnlyEvents
  /\ UNCHANGED <<clientVars, recv, client_chans, inbox, channel, windows>>

CloseTerminated ==
  /\ watcher # NoPid /\ watcher' = NoPid
  /\ client_chans' = client_chans \ {watcher}
  /\ UNCHANGED <<schedVars, clientVars, recv, waits, inbox, channel, windows>>

(* SendHint on an HTTP thread: the active window of a display changes.     *)
(* Bound: it does while the worker of the scheduler waits.                 *)
SendHint ==
  /\ policy = "AWF" /\ sched_pc = "wait" /\ windows < Len(Windows) /\ windows' = windows + 1
  /\ RecvEvent(Hint(Windows[windows'])) /\ OnlyEvents
  /\ UNCHANGED <<clientVars, serverVars, inbox, channel>>

(* Execute, called by the scheduler for each process: the operation is a   *)
(* copy of its status; without a channel it is dropped.                    *)
Execute(p) ==
  /\ sched_pc = "execute" /\ p \in ops /\ ops' = ops \ {p}
  /\ \/ /\ p \in client_chans /\ Alive(p) /\ Len(inbox[p]) < MaxInbox
        /\ inbox' = [inbox EXCEPT ![p] = Append(@, [suspended |-> halted[p]])]
     \/ (p \notin client_chans \/ Dead(p)) /\ UNCHANGED inbox
  /\ UNCHANGED <<tableVars, policyVars, tmp_queue, terminate, sched_pc, event_queue,
                 next_policy, switched, clientVars, serverVars, channel, windows>>
-----------------------------------------------------------------------------
Lone(A) == A /\ UNCHANGED <<clientVars, serverVars, inbox, channel, windows>>

RecvWorker  == Receive \/ AddWait \/ CleanUpProcess \/ Announce
WaitWorker  == ProcessTerminate \/ CloseTerminated
SchedThread == Lone(Worker) \/ \E p \in Procs : Execute(p)

Quiet ==
  /\ \A p \in Procs : xq_state[p] = "Idle" /\ inbox[p] = <<>>
  /\ channel = <<>> /\ Receiving /\ watcher = NoPid
  /\ sched_pc = "wait" /\ event_queue = <<>>

Terminating == Quiet /\ UNCHANGED vars

Next ==
  \/ \E p \in Procs : \/ Connect(p) \/ CreateQueue(p) \/ Submit(p)
                      \/ ReportIdle(p) \/ ClientExecute(p) \/ Exit(p) \/ Crash(p)
  \/ RecvWorker
  \/ WaitWorker
  \/ SendHint
  \/ SchedThread
  \/ Lone(Tick)
  \/ Terminating

Spec == Init /\ [][Next]_vars

(* The threads of the server and the receiving threads of the clients run, *)
(* and time passes; with bounded channels it is enough that one of several *)
(* does.  No process is obliged to finish its work, ever.                  *)
FairSpec ==
  /\ Spec
  /\ WF_vars(RecvWorker \/ WaitWorker)
  /\ WF_vars(SchedThread \/ Lone(Tick))
  /\ WF_vars(\E p \in Procs : ClientExecute(p))
-----------------------------------------------------------------------------
(* Nothing is under way in the server.                                     *)
ServerAtRest ==
  /\ AtRest /\ channel = <<>> /\ Receiving /\ watcher = NoPid
  /\ \A p \in waits : ~Dead(p)

AllAtRest == ServerAtRest /\ \A p \in Procs : inbox[p] = <<>>

(* The server keeps a channel to exactly the processes it watches, and     *)
(* none to a dead one, in whatever order the events of a process, its      *)
(* death and the callbacks came.                                           *)
ChannelsReclaimed ==
  ServerAtRest => client_chans = waits /\ \A p \in client_chans : Alive(p)

(* A process that exits in good order leaves nothing in the tables, even   *)
(* if its death is noticed before its last events are read.                *)
ExitLeavesNothing ==
  ServerAtRest => \A p \in Procs : stage[p] = "exited" =>
    p \notin procs /\ QueueOf(p) \notin known

(* The server knows the state of every living queue, and the worker of the *)
(* queue does what the table says, across two channels.                    *)
ClientsAgree ==
  AllAtRest => \A p \in Procs : stage[p] = "using" =>
    /\ p \in procs /\ QueueOf(p) \in known
    /\ QueueOf(p) \in ready <=> xq_state[p] = "Ready"
    /\ QueueOf(p) \in suspended <=> paused[p]

(* A queue that is still known although its process is not: the events of  *)
(* a process that crashed came after its death had been noticed.           *)
Ghosts == {q \in known : ~Alive(Pid[q])}

(* AWF: the processes whose window is the active one of a display run, and *)
(* the others only while none of those has work.  It holds for one display *)
(* and not for two that show one process after the other.                  *)
ActiveFirst ==
  AllAtRest /\ policy = "AWF" /\ Ghosts = {} =>
    LET active == {p \in Procs : Alive(p) /\ \E d \in Displays : pol.window[d] = p}
    IN \A p \in Procs : stage[p] = "using" =>
         (paused[p] <=> p \notin active /\ \E r \in active : xq_state[r] = "Ready")

(* CHPF: whom it lets go before whom, by what it read of the two.  Normal  *)
(* processes go in the order of Linux, where the smaller number is first.  *)
(* Real-time ones go before them, as in Linux, but with the larger number  *)
(* first, which is the wrong way round; and one of which nothing could be  *)
(* read goes before the normal ones too, as if it had the number 0.        *)
Normal(p) == pol.os[p] # NoEntry /\ pol.os[p] >= 100
Real(p)   == IF pol.os[p] = NoEntry THEN 0 ELSE pol.os[p]

GoesBefore(r, p) ==
  \/ Normal(p) /\ Normal(r) /\ pol.os[r] < pol.os[p]
  \/ Normal(p) /\ ~Normal(r)
  \/ ~Normal(p) /\ ~Normal(r) /\ Real(r) > Real(p)

(* CHPF: a process waits exactly while one that goes before it, by what    *)
(* the last round read, has work on the same device.                       *)
OsPriorityFirst ==
  AllAtRest /\ policy = "CHPF" /\ Ghosts = {} =>
    \A p \in Procs : stage[p] = "using" =>
      (paused[p] <=> \E r \in Procs : /\ xq_state[r] = "Ready"
                                      /\ DeviceOf[QueueOf(r)] = DeviceOf[QueueOf(p)]
                                      /\ GoesBefore(r, p))

(* PUP: every process with work gets its turn, although no other ever      *)
(* finishes, comes or goes as it likes, or is dead and not known to be.    *)
TurnsCome ==
  \A p \in Procs : policy = "PUP" /\ xq_state[p] = "Ready"
    ~> ~paused[p] \/ xq_state[p] # "Ready"
=============================================================================
