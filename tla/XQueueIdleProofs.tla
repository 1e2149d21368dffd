------------------------- MODULE XQueueIdleProofs --------------------------
(***************************************************************************)
(* When an XQueue is idle: theorems about AsyncXQueue that need no order   *)
(* among the commands, for every value of its constants.                   *)
(*                                                                         *)
(* The last command of an idle queue is a completed WaitAll, for any       *)
(* number of threads; with one controller, suspended_ and the worker agree *)
(* between two calls, and an idle queue has nothing left to complete.      *)
(***************************************************************************)
EXTENDS AsyncXQueueProofs

(* The scheduler's executor is the only thread that suspends and resumes   *)
(* an XQueue and, in the end, the one that destroys it.  With two threads  *)
(* SuspendedMatchesWorker is false: one may resume the worker after the    *)
(* other has turned suspended_ to true and before it pauses the worker.    *)
OneController(k) == Controllers = {k}

InBuffer(c) == \E p \in DOMAIN cmds : cmds[p] = c

(* The worker serves a command that synchronizes the whole queue.          *)
Serving == pc[Worker] \in {"allCheck", "allSync", "allPost", "done"}

Others ==
  \/ HwStep
  \/ \E t \in Apps : AppCall(t) \/ AppProgress(t)
  \/ \E k \in Controllers : ControlCall(k) \/ ControlProgress(k)

LEMMA NextCases ==
  ASSUME [Next]_vars
  PROVE  \/ WorkerStep /\ UNCHANGED apiVars
         \/ Others
         \/ UNCHANGED vars
  BY DEF Next, Terminating, Others

(* The steps that change the buffer, the command the worker has taken, or  *)
(* the state of a WaitAll command.                                         *)
AppBuffers(t)     ==
  SubmitEnqueue(t) \/ (t \in Waiters /\ (CallWaitAll(t) \/ SubmitWaitAll(t)))
ControlBuffers(k) == ResumeDropAll(k) \/ DestructEnqueue(k)

Buffers ==
  \/ WorkerTake \/ WorkerIdle \/ WorkerDone
  \/ \E t \in Apps : AppBuffers(t)
  \/ \E k \in Controllers : ControlBuffers(k)

LEMMA QuietWorker ==
  ASSUME WorkerStep, ~WorkerTake, ~WorkerIdle, ~WorkerDone
  PROVE  UNCHANGED <<wait_all, cmds, last_cmd, xq_state, cur>>
  <1>1. CASE LaunchBegin \/ LaunchFull \/ AwaitRunning \/ WorkerBatch
    BY <1>1 DEF LaunchBegin, LaunchFull, AwaitRunning, WorkerBatch, bufVars
  <1>2. CASE LaunchDropped \/ Launch
    BY <1>2 DEF LaunchDropped, Launch
  <1>3. CASE SyncAllCheck \/ SyncAllHw \/ SyncAllPost
    BY <1>3 DEF SyncAllCheck, SyncAllHw, SyncAllPost, bufVars
  <1>4. CASE SyncCmdCheck(Worker) \/ SyncCmdHw(Worker) \/ SyncCmdPost(Worker) \/ CvWait(Worker)
    BY <1>4 DEF SyncCmdCheck, SyncCmdHw, SyncCmdPost, CvWait, bufVars
  <1> QED BY <1>1, <1>2, <1>3, <1>4 DEF WorkerStep

LEMMA QuietApp ==
  ASSUME NEW t \in Apps, AppCall(t) \/ AppProgress(t), ~AppBuffers(t)
  PROVE  UNCHANGED <<wait_all, cmds, last_cmd, xq_state, suspended, terminated>>
  <1>1. CASE SubmitDraw(t)
    BY <1>1 DEF SubmitDraw, DrawIdx, apiVars
  <1>2. CASE WaitCmd(t) \/ CmdReached(t)
    BY <1>2 DEF WaitCmd, CmdReached, bufVars, apiVars
  <1>3. CASE UNCHANGED apiVars /\ (SyncCmdCheck(t) \/ SyncCmdHw(t) \/ SyncCmdPost(t) \/ CvWait(t))
    BY <1>3 DEF SyncCmdCheck, SyncCmdHw, SyncCmdPost, CvWait, bufVars, apiVars
  <1> QED BY <1>1, <1>2, <1>3 DEF AppCall, AppProgress, AppBuffers

LEMMA QuietControl ==
  ASSUME NEW k \in Controllers, ControlCall(k) \/ ControlProgress(k), ~ControlBuffers(k)
  PROVE  UNCHANGED <<kind, wait_all, cmds, last_cmd, xq_state>>
  <1>1. CASE Suspend(k) \/ ResumeBegin(k) \/ DestructBegin(k)
    BY <1>1 DEF Suspend, ResumeBegin, DestructBegin, bufVars
  <1>2. CASE SuspendPause(k) \/ SuspendDeactivate(k) \/ SuspendSyncHw(k)
    BY <1>2 DEF SuspendPause, SuspendDeactivate, SuspendSyncHw, Pause, bufVars
  <1>3. CASE ReactivateSync(k) \/ ReactivateRead(k) \/ ReactivateClear(k) \/ ReactivateRelaunch(k)
    BY <1>3 DEF ReactivateSync, ReactivateRead, ReactivateClear, ReactivateRelaunch, bufVars
  <1>4. CASE ResumeWorker(k) \/ ResumeDropIdx(k) \/ ResumeDrop(k) \/ DestructWait(k)
    BY <1>4 DEF ResumeWorker, ResumeDropIdx, ResumeDrop, DestructWait, Resume, ResumeAndDrop,
       bufVars
  <1> QED BY <1>1, <1>2, <1>3, <1>4 DEF ControlCall, ControlProgress, ControlBuffers

LEMMA QuietStep ==
  ASSUME TypeInv, [Next]_vars, ~Buffers
  PROVE  UNCHANGED <<wait_all, cmds, last_cmd, xq_state, cur>>
  <1>1. CASE WorkerStep
    BY <1>1, QuietWorker DEF Buffers
  <1>2. CASE Others
    <2>1. cur' = cur
      BY <1>2, OthersKeepWorker DEF Others
    <2>2. CASE HwStep
      BY <2>1, <2>2 DEF HwStep, HwExecute, HwFlush, bufVars
    <2>3. CASE ~HwStep
      BY <1>2, <2>1, <2>3, QuietApp, QuietControl DEF Others, Buffers
    <2> QED BY <2>2, <2>3
  <1>3. CASE UNCHANGED vars
    BY <1>3 DEF vars, bufVars, workerVars
  <1> QED BY <1>1, <1>2, <1>3, NextCases

(* The worker serves a WaitAll command to its end.                         *)
LEMMA ServingMoves ==
  ASSUME TypeInv, LaunchesHardware, [Next]_vars, ~WorkerDone, Serving, cur.type = "WaitAll"
  PROVE  Serving' /\ cur' = cur
  <1>0. pc \in [Threads -> Labels] /\ Worker \in Threads /\ ret \in {"full", "tail", "done"}
    BY DEF TypeInv, TypeOK, ApiTypeOK, WorkerTypeOK, Labels, Threads
  <1>1. CASE WorkerStep
    <2>1. ret = "done" \/ pc[Worker] = "done"
      BY DEF Serving, LaunchesHardware, Launching
    <2>2. SyncAllCheck \/ SyncAllHw \/ SyncAllPost \/ CvWait(Worker)
      BY <1>1 DEF WorkerStep, WorkerTake, WorkerIdle, LaunchBegin, LaunchFull, AwaitRunning,
         LaunchDropped, Launch, SyncCmdCheck, SyncCmdHw, SyncCmdPost, WorkerBatch, Serving
    <2>3. CASE SyncAllCheck
      BY <1>0, <2>1, <2>3 DEF SyncAllCheck, ReturnFromSync, Goto, Serving
    <2>4. CASE SyncAllHw
      BY <1>0, <2>4 DEF SyncAllHw, Goto, Serving
    <2>5. CASE SyncAllPost
      BY <1>0, <2>1, <2>5 DEF SyncAllPost, ReturnFromSync, Goto, Serving
    <2>6. CASE CvWait(Worker)
      BY <2>6 DEF CvWait, Serving, threadVars
    <2> QED BY <2>2, <2>3, <2>4, <2>5, <2>6
  <1>2. CASE Others
    BY <1>2, OthersKeepWorker DEF Others, Serving
  <1>3. CASE UNCHANGED vars
    BY <1>3 DEF vars, workerVars, Serving
  <1> QED BY <1>1, <1>2, <1>3, NextCases

-----------------------------------------------------------------------------
(***************************************************************************)
(* An idle queue ends with a completed WaitAll.                            *)
(*                                                                         *)
(* Known: a WaitAll command that somebody holds exists.  Awaited: one that *)
(* is not completed is in the buffer, or the worker serves it, so that on  *)
(* an empty buffer between two commands they are all completed.  Resting   *)
(* is the property with what keeps it: nothing enters the buffer of an     *)
(* idle queue without making it ready, except the Destroy command.         *)
(***************************************************************************)
Known ==
  /\ last_cmd.type = "WaitAll" => last_cmd.id \in DOMAIN wait_all
  /\ cur.type = "WaitAll" => cur.id \in DOMAIN wait_all
  /\ \A p \in DOMAIN cmds : cmds[p].type = "WaitAll" => cmds[p].id \in DOMAIN wait_all

Awaited ==
  \A w \in DOMAIN wait_all : wait_all[w] # Completed =>
    InBuffer(WaitAll(w)) \/ (cur = WaitAll(w) /\ Serving)

Alive ==
  ~terminated => \A k \in Controllers : pc[k] \notin {"enqDestroy", "waitDestroy", "destroyed"}

Resting ==
  ~terminated /\ xq_state = "Idle" =>
    cmds = <<>> /\ last_cmd.type = "WaitAll" /\ wait_all[last_cmd.id] = Completed

RestInv == Known /\ Awaited /\ Alive /\ Resting

LEMMA BufferFacts ==
  ASSUME TypeInv
  PROVE  /\ Len(wait_all) \in Nat /\ DOMAIN wait_all = 1 .. Len(wait_all)
         /\ wait_all \in Seq(CmdState)
         /\ cmds \in Seq(Command) /\ Len(cmds) \in Nat /\ DOMAIN cmds = 1 .. Len(cmds)
         /\ \A p \in DOMAIN cmds : cmds[p] \in Command
         /\ last_cmd \in Command /\ cur \in Command
         /\ pc \in [Threads -> Labels] /\ Worker \in Threads
         /\ ret \in {"full", "tail", "done"}
         /\ \A t \in Apps \cup Controllers : t # Worker /\ t \in Threads
  <1>1. /\ wait_all \in Seq(CmdState) /\ cmds \in Seq(Command)
        /\ last_cmd \in Command /\ cur \in Command
        /\ pc \in [Threads -> Labels] /\ ret \in {"full", "tail", "done"}
    BY DEF TypeInv, TypeOK, BufTypeOK, WorkerTypeOK, ApiTypeOK, Labels
  <1>2. \A p \in DOMAIN cmds : cmds[p] \in Command
    BY <1>1, ElementOfSeq, LenProperties
  <1> QED BY <1>1, <1>2, LenProperties, ThreadsAssumption DEF Threads

(* The commands are told apart by their type and their number.             *)
LEMMA SameCommand ==
  ASSUME NEW c \in Command, NEW i
  PROVE  /\ c.type = "WaitAll" /\ c.id = i <=> c = WaitAll(i)
         /\ c.type = "Hardware" /\ c.id = i <=> c = Hardware(i)
  BY DEF Command, CmdType, WaitAll, Hardware

(* What is appended to the buffer, and what is left when its first element *)
(* is taken.                                                               *)
LEMMA Appended ==
  ASSUME TypeInv, NEW c \in Command, cmds' = Append(cmds, c)
  PROVE  /\ \A d : InBuffer(d)' <=> InBuffer(d) \/ d = c
         /\ \A p \in DOMAIN cmds' : cmds'[p] = c \/ (p \in DOMAIN cmds /\ cmds'[p] = cmds[p])
         /\ cmds' # <<>> /\ cmds'[Len(cmds')] = c
  <1>1. cmds \in Seq(Command) /\ Len(cmds) \in Nat /\ DOMAIN cmds = 1 .. Len(cmds)
    BY BufferFacts
  <1>2. /\ DOMAIN cmds' = 1 .. Len(cmds) + 1 /\ Len(cmds') = Len(cmds) + 1
        /\ cmds'[Len(cmds) + 1] = c /\ \A p \in DOMAIN cmds : cmds'[p] = cmds[p]
    BY <1>1, AppendProperties
  <1>3. cmds' # <<>>
    BY <1>1, <1>2
  <1> QED BY <1>1, <1>2, <1>3 DEF InBuffer

LEMMA Taken ==
  ASSUME TypeInv, cmds # <<>>, cmds' = Tail(cmds)
  PROVE  /\ \A d : InBuffer(d) => InBuffer(d)' \/ d = Head(cmds)
         /\ \A p \in DOMAIN cmds' : \E q \in DOMAIN cmds : cmds'[p] = cmds[q]
         /\ Head(cmds) = cmds[1] /\ 1 \in DOMAIN cmds
         /\ cmds' = <<>> => Head(cmds) = cmds[Len(cmds)]
         /\ cmds' # <<>> => cmds'[Len(cmds')] = cmds[Len(cmds)]
  <1>1. cmds \in Seq(Command) /\ Len(cmds) \in Nat /\ DOMAIN cmds = 1 .. Len(cmds)
    BY BufferFacts
  <1>2. Len(cmds) > 0
    BY <1>1, EmptySeq
  <1>3. /\ Len(cmds') = Len(cmds) - 1 /\ DOMAIN cmds' = 1 .. Len(cmds) - 1
        /\ \A p \in DOMAIN cmds' : cmds'[p] = cmds[p + 1]
        /\ Head(cmds) = cmds[1]
    BY <1>1, <1>2
  <1>4. \A p \in DOMAIN cmds : p = 1 \/ (p - 1 \in DOMAIN cmds' /\ cmds'[p - 1] = cmds[p])
    BY <1>1, <1>2, <1>3
  <1>5. ASSUME cmds' = <<>> PROVE Len(cmds) = 1
    <2>1. cmds' \in Seq(Command)
      BY <1>1, HeadTailProperties
    <2>2. Len(cmds') = 0
      BY <1>5, <2>1, EmptySeq
    <2>3. Len(cmds') = Len(cmds) - 1
      BY <1>3
    <2> QED BY <1>1, <2>2, <2>3
  <1>6. cmds' # <<>> => Len(cmds) > 1
    BY <1>1, <1>2, <1>3
  <1>7. cmds' # <<>> => cmds'[Len(cmds')] = cmds[Len(cmds)]
    BY <1>1, <1>2, <1>3, <1>6
  <1>8. \A d : InBuffer(d) => InBuffer(d)' \/ d = Head(cmds)
    BY <1>3, <1>4 DEF InBuffer
  <1>9. \A p \in DOMAIN cmds' : \E q \in DOMAIN cmds : cmds'[p] = cmds[q]
    BY <1>1, <1>3
  <1> QED BY <1>1, <1>2, <1>3, <1>5, <1>7, <1>8, <1>9

(* What a dispatched command does to the WaitAll commands.                 *)
LEMMA DispatchEffect ==
  ASSUME TypeInv, NEW c \in Command, Dispatch(c),
         c.type = "WaitAll" => c.id \in 1 .. Len(wait_all) + 1
  PROVE  /\ cur' = c
         /\ pc'[Worker] = CASE c.type = "Hardware" -> "launch"
                            [] c.type = "BatchSync" -> "batch"
                            [] OTHER -> "allCheck"
         /\ ret' = "done"
         /\ c.type \in {"WaitAll", "Destroy"} => Serving'
         /\ DOMAIN wait_all \subseteq DOMAIN wait_all'
         /\ \A w \in DOMAIN wait_all' :
              \/ w \in DOMAIN wait_all /\ wait_all'[w] = wait_all[w]
              \/ c = WaitAll(w)
         /\ c.type # "WaitAll" => wait_all' = wait_all
         /\ c.type = "WaitAll" => c.id \in DOMAIN wait_all'
  <1>0. /\ wait_all \in Seq(CmdState)
        /\ Len(wait_all) \in Nat /\ DOMAIN wait_all = 1 .. Len(wait_all)
        /\ pc \in [Threads -> Labels] /\ Worker \in Threads
    BY BufferFacts
  <1>1. /\ cur' = c /\ ret' = "done"
        /\ pc'[Worker] = CASE c.type = "Hardware" -> "launch"
                            [] c.type = "BatchSync" -> "batch"
                            [] OTHER -> "allCheck"
    BY <1>0 DEF Dispatch, Goto
  <1>2. c.type \in {"WaitAll", "Destroy"} => Serving'
    BY <1>1 DEF Serving
  <1>3. CASE c.type # "WaitAll"
    BY <1>1, <1>2, <1>3 DEF Dispatch
  <1>4. CASE c.type = "WaitAll" /\ c.id \in DOMAIN wait_all
    <2>1. wait_all' = [wait_all EXCEPT ![c.id] = InFlight]
      BY <1>4 DEF Dispatch
    <2>2. c = WaitAll(c.id)
      BY <1>4, SameCommand
    <2> QED BY <1>0, <1>1, <1>2, <1>4, <2>1, <2>2
  <1>5. CASE c.type = "WaitAll" /\ c.id \notin DOMAIN wait_all
    <2>1. wait_all' = Append(wait_all, InFlight)
      BY <1>5 DEF Dispatch
    <2>2. /\ DOMAIN wait_all' = 1 .. Len(wait_all) + 1
          /\ \A w \in DOMAIN wait_all : wait_all'[w] = wait_all[w]
      BY <1>0, <2>1
    <2>3. c = WaitAll(c.id)
      BY <1>5, SameCommand
    <2> QED BY <1>0, <1>1, <1>2, <1>5, <2>2, <2>3
  <1> QED BY <1>3, <1>4, <1>5

LEMMA KnownStep ==
  ASSUME TypeInv, Known, [Next]_vars
  PROVE  Known' /\ DOMAIN wait_all \subseteq DOMAIN wait_all'
  <1>0. /\ wait_all \in Seq(CmdState)
        /\ Len(wait_all) \in Nat /\ DOMAIN wait_all = 1 .. Len(wait_all)
        /\ \A p \in DOMAIN cmds : cmds[p] \in Command
    BY BufferFacts
  <1>1. CASE ~Buffers
    BY <1>1, QuietStep DEF Known
  <1>2. CASE WorkerTake
    <2>1. CASE \E c \in ToSet(cmds) : DequeueFront(c) /\ Dispatch(c)
      <3>1. PICK c \in ToSet(cmds) : DequeueFront(c) /\ Dispatch(c)
        BY <2>1
      <3>2. cmds # <<>> /\ cmds' = Tail(cmds) /\ c = Head(cmds) /\ last_cmd' = last_cmd
        BY <3>1 DEF DequeueFront
      <3>3. c = cmds[1] /\ 1 \in DOMAIN cmds /\ c \in Command
            /\ \A p \in DOMAIN cmds' : \E q \in DOMAIN cmds : cmds'[p] = cmds[q]
        BY <3>2, <1>0, Taken
      <3>4. c.type = "WaitAll" => c.id \in DOMAIN wait_all
        BY <3>3 DEF Known
      <3>5. /\ cur' = c /\ DOMAIN wait_all \subseteq DOMAIN wait_all'
            /\ c.type = "WaitAll" => c.id \in DOMAIN wait_all'
        BY <3>1, <3>3, <3>4, <1>0, DispatchEffect
      <3> QED BY <3>2, <3>3, <3>5 DEF Known
    <2>2. CASE \E c \in {BatchSync, WaitAll(Len(wait_all) + 1)} :
                 DequeueGenerate(c) /\ Dispatch(c)
      <3>1. PICK c \in {BatchSync, WaitAll(Len(wait_all) + 1)} :
              DequeueGenerate(c) /\ Dispatch(c)
        BY <2>2
      <3>2. cmds = <<>> /\ cmds' = cmds /\ last_cmd' = c
        BY <3>1 DEF DequeueGenerate
      <3>3. c \in Command /\ (c.type = "WaitAll" => c.id = Len(wait_all) + 1)
        BY <1>0 DEF BatchSync, WaitAll, Command, CmdType
      <3>4. /\ cur' = c /\ DOMAIN wait_all \subseteq DOMAIN wait_all'
            /\ c.type = "WaitAll" => c.id \in DOMAIN wait_all'
        BY <3>1, <3>3, <1>0, DispatchEffect
      <3> QED BY <3>2, <3>4 DEF Known
    <2> QED BY <1>2, <2>1, <2>2 DEF WorkerTake
  <1>3. CASE WorkerIdle
    BY <1>3 DEF WorkerIdle, DequeueIdle, Known
  <1>4. CASE WorkerDone
    <2>1. UNCHANGED <<cmds, last_cmd, cur>> /\ DOMAIN wait_all' = DOMAIN wait_all
      BY <1>4 DEF WorkerDone, CompleteCur
    <2> QED BY <2>1 DEF Known
  <1>5. ASSUME NEW t \in Apps, AppBuffers(t)
        PROVE  Known' /\ DOMAIN wait_all \subseteq DOMAIN wait_all'
    <2>0. cur' = cur
      BY <1>5 DEF AppBuffers, SubmitEnqueue, CallWaitAll, SubmitWaitAll, workerVars
    <2>1. CASE SubmitEnqueue(t)
      <3>1. cmds' = Append(cmds, Hardware(arg[t])) /\ last_cmd' = Hardware(arg[t])
            /\ wait_all' = wait_all
        BY <2>1 DEF SubmitEnqueue, EnqueueHardware
      <3>2. Hardware(arg[t]) \in Command /\ Hardware(arg[t]).type = "Hardware"
        BY TypeFacts DEF Hardware, Command, CmdType
      <3>3. \A p \in DOMAIN cmds' : cmds'[p] = Hardware(arg[t])
               \/ (p \in DOMAIN cmds /\ cmds'[p] = cmds[p])
        BY <3>1, <3>2, Appended
      <3> QED BY <2>0, <3>1, <3>2, <3>3 DEF Known
    <2>2. CASE CallWaitAll(t) \/ SubmitWaitAll(t)
      <3>1. PICK w \in 1 .. Len(wait_all) + 1 : EnqueueXQueueWaitAllCommand(w)
        BY <2>2 DEF CallWaitAll, SubmitWaitAll
      <3>2. CASE UNCHANGED bufVars
        BY <2>0, <3>2 DEF bufVars, Known
      <3>3. CASE ~UNCHANGED bufVars
        <4>1. /\ w = Len(wait_all) + 1 /\ wait_all' = Append(wait_all, Pending)
              /\ last_cmd' = WaitAll(w) /\ cmds' = Append(cmds, WaitAll(w))
          BY <3>1, <3>3 DEF EnqueueXQueueWaitAllCommand
        <4>2. WaitAll(w) \in Command /\ WaitAll(w).id = w /\ WaitAll(w).type = "WaitAll"
          BY <1>0 DEF WaitAll, Command, CmdType
        <4>3. \A p \in DOMAIN cmds' : cmds'[p] = WaitAll(w)
                 \/ (p \in DOMAIN cmds /\ cmds'[p] = cmds[p])
          BY <4>1, <4>2, Appended
        <4>4. DOMAIN wait_all' = 1 .. Len(wait_all) + 1
          BY <4>1, <1>0
        <4>5. DOMAIN wait_all \subseteq DOMAIN wait_all' /\ w \in DOMAIN wait_all'
          BY <4>1, <4>4, <1>0
        <4> QED BY <2>0, <4>1, <4>2, <4>3, <4>5 DEF Known
      <3> QED BY <3>2, <3>3
    <2> QED BY <1>5, <2>1, <2>2 DEF AppBuffers
  <1>6. ASSUME NEW k \in Controllers, ControlBuffers(k)
        PROVE  Known' /\ DOMAIN wait_all \subseteq DOMAIN wait_all'
    <2>1. CASE ResumeDropAll(k)
      <3>1. /\ cmds' = <<>> /\ DOMAIN wait_all' = DOMAIN wait_all
            /\ UNCHANGED <<cur, last_cmd>>
        BY <2>1 DEF ResumeDropAll, DropAll
      <3> QED BY <3>1 DEF Known
    <2>2. CASE DestructEnqueue(k)
      <3>1. /\ cmds' = Append(cmds, Destroy) /\ last_cmd' = Destroy
            /\ UNCHANGED <<cur, wait_all>>
        BY <2>2 DEF DestructEnqueue, EnqueueDestroy
      <3>2. Destroy \in Command /\ Destroy.type = "Destroy"
        BY DEF Destroy, Command, CmdType
      <3>3. \A p \in DOMAIN cmds' : cmds'[p] = Destroy
               \/ (p \in DOMAIN cmds /\ cmds'[p] = cmds[p])
        BY <3>1, <3>2, Appended
      <3> QED BY <3>1, <3>2, <3>3 DEF Known
    <2> QED BY <1>6, <2>1, <2>2 DEF ControlBuffers
  <1> QED BY <1>1, <1>2, <1>3, <1>4, <1>5, <1>6 DEF Buffers

(* A WaitAll command that is not completed stays with somebody.            *)
LEMMA AwaitedStep ==
  ASSUME TypeInv, LaunchesHardware, Known, Awaited, [Next]_vars
  PROVE  Awaited'
  <1>0. /\ wait_all \in Seq(CmdState)
        /\ Len(wait_all) \in Nat /\ DOMAIN wait_all = 1 .. Len(wait_all)
        /\ \A p \in DOMAIN cmds : cmds[p] \in Command
        /\ \A w : WaitAll(w).type = "WaitAll" /\ WaitAll(w).id = w
    BY BufferFacts DEF WaitAll
  <1>1. CASE ~Buffers
    <2>1. UNCHANGED <<wait_all, cmds, cur>>
      BY <1>1, QuietStep
    <2>2. \A w : cur = WaitAll(w) /\ Serving => Serving'
      BY <1>0, <1>1, ServingMoves DEF Buffers
    <2> QED BY <2>1, <2>2 DEF Awaited, InBuffer
  <1>2. CASE WorkerTake
    <2>0. ~Serving
      BY <1>2 DEF WorkerTake, Serving
    <2>1. CASE \E c \in ToSet(cmds) : DequeueFront(c) /\ Dispatch(c)
      <3>1. PICK c \in ToSet(cmds) : DequeueFront(c) /\ Dispatch(c)
        BY <2>1
      <3>2. cmds # <<>> /\ cmds' = Tail(cmds) /\ c = Head(cmds)
        BY <3>1 DEF DequeueFront
      <3>3. /\ c = cmds[1] /\ 1 \in DOMAIN cmds /\ c \in Command
            /\ \A d : InBuffer(d) => InBuffer(d)' \/ d = c
        BY <3>2, <1>0, Taken
      <3>4. c.type = "WaitAll" => c.id \in DOMAIN wait_all
        BY <3>3 DEF Known
      <3>5. /\ cur' = c /\ (c.type = "WaitAll" => Serving')
            /\ \A w \in DOMAIN wait_all' :
                 \/ w \in DOMAIN wait_all /\ wait_all'[w] = wait_all[w]
                 \/ c = WaitAll(w)
        BY <3>1, <3>3, <3>4, <1>0, DispatchEffect
      <3>6. ASSUME NEW w \in DOMAIN wait_all', wait_all'[w] # Completed
            PROVE  InBuffer(WaitAll(w))' \/ (cur' = WaitAll(w) /\ Serving')
        <4>1. CASE c = WaitAll(w)
          BY <4>1, <3>5, <1>0
        <4>2. CASE w \in DOMAIN wait_all /\ wait_all'[w] = wait_all[w]
          BY <4>1, <4>2, <3>3, <3>6, <2>0 DEF Awaited
        <4> QED BY <4>1, <4>2, <3>5
      <3>7. \A w : WaitAll(w)' = WaitAll(w)
        BY DEF WaitAll
      <3> QED BY <3>6 DEF Awaited, InBuffer
    <2>2. CASE \E c \in {BatchSync, WaitAll(Len(wait_all) + 1)} :
                 DequeueGenerate(c) /\ Dispatch(c)
      <3>1. PICK c \in {BatchSync, WaitAll(Len(wait_all) + 1)} :
              DequeueGenerate(c) /\ Dispatch(c)
        BY <2>2
      <3>2. cmds = <<>> /\ cmds' = cmds
        BY <3>1 DEF DequeueGenerate
      <3>3. c \in Command /\ (c.type = "WaitAll" => c.id = Len(wait_all) + 1)
        BY <1>0 DEF BatchSync, WaitAll, Command, CmdType
      <3>5. /\ cur' = c /\ (c.type = "WaitAll" => Serving')
            /\ \A w \in DOMAIN wait_all' :
                 \/ w \in DOMAIN wait_all /\ wait_all'[w] = wait_all[w]
                 \/ c = WaitAll(w)
        BY <3>1, <3>3, <1>0, DispatchEffect
      <3>6. ASSUME NEW w \in DOMAIN wait_all', wait_all'[w] # Completed
            PROVE  cur' = WaitAll(w) /\ Serving'
        <4>1. ~(w \in DOMAIN wait_all /\ wait_all'[w] = wait_all[w])
          BY <3>2, <3>6, <2>0 DEF Awaited, InBuffer
        <4> QED BY <4>1, <3>5, <1>0
      <3> QED BY <3>6 DEF Awaited
    <2> QED BY <1>2, <2>1, <2>2 DEF WorkerTake
  <1>3. CASE WorkerIdle
    BY <1>3 DEF WorkerIdle, DequeueIdle, Awaited, Serving, InBuffer
  <1>4. CASE WorkerDone
    <2>1. UNCHANGED <<cmds, cur>> /\ DOMAIN wait_all' = DOMAIN wait_all
      BY <1>4 DEF WorkerDone, CompleteCur
    <2>2. \A w \in DOMAIN wait_all : wait_all'[w] # Completed =>
            wait_all[w] # Completed /\ cur # WaitAll(w)
      BY <1>0, <1>4 DEF WorkerDone, CompleteCur, Known
    <2> QED BY <2>1, <2>2 DEF Awaited, InBuffer
  <1>5. ASSUME NEW t \in Apps, AppBuffers(t)
        PROVE  Awaited'
    <2>0. cur' = cur /\ Serving' = Serving
      <3>1. UNCHANGED <<cur, ret>> /\ pc'[Worker] = pc[Worker]
        BY <1>5, OthersKeepWorker DEF AppBuffers, AppCall, AppProgress, Next, Terminating
      <3> QED BY <3>1 DEF Serving
    <2>1. CASE SubmitEnqueue(t)
      <3>1. cmds' = Append(cmds, Hardware(arg[t])) /\ wait_all' = wait_all
        BY <2>1 DEF SubmitEnqueue, EnqueueHardware
      <3>2. Hardware(arg[t]) \in Command
        BY TypeFacts, <1>5, BufferFacts DEF Hardware, Command, CmdType
      <3>3. \A d : InBuffer(d) => InBuffer(d)'
        BY <3>1, <3>2, Appended
      <3> QED BY <2>0, <3>1, <3>3 DEF Awaited, InBuffer
    <2>2. CASE CallWaitAll(t) \/ SubmitWaitAll(t)
      <3>1. PICK w \in 1 .. Len(wait_all) + 1 : EnqueueXQueueWaitAllCommand(w)
        BY <2>2 DEF CallWaitAll, SubmitWaitAll
      <3>2. CASE UNCHANGED bufVars
        BY <2>0, <3>2 DEF bufVars, Awaited, InBuffer
      <3>3. CASE ~UNCHANGED bufVars
        <4>1. /\ w = Len(wait_all) + 1 /\ wait_all' = Append(wait_all, Pending)
              /\ cmds' = Append(cmds, WaitAll(w))
          BY <3>1, <3>3 DEF EnqueueXQueueWaitAllCommand
        <4>2. WaitAll(w) \in Command
          BY <1>0 DEF WaitAll, Command, CmdType
        <4>3. \A d : InBuffer(d)' <=> InBuffer(d) \/ d = WaitAll(w)
          BY <4>1, <4>2, Appended
        <4>4. \A v \in DOMAIN wait_all' :
                v = w \/ (v \in DOMAIN wait_all /\ wait_all'[v] = wait_all[v])
          BY <4>1, <1>0
        <4>5. ASSUME NEW v \in DOMAIN wait_all', wait_all'[v] # Completed
              PROVE  InBuffer(WaitAll(v))' \/ (cur = WaitAll(v) /\ Serving)
          BY <4>3, <4>4, <4>5 DEF Awaited
        <4> QED BY <2>0, <4>5 DEF Awaited, InBuffer
      <3> QED BY <3>2, <3>3
    <2> QED BY <1>5, <2>1, <2>2 DEF AppBuffers
  <1>6. ASSUME NEW k \in Controllers, ControlBuffers(k)
        PROVE  Awaited'
    <2>0. cur' = cur /\ Serving' = Serving
      <3>1. UNCHANGED <<cur, ret>> /\ pc'[Worker] = pc[Worker]
        BY <1>6, OthersKeepWorker DEF ControlBuffers, ControlProgress
      <3> QED BY <3>1 DEF Serving
    <2>1. CASE ResumeDropAll(k)
      <3>1. /\ DOMAIN wait_all' = DOMAIN wait_all
            /\ \A w \in DOMAIN wait_all : wait_all'[w] # Completed =>
                 wait_all[w] # Completed /\ ~InBuffer(WaitAll(w))
        BY <2>1 DEF ResumeDropAll, DropAll, InBuffer
      <3> QED BY <2>0, <3>1 DEF Awaited
    <2>2. CASE DestructEnqueue(k)
      <3>1. cmds' = Append(cmds, Destroy) /\ wait_all' = wait_all
        BY <2>2 DEF DestructEnqueue, EnqueueDestroy
      <3>2. Destroy \in Command
        BY DEF Destroy, Command, CmdType
      <3>3. \A d : InBuffer(d) => InBuffer(d)'
        BY <3>1, <3>2, Appended
      <3> QED BY <2>0, <3>1, <3>3 DEF Awaited, InBuffer
    <2> QED BY <1>6, <2>1, <2>2 DEF ControlBuffers
  <1> QED BY <1>1, <1>2, <1>3, <1>4, <1>5, <1>6 DEF Buffers

(* Only the destructor reaches its last steps, and only a controller's own *)
(* steps move it.                                                          *)
LEMMA ControlKept ==
  ASSUME TypeInv, NEW k \in Controllers, [Next]_vars,
         ~ControlCall(k), ~ControlProgress(k)
  PROVE  pc'[k] = pc[k] /\ arg'[k] = arg[k]
  <1>0. /\ pc \in [Threads -> Labels] /\ arg \in [Threads -> Nat]
        /\ k \in Threads /\ k # Worker /\ k \notin Apps /\ Worker \in Threads
    BY ThreadsAssumption DEF TypeInv, TypeOK, ApiTypeOK, WorkerTypeOK, Labels, Threads
  <1>1. CASE WorkerStep
    <2>1. /\ pc' = pc \/ \E l : pc' = [pc EXCEPT ![Worker] = l]
          /\ arg' = arg \/ \E i : arg' = [arg EXCEPT ![Worker] = i]
      <3>1. CASE WorkerTake \/ WorkerIdle \/ WorkerDone
        BY <3>1 DEF WorkerTake, Dispatch, WorkerIdle, WorkerDone, Goto
      <3>2. CASE LaunchBegin \/ LaunchFull \/ AwaitRunning \/ WorkerBatch
        BY <3>2 DEF LaunchBegin, LaunchFull, AwaitRunning, WorkerBatch, BeginSyncCmd,
           BeginSyncAll, Goto
      <3>3. CASE LaunchDropped \/ Launch
        BY <3>3 DEF LaunchDropped, Launch, Goto
      <3>4. CASE SyncAllCheck \/ SyncAllHw \/ SyncAllPost
        BY <3>4 DEF SyncAllCheck, SyncAllHw, SyncAllPost, ReturnFromSync, Goto
      <3>5. CASE SyncCmdCheck(Worker) \/ SyncCmdHw(Worker) \/ SyncCmdPost(Worker)
                 \/ CvWait(Worker)
        BY <3>5 DEF SyncCmdCheck, SyncCmdHw, SyncCmdPost, CvWait, ReturnFromSync, Goto,
           threadVars
      <3> QED BY <1>1, <3>1, <3>2, <3>3, <3>4, <3>5 DEF WorkerStep
    <2> QED BY <1>0, <2>1
  <1>2. CASE HwStep \/ UNCHANGED vars
    BY <1>2 DEF HwStep, vars, workerVars
  <1>3. ASSUME NEW t \in Apps, AppCall(t) \/ AppProgress(t)
        PROVE  pc'[k] = pc[k] /\ arg'[k] = arg[k]
    <2>1. t # k
      BY <1>0
    <2>2. /\ pc' = pc \/ \E l : pc' = [pc EXCEPT ![t] = l]
          /\ arg' = arg \/ \E i : arg' = [arg EXCEPT ![t] = i]
      <3>1. CASE SubmitDraw(t) \/ SubmitEnqueue(t)
        BY <3>1 DEF SubmitDraw, SubmitEnqueue, Return, Goto
      <3>2. CASE WaitCmd(t) \/ CmdReached(t) \/ CallWaitAll(t) \/ SubmitWaitAll(t)
        BY <3>2 DEF WaitCmd, CmdReached, CallWaitAll, SubmitWaitAll, Return, Goto, workerVars
      <3>3. CASE SyncCmdCheck(t) \/ SyncCmdHw(t) \/ SyncCmdPost(t) \/ CvWait(t)
        BY <3>3 DEF SyncCmdCheck, SyncCmdHw, SyncCmdPost, CvWait, ReturnFromSync, Goto,
           threadVars
      <3> QED BY <1>3, <3>1, <3>2, <3>3 DEF AppCall, AppProgress
    <2> QED BY <1>0, <2>1, <2>2
  <1>4. ASSUME NEW j \in Controllers, ControlCall(j) \/ ControlProgress(j)
        PROVE  pc'[k] = pc[k] /\ arg'[k] = arg[k]
    <2>1. j # k
      BY <1>4
    <2>2. /\ \E l : pc' = [pc EXCEPT ![j] = l]
          /\ arg' = arg \/ \E i : arg' = [arg EXCEPT ![j] = i]
      <3>1. CASE Suspend(j) \/ ResumeBegin(j) \/ DestructBegin(j)
        BY <3>1 DEF Suspend, ResumeBegin, DestructBegin, BeginResume, DestructResume, Goto
      <3>2. CASE SuspendPause(j) \/ SuspendDeactivate(j) \/ SuspendSyncHw(j)
        BY <3>2 DEF SuspendPause, SuspendDeactivate, SuspendSyncHw, Goto
      <3>3. CASE ReactivateSync(j) \/ ReactivateRead(j) \/ ReactivateClear(j)
                 \/ ReactivateRelaunch(j)
        BY <3>3 DEF ReactivateSync, ReactivateRead, ReactivateClear, ReactivateRelaunch, Goto
      <3>4. CASE ResumeWorker(j) \/ ResumeDropAll(j) \/ ResumeDropIdx(j) \/ ResumeDrop(j)
        BY <3>4 DEF ResumeWorker, ResumeDropAll, ResumeDropIdx, ResumeDrop, EndResume, Goto
      <3>5. CASE DestructEnqueue(j) \/ DestructWait(j)
        BY <3>5 DEF DestructEnqueue, DestructWait, Goto
      <3> QED BY <1>4, <3>1, <3>2, <3>3, <3>4, <3>5 DEF ControlCall, ControlProgress
    <2> QED BY <1>0, <2>1, <2>2
  <1> QED BY <1>1, <1>2, <1>3, <1>4, NextCases DEF Others

(* suspended_ and terminated_ are the controllers'.                        *)
LEMMA FlagsKept ==
  ASSUME [Next]_vars, \A k \in Controllers : ~ControlCall(k) /\ ~ControlProgress(k)
  PROVE  UNCHANGED <<suspended, terminated>>
  <1>1. CASE UNCHANGED apiVars \/ UNCHANGED vars \/ HwStep
    BY <1>1 DEF apiVars, vars, HwStep
  <1>2. ASSUME NEW t \in Apps, AppCall(t) \/ AppProgress(t)
        PROVE  UNCHANGED <<suspended, terminated>>
    <2>1. CASE AppBuffers(t)
      BY <2>1 DEF AppBuffers, SubmitEnqueue, CallWaitAll, SubmitWaitAll, apiVars
    <2>2. CASE ~AppBuffers(t)
      BY <1>2, <2>2, QuietApp
    <2> QED BY <2>1, <2>2
  <1> QED BY <1>1, <1>2, NextCases DEF Others

LEMMA AliveStep ==
  ASSUME TypeInv, Alive, [Next]_vars
  PROVE  Alive' /\ (terminated => terminated')
  <1>0. pc \in [Threads -> Labels] /\ Controllers \subseteq Threads
    BY TypeFacts
  <1>1. CASE \A k \in Controllers : ~ControlCall(k) /\ ~ControlProgress(k)
    BY <1>1, ControlKept, FlagsKept DEF Alive
  <1>2. ASSUME NEW k \in Controllers, ControlCall(k) \/ ControlProgress(k)
        PROVE  Alive' /\ (terminated => terminated')
    <2>1. terminated' = terminated \/ terminated' = TRUE
      BY <1>2 DEF ControlCall, ControlProgress, Suspend, ResumeBegin, DestructBegin,
         SuspendPause, SuspendDeactivate, SuspendSyncHw, ReactivateSync, ReactivateRead,
         ReactivateClear, ReactivateRelaunch, ResumeWorker, ResumeDropAll, ResumeDropIdx,
         ResumeDrop, DestructEnqueue, DestructWait, apiVars
    <2>2. ASSUME ~terminated'
          PROVE  \E l \in Labels \ {"enqDestroy", "waitDestroy", "destroyed"} :
                   pc' = [pc EXCEPT ![k] = l]
      <3>1. ~terminated
        BY <2>1, <2>2
      <3>2. CASE Suspend(k) \/ ResumeBegin(k)
        BY <3>2 DEF Suspend, ResumeBegin, BeginResume, Goto, Labels, ControlLabels
      <3>3. CASE DestructBegin(k)
        BY <2>2, <3>3 DEF DestructBegin
      <3>4. CASE SuspendPause(k) \/ SuspendDeactivate(k) \/ SuspendSyncHw(k)
        BY <3>4 DEF SuspendPause, SuspendDeactivate, SuspendSyncHw, Goto, Labels, ControlLabels
      <3>5. CASE ReactivateSync(k) \/ ReactivateRead(k) \/ ReactivateClear(k)
                 \/ ReactivateRelaunch(k)
        BY <3>5 DEF ReactivateSync, ReactivateRead, ReactivateClear, ReactivateRelaunch, Goto,
           Labels, ControlLabels
      <3>6. CASE ResumeWorker(k) \/ ResumeDropAll(k) \/ ResumeDropIdx(k) \/ ResumeDrop(k)
        BY <3>1, <3>6 DEF ResumeWorker, ResumeDropAll, ResumeDropIdx, ResumeDrop, EndResume,
           Goto, Labels, ControlLabels
      <3>7. CASE DestructEnqueue(k) \/ DestructWait(k)
        BY <3>1, <3>7 DEF DestructEnqueue, DestructWait, Alive
      <3> QED BY <1>2, <3>2, <3>3, <3>4, <3>5, <3>6, <3>7 DEF ControlCall, ControlProgress
    <2>3. ~terminated' => ~terminated
      BY <2>1
    <2> QED BY <1>0, <2>1, <2>2, <2>3 DEF Alive
  <1> QED BY <1>1, <1>2

LEMMA RestingStep ==
  ASSUME TypeInv, LaunchesHardware, Known, Awaited, Alive, Resting, [Next]_vars
  PROVE  Resting'
  <1>0. /\ wait_all \in Seq(CmdState)
        /\ Len(wait_all) \in Nat /\ DOMAIN wait_all = 1 .. Len(wait_all)
        /\ terminated => terminated'
    BY BufferFacts, AliveStep
  <1>1. CASE ~Buffers
    BY <1>0, <1>1, QuietStep DEF Resting
  <1>2. CASE WorkerTake
    <2>1. CASE ~terminated /\ xq_state = "Idle"
      BY <1>2, <2>1 DEF WorkerTake, DequeueFront, DequeueGenerate, Resting
    <2>2. CASE terminated \/ xq_state # "Idle"
      <3>1. xq_state' = xq_state
        BY <1>2 DEF WorkerTake, DequeueFront, DequeueGenerate
      <3> QED BY <1>0, <2>2, <3>1 DEF Resting
    <2> QED BY <2>1, <2>2
  <1>3. CASE WorkerIdle
    <2>1. /\ cmds = <<>> /\ last_cmd.type = "WaitAll"
          /\ UNCHANGED <<cmds, last_cmd, wait_all>> /\ ~Serving
      BY <1>3 DEF WorkerIdle, DequeueIdle, Serving
    <2>2. \A d : ~InBuffer(d)
      BY <2>1 DEF InBuffer
    <2>3. wait_all[last_cmd.id] = Completed
      BY <2>1, <2>2 DEF Known, Awaited
    <2> QED BY <2>1, <2>3 DEF Resting
  <1>4. CASE WorkerDone
    <2>1. /\ UNCHANGED <<cmds, last_cmd, xq_state>>
          /\ \A w \in DOMAIN wait_all : wait_all[w] = Completed => wait_all'[w] = Completed
      BY <1>0, <1>4 DEF WorkerDone, CompleteCur
    <2> QED BY <1>0, <2>1 DEF Resting, Known
  <1>5. ASSUME NEW t \in Apps, AppBuffers(t)
        PROVE  Resting'
    <2>1. CASE SubmitEnqueue(t)
      BY <2>1 DEF SubmitEnqueue, EnqueueHardware, Resting
    <2>2. CASE CallWaitAll(t) \/ SubmitWaitAll(t)
      <3>1. \E w \in 1 .. Len(wait_all) + 1 : EnqueueXQueueWaitAllCommand(w)
        BY <2>2 DEF CallWaitAll, SubmitWaitAll
      <3>2. UNCHANGED bufVars \/ (xq_state # "Idle" /\ xq_state' = xq_state)
        BY <3>1 DEF EnqueueXQueueWaitAllCommand
      <3> QED BY <1>0, <3>2 DEF Resting, bufVars
    <2> QED BY <1>5, <2>1, <2>2 DEF AppBuffers
  <1>6. ASSUME NEW k \in Controllers, ControlBuffers(k)
        PROVE  Resting'
    <2>1. CASE ResumeDropAll(k)
      <3>1. /\ cmds' = <<>> /\ UNCHANGED <<last_cmd, xq_state>>
            /\ \A w \in DOMAIN wait_all : wait_all[w] = Completed => wait_all'[w] = Completed
        BY <2>1 DEF ResumeDropAll, DropAll
      <3> QED BY <1>0, <3>1 DEF Resting, Known
    <2>2. CASE DestructEnqueue(k)
      <3>1. terminated
        BY <2>2 DEF DestructEnqueue, Alive
      <3> QED BY <1>0, <3>1 DEF Resting
    <2> QED BY <1>6, <2>1, <2>2 DEF ControlBuffers
  <1> QED BY <1>1, <1>2, <1>3, <1>4, <1>5, <1>6 DEF Buffers

RestIInv == TypeInv /\ LaunchesHardware /\ RestInv

LEMMA TypeStart == Init => TypeInv /\ LaunchesHardware
  <1>1. Init => LaunchesHardware
    BY DEF Init, WorkerInit, LaunchesHardware, Launching, SyncCmdLabels, Threads
  <1> QED BY <1>1, TypeInit

LEMMA RestStart == Init => RestInv
  <1> SUFFICES ASSUME Init PROVE RestInv OBVIOUS
  <1>1. /\ wait_all = <<Completed>> /\ cmds = <<>> /\ last_cmd = WaitAll(1)
        /\ cur = WaitAll(1) /\ \A k \in Controllers : pc[k] = "idle"
    BY ThreadsAssumption DEF Init, BufInit, WorkerInit, Threads
  <1>2. DOMAIN wait_all = {1} /\ wait_all[1] = Completed
    BY <1>1
  <1>3. Known
    BY <1>1, <1>2 DEF Known, WaitAll
  <1>4. Awaited
    BY <1>2 DEF Awaited
  <1> QED BY <1>1, <1>2, <1>3, <1>4 DEF RestInv, Alive, Resting, WaitAll

(* Nothing is assumed of the threads: while the queue can still be used,   *)
(* the last command of an idle queue is a WaitAll that is completed, which *)
(* EnqueueXQueueWaitAllCommand asserts and hands out again.                *)
THEOREM IdleEnds == Spec => []IdleEndsWithWaitAll
  <1>1. Init => RestIInv
    BY TypeStart, RestStart DEF RestIInv
  <1>2. RestIInv /\ [Next]_vars => RestIInv'
    BY TypeStep, LaunchesHardwareStep, KnownStep, AwaitedStep, AliveStep, RestingStep
       DEF RestIInv, RestInv
  <1>3. RestIInv => IdleEndsWithWaitAll
    BY DEF RestIInv, RestInv, Resting, IdleEndsWithWaitAll
  <1> QED BY <1>1, <1>2, <1>3, PTL DEF Spec

-----------------------------------------------------------------------------
(***************************************************************************)
(* suspended_ and the worker, with one controller.                         *)
(*                                                                         *)
(* What the controller does next says whether the worker is paused: from   *)
(* the Pause of a Suspend to the end of the next Resume.  The worker ends  *)
(* only on the Destroy command, which the controller enqueues last.        *)
(***************************************************************************)
Resuming == {"reSync", "reRead", "reClear", "relaunch", "resume", "dropAll", "dropIdx",
             "dropResume"}
Ending   == {"waitDestroy", "destroyed"}

Matches(k) ==
  /\ pc[k] = "idle" /\ ~terminated => (suspended <=> worker_state = "Paused")
  /\ pc[k] = "pause" => suspended /\ worker_state = "Running"
  /\ pc[k] \in {"deactivate", "syncHw"} => suspended /\ worker_state = "Paused"
  /\ pc[k] \in Resuming => ~suspended /\ worker_state = "Paused"

NotEnding(k) ==
  pc[k] \notin Ending =>
    /\ \A p \in DOMAIN cmds : cmds[p].type # "Destroy"
    /\ cur.type # "Destroy" /\ worker_state # "Terminated"

LEMMA StateKept ==
  ASSUME [Next]_vars, ~WorkerDone,
         \A k \in Controllers : ~ControlCall(k) /\ ~ControlProgress(k)
  PROVE  worker_state' = worker_state
  <1>1. CASE WorkerStep
    <2>1. CASE WorkerTake \/ WorkerIdle
      BY <2>1 DEF WorkerTake, Dispatch, WorkerIdle
    <2>2. CASE LaunchBegin \/ LaunchFull \/ AwaitRunning \/ WorkerBatch
      BY <2>2 DEF LaunchBegin, LaunchFull, AwaitRunning, WorkerBatch
    <2>3. CASE LaunchDropped \/ Launch
      BY <2>3 DEF LaunchDropped, Launch
    <2>4. CASE SyncAllCheck \/ SyncAllHw \/ SyncAllPost
      BY <2>4 DEF SyncAllCheck, SyncAllHw, SyncAllPost
    <2>5. CASE SyncCmdCheck(Worker) \/ SyncCmdHw(Worker) \/ SyncCmdPost(Worker) \/ CvWait(Worker)
      BY <2>5 DEF SyncCmdCheck, SyncCmdHw, SyncCmdPost, CvWait
    <2> QED BY <1>1, <2>1, <2>2, <2>3, <2>4, <2>5 DEF WorkerStep
  <1>2. CASE HwStep \/ UNCHANGED vars
    BY <1>2 DEF HwStep, vars, workerVars
  <1>3. ASSUME NEW t \in Apps, AppCall(t) \/ AppProgress(t)
        PROVE  worker_state' = worker_state
    <2>1. CASE SubmitDraw(t) \/ SubmitEnqueue(t)
      BY <2>1 DEF SubmitDraw, SubmitEnqueue
    <2>2. CASE WaitCmd(t) \/ CmdReached(t) \/ CallWaitAll(t) \/ SubmitWaitAll(t)
      BY <2>2 DEF WaitCmd, CmdReached, CallWaitAll, SubmitWaitAll, workerVars
    <2>3. CASE SyncCmdCheck(t) \/ SyncCmdHw(t) \/ SyncCmdPost(t) \/ CvWait(t)
      BY <2>3 DEF SyncCmdCheck, SyncCmdHw, SyncCmdPost, CvWait
    <2> QED BY <1>3, <2>1, <2>2, <2>3 DEF AppCall, AppProgress
  <1> QED BY <1>1, <1>2, <1>3, NextCases DEF Others

LEMMA NotEndingStep ==
  ASSUME TypeInv, NEW k \in Controllers, OneController(k), NotEnding(k), [Next]_vars
  PROVE  NotEnding(k)'
  <1>0. /\ pc \in [Threads -> Labels] /\ k \in Threads /\ Controllers = {k}
        /\ \A p \in DOMAIN cmds : cmds[p] \in Command
    BY TypeFacts, BufferFacts DEF OneController
  <1>1. CASE ControlCall(k) \/ ControlProgress(k)
    <2>1. CASE DestructEnqueue(k) \/ DestructWait(k)
      BY <1>0, <2>1 DEF DestructEnqueue, DestructWait, Goto, NotEnding, Ending
    <2>2. CASE ~DestructEnqueue(k) /\ ~DestructWait(k)
      <3>1. /\ pc[k] \notin Ending
            /\ worker_state' \in {worker_state, "Running", "Paused"}
        <4>1. CASE Suspend(k) \/ ResumeBegin(k) \/ DestructBegin(k)
          BY <4>1 DEF Suspend, ResumeBegin, DestructBegin, Ending
        <4>2. CASE SuspendPause(k) \/ SuspendDeactivate(k) \/ SuspendSyncHw(k)
          BY <4>2 DEF SuspendPause, SuspendDeactivate, SuspendSyncHw, Pause, Ending
        <4>3. CASE ReactivateSync(k) \/ ReactivateRead(k) \/ ReactivateClear(k)
                   \/ ReactivateRelaunch(k)
          BY <4>3 DEF ReactivateSync, ReactivateRead, ReactivateClear, ReactivateRelaunch,
             Ending
        <4>4. CASE ResumeWorker(k) \/ ResumeDropAll(k) \/ ResumeDropIdx(k) \/ ResumeDrop(k)
          BY <4>4 DEF ResumeWorker, ResumeDropAll, ResumeDropIdx, ResumeDrop, Resume,
             ResumeAndDrop, Ending
        <4> QED BY <1>1, <2>2, <4>1, <4>2, <4>3, <4>4 DEF ControlCall, ControlProgress
      <3>2. cur' = cur
        BY <1>1, OthersKeepWorker
      <3>3. cmds' = cmds \/ cmds' = <<>>
        <4>1. CASE ResumeDropAll(k)
          BY <4>1 DEF ResumeDropAll, DropAll
        <4>2. CASE ~ResumeDropAll(k)
          BY <1>1, <2>2, <4>2, QuietControl DEF ControlBuffers
        <4> QED BY <4>1, <4>2
      <3> QED BY <3>1, <3>2, <3>3 DEF NotEnding
    <2> QED BY <2>1, <2>2
  <1>2. CASE ~ControlCall(k) /\ ~ControlProgress(k)
    <2>0. pc'[k] = pc[k]
      BY <1>2, ControlKept
    <2> SUFFICES ASSUME pc[k] \notin Ending
                 PROVE  /\ \A p \in DOMAIN cmds' : cmds'[p].type # "Destroy"
                        /\ cur'.type # "Destroy" /\ worker_state' # "Terminated"
      BY <2>0 DEF NotEnding
    <2>1. /\ \A p \in DOMAIN cmds : cmds[p].type # "Destroy"
          /\ cur.type # "Destroy" /\ worker_state # "Terminated"
      BY DEF NotEnding
    <2>2. worker_state' # "Terminated"
      <3>1. CASE WorkerDone
        BY <2>1, <3>1 DEF WorkerDone
      <3>2. CASE ~WorkerDone
        BY <1>0, <1>2, <2>1, <3>2, StateKept
      <3> QED BY <3>1, <3>2
    <2>3. CASE ~Buffers
      BY <2>1, <2>2, <2>3, QuietStep
    <2>4. CASE WorkerTake
      <3>1. CASE \E c \in ToSet(cmds) : DequeueFront(c) /\ Dispatch(c)
        <4>1. PICK c \in ToSet(cmds) : DequeueFront(c) /\ Dispatch(c)
          BY <3>1
        <4>2. cmds # <<>> /\ cmds' = Tail(cmds) /\ c = Head(cmds) /\ cur' = c
          BY <4>1 DEF DequeueFront, Dispatch
        <4>3. /\ c = cmds[1] /\ 1 \in DOMAIN cmds
              /\ \A p \in DOMAIN cmds' : \E q \in DOMAIN cmds : cmds'[p] = cmds[q]
          BY <4>2, Taken
        <4> QED BY <2>1, <2>2, <4>2, <4>3
      <3>2. CASE \E c \in {BatchSync, WaitAll(Len(wait_all) + 1)} :
                   DequeueGenerate(c) /\ Dispatch(c)
        BY <2>1, <2>2, <3>2 DEF DequeueGenerate, Dispatch, BatchSync, WaitAll
      <3> QED BY <2>4, <3>1, <3>2 DEF WorkerTake
    <2>5. CASE WorkerIdle \/ WorkerDone
      BY <2>1, <2>2, <2>5 DEF WorkerIdle, DequeueIdle, WorkerDone
    <2>6. ASSUME NEW t \in Apps, AppBuffers(t)
          PROVE  (\A p \in DOMAIN cmds' : cmds'[p].type # "Destroy") /\ cur' = cur
      <3>0. cur' = cur
        BY <2>6 DEF AppBuffers, SubmitEnqueue, CallWaitAll, SubmitWaitAll, workerVars
      <3>1. CASE SubmitEnqueue(t)
        <4>1. cmds' = Append(cmds, Hardware(arg[t]))
          BY <3>1 DEF SubmitEnqueue, EnqueueHardware
        <4>2. Hardware(arg[t]) \in Command /\ Hardware(arg[t]).type = "Hardware"
          BY TypeFacts DEF Hardware, Command, CmdType
        <4> QED BY <2>1, <3>0, <4>1, <4>2, Appended
      <3>2. CASE CallWaitAll(t) \/ SubmitWaitAll(t)
        <4>1. PICK w \in 1 .. Len(wait_all) + 1 : EnqueueXQueueWaitAllCommand(w)
          BY <3>2 DEF CallWaitAll, SubmitWaitAll
        <4>2. cmds' = cmds \/ cmds' = Append(cmds, WaitAll(w))
          BY <4>1 DEF EnqueueXQueueWaitAllCommand, bufVars
        <4>3. WaitAll(w) \in Command /\ WaitAll(w).type = "WaitAll"
          BY BufferFacts DEF WaitAll, Command, CmdType
        <4> QED BY <2>1, <3>0, <4>2, <4>3, Appended
      <3> QED BY <2>6, <3>1, <3>2 DEF AppBuffers
    <2> QED BY <1>0, <1>2, <2>1, <2>2, <2>3, <2>4, <2>5, <2>6
            DEF Buffers, ControlBuffers, ControlProgress
  <1> QED BY <1>1, <1>2

LEMMA MatchesStep ==
  ASSUME TypeInv, NEW k \in Controllers, OneController(k), Matches(k), NotEnding(k),
         [Next]_vars
  PROVE  Matches(k)'
  <1>0. /\ pc \in [Threads -> Labels] /\ k \in Threads /\ Controllers = {k}
        /\ worker_state \in {"Running", "Paused", "Terminated"}
        /\ suspended \in BOOLEAN /\ terminated \in BOOLEAN
    BY TypeFacts DEF OneController, TypeInv, TypeOK, WorkerTypeOK, ApiTypeOK
  <1>1. CASE Suspend(k)
    BY <1>0, <1>1 DEF Suspend, Goto, Matches, NotEnding, Ending, Resuming
  <1>2. CASE ResumeBegin(k)
    BY <1>0, <1>2 DEF ResumeBegin, BeginResume, Goto, Matches, Resuming
  <1>3. CASE DestructBegin(k)
    BY <1>0, <1>3 DEF DestructBegin, DestructResume, BeginResume, Goto, Matches, Resuming
  <1>4. CASE SuspendPause(k) \/ SuspendDeactivate(k) \/ SuspendSyncHw(k)
    BY <1>0, <1>4 DEF SuspendPause, SuspendDeactivate, SuspendSyncHw, Pause, Goto, Matches,
       Resuming, apiVars
  <1>5. CASE ReactivateSync(k) \/ ReactivateRead(k) \/ ReactivateClear(k)
             \/ ReactivateRelaunch(k)
    BY <1>0, <1>5 DEF ReactivateSync, ReactivateRead, ReactivateClear, ReactivateRelaunch,
       Goto, Matches, Resuming, apiVars
  <1>6. CASE ResumeDropAll(k) \/ ResumeDropIdx(k)
    BY <1>0, <1>6 DEF ResumeDropAll, ResumeDropIdx, Goto, Matches, Resuming, apiVars
  <1>7. CASE ResumeWorker(k) \/ ResumeDrop(k)
    BY <1>0, <1>7 DEF ResumeWorker, ResumeDrop, Resume, ResumeAndDrop, EndResume, Goto,
       Matches, Resuming
  <1>8. CASE DestructEnqueue(k) \/ DestructWait(k)
    BY <1>0, <1>8 DEF DestructEnqueue, DestructWait, Goto, Matches, Resuming
  <1>9. CASE ~ControlCall(k) /\ ~ControlProgress(k)
    <2>1. pc'[k] = pc[k] /\ UNCHANGED <<suspended, terminated>>
      BY <1>0, <1>9, ControlKept, FlagsKept
    <2>2. CASE WorkerDone
      <3>1. worker_state' = worker_state \/ pc[k] \in Ending
        BY <2>2 DEF WorkerDone, NotEnding
      <3> QED BY <2>1, <3>1 DEF Matches, Ending, Resuming
    <2>3. CASE ~WorkerDone
      BY <1>0, <1>9, <2>1, <2>3, StateKept DEF Matches
    <2> QED BY <2>2, <2>3
  <1> QED BY <1>1, <1>2, <1>3, <1>4, <1>5, <1>6, <1>7, <1>8, <1>9
          DEF ControlCall, ControlProgress

MatchInv(k) == TypeInv /\ LaunchesHardware /\ Matches(k) /\ NotEnding(k)

LEMMA MatchStart ==
  ASSUME NEW k \in Controllers, Init
  PROVE  Matches(k) /\ NotEnding(k)
  <1>1. /\ pc[k] = "idle" /\ ~suspended /\ worker_state = "Running" /\ cmds = <<>>
        /\ cur = WaitAll(1)
    BY ThreadsAssumption DEF Init, BufInit, WorkerInit, Threads
  <1> QED BY <1>1 DEF Matches, NotEnding, Resuming, WaitAll

(* Suspend and Resume are re-entrant: with one controller, whatever else   *)
(* happens, suspended_ tells it truly whether the worker is paused.        *)
THEOREM SuspendedMatches ==
  ASSUME NEW k \in Controllers, OneController(k)
  PROVE  Spec => []SuspendedMatchesWorker
  <1>1. Init => MatchInv(k)
    BY TypeStart, MatchStart DEF MatchInv
  <1>2. MatchInv(k) /\ [Next]_vars => MatchInv(k)'
    BY TypeStep, LaunchesHardwareStep, MatchesStep, NotEndingStep DEF MatchInv
  <1>3. MatchInv(k) => SuspendedMatchesWorker
    BY DEF OneController, MatchInv, Matches, SuspendedMatchesWorker
  <1> QED BY <1>1, <1>2, <1>3, PTL DEF Spec

-----------------------------------------------------------------------------
(***************************************************************************)
(* An idle queue is drained, with one controller.                          *)
(*                                                                         *)
(* Kept: a command that is submitted and not completed is in the buffer,   *)
(* in the worker's hands or in the log.  NoneLeft is what idle means.      *)
(* Drained: when the last WaitAll has left the buffer, either the worker   *)
(* is still serving it or the log is empty -- unless a drop took it from   *)
(* the buffer: then GivenUp says that the command which the worker holds   *)
(* meanwhile is one that the drop, once it is over, has given up.          *)
(***************************************************************************)
InLog(i) == \E p \in DOMAIN cmd_log : cmd_log[p] = i

Kept ==
  \A i \in HwIdx : state[i] \in {Pending, InFlight} =>
    InBuffer(Hardware(i)) \/ (Launching /\ cur = Hardware(i)) \/ InLog(i)

LastOfBuffer == cmds # <<>> => last_cmd = cmds[Len(cmds)]

NoneLeft ==
  xq_state = "Idle" =>
    /\ ~Launching
    /\ \A p \in DOMAIN cmds : cmds[p].type # "Hardware"
    /\ Dropping \/ cmd_log = <<>>

Ended == cmds = <<>> /\ last_cmd.type = "WaitAll"

Drained ==
  Ended /\ ~Dropping =>
    \/ cmd_log = <<>>
    \/ cur = last_cmd /\ pc[Worker] \in {"allCheck", "allSync", "allPost"}

GivenUp(k) ==
  Ended /\ Launching =>
    /\ pc[k] \notin {"dropIdx", "dropResume"} => Drops(cur.id)
    /\ pc[k] = "dropResume" => cur.id <= arg[k]

(* What the worker is about to launch it keeps until it does, or drops it. *)
LEMMA LaunchingKept ==
  ASSUME TypeInv, [Next]_vars, ~Launch, ~LaunchDropped, Launching
  PROVE  Launching' /\ cur' = cur
  <1>0. pc \in [Threads -> Labels] /\ Worker \in Threads /\ ret \in {"full", "tail", "done"}
    BY BufferFacts
  <1>1. CASE WorkerStep
    <2>0. ~WorkerTake /\ ~WorkerIdle /\ ~WorkerDone /\ ~WorkerBatch
      BY DEF WorkerTake, WorkerIdle, WorkerDone, WorkerBatch, Launching, SyncCmdLabels
    <2>1. CASE LaunchBegin
      BY <1>0, <2>1 DEF LaunchBegin, BeginSyncCmd, BeginSyncAll, Goto, Launching, SyncCmdLabels
    <2>2. CASE LaunchFull
      BY <1>0, <2>2 DEF LaunchFull, BeginSyncCmd, BeginSyncAll, Goto, Launching, SyncCmdLabels
    <2>3. CASE AwaitRunning
      BY <1>0, <2>3 DEF AwaitRunning, Goto, Launching
    <2>4. CASE SyncAllCheck \/ SyncAllHw \/ SyncAllPost
      BY <1>0, <2>4 DEF SyncAllCheck, SyncAllHw, SyncAllPost, ReturnFromSync, Goto, Launching
    <2>5. CASE SyncCmdCheck(Worker) \/ SyncCmdHw(Worker) \/ SyncCmdPost(Worker)
      BY <1>0, <2>5 DEF SyncCmdCheck, SyncCmdHw, SyncCmdPost, ReturnFromSync, Goto, Launching,
         SyncCmdLabels
    <2>6. CASE CvWait(Worker)
      BY <2>6 DEF CvWait, threadVars, Launching
    <2> QED BY <1>1, <2>0, <2>1, <2>2, <2>3, <2>4, <2>5, <2>6 DEF WorkerStep
  <1>2. CASE Others
    BY <1>2, OthersKeepWorker DEF Others, Launching
  <1>3. CASE UNCHANGED vars
    BY <1>3 DEF vars, workerVars, Launching
  <1> QED BY <1>1, <1>2, <1>3, NextCases

LEMMA LaunchingBegins ==
  ASSUME TypeInv, [Next]_vars, ~WorkerTake, Launching'
  PROVE  Launching /\ cur' = cur
  <1>1. CASE WorkerStep
    BY <1>1, WorkerKeepsLaunching
  <1>2. CASE Others
    BY <1>2, OthersKeepWorker DEF Others, Launching
  <1>3. CASE UNCHANGED vars
    BY <1>3 DEF vars, workerVars, Launching
  <1> QED BY <1>1, <1>2, <1>3, NextCases

(* The steps that change the log or the state of a command.                *)
Settles ==
  \/ Launch \/ LaunchDropped \/ SyncAllPost \/ SyncCmdPost(Worker)
  \/ \E t \in Apps : SubmitDraw(t) \/ SubmitEnqueue(t) \/ SyncCmdPost(t)
  \/ \E k \in Controllers : ResumeDropAll(k) \/ ResumeDrop(k)

LEMMA LogKept ==
  ASSUME [Next]_vars, ~Settles
  PROVE  UNCHANGED <<kind, state, cmd_log>>
  <1>1. CASE WorkerStep
    <2>1. CASE WorkerTake \/ WorkerIdle \/ WorkerDone
      BY <2>1 DEF WorkerTake, DequeueFront, DequeueGenerate, Dispatch, WorkerIdle, DequeueIdle,
         WorkerDone, logVars
    <2>2. CASE LaunchBegin \/ LaunchFull \/ AwaitRunning \/ WorkerBatch
      BY <2>2 DEF LaunchBegin, LaunchFull, AwaitRunning, WorkerBatch, logVars, bufVars
    <2>3. CASE SyncAllCheck \/ SyncAllHw
      BY <2>3 DEF SyncAllCheck, SyncAllHw, logVars, bufVars
    <2>4. CASE SyncCmdCheck(Worker) \/ SyncCmdHw(Worker) \/ CvWait(Worker)
      BY <2>4 DEF SyncCmdCheck, SyncCmdHw, CvWait, logVars, bufVars
    <2> QED BY <1>1, <2>1, <2>2, <2>3, <2>4 DEF WorkerStep, Settles
  <1>2. CASE HwStep \/ UNCHANGED vars
    BY <1>2 DEF HwStep, HwExecute, HwFlush, vars, bufVars, workerVars
  <1>3. ASSUME NEW t \in Apps, AppCall(t) \/ AppProgress(t)
        PROVE  UNCHANGED <<kind, state, cmd_log>>
    <2>1. CASE CallWaitAll(t) \/ SubmitWaitAll(t)
      BY <2>1 DEF CallWaitAll, SubmitWaitAll, EnqueueXQueueWaitAllCommand, bufVars, logVars,
         workerVars
    <2>2. CASE WaitCmd(t) \/ CmdReached(t) \/ SyncCmdCheck(t) \/ SyncCmdHw(t) \/ CvWait(t)
      BY <2>2 DEF WaitCmd, CmdReached, SyncCmdCheck, SyncCmdHw, CvWait, bufVars, logVars
    <2> QED BY <1>3, <2>1, <2>2 DEF AppCall, AppProgress, Settles
  <1>4. ASSUME NEW k \in Controllers, ControlCall(k) \/ ControlProgress(k)
        PROVE  UNCHANGED <<kind, state, cmd_log>>
    <2>1. CASE Suspend(k) \/ ResumeBegin(k) \/ DestructBegin(k)
      BY <2>1 DEF Suspend, ResumeBegin, DestructBegin, bufVars, logVars
    <2>2. CASE SuspendPause(k) \/ SuspendDeactivate(k) \/ SuspendSyncHw(k)
      BY <2>2 DEF SuspendPause, SuspendDeactivate, SuspendSyncHw, Pause, bufVars, logVars
    <2>3. CASE ReactivateSync(k) \/ ReactivateRead(k) \/ ReactivateClear(k)
               \/ ReactivateRelaunch(k)
      BY <2>3 DEF ReactivateSync, ReactivateRead, ReactivateClear, ReactivateRelaunch, bufVars,
         logVars
    <2>4. CASE ResumeWorker(k) \/ ResumeDropIdx(k) \/ DestructEnqueue(k) \/ DestructWait(k)
      BY <2>4 DEF ResumeWorker, Resume, ResumeDropIdx, DestructEnqueue, EnqueueDestroy,
         DestructWait, bufVars, logVars
    <2> QED BY <1>4, <2>1, <2>2, <2>3, <2>4 DEF ControlCall, ControlProgress, Settles
  <1> QED BY <1>1, <1>2, <1>3, <1>4, NextCases DEF Others

(* What a synchronization leaves in the log.                               *)
LEMMA PoppedOrLeft ==
  ASSUME TypeInv, NEW t, SyncCmdPost(t)
  PROVE  /\ \A i \in DOMAIN state : InLog(i) => InLog(i)' \/ state'[i] = Completed
         /\ \A i \in DOMAIN state : state'[i] = state[i] \/ state'[i] = Completed
         /\ cmd_log = <<>> => cmd_log' = <<>>
         /\ DOMAIN state' = DOMAIN state /\ UNCHANGED <<kind, cur, cmds>>
  <1>0. Len(cmd_log) \in Nat /\ DOMAIN cmd_log = 1 .. Len(cmd_log) /\ cmd_log \in Seq(Nat)
    BY TypeFacts DEF TypeInv, TypeOK, WorkerTypeOK
  <1>1. UNCHANGED <<kind, cur, cmds>>
    BY DEF SyncCmdPost
  <1>2. CASE UNCHANGED <<state, logVars>>
    BY <1>1, <1>2 DEF logVars, InLog
  <1>3. CASE ~UNCHANGED <<state, logVars>>
    <2>1. PICK n \in 0 .. Len(cmd_log) :
            /\ SetStates({cmd_log[p] : p \in 1 .. n}, Completed)
            /\ cmd_log' = SubSeq(cmd_log, n + 1, Len(cmd_log))
      BY <1>3 DEF SyncCmdPost
    <2>2. Rest(cmd_log, n, cmd_log')
      BY <1>0, <2>1, Suffix
    <2>3. \A q \in DOMAIN cmd_log : q > n => \E p \in DOMAIN cmd_log' : cmd_log'[p] = cmd_log[q]
      BY <1>0, <2>2, RestFacts
    <2>4. /\ DOMAIN state' = DOMAIN state
          /\ \A i \in DOMAIN state : state'[i] = state[i] \/ state'[i] = Completed
          /\ \A p \in 1 .. n : cmd_log[p] \in DOMAIN state => state'[cmd_log[p]] = Completed
      BY <2>1 DEF SetStates
    <2>5. ASSUME NEW i \in DOMAIN state, NEW q \in DOMAIN cmd_log, cmd_log[q] = i
          PROVE  InLog(i)' \/ state'[i] = Completed
      <3>1. CASE q > n
        BY <2>3, <2>5, <3>1 DEF InLog
      <3>2. CASE ~(q > n)
        BY <1>0, <2>4, <2>5, <3>2
      <3> QED BY <3>1, <3>2
    <2>6. ASSUME cmd_log = <<>> PROVE cmd_log' = <<>>
      <3>1. Len(cmd_log) = 0
        BY <1>0, <2>6, EmptySeq
      <3>2. n = 0
        BY <3>1
      <3>3. cmd_log' = cmd_log
        BY <1>0, <2>1, <2>6, <3>1, <3>2
      <3> QED BY <2>6, <3>3
    <2> QED BY <1>1, <2>4, <2>5, <2>6 DEF InLog
  <1> QED BY <1>2, <1>3

LEMMA KeptStep ==
  ASSUME TypeInv, LaunchesHardware, Kept, [Next]_vars
  PROVE  Kept'
  <1>0. /\ HwIdx = DOMAIN state /\ \A p \in DOMAIN cmds : cmds[p] \in Command
        /\ pc \in [Threads -> Labels] /\ Worker \in Threads
        /\ \A i : Hardware(i).type = "Hardware" /\ Hardware(i).id = i
    BY TypeFacts, BufferFacts DEF Hardware
  <1>1. CASE ~Settles /\ ~Buffers
    <2>1. UNCHANGED <<kind, state, cmd_log, cmds, cur>>
      BY <1>1, LogKept, QuietStep
    <2>2. Launching => Launching'
      BY <1>1, LaunchingKept DEF Settles
    <2> QED BY <2>1, <2>2 DEF Kept, HwIdx, InBuffer, InLog
  <1>2. CASE WorkerTake
    <2>1. ~Launching /\ UNCHANGED <<kind, state, cmd_log>>
      BY <1>2 DEF WorkerTake, Launching, SyncCmdLabels, DequeueFront, DequeueGenerate, Dispatch,
         logVars
    <2>2. CASE \E c \in ToSet(cmds) : DequeueFront(c) /\ Dispatch(c)
      <3>1. PICK c \in ToSet(cmds) : DequeueFront(c) /\ Dispatch(c)
        BY <2>2
      <3>2. cmds # <<>> /\ cmds' = Tail(cmds) /\ c = Head(cmds)
        BY <3>1 DEF DequeueFront
      <3>3. \A d : InBuffer(d) => InBuffer(d)' \/ d = c
        BY <3>2, Taken
      <3>4. cur' = c /\ (c.type = "Hardware" => Launching')
        BY <1>0, <3>1 DEF Dispatch, Goto, Launching
      <3>5. ASSUME NEW i \in HwIdx, state[i] \in {Pending, InFlight}
            PROVE  InBuffer(Hardware(i))' \/ (Launching' /\ cur' = Hardware(i)) \/ InLog(i)
        BY <1>0, <2>1, <3>3, <3>4, <3>5 DEF Kept
      <3> QED BY <2>1, <3>5 DEF Kept, HwIdx, InLog
    <2>3. CASE cmds = <<>>
      <3>1. cmds' = cmds
        BY <1>2, <2>3 DEF WorkerTake, DequeueFront, DequeueGenerate
      <3> QED BY <2>1, <2>3, <3>1 DEF Kept, HwIdx, InLog, InBuffer
    <2> QED BY <1>2, <2>2, <2>3 DEF WorkerTake, DequeueGenerate
  <1>3. CASE WorkerIdle \/ WorkerDone
    <2>1. ~Launching /\ UNCHANGED <<kind, state, cmd_log, cmds>>
      BY <1>3 DEF WorkerIdle, WorkerDone, Launching, SyncCmdLabels, DequeueIdle, logVars
    <2> QED BY <2>1 DEF Kept, HwIdx, InLog, InBuffer
  <1>4. CASE LaunchDropped \/ Launch
    <2>1. /\ UNCHANGED <<kind, cmds>> /\ DOMAIN state' = DOMAIN state
          /\ \A i \in DOMAIN state : i # cur.id => state'[i] = state[i]
      BY <1>4 DEF LaunchDropped, Launch, SetStates
    <2>2. LaunchDropped => cmd_log' = cmd_log
      BY DEF LaunchDropped, logVars
    <2>3. Launch => cmd_log' = Append(cmd_log, cur.id)
      BY DEF Launch
    <2>4. cmd_log \in Seq(Nat) /\ cur.id \in Nat
      BY TypeFacts DEF TypeInv, TypeOK, WorkerTypeOK
    <2>5. ASSUME Launch
          PROVE  /\ DOMAIN cmd_log' = DOMAIN cmd_log \cup {Len(cmd_log) + 1}
                 /\ \A p \in DOMAIN cmd_log : cmd_log'[p] = cmd_log[p]
                 /\ cmd_log'[Len(cmd_log) + 1] = cur.id
      BY <2>3, <2>4, <2>5, AppendProperties
    <2>6. /\ \A i : InLog(i) => InLog(i)'
          /\ Launch => \A i : i = cur.id => InLog(i)'
      BY <1>4, <2>2, <2>5 DEF InLog
    <2>7. LaunchDropped => cur.id \notin DOMAIN state \/ state'[cur.id] = Completed
      BY DEF LaunchDropped, SetStates
    <2>8. ASSUME NEW i \in DOMAIN state, state'[i] \in {Pending, InFlight}
          PROVE  InBuffer(Hardware(i)) \/ InLog(i)'
      <3>1. CASE i = cur.id
        BY <1>4, <2>6, <2>7, <2>8, <3>1 DEF Pending, InFlight, Completed
      <3>2. CASE i # cur.id
        <4>1. cur # Hardware(i)
          BY <1>0, <3>2
        <4> QED BY <1>0, <2>1, <2>6, <2>8, <3>2, <4>1 DEF Kept
      <3> QED BY <3>1, <3>2
    <2> QED BY <1>0, <2>1, <2>8 DEF Kept, HwIdx, InBuffer
  <1>5. CASE SyncAllPost
    <2>1. UNCHANGED <<kind, cmds, cur>> /\ (Launching => Launching')
      BY <1>0, <1>5, LaunchingKept DEF SyncAllPost, Launch, LaunchDropped
    <2>2. CASE UNCHANGED <<state, logVars>>
      BY <2>1, <2>2 DEF Kept, HwIdx, InBuffer, InLog, logVars
    <2>3. CASE SetStates(ToSet(cmd_log), Completed)
      <3>1. /\ DOMAIN state' = DOMAIN state
            /\ \A i \in DOMAIN state : IF InLog(i) THEN state'[i] = Completed
                                      ELSE state'[i] = state[i]
        BY <2>3 DEF SetStates, InLog, ToSet
      <3> QED BY <1>0, <2>1, <3>1 DEF Kept, HwIdx, InBuffer, Pending, InFlight, Completed
    <2> QED BY <1>5, <2>2, <2>3 DEF SyncAllPost
  <1>6. ASSUME NEW t \in Apps \cup {Worker}, SyncCmdPost(t)
        PROVE  Kept'
    <2>1. /\ \A i \in DOMAIN state : InLog(i) => InLog(i)' \/ state'[i] = Completed
          /\ \A i \in DOMAIN state : state'[i] = state[i] \/ state'[i] = Completed
          /\ DOMAIN state' = DOMAIN state /\ UNCHANGED <<kind, cur, cmds>>
      BY <1>6, PoppedOrLeft
    <2>2. Launching => Launching'
      <3>1. ~Launch /\ ~LaunchDropped
        BY <1>0, <1>6 DEF SyncCmdPost, ReturnFromSync, Launch, LaunchDropped, Goto
      <3> QED BY <3>1, LaunchingKept
    <2> QED BY <1>0, <2>1, <2>2 DEF Kept, HwIdx, InBuffer, Pending, InFlight, Completed
  <1>7. ASSUME NEW t \in Apps, AppBuffers(t) \/ SubmitDraw(t)
        PROVE  Kept'
    <2>0. cur' = cur /\ Launching' = Launching
      <3>1. UNCHANGED <<cur, ret>> /\ pc'[Worker] = pc[Worker]
        <4>1. CASE AppBuffers(t)
          BY <4>1, OthersKeepWorker DEF AppBuffers, AppCall, AppProgress
        <4>2. CASE SubmitDraw(t)
          BY <4>2, BufferFacts DEF SubmitDraw, Goto
        <4> QED BY <1>7, <4>1, <4>2
      <3> QED BY <3>1 DEF Launching
    <2>1. cmd_log' = cmd_log
      BY <1>7 DEF AppBuffers, SubmitEnqueue, CallWaitAll, SubmitWaitAll, SubmitDraw, logVars,
         workerVars
    <2>2. CASE SubmitDraw(t)
      <3>1. cmds' = cmds
        BY <2>2 DEF SubmitDraw, DrawIdx
      <3>2. /\ HwIdx' = 1 .. Len(kind) + 1 /\ HwIdx = 1 .. Len(kind) /\ Len(kind) \in Nat
            /\ \A i \in HwIdx : state'[i] = state[i]
            /\ state'[Len(kind) + 1] = Created
        BY <2>2, TypeFacts, AppendProperties
           DEF SubmitDraw, DrawIdx, TypeInv, TypeOK, BufTypeOK, HwIdx
      <3> QED BY <2>0, <2>1, <3>1, <3>2 DEF Kept, InBuffer, InLog, Created, Pending, InFlight
    <2>3. CASE SubmitEnqueue(t)
      <3>1. /\ cmds' = Append(cmds, Hardware(arg[t])) /\ kind' = kind
            /\ DOMAIN state' = DOMAIN state
            /\ \A i \in DOMAIN state : i # arg[t] => state'[i] = state[i]
        BY <2>3 DEF SubmitEnqueue, EnqueueHardware, SetStates
      <3>2. Hardware(arg[t]) \in Command
        BY TypeFacts, BufferFacts DEF Hardware, Command, CmdType
      <3>3. \A d : InBuffer(d)' <=> InBuffer(d) \/ d = Hardware(arg[t])
        BY <3>1, <3>2, Appended
      <3>4. ASSUME NEW i \in DOMAIN state, state'[i] \in {Pending, InFlight}
            PROVE  InBuffer(Hardware(i))' \/ (Launching /\ cur = Hardware(i)) \/ InLog(i)
        BY <1>0, <3>1, <3>3, <3>4 DEF Kept
      <3> QED BY <1>0, <2>0, <2>1, <3>1, <3>4 DEF Kept, HwIdx, InLog
    <2>4. CASE CallWaitAll(t) \/ SubmitWaitAll(t)
      <3>1. PICK w \in 1 .. Len(wait_all) + 1 : EnqueueXQueueWaitAllCommand(w)
        BY <2>4 DEF CallWaitAll, SubmitWaitAll
      <3>2. UNCHANGED <<kind, state>> /\ (cmds' = cmds \/ cmds' = Append(cmds, WaitAll(w)))
        BY <3>1 DEF EnqueueXQueueWaitAllCommand, bufVars
      <3>3. WaitAll(w) \in Command
        BY BufferFacts DEF WaitAll, Command, CmdType
      <3>4. \A d : InBuffer(d) => InBuffer(d)'
        BY <3>2, <3>3, Appended DEF InBuffer
      <3> QED BY <2>0, <2>1, <3>2, <3>4 DEF Kept, HwIdx, InLog, InBuffer
    <2> QED BY <1>7, <2>2, <2>3, <2>4 DEF AppBuffers
  <1>8. ASSUME NEW k \in Controllers,
               ControlBuffers(k) \/ ResumeDrop(k)
        PROVE  Kept'
    <2>0. cur' = cur /\ Launching' = Launching
      <3>1. UNCHANGED <<cur, ret>> /\ pc'[Worker] = pc[Worker]
        BY <1>8, OthersKeepWorker DEF ControlBuffers, ControlProgress
      <3> QED BY <3>1 DEF Launching
    <2>1. CASE ResumeDropAll(k)
      <3>1. /\ UNCHANGED <<kind, cmd_log>> /\ DOMAIN state' = DOMAIN state
            /\ \A i \in DOMAIN state : IF i \in HwIn(cmds) THEN state'[i] = Completed
                                      ELSE state'[i] = state[i]
        BY <2>1 DEF ResumeDropAll, DropAll, SetStates, logVars
      <3>2. \A i : InBuffer(Hardware(i)) => i \in HwIn(cmds)
        BY <1>0 DEF InBuffer, HwIn
      <3> QED BY <1>0, <2>0, <3>1, <3>2
              DEF Kept, HwIdx, InLog, Pending, InFlight, Completed
    <2>2. CASE DestructEnqueue(k)
      <3>1. /\ cmds' = Append(cmds, Destroy) /\ UNCHANGED <<kind, state, cmd_log>>
        BY <2>2 DEF DestructEnqueue, EnqueueDestroy, logVars
      <3>2. Destroy \in Command
        BY DEF Destroy, Command, CmdType
      <3>3. \A d : InBuffer(d) => InBuffer(d)'
        BY <3>1, <3>2, Appended
      <3> QED BY <2>0, <3>1, <3>3 DEF Kept, HwIdx, InLog, InBuffer
    <2>3. CASE ResumeDrop(k)
      <3>1. /\ UNCHANGED <<kind, cmds>> /\ DOMAIN state' = DOMAIN state
            /\ \A i \in DOMAIN state : IF InLog(i) THEN state'[i] = Completed
                                      ELSE state'[i] = state[i]
        BY <2>3 DEF ResumeDrop, ResumeAndDrop, SetStates, InLog, ToSet
      <3> QED BY <1>0, <2>0, <3>1 DEF Kept, HwIdx, InBuffer, Pending, InFlight, Completed
    <2> QED BY <1>8, <2>1, <2>2, <2>3 DEF ControlBuffers
  <1> QED BY <1>1, <1>2, <1>3, <1>4, <1>5, <1>6, <1>7, <1>8
          DEF Settles, Buffers, ControlBuffers, AppBuffers

LEMMA LastStep ==
  ASSUME TypeInv, LastOfBuffer, [Next]_vars
  PROVE  LastOfBuffer'
  <1>1. CASE ~Buffers
    BY <1>1, QuietStep DEF LastOfBuffer
  <1>2. CASE WorkerTake
    <2>1. CASE cmds # <<>>
      <3>1. cmds' = Tail(cmds) /\ last_cmd' = last_cmd
        BY <1>2, <2>1 DEF WorkerTake, DequeueFront, DequeueGenerate
      <3> QED BY <2>1, <3>1, Taken DEF LastOfBuffer
    <2>2. CASE cmds = <<>>
      BY <1>2, <2>2 DEF WorkerTake, DequeueFront, DequeueGenerate, LastOfBuffer
    <2> QED BY <2>1, <2>2
  <1>3. CASE WorkerIdle \/ WorkerDone
    BY <1>3 DEF WorkerIdle, WorkerDone, DequeueIdle, LastOfBuffer
  <1>4. ASSUME NEW t \in Apps, AppBuffers(t)
        PROVE  LastOfBuffer'
    <2>1. CASE SubmitEnqueue(t)
      <3>1. cmds' = Append(cmds, Hardware(arg[t])) /\ last_cmd' = Hardware(arg[t])
        BY <2>1 DEF SubmitEnqueue, EnqueueHardware
      <3>2. Hardware(arg[t]) \in Command
        BY TypeFacts, BufferFacts DEF Hardware, Command, CmdType
      <3> QED BY <3>1, <3>2, Appended DEF LastOfBuffer
    <2>2. CASE CallWaitAll(t) \/ SubmitWaitAll(t)
      <3>1. PICK w \in 1 .. Len(wait_all) + 1 : EnqueueXQueueWaitAllCommand(w)
        BY <2>2 DEF CallWaitAll, SubmitWaitAll
      <3>2. \/ UNCHANGED bufVars
            \/ cmds' = Append(cmds, WaitAll(w)) /\ last_cmd' = WaitAll(w)
        BY <3>1 DEF EnqueueXQueueWaitAllCommand
      <3>3. WaitAll(w) \in Command
        BY BufferFacts DEF WaitAll, Command, CmdType
      <3>4. CASE UNCHANGED bufVars
        BY <3>4 DEF bufVars, LastOfBuffer
      <3> QED BY <3>2, <3>3, <3>4, Appended DEF LastOfBuffer
    <2> QED BY <1>4, <2>1, <2>2 DEF AppBuffers
  <1>5. ASSUME NEW k \in Controllers, ControlBuffers(k)
        PROVE  LastOfBuffer'
    <2>1. CASE ResumeDropAll(k)
      BY <2>1 DEF ResumeDropAll, DropAll, LastOfBuffer
    <2>2. CASE DestructEnqueue(k)
      <3>1. cmds' = Append(cmds, Destroy) /\ last_cmd' = Destroy
        BY <2>2 DEF DestructEnqueue, EnqueueDestroy
      <3>2. Destroy \in Command
        BY DEF Destroy, Command, CmdType
      <3> QED BY <3>1, <3>2, Appended DEF LastOfBuffer
    <2> QED BY <1>5, <2>1, <2>2 DEF ControlBuffers
  <1> QED BY <1>1, <1>2, <1>3, <1>4, <1>5 DEF Buffers

(* The log grows only by a launch, and a drop ends with an empty log.      *)
LEMMA LogStaysEmpty ==
  ASSUME TypeInv, [Next]_vars, ~Launch, cmd_log = <<>>
  PROVE  cmd_log' = <<>>
  <1>1. CASE ~Settles
    BY <1>1, LogKept
  <1>2. ASSUME NEW t, SyncCmdPost(t)
        PROVE  cmd_log' = <<>>
    BY <1>2, PoppedOrLeft
  <1>3. CASE LaunchDropped \/ SyncAllPost
    BY <1>3 DEF LaunchDropped, SyncAllPost, logVars
  <1>4. ASSUME NEW t \in Apps, SubmitDraw(t) \/ SubmitEnqueue(t)
        PROVE  cmd_log' = <<>>
    BY <1>4 DEF SubmitDraw, SubmitEnqueue, logVars
  <1>5. ASSUME NEW k \in Controllers, ResumeDropAll(k) \/ ResumeDrop(k)
        PROVE  cmd_log' = <<>>
    BY <1>5 DEF ResumeDropAll, ResumeDrop, ResumeAndDrop, logVars
  <1> QED BY <1>1, <1>2, <1>3, <1>4, <1>5 DEF Settles

LEMMA DropEnds ==
  ASSUME TypeInv, [Next]_vars, Dropping
  PROVE  Dropping' \/ \E k \in Controllers : ResumeDrop(k) /\ cmd_log' = <<>>
  <1>0. pc \in [Threads -> Labels] /\ Controllers \subseteq Threads
    BY TypeFacts
  <1>1. PICK k \in Controllers : pc[k] \in {"dropIdx", "dropResume"}
    BY DEF Dropping
  <1>2. CASE ~ControlCall(k) /\ ~ControlProgress(k)
    BY <1>1, <1>2, ControlKept DEF Dropping
  <1>3. CASE ControlCall(k) \/ ControlProgress(k)
    <2>1. ResumeDropIdx(k) \/ ResumeDrop(k)
      BY <1>1, <1>3 DEF ControlCall, ControlProgress, Suspend, ResumeBegin, DestructBegin,
         SuspendPause, SuspendDeactivate, SuspendSyncHw, ReactivateSync, ReactivateRead,
         ReactivateClear, ReactivateRelaunch, ResumeWorker, ResumeDropAll, DestructEnqueue,
         DestructWait
    <2>2. CASE ResumeDropIdx(k)
      <3>1. pc'[k] = "dropResume"
        BY <1>0, <2>2 DEF ResumeDropIdx, Goto
      <3> QED BY <3>1 DEF Dropping
    <2>3. CASE ResumeDrop(k)
      BY <2>3 DEF ResumeDrop, ResumeAndDrop
    <2> QED BY <2>1, <2>2, <2>3
  <1> QED BY <1>2, <1>3

LEMMA DropIdxKept ==
  ASSUME [Next]_vars, \A k \in Controllers : ~ResumeDrop(k)
  PROVE  drop_idx' = drop_idx
  <1>1. CASE WorkerStep
    <2>1. CASE WorkerTake \/ WorkerIdle \/ WorkerDone
      BY <2>1 DEF WorkerTake, Dispatch, WorkerIdle, WorkerDone
    <2>2. CASE LaunchBegin \/ LaunchFull \/ AwaitRunning \/ WorkerBatch
      BY <2>2 DEF LaunchBegin, LaunchFull, AwaitRunning, WorkerBatch
    <2>3. CASE LaunchDropped \/ Launch
      BY <2>3 DEF LaunchDropped, Launch
    <2>4. CASE SyncAllCheck \/ SyncAllHw \/ SyncAllPost
      BY <2>4 DEF SyncAllCheck, SyncAllHw, SyncAllPost
    <2>5. CASE SyncCmdCheck(Worker) \/ SyncCmdHw(Worker) \/ SyncCmdPost(Worker) \/ CvWait(Worker)
      BY <2>5 DEF SyncCmdCheck, SyncCmdHw, SyncCmdPost, CvWait
    <2> QED BY <1>1, <2>1, <2>2, <2>3, <2>4, <2>5 DEF WorkerStep
  <1>2. CASE HwStep \/ UNCHANGED vars
    BY <1>2 DEF HwStep, vars, workerVars
  <1>3. ASSUME NEW t \in Apps, AppCall(t) \/ AppProgress(t)
        PROVE  drop_idx' = drop_idx
    <2>1. CASE SubmitDraw(t) \/ SubmitEnqueue(t)
      BY <2>1 DEF SubmitDraw, SubmitEnqueue
    <2>2. CASE WaitCmd(t) \/ CmdReached(t) \/ CallWaitAll(t) \/ SubmitWaitAll(t)
      BY <2>2 DEF WaitCmd, CmdReached, CallWaitAll, SubmitWaitAll, workerVars
    <2>3. CASE SyncCmdCheck(t) \/ SyncCmdHw(t) \/ SyncCmdPost(t) \/ CvWait(t)
      BY <2>3 DEF SyncCmdCheck, SyncCmdHw, SyncCmdPost, CvWait
    <2> QED BY <1>3, <2>1, <2>2, <2>3 DEF AppCall, AppProgress
  <1>4. ASSUME NEW k \in Controllers, ControlCall(k) \/ ControlProgress(k)
        PROVE  drop_idx' = drop_idx
    <2>1. CASE Suspend(k) \/ ResumeBegin(k) \/ DestructBegin(k)
      BY <2>1 DEF Suspend, ResumeBegin, DestructBegin
    <2>2. CASE SuspendPause(k) \/ SuspendDeactivate(k) \/ SuspendSyncHw(k)
      BY <2>2 DEF SuspendPause, SuspendDeactivate, SuspendSyncHw, Pause
    <2>3. CASE ReactivateSync(k) \/ ReactivateRead(k) \/ ReactivateClear(k)
               \/ ReactivateRelaunch(k)
      BY <2>3 DEF ReactivateSync, ReactivateRead, ReactivateClear, ReactivateRelaunch
    <2>4. CASE ResumeWorker(k) \/ ResumeDropAll(k) \/ ResumeDropIdx(k)
      BY <2>4 DEF ResumeWorker, Resume, ResumeDropAll, ResumeDropIdx
    <2>5. CASE DestructEnqueue(k) \/ DestructWait(k)
      BY <2>5 DEF DestructEnqueue, DestructWait
    <2> QED BY <1>4, <2>1, <2>2, <2>3, <2>4, <2>5 DEF ControlCall, ControlProgress
  <1> QED BY <1>1, <1>2, <1>3, <1>4, NextCases DEF Others

(* A buffer that has run down to its last WaitAll gets there by the step   *)
(* that takes that command, or by a drop.                                  *)
LEMMA EndedBegins ==
  ASSUME TypeInv, LastOfBuffer, [Next]_vars, Ended'
  PROVE  \/ Ended /\ last_cmd' = last_cmd /\ ~WorkerTake
         \/ WorkerTake /\ cur' = last_cmd' /\ pc'[Worker] = "allCheck" /\ ret' = "done"
         \/ \E k \in Controllers : ResumeDropAll(k)
  <1>0. pc \in [Threads -> Labels] /\ Worker \in Threads
    BY BufferFacts
  <1>1. CASE ~Buffers
    BY <1>1, QuietStep DEF Ended, Buffers
  <1>2. CASE WorkerTake
    <2>1. PICK c : Dispatch(c) /\ (DequeueFront(c) \/ DequeueGenerate(c))
      BY <1>2 DEF WorkerTake
    <2>2. c = last_cmd'
      <3>1. CASE DequeueFront(c)
        <4>1. /\ cmds # <<>> /\ c = Head(cmds) /\ cmds' = Tail(cmds) /\ last_cmd' = last_cmd
              /\ cmds' = <<>>
          BY <3>1 DEF DequeueFront, Ended
        <4>2. c = cmds[Len(cmds)]
          BY <4>1, Taken
        <4> QED BY <4>1, <4>2 DEF LastOfBuffer
      <3>2. CASE DequeueGenerate(c)
        BY <3>2 DEF DequeueGenerate
      <3> QED BY <2>1, <3>1, <3>2
    <2>3. c.type = "WaitAll"
      BY <2>2 DEF Ended
    <2> QED BY <1>0, <1>2, <2>1, <2>2, <2>3 DEF Dispatch, Goto
  <1>3. CASE WorkerIdle \/ WorkerDone
    <2>1. UNCHANGED <<cmds, last_cmd>> /\ ~WorkerTake
      BY <1>0, <1>3 DEF WorkerIdle, WorkerDone, DequeueIdle, WorkerTake, DequeueGenerate,
         DequeueFront, Dispatch, Goto
    <2> QED BY <2>1 DEF Ended
  <1>4. ASSUME NEW t \in Apps, AppBuffers(t)
        PROVE  Ended /\ last_cmd' = last_cmd /\ ~WorkerTake
    <2>0. ~WorkerTake
      <3>1. pc'[Worker] = pc[Worker]
        BY <1>4, OthersKeepWorker DEF AppBuffers, AppCall, AppProgress
      <3> QED BY <1>0, <3>1 DEF WorkerTake, Dispatch, Goto
    <2>1. CASE SubmitEnqueue(t)
      BY <2>1 DEF SubmitEnqueue, EnqueueHardware, Hardware, Ended
    <2>2. CASE CallWaitAll(t) \/ SubmitWaitAll(t)
      <3>1. PICK w \in 1 .. Len(wait_all) + 1 : EnqueueXQueueWaitAllCommand(w)
        BY <2>2 DEF CallWaitAll, SubmitWaitAll
      <3>2. UNCHANGED bufVars \/ cmds' = Append(cmds, WaitAll(w))
        BY <3>1 DEF EnqueueXQueueWaitAllCommand
      <3>3. WaitAll(w) \in Command
        BY BufferFacts DEF WaitAll, Command, CmdType
      <3>4. UNCHANGED bufVars
        BY <3>2, <3>3, Appended DEF Ended
      <3> QED BY <2>0, <3>4 DEF Ended, bufVars
    <2> QED BY <1>4, <2>1, <2>2 DEF AppBuffers
  <1>5. ASSUME NEW k \in Controllers, DestructEnqueue(k)
        PROVE  FALSE
    BY <1>5 DEF DestructEnqueue, EnqueueDestroy, Destroy, Ended
  <1> QED BY <1>1, <1>2, <1>3, <1>4, <1>5 DEF Buffers, ControlBuffers

LEMMA GivenUpStep ==
  ASSUME TypeInv, LaunchesHardware, LastOfBuffer, NEW k \in Controllers, OneController(k),
         GivenUp(k), [Next]_vars
  PROVE  GivenUp(k)'
  <1>0. /\ pc \in [Threads -> Labels] /\ arg \in [Threads -> Nat] /\ k \in Threads
        /\ HwIdx = 1 .. Len(kind) /\ Len(kind) \in Nat /\ Controllers = {k}
    BY TypeFacts DEF OneController, TypeInv, TypeOK, WorkerTypeOK
  <1> SUFFICES ASSUME Ended', Launching'
               PROVE  /\ pc'[k] \notin {"dropIdx", "dropResume"} => Drops(cur.id)'
                      /\ pc'[k] = "dropResume" => cur'.id <= arg'[k]
    BY DEF GivenUp
  <1>1. ~WorkerTake
    <2> SUFFICES ASSUME WorkerTake PROVE FALSE OBVIOUS
    <2>1. pc'[Worker] \in {"launch", "batch", "allCheck"} /\ pc[Worker] \in {"dequeue", "cvWait"}
      BY <1>0 DEF WorkerTake, Dispatch, Goto, Threads
    <2>2. ~ResumeDropAll(k)
      BY <2>1, OthersKeepWorker DEF ControlProgress
    <2>3. pc'[Worker] = "allCheck" /\ ret' = "done"
      BY <1>0, <2>2, EndedBegins
    <2> QED BY <2>3 DEF Launching, SyncCmdLabels
  <1>2. Launching /\ cur' = cur
    BY <1>1, LaunchingBegins
  <1>3. CASE ResumeDropAll(k)
    BY <1>0, <1>3 DEF ResumeDropAll, Goto
  <1>4. CASE ~ResumeDropAll(k)
    <2>0. Ended
      BY <1>0, <1>1, <1>4, EndedBegins
    <2>1. CASE ResumeDropIdx(k)
      <3>1. cur.id \in 1 .. Len(kind)
        BY <1>0, <1>2 DEF LaunchesHardware, TypeInv, DrawnIds
      <3>2. pc'[k] = "dropResume" /\ arg'[k] = Len(kind)
        BY <1>0, <2>1 DEF ResumeDropIdx, Goto, LastDrawn
      <3> QED BY <1>0, <1>2, <3>1, <3>2
    <2>2. CASE ResumeDrop(k)
      <3>1. pc[k] = "dropResume" /\ drop_idx' = arg[k] /\ pc'[k] # "dropResume"
        BY <1>0, <2>2 DEF ResumeDrop, ResumeAndDrop, EndResume, Goto
      <3> QED BY <1>2, <2>0, <3>1 DEF GivenUp, Drops
    <2>3. CASE ~ResumeDropIdx(k) /\ ~ResumeDrop(k)
      <3>1. drop_idx' = drop_idx
        BY <1>0, <2>3, DropIdxKept
      <3>2. \/ pc'[k] = pc[k] /\ arg'[k] = arg[k]
            \/ pc[k] \notin {"dropIdx", "dropResume"} /\ pc'[k] \notin {"dropIdx", "dropResume"}
        <4>1. CASE ~ControlCall(k) /\ ~ControlProgress(k)
          BY <4>1, ControlKept
        <4>2. CASE Suspend(k) \/ ResumeBegin(k) \/ DestructBegin(k)
          BY <1>0, <4>2 DEF Suspend, ResumeBegin, DestructBegin, BeginResume, DestructResume,
             Goto
        <4>3. CASE SuspendPause(k) \/ SuspendDeactivate(k) \/ SuspendSyncHw(k)
          BY <1>0, <4>3 DEF SuspendPause, SuspendDeactivate, SuspendSyncHw, Goto
        <4>4. CASE ReactivateSync(k) \/ ReactivateRead(k) \/ ReactivateClear(k)
                   \/ ReactivateRelaunch(k)
          BY <1>0, <4>4 DEF ReactivateSync, ReactivateRead, ReactivateClear,
             ReactivateRelaunch, Goto
        <4>5. CASE ResumeWorker(k) \/ DestructEnqueue(k) \/ DestructWait(k)
          BY <1>0, <4>5 DEF ResumeWorker, EndResume, DestructEnqueue, DestructWait, Goto
        <4> QED BY <1>4, <2>3, <4>1, <4>2, <4>3, <4>4, <4>5 DEF ControlCall, ControlProgress
      <3> QED BY <1>2, <2>0, <3>1, <3>2 DEF GivenUp, Drops
    <2> QED BY <2>1, <2>2, <2>3
  <1> QED BY <1>3, <1>4

LEMMA DrainedStep ==
  ASSUME TypeInv, LaunchesHardware, LastOfBuffer, NEW k \in Controllers, OneController(k),
         GivenUp(k), Drained, [Next]_vars
  PROVE  Drained'
  <1>0. /\ pc \in [Threads -> Labels] /\ Worker \in Threads /\ Controllers = {k}
        /\ k \in Threads
    BY BufferFacts DEF OneController
  <1> SUFFICES ASSUME Ended', ~Dropping'
               PROVE  \/ cmd_log' = <<>>
                      \/ cur' = last_cmd' /\ pc'[Worker] \in {"allCheck", "allSync", "allPost"}
    BY DEF Drained
  <1>1. CASE WorkerTake /\ cur' = last_cmd' /\ pc'[Worker] = "allCheck"
    BY <1>1
  <1>2. CASE ResumeDropAll(k)
    <2>1. pc'[k] = "dropIdx"
      BY <1>0, <1>2 DEF ResumeDropAll, Goto
    <2> QED BY <2>1 DEF Dropping
  <1>3. CASE Ended /\ last_cmd' = last_cmd /\ ~WorkerTake
    <2>1. CASE Dropping
      BY <2>1, DropEnds
    <2>2. CASE ~Dropping /\ cmd_log = <<>>
      <3>1. ~Launch
        <4>1. pc[k] \notin {"dropIdx", "dropResume"}
          BY <2>2 DEF Dropping
        <4>2. Launching => Drops(cur.id)
          BY <1>3, <4>1 DEF GivenUp
        <4> QED BY <4>2 DEF Launch, Launching
      <3> QED BY <2>2, <3>1, LogStaysEmpty
    <2>3. CASE cur = last_cmd /\ pc[Worker] \in {"allCheck", "allSync", "allPost"}
      <3>1. cur' = cur /\ cur' = last_cmd'
        BY <1>3, <2>3, ServingMoves DEF Serving, WorkerDone, Ended
      <3>2. CASE WorkerStep
        <4>1. SyncAllCheck \/ SyncAllHw \/ SyncAllPost \/ CvWait(Worker)
          BY <2>3, <3>2 DEF WorkerStep, WorkerTake, WorkerIdle, LaunchBegin, LaunchFull,
             AwaitRunning, LaunchDropped, Launch, SyncCmdCheck, SyncCmdHw, SyncCmdPost,
             WorkerBatch, WorkerDone
        <4>2. CASE SyncAllCheck
          BY <1>0, <2>3, <3>1, <4>2 DEF SyncAllCheck, Goto, logVars
        <4>3. CASE SyncAllHw
          BY <1>0, <2>3, <3>1, <4>3 DEF SyncAllHw, Goto
        <4>4. CASE SyncAllPost
          BY <1>0, <2>3, <3>1, <4>4 DEF SyncAllPost, Goto
        <4>5. CASE CvWait(Worker)
          BY <2>3, <3>1, <4>5 DEF CvWait, threadVars
        <4> QED BY <4>1, <4>2, <4>3, <4>4, <4>5
      <3>3. CASE Others
        <4>1. pc'[Worker] = pc[Worker]
          BY <3>3, OthersKeepWorker DEF Others
        <4> QED BY <2>3, <3>1, <4>1
      <3>4. CASE UNCHANGED vars
        BY <2>3, <3>1, <3>4 DEF vars, workerVars
      <3> QED BY <3>2, <3>3, <3>4, NextCases
    <2> QED BY <1>3, <2>1, <2>2, <2>3 DEF Drained
  <1> QED BY <1>0, <1>1, <1>2, <1>3, EndedBegins

LEMMA NoneLeftStep ==
  ASSUME TypeInv, LaunchesHardware, NEW k \in Controllers, OneController(k),
         GivenUp(k), Drained, NoneLeft, [Next]_vars
  PROVE  NoneLeft'
  <1>0. /\ pc \in [Threads -> Labels] /\ Worker \in Threads /\ Controllers = {k}
        /\ k \in Threads
        /\ \A p \in DOMAIN cmds : cmds[p] \in Command
    BY BufferFacts DEF OneController
  <1> SUFFICES ASSUME xq_state' = "Idle"
               PROVE  /\ ~Launching'
                      /\ \A p \in DOMAIN cmds' : cmds'[p].type # "Hardware"
                      /\ Dropping' \/ cmd_log' = <<>>
    BY DEF NoneLeft
  <1>1. ASSUME ~Launch, Dropping \/ cmd_log = <<>>
        PROVE  Dropping' \/ cmd_log' = <<>>
    BY <1>1, LogStaysEmpty, DropEnds
  <1>2. CASE WorkerIdle
    <2>1. /\ cmds = <<>> /\ cmds' = <<>> /\ last_cmd.type = "WaitAll" /\ pc[Worker] = "dequeue"
          /\ ~Launch /\ ~WorkerTake
      BY <1>0, <1>2 DEF WorkerIdle, DequeueIdle, Launch, WorkerTake, DequeueGenerate,
         DequeueFront, Dispatch, Goto
    <2>2. Dropping \/ cmd_log = <<>>
      BY <2>1 DEF Drained, Ended
    <2>3. ~Launching'
      BY <2>1, LaunchingBegins DEF Launching, SyncCmdLabels
    <2> QED BY <1>1, <2>1, <2>2, <2>3
  <1>3. CASE ~WorkerIdle
    <2>1. xq_state = "Idle"
      <3>1. CASE ~Buffers
        BY <3>1, QuietStep
      <3>2. CASE WorkerTake \/ WorkerDone
        BY <3>2 DEF WorkerTake, DequeueFront, DequeueGenerate, WorkerDone
      <3>3. ASSUME NEW t \in Apps, AppBuffers(t)
            PROVE  xq_state = "Idle"
        BY <3>3 DEF AppBuffers, SubmitEnqueue, EnqueueHardware, CallWaitAll, SubmitWaitAll,
           EnqueueXQueueWaitAllCommand, bufVars
      <3>4. CASE ControlBuffers(k)
        BY <3>4 DEF ControlBuffers, ResumeDropAll, DropAll, DestructEnqueue, EnqueueDestroy
      <3> QED BY <1>0, <1>3, <3>1, <3>2, <3>3, <3>4 DEF Buffers
    <2>2. /\ ~Launching
          /\ \A p \in DOMAIN cmds : cmds[p].type # "Hardware"
          /\ Dropping \/ cmd_log = <<>>
      BY <2>1 DEF NoneLeft
    <2>3. Dropping' \/ cmd_log' = <<>>
      BY <1>1, <2>2 DEF Launch, Launching
    <2>4. \A p \in DOMAIN cmds' : cmds'[p].type # "Hardware"
      <3>1. CASE ~Buffers
        BY <2>2, <3>1, QuietStep
      <3>2. CASE WorkerDone
        BY <2>2, <3>2 DEF WorkerDone
      <3>3. CASE WorkerTake
        <4>1. cmds' = cmds \/ (cmds # <<>> /\ cmds' = Tail(cmds))
          BY <3>3 DEF WorkerTake, DequeueFront, DequeueGenerate
        <4> QED BY <2>2, <4>1, Taken
      <3>4. ASSUME NEW t \in Apps, AppBuffers(t)
            PROVE  \A p \in DOMAIN cmds' : cmds'[p].type # "Hardware"
        <4>1. CASE SubmitEnqueue(t)
          BY <4>1 DEF SubmitEnqueue, EnqueueHardware
        <4>2. CASE CallWaitAll(t) \/ SubmitWaitAll(t)
          <5>1. PICK w \in 1 .. Len(wait_all) + 1 : EnqueueXQueueWaitAllCommand(w)
            BY <4>2 DEF CallWaitAll, SubmitWaitAll
          <5>2. cmds' = cmds \/ cmds' = Append(cmds, WaitAll(w))
            BY <5>1 DEF EnqueueXQueueWaitAllCommand, bufVars
          <5>3. WaitAll(w) \in Command /\ WaitAll(w).type # "Hardware"
            BY BufferFacts DEF WaitAll, Command, CmdType
          <5> QED BY <2>2, <5>2, <5>3, Appended
        <4> QED BY <3>4, <4>1, <4>2 DEF AppBuffers
      <3>5. CASE ControlBuffers(k)
        <4>1. cmds' = <<>> \/ cmds' = Append(cmds, Destroy)
          BY <3>5 DEF ControlBuffers, ResumeDropAll, DropAll, DestructEnqueue, EnqueueDestroy
        <4>2. Destroy \in Command /\ Destroy.type # "Hardware"
          BY DEF Destroy, Command, CmdType
        <4> QED BY <2>2, <4>1, <4>2, Appended
      <3> QED BY <1>0, <1>3, <3>1, <3>2, <3>3, <3>4, <3>5 DEF Buffers
    <2>5. ~Launching'
      <3>1. CASE ~WorkerTake
        BY <2>2, <3>1, LaunchingBegins
      <3>2. CASE WorkerTake
        <4>1. PICK c : Dispatch(c) /\ (DequeueFront(c) \/ DequeueGenerate(c))
          BY <3>2 DEF WorkerTake
        <4>2. c.type # "Hardware"
          <5>1. CASE DequeueFront(c)
            BY <2>2, <5>1, Taken DEF DequeueFront
          <5>2. CASE DequeueGenerate(c)
            BY <5>2 DEF DequeueGenerate, BatchSync, WaitAll
          <5> QED BY <4>1, <5>1, <5>2
        <4>3. pc'[Worker] \in {"batch", "allCheck"} /\ ret' = "done"
          BY <1>0, <4>1, <4>2 DEF Dispatch, Goto
        <4> QED BY <4>3 DEF Launching, SyncCmdLabels
      <3> QED BY <3>1, <3>2
    <2> QED BY <2>3, <2>4, <2>5
  <1> QED BY <1>2, <1>3

DrainInv(k) ==
  /\ TypeInv /\ LaunchesHardware
  /\ Kept /\ LastOfBuffer /\ NoneLeft /\ Drained /\ GivenUp(k)

LEMMA DrainStart ==
  ASSUME NEW k \in Controllers, Init
  PROVE  Kept /\ LastOfBuffer /\ NoneLeft /\ Drained /\ GivenUp(k)
  <1>1. /\ kind = <<>> /\ cmds = <<>> /\ cmd_log = <<>> /\ pc[Worker] = "dequeue"
    BY DEF Init, BufInit, WorkerInit, Threads
  <1>2. ~Launching /\ HwIdx = {}
    BY <1>1 DEF Launching, SyncCmdLabels, HwIdx
  <1> QED BY <1>1, <1>2 DEF Kept, LastOfBuffer, NoneLeft, Drained, GivenUp

(* The scheduler is told that a queue is idle only when nothing is left to *)
(* complete in it: not in the buffer, not in the worker's hands, not in    *)
(* the log -- with one controller, which may drop commands as often as it  *)
(* resumes the queue.                                                      *)
THEOREM IdleDrained ==
  ASSUME NEW k \in Controllers, OneController(k)
  PROVE  Spec => []IdleMeansDrained
  <1>1. Init => DrainInv(k)
    BY TypeStart, DrainStart DEF DrainInv
  <1>2. DrainInv(k) /\ [Next]_vars => DrainInv(k)'
    BY TypeStep, LaunchesHardwareStep, KeptStep, LastStep, NoneLeftStep, DrainedStep,
       GivenUpStep DEF DrainInv
  <1>3. DrainInv(k) => IdleMeansDrained
    <2> SUFFICES ASSUME DrainInv(k), xq_state = "Idle", ~Dropping, NEW i \in Enqueued
                 PROVE  state[i] = Completed
      BY DEF IdleMeansDrained
    <2>1. ~Launching /\ (\A p \in DOMAIN cmds : cmds[p].type # "Hardware") /\ cmd_log = <<>>
      BY DEF DrainInv, NoneLeft
    <2>2. i \in HwIdx /\ state[i] \in {Pending, InFlight, Completed}
      <3>1. TypeInv /\ i \in HwIdx /\ state[i] >= Pending
        BY DEF DrainInv, Enqueued
      <3>2. state[i] \in CmdState
        BY <3>1, TypeFacts, ElementOfSeq DEF TypeInv, TypeOK, BufTypeOK
      <3> QED BY <3>1, <3>2 DEF CmdState, Pending, InFlight, Completed
    <2>3. ~InBuffer(Hardware(i))
      BY <2>1 DEF InBuffer, Hardware
    <2> QED BY <2>1, <2>2, <2>3 DEF DrainInv, Kept, InLog
  <1> QED BY <1>1, <1>2, <1>3, PTL DEF Spec

=============================================================================
