---------------------------- MODULE AsyncXQueue ----------------------------
(***************************************************************************)
(* An asynchronous XQueue (preempt/src/xqueue/async_xqueue.cpp): its       *)
(* command buffer, launch worker and hardware queue, the application       *)
(* threads that submit commands and wait for them, and the controllers     *)
(* (the scheduler's executor, or whoever calls XQueueSuspend and           *)
(* XQueueResume) that suspend it, resume it and in the end destroy it.     *)
(***************************************************************************)
EXTENDS LaunchWorker

CONSTANTS
  Submitters,   (* the application threads that submit commands            *)
  Waiters,      (* the application threads that wait for commands          *)
  MaxCmds,      (* bound: hardware commands submitted                      *)
  MaxPauses,    (* bound: suspensions                                      *)
  SuspendFlags, (* "async", "sync" (kQueueSuspendFlagSyncHwQueue)          *)
  ResumeFlags,  (* "keep", "drop" (kQueueResumeFlagDropCommands)           *)
  Destroys      (* whether the XQueue is destroyed                         *)

ASSUME ApiAssumption ==
  /\ Submitters \cup Waiters \subseteq Apps
  /\ MaxCmds \in Nat /\ MaxPauses \in Nat
  /\ SuspendFlags \subseteq {"async", "sync"}
  /\ ResumeFlags \subseteq {"keep", "drop"}
  /\ Destroys \in BOOLEAN

VARIABLES
  suspended,   (* suspended_                                               *)
  terminated,  (* terminated_                                              *)
  covers,      (* history: covers[t]: the commands in the buffer or gone   *)
               (* through it when thread t called WaitAll                  *)
  flag         (* flag[k]: the flag of controller k's Suspend or Resume    *)

apiVars == <<suspended, terminated, covers, flag>>
vars == <<bufVars, hwVars, workerVars, apiVars>>

AppLabels == {"idle", "enqueue", "blocked", "waitDone", "waitInFlight", "waitAll"}
ControlLabels == {"idle", "pause", "deactivate", "syncHw", "reSync", "reRead", "reClear",
                  "relaunch", "resume", "dropAll", "dropIdx", "dropResume",
                  "enqDestroy", "waitDestroy", "destroyed"}

Init ==
  /\ BufInit /\ HwInit /\ WorkerInit
  /\ suspended = FALSE /\ terminated = FALSE
  /\ covers = [t \in Apps |-> {}]
  /\ flag = [k \in Controllers |-> "keep"]
-----------------------------------------------------------------------------
(* A thread returns from its operation, whose locals go out of scope.      *)
Return(t) == Goto(t, "idle") /\ arg' = [arg EXCEPT ![t] = 0]

(* Submit: the index is drawn, and the command enqueued in another step; a *)
(* blocking submission then waits until the command is launched.           *)
SubmitDraw(t) ==
  /\ pc[t] = "idle" /\ ~terminated
  /\ Len(kind) < MaxCmds
  /\ \E k \in Kinds : DrawIdx(k)
  /\ arg' = [arg EXCEPT ![t] = Len(kind) + 1]
  /\ Goto(t, "enqueue")
  /\ UNCHANGED <<hwVars, logVars, last_sync_idx, drop_idx, pause_count, worker_state, lock,
                 cur, dropped, seen_count, ret, apiVars>>

SubmitEnqueue(t) ==
  /\ pc[t] = "enqueue"
  /\ EnqueueHardware(arg[t])
  /\ IF kind[arg[t]] = "blocking" THEN Goto(t, "blocked") /\ UNCHANGED arg ELSE Return(t)
  /\ UNCHANGED <<hwVars, logVars, last_sync_idx, drop_idx, pause_count, worker_state, lock,
                 cur, dropped, seen_count, ret, apiVars>>

(* Wait for a submitted command: a completed one has released its XQueue   *)
(* and returns at once; a synchronizable one is synced with the worker's   *)
(* help once it is in flight; any other is waited for until completed.     *)
WaitCmd(t) ==
  /\ pc[t] = "idle" /\ ~terminated
  /\ \E i \in HwIdx :
       /\ state[i] \in {Pending, InFlight}
       /\ arg' = [arg EXCEPT ![t] = i]
       /\ Goto(t, IF i \in sync THEN "waitInFlight" ELSE "waitDone")
  /\ UNCHANGED <<bufVars, hwVars, logVars, last_sync_idx, drop_idx, pause_count, worker_state,
                 lock, cur, dropped, seen_count, ret, apiVars>>

(* WaitUntil: the thread goes on when the command has reached the state.   *)
CmdReached(t) ==
  /\ \/ /\ \/ pc[t] = "blocked" /\ state[arg[t]] >= InFlight
           \/ pc[t] = "waitDone" /\ state[arg[t]] = Completed
           \/ pc[t] = "waitAll" /\ wait_all[arg[t]] = Completed
        /\ Return(t)
        /\ covers' = [covers EXCEPT ![t] = {}]
     \/ /\ pc[t] = "waitInFlight" /\ state[arg[t]] >= InFlight
        /\ Goto(t, "cmdCheck")
        /\ UNCHANGED <<arg, covers>>
  /\ UNCHANGED <<bufVars, hwVars, logVars, last_sync_idx, drop_idx, pause_count, worker_state,
                 lock, cur, dropped, seen_count, ret, suspended, terminated, flag>>

Enqueued == {i \in HwIdx : state[i] >= Pending}

(* WaitAll enqueues a WaitAll command and waits for it; SubmitWaitAll only *)
(* enqueues it.                                                            *)
CallWaitAll(t) ==
  /\ pc[t] = "idle" /\ ~terminated
  /\ \E w \in 1 .. Len(wait_all) + 1 :
       /\ EnqueueXQueueWaitAllCommand(w)
       /\ arg' = [arg EXCEPT ![t] = w]
  /\ covers' = [covers EXCEPT ![t] = Enqueued]
  /\ Goto(t, "waitAll")
  /\ UNCHANGED <<hwVars, logVars, last_sync_idx, drop_idx, pause_count, worker_state, lock,
                 cur, dropped, seen_count, ret, suspended, terminated, flag>>

SubmitWaitAll(t) ==
  /\ pc[t] = "idle" /\ ~terminated
  /\ \E w \in 1 .. Len(wait_all) + 1 : EnqueueXQueueWaitAllCommand(w)
  /\ UNCHANGED <<hwVars, workerVars, apiVars>>
-----------------------------------------------------------------------------
(* Suspend: only the caller that turns suspended_ to true pauses the       *)
(* worker, deactivates the hardware queue at level 2, and synchronizes it  *)
(* when asked to (kQueueSuspendFlagSyncHwQueue).                           *)
Suspend(k) ==
  /\ pc[k] = "idle" /\ ~terminated
  /\ pause_count < MaxPauses
  /\ ~suspended /\ suspended' = TRUE
  /\ \E f \in SuspendFlags : flag' = [flag EXCEPT ![k] = f]
  /\ Goto(k, "pause")
  /\ UNCHANGED <<bufVars, hwVars, logVars, last_sync_idx, drop_idx, pause_count, worker_state,
                 lock, cur, dropped, arg, seen_count, ret, terminated, covers>>

SuspendPause(k) ==
  /\ pc[k] = "pause"
  /\ Pause
  /\ Goto(k, IF Level >= 2 THEN "deactivate"
             ELSE IF flag[k] = "sync" THEN "syncHw" ELSE "idle")
  /\ UNCHANGED <<hwVars, arg, seen_count, ret, apiVars>>

SuspendDeactivate(k) ==
  /\ pc[k] = "deactivate"
  /\ exit_flag' = TRUE
  /\ Goto(k, IF flag[k] = "sync" THEN "syncHw" ELSE "idle")
  /\ UNCHANGED <<bufVars, hwq, executed, preempt_idx, logVars, last_sync_idx, drop_idx,
                 pause_count, worker_state, lock, cur, dropped, arg, seen_count, ret, apiVars>>

SuspendSyncHw(k) ==
  /\ pc[k] = "syncHw"
  /\ HwSynchronized
  /\ Goto(k, "idle")
  /\ UNCHANGED <<bufVars, hwVars, logVars, last_sync_idx, drop_idx, pause_count, worker_state,
                 lock, cur, dropped, arg, seen_count, ret, apiVars>>
-----------------------------------------------------------------------------
(* Resume: only the caller that turns suspended_ to false does anything.   *)
(* At level 1 it resumes the worker, whatever the flag.  At level 2 it     *)
(* reactivates the hardware queue first.                                   *)
BeginResume(k, f) ==
  /\ suspended /\ suspended' = FALSE
  /\ flag' = [flag EXCEPT ![k] = f]
  /\ Goto(k, IF Level = 1 THEN "resume" ELSE "reSync")

ResumeBegin(k) ==
  /\ pc[k] = "idle" /\ ~terminated
  /\ \E f \in ResumeFlags : BeginResume(k, f)
  /\ UNCHANGED <<bufVars, hwVars, logVars, last_sync_idx, drop_idx, pause_count, worker_state,
                 lock, cur, dropped, arg, seen_count, ret, terminated, covers>>

AllPositions(log, i)     == DOMAIN log   (* a slip: the whole log *)
FlushedPositions(log, i) == {p \in DOMAIN log : log[p] >= i}

(* The commands at the positions P of a log, in the order of the log (the  *)
(* set has one element).                                                   *)
InLogOrder(log, P) ==
  {[q \in DOMAIN f |-> log[f[q]]] :
     f \in {g \in UNION {[1 .. n -> P] : n \in 0 .. Len(log)} :
             /\ \A p \in P : \E q \in DOMAIN g : g[q] = p
             /\ \A q, r \in DOMAIN g : q < r => g[q] < g[r]}}

(* CudaQueueLv2::Reactivate: synchronize, read the first flushed command,  *)
(* clear the preempt buffer, and launch again what the log holds from that *)
(* command on.  The log is read without mtx_.                              *)
ReactivateSync(k) ==
  /\ pc[k] = "reSync"
  /\ HwSynchronized
  /\ Goto(k, "reRead")
  /\ UNCHANGED <<bufVars, hwVars, logVars, last_sync_idx, drop_idx, pause_count, worker_state,
                 lock, cur, dropped, arg, seen_count, ret, apiVars>>

ReactivateRead(k) ==
  /\ pc[k] = "reRead"
  /\ arg' = [arg EXCEPT ![k] = preempt_idx]
  /\ Goto(k, "reClear")
  /\ UNCHANGED <<bufVars, hwVars, logVars, last_sync_idx, drop_idx, pause_count, worker_state,
                 lock, cur, dropped, seen_count, ret, apiVars>>

ReactivateClear(k) ==
  /\ pc[k] = "reClear"
  /\ exit_flag' = FALSE /\ preempt_idx' = 0
  /\ Goto(k, IF flag[k] = "drop" THEN "dropAll"
             ELSE IF arg[k] = 0 THEN "resume" ELSE "relaunch")
  /\ UNCHANGED <<bufVars, hwq, executed, logVars, last_sync_idx, drop_idx, pause_count,
                 worker_state, lock, cur, dropped, arg, seen_count, ret, apiVars>>

ReactivateRelaunch(k) ==
  /\ pc[k] = "relaunch"
  /\ \E s \in InLogOrder(cmd_log, FlushedPositions(cmd_log, arg[k])) : HwLaunch(s)
  /\ Goto(k, "resume")
  /\ UNCHANGED <<bufVars, executed, exit_flag, preempt_idx, logVars, last_sync_idx, drop_idx,
                 pause_count, worker_state, lock, cur, dropped, arg, seen_count, ret, apiVars>>

(* The destructor goes on to enqueue the Destroy command after its Resume. *)
EndResume(k) ==
  /\ Goto(k, IF terminated THEN "enqDestroy" ELSE "idle")
  /\ arg' = [arg EXCEPT ![k] = 0]
  /\ flag' = [flag EXCEPT ![k] = "keep"]

ResumeWorker(k) ==
  /\ pc[k] = "resume"
  /\ Resume
  /\ EndResume(k)
  /\ UNCHANGED <<hwVars, seen_count, ret, suspended, terminated, covers>>

(* Dropping: the buffer is emptied, the last index drawn so far is read,   *)
(* and the worker is resumed with its log completed and everything up to   *)
(* that index dropped.                                                     *)
ResumeDropAll(k) ==
  /\ pc[k] = "dropAll"
  /\ DropAll
  /\ dropped' = dropped \cup HwIn(cmds)
  /\ Goto(k, "dropIdx")
  /\ UNCHANGED <<hwVars, logVars, last_sync_idx, drop_idx, pause_count, worker_state, lock,
                 cur, arg, seen_count, ret, apiVars>>

LastDrawnLess1 == Len(kind) - 1   (* a slip: off by one *)
LastDrawn      == Len(kind)

ResumeDropIdx(k) ==
  /\ pc[k] = "dropIdx"
  /\ arg' = [arg EXCEPT ![k] = LastDrawn]
  /\ Goto(k, "dropResume")
  /\ UNCHANGED <<bufVars, hwVars, logVars, last_sync_idx, drop_idx, pause_count, worker_state,
                 lock, cur, dropped, seen_count, ret, apiVars>>

ResumeDrop(k) ==
  /\ pc[k] = "dropResume"
  /\ ResumeAndDrop(arg[k])
  /\ EndResume(k)
  /\ UNCHANGED <<hwVars, seen_count, ret, suspended, terminated, covers>>
-----------------------------------------------------------------------------
(* A slip: the destructor does not resume a suspended queue.               *)
DestructSuspended(k) == Goto(k, "enqDestroy") /\ UNCHANGED <<suspended, flag>>

DestructResume(k) ==
  IF suspended THEN BeginResume(k, "drop")
  ELSE Goto(k, "enqDestroy") /\ UNCHANGED <<suspended, flag>>

(* The destructor runs when the last reference to the XQueue is dropped: a *)
(* thread in an operation holds one, and so does every hardware command    *)
(* that is submitted and not completed.  It resumes a suspended queue with *)
(* commands dropped, enqueues the Destroy command and waits for it.        *)
DestructBegin(k) ==
  /\ Destroys /\ ~terminated /\ terminated' = TRUE
  /\ \A t \in Apps \cup Controllers : pc[t] = "idle"
  /\ \A i \in HwIdx : state[i] = Completed
  /\ DestructResume(k)
  /\ UNCHANGED <<bufVars, hwVars, logVars, last_sync_idx, drop_idx, pause_count, worker_state,
                 lock, cur, dropped, arg, seen_count, ret, covers>>

DestructEnqueue(k) ==
  /\ pc[k] = "enqDestroy"
  /\ EnqueueDestroy
  /\ Goto(k, "waitDestroy")
  /\ UNCHANGED <<hwVars, logVars, last_sync_idx, drop_idx, pause_count, worker_state, lock,
                 cur, dropped, arg, seen_count, ret, apiVars>>

DestructWait(k) ==
  /\ pc[k] = "waitDestroy"
  /\ worker_state = "Terminated"
  /\ Goto(k, "destroyed")
  /\ UNCHANGED <<bufVars, hwVars, logVars, last_sync_idx, drop_idx, pause_count, worker_state,
                 lock, cur, dropped, arg, seen_count, ret, apiVars>>
-----------------------------------------------------------------------------
(* The steps a thread takes once it has begun an operation, and the ones   *)
(* that begin an operation.                                                *)
AppProgress(t) ==
  \/ SubmitEnqueue(t) \/ CmdReached(t)
  \/ SyncCmdCheck(t) /\ UNCHANGED apiVars
  \/ SyncCmdHw(t)    /\ UNCHANGED apiVars
  \/ SyncCmdPost(t)  /\ UNCHANGED apiVars
  \/ CvWait(t)       /\ UNCHANGED apiVars

AppCall(t) ==
  \/ t \in Submitters /\ SubmitDraw(t)
  \/ t \in Waiters /\ (WaitCmd(t) \/ CallWaitAll(t) \/ SubmitWaitAll(t))

ControlProgress(k) ==
  \/ SuspendPause(k) \/ SuspendDeactivate(k) \/ SuspendSyncHw(k)
  \/ ReactivateSync(k) \/ ReactivateRead(k) \/ ReactivateClear(k) \/ ReactivateRelaunch(k)
  \/ ResumeWorker(k) \/ ResumeDropAll(k) \/ ResumeDropIdx(k) \/ ResumeDrop(k)
  \/ DestructEnqueue(k) \/ DestructWait(k)

ControlCall(k) == Suspend(k) \/ ResumeBegin(k) \/ DestructBegin(k)

HwStep == (HwExecute \/ HwFlush) /\ UNCHANGED <<workerVars, apiVars>>

(* Nothing is left to do: every thread is between two operations and the   *)
(* worker sleeps on an idle queue, or has ended.                           *)
Terminating ==
  /\ \A t \in Apps : pc[t] = "idle"
  /\ \A k \in Controllers : pc[k] \in {"idle", "destroyed"}
  /\ pc[Worker] \in {"cvWait", "end"}
  /\ ~suspended
  /\ UNCHANGED vars

Next ==
  \/ WorkerStep /\ UNCHANGED apiVars
  \/ HwStep
  \/ \E t \in Apps : AppCall(t) \/ AppProgress(t)
  \/ \E k \in Controllers : ControlCall(k) \/ ControlProgress(k)
  \/ Terminating

Spec == Init /\ [][Next]_vars

(* Every thread keeps running and the hardware keeps executing; whoever    *)
(* suspends a queue resumes it in the end.  Nobody has to submit, wait or  *)
(* suspend.  mtx_ is an MCS lock, which serves its threads in turn.        *)
Fairness ==
  /\ WF_vars(WorkerStep /\ UNCHANGED apiVars)
  /\ WF_vars(HwStep)
  /\ \A t \in Apps : WF_vars(AppProgress(t))
  /\ \A k \in Controllers : WF_vars(ControlProgress(k)) /\ WF_vars(ResumeBegin(k))

FairSpec == Spec /\ Fairness
-----------------------------------------------------------------------------
Executed == ToSet(executed)

(* A Resume has dropped the buffer and has yet to drop the log.            *)
Dropping == \E k \in Controllers : pc[k] \in {"dropIdx", "dropResume"}

ApiTypeOK ==
  /\ pc \in [Threads -> WorkerLabels \cup SyncCmdLabels \cup AppLabels \cup ControlLabels]
  /\ suspended \in BOOLEAN /\ terminated \in BOOLEAN
  /\ covers \in [Apps -> SUBSET Nat]
  /\ flag \in [Controllers -> {"keep", "drop", "async", "sync"}]

TypeOK == BufTypeOK /\ HwTypeOK /\ WorkerTypeOK /\ ApiTypeOK

(* No more commands are in flight than threshold_ allows, whatever the     *)
(* waiters pop and the controllers drop while the worker frees a slot.     *)
InFlightBound == Len(cmd_log) <= Threshold

(* A command that is reported completed has run, or a drop gave it up,     *)
(* whoever submitted it and whatever its place among the others.           *)
CompletedHasRun ==
  \A i \in HwIdx : state[i] = Completed => i \in Executed \cup dropped

(* A command is reported completed only when the hardware has executed it  *)
(* and everything submitted before it, or a drop has given it up: a sync   *)
(* that a suspension interrupts, where the hardware reports flushed        *)
(* commands as finished, never completes them.                             *)
CompletedMeansExecuted ==
  \A i \in HwIdx : state[i] = Completed =>
    \/ i \in dropped
    \/ \A j \in 1 .. i : j \in Executed \cup dropped

(* Commands run in submission order: what runs after a command that is not *)
(* idempotent was submitted after it (so it also runs only once), across   *)
(* any flush and relaunch of the commands in flight.                       *)
RunsInOrder ==
  \A p, q \in DOMAIN executed :
    p < q /\ ~Idempotent(executed[p]) => executed[p] < executed[q]

(* When WaitAll returns, every command enqueued before the call is         *)
(* completed, whether the call enqueued a command of its own, shared the   *)
(* last one, or found the queue idle; or a Resume is dropping, or has      *)
(* dropped, the commands that are not.                                     *)
WaitAllIsBarrier ==
  \A t \in Apps :
    pc[t] = "waitAll" /\ wait_all[arg[t]] = Completed =>
      Dropping \/ \A i \in covers[t] : state[i] = Completed \/ i <= drop_idx

(* The scheduler is told that a queue is idle only when every command that *)
(* entered the buffer is completed, or is being dropped.                   *)
IdleMeansDrained ==
  xq_state = "Idle" =>
    Dropping \/ \A i \in Enqueued : state[i] = Completed

(* The assertion in EnqueueXQueueWaitAllCommand: while somebody can call   *)
(* it, the last command of an idle queue is a WaitAll, and a completed one *)
(* unless it was enqueued but not yet taken (then the queue is not idle).  *)
IdleEndsWithWaitAll ==
  xq_state = "Idle" /\ ~terminated =>
    last_cmd.type = "WaitAll" /\ wait_all[last_cmd.id] = Completed

(* A dropped command is not launched: what a Resume gives up, in the       *)
(* buffer, in the log or in the worker's hands, does not enter the         *)
(* hardware queue any more, neither for the first time nor again.          *)
DroppedIsNotLaunched ==
  [][\A i \in ToSet(hwq') \ ToSet(hwq) : i > drop_idx /\ i \notin dropped]_vars

(* The XQueue keeps the promises of CommandQueue: every step of its        *)
(* threads and of the hardware is a step of that specification, or none.   *)
Queue == INSTANCE CommandQueue WITH
  Idx        <- 1 .. MaxCmds,
  submitted  <- Enqueued,
  repeatable <- {i \in Enqueued : Idempotent(i)},
  completed  <- {i \in HwIdx : state[i] = Completed},
  given_up   <- dropped

KeepsPromises == Queue!Spec

(* The XQueue is the queue that the scheduler relies on, as long as nobody *)
(* drops commands: what it reports and completes, and when, is what        *)
(* LocalSystem and Server assume of each of their queues.                  *)
Schedulable == INSTANCE SchedulableQueue WITH
  jobs     <- Cardinality({i \in Enqueued : state[i] # Completed}),
  xq_state <- IF terminated THEN "Idle" ELSE xq_state,
  paused   <- ~terminated /\ worker_state = "Paused",
  gone     <- terminated

ActsAsQueue == Schedulable!Spec

(* A paused worker launches nothing and completes nothing, until a Resume  *)
(* drops commands for the first time: the log stays as it is until the     *)
(* queue is resumed, which is also what lets Resume read it without mtx_.  *)
(* (A drop completes commands that the worker may be syncing to free a     *)
(* slot, and that sync then returns although the queue is paused again.)   *)
LogFrozenWhilePaused ==
  [][drop_idx = -1 /\ worker_state = "Paused" /\ worker_state' = "Paused" =>
       UNCHANGED logVars]_vars

(* Re-entrant: between two calls of the controllers, the worker is paused  *)
(* exactly when suspended_ says that the queue is suspended.               *)
SuspendedMatchesWorker ==
  ~terminated /\ (\A k \in Controllers : pc[k] = "idle") =>
    (suspended <=> worker_state = "Paused")

(* Every submitted command completes, whatever the controllers suspend and *)
(* the hardware flushes meanwhile.                                         *)
EveryCommandCompletes ==
  \A i \in 1 .. MaxCmds :
    (i \in Enqueued) ~> (i \in HwIdx /\ state[i] = Completed)

(* Every thread returns from the operation it is in: no wake-up is lost    *)
(* and no two threads wait for each other.                                 *)
EveryCallReturns == \A t \in Apps : (pc[t] # "idle") ~> (pc[t] = "idle")

(* The scheduler is told that the queue is idle once nobody submits any    *)
(* more, unless the queue is destroyed.                                    *)
EventuallyIdle == <>[](xq_state = "Idle" \/ terminated)

(* The destructor ends, also on a suspended queue: the worker sees the     *)
(* Destroy command.                                                        *)
DestructionEnds == terminated ~> (pc[Worker] = "end")
=============================================================================
