------------------------- MODULE XQueueOrderProofs -------------------------
(***************************************************************************)
(* What an XQueue does with the commands in its log.  The log of a paused  *)
(* worker (LogFrozen) and what a drop gives up (DroppedStays); then, where *)
(* nothing in flight is given up (Steady), that commands run in order      *)
(* (OrderKept), that what is completed has run (CompletedRan), and that    *)
(* the queue implements CommandQueue (PromisesKept); then, drops and       *)
(* waiters included, that WaitAll is a barrier (BarrierKept); and last,    *)
(* without drops, that the queue implements SchedulableQueue (QueueActs).  *)
(***************************************************************************)
EXTENDS XQueueIdleProofs, FiniteSetTheorems

(* Where a thread synchronizes the hardware without mtx_.                  *)
Unlocked == {"cmdSync", "cmdPost", "allSync", "allPost"}

Seen ==
  \A t \in Threads :
    /\ seen_count[t] <= pause_count
    /\ pc[t] \in Unlocked /\ Unpreempted(t) => worker_state # "Paused"

Alone == Waiters = {} /\ drop_idx = -1

OnlySubmit == Waiters = {} => \A t \in Apps : pc[t] \in {"idle", "enqueue", "blocked"}

Held ==
  /\ Alone /\ pc[Worker] \in SyncCmdLabels => InLog(arg[Worker])
  /\ pc[Worker] = "tail" => lock = Worker /\ (Alone => worker_state # "Paused")

-----------------------------------------------------------------------------
(* A step moves one thread: it leaves the locals of the others alone.      *)
Local(t) ==
  \A u \in Threads : u # t =>
    pc'[u] = pc[u] /\ arg'[u] = arg[u] /\ seen_count'[u] = seen_count[u]

LEMMA LocalUpdate ==
  ASSUME TypeInv, NEW t \in Threads,
         pc' = pc \/ \E l : pc' = [pc EXCEPT ![t] = l],
         arg' = arg \/ \E i : arg' = [arg EXCEPT ![t] = i],
         seen_count' = seen_count \/ \E n : seen_count' = [seen_count EXCEPT ![t] = n]
  PROVE  Local(t)
  <1>1. pc \in [Threads -> Labels] /\ arg \in [Threads -> Nat] /\ seen_count \in [Threads -> Nat]
    BY DEF TypeInv, TypeOK, ApiTypeOK, WorkerTypeOK, Labels
  <1> QED BY <1>1 DEF Local

LEMMA SyncLocal ==
  ASSUME TypeInv, NEW t \in Threads,
         SyncCmdCheck(t) \/ SyncCmdHw(t) \/ SyncCmdPost(t) \/ CvWait(t)
  PROVE  Local(t)
  <1>1. CASE SyncCmdCheck(t)
    BY <1>1, LocalUpdate DEF SyncCmdCheck, ReturnFromSync, Goto
  <1>2. CASE SyncCmdHw(t)
    BY <1>2, LocalUpdate DEF SyncCmdHw, Goto
  <1>3. CASE SyncCmdPost(t)
    BY <1>3, LocalUpdate DEF SyncCmdPost, ReturnFromSync, Goto
  <1>4. CASE CvWait(t)
    BY <1>4, LocalUpdate DEF CvWait, threadVars
  <1> QED BY <1>1, <1>2, <1>3, <1>4

LEMMA WorkerLocal ==
  ASSUME TypeInv, WorkerStep
  PROVE  Local(Worker)
  <1>0. Worker \in Threads
    BY TypeFacts
  <1>1. CASE WorkerTake
    BY <1>0, <1>1, LocalUpdate DEF WorkerTake, Dispatch, Goto
  <1>2. CASE WorkerIdle \/ WorkerDone \/ LaunchDropped \/ Launch \/ AwaitRunning
    <2>1. \E l : pc' = [pc EXCEPT ![Worker] = l]
      BY <1>2 DEF WorkerIdle, WorkerDone, LaunchDropped, Launch, AwaitRunning, Goto
    <2>2. UNCHANGED <<arg, seen_count>>
      BY <1>2 DEF WorkerIdle, WorkerDone, LaunchDropped, Launch, AwaitRunning
    <2> QED BY <1>0, <2>1, <2>2, LocalUpdate
  <1>3. CASE LaunchBegin \/ LaunchFull \/ WorkerBatch
    <2>1. \E l : pc' = [pc EXCEPT ![Worker] = l]
      BY <1>3 DEF LaunchBegin, LaunchFull, WorkerBatch, BeginSyncCmd, BeginSyncAll, Goto
    <2>2. arg' = arg \/ \E i : arg' = [arg EXCEPT ![Worker] = i]
      BY <1>3 DEF LaunchBegin, LaunchFull, WorkerBatch, BeginSyncCmd, BeginSyncAll
    <2>3. seen_count' = seen_count
      BY <1>3 DEF LaunchBegin, LaunchFull, WorkerBatch
    <2> QED BY <1>0, <2>1, <2>2, <2>3, LocalUpdate
  <1>4. CASE SyncAllCheck \/ SyncAllHw \/ SyncAllPost
    <2>1. \E l : pc' = [pc EXCEPT ![Worker] = l]
      BY <1>4 DEF SyncAllCheck, SyncAllHw, SyncAllPost, ReturnFromSync, Goto
    <2>2. arg' = arg \/ \E i : arg' = [arg EXCEPT ![Worker] = i]
      BY <1>4 DEF SyncAllCheck, SyncAllHw, SyncAllPost, ReturnFromSync
    <2>3. seen_count' = seen_count \/ \E n : seen_count' = [seen_count EXCEPT ![Worker] = n]
      BY <1>4 DEF SyncAllCheck, SyncAllHw, SyncAllPost, ReturnFromSync
    <2> QED BY <1>0, <2>1, <2>2, <2>3, LocalUpdate
  <1>5. CASE SyncCmdCheck(Worker) \/ SyncCmdHw(Worker) \/ SyncCmdPost(Worker) \/ CvWait(Worker)
    BY <1>0, <1>5, SyncLocal
  <1> QED BY <1>1, <1>2, <1>3, <1>4, <1>5 DEF WorkerStep

LEMMA AppLocal ==
  ASSUME TypeInv, NEW t \in Apps, AppCall(t) \/ AppProgress(t)
  PROVE  Local(t)
  <1>0. t \in Threads
    BY TypeFacts
  <1>1. CASE SyncCmdCheck(t) \/ SyncCmdHw(t) \/ SyncCmdPost(t) \/ CvWait(t)
    BY <1>0, <1>1, SyncLocal
  <1>2. CASE SubmitDraw(t) \/ SubmitEnqueue(t) \/ WaitCmd(t) \/ CmdReached(t)
             \/ CallWaitAll(t) \/ SubmitWaitAll(t)
    <2>1. pc' = pc \/ \E l : pc' = [pc EXCEPT ![t] = l]
      BY <1>2 DEF SubmitDraw, SubmitEnqueue, WaitCmd, CmdReached, CallWaitAll, SubmitWaitAll,
         Return, Goto, workerVars
    <2>2. arg' = arg \/ \E i : arg' = [arg EXCEPT ![t] = i]
      BY <1>2 DEF SubmitDraw, SubmitEnqueue, WaitCmd, CmdReached, CallWaitAll, SubmitWaitAll,
         Return, workerVars
    <2>3. seen_count' = seen_count
      BY <1>2 DEF SubmitDraw, SubmitEnqueue, WaitCmd, CmdReached, CallWaitAll, SubmitWaitAll,
         workerVars
    <2> QED BY <1>0, <2>1, <2>2, <2>3, LocalUpdate
  <1> QED BY <1>1, <1>2 DEF AppCall, AppProgress

LEMMA ControlLocal ==
  ASSUME TypeInv, NEW k \in Controllers, ControlCall(k) \/ ControlProgress(k)
  PROVE  Local(k) /\ seen_count' = seen_count
  <1>0. k \in Threads
    BY TypeFacts
  <1>1. \E l : pc' = [pc EXCEPT ![k] = l]
    BY DEF ControlCall, ControlProgress, Suspend, ResumeBegin, DestructBegin,
       SuspendPause, SuspendDeactivate, SuspendSyncHw, ReactivateSync, ReactivateRead,
       ReactivateClear, ReactivateRelaunch, ResumeWorker, ResumeDropAll, ResumeDropIdx,
       ResumeDrop, DestructEnqueue, DestructWait, BeginResume, EndResume, DestructResume, Goto
  <1>2. arg' = arg \/ \E i : arg' = [arg EXCEPT ![k] = i]
    BY DEF ControlCall, ControlProgress, Suspend, ResumeBegin, DestructBegin,
       SuspendPause, SuspendDeactivate, SuspendSyncHw, ReactivateSync, ReactivateRead,
       ReactivateClear, ReactivateRelaunch, ResumeWorker, ResumeDropAll, ResumeDropIdx,
       ResumeDrop, DestructEnqueue, DestructWait, BeginResume, EndResume, DestructResume
  <1>3. seen_count' = seen_count
    BY DEF ControlCall, ControlProgress, Suspend, ResumeBegin, DestructBegin,
       SuspendPause, SuspendDeactivate, SuspendSyncHw, ReactivateSync, ReactivateRead,
       ReactivateClear, ReactivateRelaunch, ResumeWorker, ResumeDropAll, ResumeDropIdx,
       ResumeDrop, DestructEnqueue, DestructWait
  <1> QED BY <1>0, <1>1, <1>2, <1>3, LocalUpdate

(* Only Pause counts, and pauses.                                          *)
LEMMA PauseKept ==
  ASSUME [Next]_vars, \A k \in Controllers : ~SuspendPause(k)
  PROVE  /\ pause_count' = pause_count
         /\ worker_state' = "Paused" => worker_state = "Paused"
  <1>1. CASE WorkerStep
    <2>1. CASE WorkerTake \/ WorkerIdle \/ WorkerDone
      BY <2>1 DEF WorkerTake, Dispatch, WorkerIdle, WorkerDone
    <2>2. CASE LaunchBegin \/ LaunchFull \/ AwaitRunning \/ WorkerBatch
      BY <2>2 DEF LaunchBegin, LaunchFull, AwaitRunning, WorkerBatch
    <2>3. CASE LaunchDropped \/ Launch
      BY <2>3 DEF LaunchDropped, Launch
    <2>4. CASE SyncAllCheck \/ SyncAllHw \/ SyncAllPost
      BY <2>4 DEF SyncAllCheck, SyncAllHw, SyncAllPost
    <2>5. CASE SyncCmdCheck(Worker) \/ SyncCmdHw(Worker) \/ SyncCmdPost(Worker) \/ CvWait(Worker)
      BY <2>5 DEF SyncCmdCheck, SyncCmdHw, SyncCmdPost, CvWait
    <2> QED BY <1>1, <2>1, <2>2, <2>3, <2>4, <2>5 DEF WorkerStep
  <1>2. CASE HwStep \/ UNCHANGED vars
    BY <1>2 DEF HwStep, vars, workerVars
  <1>3. ASSUME NEW t \in Apps, AppCall(t) \/ AppProgress(t)
        PROVE  UNCHANGED <<pause_count, worker_state>>
    <2>1. CASE SubmitDraw(t) \/ SubmitEnqueue(t)
      BY <2>1 DEF SubmitDraw, SubmitEnqueue
    <2>2. CASE WaitCmd(t) \/ CmdReached(t) \/ CallWaitAll(t) \/ SubmitWaitAll(t)
      BY <2>2 DEF WaitCmd, CmdReached, CallWaitAll, SubmitWaitAll, workerVars
    <2>3. CASE SyncCmdCheck(t) \/ SyncCmdHw(t) \/ SyncCmdPost(t) \/ CvWait(t)
      BY <2>3 DEF SyncCmdCheck, SyncCmdHw, SyncCmdPost, CvWait
    <2> QED BY <1>3, <2>1, <2>2, <2>3 DEF AppCall, AppProgress
  <1>4. ASSUME NEW k \in Controllers, ControlCall(k) \/ ControlProgress(k)
        PROVE  /\ pause_count' = pause_count
               /\ worker_state' = "Paused" => worker_state = "Paused"
    <2>1. CASE Suspend(k) \/ ResumeBegin(k) \/ DestructBegin(k)
      BY <2>1 DEF Suspend, ResumeBegin, DestructBegin
    <2>2. CASE SuspendDeactivate(k) \/ SuspendSyncHw(k)
      BY <2>2 DEF SuspendDeactivate, SuspendSyncHw
    <2>3. CASE ReactivateSync(k) \/ ReactivateRead(k) \/ ReactivateClear(k)
               \/ ReactivateRelaunch(k)
      BY <2>3 DEF ReactivateSync, ReactivateRead, ReactivateClear, ReactivateRelaunch
    <2>4. CASE ResumeWorker(k) \/ ResumeDropAll(k) \/ ResumeDropIdx(k) \/ ResumeDrop(k)
      BY <2>4 DEF ResumeWorker, Resume, ResumeDropAll, ResumeDropIdx, ResumeDrop, ResumeAndDrop
    <2>5. CASE DestructEnqueue(k) \/ DestructWait(k)
      BY <2>5 DEF DestructEnqueue, DestructWait
    <2> QED BY <1>4, <2>1, <2>2, <2>3, <2>4, <2>5 DEF ControlCall, ControlProgress
  <1> QED BY <1>1, <1>2, <1>3, <1>4, NextCases DEF Others

-----------------------------------------------------------------------------
(* The order of the indices, as the invariant of InFlightBounded has it.   *)
LEMMA OrderStep ==
  ASSUME TypeInv, LaunchesHardware, Order, OneSubmitter, [Next]_vars
  PROVE  Order'
  <1>1. CASE \E t \in Apps \cap Submitters : SubmitDraw(t)
    <2>1. \E t \in Apps : AppCall(t) \/ AppProgress(t)
      BY <1>1 DEF AppCall
    <2> QED BY <1>1, <2>1, OrderOthers
  <1>2. CASE \A t \in Apps \cap Submitters : ~SubmitDraw(t)
    <2>1. EnqueueKept
      BY <1>2, OthersKeepEnqueue
    <2>2. CASE WorkerStep
      BY <2>1, <2>2, OrderWorker
    <2>3. CASE Others
      BY <2>1, <2>3, OrderOthers DEF Others
    <2>4. CASE UNCHANGED vars
      <3>1. UNCHANGED <<kind, state, cmds, cmd_log, sync_cmd_log, cur, pc, ret>>
        BY <2>4 DEF vars, bufVars, workerVars
      <3> QED BY <2>1, <3>1, OrderFrame DEF Launching
    <2> QED BY <2>2, <2>3, <2>4, NextCases
  <1> QED BY <1>1, <1>2

LEMMA OrderStart == Init => Order
  BY DEF Init, BufInit, WorkerInit, Launching, SyncCmdLabels, Threads,
     Order, LogOrder, CurOrder, BufOrder, SubmitOrder, Increasing

(* The steps that change the log or drop_idx_.                             *)
ChangesLog ==
  \/ Launch \/ SyncAllPost \/ SyncCmdPost(Worker)
  \/ \E t \in Apps : SyncCmdPost(t)
  \/ \E k \in Controllers : ResumeDrop(k)

LEMMA LogVarsKept ==
  ASSUME [Next]_vars, ~ChangesLog
  PROVE  UNCHANGED <<cmd_log, sync_cmd_log, drop_idx>>
  <1>1. CASE WorkerStep
    <2>1. CASE WorkerTake \/ WorkerIdle \/ WorkerDone
      BY <2>1 DEF WorkerTake, Dispatch, WorkerIdle, WorkerDone, logVars
    <2>2. CASE LaunchBegin \/ LaunchFull \/ AwaitRunning \/ WorkerBatch \/ LaunchDropped
      BY <2>2 DEF LaunchBegin, LaunchFull, AwaitRunning, WorkerBatch, LaunchDropped, logVars
    <2>3. CASE SyncAllCheck \/ SyncAllHw \/ SyncCmdCheck(Worker) \/ SyncCmdHw(Worker)
               \/ CvWait(Worker)
      BY <2>3 DEF SyncAllCheck, SyncAllHw, SyncCmdCheck, SyncCmdHw, CvWait, logVars
    <2> QED BY <1>1, <2>1, <2>2, <2>3 DEF WorkerStep, ChangesLog
  <1>2. CASE HwStep \/ UNCHANGED vars
    BY <1>2 DEF HwStep, vars, workerVars
  <1>3. ASSUME NEW t \in Apps, AppCall(t) \/ AppProgress(t)
        PROVE  UNCHANGED <<cmd_log, sync_cmd_log, drop_idx>>
    <2>1. CASE SubmitDraw(t) \/ SubmitEnqueue(t)
      BY <2>1 DEF SubmitDraw, SubmitEnqueue, logVars
    <2>2. CASE WaitCmd(t) \/ CmdReached(t) \/ CallWaitAll(t) \/ SubmitWaitAll(t)
      BY <2>2 DEF WaitCmd, CmdReached, CallWaitAll, SubmitWaitAll, logVars, workerVars
    <2>3. CASE SyncCmdCheck(t) \/ SyncCmdHw(t) \/ CvWait(t)
      BY <2>3 DEF SyncCmdCheck, SyncCmdHw, CvWait, logVars
    <2> QED BY <1>3, <2>1, <2>2, <2>3 DEF AppCall, AppProgress, ChangesLog
  <1>4. ASSUME NEW k \in Controllers, ControlCall(k) \/ ControlProgress(k)
        PROVE  UNCHANGED <<cmd_log, sync_cmd_log, drop_idx>>
    <2>1. CASE Suspend(k) \/ ResumeBegin(k) \/ DestructBegin(k)
      BY <2>1 DEF Suspend, ResumeBegin, DestructBegin, logVars
    <2>2. CASE SuspendPause(k) \/ SuspendDeactivate(k) \/ SuspendSyncHw(k)
      BY <2>2 DEF SuspendPause, SuspendDeactivate, SuspendSyncHw, Pause, logVars
    <2>3. CASE ReactivateSync(k) \/ ReactivateRead(k) \/ ReactivateClear(k)
               \/ ReactivateRelaunch(k)
      BY <2>3 DEF ReactivateSync, ReactivateRead, ReactivateClear, ReactivateRelaunch, logVars
    <2>4. CASE ResumeWorker(k) \/ ResumeDropAll(k) \/ ResumeDropIdx(k)
      BY <2>4 DEF ResumeWorker, Resume, ResumeDropAll, ResumeDropIdx, logVars
    <2>5. CASE DestructEnqueue(k) \/ DestructWait(k)
      BY <2>5 DEF DestructEnqueue, DestructWait, logVars
    <2> QED BY <1>4, <2>1, <2>2, <2>3, <2>4, <2>5 DEF ControlCall, ControlProgress, ChangesLog
  <1> QED BY <1>1, <1>2, <1>3, <1>4, NextCases DEF Others

(* While the worker has mtx_, nobody else takes it, or changes the state   *)
(* of the worker.                                                          *)
LEMMA LockKept ==
  ASSUME TypeInv, Others, lock = Worker
  PROVE  lock' = Worker /\ worker_state' = worker_state
  <1>0. Worker # NoThread /\ \A t \in Apps \cup Controllers : t # Worker
    BY ThreadsAssumption DEF Threads
  <1>1. CASE HwStep
    BY <1>1 DEF HwStep, workerVars
  <1>2. ASSUME NEW t \in Apps, AppCall(t) \/ AppProgress(t)
        PROVE  lock' = Worker /\ worker_state' = worker_state
    <2>1. CASE SubmitDraw(t) \/ SubmitEnqueue(t)
      BY <2>1 DEF SubmitDraw, SubmitEnqueue
    <2>2. CASE WaitCmd(t) \/ CmdReached(t) \/ CallWaitAll(t) \/ SubmitWaitAll(t)
      BY <2>2 DEF WaitCmd, CmdReached, CallWaitAll, SubmitWaitAll, workerVars
    <2>3. CASE SyncCmdCheck(t) \/ SyncCmdHw(t) \/ SyncCmdPost(t) \/ CvWait(t)
      BY <1>0, <2>3 DEF SyncCmdCheck, SyncCmdHw, SyncCmdPost, CvWait, Locked
    <2> QED BY <1>2, <2>1, <2>2, <2>3 DEF AppCall, AppProgress
  <1>3. ASSUME NEW k \in Controllers, ControlCall(k) \/ ControlProgress(k)
        PROVE  lock' = Worker /\ worker_state' = worker_state
    <2>1. CASE Suspend(k) \/ ResumeBegin(k) \/ DestructBegin(k)
      BY <2>1 DEF Suspend, ResumeBegin, DestructBegin
    <2>2. CASE SuspendPause(k) \/ SuspendDeactivate(k) \/ SuspendSyncHw(k)
      BY <1>0, <2>2 DEF SuspendPause, SuspendDeactivate, SuspendSyncHw, Pause
    <2>3. CASE ReactivateSync(k) \/ ReactivateRead(k) \/ ReactivateClear(k)
               \/ ReactivateRelaunch(k)
      BY <2>3 DEF ReactivateSync, ReactivateRead, ReactivateClear, ReactivateRelaunch
    <2>4. CASE ResumeWorker(k) \/ ResumeDropAll(k) \/ ResumeDropIdx(k) \/ ResumeDrop(k)
      BY <1>0, <2>4 DEF ResumeWorker, Resume, ResumeDropAll, ResumeDropIdx, ResumeDrop,
         ResumeAndDrop
    <2>5. CASE DestructEnqueue(k) \/ DestructWait(k)
      BY <2>5 DEF DestructEnqueue, DestructWait
    <2> QED BY <1>3, <2>1, <2>2, <2>3, <2>4, <2>5 DEF ControlCall, ControlProgress
  <1> QED BY <1>1, <1>2, <1>3 DEF Others

-----------------------------------------------------------------------------
(***************************************************************************)
(* The log of a paused worker.                                             *)
(*                                                                         *)
(* Seen is what threads know that synchronize the hardware without mtx_:   *)
(* when pause_count_ is still what they have seen, the worker is not       *)
(* paused.  OnlySubmit and Held: without waiting threads, and until        *)
(* commands are dropped, only the worker pops the log, so that what it     *)
(* syncs stays in the log, and it comes to a launch only when running.     *)
(***************************************************************************)
(* What the step of one thread may do to what it has seen.                 *)
Looks(t) ==
  \/ pc'[t] \notin Unlocked /\ seen_count'[t] \in {0, seen_count[t], pause_count}
  \/ pc[t] \in Unlocked /\ seen_count'[t] = seen_count[t]
  \/ worker_state = "Running" /\ seen_count'[t] = pause_count

LEMMA SyncLooks ==
  ASSUME TypeInv, NEW t \in Threads,
         SyncCmdCheck(t) \/ SyncCmdHw(t) \/ SyncCmdPost(t) \/ CvWait(t)
  PROVE  Looks(t)
  <1>0. /\ pc \in [Threads -> Labels] /\ seen_count \in [Threads -> Nat]
        /\ ret \in {"full", "tail", "done"}
    BY DEF TypeInv, TypeOK, ApiTypeOK, WorkerTypeOK, Labels
  <1>1. CASE SyncCmdCheck(t)
    BY <1>0, <1>1 DEF SyncCmdCheck, ReturnFromSync, Goto, Looks, Unlocked
  <1>2. CASE SyncCmdHw(t)
    BY <1>0, <1>2 DEF SyncCmdHw, Goto, Looks, Unlocked
  <1>3. CASE SyncCmdPost(t)
    BY <1>0, <1>3 DEF SyncCmdPost, ReturnFromSync, Goto, Looks, Unlocked
  <1>4. CASE CvWait(t)
    BY <1>0, <1>4 DEF CvWait, threadVars, Looks, Unlocked
  <1> QED BY <1>1, <1>2, <1>3, <1>4

LEMMA WorkerLooks ==
  ASSUME TypeInv, WorkerStep
  PROVE  Looks(Worker)
  <1>0. /\ pc \in [Threads -> Labels] /\ seen_count \in [Threads -> Nat]
        /\ ret \in {"full", "tail", "done"} /\ Worker \in Threads
    BY DEF TypeInv, TypeOK, ApiTypeOK, WorkerTypeOK, Labels, Threads
  <1>1. CASE WorkerTake \/ WorkerIdle \/ WorkerDone
    BY <1>0, <1>1 DEF WorkerTake, Dispatch, WorkerIdle, WorkerDone, Goto, Looks, Unlocked
  <1>2. CASE LaunchBegin \/ LaunchFull \/ AwaitRunning
    BY <1>0, <1>2 DEF LaunchBegin, LaunchFull, AwaitRunning, BeginSyncCmd,
       BeginSyncAll, Goto, Looks, Unlocked
  <1>3. CASE LaunchDropped \/ Launch \/ WorkerBatch
    BY <1>0, <1>3 DEF LaunchDropped, Launch, WorkerBatch, BeginSyncCmd, Goto, Looks, Unlocked
  <1>4. CASE SyncAllCheck \/ SyncAllHw \/ SyncAllPost
    BY <1>0, <1>4 DEF SyncAllCheck, SyncAllHw, SyncAllPost, ReturnFromSync, Goto, Looks, Unlocked
  <1>5. CASE SyncCmdCheck(Worker) \/ SyncCmdHw(Worker) \/ SyncCmdPost(Worker) \/ CvWait(Worker)
    BY <1>0, <1>5, SyncLooks
  <1> QED BY <1>1, <1>2, <1>3, <1>4, <1>5 DEF WorkerStep

LEMMA AppLooks ==
  ASSUME TypeInv, NEW t \in Apps, AppCall(t) \/ AppProgress(t)
  PROVE  Looks(t)
  <1>0. /\ pc \in [Threads -> Labels] /\ t \in Threads
    BY TypeFacts
  <1>1. CASE SyncCmdCheck(t) \/ SyncCmdHw(t) \/ SyncCmdPost(t) \/ CvWait(t)
    BY <1>0, <1>1, SyncLooks
  <1>2. CASE SubmitDraw(t) \/ SubmitEnqueue(t) \/ WaitCmd(t) \/ CmdReached(t)
    BY <1>0, <1>2 DEF SubmitDraw, SubmitEnqueue, WaitCmd, CmdReached, Return, Goto, Looks, Unlocked
  <1>3. CASE CallWaitAll(t) \/ SubmitWaitAll(t)
    BY <1>0, <1>3 DEF CallWaitAll, SubmitWaitAll, Goto, workerVars, Looks, Unlocked
  <1> QED BY <1>1, <1>2, <1>3 DEF AppCall, AppProgress

LEMMA ControlOutside ==
  ASSUME TypeInv, NEW k \in Controllers, ControlCall(k) \/ ControlProgress(k)
  PROVE  pc'[k] \notin Unlocked /\ seen_count'[k] = seen_count[k]
  <1>0. pc \in [Threads -> Labels] /\ k \in Threads
    BY TypeFacts
  <1>1. \E l : pc' = [pc EXCEPT ![k] = l] /\ l \notin Unlocked
    <2>1. CASE ControlCall(k)
      BY <2>1 DEF ControlCall, Suspend, ResumeBegin, DestructBegin, BeginResume, DestructResume,
         Goto, Unlocked
    <2>2. CASE ControlProgress(k)
      BY <2>2 DEF ControlProgress, SuspendPause, SuspendDeactivate, SuspendSyncHw,
         ReactivateSync, ReactivateRead, ReactivateClear, ReactivateRelaunch, ResumeWorker,
         ResumeDropAll, ResumeDropIdx, ResumeDrop, DestructEnqueue, DestructWait, EndResume,
         Goto, Unlocked
    <2> QED BY <2>1, <2>2
  <1>2. seen_count' = seen_count
    BY ControlLocal
  <1> QED BY <1>0, <1>1, <1>2

LEMMA SeenStep ==
  ASSUME TypeInv, Seen, [Next]_vars
  PROVE  Seen'
  <1>0. /\ seen_count \in [Threads -> Nat] /\ pause_count \in Nat
        /\ Controllers \subseteq Threads /\ Apps \subseteq Threads /\ Worker \in Threads
    BY TypeFacts DEF TypeInv, TypeOK, WorkerTypeOK
  <1>1. CASE \E k \in Controllers : SuspendPause(k)
    <2>1. PICK k \in Controllers : SuspendPause(k)
      BY <1>1
    <2>2. seen_count' = seen_count /\ pause_count' = pause_count + 1
      BY <2>1 DEF SuspendPause, Pause
    <2>3. \A t \in Threads : seen_count[t] \in Nat /\ seen_count[t] <= pause_count
      BY <1>0 DEF Seen
    <2> QED BY <1>0, <2>2, <2>3 DEF Seen, Unpreempted
  <1>2. CASE \A k \in Controllers : ~SuspendPause(k)
    <2>0. pause_count' = pause_count /\ (worker_state' = "Paused" => worker_state = "Paused")
      BY <1>2, PauseKept
    <2>1. ASSUME NEW t \in Threads, Local(t), Looks(t)
          PROVE  Seen'
      <3>1. \A u \in Threads : u # t =>
              /\ seen_count'[u] <= pause_count'
              /\ pc'[u] \in Unlocked /\ seen_count'[u] = pause_count' => worker_state' # "Paused"
        BY <2>0, <2>1 DEF Local, Seen, Unpreempted
      <3>2. /\ seen_count'[t] <= pause_count'
            /\ pc'[t] \in Unlocked /\ seen_count'[t] = pause_count' => worker_state' # "Paused"
        BY <1>0, <2>0, <2>1 DEF Looks, Seen, Unpreempted
      <3> QED BY <3>1, <3>2 DEF Seen, Unpreempted
    <2>2. CASE WorkerStep
      BY <1>0, <2>1, <2>2, WorkerLocal, WorkerLooks
    <2>3. ASSUME NEW t \in Apps, AppCall(t) \/ AppProgress(t)
          PROVE  Seen'
      BY <1>0, <2>1, <2>3, AppLocal, AppLooks
    <2>4. ASSUME NEW k \in Controllers, ControlCall(k) \/ ControlProgress(k)
          PROVE  Seen'
      <3>1. Looks(k)
        BY <2>4, ControlOutside DEF Looks
      <3> QED BY <1>0, <2>1, <2>4, <3>1, ControlLocal
    <2>5. CASE HwStep \/ UNCHANGED vars
      <3>1. UNCHANGED <<pc, seen_count, pause_count, worker_state>>
        BY <2>5 DEF HwStep, vars, workerVars
      <3> QED BY <3>1 DEF Seen, Unpreempted
    <2> QED BY <2>2, <2>3, <2>4, <2>5, NextCases DEF Others
  <1> QED BY <1>1, <1>2

LEMMA OnlySubmitStep ==
  ASSUME TypeInv, OnlySubmit, [Next]_vars
  PROVE  OnlySubmit'
  <1>0. /\ pc \in [Threads -> Labels] /\ Apps \subseteq Threads /\ Worker \in Threads
        /\ Controllers \subseteq Threads
        /\ \A t \in Apps : t # Worker /\ t \notin Controllers
    BY TypeFacts, ThreadsAssumption
  <1> SUFFICES ASSUME Waiters = {}, NEW u \in Apps
               PROVE  pc'[u] \in {"idle", "enqueue", "blocked"}
    BY DEF OnlySubmit
  <1>1. pc[u] \in {"idle", "enqueue", "blocked"}
    BY DEF OnlySubmit
  <1>2. CASE WorkerStep
    BY <1>0, <1>1, <1>2, WorkerLocal DEF Local
  <1>3. CASE HwStep \/ UNCHANGED vars
    BY <1>1, <1>3 DEF HwStep, vars, workerVars
  <1>4. ASSUME NEW k \in Controllers, ControlCall(k) \/ ControlProgress(k)
        PROVE  pc'[u] \in {"idle", "enqueue", "blocked"}
    BY <1>0, <1>1, <1>4, ControlLocal DEF Local
  <1>5. ASSUME NEW t \in Apps, t # u, AppCall(t) \/ AppProgress(t)
        PROVE  pc'[u] \in {"idle", "enqueue", "blocked"}
    BY <1>0, <1>1, <1>5, AppLocal DEF Local
  <1>6. CASE AppCall(u) \/ AppProgress(u)
    <2>1. SubmitDraw(u) \/ SubmitEnqueue(u) \/ CmdReached(u)
      BY <1>1, <1>6 DEF AppCall, AppProgress, SyncCmdCheck, SyncCmdHw, SyncCmdPost, CvWait
    <2>2. \E l \in {"idle", "enqueue", "blocked"} : pc' = [pc EXCEPT ![u] = l]
      BY <1>1, <2>1 DEF SubmitDraw, SubmitEnqueue, CmdReached, Return, Goto
    <2> QED BY <1>0, <2>2
  <1> QED BY <1>2, <1>3, <1>4, <1>5, <1>6, NextCases DEF Others

(* A step of the worker that begins to sync a command takes it from the    *)
(* log; one that ends it leaves the labels of a sync.                      *)
LEMMA WorkerSyncs ==
  ASSUME TypeInv, Order, WorkerStep, pc'[Worker] \in SyncCmdLabels
  PROVE  \/ pc[Worker] \in SyncCmdLabels /\ arg'[Worker] = arg[Worker] /\ UNCHANGED logVars
         \/ UNCHANGED logVars /\ InLog(arg'[Worker])
  <1>0. /\ pc \in [Threads -> Labels] /\ ret \in {"full", "tail", "done"} /\ Worker \in Threads
        /\ arg \in [Threads -> Nat] /\ sync_cmd_log \in Seq(Nat)
    BY TypeFacts DEF TypeInv, TypeOK, WorkerTypeOK
  <1>1. CASE WorkerTake \/ WorkerIdle \/ WorkerDone \/ LaunchDropped \/ Launch \/ AwaitRunning
    BY <1>0, <1>1 DEF WorkerTake, Dispatch, WorkerIdle, WorkerDone, LaunchDropped, Launch,
       AwaitRunning, Goto, SyncCmdLabels
  <1>2. CASE LaunchBegin
    <2>1. \E p \in DOMAIN cmd_log : BeginSyncCmd(cmd_log[p], "full")
      BY <1>0, <1>2 DEF LaunchBegin, BeginSyncAll, Goto, SyncCmdLabels
    <2> QED BY <1>0, <1>2, <2>1 DEF LaunchBegin, BeginSyncCmd, InLog
  <1>3. CASE LaunchFull
    <2>1. \E p \in DOMAIN sync_cmd_log : BeginSyncCmd(sync_cmd_log[p], "tail")
      BY <1>0, <1>3 DEF LaunchFull, BeginSyncAll, Goto, SyncCmdLabels
    <2>2. PICK p \in DOMAIN sync_cmd_log : arg'[Worker] = sync_cmd_log[p]
      BY <1>0, <2>1 DEF BeginSyncCmd
    <2>3. \E q \in DOMAIN cmd_log : cmd_log[q] = arg'[Worker]
      BY <2>2 DEF Order, LogOrder
    <2> QED BY <1>3, <2>3 DEF LaunchFull, InLog
  <1>4. CASE WorkerBatch
    <2>1. sync_cmd_log # <<>> /\ arg'[Worker] = Head(sync_cmd_log)
      BY <1>0, <1>4 DEF WorkerBatch, BeginSyncCmd, Goto, SyncCmdLabels
    <2>2. arg'[Worker] = sync_cmd_log[1] /\ 1 \in DOMAIN sync_cmd_log
      BY <1>0, <2>1, EmptySeq
    <2>3. \E q \in DOMAIN cmd_log : cmd_log[q] = arg'[Worker]
      BY <2>2 DEF Order, LogOrder
    <2> QED BY <1>4, <2>3 DEF WorkerBatch, InLog
  <1>5. CASE SyncAllCheck \/ SyncAllHw \/ SyncAllPost
    BY <1>0, <1>5 DEF SyncAllCheck, SyncAllHw, SyncAllPost, ReturnFromSync, Goto, SyncCmdLabels
  <1>6. CASE SyncCmdCheck(Worker) \/ SyncCmdHw(Worker)
    BY <1>0, <1>6 DEF SyncCmdCheck, SyncCmdHw, ReturnFromSync, Goto, SyncCmdLabels
  <1>7. CASE SyncCmdPost(Worker)
    BY <1>0, <1>7 DEF SyncCmdPost, ReturnFromSync, Goto, SyncCmdLabels
  <1>8. CASE CvWait(Worker)
    BY <1>0, <1>8 DEF CvWait, threadVars, logVars, SyncCmdLabels
  <1> QED BY <1>1, <1>2, <1>3, <1>4, <1>5, <1>6, <1>7, <1>8 DEF WorkerStep

LEMMA AloneBegins ==
  ASSUME TypeInv, [Next]_vars, Alone'
  PROVE  Alone
  <1>1. CASE ChangesLog
    <2>1. CASE \E k \in Controllers : ResumeDrop(k)
      BY <2>1, TypeFacts DEF ResumeDrop, ResumeAndDrop, Alone
    <2>2. CASE ~ \E k \in Controllers : ResumeDrop(k)
      BY <1>1, <2>2 DEF ChangesLog, Launch, SyncAllPost, SyncCmdPost, Alone
    <2> QED BY <2>1, <2>2
  <1>2. CASE ~ChangesLog
    BY <1>2, LogVarsKept DEF Alone
  <1> QED BY <1>1, <1>2

LEMMA HeldStep ==
  ASSUME TypeInv, LaunchesHardware, Order, Seen, OnlySubmit, Held, [Next]_vars
  PROVE  Held'
  <1>0. /\ pc \in [Threads -> Labels] /\ ret \in {"full", "tail", "done"} /\ Worker \in Threads
        /\ arg \in [Threads -> Nat]
        /\ Alone' => Alone
    BY TypeFacts, AloneBegins DEF TypeInv, TypeOK, WorkerTypeOK
  <1>1. CASE WorkerStep
    <2>1. (Alone /\ pc[Worker] \in SyncCmdLabels => InLog(arg[Worker]))'
      <3> SUFFICES ASSUME Alone', pc'[Worker] \in SyncCmdLabels
                   PROVE  \E p \in DOMAIN cmd_log' : cmd_log'[p] = arg'[Worker]
        BY DEF InLog, Alone
      <3> QED BY <1>0, <1>1, WorkerSyncs DEF Held, InLog, logVars
    <2>2. pc'[Worker] = "tail" => lock' = Worker /\ (Alone => worker_state' # "Paused")
      <3> SUFFICES ASSUME pc'[Worker] = "tail"
                   PROVE  lock' = Worker /\ (Alone => worker_state' # "Paused")
        OBVIOUS
      <3>1. CASE WorkerTake \/ WorkerIdle \/ WorkerDone \/ LaunchDropped \/ Launch
        BY <1>0, <3>1 DEF WorkerTake, Dispatch, WorkerIdle, WorkerDone, LaunchDropped, Launch,
           Goto
      <3>2. CASE LaunchBegin \/ LaunchFull \/ WorkerBatch
        BY <1>0, <3>2 DEF LaunchBegin, LaunchFull, WorkerBatch, BeginSyncCmd, BeginSyncAll, Goto
      <3>3. CASE AwaitRunning \/ SyncAllCheck
        BY <1>0, <3>3 DEF AwaitRunning, SyncAllCheck, ReturnFromSync, Goto
      <3>4. CASE SyncAllHw \/ SyncCmdHw(Worker)
        BY <1>0, <3>4 DEF SyncAllHw, SyncCmdHw, Goto
      <3>5. CASE SyncAllPost
        <4>1. pc[Worker] = "allPost" /\ Unpreempted(Worker) /\ lock' = Worker
              /\ worker_state' = worker_state
          BY <1>0, <3>5 DEF SyncAllPost, ReturnFromSync, Goto
        <4> QED BY <1>0, <4>1 DEF Seen, Unlocked
      <3>6. CASE SyncCmdPost(Worker)
        <4>1. pc[Worker] = "cmdPost" /\ Unpreempted(Worker) /\ lock' = Worker
              /\ worker_state' = worker_state
          BY <1>0, <3>6 DEF SyncCmdPost, ReturnFromSync, Goto
        <4> QED BY <1>0, <4>1 DEF Seen, Unlocked
      <3>7. CASE SyncCmdCheck(Worker)
        <4>1. /\ pc[Worker] = "cmdCheck" /\ lock' = Worker /\ worker_state' = worker_state
              /\ state[arg[Worker]] = Completed
          BY <1>0, <3>7 DEF SyncCmdCheck, ReturnFromSync, Goto
        <4>2. ~InLog(arg[Worker])
          BY <4>1 DEF Order, LogOrder, InLog, InFlight, Completed
        <4> QED BY <4>1, <4>2 DEF Held, SyncCmdLabels
      <3>8. CASE CvWait(Worker)
        BY <3>8 DEF CvWait, threadVars
      <3> QED BY <1>1, <3>1, <3>2, <3>3, <3>4, <3>5, <3>6, <3>7, <3>8 DEF WorkerStep
    <2>3. pc'[Worker] = "tail" => lock' = Worker /\ (Alone' => worker_state' # "Paused")
      BY <1>0, <2>2
    <2> QED BY <2>1, <2>3 DEF Held, InLog, Alone
  <1>2. CASE Others
    <2>1. UNCHANGED <<ret, cur>> /\ pc'[Worker] = pc[Worker] /\ arg'[Worker] = arg[Worker]
      BY <1>2, OthersKeepWorker DEF Others
    <2>2. Alone' => UNCHANGED logVars
      <3>1. ASSUME Alone, NEW t \in Apps PROVE ~SyncCmdPost(t)
        BY <3>1 DEF SyncCmdPost, OnlySubmit, Alone
      <3>2. ASSUME Alone', NEW k \in Controllers PROVE ~ResumeDrop(k)
        BY <3>2, TypeFacts DEF ResumeDrop, ResumeAndDrop, Alone
      <3>3. Launch \/ SyncAllPost \/ SyncCmdPost(Worker) =>
              pc'[Worker] # pc[Worker] \/ UNCHANGED logVars
        BY <1>0 DEF Launch, SyncAllPost, SyncCmdPost, Goto, ReturnFromSync
      <3>4. ~ChangesLog => UNCHANGED logVars
        BY LogVarsKept DEF logVars
      <3> QED BY <1>0, <2>1, <3>1, <3>2, <3>3, <3>4 DEF ChangesLog
    <2>3. pc[Worker] = "tail" => lock' = Worker /\ (Alone => worker_state' # "Paused")
      BY <1>2, LockKept DEF Held
    <2>4. (Alone /\ pc[Worker] \in SyncCmdLabels => InLog(arg[Worker]))'
      BY <1>0, <2>1, <2>2 DEF Held, InLog, logVars, Alone
    <2>5. pc'[Worker] = "tail" => lock' = Worker /\ (Alone' => worker_state' # "Paused")
      BY <1>0, <2>1, <2>3
    <2> QED BY <2>4, <2>5 DEF Held, InLog, Alone
  <1>3. CASE UNCHANGED vars
    BY <1>3 DEF vars, workerVars, Held, InLog, Alone
  <1> QED BY <1>1, <1>2, <1>3, NextCases

FrozenInv == TypeInv /\ LaunchesHardware /\ Order /\ Seen /\ OnlySubmit /\ Held

LEMMA FrozenStart == Init => FrozenInv
  <1>1. Init => Seen /\ OnlySubmit /\ Held
    BY ThreadsAssumption DEF Init, WorkerInit, Seen, Unlocked, OnlySubmit, Held, SyncCmdLabels,
       Threads
  <1> QED BY <1>1, TypeStart, OrderStart DEF FrozenInv

LEMMA FrozenStep ==
  ASSUME OneSubmitter, FrozenInv, [Next]_vars
  PROVE  FrozenInv'
  BY TypeStep, LaunchesHardwareStep, OrderStep, SeenStep, OnlySubmitStep, HeldStep DEF FrozenInv

(* A paused worker launches nothing and completes nothing until commands   *)
(* are dropped for the first time, when no thread waits for commands: so   *)
(* Resume reads the log without mtx_ while nobody changes it.              *)
THEOREM LogFrozen ==
  ASSUME OneSubmitter, Waiters = {}
  PROVE  Spec => LogFrozenWhilePaused
  <1>1. ASSUME FrozenInv, [Next]_vars, Alone, worker_state = "Paused", worker_state' = "Paused"
        PROVE  UNCHANGED logVars
    <2>1. /\ TypeInv /\ Seen /\ OnlySubmit /\ Held
          /\ Worker \in Threads /\ Apps \subseteq Threads
      BY <1>1, TypeFacts DEF FrozenInv
    <2>2. ~Launch
      BY <1>1, <2>1 DEF Launch, Held
    <2>3. ASSUME NEW t \in Threads, SyncCmdPost(t) \/ (t = Worker /\ SyncAllPost)
          PROVE  UNCHANGED logVars
      <3>1. pc[t] \in Unlocked /\ (Unpreempted(t) \/ UNCHANGED logVars)
        BY <2>3 DEF SyncCmdPost, SyncAllPost, Unlocked
      <3> QED BY <1>1, <2>1, <3>1 DEF Seen
    <2>4. ASSUME NEW k \in Controllers PROVE ~ResumeDrop(k)
      BY <1>1 DEF ResumeDrop, ResumeAndDrop
    <2> QED BY <1>1, <2>1, <2>2, <2>3, <2>4, LogVarsKept DEF ChangesLog, logVars
  <1>2. FrozenInv /\ [Next]_vars =>
          (drop_idx = -1 /\ worker_state = "Paused" /\ worker_state' = "Paused" =>
             UNCHANGED logVars)
    BY <1>1 DEF Alone
  <1>3. Init => FrozenInv
    BY FrozenStart
  <1>4. FrozenInv /\ [Next]_vars => FrozenInv'
    BY FrozenStep
  <1>5. FrozenInv /\ [Next]_vars =>
          [drop_idx = -1 /\ worker_state = "Paused" /\ worker_state' = "Paused" =>
             UNCHANGED logVars]_vars
    BY <1>2
  <1> QED BY <1>3, <1>4, <1>5, PTL DEF Spec, LogFrozenWhilePaused

-----------------------------------------------------------------------------
(***************************************************************************)
(* What has been dropped stays dropped.                                    *)
(*                                                                         *)
(* Placed: a command is in one place at a time, and its state says where:  *)
(* in the hands of a submitting thread, then in the buffer, then in the    *)
(* worker's hands, then in the log.  Above: the log holds nothing that the *)
(* last drop was to reach.                                                 *)
(***************************************************************************)
Distinct(s) == \A p, q \in DOMAIN s : p # q => s[p] # s[q]

Submitting(t, i) == pc[t] = "enqueue" /\ arg[t] = i

Placed ==
  /\ Distinct(cmd_log)
  /\ \A i : InLog(i) => i \in HwIdx /\ state[i] = InFlight
  /\ \A p \in DOMAIN cmds : cmds[p].type = "Hardware" =>
       /\ state[cmds[p].id] = Pending
       /\ \A q \in DOMAIN cmds : p # q => cmds[q] # cmds[p]
  /\ Launching => state[cur.id] = Pending /\ ~InBuffer(cur)
  /\ \A t \in Threads : \A i : Submitting(t, i) =>
       /\ state[i] = Created
       /\ \A u \in Threads : u # t => ~Submitting(u, i)
  /\ \A i \in dropped : i \in HwIdx /\ state[i] = Completed

Above == \A i : InLog(i) => i > drop_idx

(* The steps that add to dropped.                                          *)
LEMMA DroppedKept ==
  ASSUME [Next]_vars, ~LaunchDropped, \A k \in Controllers : ~ResumeDropAll(k) /\ ~ResumeDrop(k)
  PROVE  dropped' = dropped
  <1>1. CASE WorkerStep
    <2>1. CASE WorkerTake \/ WorkerIdle \/ WorkerDone
      BY <2>1 DEF WorkerTake, Dispatch, WorkerIdle, WorkerDone
    <2>2. CASE LaunchBegin \/ LaunchFull \/ AwaitRunning \/ WorkerBatch \/ Launch
      BY <2>2 DEF LaunchBegin, LaunchFull, AwaitRunning, WorkerBatch, Launch
    <2>3. CASE SyncAllCheck \/ SyncAllHw \/ SyncAllPost
      BY <2>3 DEF SyncAllCheck, SyncAllHw, SyncAllPost
    <2>4. CASE SyncCmdCheck(Worker) \/ SyncCmdHw(Worker) \/ SyncCmdPost(Worker) \/ CvWait(Worker)
      BY <2>4 DEF SyncCmdCheck, SyncCmdHw, SyncCmdPost, CvWait
    <2> QED BY <1>1, <2>1, <2>2, <2>3, <2>4 DEF WorkerStep
  <1>2. CASE HwStep \/ UNCHANGED vars
    BY <1>2 DEF HwStep, vars, workerVars
  <1>3. ASSUME NEW t \in Apps, AppCall(t) \/ AppProgress(t)
        PROVE  dropped' = dropped
    <2>1. CASE SubmitDraw(t) \/ SubmitEnqueue(t)
      BY <2>1 DEF SubmitDraw, SubmitEnqueue
    <2>2. CASE WaitCmd(t) \/ CmdReached(t) \/ CallWaitAll(t) \/ SubmitWaitAll(t)
      BY <2>2 DEF WaitCmd, CmdReached, CallWaitAll, SubmitWaitAll, workerVars
    <2>3. CASE SyncCmdCheck(t) \/ SyncCmdHw(t) \/ SyncCmdPost(t) \/ CvWait(t)
      BY <2>3 DEF SyncCmdCheck, SyncCmdHw, SyncCmdPost, CvWait
    <2> QED BY <1>3, <2>1, <2>2, <2>3 DEF AppCall, AppProgress
  <1>4. ASSUME NEW k \in Controllers, ControlCall(k) \/ ControlProgress(k)
        PROVE  dropped' = dropped
    <2>1. CASE Suspend(k) \/ ResumeBegin(k) \/ DestructBegin(k)
      BY <2>1 DEF Suspend, ResumeBegin, DestructBegin
    <2>2. CASE SuspendPause(k) \/ SuspendDeactivate(k) \/ SuspendSyncHw(k)
      BY <2>2 DEF SuspendPause, SuspendDeactivate, SuspendSyncHw, Pause
    <2>3. CASE ReactivateSync(k) \/ ReactivateRead(k) \/ ReactivateClear(k)
               \/ ReactivateRelaunch(k)
      BY <2>3 DEF ReactivateSync, ReactivateRead, ReactivateClear, ReactivateRelaunch
    <2>4. CASE ResumeWorker(k) \/ ResumeDropIdx(k) \/ DestructEnqueue(k) \/ DestructWait(k)
      BY <2>4 DEF ResumeWorker, Resume, ResumeDropIdx, DestructEnqueue, DestructWait
    <2> QED BY <1>4, <2>1, <2>2, <2>3, <2>4 DEF ControlCall, ControlProgress
  <1> QED BY <1>1, <1>2, <1>3, <1>4, NextCases DEF Others

(* A launch adds one command to the log, and to the hardware queue.        *)
LEMMA LogAppended ==
  ASSUME NEW s \in Seq(Nat), NEW i \in Nat, NEW r, r = Append(s, i)
  PROVE  /\ r \in Seq(Nat) /\ DOMAIN r = DOMAIN s \cup {Len(s) + 1} /\ r[Len(s) + 1] = i
         /\ Len(s) \in Nat /\ DOMAIN s = 1 .. Len(s)
         /\ \A p \in DOMAIN s : r[p] = s[p] /\ p # Len(s) + 1
  BY AppendProperties, LenProperties

(* What a synchronization pops is completed; what it leaves is untouched.  *)
LEMMA Popped ==
  ASSUME TypeInv, Distinct(cmd_log), NEW t, SyncCmdPost(t)
  PROVE  /\ Distinct(cmd_log)'
         /\ \A i : InLog(i)' => InLog(i) /\ (i \in HwIdx => state'[i] = state[i])
         /\ \A i \in HwIdx : state'[i] = state[i] \/ (InLog(i) /\ state'[i] = Completed)
         /\ UNCHANGED <<kind, cur, cmds, dropped, drop_idx>>
  <1>0. /\ cmd_log \in Seq(Nat) /\ DOMAIN cmd_log = 1 .. Len(cmd_log) /\ Len(cmd_log) \in Nat
        /\ DOMAIN state = HwIdx
    BY TypeFacts DEF TypeInv, TypeOK, WorkerTypeOK
  <1>1. UNCHANGED <<kind, cur, cmds, dropped, drop_idx>>
    BY DEF SyncCmdPost
  <1>2. CASE UNCHANGED <<state, logVars>>
    BY <1>1, <1>2 DEF logVars, InLog, Distinct
  <1>3. CASE ~UNCHANGED <<state, logVars>>
    <2>1. PICK n \in 0 .. Len(cmd_log) :
            /\ SetStates({cmd_log[p] : p \in 1 .. n}, Completed)
            /\ cmd_log' = SubSeq(cmd_log, n + 1, Len(cmd_log))
      BY <1>3 DEF SyncCmdPost
    <2>2. Rest(cmd_log, n, cmd_log')
      BY <1>0, <2>1, Suffix
    <2>3. \A p \in DOMAIN cmd_log' :
            p \in Nat /\ p >= 1 /\ p + n \in DOMAIN cmd_log /\ cmd_log'[p] = cmd_log[p + n]
      BY <1>0, <2>2, RestFacts
    <2>4. Distinct(cmd_log)'
      BY <2>3 DEF Distinct
    <2>5. ASSUME NEW p \in DOMAIN cmd_log', NEW q \in 1 .. n
          PROVE  cmd_log[q] # cmd_log'[p]
      <3>1. q \in DOMAIN cmd_log /\ q # p + n
        BY <1>0, <2>3
      <3> QED BY <2>3, <3>1 DEF Distinct
    <2>6. \A i \in HwIdx : IF \E q \in 1 .. n : cmd_log[q] = i THEN state'[i] = Completed
                           ELSE state'[i] = state[i]
      BY <1>0, <2>1 DEF SetStates
    <2>7. \A i : InLog(i)' => InLog(i) /\ (i \in HwIdx => state'[i] = state[i])
      BY <2>3, <2>5, <2>6 DEF InLog
    <2>8. \A i \in HwIdx : state'[i] = state[i] \/ (InLog(i) /\ state'[i] = Completed)
      <3>1. \A q \in 1 .. n : q \in DOMAIN cmd_log
        BY <1>0, <2>1
      <3> QED BY <2>6, <3>1 DEF InLog
    <2> QED BY <1>1, <2>4, <2>7, <2>8
  <1> QED BY <1>2, <1>3

(* Steps that complete commands in flight, and the others that move none.  *)
LEMMA PlacedFrame ==
  ASSUME TypeInv, LaunchesHardware, Placed, UNCHANGED <<kind, cur>>, Launching' => Launching,
         EnqueueKept, Distinct(cmd_log)',
         \A i : InLog(i)' => InLog(i) /\ (i \in HwIdx => state'[i] = state[i]),
         \A i \in HwIdx : state'[i] = state[i] \/ (state[i] = InFlight /\ state'[i] = Completed),
         \A i \in dropped' : i \in dropped \/ (i \in HwIdx /\ state'[i] = Completed),
         cmds' = cmds \/ \E c \in Command : c.type # "Hardware" /\ cmds' = Append(cmds, c)
  PROVE  Placed'
  <1>0. /\ HwIdx' = HwIdx /\ Pending # InFlight /\ Created # InFlight /\ Completed # InFlight
        /\ Launching => cur.type = "Hardware" /\ cur.id \in HwIdx
        /\ \A p \in DOMAIN cmds : cmds[p].type = "Hardware" => cmds[p].id \in HwIdx
    BY DEF HwIdx, Pending, InFlight, Created, Completed, LaunchesHardware, TypeInv, DrawnIds
  <1>1. \A i : InLog(i)' => i \in HwIdx' /\ state'[i] = InFlight
    BY <1>0 DEF Placed
  <1>2. \A t \in Threads : \A i : Submitting(t, i)' =>
          /\ state'[i] = Created
          /\ \A u \in Threads : u # t => ~Submitting(u, i)'
    <2> SUFFICES ASSUME NEW t \in Threads, NEW i, pc'[t] = "enqueue", arg'[t] = i
                 PROVE  /\ state'[i] = Created
                        /\ \A u \in Threads : u # t => ~(pc'[u] = "enqueue" /\ arg'[u] = i)
      BY DEF Submitting
    <2>1. Submitting(t, i) /\ i \in HwIdx
      BY DEF EnqueueKept, Submitting, TypeInv, DrawnIds
    <2>2. state'[i] = Created
      BY <1>0, <2>1 DEF Placed
    <2>3. \A u \in Threads : u # t => ~Submitting(u, i)
      BY <2>1 DEF Placed
    <2> QED BY <2>2, <2>3 DEF EnqueueKept, Submitting
  <1>3. \A i \in dropped' : i \in HwIdx' /\ state'[i] = Completed
    BY <1>0 DEF Placed
  <1>4. /\ \A p \in DOMAIN cmds : cmds[p].type = "Hardware" => state'[cmds[p].id] = Pending
        /\ Launching' => state'[cur.id] = Pending /\ ~InBuffer(cur)
    BY <1>0 DEF Placed
  <1>5. /\ \A p \in DOMAIN cmds' : cmds'[p].type = "Hardware" =>
             /\ state'[cmds'[p].id] = Pending
             /\ \A q \in DOMAIN cmds' : p # q => cmds'[q] # cmds'[p]
        /\ Launching' => ~InBuffer(cur)'
    <2>1. CASE cmds' = cmds
      BY <1>4, <2>1 DEF Placed, InBuffer
    <2>2. ASSUME NEW c \in Command, c.type # "Hardware", cmds' = Append(cmds, c)
          PROVE  /\ \A p \in DOMAIN cmds' : cmds'[p].type = "Hardware" =>
                      /\ state'[cmds'[p].id] = Pending
                      /\ \A q \in DOMAIN cmds' : p # q => cmds'[q] # cmds'[p]
                 /\ Launching' => ~InBuffer(cur)'
      <3>1. /\ \A p \in DOMAIN cmds' : cmds'[p] = c \/ (p \in DOMAIN cmds /\ cmds'[p] = cmds[p])
            /\ \A d : InBuffer(d)' <=> InBuffer(d) \/ d = c
        BY <2>2, Appended
      <3>2. Launching' => ~InBuffer(cur)'
        BY <1>0, <1>4, <2>2, <3>1
      <3>3. ASSUME NEW p \in DOMAIN cmds', cmds'[p].type = "Hardware"
            PROVE  /\ state'[cmds'[p].id] = Pending
                   /\ \A q \in DOMAIN cmds' : p # q => cmds'[q] # cmds'[p]
        <4>1. p \in DOMAIN cmds /\ cmds'[p] = cmds[p]
          BY <2>2, <3>1, <3>3
        <4>2. \A q \in DOMAIN cmds : p # q => cmds[q] # cmds[p]
          BY <3>3, <4>1 DEF Placed
        <4> QED BY <1>4, <2>2, <3>1, <3>3, <4>1, <4>2
      <3> QED BY <3>2, <3>3
    <2> QED BY <2>1, <2>2
  <1> QED BY <1>1, <1>2, <1>3, <1>4, <1>5 DEF Placed

(* The worker takes a command: it leaves the buffer for its hands.         *)
LEMMA PlacedTake ==
  ASSUME TypeInv, LaunchesHardware, Placed, WorkerTake, EnqueueKept
  PROVE  Placed'
  <1>0. /\ pc \in [Threads -> Labels] /\ Worker \in Threads
        /\ cmds \in Seq(Command) /\ DOMAIN cmds = 1 .. Len(cmds) /\ Len(cmds) \in Nat
        /\ \A p \in DOMAIN cmds : cmds[p] \in Command
    BY BufferFacts
  <1>1. UNCHANGED <<kind, state, cmd_log, dropped>>
    BY DEF WorkerTake, DequeueFront, DequeueGenerate, Dispatch, logVars
  <1>2. /\ \A t \in Threads : \A i : Submitting(t, i)' => Submitting(t, i)
        /\ \A i : InLog(i)' <=> InLog(i)
    BY <1>1 DEF EnqueueKept, Submitting, InLog
  <1>3. CASE \E c \in ToSet(cmds) : DequeueFront(c) /\ Dispatch(c)
    <2>1. PICK c \in ToSet(cmds) : DequeueFront(c) /\ Dispatch(c)
      BY <1>3
    <2>2. cmds # <<>> /\ c = Head(cmds) /\ cmds' = Tail(cmds) /\ cur' = c
      BY <2>1 DEF DequeueFront, Dispatch
    <2>3. Len(cmds) > 0 /\ c = cmds[1] /\ 1 \in DOMAIN cmds
      BY <1>0, <2>2, EmptySeq
    <2>4. \A p \in DOMAIN cmds' : p + 1 \in DOMAIN cmds /\ p + 1 # 1 /\ cmds'[p] = cmds[p + 1]
      BY <1>0, <2>2, <2>3
    <2>5. Launching' => c.type = "Hardware"
      <3>1. pc'[Worker] = CASE c.type = "Hardware" -> "launch"
                            [] c.type = "BatchSync" -> "batch"
                            [] OTHER -> "allCheck"
        BY <1>0, <2>1 DEF Dispatch, Goto
      <3>2. ret' = "done"
        BY <2>1 DEF Dispatch
      <3> QED BY <3>1, <3>2 DEF Launching, SyncCmdLabels
    <2>6. Launching' => state'[c.id] = Pending /\ ~InBuffer(c)'
      BY <1>1, <2>3, <2>4, <2>5 DEF Placed, InBuffer
    <2>7. \A p \in DOMAIN cmds' : cmds'[p].type = "Hardware" =>
            /\ state'[cmds'[p].id] = Pending
            /\ \A q \in DOMAIN cmds' : p # q => cmds'[q] # cmds'[p]
      <3> SUFFICES ASSUME NEW p \in DOMAIN cmds', cmds'[p].type = "Hardware"
                   PROVE  /\ state'[cmds'[p].id] = Pending
                          /\ \A q \in DOMAIN cmds' : p # q => cmds'[q] # cmds'[p]
        OBVIOUS
      <3>1. p \in Int /\ \A q \in DOMAIN cmds' : q \in Int /\ (q # p => q + 1 # p + 1)
        BY <1>0, <2>2, <2>3
      <3> QED BY <1>1, <2>4, <3>1 DEF Placed
    <2> QED BY <1>1, <1>2, <2>2, <2>6, <2>7 DEF Placed, Distinct, HwIdx
  <1>4. CASE \E c \in {BatchSync, WaitAll(Len(wait_all) + 1)} :
               DequeueGenerate(c) /\ Dispatch(c)
    <2>1. cmds' = cmds /\ ~Launching'
      BY <1>0, <1>4 DEF DequeueGenerate, Dispatch, Goto, BatchSync, WaitAll, Launching,
         SyncCmdLabels
    <2> QED BY <1>1, <1>2, <2>1 DEF Placed, Distinct, HwIdx
  <1> QED BY <1>3, <1>4 DEF WorkerTake

(* The worker launches the command it holds, or drops it.                  *)
LEMMA PlacedLaunch ==
  ASSUME TypeInv, LaunchesHardware, Placed, Launch \/ LaunchDropped, EnqueueKept
  PROVE  Placed'
  <1>0. /\ pc \in [Threads -> Labels] /\ Worker \in Threads /\ DOMAIN state = HwIdx
        /\ cmd_log \in Seq(Nat) /\ cur.id \in Nat /\ cur \in Command
        /\ \A p \in DOMAIN cmds : cmds[p] \in Command
    BY TypeFacts, BufferFacts DEF TypeInv, TypeOK, WorkerTypeOK
  <1>1. /\ Launching /\ cur.type = "Hardware" /\ cur.id \in HwIdx
        /\ state[cur.id] = Pending /\ ~InBuffer(cur) /\ ~InLog(cur.id)
    BY DEF Launch, LaunchDropped, Launching, LaunchesHardware, Placed, TypeInv, DrawnIds,
       Pending, InFlight
  <1>2. UNCHANGED <<kind, cmds, cur>> /\ HwIdx' = HwIdx
    BY DEF Launch, LaunchDropped, HwIdx
  <1>3. ~Launching'
    BY <1>0 DEF Launch, LaunchDropped, Goto, Launching, SyncCmdLabels
  <1>4. /\ \A i \in HwIdx : i # cur.id => state'[i] = state[i]
        /\ Launch => state'[cur.id] = InFlight
        /\ LaunchDropped => state'[cur.id] = Completed
    BY <1>0, <1>1 DEF Launch, LaunchDropped, SetStates
  <1>5. \A p \in DOMAIN cmds : cmds[p].type = "Hardware" =>
          cmds[p].id \in HwIdx /\ cmds[p].id # cur.id
    BY <1>0, <1>1 DEF InBuffer, TypeInv, DrawnIds, Command, CmdType
  <1>6. \A t \in Threads : \A i : Submitting(t, i)' =>
          /\ state'[i] = Created
          /\ \A u \in Threads : u # t => ~Submitting(u, i)'
    <2>1. \A t \in Threads : \A i : Submitting(t, i)' => Submitting(t, i)
      BY DEF EnqueueKept, Submitting
    <2>2. \A t \in Threads : \A i : Submitting(t, i) => i \in HwIdx /\ i # cur.id
      BY <1>1 DEF Submitting, TypeInv, DrawnIds, Placed, Created, Pending
    <2> QED BY <1>4, <2>1, <2>2 DEF Placed
  <1>7. \A i \in dropped : i # cur.id
    BY <1>1 DEF Placed, Pending, Completed
  <1>8. CASE LaunchDropped
    <2>1. cmd_log' = cmd_log /\ dropped' = dropped \cup {cur.id}
      BY <1>8 DEF LaunchDropped, logVars
    <2>2. \A i : InLog(i)' => i \in HwIdx' /\ state'[i] = InFlight
      BY <1>1, <1>2, <1>4, <2>1 DEF Placed, InLog
    <2>3. \A i \in dropped' : i \in HwIdx' /\ state'[i] = Completed
      BY <1>1, <1>2, <1>4, <1>7, <1>8, <2>1 DEF Placed
    <2> QED BY <1>2, <1>3, <1>4, <1>5, <1>6, <2>1, <2>2, <2>3 DEF Placed, Distinct
  <1>9. CASE Launch
    <2>1. cmd_log' = Append(cmd_log, cur.id) /\ dropped' = dropped
      BY <1>9 DEF Launch
    <2>2. /\ DOMAIN cmd_log' = DOMAIN cmd_log \cup {Len(cmd_log) + 1}
          /\ cmd_log'[Len(cmd_log) + 1] = cur.id
          /\ \A p \in DOMAIN cmd_log : cmd_log'[p] = cmd_log[p] /\ p # Len(cmd_log) + 1
      BY <1>0, <2>1, LogAppended
    <2>3. \A p \in DOMAIN cmd_log : cmd_log[p] # cur.id
      BY <1>1 DEF InLog
    <2>4. Distinct(cmd_log)'
      BY <2>2, <2>3 DEF Placed, Distinct
    <2>5. \A i : InLog(i)' => i = cur.id \/ InLog(i)
      BY <2>2 DEF InLog
    <2>6. \A i : InLog(i)' => i \in HwIdx' /\ state'[i] = InFlight
      BY <1>1, <1>2, <1>4, <1>9, <2>5 DEF Placed
    <2>7. \A i \in dropped' : i \in HwIdx' /\ state'[i] = Completed
      BY <1>2, <1>4, <1>7, <2>1 DEF Placed
    <2> QED BY <1>2, <1>3, <1>4, <1>5, <1>6, <2>4, <2>6, <2>7 DEF Placed
  <1> QED BY <1>8, <1>9

(* An index is drawn: the command is in the hands of the thread.           *)
LEMMA PlacedDraw ==
  ASSUME TypeInv, LaunchesHardware, Placed, NEW t \in Apps, SubmitDraw(t)
  PROVE  Placed'
  <1>0. /\ t \in Threads /\ t # Worker /\ Worker \in Threads /\ pc \in [Threads -> Labels]
        /\ arg \in [Threads -> Nat] /\ Len(kind) \in Nat /\ HwIdx = 1 .. Len(kind)
        /\ state \in Seq(CmdState) /\ Len(state) = Len(kind)
    BY TypeFacts, BufferFacts DEF TypeInv, TypeOK, WorkerTypeOK, BufTypeOK
  <1>1. /\ UNCHANGED <<cmds, cmd_log, cur, ret, dropped>>
        /\ pc' = [pc EXCEPT ![t] = "enqueue"] /\ arg' = [arg EXCEPT ![t] = Len(kind) + 1]
        /\ state' = Append(state, Created) /\ \E k \in Kinds : kind' = Append(kind, k)
    BY DEF SubmitDraw, DrawIdx, Goto, logVars
  <1>2. /\ HwIdx \subseteq HwIdx' /\ Len(kind) + 1 \notin HwIdx
        /\ \A i \in HwIdx : state'[i] = state[i]
        /\ state'[Len(kind) + 1] = Created
    <2>1. HwIdx' = 1 .. Len(kind) + 1
      BY <1>0, <1>1, AppendProperties DEF HwIdx, TypeInv, TypeOK, BufTypeOK
    <2> QED BY <1>0, <1>1, <2>1, AppendProperties
  <1>3. Launching' = Launching
    BY <1>0, <1>1 DEF Launching
  <1>4. /\ Launching => cur.id \in HwIdx
        /\ \A p \in DOMAIN cmds : cmds[p].type = "Hardware" => cmds[p].id \in HwIdx
        /\ \A u \in Threads : \A i : Submitting(u, i) => i \in HwIdx
    BY DEF LaunchesHardware, TypeInv, DrawnIds, Submitting
  <1>5. \A u \in Threads : \A i :
          Submitting(u, i)' <=> IF u = t THEN i = Len(kind) + 1 ELSE Submitting(u, i)
    BY <1>0, <1>1 DEF Submitting
  <1>6. \A u \in Threads : \A i : Submitting(u, i)' =>
          /\ state'[i] = Created
          /\ \A v \in Threads : v # u => ~Submitting(v, i)'
    <2> SUFFICES ASSUME NEW u \in Threads, NEW i, Submitting(u, i)'
                 PROVE  /\ state'[i] = Created
                        /\ \A v \in Threads : v # u => ~Submitting(v, i)'
      OBVIOUS
    <2>1. CASE u = t
      BY <1>2, <1>4, <1>5, <2>1
    <2>2. CASE u # t
      <3>1. Submitting(u, i) /\ i \in HwIdx
        BY <1>4, <1>5, <2>2
      <3> QED BY <1>2, <1>5, <3>1 DEF Placed
    <2> QED BY <2>1, <2>2
  <1>7. \A i : InLog(i)' => i \in HwIdx' /\ state'[i] = InFlight
    BY <1>1, <1>2 DEF Placed, InLog
  <1>8. Launching' => state'[cur'.id] = Pending /\ ~InBuffer(cur)'
    BY <1>1, <1>2, <1>3, <1>4 DEF Placed, InBuffer
  <1> QED BY <1>1, <1>2, <1>4, <1>6, <1>7, <1>8 DEF Placed, Distinct

(* The command goes from the hands of the thread to the buffer.            *)
LEMMA PlacedEnqueue ==
  ASSUME TypeInv, LaunchesHardware, Placed, NEW t \in Apps, SubmitEnqueue(t), EnqueueKept
  PROVE  Placed'
  <1>0. /\ t \in Threads /\ t # Worker /\ Worker \in Threads /\ pc \in [Threads -> Labels]
        /\ arg[t] \in HwIdx /\ DOMAIN state = HwIdx /\ arg[t] \in Nat
        /\ \A p \in DOMAIN cmds : cmds[p] \in Command
        /\ cmds \in Seq(Command) /\ DOMAIN cmds = 1 .. Len(cmds) /\ Len(cmds) \in Nat
    BY TypeFacts, BufferFacts DEF TypeInv, DrawnIds, SubmitEnqueue
  <1>1. /\ UNCHANGED <<kind, cmd_log, cur, ret, dropped>>
        /\ cmds' = Append(cmds, Hardware(arg[t])) /\ SetStates({arg[t]}, Pending)
        /\ \E l : l # "enqueue" /\ pc' = [pc EXCEPT ![t] = l]
    BY DEF SubmitEnqueue, EnqueueHardware, Return, Goto, logVars
  <1>2. /\ \A i \in HwIdx : i # arg[t] => state'[i] = state[i]
        /\ state'[arg[t]] = Pending
    BY <1>0, <1>1 DEF SetStates
  <1>3. Launching' = Launching /\ HwIdx' = HwIdx
    BY <1>0, <1>1 DEF Launching, HwIdx
  <1>4. state[arg[t]] = Created /\ \A u \in Threads : u # t => ~Submitting(u, arg[t])
    BY <1>0 DEF Placed, Submitting, SubmitEnqueue
  <1>5. /\ Launching => cur.id \in HwIdx /\ cur.type = "Hardware" /\ cur.id # arg[t]
        /\ \A p \in DOMAIN cmds : cmds[p].type = "Hardware" =>
             cmds[p].id \in HwIdx /\ cmds[p].id # arg[t]
        /\ \A i : InLog(i) => i # arg[t]
        /\ \A i \in dropped : i # arg[t]
    BY <1>4 DEF LaunchesHardware, TypeInv, DrawnIds, Placed, Created, Pending, InFlight,
       Completed
  <1>6. \A u \in Threads : \A i : Submitting(u, i)' =>
          /\ state'[i] = Created
          /\ \A v \in Threads : v # u => ~Submitting(v, i)'
    <2> SUFFICES ASSUME NEW u \in Threads, NEW i, Submitting(u, i)'
                 PROVE  /\ state'[i] = Created
                        /\ \A v \in Threads : v # u => ~Submitting(v, i)'
      OBVIOUS
    <2>1. u # t /\ Submitting(u, i)
      BY <1>0, <1>1 DEF Submitting, EnqueueKept
    <2>2. i \in HwIdx /\ i # arg[t]
      BY <1>4, <2>1 DEF Submitting, TypeInv, DrawnIds
    <2>3. \A v \in Threads : Submitting(v, i)' => Submitting(v, i)
      BY DEF Submitting, EnqueueKept
    <2> QED BY <1>2, <2>1, <2>2, <2>3 DEF Placed
  <1>7. \A i : InLog(i)' => i \in HwIdx' /\ state'[i] = InFlight
    BY <1>1, <1>2, <1>3, <1>5 DEF Placed, InLog
  <1>8. \A i \in dropped' : i \in HwIdx' /\ state'[i] = Completed
    BY <1>1, <1>2, <1>3, <1>5 DEF Placed
  <1>9. /\ DOMAIN cmds' = DOMAIN cmds \cup {Len(cmds) + 1}
        /\ cmds'[Len(cmds) + 1] = Hardware(arg[t])
        /\ \A p \in DOMAIN cmds : cmds'[p] = cmds[p] /\ p # Len(cmds) + 1
        /\ Hardware(arg[t]).type = "Hardware" /\ Hardware(arg[t]).id = arg[t]
    <2>1. Hardware(arg[t]) \in Command
      BY <1>0 DEF Hardware, Command, CmdType
    <2> QED BY <1>0, <1>1, <2>1, AppendProperties DEF Hardware
  <1>10. \A p \in DOMAIN cmds : cmds[p] # Hardware(arg[t])
    BY <1>5, <1>9
  <1>11. \A p \in DOMAIN cmds' : cmds'[p].type = "Hardware" =>
           /\ state'[cmds'[p].id] = Pending
           /\ \A q \in DOMAIN cmds' : p # q => cmds'[q] # cmds'[p]
    BY <1>2, <1>5, <1>9, <1>10 DEF Placed
  <1>12. Launching' => state'[cur'.id] = Pending /\ ~InBuffer(cur)'
    <2>1. Launching => state'[cur.id] = Pending
      BY <1>2, <1>5 DEF Placed
    <2>2. Launching => cur # Hardware(arg[t])
      BY <1>5, <1>9
    <2>3. Launching => \A p \in DOMAIN cmds : cmds[p] # cur
      BY DEF Placed, InBuffer
    <2> QED BY <1>1, <1>3, <1>9, <2>1, <2>2, <2>3 DEF InBuffer
  <1> QED BY <1>1, <1>6, <1>7, <1>8, <1>11, <1>12 DEF Placed, Distinct

(* A drop empties the buffer.                                              *)
LEMMA PlacedDropAll ==
  ASSUME TypeInv, LaunchesHardware, Placed, NEW k \in Controllers, ResumeDropAll(k),
         Launching' => Launching, EnqueueKept
  PROVE  Placed'
  <1>0. DOMAIN state = HwIdx /\ \A p \in DOMAIN cmds : cmds[p] \in Command
    BY TypeFacts, BufferFacts
  <1>1. /\ UNCHANGED <<kind, cmd_log, cur>> /\ cmds' = <<>> /\ HwIdx' = HwIdx
        /\ SetStates(HwIn(cmds), Completed) /\ dropped' = dropped \cup HwIn(cmds)
    BY DEF ResumeDropAll, DropAll, logVars, HwIdx
  <1>2. \A i \in HwIn(cmds) : i \in HwIdx /\ state[i] = Pending /\ InBuffer(Hardware(i))
    <2>1. ASSUME NEW p \in DOMAIN cmds, cmds[p].type = "Hardware"
          PROVE  /\ cmds[p].id \in HwIdx /\ state[cmds[p].id] = Pending
                 /\ cmds[p] = Hardware(cmds[p].id)
      BY <1>0, <2>1, SameCommand DEF Placed, TypeInv, DrawnIds
    <2> QED BY <2>1 DEF HwIn, InBuffer
  <1>3. \A i \in HwIdx : IF i \in HwIn(cmds) THEN state'[i] = Completed
                         ELSE state'[i] = state[i]
    BY <1>0, <1>1 DEF SetStates
  <1>4. Launching => cur.id \in HwIdx /\ cur.id \notin HwIn(cmds)
    <2>1. Launching => cur.type = "Hardware" /\ cur.id \in HwIdx /\ cur = Hardware(cur.id)
      BY SameCommand, BufferFacts DEF LaunchesHardware, TypeInv, DrawnIds
    <2> QED BY <1>2, <2>1 DEF Placed
  <1>5. \A i : InLog(i)' => i \in HwIdx' /\ state'[i] = InFlight
    BY <1>1, <1>2, <1>3 DEF Placed, InLog, Pending, InFlight
  <1>6. \A i \in dropped' : i \in HwIdx' /\ state'[i] = Completed
    BY <1>1, <1>2, <1>3 DEF Placed, Pending, Completed
  <1>7. \A u \in Threads : \A i : Submitting(u, i)' =>
          /\ state'[i] = Created
          /\ \A v \in Threads : v # u => ~Submitting(v, i)'
    <2>1. \A u \in Threads : \A i : Submitting(u, i)' => Submitting(u, i)
      BY DEF Submitting, EnqueueKept
    <2>2. \A u \in Threads : \A i : Submitting(u, i) => i \in HwIdx /\ i \notin HwIn(cmds)
      BY <1>2 DEF Submitting, TypeInv, DrawnIds, Placed, Created, Pending
    <2> QED BY <1>3, <2>1, <2>2 DEF Placed
  <1>8. Launching' => state'[cur'.id] = Pending /\ ~InBuffer(cur)'
    BY <1>1, <1>3, <1>4 DEF Placed, InBuffer
  <1> QED BY <1>1, <1>5, <1>6, <1>7, <1>8 DEF Placed, Distinct

LEMMA PlacedStep ==
  ASSUME TypeInv, LaunchesHardware, Placed, [Next]_vars
  PROVE  Placed'
  <1>0. /\ DOMAIN state = HwIdx /\ Controllers \subseteq Threads /\ Apps \subseteq Threads
        /\ pc \in [Threads -> Labels] /\ Worker \in Threads
    BY TypeFacts
  <1>1. CASE \E t \in Apps \cap Submitters : SubmitDraw(t)
    BY <1>1, PlacedDraw
  <1>2. CASE \A t \in Apps \cap Submitters : ~SubmitDraw(t)
    <2>0. EnqueueKept
      BY <1>2, OthersKeepEnqueue
    <2>1. CASE WorkerTake
      BY <2>0, <2>1, PlacedTake
    <2>2. CASE Launch \/ LaunchDropped
      BY <2>0, <2>2, PlacedLaunch
    <2>3. ASSUME ~WorkerTake PROVE Launching' => Launching /\ cur' = cur
      BY <2>3, LaunchingBegins
    <2>4. ASSUME NEW t \in Apps, SubmitEnqueue(t) PROVE Placed'
      BY <2>0, <2>4, PlacedEnqueue
    <2>5. ASSUME NEW t \in Apps \cup {Worker}, SyncCmdPost(t), ~WorkerTake PROVE Placed'
      <3>1. /\ Distinct(cmd_log)' /\ UNCHANGED <<kind, cur, cmds, dropped>>
            /\ \A i : InLog(i)' => InLog(i) /\ (i \in HwIdx => state'[i] = state[i])
            /\ \A i \in HwIdx : state'[i] = state[i] \/ (InLog(i) /\ state'[i] = Completed)
        BY <2>5, Popped DEF Placed
      <3>2. \A i \in HwIdx :
              state'[i] = state[i] \/ (state[i] = InFlight /\ state'[i] = Completed)
        BY <3>1 DEF Placed
      <3> QED BY <2>0, <2>3, <2>5, <3>1, <3>2, PlacedFrame
    <2>6. CASE SyncAllPost /\ ~WorkerTake
      <3>1. UNCHANGED <<kind, cur, cmds, dropped>>
        BY <2>6 DEF SyncAllPost
      <3>2. CASE UNCHANGED <<state, logVars>>
        <4>1. Distinct(cmd_log)' /\ \A i : InLog(i)' => InLog(i)
          BY <3>2 DEF Placed, Distinct, InLog, logVars
        <4> QED BY <2>0, <2>3, <2>6, <3>1, <3>2, <4>1, PlacedFrame
      <3>3. CASE SetStates(ToSet(cmd_log), Completed) /\ cmd_log' = <<>>
        <4>1. \A i \in HwIdx : state'[i] = state[i] \/ (InLog(i) /\ state'[i] = Completed)
          BY <1>0, <3>3 DEF SetStates, ToSet, InLog
        <4>2. \A i \in HwIdx :
                state'[i] = state[i] \/ (state[i] = InFlight /\ state'[i] = Completed)
          BY <4>1 DEF Placed
        <4>3. Distinct(cmd_log)' /\ \A i : ~InLog(i)'
          BY <3>3 DEF Distinct, InLog
        <4> QED BY <2>0, <2>3, <2>6, <3>1, <4>2, <4>3, PlacedFrame
      <3> QED BY <2>6, <3>2, <3>3 DEF SyncAllPost
    <2>7. ASSUME NEW k \in Controllers, ResumeDrop(k), ~WorkerTake PROVE Placed'
      <3>1. /\ UNCHANGED <<kind, cur, cmds>> /\ cmd_log' = <<>>
            /\ SetStates(ToSet(cmd_log), Completed) /\ dropped' = dropped \cup ToSet(cmd_log)
        BY <2>7 DEF ResumeDrop, ResumeAndDrop
      <3>2. /\ \A i \in HwIdx : state'[i] = state[i] \/ (InLog(i) /\ state'[i] = Completed)
            /\ \A i \in ToSet(cmd_log) : InLog(i) /\ (i \in HwIdx => state'[i] = Completed)
        BY <1>0, <3>1 DEF SetStates, ToSet, InLog
      <3>3. /\ \A i \in HwIdx :
                 state'[i] = state[i] \/ (state[i] = InFlight /\ state'[i] = Completed)
            /\ \A i \in dropped' : i \in dropped \/ (i \in HwIdx /\ state'[i] = Completed)
        BY <3>1, <3>2 DEF Placed
      <3>4. Distinct(cmd_log)' /\ \A i : ~InLog(i)'
        BY <3>1 DEF Distinct, InLog
      <3> QED BY <2>0, <2>3, <2>7, <3>1, <3>3, <3>4, PlacedFrame
    <2>8. ASSUME NEW k \in Controllers, ResumeDropAll(k), ~WorkerTake PROVE Placed'
      BY <2>0, <2>3, <2>8, PlacedDropAll
    <2>9. CASE /\ ~WorkerTake /\ ~Settles
      <3>1. UNCHANGED <<kind, state, cmd_log>>
        BY <2>9, LogKept
      <3>2. dropped' = dropped
        BY <2>9, DroppedKept DEF Settles
      <3>3. Distinct(cmd_log)' /\ \A i : InLog(i)' => InLog(i)
        BY <3>1 DEF Placed, Distinct, InLog
      <3>4. cmds' = cmds \/ \E c \in Command : c.type # "Hardware" /\ cmds' = Append(cmds, c)
        <4>1. CASE ~Buffers
          BY <4>1, QuietStep
        <4>2. CASE WorkerIdle \/ WorkerDone
          BY <4>2 DEF WorkerIdle, DequeueIdle, WorkerDone
        <4>3. ASSUME NEW t \in Apps, CallWaitAll(t) \/ SubmitWaitAll(t)
              PROVE  cmds' = cmds
                     \/ \E c \in Command : c.type # "Hardware" /\ cmds' = Append(cmds, c)
          <5>1. PICK w \in 1 .. Len(wait_all) + 1 : EnqueueXQueueWaitAllCommand(w)
            BY <4>3 DEF CallWaitAll, SubmitWaitAll
          <5>2. cmds' = cmds \/ cmds' = Append(cmds, WaitAll(w))
            BY <5>1 DEF EnqueueXQueueWaitAllCommand, bufVars
          <5>3. WaitAll(w) \in Command /\ WaitAll(w).type # "Hardware"
            BY BufferFacts DEF WaitAll, Command, CmdType
          <5> QED BY <5>2, <5>3
        <4>4. ASSUME NEW k \in Controllers, DestructEnqueue(k)
              PROVE  \E c \in Command : c.type # "Hardware" /\ cmds' = Append(cmds, c)
          BY <4>4 DEF DestructEnqueue, EnqueueDestroy, Destroy, Command, CmdType
        <4> QED BY <2>9, <4>1, <4>2, <4>3, <4>4
                DEF Settles, Buffers, AppBuffers, ControlBuffers
      <3>5. cur' = cur \/ ~Launching'
        BY <2>3, <2>9
      <3>6. cur' = cur
        <4>1. CASE WorkerStep
          BY <2>9, <4>1, QuietWorker DEF WorkerIdle, WorkerDone
        <4>2. CASE Others
          BY <4>2, OthersKeepWorker DEF Others
        <4>3. CASE UNCHANGED vars
          BY <4>3 DEF vars, workerVars
        <4> QED BY <4>1, <4>2, <4>3, NextCases
      <3> QED BY <2>0, <2>3, <2>9, <3>1, <3>2, <3>3, <3>4, <3>6, PlacedFrame
    <2>10. CASE ~WorkerTake /\ \E t \in Apps : SubmitDraw(t)
      <3>1. PICK t \in Apps : SubmitDraw(t)
        BY <2>10
      <3> QED BY <3>1, PlacedDraw
    <2> QED BY <2>1, <2>2, <2>4, <2>5, <2>6, <2>7, <2>8, <2>9, <2>10 DEF Settles
  <1> QED BY <1>1, <1>2

(* The steps that change what the hardware holds.                          *)
ChangesHw ==
  \/ Launch \/ HwStep
  \/ \E k \in Controllers : SuspendDeactivate(k) \/ ReactivateClear(k) \/ ReactivateRelaunch(k)

LEMMA HwKept ==
  ASSUME [Next]_vars, ~ChangesHw
  PROVE  UNCHANGED hwVars
  <1>1. CASE WorkerStep
    <2>1. CASE WorkerTake \/ WorkerIdle \/ WorkerDone
      BY <2>1 DEF WorkerTake, Dispatch, WorkerIdle, WorkerDone
    <2>2. CASE LaunchBegin \/ LaunchFull \/ AwaitRunning \/ WorkerBatch \/ LaunchDropped
      BY <2>2 DEF LaunchBegin, LaunchFull, AwaitRunning, WorkerBatch, LaunchDropped
    <2>3. CASE SyncAllCheck \/ SyncAllHw \/ SyncAllPost
      BY <2>3 DEF SyncAllCheck, SyncAllHw, SyncAllPost
    <2>4. CASE SyncCmdCheck(Worker) \/ SyncCmdHw(Worker) \/ SyncCmdPost(Worker) \/ CvWait(Worker)
      BY <2>4 DEF SyncCmdCheck, SyncCmdHw, SyncCmdPost, CvWait
    <2> QED BY <1>1, <2>1, <2>2, <2>3, <2>4 DEF WorkerStep, ChangesHw
  <1>2. CASE HwStep \/ UNCHANGED vars
    BY <1>2 DEF vars, ChangesHw
  <1>3. ASSUME NEW t \in Apps, AppCall(t) \/ AppProgress(t)
        PROVE  UNCHANGED hwVars
    <2>1. CASE SubmitDraw(t) \/ SubmitEnqueue(t)
      BY <2>1 DEF SubmitDraw, SubmitEnqueue
    <2>2. CASE WaitCmd(t) \/ CmdReached(t) \/ CallWaitAll(t) \/ SubmitWaitAll(t)
      BY <2>2 DEF WaitCmd, CmdReached, CallWaitAll, SubmitWaitAll
    <2>3. CASE SyncCmdCheck(t) \/ SyncCmdHw(t) \/ SyncCmdPost(t) \/ CvWait(t)
      BY <2>3 DEF SyncCmdCheck, SyncCmdHw, SyncCmdPost, CvWait
    <2> QED BY <1>3, <2>1, <2>2, <2>3 DEF AppCall, AppProgress
  <1>4. ASSUME NEW k \in Controllers, ControlCall(k) \/ ControlProgress(k)
        PROVE  UNCHANGED hwVars
    <2>1. CASE Suspend(k) \/ ResumeBegin(k) \/ DestructBegin(k)
      BY <2>1 DEF Suspend, ResumeBegin, DestructBegin
    <2>2. CASE SuspendPause(k) \/ SuspendSyncHw(k) \/ ReactivateSync(k) \/ ReactivateRead(k)
      BY <2>2 DEF SuspendPause, SuspendSyncHw, ReactivateSync, ReactivateRead
    <2>3. CASE ResumeWorker(k) \/ ResumeDropAll(k) \/ ResumeDropIdx(k) \/ ResumeDrop(k)
      BY <2>3 DEF ResumeWorker, ResumeDropAll, ResumeDropIdx, ResumeDrop
    <2>4. CASE DestructEnqueue(k) \/ DestructWait(k)
      BY <2>4 DEF DestructEnqueue, DestructWait
    <2> QED BY <1>4, <2>1, <2>2, <2>3, <2>4 DEF ControlCall, ControlProgress, ChangesHw
  <1> QED BY <1>1, <1>2, <1>3, <1>4, NextCases DEF Others

(* What is launched again is in the log.                                   *)
LEMMA RelaunchFromLog ==
  ASSUME NEW log \in Seq(Nat), NEW i, NEW s \in InLogOrder(log, FlushedPositions(log, i))
  PROVE  s \in Seq(Nat) /\ \A q \in DOMAIN s : \E p \in DOMAIN log : s[q] = log[p] /\ log[p] >= i
  <1>1. s \in Seq(Nat)
    BY RelaunchType
  <1> DEFINE P == FlushedPositions(log, i)
  <1>2. PICK f \in UNION {[1 .. n -> P] : n \in 0 .. Len(log)} : s = [q \in DOMAIN f |-> log[f[q]]]
    BY Zenon DEF InLogOrder
  <1>2a. PICK n \in 0 .. Len(log) : f \in [1 .. n -> P]
    OBVIOUS
  <1>3. \A q \in DOMAIN s : f[q] \in P /\ s[q] = log[f[q]]
    BY <1>2, <1>2a
  <1> QED BY <1>1, <1>3 DEF FlushedPositions

(* The elements of two sequences put together.                             *)
LEMMA Joined ==
  ASSUME NEW s \in Seq(Nat), NEW u \in Seq(Nat), NEW r, r = s \o u
  PROVE  /\ r \in Seq(Nat) /\ DOMAIN r = 1 .. Len(s) + Len(u)
         /\ \A p \in DOMAIN r : \/ p \in DOMAIN s /\ r[p] = s[p]
                                \/ \E q \in DOMAIN u : r[p] = u[q]
         /\ \A p \in DOMAIN s : p \in DOMAIN r /\ r[p] = s[p]
         /\ \A q \in DOMAIN u : Len(s) + q \in DOMAIN r /\ r[Len(s) + q] = u[q]
  <1>1. /\ Len(s) \in Nat /\ Len(u) \in Nat /\ DOMAIN s = 1 .. Len(s) /\ DOMAIN u = 1 .. Len(u)
        /\ r \in Seq(Nat) /\ DOMAIN r = 1 .. Len(s) + Len(u)
        /\ \A p \in 1 .. Len(s) + Len(u) :
             r[p] = IF p <= Len(s) THEN s[p] ELSE u[p - Len(s)]
    BY ConcatProperties, LenProperties
  <1>2. ASSUME NEW p \in DOMAIN r
        PROVE  \/ p \in DOMAIN s /\ r[p] = s[p]
               \/ \E q \in DOMAIN u : r[p] = u[q]
    <2>1. CASE p <= Len(s)
      BY <1>1, <2>1
    <2>2. CASE ~(p <= Len(s))
      <3>1. p - Len(s) \in DOMAIN u /\ r[p] = u[p - Len(s)]
        BY <1>1, <2>2
      <3> QED BY <3>1
    <2> QED BY <2>1, <2>2
  <1>3. ASSUME NEW q \in DOMAIN u
        PROVE  Len(s) + q \in DOMAIN r /\ r[Len(s) + q] = u[q]
    <2>1. /\ q \in 1 .. Len(u) /\ Len(s) + q \in 1 .. Len(s) + Len(u)
          /\ ~(Len(s) + q <= Len(s)) /\ (Len(s) + q) - Len(s) = q
      BY <1>1
    <2> QED BY <1>1, <2>1
  <1> QED BY <1>1, <1>2, <1>3

LEMMA AboveStep ==
  ASSUME TypeInv, Placed, Above, [Next]_vars
  PROVE  Above'
  <1>0. /\ cmd_log \in Seq(Nat) /\ cur.id \in Nat /\ drop_idx \in Int
    BY BufferFacts DEF TypeInv, TypeOK, WorkerTypeOK, Command
  <1>1. CASE Launch
    <2>1. cmd_log' = Append(cmd_log, cur.id) /\ drop_idx' = drop_idx /\ cur.id > drop_idx
      BY <1>0, <1>1 DEF Launch, Drops
    <2>2. \A i : InLog(i)' => i = cur.id \/ InLog(i)
      BY <1>0, <2>1, LogAppended DEF InLog
    <2> QED BY <2>1, <2>2 DEF Above
  <1>2. ASSUME NEW t, SyncCmdPost(t) PROVE Above'
    <2>1. \A i : InLog(i)' => InLog(i)
      BY <1>2, Popped DEF Placed
    <2>2. drop_idx' = drop_idx
      BY <1>2 DEF SyncCmdPost
    <2> QED BY <2>1, <2>2 DEF Above
  <1>3. CASE SyncAllPost \/ \E k \in Controllers : ResumeDrop(k)
    <2>1. cmd_log' = <<>> \/ UNCHANGED <<cmd_log, drop_idx>>
      BY <1>3 DEF SyncAllPost, ResumeDrop, ResumeAndDrop, logVars
    <2> QED BY <2>1 DEF Above, InLog
  <1>4. CASE UNCHANGED <<cmd_log, drop_idx>>
    BY <1>4 DEF Above, InLog
  <1> QED BY <1>1, <1>2, <1>3, <1>4, LogVarsKept DEF ChangesLog

DroppedInv == TypeInv /\ LaunchesHardware /\ Placed /\ Above

LEMMA DroppedStart == Init => DroppedInv
  <1>1. Init => Placed /\ Above
    BY DEF Init, BufInit, WorkerInit, Placed, Above, Distinct, InLog, Launching, SyncCmdLabels,
       Submitting, Threads
  <1> QED BY <1>1, TypeStart DEF DroppedInv

LEMMA DroppedStep ==
  ASSUME DroppedInv, [Next]_vars
  PROVE  DroppedInv'
  BY TypeStep, LaunchesHardwareStep, PlacedStep, AboveStep DEF DroppedInv

(* A command that a Resume gave up, in the buffer, in the log or in the    *)
(* worker's hands, never enters the hardware queue afterwards: with any    *)
(* number of threads that submit, wait and control.                        *)
THEOREM DroppedStays == Spec => DroppedIsNotLaunched
  <1>1. ASSUME DroppedInv, [Next]_vars, NEW i \in ToSet(hwq') \ ToSet(hwq)
        PROVE  i > drop_idx /\ i \notin dropped
    <2>0. /\ TypeInv /\ LaunchesHardware /\ Placed /\ Above
          /\ cmd_log \in Seq(Nat) /\ cur.id \in Nat /\ drop_idx \in Int /\ hwq \in Seq(Nat)
      BY <1>1, BufferFacts DEF DroppedInv, TypeInv, TypeOK, WorkerTypeOK, HwTypeOK, Command
    <2>1. CASE Launch
      <3>1. hwq' = hwq \o <<cur.id>> /\ cur.id > drop_idx /\ state[cur.id] = Pending
        BY <2>0, <2>1 DEF Launch, HwLaunch, Drops, Placed, Launching
      <3>2. i = cur.id
        <4>1. <<cur.id>> \in Seq(Nat) /\ \A q \in DOMAIN <<cur.id>> : <<cur.id>>[q] = cur.id
          BY <2>0
        <4>2. \A p \in DOMAIN hwq' : (p \in DOMAIN hwq /\ hwq'[p] = hwq[p]) \/ hwq'[p] = cur.id
          BY <2>0, <3>1, <4>1, Joined
        <4> QED BY <1>1, <4>2 DEF ToSet
      <3> QED BY <2>0, <3>1, <3>2 DEF Placed, Pending, Completed
    <2>2. CASE HwStep
      <3>1. hwq # <<>> /\ hwq' = Tail(hwq)
        BY <2>2 DEF HwStep, HwExecute, HwFlush
      <3>2. \A p \in DOMAIN hwq' : \E q \in DOMAIN hwq : hwq'[p] = hwq[q]
        BY <2>0, <3>1, HeadTailProperties, LenProperties
      <3> QED BY <1>1, <3>2 DEF ToSet
    <2>3. ASSUME NEW k \in Controllers, ReactivateRelaunch(k)
          PROVE  i > drop_idx /\ i \notin dropped
      <3>1. PICK s \in InLogOrder(cmd_log, FlushedPositions(cmd_log, arg[k])) : hwq' = hwq \o s
        BY <2>3 DEF ReactivateRelaunch, HwLaunch
      <3>2. s \in Seq(Nat) /\ \A q \in DOMAIN s : InLog(s[q])
        BY <2>0, RelaunchFromLog DEF InLog
      <3>3. \E q \in DOMAIN s : i = s[q]
        <4>1. \A p \in DOMAIN hwq' : \/ p \in DOMAIN hwq /\ hwq'[p] = hwq[p]
                                     \/ \E q \in DOMAIN s : hwq'[p] = s[q]
          BY <2>0, <3>1, <3>2, Joined
        <4>2. PICK p \in DOMAIN hwq' : i = hwq'[p]
          BY <1>1 DEF ToSet
        <4>3. ~(p \in DOMAIN hwq /\ hwq'[p] = hwq[p])
          BY <1>1, <4>2 DEF ToSet
        <4> QED BY <4>1, <4>2, <4>3
      <3>4. InLog(i)
        BY <3>2, <3>3
      <3>5. state[i] = InFlight /\ i > drop_idx
        BY <2>0, <3>4 DEF Placed, Above
      <3>6. \A j \in dropped : state[j] = Completed
        BY <2>0 DEF Placed
      <3> QED BY <3>5, <3>6 DEF InFlight, Completed
    <2>4. CASE \E k \in Controllers : SuspendDeactivate(k) \/ ReactivateClear(k)
      BY <1>1, <2>4 DEF SuspendDeactivate, ReactivateClear
    <2>5. CASE ~ChangesHw
      BY <1>1, <2>5, HwKept DEF hwVars
    <2> QED BY <2>1, <2>2, <2>3, <2>4, <2>5 DEF ChangesHw
  <1>2. DroppedInv /\ [Next]_vars =>
          [\A i \in ToSet(hwq') \ ToSet(hwq) : i > drop_idx /\ i \notin dropped]_vars
    BY <1>1
  <1>3. Init => DroppedInv
    BY DroppedStart
  <1>4. DroppedInv /\ [Next]_vars => DroppedInv'
    BY DroppedStep
  <1> QED BY <1>2, <1>3, <1>4, PTL DEF Spec, DroppedIsNotLaunched

-----------------------------------------------------------------------------
(***************************************************************************)
(* The promises of an XQueue, when nothing it has started is given up: one *)
(* submitting thread, one controller, and either no deactivation (level 1, *)
(* with any number of threads that wait) or neither waiting threads nor    *)
(* resumes that drop (level 2).                                            *)
(***************************************************************************)
Steady(k) ==
  /\ OneSubmitter /\ OneController(k)
  /\ Level = 1 \/ (Waiters = {} /\ ResumeFlags \subseteq {"keep"})

Dropper == {"dropAll", "dropIdx", "dropResume"}

(* Only the destructor drops, when there is nothing left to drop.          *)
NoDrops(k) ==
  /\ dropped = {} /\ (drop_idx = -1 \/ terminated)
  /\ pc[k] \in Dropper => terminated
  /\ pc[k] \in {"reSync", "reRead", "reClear"} /\ flag[k] = "drop" => terminated
  /\ Level = 1 =>
       pc[k] \notin Dropper \cup {"deactivate", "reSync", "reRead", "reClear", "relaunch"}
  /\ terminated =>
       /\ \A t \in Apps : pc[t] = "idle"
       /\ \A i \in HwIdx : state[i] = Completed

LEMMA FlagKept ==
  ASSUME [Next]_vars, \A k \in Controllers : ~ControlCall(k) /\ ~ControlProgress(k)
  PROVE  flag' = flag
  <1>1. CASE UNCHANGED apiVars \/ UNCHANGED vars \/ HwStep
    BY <1>1 DEF apiVars, vars, HwStep
  <1>2. ASSUME NEW t \in Apps, AppCall(t) \/ AppProgress(t)
        PROVE  flag' = flag
    <2>1. CASE SubmitDraw(t) \/ SubmitEnqueue(t) \/ WaitCmd(t) \/ CmdReached(t)
      BY <2>1 DEF SubmitDraw, SubmitEnqueue, WaitCmd, CmdReached, apiVars
    <2>2. CASE CallWaitAll(t) \/ SubmitWaitAll(t)
      BY <2>2 DEF CallWaitAll, SubmitWaitAll, apiVars
    <2>3. CASE UNCHANGED apiVars
      BY <2>3 DEF apiVars
    <2> QED BY <1>2, <2>1, <2>2, <2>3 DEF AppCall, AppProgress
  <1> QED BY <1>1, <1>2, NextCases DEF Others

(* What is terminated has nothing left to drop, and nothing is dropped     *)
(* before.                                                                 *)
LEMMA NothingToDrop ==
  ASSUME TypeInv, LaunchesHardware, Order, Placed, NEW k \in Controllers, NoDrops(k)
  PROVE  /\ Launching => ~terminated /\ drop_idx = -1
         /\ ~LaunchDropped
         /\ terminated => HwIn(cmds) = {} /\ cmd_log = <<>> /\ sync_cmd_log = <<>>
  <1>0. /\ HwIdx = 1 .. Len(kind) /\ Len(kind) \in Nat /\ cmd_log \in Seq(Nat)
        /\ sync_cmd_log \in Seq(Nat)
        /\ Pending # Completed /\ InFlight # Completed
    BY TypeFacts DEF Pending, InFlight, Completed, TypeInv, TypeOK, WorkerTypeOK
  <1>1. Launching => cur.id \in HwIdx /\ state[cur.id] = Pending
    BY DEF LaunchesHardware, TypeInv, DrawnIds, Placed
  <1>2. Launching => ~terminated /\ drop_idx = -1
    BY <1>0, <1>1 DEF NoDrops
  <1>3. ~LaunchDropped
    BY <1>0, <1>1, <1>2 DEF LaunchDropped, Launching, Drops
  <1>4. ASSUME terminated PROVE HwIn(cmds) = {} /\ cmd_log = <<>> /\ sync_cmd_log = <<>>
    <2>1. \A p \in DOMAIN cmds : cmds[p].type # "Hardware"
      BY <1>0, <1>4 DEF NoDrops, Placed, TypeInv, DrawnIds
    <2>2. \A p \in DOMAIN cmd_log : FALSE
      BY <1>0, <1>4 DEF NoDrops, Order, LogOrder
    <2>3. \A p \in DOMAIN sync_cmd_log : FALSE
      BY <2>2 DEF Order, LogOrder
    <2>4. \A s \in Seq(Nat) : (\A p \in DOMAIN s : FALSE) => s = <<>>
      <3> SUFFICES ASSUME NEW s \in Seq(Nat), \A p \in DOMAIN s : FALSE PROVE s = <<>>
        OBVIOUS
      <3>1. Len(s) \in Nat /\ DOMAIN s = 1 .. Len(s)
        BY LenProperties
      <3>2. 1 \notin 1 .. Len(s)
        BY <3>1
      <3>3. Len(s) = 0
        BY <3>1, <3>2
      <3> QED BY <3>3, EmptySeq
    <2>5. HwIn(cmds) = {}
      BY <2>1 DEF HwIn
    <2> QED BY <1>0, <2>2, <2>3, <2>4, <2>5
  <1> QED BY <1>2, <1>3, <1>4

LEMMA NoDropsStep ==
  ASSUME TypeInv, LaunchesHardware, Order, Placed, NEW k \in Controllers, Steady(k), NoDrops(k),
         [Next]_vars
  PROVE  NoDrops(k)'
  <1>0. /\ pc \in [Threads -> Labels] /\ k \in Threads /\ Controllers = {k}
        /\ Apps \subseteq Threads /\ DOMAIN state = HwIdx /\ Worker \in Threads
        /\ flag \in [Controllers -> {"keep", "drop", "async", "sync"}]
        /\ \A t \in Apps : t # k /\ t # Worker
        /\ Level \in 1 .. 2
    BY TypeFacts, ThreadsAssumption, LevelAssumption
       DEF TypeInv, TypeOK, ApiTypeOK, Steady, OneController
  <1>a. /\ Launching => ~terminated /\ drop_idx = -1
        /\ ~LaunchDropped
        /\ terminated => HwIn(cmds) = {} /\ cmd_log = <<>> /\ sync_cmd_log = <<>>
    BY NothingToDrop
  <1>b. ResumeDropAll(k) \/ ResumeDrop(k) => terminated /\ dropped' = {}
    BY <1>a DEF ResumeDropAll, ResumeDrop, ResumeAndDrop, NoDrops, Dropper, ToSet
  <1>1. dropped' = {}
    BY <1>0, <1>a, <1>b, DroppedKept DEF NoDrops
  <1>2. ASSUME terminated, ~ControlCall(k)
        PROVE  /\ terminated'
               /\ \A t \in Apps : pc'[t] = "idle"
               /\ \A i \in HwIdx' : state'[i] = Completed
    <2>1. \A t \in Apps : /\ ~AppCall(t) /\ ~AppProgress(t)
                           /\ ~SubmitDraw(t) /\ ~SubmitEnqueue(t) /\ ~SyncCmdPost(t)
      <3> SUFFICES ASSUME NEW t \in Apps
                   PROVE  /\ ~AppCall(t) /\ ~AppProgress(t)
                          /\ ~SubmitDraw(t) /\ ~SubmitEnqueue(t) /\ ~SyncCmdPost(t)
        OBVIOUS
      <3>1. ~SubmitDraw(t) /\ ~AppCall(t)
        BY <1>2 DEF AppCall, SubmitDraw, WaitCmd, CallWaitAll, SubmitWaitAll
      <3>2. pc[t] = "idle"
        BY <1>2 DEF NoDrops
      <3>3. ~SubmitEnqueue(t) /\ ~SyncCmdPost(t) /\ ~AppProgress(t)
        BY <3>2 DEF AppProgress, SubmitEnqueue, CmdReached, SyncCmdCheck, SyncCmdHw,
           SyncCmdPost, CvWait
      <3> QED BY <3>1, <3>3
    <2>2. terminated'
      <3>1. CASE ControlProgress(k)
        BY <1>2, <3>1 DEF ControlProgress, SuspendPause, SuspendDeactivate, SuspendSyncHw,
           ReactivateSync, ReactivateRead, ReactivateClear, ReactivateRelaunch, ResumeWorker,
           ResumeDropAll, ResumeDropIdx, ResumeDrop, DestructEnqueue, DestructWait, apiVars
      <3>2. CASE ~ControlProgress(k)
        BY <1>0, <1>2, <3>2, FlagsKept
      <3> QED BY <3>1, <3>2
    <2>3. \A t \in Apps : pc'[t] = "idle"
      <3>1. CASE WorkerStep
        BY <1>0, <1>2, <3>1, WorkerLocal DEF Local, NoDrops
      <3>2. CASE HwStep \/ UNCHANGED vars
        BY <1>2, <3>2 DEF HwStep, vars, workerVars, NoDrops
      <3>3. CASE ControlCall(k) \/ ControlProgress(k)
        BY <1>0, <1>2, <3>3, ControlLocal DEF Local, NoDrops
      <3> QED BY <1>0, <2>1, <3>1, <3>2, <3>3, NextCases DEF Others
    <2>4. \A i \in HwIdx' : state'[i] = Completed
      <3>1. ~Launch
        BY <1>a, <1>2 DEF Launch, Launching
      <3>2. CASE UNCHANGED <<kind, state>>
        BY <1>2, <3>2 DEF NoDrops, HwIdx
      <3>3. ASSUME NEW S, SetStates(S, Completed), kind' = kind
            PROVE  \A i \in HwIdx' : state'[i] = Completed
        BY <1>0, <1>2, <3>3 DEF SetStates, HwIdx, NoDrops
      <3>4. CASE SyncAllPost \/ SyncCmdPost(Worker)
        BY <3>2, <3>3, <3>4 DEF SyncAllPost, SyncCmdPost
      <3>5. CASE ResumeDropAll(k) \/ ResumeDrop(k)
        BY <3>3, <3>5 DEF ResumeDropAll, DropAll, ResumeDrop, ResumeAndDrop
      <3> QED BY <1>0, <1>a, <2>1, <3>1, <3>2, <3>4, <3>5, LogKept
              DEF Settles
    <2> QED BY <2>2, <2>3, <2>4
  <1>3. CASE ControlCall(k)
    <2>0. ~terminated /\ pc[k] = "idle" /\ drop_idx = -1
      BY <1>3 DEF ControlCall, Suspend, ResumeBegin, DestructBegin, NoDrops
    <2>1. UNCHANGED <<kind, state, drop_idx>>
      BY <1>3 DEF ControlCall, Suspend, ResumeBegin, DestructBegin, bufVars
    <2>2. CASE Suspend(k)
      BY <1>0, <1>1, <2>0, <2>1, <2>2 DEF Suspend, Goto, NoDrops, Dropper
    <2>3. CASE ResumeBegin(k)
      <3>1. PICK f \in ResumeFlags : BeginResume(k, f)
        BY <2>3 DEF ResumeBegin
      <3>2. /\ pc' = [pc EXCEPT ![k] = IF Level = 1 THEN "resume" ELSE "reSync"]
            /\ flag' = [flag EXCEPT ![k] = f] /\ ~terminated'
        BY <2>0, <2>3, <3>1 DEF ResumeBegin, BeginResume, Goto
      <3>3. Level # 1 => f = "keep"
        BY DEF Steady
      <3> QED BY <1>0, <1>1, <2>0, <2>1, <3>2, <3>3 DEF NoDrops, Dropper
    <2>4. CASE DestructBegin(k)
      <3>1. /\ terminated' /\ \A t \in Apps : pc[t] = "idle"
            /\ \A i \in HwIdx : state[i] = Completed
        BY <2>4 DEF DestructBegin
      <3>2. \E l : /\ pc' = [pc EXCEPT ![k] = l]
                   /\ l \in {"resume", "reSync", "enqDestroy"} /\ (Level = 1 => l # "reSync")
        BY <2>4 DEF DestructBegin, DestructResume, BeginResume, Goto
      <3> QED BY <1>0, <1>1, <2>0, <2>1, <3>1, <3>2 DEF NoDrops, Dropper, HwIdx
    <2> QED BY <1>3, <2>2, <2>3, <2>4 DEF ControlCall
  <1>4. CASE ControlProgress(k)
    <2>0. terminated' = terminated
      BY <1>4 DEF ControlProgress, SuspendPause, SuspendDeactivate, SuspendSyncHw,
         ReactivateSync, ReactivateRead, ReactivateClear, ReactivateRelaunch, ResumeWorker,
         ResumeDropAll, ResumeDropIdx, ResumeDrop, DestructEnqueue, DestructWait, apiVars
    <2>1. drop_idx' = -1 \/ terminated'
      <3>1. CASE ResumeDrop(k)
        BY <1>b, <2>0, <3>1
      <3>2. CASE ~ResumeDrop(k)
        BY <1>0, <2>0, <3>2, DropIdxKept DEF NoDrops
      <3> QED BY <3>1, <3>2
    <2>2. /\ pc'[k] \in Dropper => terminated
          /\ pc'[k] \in {"reSync", "reRead", "reClear"} /\ flag'[k] = "drop" => terminated
          /\ Level = 1 => pc'[k] \notin Dropper
               \cup {"deactivate", "reSync", "reRead", "reClear", "relaunch"}
      <3>1. CASE SuspendPause(k) \/ SuspendDeactivate(k) \/ SuspendSyncHw(k)
        BY <1>0, <3>1 DEF SuspendPause, SuspendDeactivate, SuspendSyncHw, Goto, Dropper,
           NoDrops
      <3>2. CASE ReactivateSync(k) \/ ReactivateRead(k)
        BY <1>0, <3>2 DEF ReactivateSync, ReactivateRead, Goto, apiVars, Dropper, NoDrops
      <3>3. CASE ReactivateClear(k) \/ ReactivateRelaunch(k)
        BY <1>0, <3>3 DEF ReactivateClear, ReactivateRelaunch, Goto, apiVars, Dropper, NoDrops
      <3>4. CASE ResumeWorker(k) \/ ResumeDrop(k) \/ DestructEnqueue(k) \/ DestructWait(k)
        BY <1>0, <3>4 DEF ResumeWorker, ResumeDrop, EndResume, DestructEnqueue, DestructWait,
           Goto, Dropper, NoDrops
      <3>5. CASE ResumeDropAll(k) \/ ResumeDropIdx(k)
        BY <1>0, <3>5 DEF ResumeDropAll, ResumeDropIdx, Goto, Dropper, NoDrops
      <3> QED BY <1>4, <3>1, <3>2, <3>3, <3>4, <3>5 DEF ControlProgress
    <2>3. ~terminated \/ ~ControlCall(k)
      BY DEF ControlCall, Suspend, ResumeBegin, DestructBegin
    <2> QED BY <1>1, <1>2, <2>0, <2>1, <2>2, <2>3 DEF NoDrops
  <1>5. CASE ~ControlCall(k) /\ ~ControlProgress(k)
    <2>1. UNCHANGED <<terminated, flag>> /\ pc'[k] = pc[k]
      BY <1>0, <1>5, FlagsKept, FlagKept, ControlKept
    <2>2. drop_idx' = drop_idx
      <3>1. ~ResumeDrop(k)
        BY <1>5 DEF ControlProgress
      <3> QED BY <1>0, <3>1, DropIdxKept
    <2> QED BY <1>1, <1>2, <1>5, <2>1, <2>2 DEF NoDrops
  <1> QED BY <1>3, <1>4, <1>5

(***************************************************************************)
(* Without drops, the state of a command and the log change in four ways.  *)
(* Popping(t) is the end of a synchronization that no pause interrupted.   *)
(***************************************************************************)
Popping(t) ==
  /\ pc[t] \in {"cmdPost", "allPost"} /\ Unpreempted(t)
  /\ pc[t] = "allPost" => t = Worker
  /\ UNCHANGED <<kind, hwVars>>
  /\ \A i : InLog(i)' => InLog(i) /\ state'[i] = state[i] /\ pc[t] = "cmdPost" /\ i > arg[t]
  /\ \A i \in HwIdx :
       \/ state'[i] = state[i] /\ (InLog(i) => InLog(i)')
       \/ /\ InLog(i) /\ ~InLog(i)' /\ state'[i] = Completed
          /\ pc[t] = "cmdPost" => i <= arg[t]

LEMMA CmdPops ==
  ASSUME TypeInv, Order, NEW t \in Threads, SyncCmdPost(t)
  PROVE  IF Unpreempted(t) THEN Popping(t) ELSE UNCHANGED <<kind, state, cmd_log>>
  <1>0. /\ Len(cmd_log) \in Nat /\ DOMAIN cmd_log = 1 .. Len(cmd_log) /\ cmd_log \in Seq(Nat)
        /\ \A p \in DOMAIN cmd_log : cmd_log[p] \in Nat /\ cmd_log[p] \in HwIdx
        /\ DOMAIN state = HwIdx /\ arg[t] \in Nat /\ Increasing(cmd_log)
    BY TypeFacts DEF TypeInv, TypeOK, WorkerTypeOK, Order, LogOrder
  <1>1. CASE Unpreempted(t)
    <2>1. PICK n \in 0 .. Len(cmd_log), m \in 0 .. Len(sync_cmd_log) :
            /\ PopsThrough(cmd_log, arg[t], n)
            /\ SetStates({cmd_log[p] : p \in 1 .. n}, Completed)
            /\ cmd_log' = SubSeq(cmd_log, n + 1, Len(cmd_log))
      BY <1>1 DEF SyncCmdPost
    <2>2. Rest(cmd_log, n, cmd_log')
      BY <1>0, <2>1, Suffix
    <2>3. n \in Nat /\ n <= Len(cmd_log)
      BY <1>0, <2>1
    <2>4. \A p \in DOMAIN cmd_log :
            /\ p <= n => cmd_log[p] <= arg[t]
            /\ p > n => cmd_log[p] > arg[t]
      <3> SUFFICES ASSUME NEW p \in DOMAIN cmd_log
                   PROVE  /\ p <= n => cmd_log[p] <= arg[t]
                          /\ p > n => cmd_log[p] > arg[t]
        OBVIOUS
      <3>1. p \in 1 .. Len(cmd_log)
        BY <1>0
      <3>2. CASE p <= n
        <4>1. p \in 1 .. n /\ ~(p > n)
          BY <2>3, <3>1, <3>2
        <4> QED BY <2>1, <4>1 DEF PopsThrough
      <3>3. CASE p > n
        <4>1. n < Len(cmd_log) /\ n + 1 \in DOMAIN cmd_log /\ (n + 1 = p \/ n + 1 < p)
          BY <1>0, <2>3, <3>1, <3>3
        <4>2. cmd_log[n + 1] > arg[t]
          BY <2>1, <4>1 DEF PopsThrough
        <4>3. n + 1 < p => cmd_log[n + 1] < cmd_log[p]
          BY <1>0, <4>1 DEF Increasing
        <4>4. cmd_log[n + 1] \in Nat /\ cmd_log[p] \in Nat
          BY <1>0, <4>1
        <4>5. cmd_log[p] > arg[t]
          BY <1>0, <4>1, <4>2, <4>3, <4>4
        <4> QED BY <2>3, <3>1, <3>3, <4>5
      <3> QED BY <2>3, <3>1, <3>2, <3>3
    <2>5. \A p \in DOMAIN cmd_log' : /\ p + n \in DOMAIN cmd_log /\ cmd_log'[p] = cmd_log[p + n]
                                     /\ p + n > n
      BY <1>0, <2>2, <2>3, RestFacts
    <2>6. \A q \in DOMAIN cmd_log : q > n => \E p \in DOMAIN cmd_log' : cmd_log'[p] = cmd_log[q]
      BY <1>0, <2>2, RestFacts
    <2>7. \A i \in HwIdx : IF \E p \in 1 .. n : cmd_log[p] = i THEN state'[i] = Completed
                           ELSE state'[i] = state[i]
      BY <1>0, <2>1 DEF SetStates
    <2>8. \A i : (\E p \in 1 .. n : cmd_log[p] = i) <=> InLog(i) /\ i <= arg[t]
      <3>1. \A p : p \in 1 .. n <=> p \in DOMAIN cmd_log /\ p <= n
        BY <1>0, <2>3
      <3>2. \A p \in DOMAIN cmd_log : p <= n <=> cmd_log[p] <= arg[t]
        BY <1>0, <2>3, <2>4
      <3> QED BY <3>1, <3>2 DEF InLog
    <2>9. \A i : InLog(i)' => InLog(i) /\ i > arg[t]
      BY <2>4, <2>5 DEF InLog
    <2>10. \A i : InLog(i) /\ ~(i <= arg[t]) => InLog(i)'
      <3>1. \A q \in DOMAIN cmd_log : ~(cmd_log[q] <= arg[t]) => q > n
        BY <1>0, <2>3, <2>4
      <3> QED BY <2>6, <3>1 DEF InLog
    <2>11. \A i : InLog(i) => i \in HwIdx /\ i \in Nat
      BY <1>0 DEF InLog
    <2>12. \A i : InLog(i)' => state'[i] = state[i]
      <3> SUFFICES ASSUME NEW i, InLog(i)' PROVE state'[i] = state[i]
        OBVIOUS
      <3>1. i \in HwIdx /\ ~(i <= arg[t])
        BY <1>0, <2>9, <2>11
      <3> QED BY <2>7, <2>8, <3>1
    <2>13. \A i \in HwIdx :
             \/ state'[i] = state[i] /\ (InLog(i) => InLog(i)')
             \/ InLog(i) /\ ~InLog(i)' /\ state'[i] = Completed /\ i <= arg[t]
      <3> SUFFICES ASSUME NEW i \in HwIdx
                   PROVE  \/ state'[i] = state[i] /\ (InLog(i) => InLog(i)')
                          \/ InLog(i) /\ ~InLog(i)' /\ state'[i] = Completed /\ i <= arg[t]
        OBVIOUS
      <3>1. CASE InLog(i) /\ i <= arg[t]
        <4>1. ~InLog(i)'
          BY <1>0, <2>9, <2>11, <3>1
        <4> QED BY <2>7, <2>8, <3>1, <4>1
      <3>2. CASE ~(InLog(i) /\ i <= arg[t])
        BY <2>7, <2>8, <2>10, <3>2
      <3> QED BY <3>1, <3>2
    <2> QED BY <1>1, <2>9, <2>12, <2>13 DEF SyncCmdPost, Popping
  <1>2. CASE ~Unpreempted(t)
    BY <1>2 DEF SyncCmdPost, logVars
  <1> QED BY <1>1, <1>2

LEMMA AllPops ==
  ASSUME TypeInv, Order, SyncAllPost
  PROVE  IF Unpreempted(Worker) THEN Popping(Worker) ELSE UNCHANGED <<kind, state, cmd_log>>
  <1>1. CASE Unpreempted(Worker)
    <2>1. /\ DOMAIN state = HwIdx /\ SetStates(ToSet(cmd_log), Completed) /\ cmd_log' = <<>>
          /\ UNCHANGED <<kind, hwVars>> /\ pc[Worker] = "allPost"
      BY <1>1, TypeFacts DEF SyncAllPost
    <2>2. \A i : ~InLog(i)'
      BY <2>1 DEF InLog
    <2>3. \A i \in HwIdx : IF InLog(i) THEN state'[i] = Completed ELSE state'[i] = state[i]
      BY <2>1 DEF SetStates, ToSet, InLog
    <2> QED BY <1>1, <2>1, <2>2, <2>3 DEF Popping
  <1>2. CASE ~Unpreempted(Worker)
    BY <1>2 DEF SyncAllPost, logVars
  <1> QED BY <1>1, <1>2

Moves ==
  \/ UNCHANGED <<kind, state, cmd_log>>
  \/ \E t \in Apps : SubmitDraw(t) \/ SubmitEnqueue(t)
  \/ Launch
  \/ \E t \in Threads : Popping(t)

LEMMA MovesOnly ==
  ASSUME TypeInv, LaunchesHardware, Order, Placed, NEW k \in Controllers, Steady(k), NoDrops(k),
         [Next]_vars
  PROVE  Moves
  <1>0. Controllers = {k} /\ DOMAIN state = HwIdx /\ Worker \in Threads /\ Apps \subseteq Threads
    BY TypeFacts DEF Steady, OneController
  <1>1. CASE ~Settles
    BY <1>1, LogKept DEF Moves
  <1>2. ASSUME NEW t \in Threads, SyncCmdPost(t) PROVE Moves
    BY <1>2, CmdPops DEF Moves
  <1>3. CASE SyncAllPost
    BY <1>0, <1>3, AllPops DEF Moves
  <1>4. CASE ResumeDropAll(k) \/ ResumeDrop(k)
    <2>1. HwIn(cmds) = {} /\ cmd_log = <<>>
      BY <1>4, NothingToDrop DEF ResumeDropAll, ResumeDrop, NoDrops, Dropper
    <2>2. \E S : S = {} /\ SetStates(S, Completed) /\ UNCHANGED <<kind, cmd_log>>
      BY <1>4, <2>1 DEF ResumeDropAll, DropAll, ResumeDrop, ResumeAndDrop, logVars, ToSet
    <2>3. state' = [i \in DOMAIN state |-> state[i]]
      BY <2>2 DEF SetStates
    <2>4. state \in Seq(CmdState)
      BY DEF TypeInv, TypeOK, BufTypeOK
    <2>5. state' = state
      BY <2>3, <2>4, LenProperties
    <2> QED BY <2>2, <2>5 DEF Moves
  <1>5. ~LaunchDropped
    BY NothingToDrop
  <1> QED BY <1>0, <1>1, <1>2, <1>3, <1>4, <1>5 DEF Settles, Moves

(* What is drawn stays drawn, with its kind, and what is launched stays    *)
(* launched.                                                               *)
LEMMA Drawn ==
  ASSUME TypeInv, NEW t, SubmitDraw(t)
  PROVE  /\ HwIdx' = HwIdx \cup {Len(kind) + 1} /\ Len(kind) + 1 \notin HwIdx
         /\ \A i \in HwIdx : i < Len(kind) + 1
         /\ \A i \in HwIdx : state'[i] = state[i] /\ kind'[i] = kind[i]
         /\ state'[Len(kind) + 1] = Created
         /\ UNCHANGED <<cmds, cmd_log, cur>>
  <1>1. /\ Len(kind) \in Nat /\ HwIdx = 1 .. Len(kind) /\ state \in Seq(CmdState)
        /\ kind \in Seq(AllKinds) /\ Len(state) = Len(kind)
    BY TypeFacts DEF TypeInv, TypeOK, BufTypeOK
  <1>2. PICK l \in Kinds : kind' = Append(kind, l) /\ state' = Append(state, Created)
    BY DEF SubmitDraw, DrawIdx
  <1>3. l \in AllKinds /\ Created \in CmdState
    BY KindsAssumption DEF Created, CmdState
  <1>4. HwIdx' = 1 .. Len(kind) + 1 /\ \A i \in HwIdx : kind'[i] = kind[i]
    BY <1>1, <1>2, <1>3, AppendProperties DEF HwIdx
  <1>5. state'[Len(kind) + 1] = Created /\ \A i \in HwIdx : state'[i] = state[i]
    BY <1>1, <1>2, <1>3, AppendProperties
  <1>6. UNCHANGED <<cmds, cmd_log, cur>>
    BY DEF SubmitDraw, DrawIdx, logVars
  <1> QED BY <1>1, <1>4, <1>5, <1>6

LEMMA Enqueues ==
  ASSUME TypeInv, NEW t \in Apps, SubmitEnqueue(t)
  PROVE  /\ UNCHANGED <<kind, cmd_log, cur>> /\ arg[t] \in HwIdx /\ Submitting(t, arg[t])
         /\ \A i \in HwIdx : state'[i] = IF i = arg[t] THEN Pending ELSE state[i]
  <1>1. DOMAIN state = HwIdx /\ t \in Threads /\ SetStates({arg[t]}, Pending)
    BY TypeFacts DEF SubmitEnqueue, EnqueueHardware
  <1> QED BY <1>1 DEF SubmitEnqueue, EnqueueHardware, logVars, SetStates, TypeInv, DrawnIds,
             Submitting

LEMMA Launches ==
  ASSUME TypeInv, LaunchesHardware, Placed, Launch
  PROVE  /\ UNCHANGED <<kind, cmds, cur>> /\ Launching /\ cur.type = "Hardware"
         /\ cur.id \in HwIdx /\ state[cur.id] = Pending
         /\ \A i \in HwIdx : state'[i] = IF i = cur.id THEN InFlight ELSE state[i]
         /\ \A i : InLog(i)' <=> InLog(i) \/ i = cur.id
         /\ hwq' = Append(hwq, cur.id) /\ hwq \in Seq(Nat) /\ cur.id \in Nat
         /\ UNCHANGED <<executed, exit_flag, preempt_idx>>
  <1>1. /\ DOMAIN state = HwIdx /\ cmd_log \in Seq(Nat) /\ hwq \in Seq(Nat) /\ cur.id \in Nat
        /\ Launching
    BY TypeFacts DEF TypeInv, TypeOK, WorkerTypeOK, HwTypeOK, Launch, Launching
  <1>2. /\ cmd_log' = Append(cmd_log, cur.id) /\ hwq' = hwq \o <<cur.id>>
        /\ UNCHANGED <<kind, cmds, cur, executed, exit_flag, preempt_idx>>
        /\ SetStates({cur.id}, InFlight)
    BY DEF Launch, HwLaunch
  <1>3. \A i : InLog(i)' <=> InLog(i) \/ i = cur.id
    <2>1. /\ DOMAIN cmd_log' = DOMAIN cmd_log \cup {Len(cmd_log) + 1}
          /\ cmd_log'[Len(cmd_log) + 1] = cur.id
          /\ \A p \in DOMAIN cmd_log : cmd_log'[p] = cmd_log[p]
      BY <1>1, <1>2, LogAppended
    <2> QED BY <2>1 DEF InLog
  <1>4. hwq' = Append(hwq, cur.id)
    BY <1>1, <1>2, AppendIsConcat
  <1> QED BY <1>1, <1>2, <1>3, <1>4 DEF LaunchesHardware, Placed, TypeInv, DrawnIds, SetStates

LEMMA Grows ==
  ASSUME TypeInv, LaunchesHardware, Placed, Moves
  PROVE  /\ \A i \in HwIdx : i \in HwIdx' /\ kind'[i] = kind[i]
         /\ \A i \in HwIdx : state[i] = Completed => state'[i] = Completed
         /\ \A i \in HwIdx : state[i] = InFlight => state'[i] \in {InFlight, Completed}
  <1>1. CASE UNCHANGED <<kind, state, cmd_log>>
    BY <1>1 DEF HwIdx
  <1>2. ASSUME NEW t \in Apps, SubmitDraw(t)
        PROVE  \A i \in HwIdx : i \in HwIdx' /\ kind'[i] = kind[i] /\ state'[i] = state[i]
    BY <1>2, Drawn
  <1>3. ASSUME NEW t \in Apps, SubmitEnqueue(t), Placed
        PROVE  /\ \A i \in HwIdx : i \in HwIdx' /\ kind'[i] = kind[i]
               /\ \A i \in HwIdx : state'[i] = state[i] \/ state[i] = Created
    <2>1. t \in Threads
      BY TypeFacts
    <2> QED BY <1>3, <2>1, Enqueues DEF Placed, HwIdx
  <1>4. CASE Launch
    BY <1>4, Launches DEF HwIdx, Pending, InFlight, Completed
  <1>5. ASSUME NEW t \in Threads, Popping(t)
        PROVE  /\ \A i \in HwIdx : i \in HwIdx' /\ kind'[i] = kind[i]
               /\ \A i \in HwIdx : state'[i] = state[i] \/ state'[i] = Completed
    BY <1>5 DEF Popping, HwIdx
  <1> QED BY <1>1, <1>2, <1>3, <1>4, <1>5 DEF Moves, Created, InFlight, Completed

LEMMA SubmittingKept ==
  ASSUME TypeInv, Order, [Next]_vars, NEW t \in Threads, NEW i, Submitting(t, i),
         ~SubmitEnqueue(t)
  PROVE  Submitting(t, i)'
  <1>0. /\ t \in Submitters /\ t \in Apps /\ pc[t] = "enqueue" /\ arg[t] = i
        /\ Worker \in Threads /\ \A u \in Controllers : u \in Threads /\ u # t
        /\ t # Worker /\ Apps \subseteq Threads
    BY TypeFacts, ThreadsAssumption, ApiAssumption DEF Order, SubmitOrder, Submitting
  <1>1. ~AppCall(t) /\ ~AppProgress(t)
    BY <1>0 DEF AppCall, AppProgress, SubmitDraw, WaitCmd, CallWaitAll, SubmitWaitAll,
       CmdReached, SyncCmdCheck, SyncCmdHw, SyncCmdPost, CvWait
  <1>2. pc'[t] = pc[t] /\ arg'[t] = arg[t]
    <2>1. CASE WorkerStep
      BY <1>0, <2>1, WorkerLocal DEF Local
    <2>2. CASE HwStep \/ UNCHANGED vars
      BY <2>2 DEF HwStep, vars, workerVars
    <2>3. ASSUME NEW u \in Apps, AppCall(u) \/ AppProgress(u)
          PROVE  pc'[t] = pc[t] /\ arg'[t] = arg[t]
      BY <1>0, <1>1, <2>3, AppLocal DEF Local
    <2>4. ASSUME NEW u \in Controllers, ControlCall(u) \/ ControlProgress(u)
          PROVE  pc'[t] = pc[t] /\ arg'[t] = arg[t]
      BY <1>0, <2>4, ControlLocal DEF Local
    <2> QED BY <2>1, <2>2, <2>3, <2>4, NextCases DEF Others
  <1> QED BY <1>0, <1>2 DEF Submitting

(***************************************************************************)
(* InTurn: what is completed was submitted before what is not; and a       *)
(* command that is not yet in the buffer is in the hands of a thread.      *)
(***************************************************************************)
InTurn ==
  /\ \A i \in HwIdx : state[i] = Created => \E t \in Threads : Submitting(t, i)
  /\ \A i, j \in HwIdx : state[i] = Completed /\ state[j] # Completed => i < j

(* What is neither completed nor in the log comes after the log.           *)
LEMMA Behind ==
  ASSUME TypeInv, Order, Kept, InTurn,
         NEW i, InLog(i), NEW j \in HwIdx, state[j] # Completed, ~InLog(j)
  PROVE  i < j
  <1>0. \A l \in HwIdx : state[l] \in {Created, Pending, InFlight, Completed}
    <2>1. state \in Seq(CmdState) /\ DOMAIN state = HwIdx
      BY TypeFacts DEF TypeInv, TypeOK, BufTypeOK
    <2>2. \A l \in DOMAIN state : state[l] \in CmdState
      BY <2>1, ElementOfSeq
    <2> QED BY <2>1, <2>2 DEF CmdState, Created, Pending, InFlight, Completed
  <1>1. PICK p \in DOMAIN cmd_log : cmd_log[p] = i
    BY DEF InLog
  <1>2. CASE state[j] = Created
    BY <1>1, <1>2 DEF InTurn, Submitting, Order, SubmitOrder
  <1>3. CASE state[j] # Created
    <2>1. InBuffer(Hardware(j)) \/ (Launching /\ cur = Hardware(j))
      BY <1>0, <1>3 DEF Kept
    <2>2. Hardware(j).type = "Hardware" /\ Hardware(j).id = j
      BY DEF Hardware
    <2>3. CASE Launching /\ cur = Hardware(j)
      BY <1>1, <2>2, <2>3 DEF Order, CurOrder
    <2>4. CASE InBuffer(Hardware(j))
      <3>1. PICK q \in DOMAIN cmds : cmds[q] = Hardware(j)
        BY <2>4 DEF InBuffer
      <3> QED BY <1>1, <2>2, <3>1 DEF Order, BufOrder
    <2> QED BY <2>1, <2>3, <2>4
  <1> QED BY <1>2, <1>3

LEMMA InTurnStep ==
  ASSUME TypeInv, LaunchesHardware, Order, Kept, Placed, InTurn, Moves, [Next]_vars
  PROVE  InTurn'
  <1>0. /\ Len(kind) \in Nat /\ HwIdx = 1 .. Len(kind) /\ DOMAIN state = HwIdx
        /\ Apps \subseteq Threads
        /\ Created # Completed /\ Pending # Completed /\ InFlight # Completed
        /\ Created # InFlight /\ Created # Pending
        /\ pc \in [Threads -> Labels] /\ arg \in [Threads -> Nat]
    BY TypeFacts DEF Created, Pending, InFlight, Completed, TypeInv, TypeOK, WorkerTypeOK
  <1>1. CASE UNCHANGED <<kind, state, cmd_log>>
    <2>1. \A t \in Apps : ~SubmitEnqueue(t)
      <3> SUFFICES ASSUME NEW t \in Apps, SubmitEnqueue(t) PROVE FALSE
        OBVIOUS
      <3>1. state'[arg[t]] = Pending /\ arg[t] \in HwIdx /\ state[arg[t]] = Created
        BY <1>0, Enqueues DEF Placed
      <3> QED BY <1>0, <1>1, <3>1
    <2>2. \A i \in HwIdx : state[i] = Created => \E t \in Threads : Submitting(t, i)'
      <3> SUFFICES ASSUME NEW i \in HwIdx, state[i] = Created
                   PROVE  \E t \in Threads : Submitting(t, i)'
        OBVIOUS
      <3>1. PICK t \in Threads : Submitting(t, i)
        BY DEF InTurn
      <3>2. t \in Apps
        BY <3>1, ApiAssumption DEF Submitting, Order, SubmitOrder
      <3> QED BY <2>1, <3>1, <3>2, SubmittingKept
    <2> QED BY <1>1, <2>2 DEF InTurn, HwIdx, Submitting
  <1>2. ASSUME NEW t \in Apps, SubmitDraw(t) PROVE InTurn'
    <2>1. /\ HwIdx' = HwIdx \cup {Len(kind) + 1} /\ Len(kind) + 1 \notin HwIdx
          /\ \A i \in HwIdx : i < Len(kind) + 1
          /\ \A i \in HwIdx : state'[i] = state[i]
          /\ state'[Len(kind) + 1] = Created
      BY <1>2, Drawn
    <2>2. t \in Threads /\ pc'[t] = "enqueue" /\ arg'[t] = Len(kind) + 1
      BY <1>0, <1>2 DEF SubmitDraw, Goto
    <2>3. \A u \in Threads : \A i : Submitting(u, i) => Submitting(u, i)'
      <3> SUFFICES ASSUME NEW u \in Threads, NEW i, Submitting(u, i) PROVE Submitting(u, i)'
        OBVIOUS
      <3>1. u # t
        BY <1>2 DEF SubmitDraw, Submitting
      <3>2. pc'[u] = pc[u] /\ arg'[u] = arg[u]
        BY <1>0, <1>2, <3>1 DEF SubmitDraw, Goto
      <3> QED BY <3>2 DEF Submitting
    <2>4. ASSUME NEW i \in HwIdx', state'[i] = Created
          PROVE  \E u \in Threads : Submitting(u, i)'
      <3>1. CASE i \in HwIdx
        BY <2>1, <2>3, <2>4, <3>1 DEF InTurn
      <3>2. CASE i = Len(kind) + 1
        BY <2>2, <3>2 DEF Submitting
      <3> QED BY <2>1, <2>4, <3>1, <3>2
    <2>5. \A i, j \in HwIdx' : state'[i] = Completed /\ state'[j] # Completed => i < j
      BY <1>0, <2>1 DEF InTurn
    <2> QED BY <2>4, <2>5 DEF InTurn
  <1>3. ASSUME NEW t \in Apps, SubmitEnqueue(t) PROVE InTurn'
    <2>1. /\ UNCHANGED kind /\ arg[t] \in HwIdx /\ Submitting(t, arg[t])
          /\ \A i \in HwIdx : state'[i] = IF i = arg[t] THEN Pending ELSE state[i]
      BY <1>3, Enqueues
    <2>2. HwIdx' = HwIdx /\ state[arg[t]] = Created
      BY <1>0, <2>1 DEF HwIdx, Placed
    <2>3. \A i \in HwIdx : state'[i] = Created => \E u \in Threads : Submitting(u, i)'
      <3> SUFFICES ASSUME NEW i \in HwIdx, state'[i] = Created
                   PROVE  \E u \in Threads : Submitting(u, i)'
        OBVIOUS
      <3>1. i # arg[t] /\ state[i] = Created
        BY <1>0, <2>1
      <3>2. PICK u \in Threads : Submitting(u, i)
        BY <3>1 DEF InTurn
      <3>3. u # t
        BY <3>1, <3>2 DEF Submitting
      <3>4. pc'[u] = pc[u] /\ arg'[u] = arg[u]
        <4>1. AppProgress(t)
          BY <1>3 DEF AppProgress
        <4>2. Local(t)
          BY <1>0, <4>1, AppLocal
        <4> QED BY <3>3, <4>2 DEF Local
      <3> QED BY <3>2, <3>4 DEF Submitting
    <2> QED BY <1>0, <2>1, <2>2, <2>3 DEF InTurn
  <1>4. CASE Launch
    <2>1. /\ kind' = kind /\ cur.id \in HwIdx /\ state[cur.id] = Pending
          /\ \A i \in HwIdx : state'[i] = IF i = cur.id THEN InFlight ELSE state[i]
      BY <1>4, Launches
    <2>2. HwIdx' = HwIdx
      BY <2>1 DEF HwIdx
    <2>3. \A u \in Threads : \A i : Submitting(u, i) => Submitting(u, i)'
      <3>1. \A u \in Threads : u # Worker => pc'[u] = pc[u] /\ arg'[u] = arg[u]
        BY <1>4, WorkerLocal DEF WorkerStep, Local
      <3>2. \A i : ~Submitting(Worker, i)
        BY <1>4 DEF Launch, Submitting
      <3> QED BY <3>1, <3>2 DEF Submitting
    <2> QED BY <1>0, <2>1, <2>2, <2>3 DEF InTurn
  <1>5. ASSUME NEW t \in Threads, Popping(t) PROVE InTurn'
    <2>1. /\ HwIdx' = HwIdx
          /\ \A i \in HwIdx : state'[i] = state[i] \/ (InLog(i) /\ state'[i] = Completed)
      BY <1>5 DEF Popping, HwIdx
    <2>2. \A u \in Apps : ~SubmitEnqueue(u)
      <3> SUFFICES ASSUME NEW u \in Apps, SubmitEnqueue(u) PROVE FALSE
        OBVIOUS
      <3>1. state'[arg[u]] = Pending /\ arg[u] \in HwIdx /\ state[arg[u]] = Created
        BY <1>0, Enqueues DEF Placed
      <3> QED BY <1>0, <2>1, <3>1
    <2>3. \A i \in HwIdx : state'[i] = Created => \E u \in Threads : Submitting(u, i)'
      <3> SUFFICES ASSUME NEW i \in HwIdx, state'[i] = Created
                   PROVE  \E u \in Threads : Submitting(u, i)'
        OBVIOUS
      <3>1. state[i] = Created
        BY <1>0, <2>1
      <3>2. PICK u \in Threads : Submitting(u, i)
        BY <3>1 DEF InTurn
      <3>3. u \in Apps
        BY <3>2, ApiAssumption DEF Submitting, Order, SubmitOrder
      <3> QED BY <2>2, <3>2, <3>3, SubmittingKept
    <2>4. ASSUME NEW i \in HwIdx, NEW j \in HwIdx, state'[i] = Completed, state'[j] # Completed
          PROVE  i < j
      <3>1. state[j] # Completed
        BY <1>0, <2>1, <2>4, <1>5 DEF Popping
      <3>2. CASE state[i] = Completed
        BY <3>1, <3>2 DEF InTurn
      <3>3. CASE state[i] # Completed
        <4>1. /\ InLog(i) /\ ~InLog(i)' /\ (pc[t] = "cmdPost" => i <= arg[t])
          BY <1>5, <2>4, <3>3 DEF Popping
        <4>2. CASE InLog(j)
          <5>1. InLog(j)' /\ pc[t] = "cmdPost" /\ j > arg[t]
            BY <1>5, <2>4, <4>2 DEF Popping
          <5>2. arg[t] \in Nat
            BY TypeFacts
          <5> QED BY <1>0, <4>1, <5>1, <5>2
        <4>3. CASE ~InLog(j)
          BY <3>1, <4>1, <4>3, Behind
        <4> QED BY <4>2, <4>3
      <3> QED BY <3>2, <3>3
    <2> QED BY <2>1, <2>3, <2>4 DEF InTurn
  <1> QED BY <1>1, <1>2, <1>3, <1>4, <1>5 DEF Moves
-----------------------------------------------------------------------------
(* What was launched came before what the worker is about to launch, and   *)
(* before what is still in the buffer.                                     *)
LEMMA InFlightInLog ==
  ASSUME TypeInv, LaunchesHardware, Placed, Kept, NEW i \in HwIdx, state[i] = InFlight
  PROVE  InLog(i)
  <1>1. Hardware(i).type = "Hardware" /\ Hardware(i).id = i /\ InFlight # Pending
    BY DEF Hardware, InFlight, Pending
  <1> QED BY <1>1 DEF Kept, Placed, InBuffer

LEMMA LaunchedBefore ==
  ASSUME TypeInv, LaunchesHardware, Order, Placed, Kept, InTurn, Launching,
         NEW i \in HwIdx, InLog(i) \/ state[i] = Completed
  PROVE  i < cur.id
  <1>1. cur.id \in HwIdx /\ state[cur.id] = Pending /\ Pending # Completed
    BY DEF LaunchesHardware, TypeInv, DrawnIds, Placed, Pending, Completed
  <1> QED BY <1>1 DEF InTurn, Order, CurOrder, InLog

(* A completed command came before everything in the log.                  *)
LEMMA CompletedBefore ==
  ASSUME TypeInv, Placed, InTurn, NEW i \in HwIdx, state[i] = Completed, NEW j, InLog(j)
  PROVE  i < j
  <1>1. j \in HwIdx /\ state[j] = InFlight /\ InFlight # Completed
    BY DEF Placed, InFlight, Completed
  <1> QED BY <1>1 DEF InTurn

(* Properties of commands do not change.                                   *)
LEMMA SameKind ==
  ASSUME TypeInv, LaunchesHardware, Placed, Moves
  PROVE  /\ \A i \in HwIdx : i \in HwIdx'
         /\ \A i \in HwIdx : /\ Deactivatable(i)' <=> Deactivatable(i)
                             /\ Idempotent(i)' <=> Idempotent(i)
  BY Grows DEF Deactivatable, Idempotent

(***************************************************************************)
(* What a thread synchronizes is in flight or completed.                   *)
(***************************************************************************)
Synced ==
  \A t \in Threads :
    /\ pc[t] = "waitInFlight" => arg[t] \in HwIdx
    /\ pc[t] \in SyncCmdLabels => arg[t] \in HwIdx /\ state[arg[t]] \in {InFlight, Completed}

(* The thread that begins to wait for a command, or to synchronize it.     *)
LEMMA AppSyncs ==
  ASSUME TypeInv, Synced, NEW t \in Apps, AppCall(t) \/ AppProgress(t)
  PROVE  /\ pc'[t] = "waitInFlight" => arg'[t] \in HwIdx
         /\ pc'[t] \in SyncCmdLabels =>
              arg'[t] \in HwIdx /\ state[arg'[t]] \in {InFlight, Completed}
  <1>0. /\ pc \in [Threads -> Labels] /\ arg \in [Threads -> Nat] /\ t \in Threads
        /\ t # Worker /\ state \in Seq(CmdState) /\ DOMAIN state = HwIdx
    BY TypeFacts, ThreadsAssumption DEF TypeInv, TypeOK, WorkerTypeOK, BufTypeOK
  <1>1. CASE AppCall(t)
    BY <1>0, <1>1 DEF AppCall, SubmitDraw, WaitCmd, CallWaitAll, SubmitWaitAll, Goto, Synced,
       SyncCmdLabels, workerVars
  <1>2. CASE SubmitEnqueue(t)
    BY <1>0, <1>2 DEF SubmitEnqueue, Return, Goto, SyncCmdLabels
  <1>3. CASE CmdReached(t)
    <2>1. CASE pc[t] = "waitInFlight" /\ state[arg[t]] >= InFlight
      <3>1. arg[t] \in HwIdx /\ pc' = [pc EXCEPT ![t] = "cmdCheck"] /\ arg' = arg
        BY <1>0, <1>3, <2>1 DEF CmdReached, Synced, Goto
      <3>2. state[arg[t]] \in CmdState
        BY <1>0, <3>1, ElementOfSeq
      <3>3. state[arg[t]] \in {InFlight, Completed}
        BY <2>1, <3>2 DEF CmdState, InFlight, Completed
      <3> QED BY <1>0, <3>1, <3>3 DEF SyncCmdLabels
    <2>2. CASE ~(pc[t] = "waitInFlight" /\ state[arg[t]] >= InFlight)
      BY <1>0, <1>3, <2>2 DEF CmdReached, Return, Goto, SyncCmdLabels
    <2> QED BY <2>1, <2>2
  <1>4. CASE SyncCmdCheck(t) \/ SyncCmdHw(t) \/ SyncCmdPost(t)
    <2>1. pc[t] \in SyncCmdLabels
      BY <1>4 DEF SyncCmdCheck, SyncCmdHw, SyncCmdPost, SyncCmdLabels
    <2>2. /\ pc'[t] # "waitInFlight"
          /\ pc'[t] \in SyncCmdLabels => arg'[t] = arg[t]
      BY <1>0, <1>4, <2>1 DEF SyncCmdCheck, SyncCmdHw, SyncCmdPost, ReturnFromSync, Goto,
         SyncCmdLabels
    <2> QED BY <1>0, <2>1, <2>2 DEF Synced
  <1>5. CASE CvWait(t)
    BY <1>0, <1>5 DEF CvWait, threadVars, Synced
  <1> QED BY <1>1, <1>2, <1>3, <1>4, <1>5 DEF AppProgress

(* Controllers synchronize the hardware queue only as a whole.             *)
LEMMA ControlApart ==
  ASSUME TypeInv, NEW k \in Controllers, ControlCall(k) \/ ControlProgress(k)
  PROVE  pc'[k] \notin SyncCmdLabels \cup {"waitInFlight", "allPost"}
  <1>0. pc \in [Threads -> Labels] /\ k \in Threads
    BY TypeFacts
  <1>1. \E l : pc' = [pc EXCEPT ![k] = l] /\ l \notin SyncCmdLabels \cup {"waitInFlight", "allPost"}
    <2>1. CASE ControlCall(k)
      BY <2>1 DEF ControlCall, Suspend, ResumeBegin, DestructBegin, BeginResume, DestructResume,
         Goto, SyncCmdLabels
    <2>2. CASE ControlProgress(k)
      BY <2>2 DEF ControlProgress, SuspendPause, SuspendDeactivate, SuspendSyncHw,
         ReactivateSync, ReactivateRead, ReactivateClear, ReactivateRelaunch, ResumeWorker,
         ResumeDropAll, ResumeDropIdx, ResumeDrop, DestructEnqueue, DestructWait, EndResume,
         Goto, SyncCmdLabels
    <2> QED BY <2>1, <2>2
  <1> QED BY <1>0, <1>1

LEMMA SyncedStep ==
  ASSUME TypeInv, LaunchesHardware, Order, Placed, Synced, Moves, [Next]_vars
  PROVE  Synced'
  <1>0. /\ Apps \subseteq Threads /\ Controllers \subseteq Threads /\ Worker \in Threads
        /\ pc \in [Threads -> Labels] /\ ret \in {"full", "tail", "done"}
    BY TypeFacts DEF TypeInv, TypeOK, WorkerTypeOK
  <1>1. \A i \in HwIdx : i \in HwIdx' /\ (state[i] \in {InFlight, Completed} =>
                                         state'[i] \in {InFlight, Completed})
    BY Grows
  <1> DEFINE Good(t, a) == /\ pc'[t] = "waitInFlight" => a \in HwIdx
                           /\ pc'[t] \in SyncCmdLabels =>
                                a \in HwIdx /\ state[a] \in {InFlight, Completed}
  <1>2. SUFFICES \A t \in Threads : Good(t, arg'[t])
    BY <1>1 DEF Synced
  <1>3. ASSUME NEW u \in Threads, Local(u), Good(u, arg'[u])
        PROVE  \A t \in Threads : Good(t, arg'[t])
    BY <1>3 DEF Local, Synced
  <1>4. CASE WorkerStep
    <2>1. pc'[Worker] # "waitInFlight"
      BY <1>0, <1>4 DEF WorkerStep, WorkerTake, Dispatch, WorkerIdle, LaunchBegin, LaunchFull,
         AwaitRunning, LaunchDropped, Launch, SyncAllCheck, SyncAllHw, SyncAllPost, SyncCmdCheck,
         SyncCmdHw, SyncCmdPost, CvWait, WorkerBatch, WorkerDone, ReturnFromSync, BeginSyncCmd,
         BeginSyncAll, Goto, threadVars
    <2>2. ASSUME pc'[Worker] \in SyncCmdLabels
          PROVE  arg'[Worker] \in HwIdx /\ state[arg'[Worker]] \in {InFlight, Completed}
      <3>1. CASE pc[Worker] \in SyncCmdLabels /\ arg'[Worker] = arg[Worker]
        BY <1>0, <3>1 DEF Synced
      <3>2. CASE InLog(arg'[Worker])
        BY <3>2 DEF Placed
      <3> QED BY <1>4, <2>2, <3>1, <3>2, WorkerSyncs
    <2>3. Good(Worker, arg'[Worker])
      BY <2>1, <2>2
    <2> QED BY <1>0, <1>3, <1>4, <2>3, WorkerLocal
  <1>5. CASE HwStep \/ UNCHANGED vars
    BY <1>5 DEF HwStep, vars, workerVars, Synced
  <1>6. ASSUME NEW t \in Apps, AppCall(t) \/ AppProgress(t)
        PROVE  \A u \in Threads : Good(u, arg'[u])
    BY <1>0, <1>3, <1>6, AppLocal, AppSyncs
  <1>7. ASSUME NEW k \in Controllers, ControlCall(k) \/ ControlProgress(k)
        PROVE  \A u \in Threads : Good(u, arg'[u])
    BY <1>0, <1>3, <1>7, ControlLocal, ControlApart
  <1> QED BY <1>4, <1>5, <1>6, <1>7, NextCases DEF Others
-----------------------------------------------------------------------------
(***************************************************************************)
(* Shape: at level 2, what a deactivated queue flushes leaves nothing      *)
(* behind it that cannot be repeated: a command that is neither            *)
(* deactivatable nor idempotent is launched only when no deactivatable one *)
(* is in flight, and the worker has seen to that once it has passed the    *)
(* first part of LaunchHwCommand (Clear).                                  *)
(***************************************************************************)
Plain(i) == ~Deactivatable(i) /\ ~Idempotent(i)
NoKernel == \A i : InLog(i) => ~Deactivatable(i)

Clear ==
  \/ pc[Worker] \in {"full", "await", "tail"}
  \/ pc[Worker] \in {"allCheck", "allSync", "allPost"} \cup SyncCmdLabels /\ ret = "tail"

Shape ==
  /\ \A i, j : InLog(i) /\ InLog(j) /\ i < j /\ Deactivatable(i) => ~Plain(j)
  /\ Clear /\ Plain(cur.id) => NoKernel
  /\ pc[Worker] \in SyncCmdLabels /\ ret = "full" =>
       \A i : InLog(i) /\ Deactivatable(i) => i <= arg[Worker]

LEMMA Shrinks ==
  ASSUME Moves, ~Launch
  PROVE  \A i : InLog(i)' => InLog(i)
  <1>1. ASSUME NEW t \in Apps, SubmitDraw(t) \/ SubmitEnqueue(t) PROVE cmd_log' = cmd_log
    BY <1>1 DEF SubmitDraw, SubmitEnqueue, logVars
  <1>2. ASSUME cmd_log' = cmd_log PROVE \A i : InLog(i)' => InLog(i)
    BY <1>2 DEF InLog
  <1> QED BY <1>1, <1>2 DEF Moves, Popping

LEMMA ShapeFrame ==
  ASSUME TypeInv, LaunchesHardware, Placed, Shape, Moves, ~Launch,
         Clear' => /\ Launching /\ cur' = cur
                   /\ Clear \/ ~Plain(cur.id) \/ \A i : InLog(i)' => ~Deactivatable(i),
         pc'[Worker] \in SyncCmdLabels /\ ret' = "full" =>
           \A i : InLog(i)' /\ Deactivatable(i) => i <= arg'[Worker]
  PROVE  Shape'
  <1>1. /\ \A i : InLog(i)' => InLog(i) /\ i \in HwIdx
        /\ \A i \in HwIdx : (Deactivatable(i)' <=> Deactivatable(i)) /\ (Plain(i)' <=> Plain(i))
    <2>1. \A i : InLog(i)' => InLog(i) /\ i \in HwIdx
      BY Shrinks DEF Placed
    <2> QED BY <2>1, SameKind DEF Plain
  <1>2. \A i, j : InLog(i)' /\ InLog(j)' /\ i < j /\ Deactivatable(i)' => ~Plain(j)'
    BY <1>1 DEF Shape
  <1>3. ASSUME Clear', Plain(cur.id)' PROVE NoKernel'
    <2>1. cur.id \in HwIdx /\ cur' = cur
      BY <1>3 DEF LaunchesHardware, TypeInv, DrawnIds
    <2>2. Plain(cur.id)
      <3>1. kind'[cur.id] = kind[cur.id]
        BY <2>1, Grows
      <3> QED BY <1>3, <2>1, <3>1 DEF Plain, Deactivatable, Idempotent
    <2>3. \A i : InLog(i)' => ~Deactivatable(i)
      BY <1>1, <1>3, <2>2 DEF Shape, NoKernel
    <2> QED BY <1>1, <2>3 DEF NoKernel
  <1>4. pc'[Worker] \in SyncCmdLabels /\ ret' = "full" =>
          \A i : InLog(i)' /\ Deactivatable(i)' => i <= arg'[Worker]
    BY <1>1
  <1> QED BY <1>2, <1>3, <1>4 DEF Shape

LEMMA ShapeLaunch ==
  ASSUME TypeInv, LaunchesHardware, Order, Placed, Kept, InTurn, Shape, Launch
  PROVE  Shape'
  <1>0. /\ kind' = kind /\ Launching /\ cur.id \in HwIdx /\ cur' = cur
        /\ \A i : InLog(i)' <=> InLog(i) \/ i = cur.id
        /\ Worker \in Threads /\ pc \in [Threads -> Labels]
    BY Launches, TypeFacts
  <1>1. /\ \A i : Deactivatable(i)' = Deactivatable(i) /\ Plain(i)' = Plain(i)
        /\ pc[Worker] = "tail" /\ pc'[Worker] = "dequeue"
    BY <1>0 DEF Deactivatable, Plain, Idempotent, Launch, Goto
  <1>2. \A i : InLog(i) => i < cur.id /\ i \in Nat /\ cur.id \in Nat
    BY <1>0, LaunchedBefore, TypeFacts DEF Placed
  <1>3. Plain(cur.id) => \A i : InLog(i) => ~Deactivatable(i)
    BY <1>1 DEF Shape, Clear, NoKernel
  <1>4. ASSUME NEW i, NEW j, InLog(i)', InLog(j)', i < j, Deactivatable(i) PROVE ~Plain(j)
    <2>1. i # cur.id \/ j # cur.id
      BY <1>0, <1>4, TypeFacts
    <2>2. i = cur.id => ~InLog(j)
      BY <1>2, <1>4
    <2> QED BY <1>0, <1>3, <1>4, <2>1, <2>2 DEF Shape
  <1>5. ~Clear' /\ pc'[Worker] \notin SyncCmdLabels
    BY <1>1 DEF Clear, SyncCmdLabels
  <1> QED BY <1>1, <1>4, <1>5 DEF Shape

LEMMA ShapeStep ==
  ASSUME TypeInv, LaunchesHardware, Order, Placed, Kept, InTurn, Synced, Shape, Level = 2,
         Moves, [Next]_vars
  PROVE  Shape'
  <1>0. /\ Worker \in Threads /\ pc \in [Threads -> Labels] /\ arg \in [Threads -> Nat]
        /\ ret \in {"full", "tail", "done"} /\ cmd_log \in Seq(Nat) /\ Len(cmd_log) \in Nat
        /\ DOMAIN cmd_log = 1 .. Len(cmd_log)
        /\ \A i : InLog(i) => i \in HwIdx
    BY TypeFacts DEF TypeInv, TypeOK, WorkerTypeOK, Placed
  <1>1. CASE Launch
    BY <1>1, ShapeLaunch
  <1>2. ASSUME ~Launch, UNCHANGED <<cur, ret>>, pc'[Worker] = pc[Worker],
               arg'[Worker] = arg[Worker]
        PROVE  Shape'
    <2>1. Clear' => Launching /\ cur' = cur /\ Clear
      BY <1>2 DEF Clear, Launching
    <2>2. pc'[Worker] \in SyncCmdLabels /\ ret' = "full" =>
            \A i : InLog(i)' /\ Deactivatable(i) => i <= arg'[Worker]
      BY <1>2, Shrinks DEF Shape
    <2> QED BY <1>2, <2>1, <2>2, ShapeFrame
  <1>3. CASE Others
    <2>1. CASE Launch
      BY <2>1, <1>1
    <2> QED BY <1>2, <1>3, <2>1, OthersKeepWorker DEF Others
  <1>4. CASE UNCHANGED vars
    BY <1>0, <1>1, <1>2, <1>4 DEF vars, workerVars
  <1>5. CASE WorkerStep /\ ~Launch
    <2>0. /\ Moves /\ ~Launch /\ \A i : InLog(i)' => InLog(i)
      BY <1>5, Shrinks
    <2>1. CASE WorkerTake
      <3>1. ret' = "done" /\ pc'[Worker] \in {"launch", "batch", "allCheck"}
        BY <1>0, <2>1 DEF WorkerTake, Dispatch, Goto
      <3> QED BY <2>0, <3>1, ShapeFrame DEF Clear, SyncCmdLabels
    <2>2. CASE WorkerIdle \/ LaunchDropped \/ WorkerDone
      <3>1. pc'[Worker] \in {"dequeue", "cvWait", "end"}
        BY <1>0, <2>2 DEF WorkerIdle, LaunchDropped, WorkerDone, Goto
      <3> QED BY <2>0, <3>1, ShapeFrame DEF Clear, SyncCmdLabels
    <2>3. CASE LaunchBegin
      <3>0. cur' = cur /\ cmd_log' = cmd_log /\ Launching
        BY <2>3 DEF LaunchBegin, Launching, logVars
      <3>1. MustWaitDeactivatable(cur.id) <=>
              Plain(cur.id) /\ \E p \in DOMAIN cmd_log : Deactivatable(cmd_log[p])
        BY DEF MustWaitDeactivatable, Plain
      <3>2. CASE ~MustWaitDeactivatable(cur.id)
        <4>1. pc'[Worker] = "full"
          BY <1>0, <2>3, <3>2 DEF LaunchBegin, Goto
        <4>2. Plain(cur.id) => \A i : InLog(i)' => ~Deactivatable(i)
          BY <3>0, <3>1, <3>2 DEF InLog
        <4> QED BY <2>0, <3>0, <4>1, <4>2, ShapeFrame DEF SyncCmdLabels
      <3>3. CASE MustWaitDeactivatable(cur.id) /\ \E p \in DOMAIN cmd_log : CoversDeactivatable(p)
        <4>1. PICK p \in DOMAIN cmd_log :
                CoversDeactivatable(p) /\ BeginSyncCmd(cmd_log[p], "full")
          BY <2>3, <3>3 DEF LaunchBegin
        <4>2. pc'[Worker] = "cmdCheck" /\ ret' = "full" /\ arg'[Worker] = cmd_log[p]
          BY <1>0, <4>1 DEF BeginSyncCmd, Goto
        <4>3. ASSUME NEW i, InLog(i)', Deactivatable(i) PROVE i <= arg'[Worker]
          <5>1. PICK q \in DOMAIN cmd_log : cmd_log[q] = i
            BY <3>0, <4>3 DEF InLog
          <5>2. q <= p
            BY <1>0, <4>1, <4>3, <5>1 DEF CoversDeactivatable
          <5>3. q = p \/ cmd_log[q] < cmd_log[p]
            BY <1>0, <5>2 DEF Order, LogOrder, Increasing
          <5>4. cmd_log[q] \in Nat /\ cmd_log[p] \in Nat
            BY TypeFacts
          <5> QED BY <4>2, <5>1, <5>3, <5>4
        <4> QED BY <2>0, <4>2, <4>3, ShapeFrame DEF Clear, SyncCmdLabels
      <3>4. CASE MustWaitDeactivatable(cur.id) /\ ~\E p \in DOMAIN cmd_log : CoversDeactivatable(p)
        <4>1. pc'[Worker] = "allCheck" /\ ret' = "full"
          BY <1>0, <2>3, <3>4 DEF LaunchBegin, BeginSyncAll, Goto
        <4> QED BY <2>0, <4>1, ShapeFrame DEF Clear, SyncCmdLabels
      <3> QED BY <3>2, <3>3, <3>4
    <2>4. CASE LaunchFull \/ AwaitRunning
      <3>1. /\ cur' = cur /\ Launching /\ Clear
            /\ \/ pc'[Worker] \in {"await", "tail"}
               \/ pc'[Worker] \in {"cmdCheck", "allCheck"} /\ ret' = "tail"
        BY <1>0, <2>4 DEF LaunchFull, AwaitRunning, BeginSyncCmd, BeginSyncAll, Goto, Launching,
           Clear
      <3> QED BY <2>0, <3>1, ShapeFrame DEF Clear, SyncCmdLabels
    <2>5. CASE WorkerBatch
      <3>1. pc'[Worker] = "dequeue" \/ (pc'[Worker] = "cmdCheck" /\ ret' = "done")
        BY <1>0, <2>5 DEF WorkerBatch, BeginSyncCmd, Goto
      <3> QED BY <2>0, <3>1, ShapeFrame DEF Clear, SyncCmdLabels
    <2>6. CASE SyncAllCheck \/ SyncAllHw \/ SyncAllPost
      <3>1. /\ UNCHANGED <<cur, ret>> /\ pc[Worker] \in {"allCheck", "allSync", "allPost"}
            /\ \/ pc'[Worker] \in {"allCheck", "allSync", "allPost"}
               \/ pc'[Worker] = ret /\ cmd_log' = <<>>
        BY <1>0, <2>6 DEF SyncAllCheck, SyncAllHw, SyncAllPost, ReturnFromSync, Goto, logVars
      <3>2. ret # "done" => Launching
        BY <3>1 DEF Launching
      <3>3. cmd_log' = <<>> => \A i : ~InLog(i)'
        BY DEF InLog
      <3>4. Clear' => Launching /\ cur' = cur /\ (Clear \/ \A i : InLog(i)' => ~Deactivatable(i))
        BY <3>1, <3>2, <3>3 DEF Clear, SyncCmdLabels
      <3>5. pc'[Worker] \notin SyncCmdLabels
        BY <1>0, <3>1 DEF SyncCmdLabels
      <3> QED BY <2>0, <3>4, <3>5, ShapeFrame
    <2>7. CASE SyncCmdCheck(Worker) \/ SyncCmdHw(Worker) \/ SyncCmdPost(Worker) \/ CvWait(Worker)
      <3>0. CASE CvWait(Worker)
        BY <1>2, <2>0, <3>0 DEF CvWait, threadVars
      <3>1. CASE ~CvWait(Worker) /\ pc'[Worker] \in SyncCmdLabels
        <4>1. /\ UNCHANGED <<cur, ret>> /\ pc[Worker] \in SyncCmdLabels
              /\ arg'[Worker] = arg[Worker]
          BY <1>0, <2>7, <3>1 DEF SyncCmdCheck, SyncCmdHw, SyncCmdPost, ReturnFromSync, Goto,
             SyncCmdLabels
        <4>2. Clear' => Launching /\ cur' = cur /\ Clear
          BY <3>1, <4>1 DEF Clear, Launching, SyncCmdLabels
        <4>3. ret' = "full" => \A i : InLog(i)' /\ Deactivatable(i) => i <= arg'[Worker]
          BY <2>0, <4>1 DEF Shape
        <4> QED BY <2>0, <4>2, <4>3, ShapeFrame
      <3>2. CASE ~CvWait(Worker) /\ pc'[Worker] \notin SyncCmdLabels
        <4>1. /\ UNCHANGED <<cur, ret>> /\ pc[Worker] \in SyncCmdLabels /\ pc'[Worker] = ret
              /\ \/ SyncCmdPost(Worker) /\ Unpreempted(Worker)
                 \/ SyncCmdCheck(Worker) /\ state[arg[Worker]] = Completed
          BY <1>0, <2>7, <3>2 DEF SyncCmdCheck, SyncCmdHw, SyncCmdPost, ReturnFromSync, Goto,
             SyncCmdLabels
        <4>2. ret # "done" => Launching
          BY <4>1 DEF Launching
        <4>3. \A i : InLog(i)' => i > arg[Worker]
          <5>1. CASE SyncCmdPost(Worker) /\ Unpreempted(Worker)
            BY <1>0, <5>1, CmdPops DEF Popping, SyncCmdPost
          <5>2. CASE SyncCmdCheck(Worker) /\ state[arg[Worker]] = Completed
            <6>1. arg[Worker] \in HwIdx
              BY <1>0, <4>1 DEF Synced
            <6>2. \A i : InLog(i) => arg[Worker] < i
              BY <5>2, <6>1, CompletedBefore
            <6> QED BY <1>0, <2>0, <6>1, <6>2, TypeFacts
          <5> QED BY <4>1, <5>1, <5>2
        <4>4. ret = "full" => \A i : InLog(i)' => ~Deactivatable(i)
          <5> SUFFICES ASSUME ret = "full", NEW i, InLog(i)', Deactivatable(i) PROVE FALSE
            OBVIOUS
          <5>1. i <= arg[Worker] /\ i > arg[Worker]
            BY <2>0, <4>1, <4>3 DEF Shape
          <5>2. i \in Nat /\ arg[Worker] \in Nat
            BY <1>0, <2>0, TypeFacts
          <5> QED BY <5>1, <5>2
        <4>5. ret = "tail" => Clear
          BY <4>1 DEF Clear
        <4>6. Clear' => Launching /\ cur' = cur /\ (Clear \/ \A i : InLog(i)' => ~Deactivatable(i))
          BY <1>0, <4>1, <4>2, <4>4, <4>5 DEF Clear, SyncCmdLabels
        <4> QED BY <2>0, <3>2, <4>6, ShapeFrame
      <3> QED BY <3>0, <3>1, <3>2
    <2> QED BY <1>5, <2>1, <2>2, <2>3, <2>4, <2>5, <2>6, <2>7 DEF WorkerStep
  <1> QED BY <1>1, <1>3, <1>4, <1>5, NextCases
-----------------------------------------------------------------------------
(***************************************************************************)
(* HwOrder: what is in the hardware queue is the end of the log, in order. *)
(* SyncDone: a synchronization that has finished, and that no pause has    *)
(* interrupted so far, has seen its commands leave the hardware queue.     *)
(***************************************************************************)
InHw(i) == \E p \in DOMAIN hwq : hwq[p] = i
Ran(i)  == \E p \in DOMAIN executed : executed[p] = i

HwOrder ==
  /\ Increasing(hwq)
  /\ \A i : InHw(i) => InLog(i)
  /\ \A i, j : InHw(i) /\ InLog(j) /\ i < j => InHw(j)

SyncDone ==
  /\ pc[Worker] = "allPost" /\ Unpreempted(Worker) => hwq = <<>>
  /\ \A t \in Threads : pc[t] = "cmdPost" /\ Unpreempted(t) => \A i : InHw(i) => arg[t] < i

LEMMA HwTaken ==
  ASSUME hwq \in Seq(Nat), Increasing(hwq), hwq # <<>>, hwq' = Tail(hwq)
  PROVE  /\ InHw(Head(hwq)) /\ Head(hwq) \in Nat /\ Increasing(hwq')
         /\ \A i : InHw(i)' => InHw(i) /\ Head(hwq) < i
         /\ \A i : InHw(i) => InHw(i)' \/ i = Head(hwq)
  <1>1. /\ Len(hwq) \in Nat /\ DOMAIN hwq = 1 .. Len(hwq) /\ Len(hwq) # 0
        /\ \A p \in DOMAIN hwq : hwq[p] \in Nat
    BY LenProperties, EmptySeq, ElementOfSeq
  <1>2. /\ Head(hwq) = hwq[1] /\ Len(hwq') = Len(hwq) - 1 /\ DOMAIN hwq' = 1 .. Len(hwq')
        /\ \A p \in 1 .. Len(hwq') : hwq'[p] = hwq[p + 1]
    BY <1>1, HeadTailProperties
  <1>3. /\ 1 \in DOMAIN hwq
        /\ \A p \in DOMAIN hwq' : p + 1 \in DOMAIN hwq /\ 1 < p + 1 /\ hwq'[p] = hwq[p + 1]
        /\ \A p \in DOMAIN hwq : p = 1 \/ (p - 1 \in DOMAIN hwq' /\ hwq'[p - 1] = hwq[p])
    BY <1>1, <1>2
  <1>4. Increasing(hwq')
    BY <1>1, <1>2, <1>3 DEF Increasing
  <1>5. ASSUME NEW i, InHw(i)' PROVE InHw(i) /\ hwq[1] < i
    <2>1. PICK p \in DOMAIN hwq' : hwq'[p] = i
      BY <1>5 DEF InHw
    <2>2. p + 1 \in DOMAIN hwq /\ hwq[p + 1] = i /\ 1 < p + 1
      BY <1>3, <2>1
    <2> QED BY <1>3, <2>2 DEF Increasing, InHw
  <1>6. ASSUME NEW i, InHw(i) PROVE InHw(i)' \/ i = hwq[1]
    <2>1. PICK p \in DOMAIN hwq : hwq[p] = i
      BY <1>6 DEF InHw
    <2>2. p = 1 \/ (p - 1 \in DOMAIN hwq' /\ hwq'[p - 1] = i)
      BY <1>3, <2>1
    <2> QED BY <2>1, <2>2 DEF InHw
  <1> QED BY <1>1, <1>2, <1>3, <1>4, <1>5, <1>6 DEF InHw

LEMMA HwAppended ==
  ASSUME hwq \in Seq(Nat), Increasing(hwq), NEW c \in Nat, hwq' = Append(hwq, c),
         \A i : InHw(i) => i < c
  PROVE  Increasing(hwq') /\ \A i : InHw(i)' <=> InHw(i) \/ i = c
  <1>1. /\ DOMAIN hwq' = DOMAIN hwq \cup {Len(hwq) + 1} /\ hwq'[Len(hwq) + 1] = c
        /\ Len(hwq) \in Nat /\ DOMAIN hwq = 1 .. Len(hwq)
        /\ \A p \in DOMAIN hwq : hwq'[p] = hwq[p] /\ p # Len(hwq) + 1
    BY LogAppended
  <1>2. ASSUME NEW p \in DOMAIN hwq', NEW q \in DOMAIN hwq', p < q PROVE hwq'[p] < hwq'[q]
    <2>1. p \in DOMAIN hwq
      BY <1>1, <1>2
    <2>2. CASE q \in DOMAIN hwq
      BY <1>1, <1>2, <2>1, <2>2 DEF Increasing
    <2>3. CASE q = Len(hwq) + 1
      BY <1>1, <2>1, <2>3 DEF InHw
    <2> QED BY <1>1, <2>2, <2>3
  <1> QED BY <1>1, <1>2 DEF Increasing, InHw

(* What Reactivate launches again: the end of the log, in its order.       *)
LEMMA Covered ==
  ASSUME NEW log \in Seq(Nat), Increasing(log), NEW i \in Nat,
         NEW s \in InLogOrder(log, FlushedPositions(log, i))
  PROVE  /\ s \in Seq(Nat) /\ Increasing(s)
         /\ \A j : (\E q \in DOMAIN s : s[q] = j) <=>
                   j >= i /\ \E p \in DOMAIN log : log[p] = j
  <1> DEFINE P == FlushedPositions(log, i)
  <1>1. PICK n \in 0 .. Len(log) : \E g \in [1 .. n -> P] :
          /\ s = [q \in DOMAIN g |-> log[g[q]]]
          /\ \A p \in P : \E q \in DOMAIN g : g[q] = p
          /\ \A q, r \in DOMAIN g : q < r => g[q] < g[r]
    BY DEF InLogOrder
  <1>2. PICK f \in [1 .. n -> P] :
          /\ s = [q \in DOMAIN f |-> log[f[q]]]
          /\ \A p \in P : \E q \in DOMAIN f : f[q] = p
          /\ \A q, r \in DOMAIN f : q < r => f[q] < f[r]
    BY <1>1
  <1>3. /\ DOMAIN s = DOMAIN f /\ \A q \in DOMAIN s : s[q] = log[f[q]] /\ f[q] \in P
        /\ \A p : p \in P <=> p \in DOMAIN log /\ log[p] >= i
    BY <1>2 DEF FlushedPositions
  <1>4. Increasing(s)
    BY <1>2, <1>3 DEF Increasing
  <1>5. s \in Seq(Nat)
    BY RelaunchType
  <1>6. ASSUME NEW j, j >= i, NEW p \in DOMAIN log, log[p] = j
        PROVE  \E q \in DOMAIN s : s[q] = j
    BY <1>2, <1>3, <1>6
  <1>7. ASSUME NEW q \in DOMAIN s
        PROVE  s[q] >= i /\ \E p \in DOMAIN log : log[p] = s[q]
    BY <1>3
  <1> QED BY <1>4, <1>5, <1>6, <1>7

LEMMA Relaunches ==
  ASSUME TypeInv, Order, NEW k \in Controllers, ReactivateRelaunch(k), hwq = <<>>
  PROVE  /\ Increasing(hwq') /\ \A j : InHw(j)' <=> InLog(j) /\ j >= arg[k]
         /\ UNCHANGED <<kind, state, cmd_log, executed, exit_flag, preempt_idx, worker_state>>
  <1>1. cmd_log \in Seq(Nat) /\ Increasing(cmd_log) /\ arg[k] \in Nat
    BY TypeFacts DEF TypeInv, TypeOK, WorkerTypeOK, Order, LogOrder
  <1>2. PICK s \in InLogOrder(cmd_log, FlushedPositions(cmd_log, arg[k])) : hwq' = hwq \o s
    BY DEF ReactivateRelaunch, HwLaunch
  <1>3. /\ s \in Seq(Nat) /\ Increasing(s)
        /\ \A j : (\E q \in DOMAIN s : s[q] = j) <=>
                  j >= arg[k] /\ \E p \in DOMAIN cmd_log : cmd_log[p] = j
    BY <1>1, <1>2, Covered
  <1>4. hwq' = s
    BY <1>2, <1>3
  <1> QED BY <1>3, <1>4 DEF InHw, InLog, ReactivateRelaunch, bufVars, logVars

LEMMA HwOrderStep ==
  ASSUME TypeInv, LaunchesHardware, Order, Placed, HwOrder, SyncDone, Moves, [Next]_vars,
         \A k \in Controllers : ReactivateRelaunch(k) => hwq = <<>>
  PROVE  HwOrder'
  <1>0. hwq \in Seq(Nat) /\ Worker \in Threads
    BY TypeFacts DEF TypeInv, TypeOK, HwTypeOK
  <1>1. CASE Launch
    <2>1. /\ hwq' = Append(hwq, cur.id) /\ cur.id \in Nat /\ Launching
          /\ \A i : InLog(i)' <=> InLog(i) \/ i = cur.id
      BY <1>1, Launches
    <2>2. \A i : InLog(i) => i < cur.id /\ i \in Nat
      BY <2>1, TypeFacts DEF InLog, Order, CurOrder
    <2>3. Increasing(hwq') /\ \A i : InHw(i)' <=> InHw(i) \/ i = cur.id
      BY <1>0, <2>1, <2>2, HwAppended DEF HwOrder
    <2>4. ASSUME NEW i, NEW j, InHw(i)', InLog(j)', i < j PROVE InHw(j)'
      <3>1. CASE i = cur.id
        BY <2>1, <2>2, <2>4, <3>1
      <3>2. CASE i # cur.id
        BY <2>1, <2>3, <2>4, <3>2 DEF HwOrder
      <3> QED BY <3>1, <3>2
    <2> QED BY <2>1, <2>3, <2>4 DEF HwOrder
  <1>2. CASE HwStep
    <2>1. cmd_log' = cmd_log /\ hwq # <<>> /\ hwq' = Tail(hwq)
      BY <1>2 DEF HwStep, HwExecute, HwFlush, workerVars
    <2>2. \A i : InLog(i)' <=> InLog(i)
      BY <2>1 DEF InLog
    <2>3. /\ InHw(Head(hwq)) /\ Head(hwq) \in Nat /\ Increasing(hwq')
          /\ \A i : InHw(i)' => InHw(i) /\ Head(hwq) < i
          /\ \A i : InHw(i) => InHw(i)' \/ i = Head(hwq)
      BY <1>0, <2>1, HwTaken DEF HwOrder
    <2>4. \A i : InLog(i) => i \in Nat
      BY TypeFacts DEF InLog
    <2>5. ASSUME NEW i, NEW j, InHw(i)', InLog(j), i < j PROVE InHw(j)'
      BY <2>3, <2>4, <2>5 DEF HwOrder
    <2> QED BY <2>2, <2>3, <2>5 DEF HwOrder
  <1>3. ASSUME NEW k \in Controllers, ReactivateRelaunch(k) PROVE HwOrder'
    <2>1. /\ Increasing(hwq') /\ \A j : InHw(j)' <=> InLog(j) /\ j >= arg[k]
          /\ cmd_log' = cmd_log
      BY <1>3, Relaunches
    <2>2. \A i : (InLog(i)' <=> InLog(i)) /\ (InLog(i) => i \in Nat)
      BY <2>1, TypeFacts DEF InLog
    <2>3. arg[k] \in Nat
      BY TypeFacts
    <2> QED BY <2>1, <2>2, <2>3 DEF HwOrder
  <1>4. CASE /\ ~Launch /\ ~HwStep
             /\ \A k \in Controllers : ~ReactivateRelaunch(k)
    <2>1. hwq' = hwq
      <3>1. CASE \E k \in Controllers : SuspendDeactivate(k) \/ ReactivateClear(k)
        BY <3>1 DEF SuspendDeactivate, ReactivateClear
      <3>2. CASE ~\E k \in Controllers : SuspendDeactivate(k) \/ ReactivateClear(k)
        BY <1>4, <3>2, HwKept DEF ChangesHw, hwVars
      <3> QED BY <3>1, <3>2
    <2>2. \A i : InHw(i)' <=> InHw(i)
      BY <2>1 DEF InHw
    <2>3. \A i : InLog(i)' => InLog(i)
      BY <1>4, Shrinks
    <2>4. ASSUME NEW i, InHw(i) PROVE InLog(i)'
      <3>1. InLog(i) /\ i \in HwIdx
        BY <2>4 DEF HwOrder, Placed
      <3>2. CASE cmd_log' = cmd_log
        BY <3>1, <3>2 DEF InLog
      <3>3. ASSUME NEW t \in Apps, SubmitDraw(t) \/ SubmitEnqueue(t) PROVE cmd_log' = cmd_log
        BY <3>3 DEF SubmitDraw, SubmitEnqueue, logVars
      <3>4. ASSUME NEW t \in Threads, Popping(t) PROVE InLog(i)'
        <4>1. CASE pc[t] = "allPost"
          <5>1. hwq = <<>>
            BY <3>4, <4>1 DEF Popping, SyncDone
          <5> QED BY <2>4, <5>1 DEF InHw
        <4>2. CASE pc[t] = "cmdPost"
          <5>1. arg[t] < i /\ arg[t] \in Nat /\ i \in Nat
            BY <2>4, <3>1, <3>4, <4>2, TypeFacts DEF Popping, SyncDone
          <5>2. ~(i <= arg[t])
            BY <5>1
          <5> QED BY <3>1, <3>4, <4>2, <5>2 DEF Popping
        <4> QED BY <3>4, <4>1, <4>2 DEF Popping
      <3> QED BY <1>4, <3>2, <3>3, <3>4 DEF Moves
    <2> QED BY <2>1, <2>2, <2>3, <2>4 DEF HwOrder
  <1> QED BY <1>1, <1>2, <1>3, <1>4

(* How a thread comes to the end of a synchronization.                     *)
LEMMA PostBegins ==
  ASSUME TypeInv, [Next]_vars, NEW t \in Threads,
         pc'[t] = "cmdPost" \/ (t = Worker /\ pc'[t] = "allPost")
  PROVE  \/ pc'[t] = pc[t] /\ arg'[t] = arg[t] /\ seen_count'[t] = seen_count[t]
         \/ SyncCmdHw(t) /\ arg' = arg
         \/ t = Worker /\ SyncAllHw /\ pc'[t] = "allPost"
  <1>0. /\ pc \in [Threads -> Labels] /\ ret \in {"full", "tail", "done"} /\ Worker \in Threads
        /\ Apps \subseteq Threads /\ Controllers \subseteq Threads
        /\ Worker \notin Apps
    BY TypeFacts, ThreadsAssumption DEF TypeInv, TypeOK, WorkerTypeOK
  <1>1. ASSUME NEW u \in Threads, u # t, Local(u)
        PROVE  pc'[t] = pc[t] /\ arg'[t] = arg[t] /\ seen_count'[t] = seen_count[t]
    BY <1>1 DEF Local
  <1>2. CASE WorkerStep
    <2>1. CASE t # Worker
      BY <1>0, <1>1, <1>2, <2>1, WorkerLocal
    <2>2. CASE t = Worker /\ (WorkerTake \/ WorkerIdle \/ LaunchDropped \/ Launch \/ WorkerDone)
      BY <1>0, <2>2 DEF WorkerTake, Dispatch, WorkerIdle, LaunchDropped, Launch, WorkerDone, Goto
    <2>3. CASE t = Worker /\ (LaunchBegin \/ LaunchFull \/ AwaitRunning \/ WorkerBatch)
      BY <1>0, <2>3 DEF LaunchBegin, LaunchFull, AwaitRunning, WorkerBatch, BeginSyncCmd,
         BeginSyncAll, Goto
    <2>4. CASE t = Worker /\ (SyncAllCheck \/ SyncAllPost \/ SyncCmdCheck(t) \/ SyncCmdPost(t))
      BY <1>0, <2>4 DEF SyncAllCheck, SyncAllPost, SyncCmdCheck, SyncCmdPost, ReturnFromSync, Goto
    <2>5. CASE t = Worker /\ (SyncAllHw \/ SyncCmdHw(t) \/ CvWait(t))
      BY <1>0, <2>5 DEF SyncAllHw, SyncCmdHw, CvWait, threadVars, Goto
    <2> QED BY <1>2, <2>1, <2>2, <2>3, <2>4, <2>5 DEF WorkerStep
  <1>3. CASE HwStep \/ UNCHANGED vars
    BY <1>3 DEF HwStep, vars, workerVars
  <1>4. ASSUME NEW u \in Apps, AppCall(u) \/ AppProgress(u)
        PROVE  \/ pc'[t] = pc[t] /\ arg'[t] = arg[t] /\ seen_count'[t] = seen_count[t]
               \/ SyncCmdHw(t) /\ arg' = arg
    <2>1. CASE t # u
      BY <1>0, <1>1, <1>4, <2>1, AppLocal
    <2>2. CASE t = u /\ (AppCall(t) \/ SubmitEnqueue(t) \/ CmdReached(t))
      BY <1>0, <2>2 DEF AppCall, SubmitDraw, WaitCmd, CallWaitAll, SubmitWaitAll, SubmitEnqueue,
         CmdReached, Return, Goto, workerVars
    <2>3. CASE t = u /\ (SyncCmdCheck(t) \/ SyncCmdHw(t) \/ SyncCmdPost(t) \/ CvWait(t))
      BY <1>0, <2>3 DEF SyncCmdCheck, SyncCmdHw, SyncCmdPost, CvWait, ReturnFromSync, Goto,
         threadVars
    <2> QED BY <1>4, <2>1, <2>2, <2>3 DEF AppProgress
  <1>5. ASSUME NEW k \in Controllers, ControlCall(k) \/ ControlProgress(k)
        PROVE  pc'[t] = pc[t] /\ arg'[t] = arg[t] /\ seen_count'[t] = seen_count[t]
    <2>1. t # k
      BY <1>0, <1>5, ControlApart, ThreadsAssumption DEF SyncCmdLabels
    <2> QED BY <1>0, <1>1, <1>5, <2>1, ControlLocal
  <1> QED BY <1>2, <1>3, <1>4, <1>5, NextCases DEF Others

LEMMA UnpreemptedBefore ==
  ASSUME TypeInv, Seen, [Next]_vars, NEW t \in Threads, Unpreempted(t)',
         seen_count'[t] = seen_count[t]
  PROVE  Unpreempted(t)
  <1>0. seen_count[t] \in Nat /\ pause_count \in Nat /\ seen_count[t] <= pause_count
    BY DEF Seen, TypeInv, TypeOK, WorkerTypeOK
  <1>1. \A k \in Controllers : ~SuspendPause(k)
    BY <1>0 DEF SuspendPause, Pause, Unpreempted
  <1> QED BY <1>1, PauseKept DEF Unpreempted

LEMMA SyncDoneStep ==
  ASSUME TypeInv, LaunchesHardware, Order, Placed, Kept, InTurn, Synced, Seen, HwOrder, SyncDone,
         Moves, [Next]_vars,
         \A k \in Controllers : ReactivateRelaunch(k) => worker_state = "Paused" /\ hwq = <<>>
  PROVE  SyncDone'
  <1>0. /\ hwq \in Seq(Nat) /\ Worker \in Threads /\ pc \in [Threads -> Labels]
        /\ \A i : InHw(i) => i \in Nat /\ i \in HwIdx /\ state[i] = InFlight
        /\ InFlight # Completed
    BY TypeFacts DEF TypeInv, TypeOK, HwTypeOK, HwOrder, Placed, InFlight, Completed
  (* What is new in the hardware queue.                                    *)
  <1>1. ASSUME \A k \in Controllers : ~ReactivateRelaunch(k)
        PROVE  /\ \A i : InHw(i)' => InHw(i) \/ (Launch /\ i = cur.id)
               /\ ~Launch /\ hwq = <<>> => hwq' = <<>>
    <2>1. CASE Launch
      <3>1. /\ hwq' = Append(hwq, cur.id) /\ cur.id \in Nat /\ Launching
        BY <2>1, Launches
      <3>2. \A i : InHw(i) => i < cur.id
        BY <1>0, <3>1, LaunchedBefore DEF HwOrder
      <3> QED BY <1>0, <2>1, <3>1, <3>2, HwAppended DEF HwOrder
    <2>2. CASE HwStep
      <3>1. hwq # <<>> /\ hwq' = Tail(hwq)
        BY <2>2 DEF HwStep, HwExecute, HwFlush
      <3> QED BY <1>0, <3>1, HwTaken DEF HwOrder
    <2>3. CASE ~Launch /\ ~HwStep
      <3>1. hwq' = hwq
        <4>1. CASE \E k \in Controllers : SuspendDeactivate(k) \/ ReactivateClear(k)
          BY <4>1 DEF SuspendDeactivate, ReactivateClear
        <4>2. CASE ~\E k \in Controllers : SuspendDeactivate(k) \/ ReactivateClear(k)
          BY <1>1, <2>3, <4>2, HwKept DEF ChangesHw, hwVars
        <4> QED BY <4>1, <4>2
      <3> QED BY <3>1 DEF InHw
    <2> QED BY <2>1, <2>2, <2>3
  <1>2. ASSUME pc'[Worker] = "allPost", Unpreempted(Worker)'
        PROVE  hwq' = <<>>
    <2>1. CASE pc[Worker] = "allPost" /\ seen_count'[Worker] = seen_count[Worker]
      <3>1. Unpreempted(Worker) /\ hwq = <<>> /\ worker_state # "Paused"
        BY <1>0, <1>2, <2>1, UnpreemptedBefore DEF SyncDone, Seen, Unlocked
      <3>2. ~Launch
        BY <2>1 DEF Launch
      <3> QED BY <1>1, <3>1, <3>2
    <2>2. CASE SyncAllHw
      BY <2>2 DEF SyncAllHw, HwSynchronized, hwVars
    <2>3. ~SyncCmdHw(Worker)
      BY <1>0, <1>2 DEF SyncCmdHw, Goto
    <2> QED BY <1>0, <1>2, <2>1, <2>2, <2>3, PostBegins
  <1>3. ASSUME NEW t \in Threads, pc'[t] = "cmdPost", Unpreempted(t)', NEW i, InHw(i)'
        PROVE  arg'[t] < i
    <2>1. CASE /\ pc[t] = "cmdPost" /\ arg'[t] = arg[t] /\ seen_count'[t] = seen_count[t]
      <3>1. Unpreempted(t) /\ worker_state # "Paused"
        BY <1>3, <2>1, UnpreemptedBefore DEF Seen, Unlocked
      <3>2. InHw(i) \/ (Launch /\ i = cur.id)
        BY <1>1, <1>3, <3>1
      <3>3. CASE InHw(i)
        BY <2>1, <3>1, <3>3 DEF SyncDone
      <3>4. CASE Launch /\ i = cur.id
        <4>1. arg[t] \in HwIdx /\ state[arg[t]] \in {InFlight, Completed}
          BY <2>1 DEF Synced, SyncCmdLabels
        <4>2. InLog(arg[t]) \/ state[arg[t]] = Completed
          BY <4>1, InFlightInLog
        <4>3. Launching
          BY <3>4 DEF Launch, Launching
        <4> QED BY <2>1, <3>4, <4>1, <4>2, <4>3, LaunchedBefore
      <3> QED BY <3>2, <3>3, <3>4
    <2>2. CASE SyncCmdHw(t) /\ arg' = arg
      <3>1. hwq' = hwq /\ ~InHw(arg[t]) /\ pc[t] = "cmdSync" /\ InHw(i)
        BY <1>3, <2>2 DEF SyncCmdHw, CmdSynchronized, hwVars, InHw, ToSet
      <3>2. arg[t] \in HwIdx /\ state[arg[t]] \in {InFlight, Completed}
        BY <3>1 DEF Synced, SyncCmdLabels
      <3>3. CASE state[arg[t]] = Completed
        BY <1>0, <2>2, <3>1, <3>2, <3>3, CompletedBefore DEF HwOrder
      <3>4. CASE state[arg[t]] = InFlight
        <4>1. InLog(arg[t])
          BY <3>2, <3>4, InFlightInLog
        <4>2. ~(i < arg[t]) /\ i # arg[t]
          BY <3>1, <4>1 DEF HwOrder
        <4>3. i \in Nat /\ arg[t] \in Nat
          BY <1>0, <3>1, TypeFacts
        <4> QED BY <2>2, <4>2, <4>3
      <3> QED BY <3>2, <3>3, <3>4
    <2> QED BY <1>3, <2>1, <2>2, PostBegins
  <1> QED BY <1>2, <1>3 DEF SyncDone
-----------------------------------------------------------------------------
(***************************************************************************)
(* First(k) is the first command flushed since the last Deactivate, as the *)
(* preempt buffer holds it and Reactivate reads it; nothing that counts    *)
(* has run after it.  Every command that was launched is accounted for: it *)
(* is in the hardware queue, or has run, or is to be launched again.       *)
(***************************************************************************)
First(k) ==
  IF preempt_idx # 0 THEN preempt_idx
  ELSE IF pc[k] \in {"reClear", "relaunch"} THEN arg[k] ELSE 0

Flushed(k, i) == First(k) # 0 /\ First(k) <= i /\ Deactivatable(i)

Preempting(k) ==
  /\ exit_flag => /\ Level = 2 /\ worker_state = "Paused"
                  /\ pc[k] \in {"idle", "syncHw", "reSync", "reRead", "reClear"}
  /\ preempt_idx # 0 => exit_flag
  /\ pc[k] \in {"reRead", "reClear", "relaunch"} => hwq = <<>>
  /\ pc[k] = "reClear" => arg[k] = preempt_idx
  /\ pc[k] = "relaunch" => arg[k] # 0

Accounted(k) ==
  /\ First(k) # 0 =>
       /\ InLog(First(k)) /\ Deactivatable(First(k))
       /\ \A i : Ran(i) /\ ~Idempotent(i) => i < First(k)
       /\ \A i : InHw(i) => First(k) < i
  /\ \A i \in HwIdx : state[i] = Completed => Ran(i)
  /\ \A i : InLog(i) => InHw(i) \/ Ran(i) \/ Flushed(k, i)
  /\ \A i : Ran(i) => i \in HwIdx /\ (InLog(i) \/ state[i] = Completed)
  /\ \A i, j : Ran(i) /\ ~Idempotent(i) /\ InHw(j) => i < j
  /\ RunsInOrder

SteadyInv(k) ==
  /\ FrozenInv /\ Kept /\ Placed /\ Matches(k) /\ NotEnding(k) /\ NoDrops(k)
  /\ InTurn /\ Synced /\ SyncDone /\ HwOrder
  /\ Level = 2 => Shape
  /\ Preempting(k) /\ Accounted(k)

(* Nothing is flushed but by a queue whose worker is paused, and then the  *)
(* worker launches nothing.                                                *)
LEMMA PausedWhenFlushed ==
  ASSUME NEW k \in Controllers, SteadyInv(k), Steady(k)
  PROVE  /\ First(k) # 0 \/ exit_flag \/ pc[k] \in {"reRead", "reClear", "relaunch"} =>
              worker_state = "Paused" /\ Level = 2
         /\ Launch => Level = 1 \/ worker_state # "Paused"
  <1>0. Level \in 1 .. 2
    BY LevelAssumption
  <1>1. pc[k] \in {"reRead", "reClear", "relaunch"} => worker_state = "Paused" /\ Level = 2
    BY <1>0 DEF SteadyInv, Matches, Resuming, NoDrops
  <1>2. Launch => Level = 1 \/ worker_state # "Paused"
    <2>1. Launch => Launching
      BY DEF Launch, Launching
    <2>2. Launching => drop_idx = -1
      BY NothingToDrop DEF SteadyInv, FrozenInv
    <2> QED BY <2>1, <2>2 DEF Launch, SteadyInv, FrozenInv, Held, Alone, Steady
  <1> QED BY <1>1, <1>2 DEF SteadyInv, Preempting, First

(* Everything but the controller leaves its steps alone, and a paused      *)
(* worker paused.                                                          *)
LEMMA ControlFrame ==
  ASSUME NEW k \in Controllers, SteadyInv(k), Steady(k), [Next]_vars,
         ~ControlCall(k), ~ControlProgress(k)
  PROVE  /\ pc'[k] = pc[k] /\ arg'[k] = arg[k] /\ exit_flag' = exit_flag
         /\ exit_flag => worker_state' = worker_state
         /\ HwStep \/ preempt_idx' = preempt_idx
         /\ Launch \/ HwStep \/ UNCHANGED hwVars
  <1>0. /\ TypeInv /\ Controllers = {k}
    BY DEF SteadyInv, FrozenInv, Steady, OneController
  <1>1. pc'[k] = pc[k] /\ arg'[k] = arg[k]
    BY <1>0, ControlKept
  <1>2. CASE ChangesHw
    <2>1. Launch \/ HwStep
      BY <1>0, <1>2 DEF ChangesHw, ControlProgress
    <2>2. /\ exit_flag' = exit_flag
          /\ HwStep \/ preempt_idx' = preempt_idx
      BY <2>1 DEF Launch, HwStep, HwExecute, HwFlush
    <2>3. worker_state' = worker_state
      BY <2>1 DEF Launch, HwStep, workerVars
    <2> QED BY <1>1, <2>1, <2>2, <2>3
  <1>3. CASE ~ChangesHw
    <2>1. UNCHANGED hwVars
      BY <1>3, HwKept
    <2>2. exit_flag => worker_state' = worker_state
      <3>1. CASE WorkerDone
        <4>1. exit_flag => pc[k] \notin Ending
          BY DEF SteadyInv, Preempting, Ending
        <4> QED BY <3>1, <4>1 DEF WorkerDone, SteadyInv, NotEnding
      <3>2. CASE ~WorkerDone
        BY <1>0, <3>2, StateKept
      <3> QED BY <3>1, <3>2
    <2> QED BY <1>1, <2>1, <2>2 DEF hwVars
  <1> QED BY <1>2, <1>3

LEMMA PreemptingStep ==
  ASSUME NEW k \in Controllers, SteadyInv(k), Steady(k), [Next]_vars
  PROVE  Preempting(k)'
  <1>0. /\ TypeInv /\ Preempting(k) /\ Matches(k) /\ NoDrops(k)
        /\ pc \in [Threads -> Labels] /\ k \in Threads /\ arg \in [Threads -> Nat]
        /\ Level \in 1 .. 2
    BY TypeFacts, LevelAssumption DEF SteadyInv, FrozenInv, TypeInv, TypeOK, WorkerTypeOK
  <1>1. CASE ~ControlCall(k) /\ ~ControlProgress(k)
    <2>1. /\ pc'[k] = pc[k] /\ arg'[k] = arg[k] /\ exit_flag' = exit_flag
          /\ exit_flag => worker_state' = worker_state
          /\ HwStep \/ preempt_idx' = preempt_idx
          /\ Launch \/ HwStep \/ UNCHANGED hwVars
      BY <1>1, ControlFrame
    <2>2. HwStep => hwq # <<>> /\ (preempt_idx' = preempt_idx \/ exit_flag)
      BY DEF HwStep, HwExecute, HwFlush
    <2>3. pc[k] \in {"reRead", "reClear", "relaunch"} => UNCHANGED hwVars
      BY <1>0, <2>1, <2>2, PausedWhenFlushed DEF Preempting
    <2> QED BY <1>0, <2>1, <2>2, <2>3 DEF Preempting, hwVars
  <1>2. CASE ControlCall(k)
    <2>1. pc[k] = "idle" /\ ~terminated /\ UNCHANGED hwVars /\ worker_state' = worker_state
      BY <1>2 DEF ControlCall, Suspend, ResumeBegin, DestructBegin
    <2>2. \E l : /\ pc' = [pc EXCEPT ![k] = l]
                 /\ l \in {"pause", "resume", "reSync", "enqDestroy"}
                 /\ l = "resume" => Level = 1
                 /\ l \in {"pause", "enqDestroy"} => ~suspended
      BY <1>2 DEF ControlCall, Suspend, ResumeBegin, DestructBegin, DestructResume, BeginResume,
         Goto
    <2>3. ~suspended => ~exit_flag
      BY <1>0, <2>1 DEF Matches, Preempting
    <2> QED BY <1>0, <2>1, <2>2, <2>3 DEF Preempting, hwVars
  <1>3. CASE SuspendPause(k) \/ SuspendSyncHw(k)
    BY <1>0, <1>3 DEF SuspendPause, SuspendSyncHw, Pause, Goto, Preempting, hwVars
  <1>4. CASE SuspendDeactivate(k)
    BY <1>0, <1>4 DEF SuspendDeactivate, Goto, Preempting, Matches, NoDrops
  <1>5. CASE ReactivateSync(k) \/ ReactivateRead(k)
    BY <1>0, <1>5 DEF ReactivateSync, ReactivateRead, HwSynchronized, Goto, Preempting, hwVars
  <1>6. CASE ReactivateClear(k) \/ ReactivateRelaunch(k)
    BY <1>0, <1>6 DEF ReactivateClear, ReactivateRelaunch, Goto, Preempting
  <1>7. CASE ResumeWorker(k) \/ ResumeDropAll(k) \/ ResumeDropIdx(k) \/ ResumeDrop(k)
    BY <1>0, <1>7 DEF ResumeWorker, ResumeDropAll, ResumeDropIdx, ResumeDrop, EndResume, Goto,
       Preempting, hwVars
  <1>8. CASE DestructEnqueue(k) \/ DestructWait(k)
    BY <1>0, <1>8 DEF DestructEnqueue, DestructWait, Goto, Preempting, hwVars
  <1> QED BY <1>1, <1>2, <1>3, <1>4, <1>5, <1>6, <1>7, <1>8 DEF ControlProgress

(* Only a flush and a Relaunch change what is to be launched again.        *)
LEMMA FirstKept ==
  ASSUME NEW k \in Controllers, SteadyInv(k), Steady(k), [Next]_vars, ~HwStep,
         ~ReactivateRelaunch(k)
  PROVE  First(k)' = First(k)
  <1>0. /\ TypeInv /\ Preempting(k) /\ NoDrops(k) /\ Accounted(k)
        /\ pc \in [Threads -> Labels] /\ k \in Threads /\ arg \in [Threads -> Nat]
    BY TypeFacts DEF SteadyInv, FrozenInv, TypeInv, TypeOK, WorkerTypeOK
  <1>1. CASE ~ControlCall(k) /\ ~ControlProgress(k)
    BY <1>1, ControlFrame DEF First
  <1>2. CASE ControlCall(k) \/ SuspendPause(k) \/ SuspendSyncHw(k)
    <2>1. /\ UNCHANGED preempt_idx
          /\ pc[k] \in {"idle", "pause", "syncHw"}
          /\ pc'[k] \notin {"reClear", "relaunch"}
      BY <1>0, <1>2 DEF ControlCall, Suspend, ResumeBegin, DestructBegin, DestructResume,
         BeginResume, SuspendPause, SuspendSyncHw, Goto, hwVars
    <2> QED BY <2>1 DEF First
  <1>3. CASE SuspendDeactivate(k) \/ ReactivateSync(k)
    BY <1>0, <1>3 DEF SuspendDeactivate, ReactivateSync, Goto, First, hwVars
  <1>4. CASE ReactivateRead(k)
    BY <1>0, <1>4 DEF ReactivateRead, Goto, First, hwVars
  <1>5. CASE ReactivateClear(k)
    <2>1. First(k) = arg[k] /\ preempt_idx' = 0 /\ arg' = arg
      BY <1>0, <1>5 DEF ReactivateClear, Preempting, First
    <2>2. CASE flag[k] = "drop"
      <3>1. cmd_log = <<>>
        BY <1>5, <2>2, NothingToDrop DEF SteadyInv, FrozenInv, NoDrops, ReactivateClear
      <3>2. First(k) = 0
        BY <1>0, <3>1 DEF Accounted, InLog
      <3> QED BY <1>0, <1>5, <2>1, <2>2, <3>2 DEF ReactivateClear, Goto, First
    <2>3. CASE flag[k] # "drop"
      BY <1>0, <1>5, <2>1, <2>3 DEF ReactivateClear, Goto, First
    <2> QED BY <2>2, <2>3
  <1>6. CASE ResumeWorker(k) \/ ResumeDropAll(k) \/ ResumeDropIdx(k) \/ ResumeDrop(k)
    BY <1>0, <1>6 DEF ResumeWorker, ResumeDropAll, ResumeDropIdx, ResumeDrop, EndResume, Goto,
       First, hwVars
  <1>7. CASE DestructEnqueue(k) \/ DestructWait(k)
    BY <1>0, <1>7 DEF DestructEnqueue, DestructWait, Goto, First, hwVars
  <1> QED BY <1>1, <1>2, <1>3, <1>4, <1>5, <1>6, <1>7 DEF ControlProgress

(* What becomes completed, and what leaves the log, when no drop does it.  *)
LEMMA Settling ==
  ASSUME NEW k \in Controllers, SteadyInv(k), Moves, ~Launch, HwOrder', hwq' = hwq
  PROVE  /\ \A i \in HwIdx' : state'[i] = Completed =>
              /\ i \in HwIdx
              /\ state[i] = Completed \/ (InLog(i) /\ ~InHw(i) /\ worker_state # "Paused")
         /\ \A i \in HwIdx : InLog(i) =>
              InLog(i)' \/ (state'[i] = Completed /\ worker_state # "Paused")
         /\ \A i : InHw(i)' <=> InHw(i)
  <1>0. /\ TypeInv /\ Placed /\ Seen /\ Apps \subseteq Threads
        /\ Created # Completed /\ Pending # Completed
    BY TypeFacts DEF SteadyInv, FrozenInv, Created, Pending, Completed
  <1>1. \A i : InHw(i)' <=> InHw(i)
    BY DEF InHw
  <1>2. CASE UNCHANGED <<kind, state, cmd_log>>
    BY <1>1, <1>2 DEF HwIdx, InLog
  <1>3. ASSUME NEW t \in Apps, SubmitDraw(t)
        PROVE  /\ \A i \in HwIdx' : state'[i] = Completed => i \in HwIdx /\ state[i] = Completed
               /\ cmd_log' = cmd_log
    BY <1>0, <1>3, Drawn
  <1>4. ASSUME NEW t \in Apps, SubmitEnqueue(t)
        PROVE  /\ \A i \in HwIdx' : state'[i] = Completed => i \in HwIdx /\ state[i] = Completed
               /\ cmd_log' = cmd_log
    BY <1>0, <1>4, Enqueues DEF HwIdx
  <1>5. ASSUME NEW t \in Threads, Popping(t)
        PROVE  /\ HwIdx' = HwIdx
               /\ \A i \in HwIdx :
                    \/ state'[i] = state[i] /\ (InLog(i) => InLog(i)')
                    \/ InLog(i) /\ ~InHw(i) /\ state'[i] = Completed /\ worker_state # "Paused"
    <2>1. worker_state # "Paused"
      BY <1>0, <1>5 DEF Popping, Seen, Unlocked
    <2>2. \A i : InHw(i) => InLog(i)'
      BY <1>1 DEF HwOrder
    <2> QED BY <1>5, <2>1, <2>2 DEF Popping, HwIdx
  <1>6. cmd_log' = cmd_log => \A i : InLog(i)' <=> InLog(i)
    BY DEF InLog
  <1> QED BY <1>1, <1>2, <1>3, <1>4, <1>5, <1>6 DEF Moves

(* A step that leaves the hardware queue alone.                            *)
LEMMA AccountedQuiet ==
  ASSUME NEW k \in Controllers, SteadyInv(k), Steady(k), Moves, ~Launch, HwOrder',
         hwq' = hwq, executed' = executed, First(k)' = First(k)
  PROVE  Accounted(k)'
  <1>0. /\ TypeInv /\ LaunchesHardware /\ Placed /\ Accounted(k)
        /\ \A i : InLog(i) => i \in HwIdx
    BY DEF SteadyInv, FrozenInv, Placed
  <1>1. /\ \A i \in HwIdx' : state'[i] = Completed =>
             /\ i \in HwIdx
             /\ state[i] = Completed \/ (InLog(i) /\ ~InHw(i) /\ worker_state # "Paused")
        /\ \A i \in HwIdx : InLog(i) =>
             InLog(i)' \/ (state'[i] = Completed /\ worker_state # "Paused")
        /\ \A i : InHw(i)' <=> InHw(i)
    BY Settling
  <1>2. /\ \A i \in HwIdx : i \in HwIdx' /\ (state[i] = Completed => state'[i] = Completed)
        /\ \A i \in HwIdx : (Deactivatable(i)' <=> Deactivatable(i))
                            /\ (Idempotent(i)' <=> Idempotent(i))
    BY <1>0, Grows, SameKind
  <1>3. \A i : InLog(i)' => InLog(i)
    BY Shrinks
  <1>4. \A i : Ran(i)' <=> Ran(i)
    BY DEF Ran
  <1>5. First(k) # 0 => worker_state = "Paused"
    BY PausedWhenFlushed
  <1>6. \A i \in HwIdx : Flushed(k, i)' <=> Flushed(k, i)
    BY <1>2 DEF Flushed
  <1>7. ASSUME First(k)' # 0
        PROVE  /\ InLog(First(k))' /\ Deactivatable(First(k))'
               /\ \A i : Ran(i)' /\ ~Idempotent(i)' => i < First(k)'
               /\ \A i : InHw(i)' => First(k)' < i
    <2> DEFINE f == First(k)
    <2>1. /\ f # 0 /\ worker_state = "Paused" /\ InLog(f) /\ f \in HwIdx /\ Deactivatable(f)
          /\ \A i : Ran(i) /\ ~Idempotent(i) => i < f
          /\ \A i : InHw(i) => f < i
      BY <1>0, <1>5, <1>7 DEF Accounted
    <2> HIDE DEF f
    <2>2. \E p \in DOMAIN cmd_log' : cmd_log'[p] = f
      BY <1>1, <2>1 DEF InLog
    <2>3. kind'[f] = "kernel"
      BY <1>2, <2>1 DEF Deactivatable
    <2>4. \A i : Ran(i)' /\ ~Idempotent(i)' => i < f
      BY <1>0, <1>2, <1>4, <2>1 DEF Accounted
    <2>5. \A i : InHw(i)' => f < i
      BY <1>1, <2>1
    <2>6. First(k)' = f
      BY DEF f
    <2> QED BY <2>2, <2>3, <2>4, <2>5, <2>6 DEF InLog, Deactivatable
  <1>8. ASSUME NEW i \in HwIdx', state'[i] = Completed PROVE Ran(i)'
    <2>1. CASE state[i] = Completed
      BY <1>0, <1>1, <1>4, <1>8, <2>1 DEF Accounted
    <2>2. CASE InLog(i) /\ ~InHw(i) /\ worker_state # "Paused"
      BY <1>0, <1>4, <1>5, <2>2 DEF Accounted, Flushed
    <2> QED BY <1>1, <1>8, <2>1, <2>2
  <1>9. \A i : InLog(i)' => InHw(i)' \/ Ran(i)' \/ Flushed(k, i)'
    BY <1>0, <1>1, <1>3, <1>4, <1>6 DEF Accounted
  <1>10. \A i : Ran(i)' => i \in HwIdx' /\ (InLog(i)' \/ state'[i] = Completed)
    BY <1>0, <1>1, <1>2, <1>4 DEF Accounted
  <1>11. \A i, j : Ran(i)' /\ ~Idempotent(i)' /\ InHw(j)' => i < j
    BY <1>0, <1>1, <1>2, <1>4 DEF Accounted
  <1>12. RunsInOrder'
    <2>1. \A p \in DOMAIN executed : executed[p] \in HwIdx
      BY <1>0 DEF Accounted, Ran
    <2> QED BY <1>0, <1>2, <2>1 DEF Accounted, RunsInOrder, Idempotent
  <1> QED BY <1>7, <1>8, <1>9, <1>10, <1>11, <1>12 DEF Accounted

(* What the worker launches comes after everything that has run.           *)
LEMMA AccountedLaunch ==
  ASSUME NEW k \in Controllers, SteadyInv(k), Launch, First(k)' = First(k)
  PROVE  Accounted(k)'
  <1>0. /\ TypeInv /\ LaunchesHardware /\ Order /\ Placed /\ Kept /\ InTurn /\ HwOrder
        /\ Accounted(k) /\ hwq \in Seq(Nat)
        /\ \A i : InLog(i) => i \in HwIdx
        /\ InFlight # Completed
    BY DEF SteadyInv, FrozenInv, Placed, TypeInv, TypeOK, HwTypeOK, InFlight, Completed
  <1>1. /\ UNCHANGED <<kind, executed>> /\ Launching
        /\ cur.id \in HwIdx /\ state[cur.id] = Pending /\ cur.id \in Nat
        /\ \A i \in HwIdx : state'[i] = IF i = cur.id THEN InFlight ELSE state[i]
        /\ \A i : InLog(i)' <=> InLog(i) \/ i = cur.id
        /\ hwq' = Append(hwq, cur.id)
    BY <1>0, Launches
  <1>2. HwIdx' = HwIdx /\ Pending # Completed
    BY <1>1 DEF HwIdx, Pending, Completed
  <1>3. \A i : InLog(i) \/ Ran(i) => i < cur.id
    BY <1>0, <1>1, LaunchedBefore DEF Accounted
  <1>4. \A i : InHw(i)' <=> InHw(i) \/ i = cur.id
    BY <1>0, <1>1, <1>3, HwAppended DEF HwOrder
  <1>5. /\ \A i : Ran(i)' <=> Ran(i)
        /\ \A i : (Deactivatable(i)' <=> Deactivatable(i)) /\ (Idempotent(i)' <=> Idempotent(i))
        /\ RunsInOrder'
    BY <1>0, <1>1 DEF Ran, Deactivatable, Idempotent, Accounted, RunsInOrder
  <1>6. \A i : Flushed(k, i)' <=> Flushed(k, i)
    BY <1>5 DEF Flushed
  <1>7. ASSUME First(k)' # 0
        PROVE  /\ InLog(First(k))' /\ Deactivatable(First(k))'
               /\ \A i : Ran(i)' /\ ~Idempotent(i)' => i < First(k)'
               /\ \A i : InHw(i)' => First(k)' < i
    <2> DEFINE f == First(k)
    <2>1. /\ InLog(f) /\ Deactivatable(f)
          /\ \A i : Ran(i) /\ ~Idempotent(i) => i < f
          /\ \A i : InHw(i) => f < i
      BY <1>0, <1>7 DEF Accounted
    <2>2. First(k)' = f
      OBVIOUS
    <2> HIDE DEF f
    <2>3. f < cur.id /\ \E p \in DOMAIN cmd_log' : cmd_log'[p] = f
      BY <1>1, <1>3, <2>1 DEF InLog
    <2>4. kind'[f] = "kernel"
      BY <1>1, <2>1 DEF Deactivatable
    <2> QED BY <1>4, <1>5, <2>1, <2>2, <2>3, <2>4 DEF InLog, Deactivatable
  <1>8. \A i \in HwIdx' : state'[i] = Completed => Ran(i)'
    BY <1>0, <1>1, <1>2, <1>5 DEF Accounted
  <1>9. \A i : InLog(i)' => InHw(i)' \/ Ran(i)' \/ Flushed(k, i)'
    BY <1>0, <1>1, <1>4, <1>5, <1>6 DEF Accounted
  <1>10. \A i : Ran(i)' => i \in HwIdx' /\ (InLog(i)' \/ state'[i] = Completed)
    BY <1>0, <1>1, <1>2, <1>5 DEF Accounted
  <1>11. \A i, j : Ran(i)' /\ ~Idempotent(i)' /\ InHw(j)' => i < j
    BY <1>0, <1>3, <1>4, <1>5 DEF Accounted
  <1> QED BY <1>5, <1>7, <1>8, <1>9, <1>10, <1>11 DEF Accounted

(* A Relaunch puts into the empty hardware queue everything in the log     *)
(* from the first flushed command on, after which nothing that counts ran. *)
LEMMA AccountedRelaunch ==
  ASSUME NEW k \in Controllers, SteadyInv(k), ReactivateRelaunch(k)
  PROVE  Accounted(k)'
  <1>0. /\ TypeInv /\ Order /\ Placed /\ Preempting(k) /\ Accounted(k) /\ pc[k] = "relaunch"
        /\ pc \in [Threads -> Labels] /\ k \in Threads
        /\ \A i : InLog(i) => i \in HwIdx /\ i \in Nat
        /\ \A i : Ran(i) => i \in HwIdx /\ i \in Nat
    BY TypeFacts DEF SteadyInv, FrozenInv, Placed, ReactivateRelaunch, Accounted
  <1>1. hwq = <<>> /\ preempt_idx = 0 /\ First(k) = arg[k] /\ arg[k] # 0 /\ arg[k] \in Nat
    BY <1>0, TypeFacts DEF Preempting, First
  <1>2. /\ \A j : InHw(j)' <=> InLog(j) /\ j >= arg[k]
        /\ UNCHANGED <<kind, state, cmd_log, executed, preempt_idx>>
    BY <1>0, <1>1, Relaunches
  <1>3. First(k)' = 0
    BY <1>0, <1>1, <1>2 DEF ReactivateRelaunch, Goto, First
  <1>4. /\ \A i : (Ran(i)' <=> Ran(i)) /\ (InLog(i)' <=> InLog(i))
        /\ \A i : (Deactivatable(i)' <=> Deactivatable(i)) /\ (Idempotent(i)' <=> Idempotent(i))
        /\ RunsInOrder' /\ HwIdx' = HwIdx
    BY <1>0, <1>2 DEF Ran, InLog, Deactivatable, Idempotent, Accounted, RunsInOrder, HwIdx
  <1>5. \A i : ~InHw(i)
    BY <1>1 DEF InHw
  <1>6. \A i : InLog(i)' => InHw(i)' \/ Ran(i)'
    BY <1>0, <1>1, <1>2, <1>4, <1>5 DEF Accounted, Flushed
  <1>7. \A i, j : Ran(i)' /\ ~Idempotent(i)' /\ InHw(j)' => i < j
    BY <1>0, <1>1, <1>2, <1>4 DEF Accounted
  <1>8. \A i \in HwIdx' : state'[i] = Completed => Ran(i)'
    BY <1>0, <1>2, <1>4 DEF Accounted
  <1>9. \A i : Ran(i)' => i \in HwIdx' /\ (InLog(i)' \/ state'[i] = Completed)
    BY <1>0, <1>2, <1>4 DEF Accounted
  <1> QED BY <1>3, <1>4, <1>6, <1>7, <1>8, <1>9 DEF Accounted

(* The head of the hardware queue runs.  Behind a flushed command only     *)
(* what can be repeated runs (Shape).                                      *)
LEMMA AccountedExecute ==
  ASSUME NEW k \in Controllers, SteadyInv(k), Steady(k), HwStep, HwExecute
  PROVE  Accounted(k)'
  <1> DEFINE h == Head(hwq)
  <1>0. /\ TypeInv /\ Placed /\ HwOrder /\ Preempting(k) /\ Accounted(k)
        /\ hwq \in Seq(Nat) /\ executed \in Seq(Nat) /\ hwq # <<>> /\ hwq' = Tail(hwq)
        /\ executed' = Append(executed, h) /\ ~(exit_flag /\ Deactivatable(h))
        /\ UNCHANGED <<kind, state, cmd_log, preempt_idx, pc, arg>>
    BY DEF SteadyInv, FrozenInv, TypeInv, TypeOK, HwTypeOK, HwExecute, HwStep, bufVars, workerVars
  <1>1. /\ InHw(h) /\ h \in Nat
        /\ \A i : InHw(i)' => InHw(i) /\ h < i
        /\ \A i : InHw(i) => InHw(i)' \/ i = h
    BY <1>0, HwTaken DEF HwOrder
  <1>2. InLog(h) /\ h \in HwIdx
    BY <1>0, <1>1 DEF HwOrder, Placed
  <1>3. First(k)' = First(k)
    BY <1>0 DEF First
  <1> HIDE DEF h
  <1>4. /\ DOMAIN executed' = DOMAIN executed \cup {Len(executed) + 1}
        /\ executed'[Len(executed) + 1] = h
        /\ Len(executed) \in Nat /\ DOMAIN executed = 1 .. Len(executed)
        /\ \A p \in DOMAIN executed : executed'[p] = executed[p] /\ p # Len(executed) + 1
    BY <1>0, <1>1, LogAppended
  <1>5. /\ \A i : Ran(i)' <=> Ran(i) \/ i = h
        /\ \A i : InLog(i)' <=> InLog(i)
        /\ \A i : (Deactivatable(i)' <=> Deactivatable(i)) /\ (Idempotent(i)' <=> Idempotent(i))
        /\ HwIdx' = HwIdx
    BY <1>0, <1>4 DEF Ran, InLog, Deactivatable, Idempotent, HwIdx
  <1>6. \A i : Flushed(k, i)' <=> Flushed(k, i)
    BY <1>3, <1>5 DEF Flushed
  <1>7. ASSUME First(k)' # 0
        PROVE  /\ InLog(First(k))' /\ Deactivatable(First(k))'
               /\ \A i : Ran(i)' /\ ~Idempotent(i)' => i < First(k)'
               /\ \A i : InHw(i)' => First(k)' < i
    <2> DEFINE f == First(k)
    <2>1. /\ InLog(f) /\ Deactivatable(f)
          /\ \A i : Ran(i) /\ ~Idempotent(i) => i < f
          /\ \A i : InHw(i) => f < i
      BY <1>0, <1>3, <1>7 DEF Accounted
    <2>2. exit_flag /\ Level = 2
      <3>1. pc[k] \notin {"reClear", "relaunch"}
        BY <1>0 DEF Preempting
      <3>2. preempt_idx # 0
        BY <1>3, <1>7, <3>1 DEF First
      <3> QED BY <1>0, <3>2 DEF Preempting
    <2>3. First(k)' = f
      BY <1>3
    <2> HIDE DEF f
    <2>4. f < h /\ Idempotent(h)
      <3>1. f < h /\ ~Deactivatable(h)
        BY <1>0, <1>1, <2>1, <2>2
      <3> QED BY <1>2, <2>1, <2>2, <3>1 DEF SteadyInv, Shape, Plain
    <2>5. \E p \in DOMAIN cmd_log' : cmd_log'[p] = f
      BY <1>0, <2>1 DEF InLog
    <2>6. kind'[f] = "kernel"
      BY <1>0, <2>1 DEF Deactivatable
    <2> QED BY <1>1, <1>5, <2>1, <2>3, <2>4, <2>5, <2>6 DEF InLog, Deactivatable
  <1>8. \A i \in HwIdx' : state'[i] = Completed => Ran(i)'
    BY <1>0, <1>5 DEF Accounted
  <1>9. \A i : InLog(i)' => InHw(i)' \/ Ran(i)' \/ Flushed(k, i)'
    BY <1>0, <1>1, <1>5, <1>6 DEF Accounted
  <1>10. \A i : Ran(i)' => i \in HwIdx' /\ (InLog(i)' \/ state'[i] = Completed)
    BY <1>0, <1>2, <1>5 DEF Accounted
  <1>11. \A i, j : Ran(i)' /\ ~Idempotent(i)' /\ InHw(j)' => i < j
    BY <1>0, <1>1, <1>5 DEF Accounted
  <1>12. RunsInOrder'
    <2> SUFFICES ASSUME NEW p \in DOMAIN executed', NEW q \in DOMAIN executed', p < q,
                        ~Idempotent(executed'[p])
                 PROVE  executed'[p] < executed'[q]
      BY <1>0 DEF RunsInOrder, Idempotent
    <2>1. p \in DOMAIN executed /\ executed'[p] = executed[p]
      BY <1>4
    <2>2. CASE q \in DOMAIN executed
      BY <1>0, <1>4, <2>1, <2>2 DEF Accounted, RunsInOrder
    <2>3. CASE q = Len(executed) + 1
      BY <1>0, <1>1, <1>4, <2>1, <2>3 DEF Accounted, Ran
    <2> QED BY <1>4, <2>2, <2>3
  <1> QED BY <1>7, <1>8, <1>9, <1>10, <1>11, <1>12 DEF Accounted

(* The head of a deactivated hardware queue is flushed.                    *)
LEMMA AccountedFlush ==
  ASSUME NEW k \in Controllers, SteadyInv(k), Steady(k), HwStep, HwFlush
  PROVE  Accounted(k)'
  <1> DEFINE h == Head(hwq)
  <1>0. /\ TypeInv /\ Placed /\ HwOrder /\ Preempting(k) /\ Accounted(k)
        /\ hwq \in Seq(Nat) /\ hwq # <<>> /\ hwq' = Tail(hwq)
        /\ preempt_idx' = IF preempt_idx = 0 THEN h ELSE preempt_idx
        /\ exit_flag /\ Deactivatable(h)
        /\ UNCHANGED <<kind, state, cmd_log, executed, pc, arg>>
    BY DEF SteadyInv, FrozenInv, TypeInv, TypeOK, HwTypeOK, HwFlush, HwStep, bufVars, workerVars
  <1>1. /\ InHw(h) /\ h \in Nat
        /\ \A i : InHw(i)' => InHw(i) /\ h < i
        /\ \A i : InHw(i) => InHw(i)' \/ i = h
    BY <1>0, HwTaken DEF HwOrder
  <1>2. InLog(h) /\ h \in HwIdx /\ h # 0
    BY <1>0, <1>1, TypeFacts DEF HwOrder, Placed
  <1> HIDE DEF h
  <1>3. pc[k] \notin {"reClear", "relaunch"}
    BY <1>0 DEF Preempting
  <1>4. First(k) = preempt_idx /\ First(k)' = preempt_idx' /\ preempt_idx' # 0
    BY <1>0, <1>2, <1>3 DEF First
  <1>5. /\ \A i : (Ran(i)' <=> Ran(i)) /\ (InLog(i)' <=> InLog(i))
        /\ \A i : (Deactivatable(i)' <=> Deactivatable(i)) /\ (Idempotent(i)' <=> Idempotent(i))
        /\ RunsInOrder' /\ HwIdx' = HwIdx
    BY <1>0 DEF Ran, InLog, Deactivatable, Idempotent, Accounted, RunsInOrder, HwIdx
  <1>6. ASSUME NEW f, f = preempt_idx'
        PROVE  /\ InLog(f) /\ Deactivatable(f) /\ f <= h
               /\ \A i : Ran(i) /\ ~Idempotent(i) => i < f
               /\ \A i : InHw(i)' => f < i
    <2>1. CASE preempt_idx = 0
      BY <1>0, <1>1, <1>2, <1>6, <2>1 DEF Accounted
    <2>2. CASE preempt_idx # 0
      <3>1. /\ f = First(k) /\ First(k) # 0 /\ f \in Nat
        BY <1>0, <1>4, <1>6, <2>2 DEF TypeInv, TypeOK, HwTypeOK
      <3>2. /\ InLog(f) /\ Deactivatable(f)
            /\ \A i : Ran(i) /\ ~Idempotent(i) => i < f
            /\ \A i : InHw(i) => f < i
        BY <1>0, <3>1 DEF Accounted
      <3> QED BY <1>1, <3>1, <3>2
    <2> QED BY <2>1, <2>2
  <1>7. /\ InLog(First(k))' /\ Deactivatable(First(k))'
        /\ \A i : Ran(i)' /\ ~Idempotent(i)' => i < First(k)'
        /\ \A i : InHw(i)' => First(k)' < i
    <2>1. /\ \E p \in DOMAIN cmd_log' : cmd_log'[p] = preempt_idx'
          /\ kind'[preempt_idx'] = "kernel"
      BY <1>0, <1>6 DEF InLog, Deactivatable
    <2> QED BY <1>4, <1>5, <1>6, <2>1 DEF InLog, Deactivatable
  <1>8. \A i \in HwIdx' : state'[i] = Completed => Ran(i)'
    BY <1>0, <1>5 DEF Accounted
  <1>9. \A i : InLog(i)' => InHw(i)' \/ Ran(i)' \/ Flushed(k, i)'
    <2>1. \A i : Flushed(k, i) => Flushed(k, i)'
      BY <1>0, <1>4, <1>5 DEF Flushed
    <2>2. \A i : i = h => Flushed(k, i)'
      BY <1>0, <1>4, <1>5, <1>6 DEF Flushed
    <2> QED BY <1>0, <1>1, <1>5, <2>1, <2>2 DEF Accounted
  <1>10. \A i : Ran(i)' => i \in HwIdx' /\ (InLog(i)' \/ state'[i] = Completed)
    BY <1>0, <1>5 DEF Accounted
  <1>11. \A i, j : Ran(i)' /\ ~Idempotent(i)' /\ InHw(j)' => i < j
    BY <1>0, <1>1, <1>5 DEF Accounted
  <1> QED BY <1>5, <1>7, <1>8, <1>9, <1>10, <1>11 DEF Accounted

LEMMA AccountedStep ==
  ASSUME NEW k \in Controllers, SteadyInv(k), Steady(k), Moves, [Next]_vars, HwOrder'
  PROVE  Accounted(k)'
  <1>1. CASE HwStep
    BY <1>1, AccountedExecute, AccountedFlush DEF HwStep
  <1>2. CASE ReactivateRelaunch(k)
    BY <1>2, AccountedRelaunch
  <1>3. CASE Launch
    <2>1. ~ReactivateRelaunch(k)
      BY <1>3, PausedWhenFlushed DEF ReactivateRelaunch
    <2>2. pc[Worker] = "tail" /\ pc'[Worker] = "dequeue"
      BY <1>3, TypeFacts DEF Launch, Goto, SteadyInv, FrozenInv
    <2>3. ~HwStep
      BY <2>2 DEF HwStep, workerVars
    <2> QED BY <1>3, <2>1, <2>3, AccountedLaunch, FirstKept
  <1>4. CASE ~HwStep /\ ~ReactivateRelaunch(k) /\ ~Launch
    <2>1. hwq' = hwq /\ executed' = executed
      <3>1. CASE SuspendDeactivate(k) \/ ReactivateClear(k)
        BY <3>1 DEF SuspendDeactivate, ReactivateClear
      <3>2. CASE ~(SuspendDeactivate(k) \/ ReactivateClear(k))
        BY <1>4, <3>2, HwKept DEF ChangesHw, hwVars, Steady, OneController
      <3> QED BY <3>1, <3>2
    <2> QED BY <1>4, <2>1, AccountedQuiet, FirstKept
  <1> QED BY <1>1, <1>2, <1>3, <1>4

LEMMA SteadyStart ==
  ASSUME NEW k \in Controllers, Init
  PROVE  SteadyInv(k)
  <1>0. /\ pc \in [Threads -> {"dequeue", "idle"}] /\ pc[Worker] = "dequeue" /\ pc[k] = "idle"
        /\ \A t \in Threads : pc[t] \in {"dequeue", "idle"}
        /\ kind = <<>> /\ HwIdx = {} /\ cmd_log = <<>> /\ hwq = <<>> /\ executed = <<>>
        /\ ~exit_flag /\ preempt_idx = 0 /\ dropped = {} /\ drop_idx = -1 /\ ~terminated
    BY ThreadsAssumption DEF Init, BufInit, HwInit, WorkerInit, Threads, HwIdx
  <1>1. (\A i : ~InLog(i)) /\ (\A i : ~InHw(i)) /\ (\A i : ~Ran(i))
    BY <1>0 DEF InLog, InHw, Ran
  <1>2. FrozenInv /\ Placed /\ Matches(k) /\ NotEnding(k)
    BY FrozenStart, DroppedStart, MatchStart DEF DroppedInv
  <1>3. Kept /\ InTurn /\ Synced /\ SyncDone /\ HwOrder /\ NoDrops(k)
    BY <1>0, <1>1 DEF Kept, InTurn, Synced, SyncCmdLabels, SyncDone, HwOrder, Increasing, NoDrops,
       Dropper
  <1>4. Shape
    BY <1>0, <1>1 DEF Shape, Clear, NoKernel, SyncCmdLabels
  <1>5. Preempting(k) /\ Accounted(k)
    BY <1>0, <1>1 DEF Preempting, Accounted, First, RunsInOrder
  <1> QED BY <1>2, <1>3, <1>4, <1>5 DEF SteadyInv

LEMMA SteadyStep ==
  ASSUME NEW k \in Controllers, Steady(k), SteadyInv(k), [Next]_vars
  PROVE  SteadyInv(k)'
  <1>0. /\ FrozenInv /\ Kept /\ Placed /\ Matches(k) /\ NotEnding(k) /\ NoDrops(k)
        /\ InTurn /\ Synced /\ SyncDone /\ HwOrder /\ (Level = 2 => Shape)
        /\ TypeInv /\ LaunchesHardware /\ Order /\ Seen
        /\ OneSubmitter /\ OneController(k) /\ Controllers = {k}
    BY DEF SteadyInv, FrozenInv, Steady, OneController
  <1>1. Moves
    BY <1>0, MovesOnly
  <1>2. FrozenInv' /\ Kept' /\ Placed' /\ Matches(k)' /\ NotEnding(k)' /\ NoDrops(k)'
    BY <1>0, FrozenStep, KeptStep, PlacedStep, MatchesStep, NotEndingStep, NoDropsStep
  <1>3. InTurn' /\ Synced'
    BY <1>0, <1>1, InTurnStep, SyncedStep
  <1>4. \A j \in Controllers : ReactivateRelaunch(j) => worker_state = "Paused" /\ hwq = <<>>
    BY <1>0, PausedWhenFlushed DEF ReactivateRelaunch, SteadyInv, Preempting
  <1>5. HwOrder' /\ SyncDone'
    BY <1>0, <1>1, <1>4, HwOrderStep, SyncDoneStep
  <1>6. Level = 2 => Shape'
    BY <1>0, <1>1, ShapeStep
  <1>7. Preempting(k)' /\ Accounted(k)'
    BY <1>1, <1>5, PreemptingStep, AccountedStep
  <1> QED BY <1>2, <1>3, <1>5, <1>6, <1>7 DEF SteadyInv

LEMMA SteadyAlways ==
  ASSUME NEW k \in Controllers, Steady(k)
  PROVE  Spec => []SteadyInv(k)
  BY SteadyStart, SteadyStep, PTL DEF Spec

(* Commands run in the order of submission, and what cannot be repeated    *)
(* runs once, across every flush and relaunch of the commands in flight.   *)
THEOREM OrderKept ==
  ASSUME NEW k \in Controllers, Steady(k)
  PROVE  Spec => []RunsInOrder
  <1>1. SteadyInv(k) => RunsInOrder
    BY DEF SteadyInv, Accounted
  <1> QED BY <1>1, SteadyAlways, PTL

(* A command is reported completed only when it and everything submitted   *)
(* before it has run: no synchronization that a suspension interrupts      *)
(* completes a command that was flushed.                                   *)
THEOREM CompletedRan ==
  ASSUME NEW k \in Controllers, Steady(k)
  PROVE  Spec => []CompletedMeansExecuted
  <1>1. ASSUME SteadyInv(k), NEW i \in HwIdx, state[i] = Completed, NEW j \in 1 .. i
        PROVE  j \in Executed
    <2>1. HwIdx = 1 .. Len(kind) /\ Len(kind) \in Nat /\ i \in Nat
      BY <1>1, TypeFacts DEF SteadyInv, FrozenInv
    <2>2. j \in HwIdx
      BY <1>1, <2>1
    <2>3. state[j] = Completed
      BY <1>1, <2>1, <2>2 DEF SteadyInv, InTurn
    <2>4. Ran(j)
      BY <1>1, <2>2, <2>3 DEF SteadyInv, Accounted
    <2> QED BY <2>4 DEF Ran, Executed, ToSet
  <1>2. SteadyInv(k) => CompletedMeansExecuted
    BY <1>1 DEF CompletedMeansExecuted
  <1> QED BY <1>2, SteadyAlways, PTL
-----------------------------------------------------------------------------
(***************************************************************************)
(* An XQueue implements CommandQueue: a step of SubmitEnqueue is a Submit, *)
(* the end of a synchronization a Report, a step of HwExecute an Execute;  *)
(* every other step, the flushes and relaunches too, is a stutter.         *)
(***************************************************************************)
LEMMA StateValues ==
  ASSUME TypeInv, NEW i \in HwIdx
  PROVE  /\ state[i] \in {Created, Pending, InFlight, Completed}
         /\ state[i] >= Pending <=> state[i] # Created
  <1>1. state \in Seq(CmdState) /\ i \in DOMAIN state
    BY TypeFacts DEF TypeInv, TypeOK, BufTypeOK
  <1>2. state[i] \in CmdState
    BY <1>1, ElementOfSeq
  <1> QED BY <1>2 DEF CmdState, Created, Pending, InFlight, Completed

LEMMA WithinBound == Spec => [](Len(kind) <= MaxCmds)
  <1> DEFINE Bounded == TypeInv /\ LaunchesHardware /\ Len(kind) <= MaxCmds
  <1>1. Init => Bounded
    BY TypeStart, ApiAssumption DEF Init, BufInit
  <1>2. ASSUME Bounded, [Next]_vars
        PROVE  Len(kind') <= MaxCmds
    <2>1. CASE \E t \in Apps : SubmitDraw(t)
      <3>1. PICK l \in Kinds : kind' = Append(kind, l) /\ Len(kind) < MaxCmds
        BY <2>1 DEF SubmitDraw, DrawIdx
      <3>2. kind \in Seq(AllKinds) /\ l \in AllKinds /\ Len(kind) \in Nat /\ MaxCmds \in Nat
        BY <1>2, KindsAssumption, ApiAssumption, TypeFacts DEF TypeInv, TypeOK, BufTypeOK
      <3>3. Len(kind') = Len(kind) + 1
        BY <3>1, <3>2, AppendProperties
      <3> QED BY <3>1, <3>2, <3>3
    <2>2. CASE ~\E t \in Apps : SubmitDraw(t)
      <3>1. kind' = kind
        <4>1. CASE Settles
          BY <2>2, <4>1 DEF Settles, Launch, LaunchDropped, SyncAllPost, SyncCmdPost,
             SubmitEnqueue, EnqueueHardware, ResumeDropAll, DropAll, ResumeDrop, ResumeAndDrop
        <4>2. CASE ~Settles
          BY <1>2, <4>2, LogKept
        <4> QED BY <4>1, <4>2
      <3> QED BY <1>2, <3>1
    <2> QED BY <2>1, <2>2
  <1>3. ASSUME Bounded, [Next]_vars
        PROVE  Bounded'
    <2>1. TypeInv' /\ LaunchesHardware'
      BY <1>3, TypeStep, LaunchesHardwareStep
    <2> QED BY <1>2, <1>3, <2>1
  <1>4. Bounded => Len(kind) <= MaxCmds
    OBVIOUS
  <1> HIDE DEF Bounded
  <1> QED BY <1>1, <1>3, <1>4, PTL DEF Spec

(* Nothing is executed out of turn: what was submitted before the head of  *)
(* the hardware queue and is not over can be repeated.                     *)
LEMMA ExecutesInTurn ==
  ASSUME NEW k \in Controllers, SteadyInv(k), Steady(k), HwStep, HwExecute,
         ~Idempotent(Head(hwq)), NEW j \in HwIdx, state[j] # Created, j < Head(hwq)
  PROVE  Ran(j)
  <1> DEFINE h == Head(hwq)
  <1>0. /\ TypeInv /\ LaunchesHardware /\ Order /\ Placed /\ Kept /\ InTurn /\ HwOrder
        /\ Preempting(k) /\ Accounted(k) /\ hwq # <<>> /\ hwq \in Seq(Nat)
        /\ ~(exit_flag /\ Deactivatable(h))
    BY DEF SteadyInv, FrozenInv, TypeInv, TypeOK, HwTypeOK, HwExecute
  <1>1. hwq' = Tail(hwq)
    BY DEF HwExecute
  <1>2. InHw(h) /\ h \in Nat /\ \A i : InHw(i) => i = h \/ h < i
    BY <1>0, <1>1, HwTaken DEF HwOrder
  <1>3. InLog(h) /\ j \in Nat
    BY <1>0, <1>2, TypeFacts DEF HwOrder
  <1> HIDE DEF h
  <1>4. j < h /\ ~Idempotent(h)
    BY DEF h
  <1>5. CASE state[j] = Completed
    BY <1>0, <1>5 DEF Accounted
  <1>6. CASE state[j] # Completed
    <2>1. InLog(j)
      BY <1>0, <1>2, <1>3, <1>4, <1>6, Behind
    <2>2. ~InHw(j)
      BY <1>2, <1>3, <1>4
    <2>3. ~Flushed(k, j)
      <3> SUFFICES ASSUME Flushed(k, j) PROVE FALSE
        OBVIOUS
      <3>1. Deactivatable(j) /\ First(k) # 0
        BY DEF Flushed
      <3>2. Level = 2
        BY <3>1, PausedWhenFlushed
      <3>3. Deactivatable(h)
        BY <1>3, <1>4, <2>1, <3>1, <3>2 DEF SteadyInv, Shape, Plain
      <3>4. preempt_idx = 0
        BY <1>0, <3>3 DEF Preempting
      <3> QED BY <1>0, <3>1, <3>4 DEF Preempting, First
    <2> QED BY <1>0, <2>1, <2>2, <2>3 DEF Accounted
  <1> QED BY <1>5, <1>6

LEMMA QueueExecutes ==
  ASSUME NEW k \in Controllers, SteadyInv(k), Steady(k), HwStep, HwExecute
  PROVE  Queue!Next
  <1> DEFINE h == Head(hwq)
  <1>0. /\ TypeInv /\ Placed /\ HwOrder /\ Accounted(k) /\ dropped = {}
        /\ hwq \in Seq(Nat) /\ executed' = Append(executed, h) /\ hwq' = Tail(hwq) /\ hwq # <<>>
        /\ UNCHANGED <<kind, state, dropped>>
    BY DEF SteadyInv, FrozenInv, TypeInv, TypeOK, HwTypeOK, HwExecute, HwStep, bufVars,
       workerVars, NoDrops
  <1>1. /\ InHw(h) /\ h \in HwIdx /\ state[h] = InFlight
    BY <1>0, HwTaken DEF HwOrder, Placed
  <1>2. \A j \in HwIdx : ~Idempotent(h) /\ state[j] # Created /\ j < h => Ran(j)
    BY ExecutesInTurn
  <1>3. \A j \in Queue!ToSet(executed) : Ran(j) /\ j \in HwIdx
    BY <1>0 DEF Queue!ToSet, Ran, Accounted
  <1>4. \A j : Ran(j) <=> j \in Queue!ToSet(executed)
    BY DEF Queue!ToSet, Ran
  <1> HIDE DEF h
  <1>5. h \in Enqueued \ dropped
    BY <1>0, <1>1, StateValues DEF Enqueued, Created, InFlight
  <1>6. \A j \in Queue!ToSet(executed) \ {i \in Enqueued : Idempotent(i)} : j < h
    <2> SUFFICES ASSUME NEW j \in Queue!ToSet(executed), ~(j \in Enqueued /\ Idempotent(j))
                 PROVE  j < h
      OBVIOUS
    <2>1. Ran(j) /\ j \in HwIdx /\ state[j] # Created
      BY <1>0, <1>3 DEF Accounted, Placed, Created, InFlight, Completed
    <2>2. ~Idempotent(j)
      BY <1>0, <2>1, StateValues DEF Enqueued
    <2> QED BY <1>0, <1>1, <2>1, <2>2 DEF Accounted
  <1>7. h \notin {i \in Enqueued : Idempotent(i)} =>
          \A j \in Enqueued \ {i \in Enqueued : Idempotent(i)} :
            j < h => j \in Queue!ToSet(executed) \/ j \in dropped
    BY <1>0, <1>2, <1>4, <1>5, StateValues DEF Enqueued
  <1>8. UNCHANGED <<Enqueued, {i \in Enqueued : Idempotent(i)},
                    {i \in HwIdx : state[i] = Completed}, dropped>>
    BY <1>0 DEF Enqueued, Idempotent, HwIdx
  <1>9. Queue!Execute(h)
    BY <1>0, <1>5, <1>6, <1>7, <1>8 DEF Queue!Execute, Queue!Over, Queue!Ran
  <1> QED BY <1>5, <1>9 DEF Queue!Next

(* A command that is submitted comes after all that were.                  *)
LEMMA LastSubmitted ==
  ASSUME NEW k \in Controllers, SteadyInv(k), NEW t \in Apps, SubmitEnqueue(t), NEW j \in Enqueued
  PROVE  j < arg[t]
  <1>0. /\ TypeInv /\ LaunchesHardware /\ Order /\ Kept /\ Placed /\ InTurn
        /\ t \in Threads /\ pc[t] = "enqueue" /\ j \in HwIdx /\ state[j] >= Pending
    BY TypeFacts DEF SteadyInv, FrozenInv, SubmitEnqueue, Enqueued
  <1>1. /\ arg[t] \in HwIdx /\ state[arg[t]] = Created
        /\ state[j] \in {Pending, InFlight, Completed}
    BY <1>0, Enqueues, StateValues DEF Placed
  <1>2. CASE state[j] = Completed
    BY <1>0, <1>1, <1>2 DEF InTurn, Created, Completed
  <1>3. CASE InBuffer(Hardware(j))
    <2>1. Hardware(j).type = "Hardware" /\ Hardware(j).id = j
      BY DEF Hardware
    <2> QED BY <1>0, <1>3, <2>1 DEF Order, SubmitOrder, InBuffer
  <1>4. CASE Launching /\ cur = Hardware(j)
    BY <1>0, <1>4 DEF Order, SubmitOrder, Hardware
  <1>5. CASE InLog(j)
    BY <1>0, <1>5 DEF Order, SubmitOrder, InLog
  <1> QED BY <1>0, <1>1, <1>2, <1>3, <1>4, <1>5 DEF Kept

LEMMA QueueSubmits ==
  ASSUME NEW k \in Controllers, SteadyInv(k), Len(kind) <= MaxCmds,
         NEW t \in Apps, SubmitEnqueue(t), UNCHANGED <<executed, dropped>>
  PROVE  Queue!Next
  <1> DEFINE c == arg[t]
  <1>0. /\ TypeInv /\ Placed /\ LaunchesHardware /\ HwIdx = 1 .. Len(kind) /\ Len(kind) \in Nat
        /\ MaxCmds \in Nat /\ t \in Threads
    BY TypeFacts, ApiAssumption DEF SteadyInv, FrozenInv
  <1>a. /\ kind' = kind /\ c \in HwIdx /\ Submitting(t, c)
        /\ \A i \in HwIdx : state'[i] = IF i = c THEN Pending ELSE state[i]
    BY <1>0, Enqueues
  <1>1. /\ kind' = kind /\ c \in HwIdx /\ state[c] = Created
        /\ \A i \in HwIdx : state'[i] = IF i = c THEN Pending ELSE state[i]
    BY <1>0, <1>a DEF Placed
  <1>2. \A j \in Enqueued : j < c
    BY LastSubmitted
  <1> HIDE DEF c
  <1>3. c \in 1 .. MaxCmds
    BY <1>0, <1>1
  <1>4. Enqueued' = Enqueued \cup {c}
    BY <1>0, <1>1 DEF Enqueued, HwIdx, Pending
  <1>5. {i \in Enqueued : Idempotent(i)}' \in
          {{i \in Enqueued : Idempotent(i)}, {i \in Enqueued : Idempotent(i)} \cup {c}}
    <2>1. {i \in Enqueued : Idempotent(i)}' = {i \in Enqueued \cup {c} : Idempotent(i)}
      BY <1>1, <1>4 DEF Idempotent
    <2> QED BY <2>1
  <1>6. {i \in HwIdx : state[i] = Completed}' = {i \in HwIdx : state[i] = Completed}
    BY <1>1 DEF HwIdx, Created, Pending, Completed
  <1>7. Queue!Submit(c)
    BY <1>2, <1>4, <1>5, <1>6 DEF Queue!Submit
  <1> QED BY <1>3, <1>7 DEF Queue!Next

(* The end of a synchronization reports what it completes.                 *)
LEMMA QueueReports ==
  ASSUME NEW k \in Controllers, SteadyInv(k), SteadyInv(k)', NEW t \in Threads, Popping(t),
         dropped' = {}, dropped = {}
  PROVE  Queue!Next
  <1>s. PICK Done : Done = {i \in HwIdx : InLog(i) /\ ~InLog(i)'}
    OBVIOUS
  <1> DEFINE Comp == {i \in HwIdx : state[i] = Completed}
  <1>0. /\ TypeInv /\ Placed /\ InTurn' /\ Accounted(k)' /\ kind' = kind /\ executed' = executed
        /\ HwIdx = 1 .. Len(kind) /\ Len(kind) \in Nat
    BY TypeFacts DEF SteadyInv, FrozenInv, Popping, hwVars
  <1>1. HwIdx' = HwIdx
    BY <1>0 DEF HwIdx
  <1>2. \A i \in HwIdx : IF i \in Done THEN state[i] = InFlight /\ state'[i] = Completed
                         ELSE state'[i] = state[i]
    BY <1>0, <1>s DEF Popping, Placed
  <1>3. Done \subseteq HwIdx
    BY <1>s
  <1>4. Enqueued' = Enqueued /\ Done \subseteq Enqueued
    BY <1>1, <1>2, <1>3 DEF Enqueued, Pending, InFlight, Completed
  <1>5. Comp' = Comp \cup Done
    BY <1>1, <1>2, <1>3 DEF InFlight, Completed
  <1>6. \A i \in Done : \A j \in Enqueued : j <= i => Queue!Over(j)
    <2> SUFFICES ASSUME NEW i \in Done, NEW j \in Enqueued, j <= i PROVE Queue!Over(j)
      OBVIOUS
    <2>1. i \in HwIdx /\ j \in HwIdx /\ state'[i] = Completed
      BY <1>2, <1>3 DEF Enqueued
    <2>2. state'[j] = Completed
      BY <1>0, <1>1, <2>1 DEF InTurn
    <2>3. \E p \in DOMAIN executed : executed[p] = j
      BY <1>0, <1>1, <2>1, <2>2 DEF Accounted, Ran
    <2> QED BY <2>3 DEF Queue!Over, Queue!Ran, Queue!ToSet
  <1>7. {i \in Enqueued : Idempotent(i)}' = {i \in Enqueued : Idempotent(i)}
    BY <1>0, <1>4 DEF Idempotent
  <1>8. Queue!Report(Done)
    BY <1>0, <1>4, <1>5, <1>6, <1>7 DEF Queue!Report
  <1>9. Done \in SUBSET Enqueued
    BY <1>4
  <1> QED BY <1>8, <1>9 DEF Queue!Next

LEMMA QueueStutters ==
  ASSUME NEW k \in Controllers, SteadyInv(k), UNCHANGED <<executed, dropped>>,
         \/ UNCHANGED <<kind, state>>
         \/ \E t \in Apps : SubmitDraw(t)
         \/ Launch
  PROVE  UNCHANGED Queue!vars
  <1>0. /\ TypeInv /\ LaunchesHardware /\ Placed
    BY DEF SteadyInv, FrozenInv
  <1>1. /\ Enqueued' = Enqueued
        /\ \A i \in Enqueued : kind'[i] = kind[i]
        /\ {i \in HwIdx : state[i] = Completed}' = {i \in HwIdx : state[i] = Completed}
    <2>1. CASE UNCHANGED <<kind, state>>
      BY <2>1 DEF Enqueued, HwIdx
    <2>2. CASE \E t \in Apps : SubmitDraw(t)
      <3>1. PICK t \in Apps : SubmitDraw(t)
        BY <2>2
      <3>2. /\ HwIdx' = HwIdx \cup {Len(kind) + 1} /\ Len(kind) + 1 \notin HwIdx
            /\ \A i \in HwIdx : state'[i] = state[i] /\ kind'[i] = kind[i]
            /\ state'[Len(kind) + 1] = Created
        BY <1>0, <3>1, Drawn
      <3> QED BY <3>2 DEF Enqueued, Created, Pending, Completed
    <2>3. CASE Launch
      <3>1. /\ kind' = kind /\ cur.id \in HwIdx /\ state[cur.id] = Pending
            /\ \A i \in HwIdx : state'[i] = IF i = cur.id THEN InFlight ELSE state[i]
        BY <1>0, <2>3, Launches
      <3> QED BY <3>1 DEF Enqueued, HwIdx, Pending, InFlight, Completed
    <2> QED BY <2>1, <2>2, <2>3
  <1>2. {i \in Enqueued : Idempotent(i)}' = {i \in Enqueued : Idempotent(i)}
    BY <1>1 DEF Idempotent
  <1> QED BY <1>1, <1>2 DEF Queue!vars

LEMMA QueueStep ==
  ASSUME NEW k \in Controllers, Steady(k), SteadyInv(k), Len(kind) <= MaxCmds, [Next]_vars
  PROVE  [Queue!Next]_Queue!vars
  <1>0. /\ SteadyInv(k)' /\ Moves /\ dropped = {} /\ dropped' = {} /\ Controllers = {k}
    BY SteadyStep, MovesOnly DEF SteadyInv, FrozenInv, NoDrops, Steady, OneController
  <1>1. CASE HwStep /\ HwExecute
    BY <1>1, QueueExecutes
  <1>2. executed' = executed \/ (HwStep /\ HwExecute)
    <2>1. CASE HwStep /\ ~HwExecute
      BY <2>1 DEF HwStep, HwFlush
    <2>2. CASE Launch \/ \E j \in Controllers : \/ ReactivateRelaunch(j) \/ SuspendDeactivate(j)
                                                \/ ReactivateClear(j)
      BY <2>2 DEF Launch, ReactivateRelaunch, SuspendDeactivate, ReactivateClear
    <2>3. CASE /\ ~HwStep /\ ~Launch
               /\ \A j \in Controllers : /\ ~ReactivateRelaunch(j) /\ ~SuspendDeactivate(j)
                                         /\ ~ReactivateClear(j)
      BY <2>3, HwKept DEF ChangesHw, hwVars
    <2> QED BY <2>1, <2>2, <2>3
  <1>3. CASE executed' = executed
    <2>1. ASSUME NEW t \in Apps, SubmitEnqueue(t) PROVE Queue!Next
      BY <1>0, <1>3, <2>1, QueueSubmits
    <2>2. ASSUME NEW t \in Threads, Popping(t) PROVE Queue!Next
      BY <1>0, <2>2, QueueReports
    <2> QED BY <1>0, <1>3, <2>1, <2>2, QueueStutters DEF Moves
  <1> QED BY <1>1, <1>2, <1>3

(* An XQueue keeps its promises (CommandQueue): whatever the pauses and    *)
(* the flushes, each step is one that an ordered queue may take, or one    *)
(* that its user does not see.                                             *)
THEOREM PromisesKept ==
  ASSUME NEW k \in Controllers, Steady(k)
  PROVE  Spec => KeepsPromises
  <1>1. Init => Queue!Init
    BY DEF Init, BufInit, HwInit, WorkerInit, Enqueued, HwIdx, Queue!Init
  <1>2. SteadyInv(k) /\ Len(kind) <= MaxCmds /\ [Next]_vars => [Queue!Next]_Queue!vars
    BY QueueStep
  <1> QED BY <1>1, <1>2, SteadyAlways, WithinBound, PTL DEF Spec, KeepsPromises, Queue!Spec
-----------------------------------------------------------------------------
(***************************************************************************)
(* WaitAll is a barrier, with one controller.                              *)
(*                                                                         *)
(* Batching: the worker syncs single commands for a launch or for a batch  *)
(* synchronization only.  WaitsOnce: a WaitAll command is in the buffer at *)
(* most once, not while the worker serves it, and is not completed until   *)
(* the worker has served it or a drop takes it from the buffer.            *)
(***************************************************************************)
Batching ==
  pc[Worker] = "batch" \/ (pc[Worker] \in SyncCmdLabels /\ ret = "done") => cur.type = "BatchSync"

WaitsOnce ==
  /\ \A p \in DOMAIN cmds : cmds[p].type = "WaitAll" =>
       /\ wait_all[cmds[p].id] # Completed
       /\ \A q \in DOMAIN cmds : q # p => cmds[q] # cmds[p]
  /\ Serving /\ cur.type = "WaitAll" => wait_all[cur.id] # Completed /\ ~InBuffer(cur)

LEMMA BatchingStep ==
  ASSUME TypeInv, Batching, [Next]_vars
  PROVE  Batching'
  <1>0. pc \in [Threads -> Labels] /\ Worker \in Threads /\ ret \in {"full", "tail", "done"}
    BY BufferFacts
  <1>1. CASE WorkerStep
    <2>1. CASE WorkerTake
      <3>1. PICK c : Dispatch(c)
        BY <2>1 DEF WorkerTake
      <3>2. /\ pc'[Worker] \in {"launch", "batch", "allCheck"} /\ cur' = c
            /\ pc'[Worker] = "batch" => c.type = "BatchSync"
        BY <1>0, <3>1 DEF Dispatch, Goto
      <3> QED BY <3>2 DEF Batching, SyncCmdLabels
    <2>2. CASE WorkerIdle \/ WorkerDone
      <3>1. pc'[Worker] \in {"cvWait", "end", "dequeue"}
        BY <1>0, <2>2 DEF WorkerIdle, WorkerDone, Goto
      <3> QED BY <3>1 DEF Batching, SyncCmdLabels
    <2>3. CASE LaunchBegin \/ LaunchFull \/ AwaitRunning
      <3>1. \/ pc'[Worker] \in {"full", "allCheck", "await", "tail"}
            \/ pc'[Worker] = "cmdCheck" /\ ret' \in {"full", "tail"}
        BY <1>0, <2>3 DEF LaunchBegin, LaunchFull, AwaitRunning, BeginSyncCmd, BeginSyncAll,
           Goto
      <3> QED BY <3>1 DEF Batching, SyncCmdLabels
    <2>4. CASE LaunchDropped \/ Launch
      <3>1. pc'[Worker] = "dequeue"
        BY <1>0, <2>4 DEF LaunchDropped, Launch, Goto
      <3> QED BY <3>1 DEF Batching, SyncCmdLabels
    <2>5. CASE SyncAllCheck \/ SyncAllHw \/ SyncAllPost
      <3>1. pc'[Worker] \in {"allCheck", "allSync", "allPost", "full", "tail", "done"}
        BY <1>0, <2>5 DEF SyncAllCheck, SyncAllHw, SyncAllPost, ReturnFromSync, Goto
      <3> QED BY <3>1 DEF Batching, SyncCmdLabels
    <2>6. CASE SyncCmdCheck(Worker) \/ SyncCmdHw(Worker) \/ SyncCmdPost(Worker)
      <3>1. UNCHANGED <<cur, ret>> /\ pc[Worker] \in SyncCmdLabels
            /\ pc'[Worker] \in SyncCmdLabels \cup {"full", "tail", "done"}
        BY <1>0, <2>6 DEF SyncCmdCheck, SyncCmdHw, SyncCmdPost, ReturnFromSync, Goto,
           SyncCmdLabels
      <3> QED BY <3>1 DEF Batching, SyncCmdLabels
    <2>7. CASE CvWait(Worker)
      BY <2>7 DEF CvWait, threadVars, Batching
    <2>8. CASE WorkerBatch
      <3>1. pc[Worker] = "batch" /\ cur' = cur
        BY <2>8 DEF WorkerBatch
      <3> QED BY <3>1 DEF Batching
    <2> QED BY <1>1, <2>1, <2>2, <2>3, <2>4, <2>5, <2>6, <2>7, <2>8 DEF WorkerStep
  <1>2. CASE Others
    BY <1>2, OthersKeepWorker DEF Others, Batching
  <1>3. CASE UNCHANGED vars
    BY <1>3 DEF vars, workerVars, Batching
  <1> QED BY <1>1, <1>2, <1>3, NextCases

(* The worker begins to serve a WaitAll command only by taking it.         *)
LEMMA ServingBegins ==
  ASSUME TypeInv, LaunchesHardware, Batching, [Next]_vars, ~WorkerTake,
         Serving', cur'.type = "WaitAll"
  PROVE  Serving /\ cur' = cur
  <1>0. pc \in [Threads -> Labels] /\ Worker \in Threads /\ ret \in {"full", "tail", "done"}
    BY BufferFacts
  <1>1. CASE WorkerStep
    <2>1. cur' = cur
      BY <1>1, WorkerKeepsLaunching
    <2>2. ~Launching
      BY <2>1 DEF LaunchesHardware
    <2>3. CASE WorkerIdle \/ WorkerDone
      <3>1. pc'[Worker] \in {"cvWait", "end", "dequeue"}
        BY <1>0, <2>3 DEF WorkerIdle, WorkerDone, Goto
      <3> QED BY <3>1 DEF Serving
    <2>4. CASE LaunchBegin \/ LaunchFull \/ AwaitRunning \/ LaunchDropped \/ Launch
      BY <2>2, <2>4 DEF LaunchBegin, LaunchFull, AwaitRunning, LaunchDropped, Launch, Launching
    <2>5. CASE SyncAllCheck \/ SyncAllHw \/ SyncAllPost
      BY <2>1, <2>5 DEF SyncAllCheck, SyncAllHw, SyncAllPost, Serving
    <2>6. CASE SyncCmdCheck(Worker) \/ SyncCmdHw(Worker) \/ SyncCmdPost(Worker)
      <3>1. pc[Worker] \in SyncCmdLabels
        BY <2>6 DEF SyncCmdCheck, SyncCmdHw, SyncCmdPost, SyncCmdLabels
      <3>2. ret = "done"
        BY <2>2, <3>1 DEF Launching
      <3> QED BY <2>1, <3>1, <3>2 DEF Batching
    <2>7. CASE CvWait(Worker)
      BY <2>1, <2>7 DEF CvWait, threadVars, Serving
    <2>8. CASE WorkerBatch
      BY <2>1, <2>8 DEF WorkerBatch, Batching
    <2> QED BY <1>1, <2>3, <2>4, <2>5, <2>6, <2>7, <2>8 DEF WorkerStep
  <1>2. CASE Others
    BY <1>2, OthersKeepWorker DEF Others, Serving
  <1>3. CASE UNCHANGED vars
    BY <1>3 DEF vars, workerVars, Serving
  <1> QED BY <1>1, <1>2, <1>3, NextCases

LEMMA WaitsOnceStep ==
  ASSUME TypeInv, LaunchesHardware, Batching, Known, WaitsOnce, [Next]_vars
  PROVE  WaitsOnce'
  <1>0. /\ wait_all \in Seq(CmdState)
        /\ Len(wait_all) \in Nat /\ DOMAIN wait_all = 1 .. Len(wait_all)
        /\ Len(cmds) \in Nat /\ DOMAIN cmds = 1 .. Len(cmds)
        /\ \A p \in DOMAIN cmds : cmds[p] \in Command
        /\ cmds \in Seq(Command) /\ cur \in Command
        /\ pc \in [Threads -> Labels] /\ Worker \in Threads
        /\ Pending # Completed /\ InFlight # Completed
    BY BufferFacts DEF Pending, InFlight, Completed
  <1>1. CASE WorkerTake
    <2>1. PICK c : Dispatch(c) /\ (DequeueFront(c) \/ DequeueGenerate(c))
      BY <1>1 DEF WorkerTake
    <2>2. CASE DequeueFront(c)
      <3>1. cmds # <<>> /\ cmds' = Tail(cmds) /\ c = Head(cmds)
        BY <2>2 DEF DequeueFront
      <3>2. Len(cmds) > 0
        BY <1>0, <3>1, EmptySeq
      <3>3. /\ 1 \in DOMAIN cmds /\ c = cmds[1] /\ c \in Command
            /\ DOMAIN cmds' = 1 .. Len(cmds) - 1
            /\ \A p \in DOMAIN cmds' : cmds'[p] = cmds[p + 1]
        BY <1>0, <3>1, <3>2
      <3>4. \A p \in DOMAIN cmds' : p \in Nat /\ p + 1 \in DOMAIN cmds /\ p + 1 # 1
        BY <1>0, <3>3
      <3>5. c.type = "WaitAll" => c.id \in DOMAIN wait_all
        BY <3>3 DEF Known
      <3>6. /\ cur' = c /\ pc'[Worker] \in {"launch", "batch", "allCheck"}
            /\ \A w \in DOMAIN wait_all : c # WaitAll(w) => wait_all'[w] = wait_all[w]
            /\ c.type = "WaitAll" => wait_all'[c.id] = InFlight
        <4>1. cur' = c /\ pc'[Worker] \in {"launch", "batch", "allCheck"}
          BY <1>0, <2>1 DEF Dispatch, Goto
        <4>2. CASE c.type = "WaitAll"
          <5>1. wait_all' = [wait_all EXCEPT ![c.id] = InFlight] /\ c = WaitAll(c.id)
            BY <2>1, <3>3, <3>5, <4>2, SameCommand DEF Dispatch
          <5> QED BY <3>5, <4>1, <4>2, <5>1
        <4>3. CASE c.type # "WaitAll"
          BY <2>1, <4>1, <4>3 DEF Dispatch
        <4> QED BY <4>2, <4>3
      <3>7. ASSUME NEW p \in DOMAIN cmds', cmds'[p].type = "WaitAll"
            PROVE  /\ wait_all'[cmds'[p].id] # Completed
                   /\ \A q \in DOMAIN cmds' : q # p => cmds'[q] # cmds'[p]
        <4>1. p + 1 \in DOMAIN cmds /\ cmds'[p] = cmds[p + 1] /\ cmds[p + 1].type = "WaitAll"
          BY <3>3, <3>4, <3>7
        <4>2. cmds[p + 1].id \in DOMAIN wait_all /\ wait_all[cmds[p + 1].id] # Completed
          BY <4>1 DEF Known, WaitsOnce
        <4>3. c # cmds[p + 1]
          BY <3>3, <3>4, <4>1 DEF WaitsOnce
        <4>4. cmds[p + 1] = WaitAll(cmds[p + 1].id)
          BY <1>0, <4>1, SameCommand
        <4>5. wait_all'[cmds[p + 1].id] = wait_all[cmds[p + 1].id]
          BY <3>6, <4>2, <4>3, <4>4
        <4>6. ASSUME NEW q \in DOMAIN cmds', q # p PROVE cmds'[q] # cmds'[p]
          <5>1. q + 1 \in DOMAIN cmds /\ q + 1 # p + 1 /\ cmds'[q] = cmds[q + 1]
            BY <3>3, <3>4, <4>6
          <5> QED BY <4>1, <5>1 DEF WaitsOnce
        <4> QED BY <4>1, <4>2, <4>5, <4>6
      <3>8. c.type = "WaitAll" => \A p \in DOMAIN cmds' : cmds'[p] # c
        BY <3>3, <3>4 DEF WaitsOnce
      <3> QED BY <1>0, <3>6, <3>7, <3>8 DEF WaitsOnce, InBuffer
    <2>3. CASE DequeueGenerate(c)
      <3>1. /\ cmds' = <<>> /\ (c.type = "WaitAll" => c.id = Len(wait_all) + 1)
            /\ c.type \in {"WaitAll", "BatchSync"}
        BY <2>3 DEF DequeueGenerate, WaitAll, BatchSync
      <3>2. cur' = c /\ (c.type = "WaitAll" => wait_all' = Append(wait_all, InFlight))
        <4>1. c.type = "WaitAll" => c.id \notin DOMAIN wait_all
          BY <1>0, <3>1
        <4> QED BY <2>1, <4>1 DEF Dispatch
      <3>3. c.type = "WaitAll" => wait_all'[c.id] = InFlight
        BY <1>0, <3>1, <3>2
      <3> QED BY <1>0, <3>1, <3>2, <3>3 DEF WaitsOnce, InBuffer
    <2> QED BY <2>1, <2>2, <2>3
  <1>2. CASE ~WorkerTake
    <2>0. Serving' /\ cur'.type = "WaitAll" => Serving /\ cur' = cur
      BY <1>2, ServingBegins
    <2>1. CASE ~Buffers
      <3>1. UNCHANGED <<wait_all, cmds, cur>>
        BY <2>1, QuietStep
      <3> QED BY <2>0, <3>1 DEF WaitsOnce, InBuffer
    <2>2. CASE WorkerIdle
      BY <2>0, <2>2 DEF WorkerIdle, DequeueIdle, WaitsOnce, InBuffer
    <2>3. CASE WorkerDone
      <3>1. /\ UNCHANGED <<cmds, cur>> /\ pc[Worker] = "done" /\ ~Serving'
            /\ CompleteCur
        BY <1>0, <2>3 DEF WorkerDone, Goto, Serving
      <3>2. \A p \in DOMAIN cmds : cmds[p].type = "WaitAll" /\ cur.type = "WaitAll" =>
              cmds[p].id # cur.id
        BY <1>0, <3>1, SameCommand DEF WaitsOnce, Serving, InBuffer
      <3>3. ASSUME NEW p \in DOMAIN cmds, cmds[p].type = "WaitAll"
            PROVE  wait_all'[cmds[p].id] # Completed
        <4>1. cmds[p].id \in DOMAIN wait_all /\ wait_all[cmds[p].id] # Completed
          BY <3>3 DEF Known, WaitsOnce
        <4>2. wait_all'[cmds[p].id] = wait_all[cmds[p].id]
          BY <1>0, <3>1, <3>2, <3>3, <4>1 DEF CompleteCur
        <4> QED BY <4>1, <4>2
      <3> QED BY <3>1, <3>3 DEF WaitsOnce
    <2>4. ASSUME NEW c \in Command, cmds' = Append(cmds, c), c.type # "WaitAll",
                 UNCHANGED wait_all
          PROVE  WaitsOnce'
      <3>1. /\ \A d : InBuffer(d)' <=> InBuffer(d) \/ d = c
            /\ \A p \in DOMAIN cmds' : cmds'[p] = c \/ (p \in DOMAIN cmds /\ cmds'[p] = cmds[p])
        BY <2>4, Appended
      <3>2. ASSUME NEW p \in DOMAIN cmds', cmds'[p].type = "WaitAll"
            PROVE  /\ wait_all'[cmds'[p].id] # Completed
                   /\ \A q \in DOMAIN cmds' : q # p => cmds'[q] # cmds'[p]
        BY <2>4, <3>1, <3>2 DEF WaitsOnce
      <3>3. Serving' /\ cur'.type = "WaitAll" => wait_all'[cur'.id] # Completed /\ ~InBuffer(cur)'
        <4>1. SUFFICES ASSUME Serving', cur'.type = "WaitAll"
                       PROVE  wait_all'[cur'.id] # Completed /\ ~InBuffer(cur)'
          OBVIOUS
        <4>2. cur' = cur /\ cur # c /\ wait_all[cur.id] # Completed /\ ~InBuffer(cur)
          BY <2>0, <2>4, <4>1 DEF WaitsOnce
        <4> QED BY <2>4, <3>1, <4>2 DEF InBuffer
      <3> QED BY <3>2, <3>3 DEF WaitsOnce
    <2>5. ASSUME NEW t \in Apps, AppBuffers(t) PROVE WaitsOnce'
      <3>1. CASE SubmitEnqueue(t)
        <4>1. cmds' = Append(cmds, Hardware(arg[t])) /\ wait_all' = wait_all
          BY <3>1 DEF SubmitEnqueue, EnqueueHardware
        <4>2. Hardware(arg[t]) \in Command /\ Hardware(arg[t]).type # "WaitAll"
          BY TypeFacts, BufferFacts DEF Hardware, Command, CmdType
        <4> QED BY <2>4, <4>1, <4>2
      <3>2. CASE CallWaitAll(t) \/ SubmitWaitAll(t)
        <4>1. PICK w \in 1 .. Len(wait_all) + 1 : EnqueueXQueueWaitAllCommand(w)
          BY <3>2 DEF CallWaitAll, SubmitWaitAll
        <4>2. CASE UNCHANGED bufVars
          <5>1. UNCHANGED <<wait_all, cmds>>
            BY <4>2 DEF bufVars
          <5> QED BY <2>0, <5>1 DEF WaitsOnce, InBuffer
        <4>3. CASE ~UNCHANGED bufVars
          <5>1. /\ w = Len(wait_all) + 1 /\ wait_all' = Append(wait_all, Pending)
                /\ cmds' = Append(cmds, WaitAll(w))
            BY <4>1, <4>3 DEF EnqueueXQueueWaitAllCommand
          <5>2. /\ WaitAll(w) \in Command /\ WaitAll(w).id = w
                /\ \A v \in DOMAIN wait_all : wait_all'[v] = wait_all[v] /\ v # w
                /\ wait_all'[w] = Pending
            BY <1>0, <5>1 DEF WaitAll, Command, CmdType
          <5>3. /\ \A d : InBuffer(d)' <=> InBuffer(d) \/ d = WaitAll(w)
                /\ DOMAIN cmds' = 1 .. Len(cmds) + 1 /\ cmds'[Len(cmds) + 1] = WaitAll(w)
                /\ \A p \in DOMAIN cmds : cmds'[p] = cmds[p]
            BY <1>0, <5>1, <5>2, Appended, AppendProperties
          <5>4. \A p \in DOMAIN cmds' : p = Len(cmds) + 1 \/ p \in DOMAIN cmds
            BY <1>0, <5>3
          <5>5. \A p \in DOMAIN cmds : cmds[p].type = "WaitAll" =>
                  cmds[p].id \in DOMAIN wait_all /\ cmds[p] # WaitAll(w)
            BY <5>2 DEF Known
          <5>6. ASSUME NEW p \in DOMAIN cmds', cmds'[p].type = "WaitAll"
                PROVE  wait_all'[cmds'[p].id] # Completed
            <6>1. CASE p \in DOMAIN cmds
              BY <5>2, <5>3, <5>5, <5>6, <6>1 DEF WaitsOnce
            <6>2. CASE p = Len(cmds) + 1
              BY <1>0, <5>2, <5>3, <6>2
            <6> QED BY <5>4, <6>1, <6>2
          <5>7. ASSUME NEW p \in DOMAIN cmds', cmds'[p].type = "WaitAll",
                       NEW q \in DOMAIN cmds', q # p
                PROVE  cmds'[q] # cmds'[p]
            <6>1. CASE p \in DOMAIN cmds /\ q \in DOMAIN cmds
              BY <5>3, <5>7, <6>1 DEF WaitsOnce
            <6>2. CASE p \in DOMAIN cmds /\ q = Len(cmds) + 1
              BY <5>3, <5>5, <5>7, <6>2
            <6>3. CASE p = Len(cmds) + 1 /\ q \in DOMAIN cmds
              <7>1. cmds'[p] = WaitAll(w) /\ cmds'[q] = cmds[q] /\ WaitAll(w).type = "WaitAll"
                BY <5>3, <6>3 DEF WaitAll
              <7> QED BY <5>5, <6>3, <7>1
            <6> QED BY <5>4, <5>7, <6>1, <6>2, <6>3
          <5>8. ASSUME Serving', cur'.type = "WaitAll"
                PROVE  wait_all'[cur'.id] # Completed /\ ~InBuffer(cur)'
            <6>1. cur' = cur /\ wait_all[cur.id] # Completed /\ ~InBuffer(cur)
              BY <2>0, <5>8 DEF WaitsOnce
            <6>2. cur.id \in DOMAIN wait_all
              BY <5>8, <6>1 DEF Known
            <6>3. cur # WaitAll(w) /\ wait_all'[cur.id] = wait_all[cur.id]
              BY <5>2, <6>2
            <6>4. ~InBuffer(cur)'
              BY <5>3, <6>1, <6>3 DEF InBuffer
            <6> QED BY <6>1, <6>3, <6>4
          <5> QED BY <5>6, <5>7, <5>8 DEF WaitsOnce
        <4> QED BY <4>2, <4>3
      <3> QED BY <2>5, <3>1, <3>2 DEF AppBuffers
    <2>6. ASSUME NEW k \in Controllers, ControlBuffers(k) PROVE WaitsOnce'
      <3>1. CASE ResumeDropAll(k)
        <4>1. /\ cmds' = <<>> /\ cur' = cur
              /\ wait_all' = [w \in DOMAIN wait_all |->
                                IF \E p \in DOMAIN cmds : cmds[p] = WaitAll(w)
                                THEN Completed ELSE wait_all[w]]
          BY <3>1 DEF ResumeDropAll, DropAll
        <4>2. ASSUME Serving', cur'.type = "WaitAll"
              PROVE  wait_all'[cur'.id] # Completed
          <5>1. cur.id \in DOMAIN wait_all /\ wait_all[cur.id] # Completed /\ ~InBuffer(cur)
                /\ cur = WaitAll(cur.id)
            BY <1>0, <2>0, <4>1, <4>2, SameCommand DEF WaitsOnce, Known
          <5> QED BY <4>1, <5>1 DEF InBuffer
        <4> QED BY <4>1, <4>2 DEF WaitsOnce, InBuffer
      <3>2. CASE DestructEnqueue(k)
        <4>1. cmds' = Append(cmds, Destroy) /\ wait_all' = wait_all
          BY <3>2 DEF DestructEnqueue, EnqueueDestroy
        <4>2. Destroy \in Command /\ Destroy.type # "WaitAll"
          BY DEF Destroy, Command, CmdType
        <4> QED BY <2>4, <4>1, <4>2
      <3> QED BY <2>6, <3>1, <3>2 DEF ControlBuffers
    <2> QED BY <1>2, <2>1, <2>2, <2>3, <2>5, <2>6 DEF Buffers
  <1> QED BY <1>1, <1>2

(* A command is never taken back, and leaves the log only completed.       *)
LEMMA Advances ==
  ASSUME TypeInv, LaunchesHardware, Placed, [Next]_vars, NEW i \in HwIdx
  PROVE  /\ i \in HwIdx'
         /\ state[i] # Created => state'[i] # Created
         /\ state[i] = Completed => state'[i] = Completed
         /\ InLog(i) => InLog(i)' \/ state'[i] = Completed
  <1>0. /\ DOMAIN state = HwIdx /\ Apps \subseteq Threads
        /\ Created # Pending /\ Created # InFlight /\ Created # Completed
        /\ Pending # Completed /\ InFlight # Completed
    BY TypeFacts DEF Created, Pending, InFlight, Completed
  <1>1. CASE ~Settles
    BY <1>1, LogKept DEF HwIdx, InLog
  <1>2. CASE Launch
    <2>1. kind' = kind /\ state[cur.id] = Pending /\ (InLog(i) => InLog(i)')
          /\ state'[i] = IF i = cur.id THEN InFlight ELSE state[i]
      BY <1>2, Launches
    <2> QED BY <1>0, <2>1 DEF HwIdx
  <1>3. CASE LaunchDropped
    <2>1. UNCHANGED <<kind, cmd_log>> /\ SetStates({cur.id}, Completed)
      BY <1>3 DEF LaunchDropped, logVars
    <2> QED BY <1>0, <2>1 DEF HwIdx, SetStates, InLog
  <1>4. CASE SyncAllPost
    <2>1. kind' = kind /\ \/ UNCHANGED <<state, logVars>>
                          \/ SetStates(ToSet(cmd_log), Completed) /\ cmd_log' = <<>>
      BY <1>4 DEF SyncAllPost
    <2> QED BY <1>0, <2>1 DEF HwIdx, SetStates, InLog, logVars, ToSet
  <1>5. ASSUME NEW t, SyncCmdPost(t)
        PROVE  /\ i \in HwIdx' /\ (state'[i] = state[i] \/ state'[i] = Completed)
               /\ InLog(i) => InLog(i)' \/ state'[i] = Completed
    BY <1>0, <1>5, PoppedOrLeft DEF HwIdx
  <1>6. ASSUME NEW t \in Apps, SubmitDraw(t)
        PROVE  i \in HwIdx' /\ state'[i] = state[i] /\ cmd_log' = cmd_log
    BY <1>6, Drawn
  <1>7. ASSUME NEW t \in Apps, SubmitEnqueue(t)
        PROVE  i \in HwIdx' /\ cmd_log' = cmd_log
               /\ (state'[i] = state[i] \/ (state'[i] = Pending /\ state[i] = Created))
    <2>1. t \in Threads /\ state[arg[t]] = Created
      BY <1>0, <1>7, Enqueues DEF Placed
    <2> QED BY <1>7, <2>1, Enqueues DEF HwIdx
  <1>8. ASSUME NEW k \in Controllers, ResumeDropAll(k)
        PROVE  i \in HwIdx' /\ cmd_log' = cmd_log
               /\ (state'[i] = state[i] \/ state'[i] = Completed)
    BY <1>0, <1>8 DEF ResumeDropAll, DropAll, SetStates, logVars, HwIdx
  <1>9. ASSUME NEW k \in Controllers, ResumeDrop(k)
        PROVE  /\ i \in HwIdx' /\ (state'[i] = state[i] \/ state'[i] = Completed)
               /\ InLog(i) => state'[i] = Completed
    BY <1>0, <1>9 DEF ResumeDrop, ResumeAndDrop, SetStates, HwIdx, InLog, ToSet
  <1> DEFINE Moved == /\ i \in HwIdx'
                      /\ state[i] # Created => state'[i] # Created
                      /\ state[i] = Completed => state'[i] = Completed
                      /\ InLog(i) => InLog(i)' \/ state'[i] = Completed
  <1>10. ASSUME NEW t \in Apps, SubmitDraw(t) \/ SubmitEnqueue(t) PROVE Moved
    BY <1>0, <1>6, <1>7, <1>10 DEF InLog
  <1>11. ASSUME NEW k \in Controllers, ResumeDropAll(k) \/ ResumeDrop(k) PROVE Moved
    <2>1. CASE ResumeDropAll(k)
      BY <1>0, <1>8, <2>1 DEF InLog
    <2>2. CASE ResumeDrop(k)
      BY <1>0, <1>9, <2>2
    <2> QED BY <1>11, <2>1, <2>2
  <1>12. ASSUME NEW t, SyncCmdPost(t) PROVE Moved
    BY <1>0, <1>5, <1>12
  <1> QED
    <2>1. CASE SyncCmdPost(Worker) \/ \E t \in Apps : SyncCmdPost(t)
      BY <1>12, <2>1
    <2>2. CASE \E t \in Apps : SubmitDraw(t) \/ SubmitEnqueue(t)
      BY <1>10, <2>2
    <2>3. CASE \E k \in Controllers : ResumeDropAll(k) \/ ResumeDrop(k)
      BY <1>11, <2>3
    <2> QED BY <1>1, <1>2, <1>3, <1>4, <2>1, <2>2, <2>3 DEF Settles

(* A thread that waits for a WaitAll command keeps what it waits for.      *)
LEMMA WaitingKept ==
  ASSUME TypeInv, [Next]_vars, NEW t \in Apps, pc'[t] = "waitAll", ~CallWaitAll(t)
  PROVE  pc[t] = "waitAll" /\ arg'[t] = arg[t] /\ covers'[t] = covers[t]
  <1>0. /\ pc \in [Threads -> Labels] /\ arg \in [Threads -> Nat] /\ t \in Threads
        /\ Worker \in Threads /\ Apps \subseteq Threads /\ Controllers \subseteq Threads
        /\ covers \in [Apps -> SUBSET Nat]
        /\ t # Worker /\ \A u \in Controllers : u # t
    BY TypeFacts, ThreadsAssumption DEF TypeInv, TypeOK, WorkerTypeOK, ApiTypeOK
  <1>1. CASE WorkerStep /\ UNCHANGED apiVars
    BY <1>0, <1>1, WorkerLocal DEF Local, apiVars
  <1>2. CASE HwStep \/ UNCHANGED vars
    BY <1>2 DEF HwStep, vars, workerVars, apiVars
  <1>3. ASSUME NEW u \in Controllers, ControlCall(u) \/ ControlProgress(u)
        PROVE  pc[t] = "waitAll" /\ arg'[t] = arg[t] /\ covers'[t] = covers[t]
    <2>1. covers' = covers
      <3>1. CASE Suspend(u) \/ ResumeBegin(u) \/ DestructBegin(u)
        BY <3>1 DEF Suspend, ResumeBegin, DestructBegin
      <3>2. CASE SuspendPause(u) \/ SuspendDeactivate(u) \/ SuspendSyncHw(u)
        BY <3>2 DEF SuspendPause, SuspendDeactivate, SuspendSyncHw, apiVars
      <3>3. CASE ReactivateSync(u) \/ ReactivateRead(u) \/ ReactivateClear(u)
                 \/ ReactivateRelaunch(u)
        BY <3>3 DEF ReactivateSync, ReactivateRead, ReactivateClear, ReactivateRelaunch, apiVars
      <3>4. CASE ResumeWorker(u) \/ ResumeDropAll(u) \/ ResumeDropIdx(u) \/ ResumeDrop(u)
        BY <3>4 DEF ResumeWorker, ResumeDropAll, ResumeDropIdx, ResumeDrop, apiVars
      <3>5. CASE DestructEnqueue(u) \/ DestructWait(u)
        BY <3>5 DEF DestructEnqueue, DestructWait, apiVars
      <3> QED BY <1>3, <3>1, <3>2, <3>3, <3>4, <3>5 DEF ControlCall, ControlProgress
    <2> QED BY <1>0, <1>3, <2>1, ControlLocal DEF Local
  <1>4. ASSUME NEW u \in Apps, AppCall(u) \/ AppProgress(u), u # t
        PROVE  pc[t] = "waitAll" /\ arg'[t] = arg[t] /\ covers'[t] = covers[t]
    <2>1. covers'[t] = covers[t]
      <3>1. CASE SubmitDraw(u) \/ SubmitEnqueue(u) \/ WaitCmd(u) \/ SubmitWaitAll(u)
        BY <3>1 DEF SubmitDraw, SubmitEnqueue, WaitCmd, SubmitWaitAll, apiVars
      <3>2. CASE CmdReached(u) \/ CallWaitAll(u)
        BY <1>0, <1>4, <3>2 DEF CmdReached, CallWaitAll
      <3>3. CASE UNCHANGED apiVars
        BY <3>3 DEF apiVars
      <3> QED BY <1>4, <3>1, <3>2, <3>3 DEF AppCall, AppProgress
    <2> QED BY <1>0, <1>4, <2>1, AppLocal DEF Local
  <1>5. CASE AppCall(t) \/ AppProgress(t)
    <2>1. CASE SubmitDraw(t)
      BY <1>0, <2>1 DEF SubmitDraw, Goto
    <2>2. CASE SubmitEnqueue(t)
      BY <1>0, <2>2 DEF SubmitEnqueue, Return, Goto
    <2>3. CASE WaitCmd(t)
      BY <1>0, <2>3 DEF WaitCmd, Goto
    <2>4. CASE SubmitWaitAll(t)
      BY <2>4 DEF SubmitWaitAll, workerVars, apiVars
    <2>5. CASE CmdReached(t)
      BY <1>0, <2>5 DEF CmdReached, Return, Goto
    <2>6. CASE SyncCmdCheck(t)
      BY <1>0, <2>6 DEF SyncCmdCheck, ReturnFromSync, Goto
    <2>7. CASE SyncCmdHw(t) \/ SyncCmdPost(t)
      BY <1>0, <2>7 DEF SyncCmdHw, SyncCmdPost, ReturnFromSync, Goto
    <2>8. CASE CvWait(t) /\ UNCHANGED apiVars
      BY <2>8 DEF CvWait, threadVars, apiVars
    <2> QED BY <1>5, <2>1, <2>2, <2>3, <2>4, <2>5, <2>6, <2>7, <2>8 DEF AppCall, AppProgress
  <1> QED BY <1>1, <1>2, <1>3, <1>4, <1>5, NextCases DEF Others

(* Later drops reach further.                                              *)
DropsForward(k) ==
  /\ drop_idx <= Len(kind)
  /\ pc[k] = "dropResume" => drop_idx <= arg[k] /\ arg[k] <= Len(kind)

LEMMA DropsForwardStep ==
  ASSUME TypeInv, NEW k \in Controllers, OneController(k), DropsForward(k), [Next]_vars
  PROVE  DropsForward(k)' /\ drop_idx <= drop_idx'
  <1>0. /\ Controllers = {k} /\ k \in Threads /\ Len(kind) \in Nat /\ drop_idx \in Int
        /\ pc \in [Threads -> Labels] /\ arg \in [Threads -> Nat]
    BY TypeFacts DEF OneController, TypeInv, TypeOK, WorkerTypeOK
  <1>1. Len(kind') \in Nat /\ Len(kind) <= Len(kind')
    <2>1. CASE \E t \in Apps : SubmitDraw(t)
      <3>1. PICK l \in Kinds : kind' = Append(kind, l)
        BY <2>1 DEF SubmitDraw, DrawIdx
      <3>2. kind \in Seq(AllKinds) /\ l \in AllKinds
        BY KindsAssumption DEF TypeInv, TypeOK, BufTypeOK
      <3>3. Len(kind') = Len(kind) + 1
        BY <3>1, <3>2, AppendProperties
      <3> QED BY <1>0, <3>3
    <2>2. CASE \A t \in Apps : ~SubmitDraw(t)
      <3>1. kind' = kind
        <4>1. CASE ~Settles
          BY <4>1, LogKept
        <4>2. ASSUME NEW t, SyncCmdPost(t) PROVE kind' = kind
          BY <4>2 DEF SyncCmdPost
        <4>3. CASE Launch \/ LaunchDropped \/ SyncAllPost
          BY <4>3 DEF Launch, LaunchDropped, SyncAllPost
        <4>4. ASSUME NEW t \in Apps, SubmitEnqueue(t) PROVE kind' = kind
          BY <4>4 DEF SubmitEnqueue, EnqueueHardware
        <4>5. CASE ResumeDropAll(k) \/ ResumeDrop(k)
          BY <4>5 DEF ResumeDropAll, DropAll, ResumeDrop, ResumeAndDrop
        <4> QED BY <1>0, <2>2, <4>1, <4>2, <4>3, <4>4, <4>5 DEF Settles
      <3> QED BY <1>0, <3>1
    <2> QED BY <2>1, <2>2
  <1>2. CASE ResumeDrop(k)
    <2>1. /\ pc[k] = "dropResume" /\ drop_idx' = arg[k] /\ pc'[k] # "dropResume"
      BY <1>0, <1>2 DEF ResumeDrop, ResumeAndDrop, EndResume, Goto
    <2> QED BY <1>0, <1>1, <2>1 DEF DropsForward
  <1>3. CASE ~ResumeDrop(k)
    <2>1. drop_idx' = drop_idx
      BY <1>0, <1>3, DropIdxKept
    <2>2. CASE ResumeDropIdx(k)
      <3>1. arg'[k] = Len(kind)
        BY <1>0, <2>2 DEF ResumeDropIdx, LastDrawn
      <3> QED BY <1>0, <1>1, <2>1, <3>1 DEF DropsForward
    <2>3. CASE ~ControlCall(k) /\ ~ControlProgress(k)
      <3>1. pc'[k] = pc[k] /\ arg'[k] = arg[k]
        BY <2>3, ControlKept
      <3> QED BY <1>0, <1>1, <2>1, <3>1 DEF DropsForward
    <2>4. CASE ~ResumeDropIdx(k) /\ (ControlCall(k) \/ ControlProgress(k))
      <3>1. pc'[k] # "dropResume"
        <4>1. CASE Suspend(k) \/ ResumeBegin(k) \/ DestructBegin(k)
          BY <1>0, <4>1 DEF Suspend, ResumeBegin, DestructBegin, BeginResume, DestructResume,
             Goto
        <4>2. CASE SuspendPause(k) \/ SuspendDeactivate(k) \/ SuspendSyncHw(k)
          BY <1>0, <4>2 DEF SuspendPause, SuspendDeactivate, SuspendSyncHw, Goto
        <4>3. CASE ReactivateSync(k) \/ ReactivateRead(k) \/ ReactivateClear(k)
                   \/ ReactivateRelaunch(k)
          BY <1>0, <4>3 DEF ReactivateSync, ReactivateRead, ReactivateClear,
             ReactivateRelaunch, Goto
        <4>4. CASE ResumeWorker(k) \/ ResumeDropAll(k) \/ DestructEnqueue(k) \/ DestructWait(k)
          BY <1>0, <4>4 DEF ResumeWorker, ResumeDropAll, EndResume, DestructEnqueue,
             DestructWait, Goto
        <4> QED BY <1>3, <2>4, <4>1, <4>2, <4>3, <4>4 DEF ControlCall, ControlProgress
      <3> QED BY <1>0, <1>1, <2>1, <3>1 DEF DropsForward
    <2> QED BY <2>2, <2>3, <2>4
  <1> QED BY <1>2, <1>3

(***************************************************************************)
(* Barrier: each command that a thread waits for is over, or is ahead of   *)
(* the WaitAll command in the buffer, or is in the log while the worker    *)
(* serves the WaitAll command, or a drop that is under way reaches it.     *)
(***************************************************************************)
Over(i) == state[i] = Completed \/ i <= drop_idx

Ahead(w, i) ==
  \E p \in DOMAIN cmds :
    cmds[p] = WaitAll(w) /\ \A q \in DOMAIN cmds : cmds[q] = Hardware(i) => q < p

Syncing(w, i) ==
  cur = WaitAll(w) /\ pc[Worker] \in {"allCheck", "allSync", "allPost"} /\ InLog(i)

Doomed(k, i) == pc[k] = "dropIdx" \/ (pc[k] = "dropResume" /\ (i <= arg[k] \/ InLog(i)))

Covers(k, w, i) == Over(i) \/ Ahead(w, i) \/ Syncing(w, i) \/ Doomed(k, i)

Barrier(k) ==
  \A t \in Apps : pc[t] = "waitAll" =>
    arg[t] \in DOMAIN wait_all /\ \A i \in covers[t] : i \in Enqueued /\ Covers(k, arg[t], i)

BarrierInv(k) ==
  DrainInv(k) /\ Known /\ Placed /\ Batching /\ WaitsOnce /\ DropsForward(k) /\ Barrier(k)

LEMMA EnqueuedFacts ==
  ASSUME TypeInv, NEW i
  PROVE  i \in Enqueued <=> i \in HwIdx /\ state[i] # Created
  BY StateValues DEF Enqueued

LEMMA ValuesNext ==
  ASSUME TypeInv', NEW i \in HwIdx'
  PROVE  state'[i] \in {Created, Pending, InFlight, Completed}
  <1>1. state' \in Seq(CmdState) /\ Len(state') = Len(kind') /\ HwIdx' = 1 .. Len(kind')
    BY LenProperties DEF TypeInv, TypeOK, BufTypeOK, HwIdx
  <1>2. state'[i] \in CmdState
    BY <1>1, ElementOfSeq, LenProperties
  <1> QED BY <1>2 DEF CmdState, Created, Pending, InFlight, Completed

(* A drop under way reaches the command in the end.                        *)
LEMMA DoomedStep ==
  ASSUME TypeInv, LaunchesHardware, Placed, NEW k \in Controllers, OneController(k), [Next]_vars,
         NEW i \in HwIdx, Doomed(k, i)
  PROVE  Over(i)' \/ Doomed(k, i)'
  <1>0. /\ Controllers = {k} /\ k \in Threads /\ HwIdx = 1 .. Len(kind) /\ Len(kind) \in Nat
        /\ pc \in [Threads -> Labels] /\ arg \in [Threads -> Nat]
    BY TypeFacts DEF OneController, TypeInv, TypeOK, WorkerTypeOK
  <1>1. CASE ~ControlCall(k) /\ ~ControlProgress(k)
    <2>1. pc'[k] = pc[k] /\ arg'[k] = arg[k]
      BY <1>1, ControlKept
    <2>2. InLog(i) => InLog(i)' \/ state'[i] = Completed
      BY Advances
    <2> QED BY <2>1, <2>2 DEF Doomed, Over
  <1>2. CASE ControlCall(k) \/ ControlProgress(k)
    <2>1. ResumeDropIdx(k) \/ ResumeDrop(k)
      BY <1>2 DEF Doomed, ControlCall, ControlProgress, Suspend, ResumeBegin, DestructBegin,
         SuspendPause, SuspendDeactivate, SuspendSyncHw, ReactivateSync, ReactivateRead,
         ReactivateClear, ReactivateRelaunch, ResumeWorker, ResumeDropAll, DestructEnqueue,
         DestructWait
    <2>2. CASE ResumeDropIdx(k)
      <3>1. pc'[k] = "dropResume" /\ arg'[k] = Len(kind)
        BY <1>0, <2>2 DEF ResumeDropIdx, Goto, LastDrawn
      <3> QED BY <1>0, <3>1 DEF Doomed
    <2>3. CASE ResumeDrop(k)
      <3>1. /\ pc[k] = "dropResume" /\ drop_idx' = arg[k] /\ cmd_log' = <<>>
        BY <2>3 DEF ResumeDrop, ResumeAndDrop
      <3>2. InLog(i) => state'[i] = Completed
        BY <3>1, Advances DEF InLog
      <3> QED BY <3>1, <3>2 DEF Doomed, Over
    <2> QED BY <2>1, <2>2, <2>3
  <1> QED BY <1>1, <1>2

(* The worker that serves the WaitAll command completes the log.           *)
LEMMA SyncingStep ==
  ASSUME TypeInv, LaunchesHardware, Placed, [Next]_vars, NEW w, NEW i \in HwIdx, Syncing(w, i)
  PROVE  Over(i)' \/ Syncing(w, i)'
  <1>0. /\ pc \in [Threads -> Labels] /\ Worker \in Threads /\ DOMAIN state = HwIdx
        /\ WaitAll(w).type = "WaitAll"
    BY BufferFacts, TypeFacts DEF WaitAll
  <1>1. cur' = cur
    BY <1>0, ServingMoves DEF Syncing, Serving, WorkerDone
  <1>2. InLog(i) => InLog(i)' \/ state'[i] = Completed
    BY Advances
  <1>3. CASE WorkerStep
    <2>1. SyncAllCheck \/ SyncAllHw \/ SyncAllPost \/ CvWait(Worker)
      BY <1>3 DEF Syncing, WorkerStep, WorkerTake, WorkerIdle, LaunchBegin, LaunchFull,
         AwaitRunning, LaunchDropped, Launch, SyncCmdCheck, SyncCmdHw, SyncCmdPost, WorkerBatch,
         WorkerDone
    <2>2. CASE SyncAllCheck
      <3>1. cmd_log # <<>>
        BY DEF Syncing, InLog
      <3>2. pc'[Worker] = "allSync"
        BY <1>0, <2>2, <3>1 DEF SyncAllCheck, Goto
      <3> QED BY <1>1, <1>2, <3>2 DEF Syncing, Over
    <2>3. CASE SyncAllHw
      <3>1. pc'[Worker] = "allPost"
        BY <1>0, <2>3 DEF SyncAllHw, Goto
      <3> QED BY <1>1, <1>2, <3>1 DEF Syncing, Over
    <2>4. CASE SyncAllPost
      <3>1. CASE Unpreempted(Worker)
        <4>1. SetStates(ToSet(cmd_log), Completed)
          BY <2>4, <3>1 DEF SyncAllPost
        <4> QED BY <1>0, <4>1 DEF SetStates, ToSet, Syncing, InLog, Over
      <3>2. CASE ~Unpreempted(Worker)
        <4>1. pc'[Worker] = "allCheck"
          BY <1>0, <2>4, <3>2 DEF SyncAllPost, Goto
        <4> QED BY <1>1, <1>2, <4>1 DEF Syncing, Over
      <3> QED BY <3>1, <3>2
    <2>5. CASE CvWait(Worker)
      <3>1. pc'[Worker] = pc[Worker]
        BY <2>5 DEF CvWait, threadVars
      <3> QED BY <1>1, <1>2, <3>1 DEF Syncing, Over
    <2> QED BY <2>1, <2>2, <2>3, <2>4, <2>5
  <1>4. CASE Others \/ UNCHANGED vars
    <2>1. pc'[Worker] = pc[Worker]
      BY <1>4, OthersKeepWorker DEF Others, vars, workerVars
    <2> QED BY <1>1, <1>2, <2>1 DEF Syncing, Over
  <1> QED BY <1>3, <1>4, NextCases

(* What is ahead of the WaitAll command leaves the buffer before it.       *)
LEMMA AheadStep ==
  ASSUME TypeInv, LaunchesHardware, Placed, Kept', NEW k \in Controllers, OneController(k),
         [Next]_vars, NEW w, NEW i \in HwIdx, state[i] # Created, Ahead(w, i)
  PROVE  Covers(k, w, i)'
  <1>0. /\ Len(cmds) \in Nat /\ DOMAIN cmds = 1 .. Len(cmds) /\ cmds \in Seq(Command)
        /\ pc \in [Threads -> Labels] /\ Worker \in Threads /\ Controllers = {k}
        /\ k \in Threads /\ Apps \subseteq Threads
        /\ \A j : Hardware(j).type = "Hardware" /\ Hardware(j).id = j
        /\ WaitAll(w).type = "WaitAll"
    BY BufferFacts, TypeFacts DEF OneController, Hardware, WaitAll
  <1>1. PICK p \in DOMAIN cmds :
          cmds[p] = WaitAll(w) /\ \A q \in DOMAIN cmds : cmds[q] = Hardware(i) => q < p
    BY DEF Ahead
  <1>2. cmds # <<>>
    BY <1>1
  <1>3. CASE cmds' = cmds
    BY <1>1, <1>3 DEF Covers, Ahead
  <1>4. ASSUME NEW c \in Command, cmds' = Append(cmds, c), c # Hardware(i)
        PROVE  Covers(k, w, i)'
    <2>1. /\ DOMAIN cmds' = 1 .. Len(cmds) + 1 /\ cmds'[Len(cmds) + 1] = c
          /\ \A q \in DOMAIN cmds : cmds'[q] = cmds[q]
      BY <1>0, <1>4, AppendProperties
    <2>2. \A q \in DOMAIN cmds' : q = Len(cmds) + 1 \/ q \in DOMAIN cmds
      BY <1>0, <2>1
    <2>3. p \in DOMAIN cmds' /\ cmds'[p] = WaitAll(w)
      BY <1>0, <1>1, <2>1
    <2>4. \A q \in DOMAIN cmds' : cmds'[q] = Hardware(i) => q < p
      BY <1>1, <1>4, <2>1, <2>2
    <2> QED BY <2>3, <2>4 DEF Covers, Ahead
  <1>5. CASE WorkerTake
    <2>1. PICK c : Dispatch(c) /\ cmds' = Tail(cmds) /\ c = Head(cmds)
      BY <1>2, <1>5 DEF WorkerTake, DequeueFront, DequeueGenerate
    <2>2. Len(cmds) > 0
      BY <1>0, <1>2, EmptySeq
    <2>3. /\ DOMAIN cmds' = 1 .. Len(cmds) - 1 /\ c = cmds[1]
          /\ \A q \in DOMAIN cmds' : q \in Nat /\ q + 1 \in DOMAIN cmds /\ cmds'[q] = cmds[q + 1]
      BY <1>0, <2>1, <2>2
    <2>4. CASE p = 1
      <3>1. cur' = WaitAll(w) /\ pc'[Worker] = "allCheck" /\ ret' = "done"
        BY <1>0, <1>1, <2>1, <2>3, <2>4 DEF Dispatch, Goto
      <3>2. ~Launching' /\ ~InBuffer(Hardware(i))'
        <4>1. ASSUME NEW q \in DOMAIN cmds', cmds'[q] = Hardware(i) PROVE FALSE
          <5>1. q \in Nat /\ q + 1 < 1 /\ q >= 1
            BY <1>0, <1>1, <2>3, <2>4, <4>1
          <5> QED BY <5>1
        <4> QED BY <3>1, <4>1 DEF Launching, SyncCmdLabels, InBuffer, Hardware
      <3>3. i \in HwIdx' /\ state'[i] # Created
        BY Advances
      <3>4. TypeInv'
        BY TypeStep
      <3>5. state'[i] \in {Created, Pending, InFlight, Completed}
        BY <3>3, <3>4, ValuesNext
      <3>6. InLog(i)' \/ state'[i] = Completed
        BY <3>2, <3>3, <3>5 DEF Kept, Hardware, InBuffer, InLog
      <3> QED BY <3>1, <3>6 DEF Covers, Syncing, Over
    <2>5. CASE p # 1
      <3>1. p - 1 \in DOMAIN cmds' /\ cmds'[p - 1] = WaitAll(w)
        BY <1>0, <1>1, <2>3, <2>5
      <3>2. ASSUME NEW q \in DOMAIN cmds', cmds'[q] = Hardware(i) PROVE q < p - 1
        <4>1. q \in Nat /\ q + 1 < p
          BY <1>1, <2>3, <3>2
        <4> QED BY <1>0, <1>1, <4>1
      <3> QED BY <3>1, <3>2 DEF Covers, Ahead
    <2> QED BY <2>4, <2>5
  <1>6. ASSUME NEW t \in Apps, AppBuffers(t) PROVE Covers(k, w, i)'
    <2>1. CASE SubmitEnqueue(t)
      <3>1. cmds' = Append(cmds, Hardware(arg[t]))
        BY <2>1 DEF SubmitEnqueue, EnqueueHardware
      <3>2. Hardware(arg[t]) \in Command
        BY TypeFacts, BufferFacts DEF Hardware, Command, CmdType
      <3>3. state[arg[t]] = Created
        BY <1>0, <2>1, Enqueues DEF Placed
      <3>4. Hardware(arg[t]) # Hardware(i)
        BY <3>3 DEF Hardware
      <3> QED BY <1>4, <3>1, <3>2, <3>4
    <2>2. CASE CallWaitAll(t) \/ SubmitWaitAll(t)
      <3>1. PICK v \in 1 .. Len(wait_all) + 1 : EnqueueXQueueWaitAllCommand(v)
        BY <2>2 DEF CallWaitAll, SubmitWaitAll
      <3>2. cmds' = cmds \/ cmds' = Append(cmds, WaitAll(v))
        BY <3>1 DEF EnqueueXQueueWaitAllCommand, bufVars
      <3>3. WaitAll(v) \in Command /\ WaitAll(v) # Hardware(i)
        BY BufferFacts DEF WaitAll, Command, CmdType, Hardware
      <3> QED BY <1>3, <1>4, <3>2, <3>3
    <2> QED BY <1>6, <2>1, <2>2 DEF AppBuffers
  <1>7. CASE ResumeDropAll(k)
    <2>1. pc'[k] = "dropIdx"
      BY <1>0, <1>7 DEF ResumeDropAll, Goto
    <2> QED BY <2>1 DEF Covers, Doomed
  <1>8. CASE DestructEnqueue(k)
    <2>1. cmds' = Append(cmds, Destroy)
      BY <1>8 DEF DestructEnqueue, EnqueueDestroy
    <2>2. Destroy \in Command /\ Destroy # Hardware(i)
      BY DEF Destroy, Command, CmdType, Hardware
    <2> QED BY <1>4, <2>1, <2>2
  <1>9. CASE ~Buffers \/ WorkerIdle \/ WorkerDone
    BY <1>3, <1>9, QuietStep DEF WorkerIdle, DequeueIdle, WorkerDone
  <1> QED BY <1>0, <1>5, <1>6, <1>7, <1>8, <1>9 DEF Buffers, ControlBuffers

LEMMA EnqueuedNext ==
  ASSUME TypeInv', NEW i
  PROVE  i \in Enqueued' <=> i \in HwIdx' /\ state'[i] # Created
  <1>1. CASE i \in HwIdx'
    BY <1>1, ValuesNext DEF Enqueued, Created, Pending, InFlight, Completed
  <1>2. CASE i \notin HwIdx'
    BY <1>2 DEF Enqueued
  <1> QED BY <1>1, <1>2

(* A command that a waiting thread is sure of stays one.                   *)
LEMMA CoversStep ==
  ASSUME NEW k \in Controllers, OneController(k), BarrierInv(k), TypeInv', Kept', [Next]_vars,
         NEW w, NEW i \in Enqueued, Covers(k, w, i)
  PROVE  i \in Enqueued' /\ Covers(k, w, i)'
  <1>1. TypeInv /\ LaunchesHardware /\ Placed /\ DropsForward(k)
    BY DEF BarrierInv, DrainInv
  <1>2. i \in HwIdx /\ state[i] # Created
    BY <1>1, EnqueuedFacts
  <1>3. /\ i \in HwIdx' /\ state'[i] # Created
        /\ state[i] = Completed => state'[i] = Completed
    BY <1>1, <1>2, Advances
  <1>4. i \in Enqueued'
    BY <1>3, EnqueuedNext
  <1>5. CASE Over(i)
    <2>1. drop_idx <= drop_idx'
      BY <1>1, DropsForwardStep
    <2>2. i \in Nat /\ drop_idx \in Int
      <3>1. HwIdx = 1 .. Len(kind) /\ Len(kind) \in Nat
        BY <1>1, TypeFacts
      <3> QED BY <1>1, <1>2, <3>1 DEF TypeInv, TypeOK, WorkerTypeOK
    <2>3. drop_idx' \in Int
      BY DEF TypeInv, TypeOK, WorkerTypeOK
    <2>4. i <= drop_idx => i <= drop_idx'
      BY <2>1, <2>2, <2>3
    <2> QED BY <1>3, <1>4, <1>5, <2>4 DEF Covers, Over
  <1>6. CASE Ahead(w, i)
    BY <1>1, <1>2, <1>4, <1>6, AheadStep
  <1>7. CASE Syncing(w, i)
    <2>1. Over(i)' \/ Syncing(w, i)'
      BY <1>1, <1>2, <1>7, SyncingStep
    <2> QED BY <1>4, <2>1 DEF Covers
  <1>8. CASE Doomed(k, i)
    <2>1. Over(i)' \/ Doomed(k, i)'
      BY <1>1, <1>2, <1>8, DoomedStep
    <2> QED BY <1>4, <2>1 DEF Covers
  <1> QED BY <1>5, <1>6, <1>7, <1>8 DEF Covers

(* WaitAll that shares the last command of the buffer: everything in the   *)
(* buffer is ahead of it.  On an empty buffer, what is not over is in the  *)
(* log, which the worker completes for that command or a drop does.        *)
LEMMA SharedCovers ==
  ASSUME NEW k \in Controllers, OneController(k), BarrierInv(k), NEW w, last_cmd = WaitAll(w),
         NEW i \in Enqueued
  PROVE  Covers(k, w, i)
  <1>1. /\ TypeInv /\ Kept /\ LastOfBuffer /\ Drained /\ GivenUp(k)
        /\ Controllers = {k}
    BY DEF BarrierInv, DrainInv, OneController
  <1>2. /\ i \in HwIdx /\ state[i] \in {Pending, InFlight, Completed}
    BY <1>1, EnqueuedFacts, StateValues
  <1>3. /\ Len(cmds) \in Nat /\ DOMAIN cmds = 1 .. Len(cmds) /\ cmds \in Seq(Command)
        /\ WaitAll(w).type = "WaitAll" /\ Hardware(i).type = "Hardware" /\ Hardware(i).id = i
    BY <1>1, BufferFacts DEF WaitAll, Hardware
  <1>4. CASE cmds # <<>>
    <2>1. Len(cmds) \in DOMAIN cmds /\ cmds[Len(cmds)] = WaitAll(w)
      <3>1. Len(cmds) > 0
        BY <1>3, <1>4, EmptySeq
      <3> QED BY <1>1, <1>3, <1>4, <3>1 DEF LastOfBuffer
    <2>2. ASSUME NEW q \in DOMAIN cmds, cmds[q] = Hardware(i) PROVE q < Len(cmds)
      <3>1. q # Len(cmds)
        BY <1>3, <2>1, <2>2
      <3> QED BY <1>3, <3>1
    <2> QED BY <2>1, <2>2 DEF Covers, Ahead
  <1>5. CASE cmds = <<>>
    <2>1. Ended /\ ~InBuffer(Hardware(i))
      BY <1>3, <1>5 DEF Ended, InBuffer
    <2>2. CASE state[i] = Completed
      BY <2>2 DEF Covers, Over
    <2>3. CASE Launching /\ cur = Hardware(i)
      <3>1. /\ pc[k] \notin {"dropIdx", "dropResume"} => i <= drop_idx
            /\ pc[k] = "dropResume" => i <= arg[k]
        BY <1>1, <1>3, <2>1, <2>3 DEF GivenUp, Drops
      <3> QED BY <3>1 DEF Covers, Over, Doomed
    <2>4. CASE InLog(i)
      <3>1. CASE Dropping
        BY <1>1, <2>4, <3>1 DEF Dropping, Covers, Doomed
      <3>2. CASE ~Dropping
        <4>1. cmd_log # <<>>
          BY <2>4 DEF InLog
        <4>2. cur = WaitAll(w) /\ pc[Worker] \in {"allCheck", "allSync", "allPost"}
          BY <1>1, <2>1, <3>2, <4>1 DEF Drained
        <4> QED BY <2>4, <4>2 DEF Covers, Syncing
      <3> QED BY <3>1, <3>2
    <2> QED BY <1>1, <1>2, <2>1, <2>2, <2>3, <2>4 DEF Kept
  <1> QED BY <1>4, <1>5

(* A thread that begins to wait is sure of every command enqueued so far.  *)
LEMMA CallCovers ==
  ASSUME NEW k \in Controllers, OneController(k), BarrierInv(k), NEW t \in Apps, CallWaitAll(t)
  PROVE  /\ arg'[t] \in DOMAIN wait_all'
         /\ \A i \in covers'[t] : i \in Enqueued' /\ Covers(k, arg[t], i)'
  <1>0. /\ TypeInv /\ Known /\ Controllers = {k}
        /\ wait_all \in Seq(CmdState) /\ Len(wait_all) \in Nat
        /\ DOMAIN wait_all = 1 .. Len(wait_all)
        /\ Len(cmds) \in Nat /\ DOMAIN cmds = 1 .. Len(cmds) /\ cmds \in Seq(Command)
        /\ pc \in [Threads -> Labels] /\ arg \in [Threads -> Nat] /\ covers \in [Apps -> SUBSET Nat]
        /\ t \in Threads /\ k \in Threads /\ Worker \in Threads /\ t # k /\ t # Worker
    BY BufferFacts, ThreadsAssumption
       DEF BarrierInv, DrainInv, OneController, TypeInv, TypeOK, WorkerTypeOK, ApiTypeOK
  <1>1. PICK w \in 1 .. Len(wait_all) + 1 :
          EnqueueXQueueWaitAllCommand(w) /\ arg' = [arg EXCEPT ![t] = w]
    BY DEF CallWaitAll
  <1>2. /\ UNCHANGED <<kind, state, cmd_log, drop_idx, cur>>
        /\ arg'[t] = w /\ arg'[k] = arg[k] /\ covers'[t] = Enqueued
        /\ pc'[k] = pc[k] /\ pc'[Worker] = pc[Worker]
    BY <1>0, <1>1 DEF CallWaitAll, EnqueueXQueueWaitAllCommand, bufVars, logVars, Goto
  <1>3. Enqueued' = Enqueued
    BY <1>2 DEF Enqueued, HwIdx
  <1>4. CASE last_cmd = WaitAll(w) /\ UNCHANGED bufVars
    <2>1. w \in DOMAIN wait_all'
      BY <1>0, <1>4 DEF Known, WaitAll, bufVars
    <2>2. ASSUME NEW i \in Enqueued PROVE Covers(k, w, i)'
      <3>1. Covers(k, w, i)
        BY <1>4, SharedCovers
      <3>2. cmds' = cmds
        BY <1>4 DEF bufVars
      <3> QED BY <1>2, <3>1, <3>2 DEF Covers, Over, Ahead, Syncing, Doomed, InLog
    <2> QED BY <1>2, <1>3, <2>1, <2>2
  <1>5. CASE w = Len(wait_all) + 1 /\ wait_all' = Append(wait_all, Pending)
             /\ cmds' = Append(cmds, WaitAll(w))
    <2>1. w \in DOMAIN wait_all'
      <3>1. Pending \in CmdState
        BY DEF Pending, CmdState
      <3> QED BY <1>0, <1>5, <3>1, AppendProperties
    <2>2. /\ DOMAIN cmds' = 1 .. Len(cmds) + 1 /\ cmds'[Len(cmds) + 1] = WaitAll(w)
      <3>1. WaitAll(w) \in Command
        BY <1>0 DEF WaitAll, Command, CmdType
      <3> QED BY <1>0, <1>5, <3>1, AppendProperties
    <2>3. ASSUME NEW i \in Enqueued PROVE Covers(k, w, i)'
      <3>1. ASSUME NEW q \in DOMAIN cmds', cmds'[q] = Hardware(i) PROVE q < Len(cmds) + 1
        <4>1. q # Len(cmds) + 1
          BY <2>2, <3>1 DEF WaitAll, Hardware
        <4> QED BY <1>0, <2>2, <4>1
      <3>2. Len(cmds) + 1 \in DOMAIN cmds'
        BY <1>0, <2>2
      <3> QED BY <2>2, <3>1, <3>2 DEF Covers, Ahead
    <2> QED BY <1>2, <1>3, <2>1, <2>3
  <1> QED BY <1>1, <1>4, <1>5 DEF EnqueueXQueueWaitAllCommand

LEMMA BarrierStep ==
  ASSUME NEW k \in Controllers, OneController(k), BarrierInv(k), TypeInv', Kept', [Next]_vars
  PROVE  Barrier(k)'
  <1> SUFFICES ASSUME NEW t \in Apps, pc'[t] = "waitAll"
               PROVE  /\ arg'[t] \in DOMAIN wait_all'
                      /\ \A i \in covers'[t] : i \in Enqueued' /\ Covers(k, arg[t], i)'
    BY DEF Barrier
  <1>1. CASE CallWaitAll(t)
    BY <1>1, CallCovers
  <1>2. CASE ~CallWaitAll(t)
    <2>1. TypeInv /\ Known /\ Barrier(k)
      BY DEF BarrierInv, DrainInv
    <2>2. pc[t] = "waitAll" /\ arg'[t] = arg[t] /\ covers'[t] = covers[t]
      BY <1>2, <2>1, WaitingKept
    <2>3. DOMAIN wait_all \subseteq DOMAIN wait_all'
      BY <2>1, KnownStep
    <2>4. PICK w : w = arg[t]
      OBVIOUS
    <2>5. ASSUME NEW i \in covers[t] PROVE i \in Enqueued' /\ Covers(k, w, i)'
      <3>1. i \in Enqueued /\ Covers(k, w, i)
        BY <2>1, <2>2, <2>4 DEF Barrier
      <3> QED BY <3>1, CoversStep
    <2>6. w \in DOMAIN wait_all'
      BY <2>1, <2>2, <2>3, <2>4 DEF Barrier
    <2> QED BY <2>2, <2>4, <2>5, <2>6
  <1> QED BY <1>1, <1>2

LEMMA BarrierStart ==
  ASSUME NEW k \in Controllers, Init
  PROVE  BarrierInv(k)
  <1>1. /\ kind = <<>> /\ cmds = <<>> /\ pc[Worker] = "dequeue" /\ drop_idx = -1
        /\ pc[k] = "idle" /\ \A t \in Apps : pc[t] = "idle"
    BY ThreadsAssumption DEF Init, BufInit, WorkerInit, Threads
  <1>2. Batching /\ WaitsOnce
    BY <1>1 DEF Batching, WaitsOnce, SyncCmdLabels, Serving
  <1>3. DropsForward(k) /\ Barrier(k)
    BY <1>1 DEF DropsForward, Barrier
  <1> QED BY <1>2, <1>3, TypeStart, DrainStart, RestStart, DroppedStart
          DEF BarrierInv, DrainInv, RestInv, DroppedInv

LEMMA BarrierInvStep ==
  ASSUME NEW k \in Controllers, OneController(k), BarrierInv(k), [Next]_vars
  PROVE  BarrierInv(k)'
  <1>1. DrainInv(k)'
    BY TypeStep, LaunchesHardwareStep, KeptStep, LastStep, NoneLeftStep, DrainedStep,
       GivenUpStep DEF BarrierInv, DrainInv
  <1>2. Known' /\ Placed' /\ Batching' /\ WaitsOnce' /\ DropsForward(k)'
    BY KnownStep, PlacedStep, BatchingStep, WaitsOnceStep, DropsForwardStep
       DEF BarrierInv, DrainInv
  <1>3. Barrier(k)'
    BY <1>1, BarrierStep DEF DrainInv
  <1> QED BY <1>1, <1>2, <1>3 DEF BarrierInv

(* When WaitAll returns, each command enqueued before the call is over:    *)
(* completed, or given up by a drop, if none is under way.  So it is with  *)
(* any number of threads that submit and wait, whether the call enqueued   *)
(* a WaitAll command, shared the last one or found the queue idle, across  *)
(* every suspension and drop of the one controller.                        *)
THEOREM BarrierKept ==
  ASSUME NEW k \in Controllers, OneController(k)
  PROVE  Spec => []WaitAllIsBarrier
  <1>1. Init => BarrierInv(k)
    BY BarrierStart
  <1>2. BarrierInv(k) /\ [Next]_vars => BarrierInv(k)'
    BY BarrierInvStep
  <1>3. BarrierInv(k) => WaitAllIsBarrier
    <2> SUFFICES ASSUME BarrierInv(k), NEW t \in Apps, pc[t] = "waitAll",
                        wait_all[arg[t]] = Completed, ~Dropping, NEW i \in covers[t]
                 PROVE  state[i] = Completed \/ i <= drop_idx
      BY DEF WaitAllIsBarrier
    <2>1. Covers(k, arg[t], i) /\ WaitsOnce
      BY DEF BarrierInv, Barrier
    <2>2. WaitAll(arg[t]).type = "WaitAll" /\ WaitAll(arg[t]).id = arg[t]
      BY DEF WaitAll
    <2>3. ~Ahead(arg[t], i) /\ ~Syncing(arg[t], i)
      BY <2>1, <2>2 DEF WaitsOnce, Ahead, Syncing, Serving
    <2>4. ~Doomed(k, i)
      BY DEF Dropping, Doomed
    <2> QED BY <2>1, <2>3, <2>4 DEF Covers, Over
  <1> QED BY <1>1, <1>2, <1>3, PTL DEF Spec
-----------------------------------------------------------------------------
(***************************************************************************)
(* An XQueue is the queue that the scheduler relies on (SchedulableQueue), *)
(* with one controller that does not drop commands, and any number of      *)
(* threads that submit and wait.                                           *)
(*                                                                         *)
(* Left: what is submitted and not completed, which grows with a submission*)
(* only.  DropsLast: the destructor is the only one that drops, and it     *)
(* finds nothing left.                                                     *)
(***************************************************************************)
NeverDrops(k) == OneController(k) /\ (Level = 1 \/ ResumeFlags \subseteq {"keep"})

Left == {i \in Enqueued : state[i] # Completed}

Reactivating == {"reSync", "reRead", "reClear", "relaunch"}

DropsLast(k) ==
  /\ pc[k] \in Dropper => terminated
  /\ pc[k] \in Reactivating /\ flag[k] = "drop" => terminated
  /\ Level = 1 => pc[k] \notin Reactivating

Finished ==
  terminated => /\ \A t \in Apps : pc[t] = "idle"
                /\ \A i \in HwIdx : state[i] = Completed

LEMMA LeftFacts ==
  ASSUME TypeInv
  PROVE  /\ \A i : i \in Left <=> i \in HwIdx /\ state[i] # Created /\ state[i] # Completed
         /\ IsFiniteSet(Left) /\ Cardinality(Left) \in Nat
  <1>1. \A i : i \in Left <=> i \in HwIdx /\ state[i] # Created /\ state[i] # Completed
    BY EnqueuedFacts DEF Left
  <1>2. Left \subseteq 1 .. Len(kind) /\ Len(kind) \in Nat
    BY <1>1, TypeFacts
  <1>3. IsFiniteSet(1 .. Len(kind))
    BY <1>2, FS_Interval
  <1>4. IsFiniteSet(Left)
    BY <1>2, <1>3, FS_Subset
  <1> QED BY <1>1, <1>4, FS_CardinalityType

LEMMA LeftNext ==
  ASSUME TypeInv', NEW i
  PROVE  i \in Left' <=> i \in HwIdx' /\ state'[i] # Created /\ state'[i] # Completed
  BY EnqueuedNext DEF Left

(* A step that completes commands, and changes nothing else of them.       *)
LEMMA LeftShrinks ==
  ASSUME TypeInv, TypeInv', kind' = kind,
         \A i \in HwIdx : state'[i] \in {state[i], Completed}
  PROVE  Left' \subseteq Left
  BY LeftFacts, LeftNext DEF HwIdx

LEMMA SetStatesCompletes ==
  ASSUME TypeInv, NEW S, SetStates(S, Completed)
  PROVE  \A i \in HwIdx : state'[i] \in {state[i], Completed}
  BY TypeFacts DEF SetStates

LEMMA LeftStep ==
  ASSUME TypeInv, TypeInv', LaunchesHardware, Placed, [Next]_vars
  PROVE  \/ Left' \subseteq Left
         \/ \E t \in Apps : SubmitEnqueue(t) /\ arg[t] \notin Left /\ Left' = Left \cup {arg[t]}
  <1>1. CASE ~Settles
    <2>1. kind' = kind /\ state' = state
      BY <1>1, LogKept
    <2> QED BY <2>1, LeftShrinks
  <1>2. CASE Launch
    <2>1. /\ kind' = kind /\ cur.id \in HwIdx /\ state[cur.id] = Pending
          /\ \A i \in HwIdx : state'[i] = IF i = cur.id THEN InFlight ELSE state[i]
      BY <1>2, Launches
    <2> QED BY <2>1, LeftFacts, LeftNext
            DEF HwIdx, Created, Pending, InFlight, Completed
  <1>3. CASE LaunchDropped
    BY <1>3, SetStatesCompletes, LeftShrinks DEF LaunchDropped
  <1>4. CASE SyncAllPost
    <2>1. kind' = kind /\ (state' = state \/ SetStates(ToSet(cmd_log), Completed))
      BY <1>4 DEF SyncAllPost
    <2> QED BY <2>1, SetStatesCompletes, LeftShrinks
  <1>5. ASSUME NEW t, SyncCmdPost(t) PROVE Left' \subseteq Left
    <2>1. kind' = kind /\ (state' = state \/ \E S : SetStates(S, Completed))
      BY <1>5 DEF SyncCmdPost
    <2> QED BY <2>1, SetStatesCompletes, LeftShrinks
  <1>6. ASSUME NEW k, ResumeDropAll(k) \/ ResumeDrop(k) PROVE Left' \subseteq Left
    <2>1. kind' = kind /\ \E S : SetStates(S, Completed)
      BY <1>6 DEF ResumeDropAll, DropAll, ResumeDrop, ResumeAndDrop
    <2> QED BY <2>1, SetStatesCompletes, LeftShrinks
  <1>7. ASSUME NEW t \in Apps, SubmitDraw(t) PROVE Left' \subseteq Left
    <2>1. /\ HwIdx' = HwIdx \cup {Len(kind) + 1}
          /\ \A i \in HwIdx : state'[i] = state[i]
          /\ state'[Len(kind) + 1] = Created
      BY <1>7, Drawn
    <2> QED BY <2>1, LeftFacts, LeftNext
  <1>8. ASSUME NEW t \in Apps, SubmitEnqueue(t)
        PROVE  arg[t] \notin Left /\ Left' = Left \cup {arg[t]}
    <2>1. /\ kind' = kind /\ arg[t] \in HwIdx /\ Submitting(t, arg[t]) /\ t \in Threads
          /\ \A i \in HwIdx : state'[i] = IF i = arg[t] THEN Pending ELSE state[i]
      BY <1>8, Enqueues, TypeFacts
    <2>2. state[arg[t]] = Created
      BY <2>1 DEF Placed
    <2>3. \A i : i \in Left' <=> i \in Left \/ i = arg[t]
      BY <2>1, LeftFacts, LeftNext DEF HwIdx, Created, Pending, Completed
    <2> QED BY <2>2, <2>3, LeftFacts
  <1> QED BY <1>1, <1>2, <1>3, <1>4, <1>5, <1>6, <1>7, <1>8 DEF Settles

(* A queue that is terminated stays finished: nobody submits any more.     *)
LEMMA FinishedStep ==
  ASSUME TypeInv, TypeInv', LaunchesHardware, Placed, Finished, [Next]_vars
  PROVE  Finished'
  <1>0. /\ pc \in [Threads -> Labels] /\ Worker \in Threads /\ Controllers \subseteq Threads
        /\ Apps \subseteq Threads /\ \A t \in Apps : t # Worker /\ t \notin Controllers
    BY TypeFacts, ThreadsAssumption
  <1>1. CASE terminated
    <2>2. ASSUME NEW t \in Apps PROVE ~AppCall(t) /\ ~AppProgress(t)
      BY <1>1, <2>2 DEF Finished, AppCall, AppProgress, SubmitDraw, WaitCmd, CallWaitAll,
         SubmitWaitAll, SubmitEnqueue, CmdReached, SyncCmdCheck, SyncCmdHw, SyncCmdPost, CvWait
    <2>3. \A t \in Apps : pc'[t] = pc[t]
      <3>1. CASE WorkerStep
        BY <1>0, <3>1, WorkerLocal DEF Local
      <3>2. CASE HwStep \/ UNCHANGED vars
        BY <3>2 DEF HwStep, vars, workerVars
      <3>3. ASSUME NEW k \in Controllers, ControlCall(k) \/ ControlProgress(k)
            PROVE  \A t \in Apps : pc'[t] = pc[t]
        BY <1>0, <3>3, ControlLocal DEF Local
      <3> QED BY <2>2, <3>1, <3>2, <3>3, NextCases DEF Others
    <2>4. kind' = kind /\ \A i \in HwIdx : state'[i] \in {state[i], Completed}
      <3>1. CASE ~Settles
        BY <3>1, LogKept
      <3>2. ~Launch
        BY <1>1, Launches DEF Finished, Pending, Completed
      <3>3. CASE LaunchDropped
        BY <3>3, SetStatesCompletes DEF LaunchDropped
      <3>4. CASE SyncAllPost \/ SyncCmdPost(Worker)
        <4>1. kind' = kind /\ (state' = state \/ \E S : SetStates(S, Completed))
          BY <3>4 DEF SyncAllPost, SyncCmdPost
        <4> QED BY <4>1, SetStatesCompletes
      <3>5. ASSUME NEW k \in Controllers, ResumeDropAll(k) \/ ResumeDrop(k)
            PROVE  kind' = kind /\ \A i \in HwIdx : state'[i] \in {state[i], Completed}
        <4>1. kind' = kind /\ \E S : SetStates(S, Completed)
          BY <3>5 DEF ResumeDropAll, DropAll, ResumeDrop, ResumeAndDrop
        <4> QED BY <4>1, SetStatesCompletes
      <3>6. ASSUME NEW t \in Apps
            PROVE  ~SubmitDraw(t) /\ ~SubmitEnqueue(t) /\ ~SyncCmdPost(t)
        BY <1>1 DEF Finished, SubmitDraw, SubmitEnqueue, SyncCmdPost
      <3> QED BY <3>1, <3>2, <3>3, <3>4, <3>5, <3>6 DEF Settles
    <2> QED BY <1>1, <2>3, <2>4 DEF Finished, HwIdx
  <1>2. CASE ~terminated /\ terminated'
    <2>1. PICK k \in Controllers : ControlCall(k) \/ ControlProgress(k)
      BY <1>2, FlagsKept
    <2>2. DestructBegin(k)
      BY <1>2, <2>1 DEF ControlCall, ControlProgress, Suspend, ResumeBegin,
         SuspendPause, SuspendDeactivate, SuspendSyncHw, ReactivateSync, ReactivateRead,
         ReactivateClear, ReactivateRelaunch, ResumeWorker, ResumeDropAll, ResumeDropIdx,
         ResumeDrop, DestructEnqueue, DestructWait, apiVars
    <2>3. \A t \in Apps : pc'[t] = pc[t]
      BY <1>0, <2>1, ControlLocal DEF Local
    <2> QED BY <2>2, <2>3 DEF DestructBegin, Finished, bufVars, HwIdx
  <1>3. CASE ~terminated'
    BY <1>3 DEF Finished
  <1> QED BY <1>1, <1>2, <1>3

LEMMA DropsLastStep ==
  ASSUME TypeInv, NEW k \in Controllers, NeverDrops(k), DropsLast(k), [Next]_vars
  PROVE  DropsLast(k)'
  <1>0. /\ pc \in [Threads -> Labels] /\ k \in Threads /\ Controllers = {k}
        /\ flag \in [Controllers -> {"keep", "drop", "async", "sync"}]
        /\ Level \in 1 .. 2
    BY TypeFacts, LevelAssumption DEF TypeInv, TypeOK, ApiTypeOK, NeverDrops, OneController
  <1>1. CASE ~ControlCall(k) /\ ~ControlProgress(k)
    <2>1. pc'[k] = pc[k] /\ flag' = flag /\ terminated' = terminated
      BY <1>0, <1>1, ControlKept, FlagKept, FlagsKept
    <2> QED BY <2>1 DEF DropsLast
  <1>2. CASE Suspend(k) \/ SuspendPause(k) \/ SuspendDeactivate(k) \/ SuspendSyncHw(k)
    <2>1. pc'[k] \in {"pause", "deactivate", "syncHw", "idle"}
      BY <1>0, <1>2 DEF Suspend, SuspendPause, SuspendDeactivate, SuspendSyncHw, Goto
    <2> QED BY <2>1 DEF DropsLast, Dropper, Reactivating
  <1>3. CASE ResumeBegin(k)
    <2>1. PICK f \in ResumeFlags : BeginResume(k, f)
      BY <1>3 DEF ResumeBegin
    <2>2. /\ pc'[k] = IF Level = 1 THEN "resume" ELSE "reSync"
          /\ flag'[k] = f
      BY <1>0, <2>1 DEF BeginResume, Goto
    <2>3. Level # 1 => f = "keep"
      BY DEF NeverDrops
    <2> QED BY <2>2, <2>3 DEF DropsLast, Dropper, Reactivating
  <1>4. CASE DestructBegin(k)
    <2>1. /\ terminated'
          /\ \/ pc'[k] = IF Level = 1 THEN "resume" ELSE "reSync"
             \/ pc'[k] = "enqDestroy"
      BY <1>0, <1>4 DEF DestructBegin, DestructResume, BeginResume, Goto
    <2> QED BY <2>1 DEF DropsLast, Dropper, Reactivating
  <1>5. CASE ReactivateSync(k) \/ ReactivateRead(k) \/ ReactivateClear(k)
             \/ ReactivateRelaunch(k)
    <2>1. UNCHANGED <<terminated, flag>> /\ pc[k] \in Reactivating
      BY <1>5 DEF ReactivateSync, ReactivateRead, ReactivateClear, ReactivateRelaunch, apiVars,
         Reactivating
    <2>2. \/ pc'[k] \in Reactivating \cup {"resume"}
          \/ pc'[k] = "dropAll" /\ flag[k] = "drop"
      BY <1>0, <1>5 DEF ReactivateSync, ReactivateRead, ReactivateClear, ReactivateRelaunch,
         Goto, Reactivating
    <2> QED BY <2>1, <2>2 DEF DropsLast, Dropper, Reactivating
  <1>6. CASE ResumeWorker(k) \/ ResumeDrop(k) \/ DestructEnqueue(k) \/ DestructWait(k)
    <2>1. pc'[k] \in {"idle", "enqDestroy", "waitDestroy", "destroyed"}
      BY <1>0, <1>6 DEF ResumeWorker, ResumeDrop, EndResume, DestructEnqueue, DestructWait, Goto
    <2> QED BY <2>1 DEF DropsLast, Dropper, Reactivating
  <1>7. CASE ResumeDropAll(k) \/ ResumeDropIdx(k)
    <2>1. UNCHANGED terminated /\ pc[k] \in Dropper /\ pc'[k] \in Dropper
      BY <1>0, <1>7 DEF ResumeDropAll, ResumeDropIdx, apiVars, Dropper, Goto
    <2> QED BY <2>1 DEF DropsLast, Dropper, Reactivating
  <1> QED BY <1>1, <1>2, <1>3, <1>4, <1>5, <1>6, <1>7 DEF ControlCall, ControlProgress

QueueInv(k) ==
  /\ DrainInv(k) /\ Placed /\ Alive /\ Matches(k) /\ NotEnding(k)
  /\ Finished /\ DropsLast(k)

LEMMA QueueInvStart ==
  ASSUME NEW k \in Controllers, Init
  PROVE  QueueInv(k)
  <1>1. ~terminated /\ pc[k] = "idle"
    BY ThreadsAssumption DEF Init, WorkerInit, Threads
  <1>2. Finished /\ DropsLast(k)
    BY <1>1 DEF Finished, DropsLast, Dropper, Reactivating
  <1> QED BY <1>2, TypeStart, DrainStart, RestStart, MatchStart, DroppedStart
          DEF QueueInv, DrainInv, RestInv, DroppedInv

LEMMA QueueInvStep ==
  ASSUME NEW k \in Controllers, NeverDrops(k), QueueInv(k), [Next]_vars
  PROVE  QueueInv(k)'
  <1>0. OneController(k) /\ TypeInv /\ LaunchesHardware
    BY DEF NeverDrops, QueueInv, DrainInv
  <1>1. DrainInv(k)'
    BY <1>0, TypeStep, LaunchesHardwareStep, KeptStep, LastStep, NoneLeftStep, DrainedStep,
       GivenUpStep DEF QueueInv, DrainInv
  <1>2. Placed' /\ Alive'
    BY <1>0, PlacedStep, AliveStep DEF QueueInv
  <1>3. Matches(k)' /\ NotEnding(k)'
    BY <1>0, MatchesStep, NotEndingStep DEF QueueInv
  <1>4. Finished' /\ DropsLast(k)'
    BY <1>0, <1>1, FinishedStep, DropsLastStep DEF QueueInv, DrainInv
  <1> QED BY <1>1, <1>2, <1>3, <1>4 DEF QueueInv

(* Fewer commands are left, or as many.                                    *)
LEMMA FewerLeft ==
  ASSUME TypeInv, TypeInv', Left' \subseteq Left
  PROVE  Cardinality(Left)' = Cardinality(Left) \/ Cardinality(Left)' \in 0 .. Cardinality(Left) - 1
  <1>1. IsFiniteSet(Left) /\ Cardinality(Left) \in Nat
    BY LeftFacts
  <1>2. Cardinality(Left') \in Nat /\ Cardinality(Left') <= Cardinality(Left)
    BY <1>1, FS_Subset, FS_CardinalityType
  <1> QED BY <1>1, <1>2

(* What the last event was changes with a submission, and when the worker  *)
(* finds the buffer empty.                                                 *)
LEMMA LastEventKept ==
  ASSUME TypeInv, [Next]_vars, ~WorkerIdle, \A t \in Apps : ~SubmitEnqueue(t)
  PROVE  xq_state' = xq_state
  <1>1. CASE ~Buffers
    BY <1>1, QuietStep
  <1>2. CASE WorkerTake \/ WorkerDone
    BY <1>2 DEF WorkerTake, DequeueFront, DequeueGenerate, WorkerDone
  <1>3. CASE \E t \in Apps : CallWaitAll(t) \/ SubmitWaitAll(t)
    BY <1>3 DEF CallWaitAll, SubmitWaitAll, EnqueueXQueueWaitAllCommand, bufVars
  <1>4. CASE \E k \in Controllers : ResumeDropAll(k) \/ DestructEnqueue(k)
    BY <1>4 DEF ResumeDropAll, DropAll, DestructEnqueue, EnqueueDestroy
  <1> QED BY <1>1, <1>2, <1>3, <1>4 DEF Buffers, AppBuffers, ControlBuffers

(* Whether the worker is paused changes with the two steps of the          *)
(* controller that say so.                                                 *)
LEMMA PausedKept ==
  ASSUME NEW k \in Controllers, NeverDrops(k), QueueInv(k), [Next]_vars, ~terminated,
         ~SuspendPause(k), ~ResumeWorker(k)
  PROVE  worker_state' = worker_state
  <1>0. /\ Controllers = {k} /\ TypeInv
    BY DEF NeverDrops, OneController, QueueInv, DrainInv
  <1>1. CASE ~WorkerDone /\ ~ControlCall(k) /\ ~ControlProgress(k)
    BY <1>0, <1>1, StateKept
  <1>2. CASE WorkerDone
    <2>1. cur.type # "Destroy"
      BY <1>0 DEF QueueInv, NotEnding, Ending, Alive
    <2> QED BY <1>2, <2>1 DEF WorkerDone
  <1>3. CASE ControlCall(k)
    BY <1>3 DEF ControlCall, Suspend, ResumeBegin, DestructBegin
  <1>4. CASE SuspendDeactivate(k) \/ SuspendSyncHw(k)
    BY <1>4 DEF SuspendDeactivate, SuspendSyncHw
  <1>5. CASE ReactivateSync(k) \/ ReactivateRead(k) \/ ReactivateClear(k) \/ ReactivateRelaunch(k)
    BY <1>5 DEF ReactivateSync, ReactivateRead, ReactivateClear, ReactivateRelaunch
  <1>6. CASE ResumeDropAll(k) \/ ResumeDropIdx(k) \/ ResumeDrop(k)
    BY <1>6 DEF QueueInv, DropsLast, Dropper, ResumeDropAll, ResumeDropIdx, ResumeDrop
  <1>7. CASE DestructEnqueue(k) \/ DestructWait(k)
    BY <1>7 DEF DestructEnqueue, DestructWait
  <1> QED BY <1>1, <1>2, <1>3, <1>4, <1>5, <1>6, <1>7 DEF ControlProgress

(* What a step of the queue is to the scheduler.                           *)
LEMMA AsQueue ==
  ASSUME terminated = FALSE, terminated' = FALSE
  PROVE  /\ Cardinality(Left)' = Cardinality(Left) /\ xq_state' = xq_state
              /\ worker_state' = worker_state
            => UNCHANGED Schedulable!vars
         /\ Cardinality(Left)' = Cardinality(Left) + 1 /\ xq_state' = "Ready"
              /\ worker_state' = worker_state
            => Schedulable!Submit
         /\ Cardinality(Left)' \in 0 .. Cardinality(Left) - 1 /\ xq_state' = xq_state
              /\ worker_state' = worker_state
            => Schedulable!Complete
         /\ Cardinality(Left)' = Cardinality(Left) /\ Cardinality(Left) = 0
              /\ xq_state = "Ready" /\ xq_state' = "Idle" /\ worker_state' = worker_state
            => Schedulable!ReportIdle
         /\ Cardinality(Left)' = Cardinality(Left) /\ xq_state' = xq_state
              /\ (worker_state' = "Paused" <=> worker_state # "Paused")
            => Schedulable!Control
  <1>1. ASSUME Cardinality(Left)' = Cardinality(Left), xq_state' = xq_state,
               worker_state' = worker_state
        PROVE  UNCHANGED Schedulable!vars
    BY <1>1 DEF Left, Schedulable!vars
  <1>2. ASSUME Cardinality(Left)' = Cardinality(Left) + 1, xq_state' = "Ready",
               worker_state' = worker_state
        PROVE  Schedulable!Submit
    BY <1>2 DEF Left, Schedulable!Submit
  <1>3. ASSUME Cardinality(Left)' \in 0 .. Cardinality(Left) - 1, xq_state' = xq_state,
               worker_state' = worker_state
        PROVE  Schedulable!Complete
    BY <1>3 DEF Left, Schedulable!Complete
  <1>4. ASSUME Cardinality(Left)' = Cardinality(Left), Cardinality(Left) = 0,
               xq_state = "Ready", xq_state' = "Idle", worker_state' = worker_state
        PROVE  Schedulable!ReportIdle
    BY <1>4 DEF Left, Schedulable!ReportIdle
  <1>5. ASSUME Cardinality(Left)' = Cardinality(Left), xq_state' = xq_state,
               worker_state' = "Paused" <=> worker_state # "Paused"
        PROVE  Schedulable!Control
    BY <1>5 DEF Left, Schedulable!Control
  <1> QED BY <1>1, <1>2, <1>3, <1>4, <1>5

LEMMA ActsStep ==
  ASSUME NEW k \in Controllers, NeverDrops(k), QueueInv(k), [Next]_vars
  PROVE  [Schedulable!Next]_Schedulable!vars
  <1>0. /\ Controllers = {k} /\ TypeInv /\ TypeInv' /\ QueueInv(k)' /\ LaunchesHardware /\ Placed
        /\ terminated \in BOOLEAN /\ terminated' \in BOOLEAN /\ OneController(k)
        /\ xq_state \in {"Idle", "Ready"}
    BY QueueInvStep DEF NeverDrops, OneController, QueueInv, DrainInv, TypeInv, TypeOK, ApiTypeOK,
       BufTypeOK
  <1>1. CASE terminated
    <2>1. terminated'
      BY <1>0, <1>1, AliveStep DEF QueueInv
    <2>2. Left = {} /\ Left' = {}
      BY <1>0, <1>1, <2>1, LeftFacts, LeftNext DEF QueueInv, Finished
    <2> QED BY <1>1, <2>1, <2>2 DEF Left, Schedulable!vars
  <1>2. CASE ~terminated /\ terminated'
    <2>1. ControlCall(k) \/ ControlProgress(k)
      BY <1>0, <1>2, FlagsKept
    <2>2. DestructBegin(k)
      BY <1>2, <2>1 DEF ControlCall, ControlProgress, Suspend, ResumeBegin,
         SuspendPause, SuspendDeactivate, SuspendSyncHw, ReactivateSync, ReactivateRead,
         ReactivateClear, ReactivateRelaunch, ResumeWorker, ResumeDropAll, ResumeDropIdx,
         ResumeDrop, DestructEnqueue, DestructWait, apiVars
    <2>3. Left = {} /\ Left' = {}
      BY <1>0, <2>2, LeftFacts, LeftNext DEF DestructBegin, bufVars, HwIdx
    <2>4. Cardinality({}) = 0
      BY FS_EmptySet
    <2>5. Schedulable!Destruct
      BY <1>0, <1>2, <2>3, <2>4 DEF Left, Schedulable!Destruct
    <2> QED BY <2>5 DEF Schedulable!Next
  <1>3. ASSUME ~terminated, ~terminated', NEW t \in Apps, SubmitEnqueue(t)
        PROVE  Schedulable!Next
    <2>1. /\ kind' = kind /\ arg[t] \in HwIdx /\ Submitting(t, arg[t]) /\ t \in Threads
          /\ \A i \in HwIdx : state'[i] = IF i = arg[t] THEN Pending ELSE state[i]
      BY <1>0, <1>3, Enqueues, TypeFacts
    <2>2. state[arg[t]] = Created
      BY <1>0, <2>1 DEF Placed
    <2>3. arg[t] \notin Left /\ Left' = Left \cup {arg[t]}
      <3>1. \A i : i \in Left' <=> i \in Left \/ i = arg[t]
        BY <1>0, <2>1, LeftFacts, LeftNext DEF HwIdx, Created, Pending, Completed
      <3> QED BY <1>0, <2>2, <3>1, LeftFacts
    <2>4. Cardinality(Left') = Cardinality(Left) + 1
      BY <1>0, <2>3, LeftFacts, FS_AddElement
    <2>5. xq_state' = "Ready" /\ worker_state' = worker_state
      BY <1>3 DEF SubmitEnqueue, EnqueueHardware
    <2>6. Schedulable!Submit
      BY <1>0, <1>3, <2>4, <2>5, AsQueue
    <2> QED BY <2>6 DEF Schedulable!Next
  <1>4. CASE ~terminated /\ ~terminated' /\ WorkerIdle
    <2>1. kind' = kind /\ state' = state /\ xq_state' = "Idle" /\ worker_state' = worker_state
      BY <1>4 DEF WorkerIdle, DequeueIdle
    <2>2. Left = {}
      <3>1. cmd_log = <<>> /\ ~Launching /\ cmds = <<>> /\ Kept
        BY <1>0, <1>4 DEF WorkerIdle, DequeueIdle, QueueInv, DrainInv, Drained, Ended, Launching,
           SyncCmdLabels, Dropping, DropsLast, Dropper
      <3>2. ASSUME NEW i \in Left PROVE FALSE
        <4>1. i \in HwIdx /\ state[i] \in {Pending, InFlight}
          BY <1>0, LeftFacts, StateValues
        <4>2. InBuffer(Hardware(i)) \/ InLog(i)
          BY <3>1, <4>1 DEF Kept
        <4> QED BY <3>1, <4>2 DEF InBuffer, InLog
      <3> QED BY <3>2
    <2>3. Left' = Left
      BY <2>1 DEF Left, Enqueued, HwIdx
    <2>4. Cardinality({}) = 0
      BY FS_EmptySet
    <2>5. CASE xq_state = "Ready"
      <3>1. Schedulable!ReportIdle
        BY <1>0, <1>4, <2>1, <2>2, <2>3, <2>4, <2>5, AsQueue
      <3> QED BY <3>1 DEF Schedulable!Next
    <2>6. CASE xq_state = "Idle"
      BY <1>0, <1>4, <2>1, <2>3, <2>6, AsQueue
    <2> QED BY <1>0, <2>5, <2>6
  <1>5. CASE ~terminated /\ ~terminated' /\ (SuspendPause(k) \/ ResumeWorker(k))
    <2>1. kind' = kind /\ state' = state /\ xq_state' = xq_state
      BY <1>5 DEF SuspendPause, Pause, ResumeWorker, Resume, bufVars
    <2>2. Left' = Left
      BY <2>1 DEF Left, Enqueued, HwIdx
    <2>3. (worker_state' = "Paused") <=> (worker_state # "Paused")
      BY <1>5 DEF SuspendPause, Pause, ResumeWorker, Resume, QueueInv, Matches, Resuming
    <2>4. Schedulable!Control
      BY <1>0, <1>5, <2>1, <2>2, <2>3, AsQueue
    <2> QED BY <2>4 DEF Schedulable!Next
  <1>6. CASE /\ ~terminated /\ ~terminated' /\ ~WorkerIdle /\ ~SuspendPause(k) /\ ~ResumeWorker(k)
             /\ \A t \in Apps : ~SubmitEnqueue(t)
    <2>1. xq_state' = xq_state /\ worker_state' = worker_state
      BY <1>0, <1>6, LastEventKept, PausedKept
    <2>2. Left' \subseteq Left
      BY <1>0, <1>6, LeftStep
    <2>3. \/ Cardinality(Left)' = Cardinality(Left)
          \/ Cardinality(Left)' \in 0 .. Cardinality(Left) - 1
      BY <1>0, <2>2, FewerLeft
    <2>4. CASE Cardinality(Left)' = Cardinality(Left)
      BY <1>0, <1>6, <2>1, <2>4, AsQueue
    <2>5. CASE Cardinality(Left)' \in 0 .. Cardinality(Left) - 1
      <3>1. Schedulable!Complete
        BY <1>0, <1>6, <2>1, <2>5, AsQueue
      <3> QED BY <3>1 DEF Schedulable!Next
    <2> QED BY <2>3, <2>4, <2>5
  <1> QED BY <1>0, <1>1, <1>2, <1>3, <1>4, <1>5, <1>6

(* The queue that LocalSystem and Server take for granted is the one that  *)
(* AsyncXQueue is: whatever application threads submit and wait for, and   *)
(* however often the controller suspends and resumes, each step changes    *)
(* the number of its commands, its last event and its worker as those      *)
(* modules say, or not at all.                                             *)
THEOREM QueueActs ==
  ASSUME NEW k \in Controllers, NeverDrops(k)
  PROVE  Spec => Schedulable!Steps
  <1>1. Init => QueueInv(k)
    BY QueueInvStart
  <1>2. QueueInv(k) /\ [Next]_vars => QueueInv(k)'
    BY QueueInvStep
  <1>3. Init => Schedulable!Init
    <2> SUFFICES ASSUME Init PROVE Schedulable!Init OBVIOUS
    <2>1. kind = <<>> /\ xq_state = "Idle" /\ worker_state = "Running" /\ terminated = FALSE
      BY DEF Init, BufInit, WorkerInit
    <2>2. Left = {}
      BY <2>1 DEF Left, Enqueued, HwIdx
    <2> QED BY <2>1, <2>2, FS_EmptySet DEF Left, Schedulable!Init
  <1>4. QueueInv(k) /\ [Next]_vars => [Schedulable!Next]_Schedulable!vars
    BY ActsStep
  <1> QED BY <1>1, <1>2, <1>3, <1>4, PTL DEF Spec, Schedulable!Steps
=============================================================================
