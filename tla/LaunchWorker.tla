--------------------------- MODULE LaunchWorker ----------------------------
(***************************************************************************)
(* The launch worker of an XQueue (preempt/src/xqueue/launch_worker.cpp):  *)
(* the thread that takes commands from the buffer and launches them, and   *)
(* the operations other threads perform on its command log under mtx_.     *)
(*                                                                         *)
(* lock is the thread that holds mtx_.  A step that needs mtx_ is enabled  *)
(* when Locked: the thread holds it already, or nobody does and the step   *)
(* acquires it.  A thread keeps mtx_ between two steps exactly where the   *)
(* code returns the unique_lock to its caller; everything else a critical  *)
(* section does is one step.                                               *)
(***************************************************************************)
EXTENDS HwQueue

CONSTANTS
  Worker,      (* the worker thread                                        *)
  Apps,        (* the application threads                                  *)
  Controllers, (* the threads that suspend and resume the XQueue           *)
  NoThread,    (* nobody holds mtx_                                        *)
  Threshold,   (* threshold_: bound on the commands in flight              *)
  BatchSize    (* batch_size_: distance between synchronizable commands    *)

Threads == {Worker} \cup Apps \cup Controllers

ASSUME ThreadsAssumption ==
  /\ Worker \notin Apps \cup Controllers
  /\ Apps \cap Controllers = {}
  /\ NoThread \notin Threads

(* The assertion in the constructor.                                       *)
ASSUME ConfigAssumption ==
  /\ Threshold \in Nat /\ BatchSize \in Nat \ {0}
  /\ Threshold >= BatchSize

VARIABLES
  cmd_log,       (* cmd_log_: launched and not known to be completed       *)
  sync_cmd_log,  (* sync_cmd_log_: the synchronizable ones among them      *)
  last_sync_idx, (* last_synchronizable_idx_                               *)
  drop_idx,      (* drop_idx_                                              *)
  pause_count,   (* pause_count_                                           *)
  worker_state,  (* state_                                                 *)
  lock,          (* the thread holding mtx_                                *)
  cur,           (* the command the worker has dequeued                    *)
  dropped,       (* history: the commands completed by a drop              *)
  pc,            (* pc[t]: what thread t does next                         *)
  arg,           (* arg[t]: the command t submits, waits for or syncs      *)
  seen_count,    (* seen_count[t]: current_pause_cnt of t's sync loop      *)
  ret            (* where the worker goes on after a sync                  *)

logVars == <<cmd_log, sync_cmd_log>>
threadVars == <<pc, arg, seen_count, ret>>
workerVars == <<cmd_log, sync_cmd_log, last_sync_idx, drop_idx, pause_count,
                worker_state, lock, cur, dropped, pc, arg, seen_count, ret>>

WorkerLabels == {"dequeue", "cvWait", "launch", "full", "await", "tail", "batch",
                 "allCheck", "allSync", "allPost", "done", "end"}
SyncCmdLabels == {"cmdCheck", "cmdSync", "cmdPost"}

WorkerInit ==
  /\ cmd_log = <<>> /\ sync_cmd_log = <<>>
  /\ last_sync_idx = -1 /\ drop_idx = -1
  /\ pause_count = 0 /\ worker_state = "Running"
  /\ lock = NoThread
  /\ cur = WaitAll(1)
  /\ dropped = {}
  /\ pc = [t \in Threads |-> IF t = Worker THEN "dequeue" ELSE "idle"]
  /\ arg = [t \in Threads |-> 0]
  /\ seen_count = [t \in Threads |-> 0]
  /\ ret = "full"

Locked(t) == lock \in {NoThread, t}
Goto(t, l) == pc' = [pc EXCEPT ![t] = l]

(* Where a thread that returns from a sync goes on, and who then holds     *)
(* mtx_: the worker keeps it, an application thread returns to its caller. *)
(* The locals of the sync go out of scope.                                 *)
ReturnFromSync(t) ==
  /\ Goto(t, IF t = Worker THEN ret ELSE "idle")
  /\ lock' = IF t = Worker THEN Worker ELSE NoThread
  /\ arg' = [arg EXCEPT ![t] = 0]
  /\ seen_count' = [seen_count EXCEPT ![t] = 0]
-----------------------------------------------------------------------------
(* WorkerLoop: the worker takes a command and dispatches on its type.  A   *)
(* WaitAll command becomes in-flight; a WaitAll and a Destroy command sync *)
(* the whole queue.                                                        *)
Dispatch(c) ==
  /\ cur' = c
  /\ wait_all' = IF c.type # "WaitAll" THEN wait_all
                 ELSE IF c.id \in DOMAIN wait_all
                 THEN [wait_all EXCEPT ![c.id] = InFlight]
                 ELSE Append(wait_all, InFlight)
  /\ Goto(Worker, CASE c.type = "Hardware" -> "launch"
                    [] c.type = "BatchSync" -> "batch"
                    [] OTHER -> "allCheck")
  /\ ret' = "done"
  /\ UNCHANGED <<hwVars, logVars, last_sync_idx, drop_idx, pause_count, worker_state,
                 lock, dropped, arg, seen_count>>

WorkerTake ==
  \/ /\ pc[Worker] \in {"dequeue", "cvWait"}
     /\ \E c \in ToSet(cmds) : DequeueFront(c) /\ Dispatch(c)
  \/ /\ pc[Worker] = "dequeue"
     /\ \E c \in {BatchSync, WaitAll(Len(wait_all) + 1)} :
          DequeueGenerate(c) /\ Dispatch(c)

WorkerIdle ==
  /\ pc[Worker] = "dequeue"
  /\ DequeueIdle
  /\ Goto(Worker, "cvWait")
  /\ UNCHANGED <<hwVars, logVars, last_sync_idx, drop_idx, pause_count, worker_state,
                 lock, cur, dropped, arg, seen_count, ret>>
-----------------------------------------------------------------------------
(* A slip: no command waits. *)
NeverMustWait(i) == FALSE

(* LaunchHwCommand, first part: a command that is neither deactivatable    *)
(* nor idempotent waits for the deactivatable commands in flight, through  *)
(* the first synchronizable command with no deactivatable one after it.    *)
MustWaitDeactivatable(i) ==
  /\ Level >= 2
  /\ ~Deactivatable(i) /\ ~Idempotent(i)
  /\ \E p \in DOMAIN cmd_log : Deactivatable(cmd_log[p])

CoversDeactivatable(p) ==
  /\ cmd_log[p] \in sync
  /\ \A q \in p + 1 .. Len(cmd_log) : ~Deactivatable(cmd_log[q])

(* The worker starts to sync command i, or the whole queue, and goes on at *)
(* l.                                                                      *)
BeginSyncCmd(i, l) ==
  /\ arg' = [arg EXCEPT ![Worker] = i]
  /\ Goto(Worker, "cmdCheck") /\ ret' = l
BeginSyncAll(l) == Goto(Worker, "allCheck") /\ ret' = l /\ UNCHANGED arg

LaunchBegin ==
  /\ pc[Worker] = "launch"
  /\ lock = NoThread /\ lock' = Worker
  /\ \/ /\ ~MustWaitDeactivatable(cur.id)
        /\ Goto(Worker, "full")
        /\ UNCHANGED <<arg, ret>>
     \/ /\ MustWaitDeactivatable(cur.id)
        /\ \E p \in DOMAIN cmd_log :
             /\ CoversDeactivatable(p)
             /\ \A q \in 1 .. p - 1 : ~CoversDeactivatable(q)
             /\ BeginSyncCmd(cmd_log[p], "full")
     \/ /\ MustWaitDeactivatable(cur.id)
        /\ \A p \in DOMAIN cmd_log : ~CoversDeactivatable(p)
        /\ BeginSyncAll("full")
  /\ UNCHANGED <<bufVars, hwVars, logVars, last_sync_idx, drop_idx, pause_count,
                 worker_state, cur, dropped, seen_count>>

(* Second part: with the log full, sync the first synchronizable command   *)
(* that frees a slot, or the whole queue; otherwise wait to be running.    *)
FreesSlot(p) == sync_cmd_log[p] >= cmd_log[1]

LogFullLate == Len(cmd_log) > Threshold   (* a slip: off by one *)
LogFull     == Len(cmd_log) >= Threshold

LaunchFull ==
  /\ pc[Worker] = "full"
  /\ \/ /\ ~LogFull
        /\ Goto(Worker, "await")
        /\ UNCHANGED <<arg, ret>>
     \/ /\ LogFull
        /\ \E p \in DOMAIN sync_cmd_log :
             /\ FreesSlot(p)
             /\ \A q \in 1 .. p - 1 : ~FreesSlot(q)
             /\ BeginSyncCmd(sync_cmd_log[p], "tail")
     \/ /\ LogFull
        /\ \A p \in DOMAIN sync_cmd_log : ~FreesSlot(p)
        /\ BeginSyncAll("tail")
  /\ UNCHANGED <<bufVars, hwVars, logVars, last_sync_idx, drop_idx, pause_count,
                 worker_state, lock, cur, dropped, seen_count>>

(* A slip: the worker goes on while paused.                                *)
AwaitNothing ==
  /\ pc[Worker] = "await" /\ Locked(Worker) /\ lock' = Worker
  /\ Goto(Worker, "tail")
  /\ UNCHANGED <<bufVars, hwVars, logVars, last_sync_idx, drop_idx, pause_count,
                 worker_state, cur, dropped, arg, seen_count, ret>>

AwaitRunning ==
  /\ pc[Worker] = "await"
  /\ Locked(Worker) /\ lock' = Worker
  /\ worker_state = "Running"
  /\ Goto(Worker, "tail")
  /\ UNCHANGED <<bufVars, hwVars, logVars, last_sync_idx, drop_idx, pause_count,
                 worker_state, cur, dropped, arg, seen_count, ret>>

(* Third part: a command up to drop_idx_ is completed, not launched; the   *)
(* last one of a batch becomes synchronizable; then the command is given   *)
(* to the hardware, becomes in-flight and enters the log.                  *)
DropsBefore(i) == i < drop_idx   (* a slip: off by one *)
Drops(i)       == i <= drop_idx

LaunchDropped ==
  /\ pc[Worker] = "tail"
  /\ Drops(cur.id)
  /\ SetStates({cur.id}, Completed)
  /\ dropped' = dropped \cup {cur.id}
  /\ lock' = NoThread
  /\ Goto(Worker, "dequeue")
  /\ UNCHANGED <<hwVars, kind, sync, wait_all, cmds, last_cmd, xq_state, logVars, last_sync_idx,
                 drop_idx, pause_count, worker_state, cur, arg, seen_count, ret>>

EndsBatch(i) == i - last_sync_idx >= BatchSize /\ kind[i] # "callback"

Launch ==
  /\ pc[Worker] = "tail"
  /\ ~Drops(cur.id)
  /\ sync' = IF EndsBatch(cur.id) THEN sync \cup {cur.id} ELSE sync
  /\ HwLaunch(<<cur.id>>)
  /\ SetStates({cur.id}, InFlight)
  /\ cmd_log' = Append(cmd_log, cur.id)
  /\ IF cur.id \in sync'
     THEN sync_cmd_log' = Append(sync_cmd_log, cur.id) /\ last_sync_idx' = cur.id
     ELSE UNCHANGED <<sync_cmd_log, last_sync_idx>>
  /\ lock' = NoThread
  /\ Goto(Worker, "dequeue")
  /\ UNCHANGED <<kind, wait_all, cmds, last_cmd, xq_state, executed, exit_flag, preempt_idx,
                 drop_idx, pause_count, worker_state, cur, dropped, arg, seen_count, ret>>
-----------------------------------------------------------------------------
(* cv_.wait in the loops that wait for state_ to be running: the thread    *)
(* releases mtx_ and looks again once it can be running.                   *)
CvWait(t) ==
  /\ lock = t
  /\ pc[t] \in {"await", "allCheck", "cmdCheck"}
  /\ pc[t] = "cmdCheck" => state[arg[t]] # Completed
  /\ worker_state = "Paused"
  /\ lock' = NoThread
  /\ UNCHANGED <<bufVars, hwVars, logVars, last_sync_idx, drop_idx, pause_count, worker_state,
                 cur, dropped, threadVars>>

AlwaysUnpreempted(t) == TRUE   (* a slip: no look at pause_count_ *)
Unpreempted(t)       == seen_count[t] = pause_count

(* SyncAllWithLock: nothing to do on an empty log; otherwise remember      *)
(* pause_count_, synchronize the hardware queue without mtx_, and start    *)
(* over if the queue was paused meanwhile.                                 *)
SyncAllCheck ==
  /\ pc[Worker] = "allCheck"
  /\ Locked(Worker)
  /\ worker_state = "Running"
  /\ IF cmd_log = <<>>
     THEN ReturnFromSync(Worker)
     ELSE /\ lock' = NoThread /\ Goto(Worker, "allSync")
          /\ seen_count' = [seen_count EXCEPT ![Worker] = pause_count]
          /\ UNCHANGED arg
  /\ UNCHANGED <<bufVars, hwVars, logVars, last_sync_idx, drop_idx, pause_count, worker_state,
                 cur, dropped, ret>>

SyncAllHw ==
  /\ pc[Worker] = "allSync"
  /\ HwSynchronized
  /\ Goto(Worker, "allPost")
  /\ UNCHANGED <<bufVars, hwVars, logVars, last_sync_idx, drop_idx, pause_count, worker_state,
                 lock, cur, dropped, arg, seen_count, ret>>

SyncAllPost ==
  /\ pc[Worker] = "allPost"
  /\ lock = NoThread
  /\ IF Unpreempted(Worker)
     THEN /\ SetStates(ToSet(cmd_log), Completed)
          /\ cmd_log' = <<>> /\ sync_cmd_log' = <<>>
          /\ ReturnFromSync(Worker)
     ELSE /\ UNCHANGED <<state, logVars, arg, seen_count>>
          /\ lock' = Worker /\ Goto(Worker, "allCheck")
  /\ UNCHANGED <<hwVars, kind, sync, wait_all, cmds, last_cmd, xq_state, last_sync_idx,
                 drop_idx, pause_count, worker_state, cur, dropped, ret>>
-----------------------------------------------------------------------------
(* SyncCmdWithLock, by the worker or by an application thread that waits   *)
(* for command arg[t]: return if it is completed, even when paused;        *)
(* otherwise synchronize it without mtx_ and start over if the queue was   *)
(* paused meanwhile.                                                       *)
SyncCmdCheck(t) ==
  /\ pc[t] = "cmdCheck"
  /\ Locked(t)
  /\ \/ /\ state[arg[t]] = Completed
        /\ ReturnFromSync(t)
     \/ /\ state[arg[t]] # Completed
        /\ worker_state = "Running"
        /\ lock' = NoThread /\ Goto(t, "cmdSync")
        /\ seen_count' = [seen_count EXCEPT ![t] = pause_count]
        /\ UNCHANGED arg
  /\ UNCHANGED <<bufVars, hwVars, logVars, last_sync_idx, drop_idx, pause_count, worker_state,
                 cur, dropped, ret>>

SyncCmdHw(t) ==
  /\ pc[t] = "cmdSync"
  /\ CmdSynchronized(arg[t])
  /\ Goto(t, "cmdPost")
  /\ UNCHANGED <<bufVars, hwVars, logVars, last_sync_idx, drop_idx, pause_count, worker_state,
                 lock, cur, dropped, arg, seen_count, ret>>

(* A slip: the log is popped one command too far.                          *)
PopsPast(log, i, n) ==
  /\ \A p \in 1 .. n : log[p] <= i + 1
  /\ n < Len(log) => log[n + 1] > i + 1

(* n leading elements of a log have an index up to i, and the next has not *)
PopsThrough(log, i, n) ==
  /\ \A p \in 1 .. n : log[p] <= i
  /\ n < Len(log) => log[n + 1] > i

SyncCmdPost(t) ==
  /\ pc[t] = "cmdPost"
  /\ lock = NoThread
  /\ IF Unpreempted(t)
     THEN /\ \E n \in 0 .. Len(cmd_log), m \in 0 .. Len(sync_cmd_log) :
               /\ PopsThrough(cmd_log, arg[t], n)
               /\ PopsThrough(sync_cmd_log, arg[t], m)
               /\ SetStates({cmd_log[p] : p \in 1 .. n}, Completed)
               /\ cmd_log' = SubSeq(cmd_log, n + 1, Len(cmd_log))
               /\ sync_cmd_log' = SubSeq(sync_cmd_log, m + 1, Len(sync_cmd_log))
          /\ ReturnFromSync(t)
     ELSE /\ UNCHANGED <<state, logVars, arg, seen_count>>
          /\ lock' = t /\ Goto(t, "cmdCheck")
  /\ UNCHANGED <<hwVars, kind, sync, wait_all, cmds, last_cmd, xq_state, last_sync_idx,
                 drop_idx, pause_count, worker_state, cur, dropped, ret>>
-----------------------------------------------------------------------------
(* BatchSynchronize: sync the oldest synchronizable command, if any.       *)
WorkerBatch ==
  /\ pc[Worker] = "batch"
  /\ lock = NoThread
  /\ IF sync_cmd_log = <<>>
     THEN Goto(Worker, "dequeue") /\ UNCHANGED <<lock, arg, ret>>
     ELSE lock' = Worker /\ BeginSyncCmd(Head(sync_cmd_log), "done")
  /\ UNCHANGED <<bufVars, hwVars, logVars, last_sync_idx, drop_idx, pause_count, worker_state,
                 cur, dropped, seen_count>>

(* A slip: WaitAll commands are never completed.                           *)
CompleteNone == UNCHANGED wait_all

CompleteCur ==
  wait_all' = IF cur.type = "WaitAll" THEN [wait_all EXCEPT ![cur.id] = Completed]
              ELSE wait_all

(* The synchronizing command is done: it is completed, and a Destroy       *)
(* command ends the worker.                                                *)
WorkerDone ==
  /\ pc[Worker] = "done"
  /\ lock' = NoThread
  /\ CompleteCur
  /\ IF cur.type = "Destroy"
     THEN worker_state' = "Terminated" /\ Goto(Worker, "end")
     ELSE UNCHANGED worker_state /\ Goto(Worker, "dequeue")
  /\ UNCHANGED <<hwVars, kind, state, sync, cmds, last_cmd, xq_state, logVars, last_sync_idx,
                 drop_idx, pause_count, cur, dropped, arg, seen_count, ret>>

(* Pause, Resume and ResumeAndDrop, called by a controller.                *)
Pause ==
  /\ lock = NoThread
  /\ worker_state' = "Paused"
  /\ pause_count' = pause_count + 1
  /\ UNCHANGED <<bufVars, logVars, last_sync_idx, drop_idx, lock, cur, dropped>>

(* A slip: Resume leaves state_ alone.                                     *)
ResumeNothing ==
  /\ lock = NoThread
  /\ UNCHANGED <<bufVars, logVars, last_sync_idx, drop_idx, pause_count, worker_state, lock,
                 cur, dropped>>

Resume ==
  /\ lock = NoThread
  /\ worker_state' = "Running"
  /\ UNCHANGED <<bufVars, logVars, last_sync_idx, drop_idx, pause_count, lock, cur, dropped>>

ResumeAndDrop(i) ==
  /\ lock = NoThread
  /\ SetStates(ToSet(cmd_log), Completed)
  /\ dropped' = dropped \cup ToSet(cmd_log)
  /\ cmd_log' = <<>> /\ sync_cmd_log' = <<>>
  /\ drop_idx' = i
  /\ worker_state' = "Running"
  /\ UNCHANGED <<kind, sync, wait_all, cmds, last_cmd, xq_state, last_sync_idx, pause_count,
                 lock, cur>>

WorkerTypeOK ==
  /\ cmd_log \in Seq(Nat) /\ sync_cmd_log \in Seq(Nat)
  /\ last_sync_idx \in Int /\ drop_idx \in Int /\ pause_count \in Nat
  /\ worker_state \in {"Running", "Paused", "Terminated"}
  /\ lock \in Threads \cup {NoThread}
  /\ cur \in Command
  /\ dropped \subseteq Nat
  /\ arg \in [Threads -> Nat] /\ seen_count \in [Threads -> Nat]
  /\ ret \in {"full", "tail", "done"}

WorkerStep ==
  \/ WorkerTake \/ WorkerIdle
  \/ LaunchBegin \/ LaunchFull \/ AwaitRunning \/ LaunchDropped \/ Launch
  \/ SyncAllCheck \/ SyncAllHw \/ SyncAllPost
  \/ SyncCmdCheck(Worker) \/ SyncCmdHw(Worker) \/ SyncCmdPost(Worker)
  \/ CvWait(Worker) \/ WorkerBatch \/ WorkerDone
=============================================================================
