# A TLA+ verification of XSched

XSched schedules XPU tasks by suspending and resuming the queues through which
applications submit commands to an accelerator.  This directory models the
preemptible command queue (XQueue) on which everything stands, the scheduler with
its policies, a process that is scheduled by itself, the scheduling server with
its clients, and the lock of the launch workers.  It checks them with TLC and
proves with TLAPS what can be proved about them for every instance.

Paths below are relative to the root of the repository.

## 1. The system

### 1.1 Components, their state and how they interact

| Component | Code | State | Operations | Status |
|---|---|---|---|---|
| Command buffer | `preempt/src/xqueue/command_buffer.cpp`, `xcommand.cpp` | `cmds_`, `last_cmd_`, `xq_state_`; each command's `XCommandState` | `Enqueue`, `EnqueueXQueueWaitAllCommand`, `Dequeue`, `DropAll` | modelled |
| Launch worker | `preempt/src/xqueue/launch_worker.cpp` | `cmd_log_`, `sync_cmd_log_`, `last_synchronizable_idx_`, `drop_idx_`, `pause_count_`, `state_`, `mtx_` | `WorkerLoop`, `LaunchHwCommand`, `SyncAll`, `SyncCmd`, `Pause`, `Resume`, `ResumeAndDrop` | partly |
| AsyncXQueue | `preempt/src/xqueue/async_xqueue.cpp`, `preempt/src/hal/hw_command.cpp` | `suspended_`, `terminated_`, `next_hw_cmd_idx_`, `level_` | `Submit`, `Wait`, `WaitAll`, `SubmitWaitAll`, `Suspend`, `Resume`, destructor; `SetPreemptLevel`, `SetLaunchConfig` | partly |
| Hardware queue | `preempt/include/xsched/preempt/hal/hw_queue.h`, `platforms/cuda/hal/src/level{1,2}` | the stream, the preempt buffer | `Launch`, `Synchronize`, `Deactivate`, `Reactivate` | partly |
| Registries | `preempt/src/xqueue/xqueue.cpp`, `preempt/src/hal/hw_queue.cpp` | handle tables, the XQueue/HwQueue cycle | `Add`, `Del`, `Get`; `ForEachWaitAll`, automatic creation and destruction | partly |
| Agent, executor | `preempt/src/sched/*.cpp` | the scheduler in use, `executing_` | event relay, execution of operations; replacement of the scheduler | partly |
| Schedulers | `sched/src/scheduler/*.cpp` | `event_queue_`, the status of queues and processes, `timers_` | `UpdateStatus`, rounds of the worker, `SetPolicy` | partly |
| Policies | `sched/src/policy/*.cpp` | priorities, deadlines, laxities, active windows, the running queue, `run_queue_` | `Sched`, `RecvHint` | partly |
| Server | `service/server`, `service/common` | `client_chans_`, the scheduler, HTTP threads | `RecvWorker`, `ProcessTerminate`, `CleanUpProcess`, `Execute`, `SendHint`; queries, configuration, `Stop` | partly |
| Process watching | `utils/src/waitpid.cpp` | pid descriptors | `AddWait`, `WaitWorker` | partly |
| Locks and containers | `utils/src/lock.cpp`, `utils/include/xsched/utils/*.h` | the MCS queue: `tail_`, and `flag` and `next` of each node | `lock`, `unlock` | partly |
| Protocol and IPC | `sched/src/protocol`, `protocol`, `3rdparty/ipc` | messages | plain records; the channel's code is a submodule that is not in the repository | as messages |
| Shims, other platforms, level 3 | `platforms/*` | wrappers of vendor drivers | build a command and submit it | not modelled |
| CLI, X11 tools, examples | `service/cli`, `service/tools`, `examples` | none | presentation | not modelled |

The application's calls are intercepted by a shim, which creates a `HwCommand`
and submits it to the `XQueue` of its stream.  `Submit` puts the command in the
command buffer; the worker thread takes it out, launches it to the hardware
queue and keeps it in its command log until it knows the command to be
completed.  Buffer and log are shared memory: the buffer has its own mutex, the
log is protected by the worker's `mtx_`, and an application thread that waits for
a command pops the log itself.  The buffer sends *ready* and *idle* events to the
scheduling agent, which hands them to a scheduler in the process or, over IPC,
in the server.  The policy decides which queues run; the executor then calls
`Suspend` and `Resume` on them, from its own thread.

### 1.2 What is hard

* **Preemption in the middle of a synchronization.**  The hardware is
  synchronized without `mtx_`, and at level 2 a deactivated queue reports the
  commands it has flushed as finished.  Only a comparison of `pause_count_` tells
  a finished command from a flushed one.
* **Commands in three places.**  A command is in the buffer, in the worker's
  hands or in the log; `Resume` with dropping empties the first and the last and
  recognises the one between by its index.
* **Order across flush and relaunch.**  Flushed commands are launched again behind
  the ones that were not flushed, which must therefore be harmless.
* **Sharing of `WaitAll` commands**, the generation of synchronizing commands on
  an empty buffer, and idleness deduced from the last command.
* **Several controllers**: the executor, a `Del` of the queue, the C API and the
  destructor all resume.
* **A table that is always late.**  The scheduler decides on a table that events
  update some time after the fact, and its operations arrive some time after the
  decision; queues are created, destroyed and change their state in between.
* **The same fact twice.**  A queue is suspended by its own status and by the set
  it is in under its process; policies go by the one or the other.
* **Time that nobody waits for.**  Slices, laxities and deadlines need timers, and
  timers are looked at only when no event is waiting.
* **Death.**  A client dies before the server knows of it, between two of its
  events, with operations under way, or after it said goodbye; its death is
  noticed on one thread and its last events are read on another.
* **Nodes used again.**  A thread has one MCS node for all locks, and neighbours in
  a queue write to it.
* **Liveness**: everybody sleeps on condition variables through suspensions.

The full list, with the line at which each hazard bites and the properties that
cover it, is `hazards` in `PROJECT.json`.

### 1.3 What makes each component correct

* *XQueue*: commands run in submission order, each that is not idempotent at most
  once; a completed command has run, with everything before it, or was dropped;
  a suspended queue launches nothing; nobody is stuck.
* *Buffer*: a `WaitAll` is a barrier; *idle* means that everything is completed.
* *Worker*: at most `threshold_` commands in flight; the log of a paused worker
  does not change.
* *Registries, agent*: an operation on a queue that is being destroyed is
  harmless and the destruction ends.
* *Scheduler*: the two tables agree; once all events are handled, the table says of
  every queue what is true of it, and every queue does what the table says.
* *Policies*: the queues that should run are the ones that run; no queue with
  work waits for ever, and the device is not left idle while there is work.
* *Server*: a channel for every living client and for no other; nothing is left of
  a process that exits in good order; a client does what the server decided.
* *Locks*: mutual exclusion, first come first served, no lost hand-over, and no
  write to a node that is no longer in the queue.

## 2. The modules

| Module | Models | Checked and proved by |
|---|---|---|
| `CommandBuffer` | the commands, their states and the command buffer | through `AsyncXQueue` |
| `HwQueue` (extends `CommandBuffer`) | the hardware queue and the CUDA level-2 preempt buffer | through `AsyncXQueue` |
| `LaunchWorker` (extends `HwQueue`) | the worker thread and its log | through `AsyncXQueue` |
| `AsyncXQueue` (extends `LaunchWorker`) | the whole XQueue with its application threads and controllers | the runs `XQueue*` |
| `CommandQueue` | the abstract specification: what an XQueue promises an application | `KeepsPromises`, proved as `PromisesKept`; `CommandQueueProofs` |
| `SchedulableQueue` | the abstract specification: what the scheduler relies on in an XQueue | `ActsAsQueue`; its steps proved as `QueueActs` |
| `MCAsyncXQueue` | the threads as model values | the runs `XQueue*` |
| `AsyncXQueueProofs` | type correctness and the bound of the log | TLAPS |
| `XQueueIdleProofs` (extends it) | what an idle queue has done, and that `suspended_` tells what the worker does | TLAPS |
| `XQueueOrderProofs` (extends it) | the log of a paused worker, drops, order, completion, the two refinements, and `WaitAll` as a barrier | TLAPS |
| `CommandQueueProofs` | what the abstract specification implies | TLAPS |
| `Policies` | the table of statuses, and `Sched` and `RecvHint` of the eight policies | through the modules below |
| `LocalScheduler` (extends `Policies`) | the scheduler: events, rounds, timers, time, `SetPolicy` | through the modules below |
| `LocalSystem` (extends `LocalScheduler`) | a process with its own scheduler: application, registry, XQueues, executor | `LocalSystem`, `DestroyEnds`, `LocalSystemProofs` |
| `Server` (extends `LocalScheduler`) | the server, the process watcher, the channels, and client processes that exit and crash | `Server`, `ServerProofs` |
| `MCLocalSystem`, `MCServer` | their instances | |
| `LocalSchedulerProofs` | lemmas: no event, no decision of a policy and no change of the policy sets the two tables apart; what the last event on a subject is | TLAPS |
| `LocalSystemProofs` | the tables of a local scheduler agree, with each other and with the queues, and each policy does what its name says | TLAPS |
| `ServerProofs` | the channels of the server are accounted for, its tables agree, an exit leaves nothing, server and clients agree, and CHPF and AWF do what they should | TLAPS |
| `MCSLock` | the lock of the launch workers, one action per access to shared memory | `MCSLock`, `MCSLockProofs` |
| `FairLock` | the abstract specification of a lock that serves its threads in turn | `IsFair` |
| `MCSLockProofs` | mutual exclusion, privacy of nodes, and that `MCSLock` implements `FairLock` | TLAPS |

The two halves meet at the interface of an XQueue.  `AsyncXQueue` has controllers
that suspend and resume at any moment and shows what the queue does then;
`LocalSystem` and `Server` take a queue to be the number of its uncompleted
commands, its idle/ready state and a worker that is paused or not, and show when
the scheduler suspends and resumes.  That an XQueue is such a queue is stated by
`SchedulableQueue`, and checked and proved of `AsyncXQueue` (`ActsAsQueue`, 2.2).  In the same
way `AsyncXQueue` assumes of its `mtx_` what `FairLock` says.

### 2.1 State and actions against the code

The variables carry the names of the fields they stand for (without the trailing
underscore), and the actions the names of the functions they model.  `map` in
`PROJECT.json` gives the lines of every definition.

* A hardware command is its index.  `kind[i]` gives its properties:

  | kind | deactivatable | idempotent | synchronizable | blocking submission |
  |---|---|---|---|---|
  | `kernel` | yes | no | when it ends a batch | no |
  | `event` | no | yes | from its creation | no |
  | `memory` | no | no | when it ends a batch | no |
  | `blocking` | no | no | when it ends a batch | yes |
  | `callback` | no | no | never | no |

* `pc[t]` says where thread `t` is; `arg`, `seen_count` and `ret` are its locals.
  They are reset when they go out of scope, so that states that differ in dead
  values only are the same.
* `lock` is the holder of the worker's `mtx_`.  One action is one critical
  section, or the part of one that ends where the code releases `mtx_`, waits,
  or hands the lock to a caller.  Between two parts of one critical section the
  other threads can take every step that does not need `mtx_`: submissions,
  the hardware, the setting of `suspended_`, the preempt buffer.
* What is two steps in the code is two actions here: drawing an index and
  enqueueing; setting `suspended_` and pausing the worker; reading and clearing
  the preempt buffer; dropping the buffer, reading the last index, dropping the
  log.
* `executed`, `dropped` and `covers` are histories: what the hardware ran, what
  a drop has completed, what was enqueued when a thread called `WaitAll`.  No
  guard reads them.

Two merges are sound because nothing can tell them apart.  `Enqueue` sets the
command pending before it takes the buffer's mutex; a pending command that is
not in the buffer yet can be waited for, but the wait only ends with a later
state.  `Reactivate` iterates over the log while it launches; the worker does not
touch the log meanwhile, except where `LogFrozenWhilePaused` fails (section 5),
and in the model the iteration is one step.  The `Deactivate` of the CUDA queue is an asynchronous
write of the exit flag: that the flag lands later is the controller taking the
step later.

A command that is refused a place in the model is refused one in the code:
`SyncCmdWithLock` and `SyncAllWithLock` can also return on a terminated worker,
but a waiting thread holds a reference that keeps the queue from being destroyed
(`DestructBegin`), so these returns are not reached.

### 2.2 The abstract specifications of the XQueue

`CommandQueue` is what `xqueue.h` and `preempt/README.md` tell the user: commands
are submitted, executed in order, reported completed, or given up.  It knows
nothing of buffers, logs, preemption or hardware.  `AsyncXQueue` implements it
under

    submitted  <- the commands that have entered the buffer
    repeatable <- the idempotent ones among them
    executed   <- the history of the hardware
    completed  <- the commands in state Completed
    given_up   <- dropped

and `KeepsPromises`, its `Spec` under this substitution, is checked at both
levels and proved where it holds (`PromisesKept`, section 4).  `CommandQueueProofs` shows that the specification is worth implementing:
its steps alone imply that completed commands are over and that commands run in
order.

`SchedulableQueue` is the other side of the XQueue: a count of uncompleted commands,
the last event reported, and whether the worker is paused.  `AsyncXQueue`
implements it under

    jobs       <- the number of commands in the buffer or gone through it, not completed
    xq_state   <- xq_state_ of the buffer, "Idle" once the destructor has begun
    paused     <- the worker is in state Paused, FALSE once the destructor has begun
    gone       <- terminated_

(`ActsAsQueue`, fairness included), for a controller that does not drop commands,
as the executor of the scheduler never does.  Its actions are those `LocalSystem`
gives a queue: `Submit`, `Complete` (one command at a time there), `ReportIdle`, the
worker's part of `ExchangeFlag` and `TellWorker` (`Control`), and `Destruct`.  With
`drop`, a queue may report idle while a `Resume` is still at it (`IdleMeansDrained`).

### 2.3 The scheduler and the policies

* The table is `known`, `ready`, `suspended`, `device`, `age` by queue, and
  `procs`, `running`, `halted` by process (`xqueue_status`, `process_status`,
  `running_xqueues`, `suspended_xqueues`).  The object of the policy is the record
  `pol`, with the fields of all policies.
* The worker is `Take` (all events at once), `Update` (one event), `Round` (`Sched`)
  and `EndRound`, with `TimerFires` when it wakes up without an event; between
  `Round` and `EndRound` the users of the module put the execution of the
  operations: the executor in `LocalSystem`, `Execute` in `Server`.  `SetPolicy` and
  `ReplacePolicy` are the two ends of the call that stops the worker, joins it and
  starts it again.
* Time is relative to now.  A tick makes ready queues older, slices shorter and
  timers nearer, and passes only while the worker waits: rounds take microseconds,
  slices and laxities milliseconds.  A timer that is due is 0.
* All slices have the length `SliceTicks`.  In the code the utilizations of UP and
  the budgets of PUP stretch them; only their presence matters to what follows.
* The sort of KEDF is not stable, so equal deadlines are a choice; the new
  processes of PUP enter `run_queue_` in the order of a hash table, also a choice.
* Hints reach a policy through `RecvHint` with the type check of that policy.
  Clamping of priorities is modelled; LAX does not clamp, and here does not either.
  Nothing on the way checks a priority: neither `XHintPriority` and `XHintLaxity` nor the
  environment variables read at `xqueue.cpp:161` and `217`.  `PRIORITY_NO_EXECUTE`
  (-256) is therefore a queue of the least priority to HPF and HHPF, and one that is
  never resumed to LAX (`Refused`).
* CHPF reads `/proc/<pid>/sched` in each round.  `OsPriorities` gives for each process
  the numbers that may be read there and `NoEntry`, if the file may be missing: each
  round picks one of them for each process of the table, so a process may be
  reniced, or change its scheduling class, between any two rounds.  `Converted` does to
  the number what `chpf.cpp:27` does, and `pol.os` is what the last round read, which
  in the code is gone when the round ends; no guard reads it.

### 2.4 A process with its own scheduler

`life[q]` follows a queue through `XQueueManager`: created, hinted, live, and the
steps of `Del`: erased from the registry, resumed, waited for, destroyed.  The
destructor is two steps.  `Destruct` calls `Resume`, which tells the worker nothing
when `suspended_` is false already, and enqueues the Destroy command; `Destroyed` is
possible once the worker, not being paused, has served it.  The last reference to a
queue may be the executor's, whose `Release` then runs the destructor on the thread of
the scheduler, which waits there (`ExecDestroyed`).  A worker that a crossing of
`Suspend` and `Resume` left paused is not repaired: such a destruction `Hangs`, and when
the executor runs it, the scheduler with it.  The executor resumes first and suspends then, one queue after the
other in any order; each is looked up, its `suspended_` exchanged and its
worker told, in three steps between which everything else may happen.

### 2.5 The server and its clients

`stage[p]` follows a client; `channel` is what the server has not read, `inbox[p]`
what the client has not.  `RecvWorker` is `Receive`, which handles an event up to its
first call that others can interleave with, and `AddWait`, `CleanUpProcess` and
`Announce`; the thread of the watcher is `ProcessTerminate` and `CloseTerminated`.  A
process that has ended may be a zombie, which can still be watched, or gone, for
which `AddWait` calls back at once: both are possible after its end.  What an
operation says is copied when it is sent, so a client may execute what is no
longer decided.

### 2.6 The lock

Every read and write of `tail_`, `flag` and `next` that another thread can see is
one action.  `queue` is a history: the threads that have exchanged the tail and
have not handed the lock on.  Memory is sequentially consistent in the model.  On
x86 the code gives that: writes become visible in program order, the atomic
operations are full barriers, and the one reordering x86 allows, a later read
before an earlier write, concerns the link and the first look at the flag, where
it makes a thread look once more.  On ARM `memory_barrier()` is a `yield`
instruction and `volatile` orders nothing between processors, so that there the
model says more than the code does.

## 3. The runs

### 3.1 The XQueue

The runs `XQueue*` use `MCAsyncXQueue`.  Bounds: `MaxCmds` hardware commands are
submitted, `MaxPauses` suspensions happen; `Threshold` and `BatchSize` are those of
the code's configuration, kept small so that the log fills.  `WaitAll` commands need
no bound: a new one is made only after a command that is not one.

| Run | Instance | Properties |
|---|---|---|
| `XQueueBlock` | level 1; a submitter, a waiter, a controller; memory and callback commands; threshold 2, batches of 2, 3 commands, 2 suspensions | `InFlightBound`, `CompletedMeansExecuted`, `IdleMeansDrained`, `SuspendedMatchesWorker`, `KeepsPromises` |
| `XQueueDeactivate` | level 2; a submitter, a controller that resumes with or without dropping and destroys; kernels, events, memory commands; threshold 2, 4 commands, 1 suspension without waiting for the hardware | `TypeOK`, `InFlightBound`, `RunsInOrder`, `IdleEndsWithWaitAll`, `DroppedIsNotLaunched`, `KeepsPromises`, `LogFrozenWhilePaused` |
| `XQueueWait` | level 2; a submitter, a waiter, a controller that resumes with or without dropping; kernels and memory commands; threshold 3, 3 commands, 1 suspension without waiting for the hardware | `CompletedMeansExecuted`, `RunsInOrder`, `WaitAllIsBarrier` |
| `XQueueLive` | level 2, fair; a submitter, a waiter, a controller that resumes without dropping and destroys; kernels and blocking commands; 2 commands, 1 suspension | `EveryCommandCompletes`, `EveryCallReturns`, `EventuallyIdle`, `DestructionEnds`, `ActsAsQueue` |
| `XQueueLostKernel` | as `XQueueWait`, but threshold 2, 4 kernels, 2 suspensions | `CompletedMeansExecuted` is violated |
| `XQueueTwoSubmitters` | level 1; two submitters, one of which waits; 3 memory commands | `CompletedHasRun` is violated |
| `XQueueDropIdle` | level 2, fair; a submitter, a controller that resumes with dropping | `EventuallyIdle` is violated |
| `XQueueTwoControllers` | level 1; two controllers | `SuspendedMatchesWorker` is violated |

What the passing ones show:

* **XQueueBlock.**  At level 1 a suspension only stops the worker.  Two
  suspensions are what it takes to interrupt the same synchronization twice, and
  a callback command at the front of the log what it takes to have no
  synchronizable one that frees a slot.
* **XQueueDeactivate.**  Four commands with a threshold of two fill the log, flush
  part of it and go on launching behind it; the three kinds are the three rows
  of the rule for what may overtake what.  No thread waits for commands here,
  and no suspension follows a drop: both are what `XQueueLostKernel` needs (section
  5), and with them `LogFrozenWhilePaused` and `KeepsPromises` fail.  Where nothing is
  dropped, the proofs of section 4 cover any number of suspensions.
* **XQueueWait.**  A thread that waits pops the log beside the worker and across
  suspensions and drops.  The threshold is not reached while the queue is
  paused, which separates this run from `XQueueLostKernel`.  `WaitAllIsBarrier` needs
  no such separation: it is proved for every bound.
* **XQueueLive.**  Every wait ends, every command completes, the queue reports
  idle, and the destructor gets through a suspended queue; to the scheduler the
  whole is a `SchedulableQueue`, which is what the runs of 3.2 build on.

Bounds are enough in this sense: the hazards each involve at most one command on
each side of a boundary (flushed or not, popped or not, dropped or not), one
command in the worker's hands, and one interruption of a synchronization, or two
for a thread that starts over.

### 3.2 The schedulers and the lock

| Run | Instance | Properties |
|---|---|---|
| `LocalSystem` | one process, two queues of one device, each created, hinted and given one command at most; HPF and LAX with priorities below and, for HPF, above their range, KEDF and UP, and a switch from KEDF to HHPF at any moment; queue 1 may be destroyed under HPF and UP; slices of one tick, a queue is critical under LAX after two | `TablesAgree`, `AgreeAtRest`, `PriorityRules`, `EarliestRun`, `WorkConserving`, `SliceEnds`, `EveryJobEnds` |
| `DestroyEnds` | the same under HPF | `DestroyEnds` is violated |
| `Server` | two client processes with one queue each on one device; under PUP the editor may crash at any moment, under HPF it may exit, under AWF the active window goes from the player to the editor, under CHPF the editor is read as a real-time process of priority 99, a normal one of 120 or not at all, and the player as 50 or 130; two events fit in the server's channel and one operation in a client's | `TablesAgree`, `ChannelsReclaimed`, `ExitLeavesNothing`, `ClientsAgree`, `ActiveFirst`, `OsPriorityFirst`, `TurnsCome` |
| `MCSLock` | three threads that lock and unlock two locks as often as they like | `MutualExclusion`, `NodeIsPrivate`, `IsFair`, `EveryRequestIsGranted` |

* **LocalSystem.**  Between a decision and its execution the application creates,
  uses and destroys queues, so the executor meets handles that are unknown to
  the registry, queues whose `Del` is half done, and queues that changed their
  state since.  Once nothing is left to do, the table and the queues agree
  (`AgreeAtRest`), and each policy does what its name says (`PriorityRules`,
  `EarliestRun`, `SliceEnds`).  `WorkConserving` and `EveryJobEnds` say the same of
  all policies: the device does not stand idle beside work, and every queue with
  work is resumed in the end, also when the policy is replaced under way.  Two kinds
  of queues are excepted from the latter: those that LAX is told never to execute,
  and those that wait while the destruction of another hangs, where `DestroyEnds`
  shows that the code does not keep the promise.
  Two queues are enough for one to keep the other waiting, and a tick more than
  the laxity is enough to pass every deadline; one command per queue makes each
  queue ready and idle once, and the order of these four events, the creations and
  the destruction is free.
* **Server.**  A client's events, its death and its last words reach the server
  through a channel and through the watcher, on two threads, in every order: the
  channel is closed exactly when it should be (`ChannelsReclaimed`), and a client
  that exits in good order leaves nothing behind although its death may be
  noticed before its last events are read (`ExitLeavesNothing`).  Events and
  operations cross in the two channels; when these are empty, server and clients
  agree (`ClientsAgree`).  Under PUP every process with work gets its turn, with
  competitors that never finish, that crash, or that are dead without the
  server's knowing (`TurnsCome`).  Which way to end goes with which policy is a
  bound (`MCMayEnd`): four policies times all ways is more than fits, and CHPF and AWF
  have their own sources of change.  One process has one queue, connects once, and
  the processes start one after the other: these bounds are in the specification
  itself, so the theorems about `Server` have them too.  A deadline for every queue
  in `LocalSystem` and one display here mean that the runs say nothing about the
  ties of `kedf.cpp:35` and the second display of `awf.cpp:48` (section 5).
* **MCSLock.**  Three threads give a queue a head, a middle and a tail.  Two locks
  show what a thread's single node for all locks is worth: it goes from one queue
  straight into another.

Every property of a passing run has a mutant, a definition changed the way a slip
in the code would change it, that TLC finds within the same bounds.

Deadlock is checked in every run: `Terminating` is the only stuttering step where
there is one.  In `AsyncXQueue` it requires every thread to be idle, the worker to
sleep or to have ended, and the queue not to be suspended; in `LocalSystem` and
`Server`, that no call is under way, no queue has work and no message is waiting.
`LocalSystem` may also stop where a destruction hangs, which is what `DestroyEnds` is
about; that all else goes on there is left to `EveryJobEnds`.

### 3.3 Fairness

*`AsyncXQueue`*: weak, of what the code's threads and the hardware do by running:
the worker, each operation that has begun, and the hardware make progress.  Weak
fairness suffices for `mtx_` because an `MCSLock` serves its threads in turn
(`IsFair`, proved in `MCSLockProofs`).  Beyond that, whoever suspends a queue
resumes it in the end (`WF_vars(ResumeBegin(k))`): the scheduler's part of the
contract, without which a suspended queue completes nothing.  Nobody is obliged
to submit, to wait, to suspend or to destroy.

*`LocalSystem`* shows that the scheduler keeps that contract: under weak fairness
of the thread of the scheduler and of time, and under strong fairness of the
progress of each queue, `EveryJobEnds`.  Strong, because a queue that gets slices
again and again works in them, although it is suspended in between; that is
what slices are for.  Nobody is obliged to create or to destroy a queue.

*`Server`*: weak, of the two threads of the server together, of its scheduler with
time, and of the receiving threads of the clients.  No client is obliged to finish
anything.

*`MCSLock`*: weak, of each thread between its call of `lock` and the end of `unlock`;
it need not call.

## 4. The proofs

`AsyncXQueueProofs`, for all threads, kinds, both levels and any bounds:

* `TypeCorrect`: `Spec => []TypeOK`.  `TypeOK` is not inductive.  Setting the state
  of the command a thread works on, or indexing `kind` with it, stays in type only
  when the command exists; the invariant `TypeInv` adds that the commands in the
  buffer, in the log, in the hardware queue, in the worker's hands and in the
  threads' locals exist, and that a command in a sequence has the type its
  reader expects.
* `InFlightBounded`: with one submitting thread (`OneSubmitter`),
  `Spec => []InFlightBound`.  The code checks the size of the log once, then
  synchronizes a command and appends without looking again.  That a slot is free
  after the synchronization is not local: it needs that the synchronized command
  is at or behind the front of the log in index order.  The inductive
  invariant `IInv` is

      TypeInv            the types above
      LaunchesHardware   while the worker launches, it has a hardware command
      Order              indices ascend through log, hands, buffer and submitter
      Bound              where the worker is, and how much room the log has then

  `Order` is why the theorem assumes one submitter: with two, indices are drawn
  and enqueued in different orders (finding `XQueueTwoSubmitters`), popping
  through an index may pop nothing, and the bound is then not kept.

`XQueueIdleProofs` goes on from there, for all kinds, both levels, any bounds, and any
number of threads that submit and wait:

* `IdleEnds`: `Spec => []IdleEndsWithWaitAll`, the assertion of the code, without further
  assumptions.  The invariant `RestInv` says that each `WaitAll` that is not completed
  is in the buffer or being served (`Awaited`), and what the controllers have not
  done yet while the queue can be used (`Alive`).
* `SuspendedMatches`: `Spec => []SuspendedMatchesWorker`, with one controller.  `Matches`
  ties `suspended_` and the worker's state to what the controller does next.
* `IdleDrained`: `Spec => []IdleMeansDrained`, with one controller.  The invariant
  `DrainInv` is

      Kept          an uncompleted command is in the buffer, in hands or in the log
      LastOfBuffer  last_cmd_ is the last of a buffer that is not empty
      NoneLeft      what idle means: nothing in any of these three places
      Drained       when the last WaitAll has left the buffer, the worker is
                    serving that very command or the log is empty
      GivenUp       if a drop took it from the buffer, the drop has given up,
                    or will, the command that the worker holds

  The last two are the subtle ones: after a drop the buffer is empty and its last
  command was a `WaitAll`, so that the worker reports idle next, with a command still
  in its hands.  That command goes no further than the index the drop reads.

*One controller* (`OneController`) is the executor's position in XSched; the run
`XQueueTwoControllers` shows that two do not work.

`XQueueOrderProofs` is about the commands in the log:

* `LogFrozen`: `Spec => []LogFrozenWhilePaused`, with one submitting thread and none that
  waits.  The invariant `FrozenInv` adds to the order of the commands what each
  thread remembers of `pause_count_` (`Seen`) and who can hold `mtx_` (`Held`).
* `DroppedStays`: `Spec => DroppedIsNotLaunched`, with any threads.  `Placed` says that a
  command is in one place only; `Above` that the log holds nothing up to `drop_idx_`.
* `OrderKept`, `CompletedRan`, `PromisesKept`: `RunsInOrder`, `CompletedMeansExecuted` and the
  refinement `KeepsPromises`, under `Steady(k)`: one submitter, one controller, and at
  level 2 no waiting thread and no drops.  At level 1 threads may wait and drop as
  they like.  The invariant `SteadyInv(k)` adds to `FrozenInv` and `Placed`

      InTurn      what is completed was submitted before what is not
      Synced      what a thread synchronizes is in flight or completed
      HwOrder     the hardware queue is the end of the log, in order
      SyncDone    between the synchronization of the hardware and mtx_: what it
                  covers is out of the hardware queue, if pause_count_ has
                  not changed
      Shape       what may be launched behind a deactivatable command
      Preempting  preempt_idx and exit flag against the controller's step
      Accounted   a command of the log has run, or is in the hardware queue, or
                  was flushed and will be launched again before the worker runs

  `SyncDone` and `Accounted` carry the argument: a synchronization that returned
  because of a flush is recognised by `pause_count_`, and the log that `Reactivate`
  launches again is the one the flush found, by `LogFrozen`.  For the refinement each
  action is mapped to its abstract one: `SubmitEnqueue` to `Submit`, the end of a
  synchronization to `Report`, `HwExecute` to `Execute`; everything else stutters,
  flushes and relaunches included.
* `BarrierKept`: `Spec => []WaitAllIsBarrier`, with one controller and nothing else
  assumed: any level, any number of submitters and waiters, any drops.  The
  invariant `BarrierInv` says of each command that a thread waits for that it is over,
  or ahead of the `WaitAll` in the buffer (`Ahead`), or in the log while the worker
  serves that `WaitAll` (`Syncing`), or within reach of a drop that is under way
  (`Doomed`); and that a `WaitAll` is in the buffer once and not completed before it
  is served (`WaitsOnce`).  A call that shares the last command of an empty buffer is
  where `Drained` and `GivenUp` come in again.

* `QueueActs`: `Spec => Schedulable!Steps`, the steps of `SchedulableQueue` without its
  fairness, under `NeverDrops(k)`: one controller, and at level 2 no drops.  Any
  number of threads may submit and wait.  The invariant `QueueInv` joins `DrainInv`,
  `Placed`, `Matches` and what keeps the destructor apart (`DropsLast`, `Finished`).  The
  count of commands moves by one with a submission and otherwise falls (`LeftStep`),
  because a command in the buffer or in hands is pending and in one place.  So what
  `LocalSystemProofs` and `ServerProofs` take for granted of a queue is a theorem
  about the real one, except that it goes on while it has work and is not paused.

The assumptions of `Steady` are needed: `XQueueTwoSubmitters` and `XQueueTwoControllers` are
the counterexamples without the first two, `XQueueLostKernel` without the third.
For the fourth, TLC finds that at level 2, without any waiting thread, a drop and a
second suspension break `KeepsPromises` and `CompletedMeansExecuted` (section 5, item 1).

`CommandQueueProofs`, for any set of natural numbers as indices: `TypeCorrect`,
`CompletedOver` (a completed command and all before it ran or were given up) and
`RunsOrdered` (commands run in order, repeatable ones excepted).

`MCSLockProofs`, for any threads and locks.  The inductive invariant `IInv` says how
tail, links and flags represent the queue of the history:

    Enqueued   each thread that has swapped the tail is in one queue, once
    Tails      the tail of a lock is the last of its queue, and has no successor
    Heads      the first holds the lock or has been granted it
    Waiters    each other one waits, and is linked to the one before it or about
               to link itself to it
    Nodes      a node that enters a queue is fresh; who grants has a successor

From it follow `Exclusion`, `PrivateNode` and `Implements`: each step of the lock is a
step of `FairLock` or none.  `Waiters` is the heart: with it, the compare-and-swap
fails exactly when somebody stands behind, and whoever stands behind links itself
without looking at anything that could change.

`LocalSchedulerProofs` has the lemmas about the scheduler that its two users need,
for any queues, processes and policies: `SchedInv` (the types of the table and of
the policy object, well-formed events, and `TablesAgree`) survives each event, each
round of each of the eight policies (`SchedAgrees`), time and a change of the
policy.  A round keeps the tables in agreement when the policy resumes and suspends
known queues only, and never one queue both ways (`AssignAgrees`): that is shown of
each policy, and for the rotating policies it rests on the type of their run
queues.  `TablesCorrect` follows in `LocalSystemProofs` and in `ServerProofs`, where
each message that can arrive is shown to be well formed.

A fact about the queues of events on the way to the table (the scheduler's own two,
and in `Server` the channel before them) has to be followed through all of them:
what counts is the last event on a subject, or the first, wherever it is.
`LastIn`, `FirstIn` and `Settled` say so, and the lemmas about them what an event
changes by entering, by being handed on and by being applied.  The proofs of both
systems rest on these.

Assumed of the constants are the natural numbering of the handles, finitely many
processes, numbers for priorities, slices and ages, hints and windows of the types
that `hint.h` gives them and, in `Server`, one queue per process.

`LocalSystemProofs`, for any queues, policies, changes of the policy, hints, lifetimes
and bounds:

* `AgreeCorrect`: `Spec => []AgreeAtRest`.  The inductive invariant `AgreeInv` adds to
  the types of what is on the way (`PipeType`) and to the place of the executor
  (`ExecutorAt`), for each queue,

      Heard    what the scheduler hears of it at each stage of its life: nothing
               yet; its creation first, its present state last, its end not
               yet; its end, and nothing behind it
      Fresh    before its creation it is as it is created
      Obeys    suspended_ and the worker against the table: they differ only
               where the executor has still to do something (ToDo), is
               between the two halves of an operation, or the policy has
               been replaced

  The executor may hold a queue that is being destroyed, and operations may name
  queues that are not registered yet or no longer; `Obeys` speaks of those that are.
* `PrioritiesRule`, `EarliestCorrect`, `SlicesEnd`: `PriorityRules`, `EarliestRun` and
  `SliceEnds`.  The properties speak of a system at rest, where `AgreeInv` makes the
  workers what the table says; `PolicyInv` says that the table is what the policy
  decided in its last round, and still would decide (`Ranked`, `DueFirst`, `OnTurn`,
  `TurnRuns`).  Between two rounds nothing changes but time.  Time matters to LAX and
  UP, which have set a timer in time for what it changes, and to KEDF, where it
  moves all deadlines alike.  `PrioritiesRule` is about any hints: HPF and HHPF run a
  queue with `PRIORITY_NO_EXECUTE` as one of the least priority, against `hint.h:20`;
  LAX starts its search for the highest priority at `PRIORITY_MIN` (`lax.cpp:13`), so that
  a queue below it is always suspended (`Refused`) and is no reason to suspend anyone.
* `WorkConserved`: `Spec => []WorkConserving`, under `ToldOf`.  Each policy leaves a ready
  queue running that it could choose (`Conserves`); LAX, if there is one that it does
  not refuse (`LaxConserves`).  KEDF and UP choose only queues they have a hint of, so the
  invariant `WorkInv` follows the hint of each queue through the events behind its
  creation into the policy (`Hinted`).  `ToldOf` assumes that each queue has such a hint,
  and that KEDF and UP are not switched to when hints given before are lost with the
  old policy: without it the property fails, as `up.cpp:142` makes it (section 5).

`AtRest` holds in reachable states that are not trivial: the run `LocalSystem` checks the
five properties, and a mutant violates each.

`ServerProofs`, for any processes, policies and bounds: `ChannelsCorrect`,
`Spec => []ChannelsReclaimed`.  The property speaks of a server at rest; the
invariant `ChannelInv` says who will close each channel on the way there: the
watcher once the process is in `waits`, else the step that `RecvWorker` or the
callback has still to take (`Accounted`).  It needs that what the messages in the
channel say of their senders is true (`ThreadsTruthful`), so that a channel is
closed only for the dead.

From `ChannelInv`, the tables, and where the last event on each subject is, follow:

* `ExitsClean`: `Spec => []ExitLeavesNothing`.  A process that exited is erased by the last
  of its events, and nothing that speaks of it comes behind (`Erased`), be it the
  client's own farewell or the watcher's report.
* `ClientsCorrect`: `Spec => []ClientsAgree`.  `Heard` follows what a client reported on
  the way in: it is not missed, its queue is created before it is ready, and its
  last report counts.  `Obeyed` follows the operations on the way out: the last one
  in the inbox says what the table says, unless an operation is still to be sent.
* `OsPriorityCorrect`: `Spec => []OsPriorityFirst`, for CHPF.  The property says whom the
  policy lets go before whom by what it last read (`GoesBefore`), in terms of the classes
  of Linux: normal processes among themselves as Linux has them, real-time ones before
  them, but in reverse among themselves, and a process that could not be read before
  all normal ones.  `ConvertedOrder` shows that comparing converted numbers is just
  that.  From a round to the next event `suspended` is what the policy decided
  (`RankedByOs`); the table has the device
  of each living queue right, because its creation is the first that is heard
  of it (`Introduced`, `Placed`).
* `ActiveCorrect`: `Spec => []ActiveFirst`, for AWF and one display (`OneDisplay`).  What AWF
  calls active is then what the display shows (`WindowsShown`); with two displays it
  is not (section 5).

Both are about a server without ghosts, as the properties say: the queue of a
process that died before its last events were read stays in the table, and keeps
others suspended.

**Only model-checked** are

* the liveness properties, `EveryCommandCompletes`, `EveryCallReturns`, `EventuallyIdle`,
  `DestructionEnds`, `EveryJobEnds`, `TurnsCome` and `EveryRequestIsGranted`: they depend on
  fairness, and with it on `ENABLED`, which the provers do not reason about;
* the fairness of `ActsAsQueue`, for that reason; its steps are proved (`QueueActs`);
* at level 2 with drops or with waiting threads: order, completion and `KeepsPromises`.
  There they hold within the bounds of 3.1 only, and not in general.

## 5. Where the code and its documentation disagree

Each is a run that TLC must find violated; `findings` in `PROJECT.json` quotes the
lines on both sides.

1. **A kernel launched while suspended is lost** (`XQueueLostKernel`).  On the path
   for a full log the worker does not look at `state_` again after its
   synchronization, and that synchronization returns at once when an application
   thread has completed the command, paused or not.  The next kernel is launched
   on a suspended queue.  If it is flushed after `Reactivate` read `preempt_idx`
   and before it cleared the flag, nobody launches it again, and the next
   synchronization reports it completed.  No thread needs to wait for that: a drop
   that is followed by another suspension completes the command the worker
   synchronizes in the same way (`launch_worker.cpp:192`-`208`, `317`).
2. **Two submitters** (`XQueueTwoSubmitters`).  The index of a command is drawn before
   and outside the buffer's mutex, while the log is popped by index: in the run the
   command with index 2 is enqueued and launched before the one with index 1, and
   synchronizing it completes 1, which is behind it in the hardware queue and has not
   run.  (`CompletedHasRun` speaks of commands that entered the buffer only; that no
   *drawn* index is passed over, as `CompletedMeansExecuted` asks, is stronger.)
3. **Never idle after a drop** (`XQueueDropIdle`).  `DropAll` empties the buffer under a
   sleeping worker.  `last_cmd_` and `xq_state_` stay, no `WaitAll` is generated, and
   the scheduler takes the queue for ready until the next submission.
4. **Crossing controllers** (`XQueueTwoControllers`).  `Suspend` and `Resume` change
   `suspended_` and the worker in two steps each; when those of two threads
   cross, the worker stays paused with `suspended_` false, and no later `Resume`
   helps.
5. **A destruction that does not end** (`DestroyEnds`).  `Del` takes a queue out of the
   registry, resumes it and waits for its commands, while the executor, which may
   have looked it up before, suspends it.  In the run the queue is idle and the two
   cross: the executor sets `suspended_`, the `Resume` of `Del` clears it and resumes the
   worker, `WaitAll` returns, and the executor pauses the worker.  It has the last
   reference, so the destructor runs there, on the thread of the scheduler; its
   `Resume` returns early (`async_xqueue.cpp:107`), and it waits for the Destroy command
   for ever (39).  With work in the queue, a `Suspend` that comes after the `Resume`
   keeps `WaitAll` from returning instead, because no operation finds the queue.

Met while modelling, in the model as the code has it, and without a run of their
own, because no document says otherwise or the model's bounds leave them out:

* `SetPolicy` marks every queue as running in the table (`local.cpp:61`) but sends no
  operation: queues that the old policy suspended stay so until the next event
  makes a round.  `AtRest` excludes that stretch by `switched`.
* Events of a crashed process that the server reads after its death create its
  status again, and nothing removes it (`Ghosts`).  Under HPF, CHPF and AWF a ready
  ghost keeps others suspended; the rules of `Server` are stated without ghosts,
  `TurnsCome` with them.
* AWF keeps a set of active processes, not a count: one that two displays show is
  no longer active when one of them shows another (`awf.cpp:48`).
* KEDF gives a ready queue without a deadline the same place as a queue without work
  (`kedf.cpp:35`); UP never chooses a queue without a utilization (`up.cpp:142`).
* HPF and HHPF clamp `PRIORITY_NO_EXECUTE` to `PRIORITY_MIN` (`hpf.cpp:51`) and execute the
  queue when nothing else is ready, although `include/xsched/hint.h:20` says "The
  XQueue will not be executed."  LAX does not clamp, and never resumes such a queue.
  `PriorityRules` states both, and the run gives these hints.
* CHPF negates the number of the kernel from 100 on and keeps it below
  (`chpf.cpp:27`), so that of two real-time processes the one with the larger number,
  which is the weaker one, goes first.  A missing `/proc` entry counts as 0 and
  outranks every normal process.  `OsPriorityFirst` states it as the code has it.
* The values that CHPF reads are those of its last round; a process that is reniced
  while no event arrives keeps its old place.

## 6. Not modelled, and why

* Level 3 (`Interrupt`, `Restore`): driver ioctls and trap handlers; at this level
  of detail it would be a second kind of flush.
* The blocks of a kernel that is flushed half-way and resumed: part of the GPU
  code, below the granularity of commands.
* `SetPreemptLevel` and `SetLaunchConfig`: marked not thread-safe in the code;
  `Level`, `Threshold` and `BatchSize` are constants until the configuration is
  modelled.
* Waiting for another queue before a launch (`BeforeLaunch`): needs two queues.
* Host function commands: no code creates one.
* Replacement of a scheduler by one of another kind, operations that configure
  queues, `ForEach` and `ForEachWaitAll` of the registry, and the reference counts of
  commands and hardware queues.
* Of the server, queries and configuration over HTTP, policy changes, and `Stop`.  Of
  the watcher, `Stop` and the variant that scans `/proc` on kernels without pidfds.
* The weights of UP and PUP: utilizations and budgets make slices longer or
  shorter.  `UTILIZATION_MIN` is 0, so a slice may have no length; the theorems allow
  `SliceTicks` to be 0, the runs have 1, and `TurnsCome` and `EveryJobEnds` are shown for
  slices that are not empty.
* The memory order of processors other than x86 (2.6).
* The channels of `3rdparty/ipc`: their code is not in the repository.
* Shims and hardware layers of the platforms other than what `HwQueue` models.  By
  far the most lines under `platforms` are vendor headers; the layers themselves
  build commands and pass them on.

## 7. Plan

Done: the XQueue core with its abstract specification; the scheduler with all
policies; the registry and the executor in one process; the server with its
clients; the lock; and the proofs of every safety property that a run checks, the
refinements included.  Next, in order of importance:

1. **Level 2 with waiting threads**: what exactly keeps order and completion when a
   waiter completes a command ahead of the worker.
2. **Configuration**: `SetPreemptLevel` and `SetLaunchConfig` on the thread that also
   has to resume the queue.
3. **References**: command handles, the cycle of XQueue and HwQueue, automatic
   destruction.
4. **Replacement of the scheduler** while queues are suspended.
5. **Two queues with events between them**.
