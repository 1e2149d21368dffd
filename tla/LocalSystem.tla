----------------------------- MODULE LocalSystem -----------------------------
(***************************************************************************)
(* One process with its own scheduler: application threads create, use and *)
(* destroy XQueues (preempt/src/xqueue/xqueue.cpp), each queue reports to  *)
(* the scheduler (SchedAgent), and on the thread of the scheduler the      *)
(* executor (preempt/src/sched/executor.cpp) suspends and resumes them.    *)
(* What an XQueue does inside is the subject of AsyncXQueue: here it is    *)
(* the number of its commands that are not completed.                      *)
(***************************************************************************)
EXTENDS LocalScheduler

CONSTANTS
  Policies,      (* the policies the scheduler may be started with         *)
  Switches,      (* pairs <<from, to>>: the calls of SetPolicy, not cyclic *)
  DeviceOf,
  Hints(_, _),   (* what the application may say of a queue to a policy    *)
  Mortal,        (* pairs <<policy, queue>>: the queues that may be        *)
                 (* destroyed, and under which policies                    *)
  MaxJobs        (* bound: commands submitted to one queue                 *)

(* What a hint of LAX says of a queue.                                     *)
Laxities == [lax : Int, lax_prio : Int, crit_prio : Int]

ASSUME DeviceAssumption == DeviceOf \in [Queues -> Devices]
ASSUME HintsAssumption ==
  /\ NoHint \notin Int \cup Laxities
  /\ \A type \in Policies \cup {s[2] : s \in Switches}, q \in Queues :
       Hints(type, q) \subseteq
         [kind : {"priority", "deadline", "utilization", "kdeadline"}, q : {q}, value : Int]
         \cup [kind : {"laxity"}, q : {q}, value : Laxities]

VARIABLES
  life,          (* per queue: "none", "hint" (its creator still has to    *)
                 (* relay its hint), "live", the steps of Del ("erased",   *)
                 (* "resuming", "waiting"), "released" (only the executor  *)
                 (* has a reference), "destroying", "gone"                 *)
  jobs,          (* commands that are not completed                        *)
  submitted,     (* commands ever submitted                                *)
  xq_state,      (* of the command buffer: "Idle" or "Ready"               *)
  suspended_flag,(* suspended_ of the XQueue                               *)
  paused,        (* whether the state_ of its launch worker is paused      *)
  done,          (* the handles of the operation that have been dealt with *)
  cur, step      (* the queue the executor has a reference to, and whether *)
                 (* it is to set the "flag", to tell the "worker" or, in   *)
                 (* the destructor, to "wait" for it                       *)

queueVars == <<life, jobs, submitted, xq_state, suspended_flag, paused>>
execVars  == <<done, cur, step>>
vars == <<schedVars, queueVars, execVars>>

(* Events leave the rest of the scheduler alone.                           *)
OnlyEvents == UNCHANGED <<tableVars, policyVars, workerVars, next_policy, switched>>
Relay(es)  == RecvEvents(es) /\ OnlyEvents

(* InitScheduler: the worker runs, and the process has been announced.     *)
Init ==
  /\ SchedInit
  /\ policy \in Policies
  /\ event_queue = <<ProcessCreate(CHOOSE p \in Procs : TRUE)>>
  /\ life = [q \in Queues |-> "none"]
  /\ jobs = [q \in Queues |-> 0] /\ submitted = [q \in Queues |-> 0]
  /\ xq_state = [q \in Queues |-> "Idle"]
  /\ suspended_flag = [q \in Queues |-> FALSE]
  /\ paused = [q \in Queues |-> FALSE]
  /\ done = {} /\ cur = NoQueue /\ step = "flag"

Registered(q) == life[q] \in {"hint", "live"}
Exists(q)     == life[q] \notin {"none", "gone"}
Becomes(q, stage) == life' = [life EXCEPT ![q] = stage]
-----------------------------------------------------------------------------
(* The application.  AutoCreate: the constructor reports the queue, which  *)
(* is registered before the mutex of the registry is given up, and the     *)
(* hint follows before the caller learns of the queue.  Bound: one thread  *)
(* creates the queues, one after the other.                                *)
Create(q) ==
  /\ life[q] = "none" /\ Becomes(q, "hint")
  /\ \A r \in Queues : r < q => life[r] \notin {"none", "hint"}
  /\ Relay(<<XQueueCreate(q, DeviceOf[q])>>)
  /\ UNCHANGED <<jobs, submitted, xq_state, suspended_flag, paused, execVars>>

RelayHint(q) ==
  /\ life[q] = "hint" /\ Becomes(q, "live")
  /\ \E h \in Hints(policy, q) : Relay(<<Hint(h)>>)
  /\ UNCHANGED <<jobs, submitted, xq_state, suspended_flag, paused, execVars>>

(* CommandBuffer::Enqueue of a hardware command.                           *)
Submit(q) ==
  /\ life[q] = "live" /\ submitted[q] < MaxJobs
  /\ submitted' = [submitted EXCEPT ![q] = @ + 1]
  /\ jobs' = [jobs EXCEPT ![q] = @ + 1]
  /\ xq_state' = [xq_state EXCEPT ![q] = "Ready"]
  /\ Relay(IF xq_state[q] = "Idle" THEN <<XQueueReady(q)>> ELSE <<>>)
  /\ UNCHANGED <<life, suspended_flag, paused, execVars>>

(* A command completes; one that was launched before the worker was paused *)
(* may complete afterwards.                                                *)
Complete(q) ==
  /\ Exists(q) /\ jobs[q] > 0
  /\ jobs' = [jobs EXCEPT ![q] = @ - 1]
  /\ UNCHANGED <<schedVars, execVars, life, submitted, xq_state, suspended_flag, paused>>

(* The worker finds the buffer empty and everything completed.             *)
ReportIdle(q) ==
  /\ Exists(q) /\ life[q] # "destroying" /\ xq_state[q] = "Ready" /\ jobs[q] = 0
  /\ xq_state' = [xq_state EXCEPT ![q] = "Idle"]
  /\ Relay(<<XQueueIdle(q)>>)
  /\ UNCHANGED <<life, jobs, submitted, suspended_flag, paused, execVars>>
-----------------------------------------------------------------------------
(* XQueueManager::Del: the queue is taken out of the registry, resumed,    *)
(* and waited for; the last reference to it runs the destructor.           *)
Destroy(q) ==
  /\ life[q] = "live" /\ <<policy, q>> \in Mortal /\ Becomes(q, "erased")
  /\ UNCHANGED <<schedVars, execVars, jobs, submitted, xq_state, suspended_flag, paused>>

DelResume(q) ==
  /\ life[q] = "erased"
  /\ Becomes(q, IF suspended_flag[q] THEN "resuming" ELSE "waiting")
  /\ suspended_flag' = [suspended_flag EXCEPT ![q] = FALSE]
  /\ UNCHANGED <<schedVars, execVars, jobs, submitted, xq_state, paused>>

DelResumeWorker(q) ==
  /\ life[q] = "resuming" /\ Becomes(q, "waiting")
  /\ paused' = [paused EXCEPT ![q] = FALSE]
  /\ UNCHANGED <<schedVars, execVars, jobs, submitted, xq_state, suspended_flag>>

(* The destructor: Resume does nothing unless the flag says suspended; in  *)
(* any case a Destroy command then waits for the worker, whose last it is. *)
Destruct(q, now_paused) ==
  /\ Becomes(q, "destroying")
  /\ suspended_flag' = [suspended_flag EXCEPT ![q] = FALSE]
  /\ paused' = [now_paused EXCEPT ![q] = @ /\ ~suspended_flag[q]]
  /\ UNCHANGED <<jobs, submitted, xq_state, event_queue>>

(* The worker ends, unless it is paused and nobody is left to resume it,   *)
(* and the destruction is reported.                                        *)
Destroyed(q) ==
  /\ life[q] = "destroying" /\ ~paused[q] /\ Becomes(q, "gone")
  /\ xq_state' = [xq_state EXCEPT ![q] = "Idle"]
  /\ Relay(<<XQueueDestroy(q)>>)
  /\ UNCHANGED <<jobs, submitted, suspended_flag, paused>>

DelWaitAll(q) ==
  /\ life[q] = "waiting" /\ jobs[q] = 0
  /\ \/ /\ cur = q /\ Becomes(q, "released")
        /\ UNCHANGED <<jobs, submitted, xq_state, suspended_flag, paused, event_queue>>
     \/ cur # q /\ Destruct(q, paused)
  /\ OnlyEvents /\ UNCHANGED execVars

DelDestroyed(q) == cur # q /\ Destroyed(q) /\ UNCHANGED execVars

-----------------------------------------------------------------------------
(* SchedExecutor::ExecuteSchedOperation on the thread of the scheduler:    *)
(* first the queues to resume, then those to suspend.                      *)
ToResume  == (UNION {running[p] : p \in ops}) \ done
ToSuspend == (UNION {halted[p] : p \in ops}) \ done
Handles   == IF ToResume # {} THEN ToResume ELSE ToSuspend

(* XQueueManager::Get: a handle that is not registered is passed over.     *)
Lookup ==
  /\ sched_pc = "execute" /\ cur = NoQueue
  /\ \E q \in Handles :
       IF Registered(q) THEN cur' = q /\ UNCHANGED done
       ELSE done' = done \cup {q} /\ UNCHANGED cur
  /\ UNCHANGED <<schedVars, queueVars, step>>

NextHandle == cur' = NoQueue /\ step' = "flag" /\ done' = done \cup {cur}

(* The reference goes out of scope; if it is the last one, the destructor  *)
(* runs here, on the thread of the scheduler.                              *)
Release(now_paused) ==
  /\ \/ /\ life[cur] = "released" /\ Destruct(cur, now_paused)
        /\ step' = "wait" /\ UNCHANGED <<done, cur>>
     \/ /\ life[cur] # "released" /\ paused' = now_paused /\ NextHandle
        /\ UNCHANGED <<life, jobs, submitted, xq_state, suspended_flag, event_queue>>
  /\ OnlyEvents

ExecDestroyed ==
  /\ cur # NoQueue /\ step = "wait"
  /\ Destroyed(cur) /\ NextHandle

(* XQueue::Suspend and Resume: the flag is exchanged, then the worker told.*)
Wanted == cur \in ToSuspend

ExchangeFlag ==
  /\ cur # NoQueue /\ step = "flag"
  /\ \/ suspended_flag[cur] = Wanted /\ Release(paused)
     \/ /\ suspended_flag[cur] # Wanted
        /\ suspended_flag' = [suspended_flag EXCEPT ![cur] = Wanted]
        /\ step' = "worker"
        /\ UNCHANGED <<schedVars, life, jobs, submitted, xq_state, paused, done, cur>>

TellWorker ==
  /\ cur # NoQueue /\ step = "worker"
  /\ Release([paused EXCEPT ![cur] = Wanted])

EndOperation ==
  /\ sched_pc = "execute" /\ cur = NoQueue /\ ops # {} /\ Handles = {}
  /\ ops' = {} /\ done' = {}
  /\ UNCHANGED <<tableVars, policyVars, tmp_queue, terminate, sched_pc, event_queue,
                 next_policy, switched, queueVars, cur, step>>

Executor == Lookup \/ ExchangeFlag \/ TellWorker \/ ExecDestroyed \/ EndOperation
-----------------------------------------------------------------------------
ChangePolicy ==
  /\ \E s \in Switches : s[1] = policy /\ SetPolicy(s[2])
  /\ UNCHANGED <<queueVars, execVars>>

Lone(A) == A /\ UNCHANGED <<queueVars, execVars>>

Idling(q) == life[q] \in {"none", "live", "gone"} /\ xq_state[q] = "Idle"

(* The destructor waits for a worker that nobody can resume.               *)
Hangs(q) == life[q] = "destroying" /\ paused[q]

(* There is nothing to do, or the scheduler may wait in a destructor.      *)
Terminating ==
  /\ \/ /\ \A q \in Queues : Idling(q)
        /\ sched_pc = "wait" /\ event_queue = <<>> /\ next_policy = NoPolicy
     \/ \E q \in Queues : Hangs(q)
  /\ UNCHANGED vars

Next ==
  \/ \E q \in Queues : \/ Create(q) \/ RelayHint(q) \/ Submit(q) \/ Complete(q)
                       \/ ReportIdle(q) \/ Destroy(q) \/ DelResume(q) \/ DelResumeWorker(q)
                       \/ DelWaitAll(q) \/ DelDestroyed(q)
  \/ Executor
  \/ Lone(Worker)
  \/ Lone(Tick)
  \/ ChangePolicy
  \/ Lone(ReplacePolicy)
  \/ Terminating

Spec == Init /\ [][Next]_vars

Runs(q) == ~paused[q] \/ xq_state[q] = "Idle"

(* Whatever application and worker of q have begun goes on, with a queue   *)
(* that has commands only while it is not paused.                          *)
Progress(q) ==
  \/ RelayHint(q) \/ DelResume(q) \/ DelResumeWorker(q) \/ DelDestroyed(q)
  \/ Runs(q) /\ (Complete(q) \/ ReportIdle(q) \/ DelWaitAll(q))

(* The thread of the scheduler: worker, executor and, joined, SetPolicy.   *)
SchedThread == Executor \/ Lone(Worker) \/ Lone(ReplacePolicy)

(* Threads are scheduled and time passes; a queue that is resumed again    *)
(* and again gets its commands done.                                       *)
FairSpec ==
  /\ Spec /\ WF_vars(SchedThread) /\ WF_vars(Lone(Tick))
  /\ \A q \in Queues : SF_vars(Progress(q))
-----------------------------------------------------------------------------
(* What the scheduler takes for true is true once it has nothing to do:    *)
(* it knows the queues there are, which of them have work, and which are   *)
(* suspended; and flag and worker of each queue agree.                     *)
AgreeAtRest ==
  AtRest =>
    /\ known \subseteq {q \in Queues : Exists(q)}
    /\ \A q \in Queues : Registered(q) =>
         /\ q \in known
         /\ q \in ready <=> xq_state[q] = "Ready"
         /\ q \in suspended <=> paused[q]
         /\ paused[q] = suspended_flag[q]

Rank(q) == IF policy = "LAX" THEN LaxPriority(q) ELSE Priority(q)

(* LAX takes a priority below the least one, PRIORITY_NO_EXECUTE for       *)
(* instance, as it is, and such a queue is not executed at all.  HPF and   *)
(* HHPF take it for the least priority, and execute the queue.             *)
Refused(q) == policy = "LAX" /\ Rank(q) < PriorityMin

(* HPF, HHPF and LAX: once the scheduler is at rest, a queue is suspended  *)
(* exactly while a queue that competes with it has work and ranks higher,  *)
(* or LAX refuses it; under LAX this changes while time passes.            *)
PriorityRules ==
  AtRest /\ policy \in {"HPF", "HHPF", "LAX"} =>
    \A q \in Queues : Registered(q) =>
      (paused[q] <=>
         \/ Refused(q)
         \/ \E r \in Queues : /\ Exists(r) /\ xq_state[r] = "Ready"
                              /\ policy = "HPF" => DeviceOf[r] = DeviceOf[q]
                              /\ Rank(r) > Rank(q))

(* KEDF: k queues run, and no queue that is suspended is due before one of *)
(* them.                                                                   *)
EarliestRun ==
  AtRest /\ policy = "KEDF" /\ (\A q \in known : Registered(q)) =>
    /\ Cardinality({q \in known : ~paused[q]}) = Least({pol.k, Cardinality(known)})
    /\ \A q, r \in known : paused[q] /\ ~paused[r] => ~DueBefore(q, r)

(* No policy suspends all queues that have work and are to be executed,    *)
(* unless one of them is being destroyed and resumes itself.               *)
WorkConserving ==
  LET busy == {q \in Queues : life[q] = "live" /\ jobs[q] > 0 /\ ~Refused(q)}
      destroyed == {q \in Queues : Exists(q) /\ ~Registered(q)}
  IN AtRest /\ busy # {} /\ destroyed = {} =>
       \E q \in Queues : xq_state[q] = "Ready" /\ ~paused[q]

(* UP: the slice of the queue whose turn it is ends although that queue    *)
(* may never finish: it has its slice undisturbed, and a timer is set.     *)
SliceEnds ==
  AtRest /\ policy = "UP" /\ pol.cur # NoQueue /\ Registered(pol.cur) =>
    ~paused[pol.cur] /\ (\E t \in timers : t <= pol.slice)

(* Whatever the policy, and when it changes, no queue waits for ever,      *)
(* except for one that LAX is told never to execute, as long as no other   *)
(* is destroyed and hangs: in its WaitAll it keeps its rank, and in its    *)
(* destructor it may keep the thread of the scheduler.                     *)
EveryJobEnds ==
  LET never(q) == policy = "LAX" /\ pol.hints[q] # NoHint
                  /\ pol.hints[q].crit_prio < PriorityMin
  IN \A q \in Queues : jobs[q] > 0 ~>
       \/ jobs[q] = 0 \/ never(q)
       \/ \E r \in Queues : life[r] \in {"waiting", "destroying"} /\ paused[r]

(* The commands of a queue that is destroyed are waited for, and complete. *)
DestroyEnds == \A q \in Queues : life[q] = "erased" ~> life[q] = "gone"
=============================================================================
