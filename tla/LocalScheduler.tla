--------------------------- MODULE LocalScheduler ---------------------------
(***************************************************************************)
(* The scheduler of sched/src/scheduler/local.cpp: other threads append    *)
(* events, its worker takes all of them at once, applies them one by one   *)
(* to the table of statuses, lets the policy decide and sends one          *)
(* operation to every process.  SetPolicy stops the worker, puts another   *)
(* policy in the place of the old one and starts a new worker.             *)
(***************************************************************************)
EXTENDS Policies

CONSTANTS
  MaxAge,       (* bound: longer ages are not told apart                    *)
  NoPolicy

ASSUME AgeAssumption == MaxAge \in Nat

VARIABLES
  event_queue,  (* event_queue_                                            *)
  tmp_queue,    (* the events the worker has taken                         *)
  terminate,    (* it has seen a SchedulerTerminateEvent                   *)
  sched_pc,     (* "wait", "events", "execute" or, when it has returned,   *)
                (* "end"                                                   *)
  ops,          (* the processes whose operation is still to be sent       *)
  next_policy,  (* the argument of a SetPolicy that waits for the worker   *)
  switched      (* history: no round since the policy was replaced         *)

tableVars  == <<known, ready, suspended, device, age, procs, running, halted>>
policyVars == <<policy, pol, timers>>
workerVars == <<tmp_queue, terminate, sched_pc, ops>>
schedVars  == <<tableVars, policyVars, workerVars, event_queue, next_policy, switched>>

SchedInit ==
  /\ known = {} /\ ready = {} /\ suspended = {}
  /\ device = [q \in Queues |-> Unknown]
  /\ age = [q \in Queues |-> 0]
  /\ procs = {}
  /\ running = [p \in Procs |-> {}] /\ halted = [p \in Procs |-> {}]
  /\ pol = CreatePolicy /\ timers = {}
  /\ tmp_queue = <<>> /\ terminate = FALSE /\ sched_pc = "wait" /\ ops = {}
  /\ next_policy = NoPolicy /\ switched = FALSE
-----------------------------------------------------------------------------
(* The events.  A ready event carries its time: here, how long ago it was. *)
Hint(h)             == [type |-> "hint", hint |-> h]
ProcessCreate(p)    == [type |-> "process_create", pid |-> p]
ProcessDestroy(p)   == [type |-> "process_destroy", pid |-> p]
XQueueCreate(q, d)  == [type |-> "create", q |-> q, device |-> d]
XQueueConfigUpdate(q, d) == [type |-> "config", q |-> q, device |-> d]
XQueueDestroy(q)    == [type |-> "destroy", q |-> q]
XQueueReady(q)      == [type |-> "ready", q |-> q, age |-> 0]
XQueueIdle(q)       == [type |-> "idle", q |-> q]
SchedulerTerminate  == [type |-> "terminate"]

(* LocalScheduler::RecvEvent, for one event after the other.               *)
RecvEvents(es) == event_queue' = event_queue \o es
RecvEvent(e)   == RecvEvents(<<e>>)

-----------------------------------------------------------------------------
(* UpdateStatus: what an event does to the table.                          *)
CreateXQueueStatus(q, d, r, a) ==
  /\ known' = known \cup {q}
  /\ ready' = IF r THEN ready \cup {q} ELSE ready \ {q}
  /\ suspended' = suspended \ {q}
  /\ device' = [device EXCEPT ![q] = d]
  /\ age' = [age EXCEPT ![q] = a]
  /\ procs' = procs \cup {Pid[q]}
  /\ running' = [running EXCEPT ![Pid[q]] = @ \cup {q}]
  /\ UNCHANGED halted

Configured(q, d) ==
  IF q \notin known THEN CreateXQueueStatus(q, d, FALSE, 0)
  ELSE device' = [device EXCEPT ![q] = d]
       /\ UNCHANGED <<known, ready, suspended, age, procs, running, halted>>

BecomesReady(q, a) ==
  IF q \notin known THEN CreateXQueueStatus(q, Unknown, TRUE, a)
  ELSE /\ ready' = ready \cup {q}
       /\ age' = [age EXCEPT ![q] = a]
       /\ UNCHANGED <<known, suspended, device, procs, running, halted>>

(* An idle queue keeps its ready_time, which nothing reads.                *)
BecomesIdle(q) ==
  IF q \notin known THEN CreateXQueueStatus(q, Unknown, FALSE, 0)
  ELSE /\ ready' = ready \ {q}
       /\ age' = [age EXCEPT ![q] = 0]
       /\ UNCHANGED <<known, suspended, device, procs, running, halted>>

Forget(S) ==
  /\ known' = known \ S /\ ready' = ready \ S /\ suspended' = suspended \ S
  /\ device' = [q \in Queues |-> IF q \in S THEN Unknown ELSE device[q]]
  /\ age' = [q \in Queues |-> IF q \in S THEN 0 ELSE age[q]]

(* Mutant: the process keeps the queue among its suspended ones.           *)
ForgetButHalted(q) ==
  IF q \notin known THEN UNCHANGED tableVars
  ELSE /\ running' = [running EXCEPT ![Pid[q]] = @ \ {q}]
       /\ Forget({q}) /\ UNCHANGED <<procs, halted>>

DestroyXQueue(q) ==
  IF q \notin known THEN UNCHANGED tableVars
  ELSE /\ running' = [running EXCEPT ![Pid[q]] = @ \ {q}]
       /\ halted' = [halted EXCEPT ![Pid[q]] = @ \ {q}]
       /\ Forget({q}) /\ UNCHANGED procs

(* Mutant: the suspended queues of a process that goes are not erased.     *)
ForgetRunning(p) ==
  IF p \notin procs THEN UNCHANGED tableVars
  ELSE /\ Forget(running[p])
       /\ procs' = procs \ {p}
       /\ running' = [running EXCEPT ![p] = {}]
       /\ halted' = [halted EXCEPT ![p] = {}]

DestroyProcess(p) ==
  IF p \notin procs THEN UNCHANGED tableVars
  ELSE /\ Forget(running[p] \cup halted[p])
       /\ procs' = procs \ {p}
       /\ running' = [running EXCEPT ![p] = {}]
       /\ halted' = [halted EXCEPT ![p] = {}]

UpdateStatus(e) ==
  /\ CASE e.type \in {"create", "config"} -> Configured(e.q, e.device)
       [] e.type = "destroy"         -> DestroyXQueue(e.q)
       [] e.type = "ready"           -> BecomesReady(e.q, e.age)
       [] e.type = "idle"            -> BecomesIdle(e.q)
       [] e.type = "process_destroy" -> DestroyProcess(e.pid)
       [] e.type = "process_create"  ->
            procs' = procs \cup {e.pid}
            /\ UNCHANGED <<known, ready, suspended, device, age, running, halted>>
       [] OTHER                      -> UNCHANGED tableVars
  /\ pol' = IF e.type = "hint" THEN RecvHint(e.hint) ELSE pol
  /\ UNCHANGED <<policy, timers>>
-----------------------------------------------------------------------------
(* The worker.                                                             *)
(* Mutant: the events that follow the first one are lost.                  *)
TakeFirst ==
  /\ sched_pc = "wait" /\ event_queue # <<>>
  /\ sched_pc' = "events"
  /\ tmp_queue' = <<Head(event_queue)>> /\ event_queue' = <<>>
  /\ UNCHANGED <<tableVars, policyVars, terminate, ops, next_policy, switched>>

Take ==
  /\ sched_pc = "wait" /\ event_queue # <<>>
  /\ sched_pc' = "events"
  /\ tmp_queue' = event_queue /\ event_queue' = <<>>
  /\ UNCHANGED <<tableVars, policyVars, terminate, ops, next_policy, switched>>

(* The timers that are due are removed only when no event is waiting.      *)
TimerFires ==
  /\ sched_pc = "wait" /\ event_queue = <<>> /\ 0 \in timers
  /\ timers' = timers \ {0}
  /\ sched_pc' = "events"
  /\ UNCHANGED <<tableVars, policy, pol, tmp_queue, terminate, ops, event_queue,
                 next_policy, switched>>

Update ==
  /\ sched_pc = "events" /\ tmp_queue # <<>>
  /\ UpdateStatus(Head(tmp_queue))
  /\ tmp_queue' = Tail(tmp_queue)
  /\ terminate' = (terminate \/ Head(tmp_queue) = SchedulerTerminate)
  /\ UNCHANGED <<sched_pc, ops, event_queue, next_policy, switched>>

(* Mutant: a process of which nothing is to run is not told.               *)
RoundForRunning ==
  /\ sched_pc = "events" /\ tmp_queue = <<>>
  /\ Sched
  /\ sched_pc' = "execute"
  /\ ops' = {p \in procs : running'[p] # {}}
  /\ switched' = FALSE
  /\ UNCHANGED <<entryVars, policy, tmp_queue, terminate, event_queue, next_policy>>

(* The policy decides; ExecuteOperations skips processes without queues.   *)
Round ==
  /\ sched_pc = "events" /\ tmp_queue = <<>>
  /\ Sched
  /\ sched_pc' = "execute"
  /\ ops' = {p \in procs : HasQueues(p)}
  /\ switched' = FALSE
  /\ UNCHANGED <<entryVars, policy, tmp_queue, terminate, event_queue, next_policy>>

(* Mutant: the worker returns unless it has been told to.                  *)
EndUnlessTold ==
  /\ sched_pc = "execute" /\ ops = {}
  /\ sched_pc' = IF terminate THEN "wait" ELSE "end"
  /\ UNCHANGED <<tableVars, policyVars, tmp_queue, terminate, ops, event_queue,
                 next_policy, switched>>

(* The operations have been executed, in an order that is not determined.  *)
EndRound ==
  /\ sched_pc = "execute" /\ ops = {}
  /\ sched_pc' = IF terminate THEN "end" ELSE "wait"
  /\ UNCHANGED <<tableVars, policyVars, tmp_queue, terminate, ops, event_queue,
                 next_policy, switched>>

-----------------------------------------------------------------------------
(* SetPolicy: Stop sends the event that ends the worker and joins it ...   *)
SetPolicy(type) ==
  /\ next_policy = NoPolicy /\ type # policy
  /\ next_policy' = type
  /\ RecvEvent(SchedulerTerminate)
  /\ UNCHANGED <<tableVars, policyVars, workerVars, switched>>

(* ... and with the worker gone, the policy is replaced and Run called.    *)
ReplacePolicy ==
  /\ next_policy # NoPolicy /\ sched_pc = "end"
  /\ policy' = next_policy /\ pol' = CreatePolicy /\ timers' = {}
  /\ Assign(known, {})
  /\ sched_pc' = "wait" /\ terminate' = FALSE
  /\ next_policy' = NoPolicy /\ switched' = TRUE
  /\ UNCHANGED <<entryVars, tmp_queue, ops, event_queue>>

-----------------------------------------------------------------------------
(* Time passes while the worker waits: a tick is long compared to a round. *)
(* Only what a policy reads is kept: ages for KEDF and LAX, slices for UP  *)
(* and PUP.                                                                *)
Aged == policy \in {"KEDF", "LAX"}

Older(a) == IF a < MaxAge THEN a + 1 ELSE a
OlderEvents(es) ==
  [i \in DOMAIN es |->
     IF es[i].type = "ready" THEN [es[i] EXCEPT !.age = Older(@)] ELSE es[i]]

EventAges(es) == {es[i].age : i \in {j \in DOMAIN es : es[j].type = "ready"}}
AgesShown == {age[q] : q \in ready} \cup EventAges(event_queue)

Tick ==
  /\ sched_pc = "wait"
  /\ \/ Aged /\ AgesShown # {}
     \/ pol.slice > 0
     \/ timers \ {0} # {}
  (* Bound: KEDF compares ages, so that none may stop at the bound.        *)
  /\ policy = "KEDF" => MaxAge \notin AgesShown
  /\ age' = IF Aged THEN [q \in Queues |-> IF q \in ready THEN Older(age[q]) ELSE age[q]]
            ELSE age
  /\ event_queue' = IF Aged THEN OlderEvents(event_queue) ELSE event_queue
  /\ pol' = [pol EXCEPT !.slice = IF @ > 0 THEN @ - 1 ELSE 0]
  /\ timers' = {IF t > 0 THEN t - 1 ELSE 0 : t \in timers}
  /\ UNCHANGED <<known, ready, suspended, device, procs, running, halted, policy,
                 tmp_queue, terminate, sched_pc, ops, next_policy, switched>>

Worker == Take \/ TimerFires \/ Update \/ Round \/ EndRound
-----------------------------------------------------------------------------
(* The two tables agree: a queue is entered under its process, among the   *)
(* suspended ones exactly when it is marked so, and nobody else is.  The   *)
(* executor and the process policies go by the one, the others by the      *)
(* other.                                                                  *)
TablesAgree ==
  /\ \A p \in Procs :
       /\ running[p] = {q \in known \ suspended : Pid[q] = p}
       /\ halted[p] = {q \in known \cap suspended : Pid[q] = p}
       /\ running[p] \cup halted[p] # {} => p \in procs
  /\ suspended \subseteq known /\ ready \subseteq known

AtRest ==
  /\ sched_pc = "wait" /\ event_queue = <<>> /\ 0 \notin timers
  /\ ~switched
=============================================================================
