------------------------------ MODULE Policies ------------------------------
(***************************************************************************)
(* The scheduling policies of sched/src/policy and the table of statuses   *)
(* they decide on.  Sched of a policy is an action: it tells every queue,  *)
(* or some, to run or to be suspended, which LocalScheduler::Suspend and   *)
(* Resume only write into the table; the scheduler sends the operations    *)
(* afterwards.  All of this happens on the thread of the scheduler.        *)
(*                                                                         *)
(* Time is counted in ticks and relative to now: the age of a ready queue  *)
(* (now - ready_time), the rest of a time slice, the ticks until a timer.  *)
(***************************************************************************)
EXTENDS Integers, FiniteSets, SequencesExt

CONSTANTS
  Queues,       (* the handles, natural numbers: std::map orders by them   *)
  Procs,        (* the pids                                                *)
  Pid,          (* the process of each queue                               *)
  Devices,
  Displays,
  OsPriorities, (* what may be read of each process in the prio line of    *)
                (* /proc/<pid>/sched, NoEntry when there is nothing to read *)
  PriorityMin, PriorityMax,
  SliceTicks,   (* the length of a time slice, whatever the weights        *)
  NoHint, NoPid, NoQueue, NoEntry, Unknown

ASSUME QueuesAssumption == Queues \subseteq Nat /\ NoQueue \notin Queues
ASSUME PidAssumption == Pid \in [Queues -> Procs] /\ NoPid \notin Procs
ASSUME ProcsAssumption == IsFiniteSet(Procs) /\ Procs # {}
ASSUME SliceAssumption == SliceTicks \in Nat
ASSUME PriorityAssumption ==
  PriorityMin \in Int /\ PriorityMax \in Int /\ PriorityMin <= 0
(* Linux counts from -1 (deadline scheduling) to 139: no negated priority  *)
(* is below PriorityMin, which is -255.                                    *)
ASSUME OsPrioritiesAssumption ==
  /\ NoEntry \notin Int
  /\ \A p \in Procs :
       /\ OsPriorities[p] # {} /\ OsPriorities[p] \subseteq Int \cup {NoEntry}
       /\ \A prio \in OsPriorities[p] \ {NoEntry} : prio >= -1 /\ PriorityMin <= -prio

VARIABLES
  known,        (* the queues that have an XQueueStatus                    *)
  ready, suspended, device, age,             (* its fields                 *)
  procs,        (* the processes that have a ProcessStatus                 *)
  running, halted,  (* running_xqueues and suspended_xqueues of each       *)
  policy,       (* policy_type_                                            *)
  pol,          (* the fields of the policy object                         *)
  timers        (* timers_                                                 *)

entryVars == <<known, ready, device, age, procs>>
markVars  == <<suspended, running, halted>>

QueuesOf(p) == {q \in Queues : Pid[q] = p}
Least(S)    == CHOOSE x \in S : \A y \in S : x <= y

PolicyNames == {"HPF", "HHPF", "UP", "PUP", "KEDF", "LAX", "AWF", "CHPF"}

(* A policy object just created: no hint, nothing running.                 *)
CreatePolicy == [
  hints  |-> [q \in Queues |-> NoHint],  (* per queue, what the hint says  *)
  k      |-> 1,                          (* KEDF                           *)
  cur    |-> NoQueue,                    (* UP: cur_running_               *)
  slice  |-> 0,                          (* UP and PUP: ticks left         *)
  queue  |-> <<>>,                       (* PUP: run_queue_, the processes *)
  turn   |-> NoPid,                      (* PUP: the one whose entry runs  *)
  active |-> {},                         (* AWF: active_pids_              *)
  window |-> [d \in Displays |-> NoPid], (* AWF: display_active_pids_      *)
  os     |-> [p \in Procs |-> NoEntry]]  (* CHPF: what the last round read *)

(* The policy resumes the queues of R and suspends those of S: what Resume *)
(* and Suspend of the local scheduler do to the table.                     *)
Assign(R, S) ==
  /\ suspended' = (suspended \ R) \cup S
  /\ running' = [p \in Procs |-> IF p \notin procs THEN running[p]
       ELSE (running[p] \ S) \cup (R \cap QueuesOf(p))]
  /\ halted' = [p \in Procs |-> IF p \notin procs THEN halted[p]
       ELSE (halted[p] \ R) \cup (S \cap QueuesOf(p))]

SuspendOnly(S) == Assign(known \ S, S)
KeepAll == UNCHANGED markVars

-----------------------------------------------------------------------------
(* The priorities.  A queue is suspended when a ready one that competes    *)
(* with it has a higher priority.                                          *)
Clamp(x) == IF x < PriorityMin THEN PriorityMin
            ELSE IF x > PriorityMax THEN PriorityMax ELSE x

Priority(q) == IF pol.hints[q] = NoHint THEN 0 ELSE pol.hints[q]

Outranked(prio) == {q \in known : \E r \in ready : prio[r] > prio[q]}

OutrankedOnDevice(prio) ==
  {q \in known : \E r \in ready : device[r] = device[q] /\ prio[r] > prio[q]}

Priorities == [q \in Queues |-> Priority(q)]

HPFSched  == SuspendOnly(OutrankedOnDevice(Priorities)) /\ UNCHANGED <<pol, timers>>
HHPFSched == SuspendOnly(Outranked(Priorities)) /\ UNCHANGED <<pol, timers>>

(* CHPF takes the priorities from the operating system in each round,      *)
(* where a process may have been reniced since the last one, or be gone.   *)
(* From 100 on, where the normal processes are, the smaller number is the  *)
(* higher priority; smaller numbers are taken as they are.                 *)
Converted(prio) ==
  CASE prio = NoEntry -> 0
    [] prio # NoEntry /\ prio >= 100 -> -prio
    [] OTHER -> prio

(* Mutant: the number that is read is the priority.                        *)
ReadAsPriority(os) == [q \in Queues |-> IF os[Pid[q]] = NoEntry THEN 0 ELSE os[Pid[q]]]

PidPrio(os) == [q \in Queues |-> Converted(os[Pid[q]])]

(* The processes that have a status are looked up.                         *)
CHPFSched ==
  \E os \in [Procs -> (UNION {OsPriorities[p] : p \in Procs}) \cup {NoEntry}] :
    /\ \A p \in Procs : os[p] \in IF p \in procs THEN OsPriorities[p] ELSE {NoEntry}
    /\ SuspendOnly(OutrankedOnDevice(PidPrio(os)))
    /\ pol' = [pol EXCEPT !.os = os]
    /\ UNCHANGED timers

(* LAX: a hint is a record of lax, lax_prio and crit_prio.  A ready queue  *)
(* has the critical priority once it is as old as lax.                     *)
Lax(q)  == pol.hints[q] # NoHint /\ age[q] < pol.hints[q].lax

LaxPriority(q) ==
  IF pol.hints[q] = NoHint THEN 0
  ELSE IF q \notin ready \/ Lax(q) THEN pol.hints[q].lax_prio
  ELSE pol.hints[q].crit_prio

(* The queues that rank below a ready one, or below every priority.        *)
Relaxed ==
  Outranked([q \in Queues |-> LaxPriority(q)])
  \cup {q \in known : LaxPriority(q) < PriorityMin}

(* Mutant: nothing wakes the scheduler when a queue becomes critical.      *)
LAXWithoutTimer ==
  /\ SuspendOnly(Relaxed)
  /\ UNCHANGED <<pol, timers>>

(* The next round is due when the first queue uses up its laxity.          *)
LAXSched ==
  LET waiting == {pol.hints[q].lax - age[q] : q \in {r \in ready : Lax(r)}}
  IN /\ SuspendOnly(Relaxed)
     /\ timers' = IF waiting = {} THEN timers ELSE timers \cup {Least(waiting)}
     /\ UNCHANGED pol

(* KEDF: k queues run, those with the earliest deadlines; a queue that is  *)
(* not ready and one without a deadline have the same, the last there is,  *)
(* and the sort leaves open which of two equal ones comes first.           *)
HasDeadline(q) == q \in ready /\ pol.hints[q] # NoHint

DueBefore(q, r) ==
  /\ HasDeadline(q)
  /\ HasDeadline(r) => pol.hints[q] - age[q] < pol.hints[r] - age[r]

(* Mutant: the last deadlines come first.                                  *)
KEDFReversed ==
  /\ \E R \in SUBSET known :
       /\ Cardinality(R) = Least({pol.k, Cardinality(known)})
       /\ \A q \in R, r \in known \ R : ~DueBefore(q, r)
       /\ Assign(R, known \ R)
  /\ UNCHANGED <<pol, timers>>

KEDFSched ==
  /\ \E R \in SUBSET known :
       /\ Cardinality(R) = Least({pol.k, Cardinality(known)})
       /\ \A q \in R, r \in known \ R : ~DueBefore(r, q)
       /\ Assign(R, known \ R)
  /\ UNCHANGED <<pol, timers>>

(* AWF: when a process with an active window has a ready queue, only the   *)
(* processes with an active window run.                                    *)
AWFSched ==
  LET inactive == {q \in known : Pid[q] \notin pol.active}
  IN /\ SuspendOnly(IF ready \subseteq inactive THEN {} ELSE inactive)
     /\ UNCHANGED <<pol, timers>>
-----------------------------------------------------------------------------
(* Mutant: no timer ends the slice.                                        *)
SliceWithoutTimer(changed) ==
  pol' = [changed EXCEPT !.slice = SliceTicks] /\ UNCHANGED timers

(* UP: time slices for the queues that have a utilization (utils_), in the *)
(* order of their handles.                                                 *)
StartSlice(changed) ==
  /\ pol' = [changed EXCEPT !.slice = SliceTicks]
  /\ timers' = timers \cup {SliceTicks}

SwitchTo(q, changed) ==
  Assign({q}, known \ {q}) /\ StartSlice([changed EXCEPT !.cur = q])

(* Mutant: a queue without work may get the slice.                         *)
SwitchToIdle(utils, changed) == \E q \in utils : SwitchTo(q, changed)

SwitchToAny(utils, changed) ==
  \/ \E q \in utils \cap ready : SwitchTo(q, changed)
  \/ /\ utils \cap ready = {}
     /\ SuspendOnly(known)
     /\ pol' = [changed EXCEPT !.cur = NoQueue]
     /\ UNCHANGED timers

NextInOrder(q, S) ==
  Least(IF \E r \in S : r > q THEN {r \in S : r > q} ELSE S)

UPSched ==
  LET hints == [q \in Queues |-> IF q \in known THEN pol.hints[q] ELSE NoHint]
      cur   == IF pol.cur \in known THEN pol.cur ELSE NoQueue
      now   == [pol EXCEPT !.hints = hints, !.cur = cur]
      utils == {q \in known : hints[q] # NoHint}
      next  == (utils \cap ready) \ {cur}
      Stay(p) == KeepAll /\ pol' = p /\ UNCHANGED timers
  IN \/ utils = {} /\ Stay(now)
     \/ utils # {} /\ cur = NoQueue /\ SwitchToAny(utils, now)
     \/ /\ utils # {} /\ cur # NoQueue
        /\ \/ pol.slice > 0 /\ cur \in ready /\ Stay(now)
           \/ /\ pol.slice = 0 \/ cur \notin ready
              /\ \/ next # {} /\ SwitchTo(NextInOrder(cur, next), now)
                 \/ next = {} /\ Stay([now EXCEPT !.cur = NoQueue])

-----------------------------------------------------------------------------
(* PUP: time slices for the processes, in the order of run_queue_.  The    *)
(* weights only make slices longer or shorter.                             *)
HasQueues(p) == running[p] \cup halted[p] # {}
ProcessReady(p) == \E q \in running[p] \cup halted[p] : q \in ready

(* The run queue without the processes that are gone, the others in their  *)
(* order, and the new ones behind them.                                    *)
Refreshed(queue) ==
  LET place(p) == IF p \in ToSet(queue) THEN CHOOSE i \in DOMAIN queue : queue[i] = p
                  ELSE Len(queue) + 1
  IN {order \in SetToSeqs({p \in procs : HasQueues(p)}) :
        \A i, j \in DOMAIN order : i < j => place(order[i]) <= place(order[j])}

(* Turns the run queue until its first process is a ready one.             *)
Turned(queue) ==
  LET first == Least({i \in DOMAIN queue : ProcessReady(queue[i])})
  IN SubSeq(queue, first, Len(queue)) \o SubSeq(queue, 1, first - 1)

(* Resumes the queues of the first process and suspends all others.        *)
SwitchProcess(queue) ==
  LET others == {queue[i] : i \in 2 .. Len(queue)}
  IN /\ Assign(halted[queue[1]], UNION {running[p] : p \in others})
     /\ StartSlice([pol EXCEPT !.queue = queue, !.turn = queue[1]])

PUPSched ==
  \E queue \in Refreshed(pol.queue) :
    LET turn  == IF pol.turn \in ToSet(queue) THEN pol.turn ELSE NoPid
        stays == Head(queue) = turn /\ pol.slice > 0 /\ ProcessReady(Head(queue))
    IN \/ /\ \/ \A i \in DOMAIN queue : ~ProcessReady(queue[i])
             \/ queue # <<>> /\ stays
          /\ KeepAll
          /\ pol' = [pol EXCEPT !.queue = queue, !.turn = turn]
          /\ UNCHANGED timers
       \/ /\ \E i \in DOMAIN queue : ProcessReady(queue[i])
          /\ ~stays
          /\ SwitchProcess(Turned(IF Head(queue) = turn
                                  THEN Append(Tail(queue), Head(queue)) ELSE queue))

-----------------------------------------------------------------------------
Sched ==
  \/ policy = "HPF"  /\ HPFSched
  \/ policy = "HHPF" /\ HHPFSched
  \/ policy = "CHPF" /\ CHPFSched
  \/ policy = "LAX"  /\ LAXSched
  \/ policy = "KEDF" /\ KEDFSched
  \/ policy = "AWF"  /\ AWFSched
  \/ policy = "UP"   /\ UPSched
  \/ policy = "PUP"  /\ PUPSched

(* A policy takes the hints of its own types.                              *)
ForQueue(h) == [pol EXCEPT !.hints[h.q] = h.value]

(* Mutant: the process that was shown there before stays active.           *)
KeepPrevious(h) ==
  [pol EXCEPT !.active = @ \cup {h.pid}, !.window[h.display] = h.pid]

(* One display has one active window, so the process shown there before is *)
(* no longer active, even if another display shows it.                     *)
RecvWindow(h) ==
  [pol EXCEPT !.active = (@ \ {pol.window[h.display]}) \cup {h.pid},
              !.window[h.display] = h.pid]

RecvHint(h) ==
  CASE h.kind = "priority" /\ policy \in {"HPF", "HHPF"} ->
         ForQueue([h EXCEPT !.value = Clamp(@)])
    [] h.kind = "laxity" /\ policy = "LAX" -> ForQueue(h)
    [] h.kind = "deadline" /\ policy = "KEDF" -> ForQueue(h)
    [] h.kind = "utilization" /\ policy = "UP" -> ForQueue(h)
    [] h.kind = "kdeadline" /\ policy = "KEDF" /\ h.value >= 1 ->
         [pol EXCEPT !.k = h.value]
    [] h.kind = "window" /\ policy = "AWF" -> RecvWindow(h)
    [] OTHER -> pol
=============================================================================
