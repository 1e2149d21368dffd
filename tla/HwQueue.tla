------------------------------ MODULE HwQueue ------------------------------
(***************************************************************************)
(* The hardware queue below an XQueue, as preempt/hal/hw_queue.h describes *)
(* it and the CUDA level-2 queue implements it: a FIFO that executes its   *)
(* commands in launch order.  At level 2 a deactivated queue flushes the   *)
(* deactivatable commands that reach its head instead of executing them    *)
(* and remembers the first one; the other commands still execute.          *)
(***************************************************************************)
EXTENDS CommandBuffer

CONSTANTS
  Level      (* 1: kPreemptLevelBlock, 2: kPreemptLevelDeactivate *)

ASSUME LevelAssumption == Level \in 1..2

VARIABLES
  hwq,         (* the commands launched and not yet executed or flushed    *)
  executed,    (* history: the commands the hardware executed, in order    *)
  exit_flag,   (* global_exit_flag of the preempt buffer                   *)
  preempt_idx  (* preempt_idx of the preempt buffer: first flushed command *)

hwVars == <<hwq, executed, exit_flag, preempt_idx>>

HwInit ==
  /\ hwq = <<>> /\ executed = <<>>
  /\ exit_flag = FALSE /\ preempt_idx = 0

(* HwQueue::Launch of the commands in s, in order.                         *)
HwLaunch(s) == hwq' = hwq \o s

(* HwQueue::Synchronize and HwCommand::Synchronize return once this holds: *)
(* nothing launched is left, or the command itself has left the queue.     *)
HwSynchronized       == hwq = <<>>
CmdSynchronized(i)   == i \notin ToSet(hwq)

(* The hardware executes the command at the head of the queue.             *)
HwExecute ==
  /\ hwq # <<>>
  /\ ~(exit_flag /\ Deactivatable(Head(hwq)))
  /\ executed' = Append(executed, Head(hwq))
  /\ hwq' = Tail(hwq)
  /\ UNCHANGED <<bufVars, exit_flag, preempt_idx>>

(* The hardware flushes the command at the head of a deactivated queue.    *)
HwFlush ==
  /\ hwq # <<>>
  /\ exit_flag /\ Deactivatable(Head(hwq))
  /\ preempt_idx' = IF preempt_idx = 0 THEN Head(hwq) ELSE preempt_idx
  /\ hwq' = Tail(hwq)
  /\ UNCHANGED <<bufVars, executed, exit_flag>>

HwTypeOK ==
  /\ hwq \in Seq(Nat)
  /\ executed \in Seq(Nat)
  /\ exit_flag \in BOOLEAN
  /\ preempt_idx \in Nat
=============================================================================
