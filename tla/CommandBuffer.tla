--------------------------- MODULE CommandBuffer ---------------------------
(***************************************************************************)
(* The command buffer of an XQueue (preempt/src/xqueue/command_buffer.cpp) *)
(* and the state of the commands it holds (preempt/src/xqueue/xcommand.cpp)*)
(*                                                                         *)
(* A hardware command is named by its index (HwCommand::GetIdx): the n-th  *)
(* one to draw an index from next_hw_cmd_idx_ is n.  An XQueueWaitAll      *)
(* command is named by the order of creation.  What a hardware command     *)
(* computes is left out; its kind says which properties it has.            *)
(***************************************************************************)
EXTENDS Integers, SequencesExt

CONSTANTS
  Kinds      (* the kinds of hardware commands the applications submit *)

(* A "kernel" is deactivatable, an "event" idempotent and synchronizable   *)
(* from its creation, a "memory" command neither, a "blocking" one is a    *)
(* memory command whose submission waits for its launch, and a "callback"  *)
(* (HwCallbackCommand) can never be synchronized.                          *)
AllKinds == {"kernel", "event", "memory", "blocking", "callback"}

ASSUME KindsAssumption == Kinds \subseteq AllKinds

VARIABLES
  kind,      (* kind[i]: the properties of hardware command i              *)
  state,     (* state[i]: the XCommandState of hardware command i          *)
  sync,      (* the hardware commands that are Synchronizable()            *)
  wait_all,  (* wait_all[w]: the XCommandState of the w-th WaitAll command *)
  cmds,      (* cmds_                                                      *)
  last_cmd,  (* last_cmd_                                                  *)
  xq_state   (* xq_state_                                                  *)

bufVars == <<kind, state, sync, wait_all, cmds, last_cmd, xq_state>>

(* XCommandState *)
Created   == 0
Pending   == 1
InFlight  == 2
Completed == 3
CmdState  == 0..3

HwIdx == DOMAIN kind

Deactivatable(i) == kind[i] = "kernel"
Idempotent(i)    == kind[i] = "event"

(* The commands a buffer holds, by type.  Synchronizing commands that      *)
(* nobody can wait for need no name.                                       *)
Hardware(i) == [type |-> "Hardware", id |-> i]
WaitAll(w)  == [type |-> "WaitAll", id |-> w]
BatchSync   == [type |-> "BatchSync", id |-> 0]
Destroy     == [type |-> "Destroy", id |-> 0]

CmdType == {"Hardware", "WaitAll", "BatchSync", "Destroy"}
Command == [type : CmdType, id : Nat]

(* The hardware commands among the elements of a sequence of commands.     *)
HwIn(s) == {s[p].id : p \in {q \in DOMAIN s : s[q].type = "Hardware"}}

(* SetState on the hardware commands of S.                                 *)
SetStates(S, st) == state' = [i \in DOMAIN state |-> IF i \in S THEN st ELSE state[i]]

(***************************************************************************)
(* The constructor enqueues a WaitAll command and AsyncXQueue waits for    *)
(* it: an XQueue starts idle with that command completed.                  *)
(***************************************************************************)
BufInit ==
  /\ kind = <<>> /\ state = <<>> /\ sync = {}
  /\ wait_all = <<Completed>>
  /\ cmds = <<>>
  /\ last_cmd = WaitAll(1)
  /\ xq_state = "Idle"

(* A hardware command k is created and draws the next index.               *)
DrawIdx(k) ==
  /\ kind' = Append(kind, k)
  /\ state' = Append(state, Created)
  /\ sync' = IF k = "event" THEN sync \cup {Len(kind) + 1} ELSE sync
  /\ UNCHANGED <<wait_all, cmds, last_cmd, xq_state>>

(* A slip: last_cmd_ is not updated.                                       *)
EnqueueKeepingLast(i) ==
  /\ SetStates({i}, Pending)
  /\ xq_state' = "Ready"
  /\ cmds' = Append(cmds, Hardware(i))
  /\ UNCHANGED <<kind, sync, wait_all, last_cmd>>

(***************************************************************************)
(* Enqueue of a hardware command: it becomes pending, the queue becomes    *)
(* ready (XQueueReadyEvent) if it was idle.                                *)
(***************************************************************************)
EnqueueHardware(i) ==
  /\ SetStates({i}, Pending)
  /\ xq_state' = "Ready"
  /\ last_cmd' = Hardware(i)
  /\ cmds' = Append(cmds, Hardware(i))
  /\ UNCHANGED <<kind, sync, wait_all>>

(* Enqueue of the XQueueDestroyCommand. *)
EnqueueDestroy ==
  /\ last_cmd' = Destroy
  /\ cmds' = Append(cmds, Destroy)
  /\ UNCHANGED <<kind, state, sync, wait_all, xq_state>>

(* A slip: whoever waits shares the latest WaitAll command.                *)
ShareAnyWaitAll(w) == w = Len(wait_all) /\ UNCHANGED bufVars

(***************************************************************************)
(* EnqueueXQueueWaitAllCommand: an idle buffer, or one whose last command  *)
(* is a WaitAll, hands that command out again; w is the command returned.  *)
(***************************************************************************)
EnqueueXQueueWaitAllCommand(w) ==
  \/ /\ last_cmd = WaitAll(w)
     /\ UNCHANGED bufVars
  \/ /\ xq_state # "Idle"
     /\ last_cmd.type # "WaitAll"
     /\ w = Len(wait_all) + 1
     /\ wait_all' = Append(wait_all, Pending)
     /\ last_cmd' = WaitAll(w)
     /\ cmds' = Append(cmds, WaitAll(w))
     /\ UNCHANGED <<kind, state, sync, xq_state>>

(* Dequeue with a command in the buffer.                                   *)
DequeueFront(c) ==
  /\ cmds # <<>>
  /\ c = Head(cmds)
  /\ cmds' = Tail(cmds)
  /\ UNCHANGED <<kind, state, sync, last_cmd, xq_state>>

(* A slip: any empty buffer is idle.                                       *)
IdleWhenEmpty ==
  /\ cmds = <<>>
  /\ xq_state' = "Idle"
  /\ UNCHANGED <<kind, state, sync, wait_all, cmds, last_cmd>>

(* Dequeue on an empty buffer whose last command is a WaitAll: the queue   *)
(* becomes idle (XQueueIdleEvent) and the worker waits on the condition    *)
(* variable, where it looks at nothing but cmds_ when it wakes up.         *)
DequeueIdle ==
  /\ cmds = <<>>
  /\ last_cmd.type = "WaitAll"
  /\ xq_state' = "Idle"
  /\ UNCHANGED <<kind, state, sync, wait_all, cmds, last_cmd>>

(* A slip: batch synchronizations are generated for ever.                  *)
GenerateBatchSync(c) ==
  /\ cmds = <<>> /\ last_cmd.type # "WaitAll"
  /\ c = BatchSync /\ last_cmd' = c
  /\ UNCHANGED <<kind, state, sync, cmds, xq_state>>

(* Dequeue on an empty buffer after a hardware command: a batch            *)
(* synchronization is generated, and a WaitAll after that.                 *)
DequeueGenerate(c) ==
  /\ cmds = <<>>
  /\ last_cmd.type # "WaitAll"
  /\ c = IF last_cmd.type = "BatchSync" THEN WaitAll(Len(wait_all) + 1) ELSE BatchSync
  /\ last_cmd' = c
  /\ UNCHANGED <<kind, state, sync, cmds, xq_state>>

(* DropAll: every buffered command is completed and forgotten.             *)
DropAll ==
  /\ SetStates(HwIn(cmds), Completed)
  /\ wait_all' = [w \in DOMAIN wait_all |->
                    IF \E p \in DOMAIN cmds : cmds[p] = WaitAll(w)
                    THEN Completed ELSE wait_all[w]]
  /\ cmds' = <<>>
  /\ UNCHANGED <<kind, sync, last_cmd, xq_state>>

BufTypeOK ==
  /\ kind \in Seq(AllKinds)
  /\ state \in Seq(CmdState) /\ Len(state) = Len(kind)
  /\ sync \subseteq HwIdx
  /\ wait_all \in Seq(CmdState)
  /\ cmds \in Seq(Command)
  /\ last_cmd \in Command
  /\ xq_state \in {"Idle", "Ready"}
=============================================================================
