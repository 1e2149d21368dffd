------------------------- MODULE AsyncXQueueProofs -------------------------
(***************************************************************************)
(* Theorems about AsyncXQueue, for every value of its constants.           *)
(***************************************************************************)
EXTENDS AsyncXQueue, SequenceTheorems, TLAPS

(***************************************************************************)
(* Type correctness.  TypeOK is inductive with the fact that the commands  *)
(* in the buffer, in the worker's hands and in the hands of a submitting   *)
(* thread have drawn their index.                                          *)
(***************************************************************************)
DrawnIds ==
  /\ \A p \in DOMAIN cmds : cmds[p].type = "Hardware" => cmds[p].id \in HwIdx
  /\ cur.type = "Hardware" => cur.id \in HwIdx
  /\ \A t \in Threads : pc[t] = "enqueue" => arg[t] \in HwIdx

TypeInv == TypeOK /\ DrawnIds

Labels == WorkerLabels \cup SyncCmdLabels \cup AppLabels \cup ControlLabels

LEMMA SetStatesType ==
  ASSUME BufTypeOK, NEW S, NEW st \in CmdState, SetStates(S, st)
  PROVE  state' \in Seq(CmdState) /\ Len(state') = Len(state)
  <1>1. state \in [1 .. Len(state) -> CmdState] /\ Len(state) \in Nat
    BY LenProperties DEF BufTypeOK
  <1>2. state' \in [1 .. Len(state) -> CmdState]
    BY <1>1 DEF SetStates
  <1> QED BY <1>1, <1>2

LEMMA TypeInit == Init => TypeInv
  <1> SUFFICES ASSUME Init PROVE TypeInv OBVIOUS
  <1>1. BufTypeOK
    <2>1. <<Completed>> \in Seq(CmdState)
      BY DEF CmdState, Completed
    <2>2. <<>> \in Seq(AllKinds) /\ <<>> \in Seq(CmdState) /\ <<>> \in Seq(Command)
      OBVIOUS
    <2>3. last_cmd \in Command
      BY DEF Init, BufInit, WaitAll, Command, CmdType
    <2> QED BY <2>1, <2>2, <2>3
        DEF Init, BufInit, BufTypeOK, HwIdx, WaitAll, Command, CmdType
  <1>2. HwTypeOK
    BY EmptySeq DEF Init, HwInit, HwTypeOK
  <1>2a. WorkerTypeOK
    <2>1. <<>> \in Seq(Nat)
      OBVIOUS
    <2>2. cur \in Command
      BY DEF Init, WorkerInit, WaitAll, Command, CmdType
    <2> QED BY <2>1, <2>2 DEF Init, WorkerInit, WorkerTypeOK
  <1>3. ApiTypeOK
    BY DEF Init, WorkerInit, ApiTypeOK, WorkerLabels, AppLabels
  <1>4. DrawnIds
    BY DEF Init, BufInit, WorkerInit, DrawnIds, WaitAll
  <1> QED BY <1>1, <1>2, <1>2a, <1>3, <1>4 DEF TypeInv, TypeOK

USE DEF TypeInv, TypeOK

LEMMA TypeSubmitDraw ==
  ASSUME TypeInv, NEW t \in Apps, SubmitDraw(t)
  PROVE  TypeInv'
  <1>1. PICK k \in Kinds : DrawIdx(k) BY DEF SubmitDraw
  <1>2. kind' \in Seq(AllKinds) /\ Len(kind') = Len(kind) + 1
    BY <1>1, KindsAssumption, AppendProperties DEF DrawIdx, BufTypeOK
  <1>3. state' \in Seq(CmdState) /\ Len(state') = Len(state) + 1
    BY <1>1, AppendProperties DEF DrawIdx, BufTypeOK, CmdState, Created
  <1>4. BufTypeOK'
    BY <1>1, <1>2, <1>3 DEF DrawIdx, BufTypeOK, HwIdx
  <1>5. HwTypeOK' /\ WorkerTypeOK' /\ ApiTypeOK'
    BY DEF SubmitDraw, HwTypeOK, WorkerTypeOK, ApiTypeOK, hwVars, logVars, apiVars, Goto,
       Threads, AppLabels, BufTypeOK
  <1>6. DrawnIds'
    BY <1>1, <1>2 DEF SubmitDraw, DrawIdx, DrawnIds, HwIdx, BufTypeOK, WorkerTypeOK,
       ApiTypeOK, Goto
  <1> QED BY <1>4, <1>5, <1>6

LEMMA TypeSubmitEnqueue ==
  ASSUME TypeInv, NEW t \in Apps, SubmitEnqueue(t)
  PROVE  TypeInv'
  <1>1. state' \in Seq(CmdState) /\ Len(state') = Len(state)
    BY SetStatesType DEF SubmitEnqueue, EnqueueHardware, Pending, CmdState
  <1>2. t \in Threads /\ pc[t] = "enqueue" /\ EnqueueHardware(arg[t]) /\ arg[t] \in HwIdx
    BY DEF SubmitEnqueue, Threads, DrawnIds
  <1>3. Hardware(arg[t]) \in Command
    BY <1>2 DEF WorkerTypeOK, Hardware, Command, CmdType
  <1>4. BufTypeOK'
    BY <1>1, <1>2, <1>3, AppendProperties DEF EnqueueHardware, BufTypeOK, HwIdx
  <1>5. HwTypeOK' /\ WorkerTypeOK'
    BY <1>2 DEF SubmitEnqueue, HwTypeOK, WorkerTypeOK, hwVars, logVars, Return
  <1>5a. ApiTypeOK'
    BY <1>2 DEF SubmitEnqueue, ApiTypeOK, apiVars, Goto, Return, AppLabels
  <1>6. DrawnIds'
    <2>1. cmds' = Append(cmds, Hardware(arg[t])) /\ kind' = kind /\ cur' = cur
      BY <1>2 DEF SubmitEnqueue, EnqueueHardware
    <2>2. ASSUME NEW p \in DOMAIN cmds', cmds'[p].type = "Hardware"
          PROVE  cmds'[p].id \in HwIdx'
      BY <2>1, <2>2, <1>2, <1>3 DEF DrawnIds, HwIdx, BufTypeOK, Hardware
    <2>3. \A s \in Threads : pc'[s] = "enqueue" => arg'[s] \in HwIdx'
      BY <2>1, <1>2 DEF SubmitEnqueue, Goto, Return, ApiTypeOK, WorkerTypeOK, DrawnIds, HwIdx
    <2> QED BY <2>1, <2>2, <2>3 DEF DrawnIds, HwIdx
  <1> QED BY <1>4, <1>5, <1>5a, <1>6

(* What a step leaves alone keeps its type.                                *)
LEMMA BufFrame == BufTypeOK /\ UNCHANGED bufVars => BufTypeOK'
  BY DEF BufTypeOK, bufVars, HwIdx

LEMMA HwFrame == HwTypeOK /\ UNCHANGED hwVars => HwTypeOK'
  BY DEF HwTypeOK, hwVars

(* Steps that change neither a command, the buffer nor the log: they move  *)
(* the worker, or another thread in a synchronization, to its next step.   *)
LEMMA TypeSyncStep ==
  ASSUME TypeInv, NEW t \in Threads,
         \/ SyncCmdCheck(t) \/ SyncCmdHw(t) \/ CvWait(t)
         \/ t = Worker /\ (SyncAllCheck \/ SyncAllHw),
         UNCHANGED apiVars
  PROVE  TypeInv'
  <1> USE DEF SyncCmdCheck, SyncCmdHw, CvWait, SyncAllCheck, SyncAllHw, ReturnFromSync, Goto,
              threadVars
  <1>1. BufTypeOK' /\ HwTypeOK'
    BY BufFrame, HwFrame
  <1>2. WorkerTypeOK'
    <2>1. /\ arg' = arg \/ arg' = [arg EXCEPT ![t] = 0]
          /\ \/ seen_count' = seen_count \/ seen_count' = [seen_count EXCEPT ![t] = 0]
             \/ seen_count' = [seen_count EXCEPT ![t] = pause_count]
      OBVIOUS
    <2>2. lock' \in Threads \cup {NoThread}
      BY DEF WorkerTypeOK, Threads
    <2>3. UNCHANGED <<cmd_log, sync_cmd_log, last_sync_idx, drop_idx, pause_count,
                      worker_state, cur, dropped, ret>>
      BY DEF logVars
    <2> HIDE DEF SyncCmdCheck, SyncCmdHw, CvWait, SyncAllCheck, SyncAllHw
    <2>4. arg' \in [Threads -> Nat]
      BY <2>1 DEF WorkerTypeOK
    <2>5. seen_count' \in [Threads -> Nat]
      <3>1. seen_count \in [Threads -> Nat] /\ pause_count \in Nat
        BY DEF WorkerTypeOK
      <3> HIDE DEF TypeInv
      <3> QED BY <2>1, <3>1
    <2> QED BY <2>2, <2>3, <2>4, <2>5 DEF WorkerTypeOK
  <1>3. ApiTypeOK'
    <2>1. \/ pc' = pc
          \/ \E l \in WorkerLabels \cup SyncCmdLabels \cup AppLabels \cup ControlLabels :
               pc' = [pc EXCEPT ![t] = l]
      BY DEF WorkerTypeOK, WorkerLabels, SyncCmdLabels, AppLabels
    <2> HIDE DEF SyncCmdCheck, SyncCmdHw, CvWait, SyncAllCheck, SyncAllHw
    <2> QED BY <2>1 DEF ApiTypeOK, apiVars
  <1>4. DrawnIds'
    BY DEF DrawnIds, ApiTypeOK, WorkerTypeOK, HwIdx, bufVars, Threads
  <1> QED BY <1>1, <1>2, <1>3, <1>4

LEMMA TypeWorkerControl ==
  ASSUME TypeInv, LaunchBegin \/ LaunchFull \/ AwaitRunning \/ WorkerBatch,
         UNCHANGED apiVars
  PROVE  TypeInv'
  <1> USE DEF LaunchBegin, LaunchFull, AwaitRunning, WorkerBatch, Goto, BeginSyncCmd,
              BeginSyncAll
  <1>1. BufTypeOK' /\ HwTypeOK'
    BY BufFrame, HwFrame
  <1>2. cmd_log' = cmd_log /\ sync_cmd_log' = sync_cmd_log /\ cur' = cur /\ Worker \in Threads
    BY DEF logVars, Threads
  <1>3. \/ arg' = arg
        \/ \E i \in Nat : arg' = [arg EXCEPT ![Worker] = i]
    BY HeadTailProperties, ElementOfSeq DEF WorkerTypeOK
  <1>3a. lock' \in {lock, NoThread, Worker} /\ ret' \in {ret, "full", "tail", "done"}
    OBVIOUS
  <1>3b. UNCHANGED <<last_sync_idx, drop_idx, pause_count, worker_state, dropped, seen_count>>
    OBVIOUS
  <1>4. WorkerTypeOK'
    <2> HIDE DEF LaunchBegin, LaunchFull, AwaitRunning, WorkerBatch
    <2> QED BY <1>2, <1>3, <1>3a, <1>3b DEF WorkerTypeOK
  <1>5. ApiTypeOK'
    BY <1>2 DEF ApiTypeOK, apiVars, WorkerLabels, SyncCmdLabels
  <1>6. DrawnIds'
    BY <1>2, <1>3 DEF DrawnIds, ApiTypeOK, WorkerTypeOK, HwIdx, bufVars
  <1> QED BY <1>1, <1>4, <1>5, <1>6

LEMMA TypeAppControl ==
  ASSUME TypeInv, NEW t \in Apps, WaitCmd(t) \/ CmdReached(t)
  PROVE  TypeInv'
  <1> USE DEF WaitCmd, CmdReached, Goto, Return
  <1>1. BufTypeOK' /\ HwTypeOK' /\ t \in Threads
    BY BufFrame, HwFrame DEF Threads
  <1>2. UNCHANGED <<cmd_log, sync_cmd_log, last_sync_idx, drop_idx, pause_count, worker_state,
                    lock, cur, dropped, seen_count, ret, suspended, terminated, flag, kind,
                    cmds>>
    BY DEF logVars, apiVars, bufVars
  <1>3. \E i \in Nat : arg' = [arg EXCEPT ![t] = i]
    <2>1. ASSUME NEW i \in HwIdx PROVE i \in Nat
      BY LenProperties DEF HwIdx, BufTypeOK
    <2> QED BY <2>1 DEF WorkerTypeOK
  <1>4. covers' \in [Apps -> SUBSET Nat]
    BY DEF ApiTypeOK, apiVars
  <1>5. \E l \in (AppLabels \cup SyncCmdLabels) \ {"enqueue"} : pc' = [pc EXCEPT ![t] = l]
    BY DEF AppLabels, SyncCmdLabels
  <1> HIDE DEF WaitCmd, CmdReached
  <1>6. WorkerTypeOK'
    BY <1>2, <1>3 DEF WorkerTypeOK
  <1>7. ApiTypeOK'
    BY <1>2, <1>4, <1>5 DEF ApiTypeOK
  <1>8. DrawnIds'
    <2>1. PICK l \in (AppLabels \cup SyncCmdLabels) \ {"enqueue"} : pc' = [pc EXCEPT ![t] = l]
      BY <1>5
    <2>2. PICK i \in Nat : arg' = [arg EXCEPT ![t] = i]
      BY <1>3
    <2>3. \A s \in Threads : pc'[s] = "enqueue" => pc[s] = "enqueue" /\ arg'[s] = arg[s]
      BY <2>1, <2>2 DEF ApiTypeOK, WorkerTypeOK
    <2> QED BY <1>2, <2>3 DEF DrawnIds, HwIdx
  <1> QED BY <1>1, <1>6, <1>7, <1>8

(* The steps of Suspend, of Resume up to where it drops, and of the        *)
(* destructor that leave the buffer and the log alone.                     *)
LEMMA RelaunchType ==
  ASSUME NEW log \in Seq(Nat), NEW i, NEW s \in InLogOrder(log, FlushedPositions(log, i))
  PROVE  s \in Seq(Nat)
  <1> DEFINE P == FlushedPositions(log, i)
  <1>1. PICK n \in 0 .. Len(log) :
          \E f \in [1 .. n -> P] : s = [q \in DOMAIN f |-> log[f[q]]]
    BY DEF InLogOrder
  <1>1a. PICK f \in [1 .. n -> P] : s = [q \in DOMAIN f |-> log[f[q]]]
    BY <1>1
  <1>2. \A q \in 1 .. n : log[f[q]] \in Nat
    BY ElementOfSeq, LenProperties DEF FlushedPositions
  <1>3. s \in [1 .. n -> Nat] /\ n \in Nat
    BY <1>1a, <1>2, LenProperties
  <1> QED BY <1>3

LEMMA TypeControl ==
  ASSUME TypeInv, NEW k \in Controllers,
         \/ Suspend(k) \/ SuspendPause(k) \/ SuspendDeactivate(k) \/ SuspendSyncHw(k)
         \/ ResumeBegin(k) \/ ReactivateSync(k) \/ ReactivateRead(k) \/ ReactivateClear(k)
         \/ ReactivateRelaunch(k) \/ ResumeWorker(k) \/ DestructBegin(k) \/ DestructWait(k)
  PROVE  TypeInv'
  <1> USE DEF Suspend, SuspendPause, SuspendDeactivate, SuspendSyncHw, ResumeBegin,
              ReactivateSync, ReactivateRead, ReactivateClear, ReactivateRelaunch,
              ResumeWorker, DestructBegin, DestructWait, Pause, Resume, BeginResume, EndResume,
              DestructResume, Goto
  <1>1. BufTypeOK'
    BY BufFrame
  <1>2. HwTypeOK'
    <2>1. ReactivateRelaunch(k) => hwq' \in Seq(Nat)
      BY RelaunchType, ConcatProperties DEF HwLaunch, WorkerTypeOK, HwTypeOK
    <2>2. ~ReactivateRelaunch(k) => hwq' = hwq
      BY DEF hwVars
    <2>3. executed' = executed /\ preempt_idx' \in {preempt_idx, 0}
      BY DEF hwVars
    <2>4. exit_flag' = exit_flag \/ exit_flag' = TRUE \/ exit_flag' = FALSE
      BY DEF hwVars
    <2> HIDE DEF Suspend, SuspendPause, SuspendDeactivate, SuspendSyncHw, ResumeBegin,
                 ReactivateSync, ReactivateRead, ReactivateClear, ReactivateRelaunch,
                 ResumeWorker, DestructBegin, DestructWait
    <2>5. exit_flag' \in BOOLEAN
      BY <2>4, Zenon DEF HwTypeOK
    <2> QED BY <2>1, <2>2, <2>3, <2>5 DEF HwTypeOK
  <1>3. k \in Threads
    BY DEF Threads
  <1>4. UNCHANGED <<kind, cmds, cmd_log, sync_cmd_log, last_sync_idx, drop_idx, lock, cur,
                    dropped, seen_count, ret, covers>>
    BY DEF logVars, apiVars, bufVars
  <1>5. worker_state' \in {worker_state, "Running", "Paused"} /\ pause_count' \in Nat
    BY DEF WorkerTypeOK
  <1>6. arg' = arg \/ \E i \in Nat : arg' = [arg EXCEPT ![k] = i]
    BY DEF HwTypeOK
  <1>7. \E l \in ControlLabels \ {"enqueue"} : pc' = [pc EXCEPT ![k] = l]
    BY DEF ControlLabels
  <1>8. suspended' \in BOOLEAN /\ terminated' \in BOOLEAN
    BY DEF apiVars, ApiTypeOK
  <1>9. flag' = flag \/ \E f \in {"keep", "drop", "async", "sync"} : flag' = [flag EXCEPT ![k] = f]
    BY ApiAssumption DEF apiVars
  <1> HIDE DEF Suspend, SuspendPause, SuspendDeactivate, SuspendSyncHw, ResumeBegin,
               ReactivateSync, ReactivateRead, ReactivateClear, ReactivateRelaunch,
               ResumeWorker, DestructBegin, DestructWait
  <1>10. WorkerTypeOK'
    BY <1>4, <1>5, <1>6 DEF WorkerTypeOK
  <1>11. ApiTypeOK'
    BY <1>4, <1>7, <1>8, <1>9 DEF ApiTypeOK
  <1>12. DrawnIds'
    BY <1>3, <1>4, <1>6, <1>7 DEF DrawnIds, HwIdx, ApiTypeOK, WorkerTypeOK, ControlLabels
  <1> QED BY <1>1, <1>2, <1>10, <1>11, <1>12

LEMMA TypeWaitAll ==
  ASSUME TypeInv, NEW t \in Apps, CallWaitAll(t) \/ SubmitWaitAll(t)
  PROVE  TypeInv'
  <1>1. PICK w \in 1 .. Len(wait_all) + 1 :
          /\ EnqueueXQueueWaitAllCommand(w)
          /\ CallWaitAll(t) => arg' = [arg EXCEPT ![t] = w]
    BY DEF CallWaitAll, SubmitWaitAll
  <1>2. t \in Threads /\ w \in Nat
    BY LenProperties DEF Threads, BufTypeOK
  <1>3. /\ kind' = kind /\ state' = state /\ sync' = sync /\ xq_state' = xq_state
        /\ \/ UNCHANGED <<wait_all, cmds, last_cmd>>
           \/ /\ wait_all' = Append(wait_all, Pending)
              /\ last_cmd' = WaitAll(w) /\ cmds' = Append(cmds, WaitAll(w))
    BY <1>1 DEF EnqueueXQueueWaitAllCommand, bufVars
  <1>4. WaitAll(w) \in Command /\ Pending \in CmdState
    BY <1>2 DEF WaitAll, Command, CmdType, Pending, CmdState
  <1>5. BufTypeOK'
    <2>1. wait_all \in Seq(CmdState) /\ Append(wait_all, Pending) \in Seq(CmdState)
      BY <1>4, AppendProperties DEF BufTypeOK
    <2>2. cmds \in Seq(Command) /\ Append(cmds, WaitAll(w)) \in Seq(Command)
      BY <1>4, AppendProperties DEF BufTypeOK
    <2> QED BY <1>3, <1>4, <2>1, <2>2 DEF BufTypeOK, HwIdx
  <1>6. HwTypeOK'
    BY HwFrame DEF CallWaitAll, SubmitWaitAll
  <1>7. UNCHANGED <<cmd_log, sync_cmd_log, last_sync_idx, drop_idx, pause_count, worker_state,
                    lock, cur, dropped, seen_count, ret, suspended, terminated, flag>>
    BY DEF CallWaitAll, SubmitWaitAll, logVars, workerVars, apiVars
  <1>8. arg' = arg \/ arg' = [arg EXCEPT ![t] = w]
    BY <1>1 DEF SubmitWaitAll, workerVars
  <1>9. WorkerTypeOK'
    BY <1>2, <1>7, <1>8 DEF WorkerTypeOK
  <1>10. pc' = pc \/ pc' = [pc EXCEPT ![t] = "waitAll"]
    BY DEF CallWaitAll, SubmitWaitAll, workerVars, Goto
  <1>11. covers' \in [Apps -> SUBSET Nat]
    <2>1. Enqueued \subseteq Nat
      BY LenProperties DEF Enqueued, HwIdx, BufTypeOK
    <2>2. covers' = covers \/ covers' = [covers EXCEPT ![t] = Enqueued]
      BY DEF CallWaitAll, SubmitWaitAll, apiVars
    <2> QED BY <2>1, <2>2 DEF ApiTypeOK
  <1>12. ApiTypeOK'
    BY <1>7, <1>10, <1>11 DEF ApiTypeOK, AppLabels
  <1>13. DrawnIds'
    <2>1. ASSUME NEW p \in DOMAIN cmds', cmds'[p].type = "Hardware"
          PROVE  p \in DOMAIN cmds /\ cmds'[p] = cmds[p]
      <3>1. cmds' = cmds \/ cmds' = Append(cmds, WaitAll(w))
        BY <1>3
      <3>2. WaitAll(w).type # "Hardware"
        BY DEF WaitAll
      <3>3. cmds \in Seq(Command)
        BY DEF BufTypeOK
      <3> HIDE DEF TypeInv
      <3> QED BY <2>1, <3>1, <3>2, <3>3, <1>4, AppendProperties
    <2>2. \A s \in Threads : pc'[s] = "enqueue" => pc[s] = "enqueue" /\ arg'[s] = arg[s]
      BY <1>2, <1>8, <1>10 DEF ApiTypeOK, WorkerTypeOK, CallWaitAll, SubmitWaitAll, workerVars
    <2> QED BY <1>3, <1>7, <2>1, <2>2 DEF DrawnIds, HwIdx
  <1> QED BY <1>5, <1>6, <1>9, <1>12, <1>13

LEMMA TypeHwStep ==
  ASSUME TypeInv, HwStep
  PROVE  TypeInv'
  <1>1. BufTypeOK' /\ WorkerTypeOK' /\ ApiTypeOK' /\ DrawnIds'
    BY BufFrame DEF HwStep, HwExecute, HwFlush, workerVars, apiVars, bufVars, WorkerTypeOK,
       ApiTypeOK, DrawnIds, HwIdx
  <1>2. HwTypeOK'
    <2>1. hwq # <<>> /\ hwq' = Tail(hwq)
      BY DEF HwStep, HwExecute, HwFlush
    <2>2. Head(hwq) \in Nat /\ hwq' \in Seq(Nat)
      BY <2>1, HeadTailProperties DEF HwTypeOK
    <2>3. executed' = executed \/ executed' = Append(executed, Head(hwq))
      BY DEF HwStep, HwExecute, HwFlush
    <2>4. executed \in Seq(Nat) /\ Append(executed, Head(hwq)) \in Seq(Nat)
      BY <2>2, AppendProperties DEF HwTypeOK
    <2>5. exit_flag' = exit_flag /\ preempt_idx' \in {preempt_idx, Head(hwq)}
      BY DEF HwStep, HwExecute, HwFlush
    <2> QED BY <2>2, <2>3, <2>4, <2>5 DEF HwTypeOK
  <1> QED BY <1>1, <1>2

LEMMA TypeDestructEnqueue ==
  ASSUME TypeInv, NEW k \in Controllers, DestructEnqueue(k)
  PROVE  TypeInv'
  <1>1. Destroy \in Command /\ Destroy.type # "Hardware" /\ k \in Threads
    BY DEF Destroy, Command, CmdType, Threads
  <1>2. BufTypeOK'
    BY <1>1, AppendProperties DEF DestructEnqueue, EnqueueDestroy, BufTypeOK, HwIdx
  <1>3. HwTypeOK' /\ WorkerTypeOK' /\ ApiTypeOK'
    BY HwFrame DEF DestructEnqueue, WorkerTypeOK, ApiTypeOK, logVars, apiVars, Goto,
       ControlLabels
  <1>4. DrawnIds'
    <2>1. ASSUME NEW p \in DOMAIN cmds', cmds'[p].type = "Hardware"
          PROVE  p \in DOMAIN cmds /\ cmds'[p] = cmds[p]
      BY <1>1, <2>1, AppendProperties DEF DestructEnqueue, EnqueueDestroy, BufTypeOK
    <2>2. \A s \in Threads : pc'[s] = "enqueue" => pc[s] = "enqueue" /\ arg'[s] = arg[s]
      BY DEF DestructEnqueue, Goto, ApiTypeOK
    <2>3. kind' = kind /\ cur' = cur
      BY DEF DestructEnqueue, EnqueueDestroy
    <2> QED BY <2>1, <2>2, <2>3 DEF DrawnIds, HwIdx
  <1> QED BY <1>2, <1>3, <1>4

(* The worker takes a command c: from the buffer, or one generated.        *)
LEMMA DispatchType ==
  ASSUME TypeInv, NEW c \in Command, Dispatch(c), UNCHANGED apiVars,
         c.type = "Hardware" => c.id \in HwIdx
  PROVE  /\ wait_all' \in Seq(CmdState)
         /\ HwTypeOK' /\ WorkerTypeOK' /\ ApiTypeOK'
         /\ cur' = c
         /\ \A s \in Threads : pc'[s] = "enqueue" => pc[s] = "enqueue" /\ arg'[s] = arg[s]
  <1>1. wait_all' \in Seq(CmdState)
    <2>1. InFlight \in CmdState
      BY DEF InFlight, CmdState
    <2>2. wait_all \in Seq(CmdState) /\ Append(wait_all, InFlight) \in Seq(CmdState)
      BY <2>1, AppendProperties DEF BufTypeOK
    <2>3. ASSUME NEW i \in DOMAIN wait_all
          PROVE  [wait_all EXCEPT ![i] = InFlight] \in Seq(CmdState)
      BY <2>1, <2>2, ExceptSeq
    <2>4. \/ wait_all' = wait_all \/ wait_all' = Append(wait_all, InFlight)
          \/ \E i \in DOMAIN wait_all : wait_all' = [wait_all EXCEPT ![i] = InFlight]
      BY DEF Dispatch
    <2> QED BY <2>2, <2>3, <2>4
  <1>2. HwTypeOK' /\ Worker \in Threads
    BY HwFrame DEF Dispatch, Threads
  <1>3. UNCHANGED <<cmd_log, sync_cmd_log, last_sync_idx, drop_idx, pause_count, worker_state,
                    lock, dropped, arg, seen_count>> /\ cur' = c /\ ret' = "done"
    BY DEF Dispatch, logVars
  <1>4. WorkerTypeOK'
    BY <1>3 DEF WorkerTypeOK
  <1>5. \E l \in {"launch", "batch", "allCheck"} : pc' = [pc EXCEPT ![Worker] = l]
    BY DEF Dispatch, Goto
  <1>6. ApiTypeOK'
    BY <1>5 DEF ApiTypeOK, apiVars, WorkerLabels
  <1>7. \A s \in Threads : pc'[s] = "enqueue" => pc[s] = "enqueue" /\ arg'[s] = arg[s]
    BY <1>3, <1>5 DEF ApiTypeOK
  <1> QED BY <1>1, <1>2, <1>3, <1>4, <1>6, <1>7

LEMMA TypeWorkerTake ==
  ASSUME TypeInv, WorkerTake, UNCHANGED apiVars
  PROVE  TypeInv'
  <1>1. CASE \E c \in ToSet(cmds) : DequeueFront(c) /\ Dispatch(c)
    <2>1. PICK c \in ToSet(cmds) : DequeueFront(c) /\ Dispatch(c)
      BY <1>1
    <2>2. cmds # <<>> /\ c = Head(cmds) /\ cmds' = Tail(cmds) /\ cmds \in Seq(Command)
      BY <2>1 DEF DequeueFront, BufTypeOK
    <2>3. c \in Command /\ cmds' \in Seq(Command)
      BY <2>2, HeadTailProperties
    <2>4. c = cmds[1] /\ 1 \in DOMAIN cmds
          /\ \A p \in DOMAIN cmds' : p + 1 \in DOMAIN cmds /\ cmds'[p] = cmds[p + 1]
      BY <2>2
    <2>5. c.type = "Hardware" => c.id \in HwIdx
      BY <2>4 DEF DrawnIds
    <2>6. kind' = kind /\ state' = state /\ sync' = sync /\ last_cmd' = last_cmd
          /\ xq_state' = xq_state
      BY <2>1 DEF DequeueFront
    <2>7. BufTypeOK'
      BY <2>1, <2>3, <2>5, <2>6, DispatchType DEF BufTypeOK, HwIdx
    <2>8. DrawnIds'
      BY <2>1, <2>3, <2>4, <2>5, <2>6, DispatchType DEF DrawnIds, HwIdx
    <2> QED BY <2>1, <2>3, <2>5, <2>7, <2>8, DispatchType
  <1>2. CASE \E c \in {BatchSync, WaitAll(Len(wait_all) + 1)} :
               DequeueGenerate(c) /\ Dispatch(c)
    <2>1. PICK c \in {BatchSync, WaitAll(Len(wait_all) + 1)} :
            DequeueGenerate(c) /\ Dispatch(c)
      BY <1>2
    <2>2. c \in Command /\ c.type # "Hardware"
      BY LenProperties DEF BatchSync, WaitAll, Command, CmdType, BufTypeOK
    <2>3. kind' = kind /\ state' = state /\ sync' = sync /\ cmds' = cmds /\ last_cmd' = c
          /\ xq_state' = xq_state
      BY <2>1 DEF DequeueGenerate
    <2>4. BufTypeOK'
      BY <2>1, <2>2, <2>3, DispatchType DEF BufTypeOK, HwIdx
    <2>5. DrawnIds'
      BY <2>1, <2>2, <2>3, DispatchType DEF DrawnIds, HwIdx
    <2> QED BY <2>1, <2>2, <2>4, <2>5, DispatchType
  <1> QED BY <1>1, <1>2 DEF WorkerTake

LEMMA TypeWorkerIdle ==
  ASSUME TypeInv, WorkerIdle, UNCHANGED apiVars
  PROVE  TypeInv'
  <1>1. BufTypeOK' /\ HwTypeOK'
    BY HwFrame DEF WorkerIdle, DequeueIdle, BufTypeOK, HwIdx
  <1>2. WorkerTypeOK'
    BY DEF WorkerIdle, WorkerTypeOK, logVars
  <1>3. ApiTypeOK'
    BY DEF WorkerIdle, Goto, ApiTypeOK, apiVars, WorkerLabels
  <1>4. DrawnIds'
    BY DEF WorkerIdle, DequeueIdle, Goto, DrawnIds, ApiTypeOK, HwIdx
  <1> QED BY <1>1, <1>2, <1>3, <1>4

LEMMA TypeWorkerDone ==
  ASSUME TypeInv, WorkerDone, UNCHANGED apiVars
  PROVE  TypeInv'
  <1>1. wait_all' \in Seq(CmdState)
    <2>1. wait_all \in Seq(CmdState) /\ Completed \in CmdState
      BY DEF BufTypeOK, Completed, CmdState
    <2>2. cur.id \in DOMAIN wait_all =>
            [wait_all EXCEPT ![cur.id] = Completed] \in Seq(CmdState)
      BY <2>1, ExceptSeq
    <2>3. cur.id \notin DOMAIN wait_all => [wait_all EXCEPT ![cur.id] = Completed] = wait_all
      BY <2>1, LenProperties
    <2> QED BY <2>1, <2>2, <2>3 DEF WorkerDone, CompleteCur
  <1>2. BufTypeOK' /\ HwTypeOK'
    BY <1>1, HwFrame DEF WorkerDone, BufTypeOK, HwIdx
  <1>3. WorkerTypeOK'
    BY DEF WorkerDone, WorkerTypeOK, logVars
  <1>4. ApiTypeOK'
    BY DEF WorkerDone, Goto, ApiTypeOK, apiVars, WorkerLabels
  <1>5. DrawnIds'
    BY DEF WorkerDone, Goto, DrawnIds, ApiTypeOK, HwIdx
  <1> QED BY <1>2, <1>3, <1>4, <1>5

(* Steps that set the state of some commands.                              *)
LEMMA SetStatesBufType ==
  ASSUME BufTypeOK, NEW S, NEW st \in CmdState, SetStates(S, st),
         UNCHANGED <<kind, sync, wait_all, cmds, last_cmd, xq_state>>
  PROVE  BufTypeOK'
  <1>1. state' \in Seq(CmdState) /\ Len(state') = Len(state)
    BY SetStatesType
  <1> QED BY <1>1 DEF BufTypeOK, HwIdx

LEMMA TypeLaunchDropped ==
  ASSUME TypeInv, LaunchDropped, UNCHANGED apiVars
  PROVE  TypeInv'
  <1>1. BufTypeOK'
    <2>1. Completed \in CmdState
      BY DEF Completed, CmdState
    <2> QED BY <2>1, SetStatesBufType DEF LaunchDropped
  <1>2. HwTypeOK'
    BY HwFrame DEF LaunchDropped
  <1>3. WorkerTypeOK'
    <2>1. cur.id \in Nat
      BY DEF WorkerTypeOK, Command
    <2> QED BY <2>1 DEF LaunchDropped, WorkerTypeOK, logVars
  <1>4. ApiTypeOK'
    BY DEF LaunchDropped, Goto, ApiTypeOK, apiVars, WorkerLabels
  <1>5. DrawnIds'
    BY DEF LaunchDropped, Goto, DrawnIds, ApiTypeOK, HwIdx
  <1> QED BY <1>1, <1>2, <1>3, <1>4, <1>5

(* A command is being launched only while it is the worker's current one.  *)
LEMMA TypeLaunch ==
  ASSUME TypeInv, Launch, UNCHANGED apiVars, cur.type = "Hardware"
  PROVE  TypeInv'
  <1>1. cur.id \in Nat /\ cur.id \in HwIdx
    BY DEF WorkerTypeOK, Command, DrawnIds
  <1>2. BufTypeOK'
    <2>1. InFlight \in CmdState
      BY DEF InFlight, CmdState
    <2>2. state' \in Seq(CmdState) /\ Len(state') = Len(state)
      BY <2>1, SetStatesType DEF Launch
    <2>3. sync' \subseteq HwIdx
      BY <1>1 DEF Launch, BufTypeOK
    <2> QED BY <2>2, <2>3 DEF Launch, BufTypeOK, HwIdx
  <1>3. HwTypeOK'
    <2>1. hwq \in Seq(Nat) /\ <<cur.id>> \in Seq(Nat)
      BY <1>1 DEF HwTypeOK
    <2>2. hwq \o <<cur.id>> \in Seq(Nat)
      BY <2>1, ConcatProperties
    <2> QED BY <2>2 DEF Launch, HwLaunch, HwTypeOK
  <1>4. WorkerTypeOK'
    <2>1. cmd_log \in Seq(Nat) /\ Append(cmd_log, cur.id) \in Seq(Nat)
      BY <1>1, AppendProperties DEF WorkerTypeOK
    <2>2. sync_cmd_log \in Seq(Nat) /\ Append(sync_cmd_log, cur.id) \in Seq(Nat)
      BY <1>1, AppendProperties DEF WorkerTypeOK
    <2>3. /\ cmd_log' = Append(cmd_log, cur.id)
          /\ sync_cmd_log' = sync_cmd_log \/ sync_cmd_log' = Append(sync_cmd_log, cur.id)
          /\ last_sync_idx' = last_sync_idx \/ last_sync_idx' = cur.id
      BY DEF Launch
    <2>4. lock' = NoThread /\ UNCHANGED <<drop_idx, pause_count, worker_state, cur, dropped,
                                         arg, seen_count, ret>>
      BY DEF Launch
    <2>5. cmd_log' \in Seq(Nat) /\ sync_cmd_log' \in Seq(Nat)
      BY <2>1, <2>2, <2>3
    <2>6. last_sync_idx' \in Int
      BY <1>1, <2>3 DEF WorkerTypeOK
    <2>7. WorkerTypeOK
      OBVIOUS
    <2> HIDE DEF TypeInv
    <2> QED BY <2>4, <2>5, <2>6, <2>7 DEF WorkerTypeOK
  <1>5. ApiTypeOK'
    BY DEF Launch, Goto, ApiTypeOK, apiVars, WorkerLabels
  <1>6. DrawnIds'
    BY DEF Launch, Goto, DrawnIds, ApiTypeOK, HwIdx
  <1> QED BY <1>2, <1>3, <1>4, <1>5, <1>6

(* The last step of a synchronization, by the worker or an application.    *)
LEMMA TypeSyncPost ==
  ASSUME TypeInv, NEW t \in Threads, SyncCmdPost(t) \/ (t = Worker /\ SyncAllPost),
         UNCHANGED apiVars
  PROVE  TypeInv'
  <1> USE DEF SyncCmdPost, SyncAllPost, ReturnFromSync, Goto
  <1>1. /\ UNCHANGED <<kind, sync, wait_all, cmds, last_cmd, xq_state, last_sync_idx,
                       drop_idx, pause_count, worker_state, cur, dropped, ret>>
        /\ UNCHANGED hwVars
    OBVIOUS
  <1>2. UNCHANGED state \/ \E S : SetStates(S, Completed)
    OBVIOUS
  <1>3. BufTypeOK'
    <2>1. Completed \in CmdState
      BY DEF Completed, CmdState
    <2>2. UNCHANGED state => BufTypeOK'
      BY <1>1, BufFrame DEF bufVars
    <2> QED BY <1>1, <1>2, <2>1, <2>2, SetStatesBufType
  <1>4. cmd_log' \in Seq(Nat) /\ sync_cmd_log' \in Seq(Nat)
    <2>1. ASSUME NEW s \in Seq(Nat), NEW n \in 0 .. Len(s)
          PROVE  SubSeq(s, n + 1, Len(s)) \in Seq(Nat)
      BY <2>1, ElementOfSeq, LenProperties, SubSeqProperties
    <2>2. cmd_log \in Seq(Nat) /\ sync_cmd_log \in Seq(Nat) /\ <<>> \in Seq(Nat)
      BY DEF WorkerTypeOK
    <2> QED BY <2>1, <2>2 DEF logVars
  <1>5. /\ arg' = arg \/ arg' = [arg EXCEPT ![t] = 0]
        /\ seen_count' = seen_count \/ seen_count' = [seen_count EXCEPT ![t] = 0]
        /\ lock' \in {Worker, NoThread, t}
    OBVIOUS
  <1>6. \E l \in (WorkerLabels \cup SyncCmdLabels \cup AppLabels) \ {"enqueue"} :
          pc' = [pc EXCEPT ![t] = l]
    BY DEF WorkerTypeOK, WorkerLabels, SyncCmdLabels, AppLabels
  <1> HIDE DEF SyncCmdPost, SyncAllPost
  <1>7. WorkerTypeOK'
    <2>1. lock' \in Threads \cup {NoThread}
      BY <1>5 DEF Threads
    <2>2. arg \in [Threads -> Nat] /\ [arg EXCEPT ![t] = 0] \in [Threads -> Nat]
      BY DEF WorkerTypeOK
    <2>3. seen_count \in [Threads -> Nat] /\ [seen_count EXCEPT ![t] = 0] \in [Threads -> Nat]
      BY DEF WorkerTypeOK
    <2> QED BY <1>1, <1>4, <1>5, <2>1, <2>2, <2>3 DEF WorkerTypeOK
  <1>8. ApiTypeOK'
    BY <1>6 DEF ApiTypeOK, apiVars
  <1>9. DrawnIds'
    <2>1. \A s \in Threads : pc'[s] = "enqueue" => pc[s] = "enqueue" /\ arg'[s] = arg[s]
      BY <1>5, <1>6 DEF ApiTypeOK, WorkerTypeOK
    <2> QED BY <1>1, <2>1 DEF DrawnIds, HwIdx
  <1> QED BY <1>1, <1>3, <1>7, <1>8, <1>9, HwFrame

LEMMA TypeResumeDropAll ==
  ASSUME TypeInv, NEW k \in Controllers, ResumeDropAll(k)
  PROVE  TypeInv'
  <1>1. BufTypeOK'
    <2>1. Completed \in CmdState
      BY DEF Completed, CmdState
    <2>2. state' \in Seq(CmdState) /\ Len(state') = Len(state)
      BY <2>1, SetStatesType DEF ResumeDropAll, DropAll
    <2>3. wait_all \in [1 .. Len(wait_all) -> CmdState] /\ Len(wait_all) \in Nat
      BY LenProperties DEF BufTypeOK
    <2>4. wait_all' \in [1 .. Len(wait_all) -> CmdState]
      BY <2>1, <2>3 DEF ResumeDropAll, DropAll
    <2>5. wait_all' \in Seq(CmdState) /\ <<>> \in Seq(Command)
      BY <2>3, <2>4
    <2> QED BY <2>2, <2>5 DEF ResumeDropAll, DropAll, BufTypeOK, HwIdx
  <1>2. HwIn(cmds) \subseteq Nat
    <2>1. \A p \in DOMAIN cmds : cmds[p] \in Command
      BY ElementOfSeq, LenProperties DEF BufTypeOK
    <2> QED BY <2>1 DEF HwIn, Command
  <1>3. HwTypeOK' /\ ApiTypeOK'
    BY HwFrame DEF ResumeDropAll, Goto, ApiTypeOK, apiVars, ControlLabels
  <1>4. WorkerTypeOK'
    BY <1>2 DEF ResumeDropAll, WorkerTypeOK, logVars
  <1>5. DrawnIds'
    BY DEF ResumeDropAll, DropAll, Goto, DrawnIds, ApiTypeOK, HwIdx
  <1> QED BY <1>1, <1>3, <1>4, <1>5

LEMMA TypeResumeDrop ==
  ASSUME TypeInv, NEW k \in Controllers, ResumeDropIdx(k) \/ ResumeDrop(k)
  PROVE  TypeInv'
  <1>1. k \in Threads
    BY DEF Threads
  <1>2. CASE ResumeDropIdx(k)
    <2>1. LastDrawn \in Nat
      BY LenProperties DEF LastDrawn, BufTypeOK
    <2>2. BufTypeOK' /\ HwTypeOK' /\ ApiTypeOK'
      BY <1>2, BufFrame, HwFrame DEF ResumeDropIdx, Goto, ApiTypeOK, apiVars, ControlLabels
    <2>3. WorkerTypeOK'
      BY <1>2, <2>1 DEF ResumeDropIdx, WorkerTypeOK, logVars
    <2>4. DrawnIds'
      BY <1>2 DEF ResumeDropIdx, Goto, DrawnIds, ApiTypeOK, WorkerTypeOK, HwIdx, bufVars
    <2> QED BY <2>2, <2>3, <2>4
  <1>3. CASE ResumeDrop(k)
    <2>1. BufTypeOK'
      <3>1. Completed \in CmdState
        BY DEF Completed, CmdState
      <3> QED BY <1>3, <3>1, SetStatesBufType DEF ResumeDrop, ResumeAndDrop
    <2>2. HwTypeOK'
      BY <1>3, HwFrame DEF ResumeDrop
    <2>3. WorkerTypeOK'
      <3>1. ToSet(cmd_log) \subseteq Nat
        BY ElementOfSeq, LenProperties DEF ToSet, WorkerTypeOK
      <3>2. arg[k] \in Nat /\ <<>> \in Seq(Nat)
        BY <1>1 DEF WorkerTypeOK
      <3>3. arg \in [Threads -> Nat] /\ [arg EXCEPT ![k] = 0] \in [Threads -> Nat]
        BY DEF WorkerTypeOK
      <3>4. /\ cmd_log' = <<>> /\ sync_cmd_log' = <<>> /\ drop_idx' = arg[k]
            /\ worker_state' = "Running" /\ dropped' = dropped \cup ToSet(cmd_log)
            /\ arg' = [arg EXCEPT ![k] = 0]
            /\ UNCHANGED <<last_sync_idx, pause_count, lock, cur, seen_count, ret>>
        BY <1>3 DEF ResumeDrop, ResumeAndDrop, EndResume
      <3>5. dropped \subseteq Nat
        BY DEF WorkerTypeOK
      <3>5a. dropped' \subseteq Nat
        BY <3>1, <3>4, <3>5
      <3>5b. drop_idx' \in Int
        BY <3>2, <3>4
      <3>6. cmd_log' \in Seq(Nat) /\ sync_cmd_log' \in Seq(Nat) /\ arg' \in [Threads -> Nat]
        BY <3>2, <3>3, <3>4
      <3>7. WorkerTypeOK
        OBVIOUS
      <3> HIDE DEF TypeInv
      <3> QED BY <3>4, <3>5a, <3>5b, <3>6, <3>7 DEF WorkerTypeOK
    <2>4. ApiTypeOK'
      BY <1>3 DEF ResumeDrop, EndResume, Goto, ApiTypeOK, ControlLabels
    <2>5. DrawnIds'
      <3>1. \A s \in Threads : pc'[s] = "enqueue" => pc[s] = "enqueue" /\ arg'[s] = arg[s]
        BY <1>3 DEF ResumeDrop, EndResume, Goto, ApiTypeOK, WorkerTypeOK
      <3> QED BY <1>3, <3>1 DEF ResumeDrop, ResumeAndDrop, DrawnIds, HwIdx
    <2> QED BY <2>1, <2>2, <2>3, <2>4, <2>5
  <1> QED BY <1>2, <1>3

-----------------------------------------------------------------------------
(***************************************************************************)
(* The worker launches what it has in its hands: while it is on its way to *)
(* a launch, its current command is a hardware command.                    *)
(***************************************************************************)
Launching ==
  \/ pc[Worker] \in {"launch", "full", "await", "tail"}
  \/ /\ pc[Worker] \in {"allCheck", "allSync", "allPost"} \cup SyncCmdLabels
     /\ ret # "done"

LaunchesHardware == Launching => cur.type = "Hardware"

(* Only the worker moves the worker.                                       *)
LEMMA OthersKeepWorker ==
  ASSUME TypeInv,
         \/ HwStep
         \/ \E t \in Apps : AppCall(t) \/ AppProgress(t)
         \/ \E k \in Controllers : ControlCall(k) \/ ControlProgress(k)
  PROVE  UNCHANGED <<cur, ret>> /\ pc'[Worker] = pc[Worker] /\ arg'[Worker] = arg[Worker]
  <1>0. Worker \notin Apps /\ Worker \notin Controllers /\ Worker \in Threads
        /\ pc \in [Threads -> Labels] /\ arg \in [Threads -> Nat]
    BY ThreadsAssumption DEF ApiTypeOK, WorkerTypeOK, Labels, Threads
  <1>1. CASE HwStep
    BY <1>1 DEF HwStep, workerVars
  <1>2. ASSUME NEW t \in Apps, AppCall(t)
        PROVE  UNCHANGED <<cur, ret>> /\ pc'[Worker] = pc[Worker] /\ arg'[Worker] = arg[Worker]
    BY <1>0, <1>2 DEF AppCall, SubmitDraw, WaitCmd, CallWaitAll, SubmitWaitAll, Goto, workerVars
  <1>3. ASSUME NEW t \in Apps, AppProgress(t)
        PROVE  UNCHANGED <<cur, ret>> /\ pc'[Worker] = pc[Worker] /\ arg'[Worker] = arg[Worker]
    <2>1. t # Worker
      BY <1>0
    <2>2. SubmitEnqueue(t) \/ CmdReached(t) \/ SyncCmdHw(t) \/ CvWait(t) \/ SyncCmdCheck(t)
          \/ SyncCmdPost(t)
      BY <1>3 DEF AppProgress
    <2>3. /\ UNCHANGED <<cur, ret>>
          /\ pc' = pc \/ \E l : pc' = [pc EXCEPT ![t] = l]
          /\ arg' = arg \/ arg' = [arg EXCEPT ![t] = 0]
      BY <2>1, <2>2 DEF SubmitEnqueue, CmdReached, SyncCmdHw, CvWait, SyncCmdCheck, SyncCmdPost,
         ReturnFromSync, Return, Goto, threadVars
    <2> QED BY <1>0, <2>1, <2>3
  <1>4. ASSUME NEW k \in Controllers, ControlCall(k) \/ ControlProgress(k)
        PROVE  UNCHANGED <<cur, ret>> /\ pc'[Worker] = pc[Worker] /\ arg'[Worker] = arg[Worker]
    <2>1. k # Worker
      BY <1>0
    <2>2. /\ UNCHANGED <<cur, ret>>
          /\ \E l : pc' = [pc EXCEPT ![k] = l]
          /\ arg' = arg \/ \E i : arg' = [arg EXCEPT ![k] = i]
      BY <1>4 DEF ControlCall, ControlProgress, Suspend, ResumeBegin, DestructBegin,
         SuspendPause, SuspendDeactivate, SuspendSyncHw, ReactivateSync, ReactivateRead,
         ReactivateClear, ReactivateRelaunch, ResumeWorker, ResumeDropAll, ResumeDropIdx,
         ResumeDrop, DestructEnqueue, DestructWait, Pause, Resume, ResumeAndDrop, BeginResume,
         EndResume, DestructResume, Goto
    <2> QED BY <1>0, <2>1, <2>2
  <1> QED BY <1>1, <1>2, <1>3, <1>4

LEMMA WorkerKeepsLaunching ==
  ASSUME TypeInv, WorkerStep, ~WorkerTake
  PROVE  cur' = cur /\ (Launching' => Launching)
  <1>0. Worker \in Threads /\ pc \in [Threads -> Labels] /\ ret \in {"full", "tail", "done"}
    BY DEF Threads, ApiTypeOK, WorkerTypeOK, Labels
  <1>1. CASE WorkerIdle \/ WorkerDone \/ LaunchDropped \/ Launch \/ WorkerBatch
    <2>1. cur' = cur
      BY <1>1 DEF WorkerIdle, WorkerDone, LaunchDropped, Launch, WorkerBatch
    <2>2. CASE WorkerBatch /\ sync_cmd_log # <<>>
      BY <1>0, <2>1, <2>2 DEF WorkerBatch, BeginSyncCmd, Goto, Launching
    <2>3. CASE ~WorkerBatch \/ sync_cmd_log = <<>>
      <3>1. \E l \in {"cvWait", "end", "dequeue"} : pc' = [pc EXCEPT ![Worker] = l]
        BY <1>1, <2>3 DEF WorkerIdle, WorkerDone, LaunchDropped, Launch, WorkerBatch, Goto
      <3> QED BY <1>0, <2>1, <3>1 DEF Launching, SyncCmdLabels
    <2> QED BY <2>2, <2>3
  <1>2. CASE LaunchBegin \/ LaunchFull \/ AwaitRunning
    BY <1>2 DEF LaunchBegin, LaunchFull, AwaitRunning, Launching
  <1>3. CASE SyncAllCheck \/ SyncAllHw \/ SyncAllPost
    BY <1>0, <1>3 DEF SyncAllCheck, SyncAllHw, SyncAllPost, ReturnFromSync, Goto, Launching,
       SyncCmdLabels
  <1>4. CASE SyncCmdCheck(Worker) \/ SyncCmdHw(Worker) \/ SyncCmdPost(Worker) \/ CvWait(Worker)
    BY <1>0, <1>4 DEF SyncCmdCheck, SyncCmdHw, SyncCmdPost, CvWait, ReturnFromSync, Goto,
       Launching, SyncCmdLabels, threadVars
  <1> QED BY <1>1, <1>2, <1>3, <1>4 DEF WorkerStep

LEMMA LaunchesHardwareStep ==
  ASSUME TypeInv, LaunchesHardware, [Next]_vars
  PROVE  LaunchesHardware'
  <1>1. CASE WorkerTake
    <2>1. PICK c : Dispatch(c)
      BY <1>1 DEF WorkerTake
    <2>2. pc'[Worker] \in {"launch", "batch", "allCheck"} /\ ret' = "done" /\ cur' = c
          /\ (pc'[Worker] = "launch" => c.type = "Hardware")
      BY <2>1 DEF Dispatch, Goto, ApiTypeOK, Threads
    <2> QED BY <2>2 DEF Launching, LaunchesHardware, SyncCmdLabels
  <1>2. CASE WorkerStep /\ ~WorkerTake
    BY <1>2, WorkerKeepsLaunching DEF LaunchesHardware
  <1>3. CASE UNCHANGED vars
    BY <1>3 DEF vars, workerVars, Launching, LaunchesHardware
  <1>4. CASE ~WorkerStep /\ ~UNCHANGED vars
    BY <1>4, OthersKeepWorker DEF Next, Terminating, Launching, LaunchesHardware
  <1> QED BY <1>1, <1>2, <1>3, <1>4 DEF WorkerStep

LEMMA TypeStep ==
  ASSUME TypeInv, LaunchesHardware, [Next]_vars
  PROVE  TypeInv'
  <1>1. CASE WorkerStep /\ UNCHANGED apiVars
    <2>1. Launch => cur.type = "Hardware"
      BY DEF Launch, LaunchesHardware, Launching
    <2> HIDE DEF TypeInv, TypeOK
    <2>2. Worker \in Threads
      BY DEF Threads
    <2> QED BY <1>1, <2>1, <2>2, TypeWorkerTake, TypeWorkerIdle, TypeWorkerControl,
            TypeLaunchDropped, TypeLaunch, TypeSyncStep, TypeSyncPost, TypeWorkerDone
            DEF WorkerStep
  <1>2. CASE HwStep
    BY <1>2, TypeHwStep
  <1>3. ASSUME NEW t \in Apps, AppCall(t) \/ AppProgress(t)
        PROVE  TypeInv'
    <2> HIDE DEF TypeInv, TypeOK
    <2>1. t \in Threads
      BY DEF Threads
    <2> QED BY <1>3, <2>1, TypeSubmitDraw, TypeSubmitEnqueue, TypeAppControl, TypeWaitAll,
            TypeSyncStep, TypeSyncPost DEF AppCall, AppProgress
  <1>4. ASSUME NEW k \in Controllers, ControlCall(k) \/ ControlProgress(k)
        PROVE  TypeInv'
    <2> HIDE DEF TypeInv, TypeOK
    <2> QED BY <1>4, TypeControl, TypeResumeDropAll, TypeResumeDrop, TypeDestructEnqueue
            DEF ControlCall, ControlProgress
  <1>5. CASE UNCHANGED vars
    BY <1>5 DEF vars, bufVars, hwVars, workerVars, apiVars, BufTypeOK, HwTypeOK, WorkerTypeOK,
       ApiTypeOK, DrawnIds, HwIdx
  <1> QED BY <1>1, <1>2, <1>3, <1>4, <1>5 DEF Next, Terminating

(* Every variable of an XQueue keeps its type, whatever its threads, the   *)
(* scheduler and the hardware do, and for any number of them.              *)
THEOREM TypeCorrect == Spec => []TypeOK
  <1>1. Init => TypeInv /\ LaunchesHardware
    <2>1. Init => LaunchesHardware
      BY DEF Init, WorkerInit, LaunchesHardware, Launching, SyncCmdLabels, Threads
    <2> QED BY <2>1, TypeInit
  <1>2. TypeInv /\ LaunchesHardware /\ [Next]_vars => (TypeInv /\ LaunchesHardware)'
    BY TypeStep, LaunchesHardwareStep
  <1>3. TypeInv => TypeOK
    OBVIOUS
  <1> HIDE DEF TypeInv, TypeOK
  <1> QED BY <1>1, <1>2, <1>3, PTL DEF Spec

-----------------------------------------------------------------------------
(***************************************************************************)
(* The bound on the commands in flight, with one submitting thread.        *)
(*                                                                         *)
(* Order: the log, the current command, the buffer and the command being   *)
(* submitted hold increasing indices, in that order, and a command in the  *)
(* log is in flight.  Bound: the worker gets to the launch only with a     *)
(* free slot; while it waits for one with the log still full, the command  *)
(* it synchronizes is in the log, so that its return frees a slot.         *)
(***************************************************************************)
OneSubmitter == \A s, t \in Submitters : s = t

Increasing(s) == \A p, q \in DOMAIN s : p < q => s[p] < s[q]

LogOrder ==
  /\ Increasing(cmd_log) /\ Increasing(sync_cmd_log)
  /\ \A p \in DOMAIN cmd_log : cmd_log[p] \in HwIdx /\ state[cmd_log[p]] = InFlight
  /\ \A p \in DOMAIN sync_cmd_log : \E q \in DOMAIN cmd_log : sync_cmd_log[p] = cmd_log[q]

CurOrder == Launching => \A p \in DOMAIN cmd_log : cmd_log[p] < cur.id

BufOrder ==
  \A q \in DOMAIN cmds : cmds[q].type = "Hardware" =>
    /\ cur.type = "Hardware" => cur.id < cmds[q].id
    /\ \A p \in DOMAIN cmd_log : cmd_log[p] < cmds[q].id
    /\ \A p \in DOMAIN cmds : p < q /\ cmds[p].type = "Hardware" => cmds[p].id < cmds[q].id

SubmitOrder ==
  \A t \in Threads : pc[t] = "enqueue" =>
    /\ t \in Submitters
    /\ cur.type = "Hardware" => cur.id < arg[t]
    /\ \A p \in DOMAIN cmd_log : cmd_log[p] < arg[t]
    /\ \A p \in DOMAIN cmds : cmds[p].type = "Hardware" => cmds[p].id < arg[t]

Order == LogOrder /\ CurOrder /\ BufOrder /\ SubmitOrder

Bound ==
  /\ Len(cmd_log) <= Threshold
  /\ pc[Worker] \in {"await", "tail"} => Len(cmd_log) < Threshold
  /\ pc[Worker] \in SyncCmdLabels /\ ret = "tail" /\ Len(cmd_log) = Threshold =>
       \E p \in DOMAIN cmd_log : cmd_log[p] = arg[Worker]

IInv == TypeInv /\ LaunchesHardware /\ Order /\ Bound

(* The facts about types that the order of indices rests on.               *)
LEMMA TypeFacts ==
  ASSUME TypeInv
  PROVE  /\ Len(kind) \in Nat /\ HwIdx = 1 .. Len(kind) /\ DOMAIN state = HwIdx
         /\ Len(cmd_log) \in Nat /\ DOMAIN cmd_log = 1 .. Len(cmd_log)
         /\ \A p \in DOMAIN cmd_log : cmd_log[p] \in Nat
         /\ Len(sync_cmd_log) \in Nat /\ DOMAIN sync_cmd_log = 1 .. Len(sync_cmd_log)
         /\ \A p \in DOMAIN sync_cmd_log : sync_cmd_log[p] \in Nat
         /\ Len(cmds) \in Nat /\ DOMAIN cmds = 1 .. Len(cmds)
         /\ \A p \in DOMAIN cmds : cmds[p].id \in Nat
         /\ cur.id \in Nat
         /\ \A t \in Threads : arg[t] \in Nat
         /\ pc \in [Threads -> Labels]
         /\ Worker \in Threads /\ Apps \subseteq Threads /\ Controllers \subseteq Threads
  <1>1. /\ Len(kind) \in Nat /\ HwIdx = 1 .. Len(kind) /\ DOMAIN state = HwIdx
    BY LenProperties DEF BufTypeOK, HwIdx
  <1>2. /\ Len(cmd_log) \in Nat /\ DOMAIN cmd_log = 1 .. Len(cmd_log)
        /\ \A p \in DOMAIN cmd_log : cmd_log[p] \in Nat
    BY LenProperties, ElementOfSeq DEF WorkerTypeOK
  <1>3. /\ Len(sync_cmd_log) \in Nat /\ DOMAIN sync_cmd_log = 1 .. Len(sync_cmd_log)
        /\ \A p \in DOMAIN sync_cmd_log : sync_cmd_log[p] \in Nat
    BY LenProperties, ElementOfSeq DEF WorkerTypeOK
  <1>4. Len(cmds) \in Nat /\ DOMAIN cmds = 1 .. Len(cmds)
    BY LenProperties DEF BufTypeOK
  <1>5. \A p \in DOMAIN cmds : cmds[p] \in Command
    BY <1>4, ElementOfSeq DEF BufTypeOK
  <1>6. \A p \in DOMAIN cmds : cmds[p].id \in Nat
    BY <1>5 DEF Command
  <1>7. cur.id \in Nat /\ (\A t \in Threads : arg[t] \in Nat) /\ pc \in [Threads -> Labels]
    BY DEF WorkerTypeOK, ApiTypeOK, Command, Labels
  <1>8. Worker \in Threads /\ Apps \subseteq Threads /\ Controllers \subseteq Threads
    BY DEF Threads
  <1> QED BY <1>1, <1>2, <1>3, <1>4, <1>6, <1>7, <1>8

EnqueueKept == \A t \in Threads : pc'[t] = "enqueue" => pc[t] = "enqueue" /\ arg'[t] = arg[t]

(* A step that leaves the log, the buffer and the current command alone.   *)
LEMMA OrderFrame ==
  ASSUME TypeInv, Order, UNCHANGED <<kind, cmds, cmd_log, sync_cmd_log, cur>>,
         \A p \in DOMAIN cmd_log : state'[cmd_log[p]] = state[cmd_log[p]],
         Launching' => Launching, EnqueueKept
  PROVE  Order'
  <1>1. LogOrder'
    BY DEF Order, LogOrder, Increasing, HwIdx
  <1>2. CurOrder'
    BY DEF Order, CurOrder
  <1>3. BufOrder'
    BY DEF Order, BufOrder
  <1>4. SubmitOrder'
    BY DEF Order, SubmitOrder, EnqueueKept
  <1> QED BY <1>1, <1>2, <1>3, <1>4 DEF Order

LEMMA BoundFrame ==
  ASSUME Bound, UNCHANGED <<cmd_log, ret>>, pc'[Worker] = pc[Worker],
         arg'[Worker] = arg[Worker]
  PROVE  Bound'
  BY DEF Bound

LEMMA OrderSubmitDraw ==
  ASSUME TypeInv, Order, NEW t \in Submitters, t \in Apps, SubmitDraw(t)
  PROVE  Order'
  <1> DEFINE n == Len(kind) + 1
  <1>1. /\ UNCHANGED <<cmds, cmd_log, sync_cmd_log, cur>>
        /\ pc' = [pc EXCEPT ![t] = "enqueue"] /\ arg' = [arg EXCEPT ![t] = n]
    BY DEF SubmitDraw, DrawIdx, Goto, logVars
  <1>2. HwIdx' = 1 .. n /\ (\A i \in HwIdx : state'[i] = state[i])
    BY TypeFacts, AppendProperties DEF SubmitDraw, DrawIdx, BufTypeOK, HwIdx
  <1>3. LogOrder'
    BY <1>1, <1>2, TypeFacts DEF Order, LogOrder, Increasing
  <1>4. Launching' => Launching
    BY <1>1, TypeFacts DEF Launching, SyncCmdLabels, SubmitDraw
  <1>5. CurOrder' /\ BufOrder'
    BY <1>1, <1>4 DEF Order, CurOrder, BufOrder
  <1>6. SubmitOrder'
    <2>1. ASSUME NEW s \in Threads, pc'[s] = "enqueue"
          PROVE  \/ s = t /\ arg'[s] = n
                 \/ pc[s] = "enqueue" /\ arg'[s] = arg[s]
      BY <1>1, <2>1, TypeFacts DEF WorkerTypeOK
    <2>2. /\ cur.type = "Hardware" => cur.id < n
          /\ \A p \in DOMAIN cmd_log : cmd_log[p] < n
          /\ \A p \in DOMAIN cmds : cmds[p].type = "Hardware" => cmds[p].id < n
      BY TypeFacts DEF DrawnIds, Order, LogOrder
    <2> QED BY <1>1, <2>1, <2>2 DEF Order, SubmitOrder
  <1> QED BY <1>3, <1>5, <1>6 DEF Order

(* With one submitting thread, the command it enqueues is the last one     *)
(* that has drawn an index.                                                *)
LEMMA OrderSubmitEnqueue ==
  ASSUME TypeInv, Order, OneSubmitter, NEW t \in Apps, SubmitEnqueue(t)
  PROVE  Order'
  <1>1. /\ pc[t] = "enqueue" /\ t \in Threads /\ t # Worker
        /\ UNCHANGED <<kind, cmd_log, sync_cmd_log, cur, ret>>
        /\ cmds' = Append(cmds, Hardware(arg[t]))
        /\ SetStates({arg[t]}, Pending)
    BY ThreadsAssumption DEF SubmitEnqueue, EnqueueHardware, logVars, Threads
  <1>2. \A s \in Threads : pc'[s] # "enqueue"
    <2>1. \A s \in Threads : pc[s] = "enqueue" => s = t
      BY <1>1 DEF Order, SubmitOrder, OneSubmitter
    <2>2. \E l \in {"blocked", "idle"} : pc' = [pc EXCEPT ![t] = l]
      BY DEF SubmitEnqueue, Return, Goto
    <2> QED BY <2>1, <2>2, <1>1, TypeFacts
  <1>3. pc'[Worker] = pc[Worker]
    <2>1. \E l \in {"blocked", "idle"} : pc' = [pc EXCEPT ![t] = l]
      BY DEF SubmitEnqueue, Return, Goto
    <2> QED BY <2>1, <1>1, TypeFacts
  <1>4. /\ cur.type = "Hardware" => cur.id < arg[t]
        /\ \A p \in DOMAIN cmd_log : cmd_log[p] < arg[t]
        /\ \A p \in DOMAIN cmds : cmds[p].type = "Hardware" => cmds[p].id < arg[t]
    BY <1>1 DEF Order, SubmitOrder
  <1>5. LogOrder'
    <2>1. \A p \in DOMAIN cmd_log : cmd_log[p] \in HwIdx /\ cmd_log[p] # arg[t]
      BY <1>1, <1>4, TypeFacts DEF Order, LogOrder
    <2>2. \A p \in DOMAIN cmd_log : state'[cmd_log[p]] = state[cmd_log[p]]
      BY <1>1, <2>1, TypeFacts DEF SetStates
    <2> QED BY <1>1, <2>2 DEF Order, LogOrder, Increasing, HwIdx
  <1>6. CurOrder'
    BY <1>1, <1>3 DEF Order, CurOrder, Launching
  <1>7. BufOrder'
    <2>1. /\ DOMAIN cmds' = 1 .. Len(cmds) + 1
          /\ \A p \in DOMAIN cmds : cmds'[p] = cmds[p]
          /\ cmds'[Len(cmds) + 1].id = arg[t]
      BY <1>1, TypeFacts DEF Hardware
    <2> QED BY <2>1, <1>1, <1>4, TypeFacts DEF Order, BufOrder
  <1>8. SubmitOrder'
    BY <1>2 DEF SubmitOrder
  <1> QED BY <1>5, <1>6, <1>7, <1>8 DEF Order

(* A command that is not a hardware command enters the buffer.             *)
LEMMA OrderEnqueueOther ==
  ASSUME TypeInv, Order, UNCHANGED <<kind, state, cmd_log, sync_cmd_log, cur>>,
         NEW c, c.type # "Hardware", cmds' = cmds \/ cmds' = Append(cmds, c),
         Launching' => Launching, EnqueueKept
  PROVE  Order'
  <1>1. LogOrder' /\ CurOrder'
    BY DEF Order, LogOrder, CurOrder, Increasing, HwIdx
  <1>2. \A p \in DOMAIN cmds' : cmds'[p].type = "Hardware" =>
          p \in DOMAIN cmds /\ cmds'[p] = cmds[p]
    <2>1. CASE cmds' = Append(cmds, c)
      <3>1. /\ DOMAIN cmds' = 1 .. Len(cmds) + 1
            /\ \A p \in DOMAIN cmds : cmds'[p] = cmds[p]
            /\ cmds'[Len(cmds) + 1] = c
        BY <2>1, TypeFacts
      <3> QED BY <3>1, TypeFacts
    <2> QED BY <2>1
  <1>3. BufOrder' /\ SubmitOrder'
    BY <1>2 DEF Order, BufOrder, SubmitOrder, EnqueueKept
  <1> QED BY <1>1, <1>3 DEF Order

LEMMA OrderTake ==
  ASSUME TypeInv, Order, WorkerTake
  PROVE  Order'
  <1> DEFINE Generated(c) == c.type # "Hardware" /\ UNCHANGED <<cmds, kind, state>>
  <1>0. \E c : Dispatch(c) /\ (DequeueFront(c) \/ Generated(c))
    <2>1. CASE \E c \in ToSet(cmds) : DequeueFront(c) /\ Dispatch(c)
      BY <2>1
    <2>2. CASE \E c \in {BatchSync, WaitAll(Len(wait_all) + 1)} :
                 DequeueGenerate(c) /\ Dispatch(c)
      <3>1. PICK c \in {BatchSync, WaitAll(Len(wait_all) + 1)} :
              DequeueGenerate(c) /\ Dispatch(c)
        BY <2>2
      <3>2. c.type # "Hardware"
        BY DEF BatchSync, WaitAll
      <3>3. UNCHANGED <<cmds, kind, state>>
        BY <3>1 DEF DequeueGenerate
      <3> QED BY <3>1, <3>2, <3>3
    <2> QED BY <2>1, <2>2 DEF WorkerTake
  <1>1. PICK c : Dispatch(c) /\ (DequeueFront(c) \/ Generated(c))
    BY <1>0
  <1>2. /\ UNCHANGED <<kind, state, cmd_log, sync_cmd_log>> /\ cur' = c
        /\ pc'[Worker] \in {"launch", "batch", "allCheck"} /\ ret' = "done"
        /\ pc'[Worker] = "launch" => c.type = "Hardware"
    BY <1>1, TypeFacts DEF Dispatch, DequeueFront, Goto, logVars
  <1>3. EnqueueKept
    BY <1>1, TypeFacts DEF Dispatch, Goto, EnqueueKept
  <1>4. LogOrder'
    BY <1>2 DEF Order, LogOrder, Increasing, HwIdx
  <1>5. Launching' => c.type = "Hardware"
    BY <1>2 DEF Launching, SyncCmdLabels
  <1>6. CASE c.type # "Hardware" /\ UNCHANGED cmds
    <2>1. CurOrder'
      BY <1>5, <1>6 DEF CurOrder
    <2>2. BufOrder' /\ SubmitOrder'
      BY <1>2, <1>3, <1>6 DEF Order, BufOrder, SubmitOrder, EnqueueKept
    <2> QED BY <1>4, <2>1, <2>2 DEF Order
  <1>7. CASE DequeueFront(c)
    <2>1. /\ c = cmds[1] /\ 1 \in DOMAIN cmds
          /\ \A p \in DOMAIN cmds' : p + 1 \in DOMAIN cmds /\ cmds'[p] = cmds[p + 1]
          /\ DOMAIN cmds' \subseteq Nat \ {0}
      BY <1>7 DEF DequeueFront, BufTypeOK
    <2>2. CurOrder'
      BY <1>2, <1>5, <2>1 DEF Order, BufOrder, CurOrder
    <2>3. BufOrder'
      <3> SUFFICES ASSUME NEW q \in DOMAIN cmds', cmds'[q].type = "Hardware"
                   PROVE  /\ c.type = "Hardware" => c.id < cmds'[q].id
                          /\ \A p \in DOMAIN cmd_log : cmd_log[p] < cmds'[q].id
                          /\ \A p \in DOMAIN cmds' : p < q /\ cmds'[p].type = "Hardware" =>
                               cmds'[p].id < cmds'[q].id
        BY <1>2 DEF BufOrder
      <3>1. q + 1 \in DOMAIN cmds /\ cmds'[q] = cmds[q + 1] /\ 1 < q + 1
        BY <2>1
      <3>2. BufOrder
        BY DEF Order
      <3>3. \A p \in DOMAIN cmds' : p < q => p + 1 < q + 1
        BY <2>1
      <3> QED BY <2>1, <3>1, <3>2, <3>3 DEF BufOrder
    <2>4. SubmitOrder'
      BY <1>2, <1>3, <2>1 DEF Order, SubmitOrder, EnqueueKept
    <2> QED BY <1>4, <2>2, <2>3, <2>4 DEF Order
  <1> QED BY <1>1, <1>6, <1>7

LEMMA OrderLaunchDropped ==
  ASSUME TypeInv, LaunchesHardware, Order, LaunchDropped
  PROVE  Order'
  <1>1. \A p \in DOMAIN cmd_log : cmd_log[p] # cur.id /\ cmd_log[p] \in DOMAIN state
    BY TypeFacts DEF LaunchDropped, Launching, Order, CurOrder, LogOrder
  <1>2. \A p \in DOMAIN cmd_log : state'[cmd_log[p]] = state[cmd_log[p]]
    BY <1>1 DEF LaunchDropped, SetStates
  <1>3. EnqueueKept /\ ~Launching'
    BY TypeFacts DEF LaunchDropped, Goto, EnqueueKept, Launching, SyncCmdLabels
  <1> QED BY <1>2, <1>3, OrderFrame DEF LaunchDropped, logVars

LEMMA OrderLaunch ==
  ASSUME TypeInv, LaunchesHardware, Order, Launch
  PROVE  Order'
  <1>1. /\ cur.type = "Hardware" /\ cur.id \in HwIdx /\ pc[Worker] = "tail"
        /\ \A p \in DOMAIN cmd_log : cmd_log[p] < cur.id
    BY DEF Launch, Launching, LaunchesHardware, DrawnIds, Order, CurOrder
  <1>2. /\ UNCHANGED <<kind, cmds, cur>> /\ SetStates({cur.id}, InFlight)
        /\ cmd_log' = Append(cmd_log, cur.id)
        /\ sync_cmd_log' = sync_cmd_log \/ sync_cmd_log' = Append(sync_cmd_log, cur.id)
    BY DEF Launch
  <1>3. EnqueueKept /\ ~Launching'
    BY TypeFacts DEF Launch, Goto, EnqueueKept, Launching, SyncCmdLabels
  <1>4. /\ DOMAIN cmd_log' = 1 .. Len(cmd_log) + 1
        /\ \A p \in DOMAIN cmd_log : cmd_log'[p] = cmd_log[p]
        /\ cmd_log'[Len(cmd_log) + 1] = cur.id
    BY <1>2, TypeFacts
  <1>5. Increasing(cmd_log)'
    BY <1>1, <1>4, TypeFacts DEF Order, LogOrder, Increasing
  <1>6. \A p \in DOMAIN cmd_log' : cmd_log'[p] \in HwIdx' /\ state'[cmd_log'[p]] = InFlight
    BY <1>1, <1>2, <1>4, TypeFacts DEF Order, LogOrder, SetStates, HwIdx
  <1>7. \A p \in DOMAIN sync_cmd_log : sync_cmd_log[p] < cur.id
        /\ \E q \in DOMAIN cmd_log' : sync_cmd_log[p] = cmd_log'[q]
    BY <1>1, <1>4, TypeFacts DEF Order, LogOrder
  <1>8. Increasing(sync_cmd_log)'
        /\ \A p \in DOMAIN sync_cmd_log' : \E q \in DOMAIN cmd_log' : sync_cmd_log'[p] = cmd_log'[q]
    <2>1. CASE sync_cmd_log' = sync_cmd_log
      BY <2>1, <1>7 DEF Order, LogOrder, Increasing
    <2>2. CASE sync_cmd_log' = Append(sync_cmd_log, cur.id)
      <3>1. /\ DOMAIN sync_cmd_log' = 1 .. Len(sync_cmd_log) + 1
            /\ \A p \in DOMAIN sync_cmd_log : sync_cmd_log'[p] = sync_cmd_log[p]
            /\ sync_cmd_log'[Len(sync_cmd_log) + 1] = cur.id
        BY <2>2, TypeFacts
      <3>2. Increasing(sync_cmd_log)'
        BY <3>1, <1>7, TypeFacts DEF Order, LogOrder, Increasing
      <3>3. ASSUME NEW p \in DOMAIN sync_cmd_log'
            PROVE  \E q \in DOMAIN cmd_log' : sync_cmd_log'[p] = cmd_log'[q]
        <4>1. CASE p \in DOMAIN sync_cmd_log
          BY <4>1, <3>1, <1>7
        <4>2. CASE p = Len(sync_cmd_log) + 1
          BY <4>2, <3>1, <1>4, TypeFacts
        <4> QED BY <4>1, <4>2, <3>1, TypeFacts
      <3> QED BY <3>2, <3>3
    <2> QED BY <1>2, <2>1, <2>2
  <1>9. LogOrder' /\ CurOrder'
    BY <1>3, <1>5, <1>6, <1>8 DEF LogOrder, CurOrder
  <1>10. BufOrder'
    BY <1>1, <1>2, <1>4, TypeFacts DEF Order, BufOrder
  <1>11. SubmitOrder'
    BY <1>1, <1>2, <1>3, <1>4, TypeFacts DEF Order, SubmitOrder, EnqueueKept
  <1> QED BY <1>9, <1>10, <1>11 DEF Order

(* r is what is left of the sequence s without its first n elements.       *)
Rest(s, n, r) ==
  /\ n \in 0 .. Len(s) /\ DOMAIN r = 1 .. (Len(s) - n)
  /\ \A p \in DOMAIN r : r[p] = s[p + n]

LEMMA Suffix ==
  ASSUME NEW s \in Seq(Nat), NEW n \in 0 .. Len(s)
  PROVE  /\ Rest(s, n, SubSeq(s, n + 1, Len(s)))
         /\ Len(SubSeq(s, n + 1, Len(s))) = Len(s) - n
  <1>1. n \in Nat /\ Len(s) \in Nat /\ n <= Len(s) /\ DOMAIN s = 1 .. Len(s)
    BY LenProperties
  <1>2. SubSeq(s, n + 1, Len(s)) = [p \in 1 .. (Len(s) - n) |-> s[p + n]]
    <2>1. SubSeq(s, n + 1, Len(s)) = [p \in 1 .. (1 + Len(s) - (n + 1)) |-> s[p + (n + 1) - 1]]
      BY <1>1
    <2>2. 1 + Len(s) - (n + 1) = Len(s) - n /\ \A p \in Int : p + (n + 1) - 1 = p + n
      BY <1>1
    <2> QED BY <2>1, <2>2
  <1>3. Len([p \in 1 .. (Len(s) - n) |-> s[p + n]]) = Len(s) - n
    BY <1>1
  <1> QED BY <1>1, <1>2, <1>3 DEF Rest

LEMMA RestFacts ==
  ASSUME NEW s \in Seq(Nat), NEW n, NEW r, Rest(s, n, r)
  PROVE  /\ n \in Nat
         /\ \A p \in DOMAIN r :
              p \in Nat /\ p >= 1 /\ p + n \in DOMAIN s /\ r[p] = s[p + n] /\ r[p] \in Nat
         /\ \A q \in DOMAIN s : q > n => \E p \in DOMAIN r : r[p] = s[q]
  <1>1. Len(s) \in Nat /\ DOMAIN s = 1 .. Len(s) /\ \A q \in DOMAIN s : s[q] \in Nat
    BY LenProperties, ElementOfSeq
  <1>2. n \in Nat /\ n <= Len(s)
    BY <1>1 DEF Rest
  <1>3. ASSUME NEW p \in DOMAIN r
        PROVE  p \in Nat /\ p >= 1 /\ p + n \in DOMAIN s /\ r[p] = s[p + n]
    <2>1. p \in 1 .. (Len(s) - n) /\ r[p] = s[p + n]
      BY DEF Rest
    <2> QED BY <2>1, <1>1, <1>2
  <1>4. ASSUME NEW q \in DOMAIN s, q > n
        PROVE  q - n \in DOMAIN r /\ r[q - n] = s[q]
    <2>1. q \in 1 .. Len(s)
      BY <1>1
    <2>2. q - n \in 1 .. (Len(s) - n) /\ (q - n) + n = q
      BY <1>1, <1>2, <1>4, <2>1
    <2> QED BY <2>2 DEF Rest
  <1> QED BY <1>1, <1>2, <1>3, <1>4

LEMMA IncreasingRest ==
  ASSUME NEW s \in Seq(Nat), NEW n, NEW r, Rest(s, n, r), Increasing(s)
  PROVE  /\ Increasing(r)
         /\ \A p \in DOMAIN r : \A q \in 1 .. n : s[q] # r[p]
  <1>1. Increasing(r)
    <2> SUFFICES ASSUME NEW p \in DOMAIN r, NEW q \in DOMAIN r, p < q PROVE r[p] < r[q]
      BY DEF Increasing
    <2>1. p + n < q + n
      BY RestFacts
    <2> QED BY <2>1, RestFacts DEF Increasing
  <1>2. ASSUME NEW p \in DOMAIN r, NEW q \in 1 .. n
        PROVE  s[q] # r[p]
    <2>1. p + n \in DOMAIN s /\ r[p] = s[p + n] /\ r[p] \in Nat /\ q < p + n
      <3>1. p + n \in DOMAIN s /\ r[p] = s[p + n] /\ r[p] \in Nat
        BY RestFacts
      <3>2. p \in 1 .. Len(r) /\ n \in Nat /\ Len(r) \in Nat
        BY LenProperties DEF Rest
      <3> QED BY <3>1, <3>2
    <2>2. q \in DOMAIN s /\ s[q] \in Nat
      BY <2>1, LenProperties, ElementOfSeq DEF Rest
    <2>3. s[q] < s[p + n]
      BY <2>1, <2>2 DEF Increasing
    <2> QED BY <2>1, <2>2, <2>3
  <1> QED BY <1>1, <1>2

(* Popped up to the same index, a log still covers what it covered.        *)
LEMMA RestCovers ==
  ASSUME NEW s \in Seq(Nat), NEW n, NEW r, Rest(s, n, r),
         NEW y \in Seq(Nat), NEW m, NEW z, Rest(y, m, z), Increasing(y),
         NEW i \in Nat, PopsThrough(s, i, n), PopsThrough(y, i, m),
         \A p \in DOMAIN y : \E q \in DOMAIN s : y[p] = s[q],
         NEW p \in DOMAIN z
  PROVE  \E q \in DOMAIN r : z[p] = r[q]
  <1>1. /\ m \in Nat /\ p \in Nat /\ p >= 1 /\ z[p] \in Nat
        /\ p + m \in DOMAIN y /\ z[p] = y[p + m]
    BY RestFacts
  <1>2. DOMAIN y = 1 .. Len(y) /\ Len(y) \in Nat
    BY LenProperties
  <1>3. m < Len(y) /\ m + 1 \in DOMAIN y
    BY <1>1, <1>2
  <1>4. y[m + 1] > i /\ y[m + 1] \in Nat
    <2>1. y[m + 1] > i
      BY <1>3 DEF PopsThrough
    <2>2. y[m + 1] \in Nat
      BY <1>2, <1>3, ElementOfSeq
    <2> QED BY <2>1, <2>2
  <1>5. m + 1 = p + m \/ y[m + 1] < y[p + m]
    <2>1. m + 1 = p + m \/ m + 1 < p + m
      BY <1>1
    <2>2. m + 1 < p + m => y[m + 1] < y[p + m]
      BY <1>1, <1>3 DEF Increasing
    <2> QED BY <2>1, <2>2
  <1>6. z[p] > i
    <2>1. CASE m + 1 = p + m
      BY <2>1, <1>1, <1>4
    <2>2. CASE y[m + 1] < y[p + m]
      <3>1. y[p + m] \in Nat /\ z[p] = y[p + m]
        BY <1>1
      <3> QED BY <2>2, <3>1, <1>4
    <2> QED BY <2>1, <2>2, <1>5
  <1>7. PICK q \in DOMAIN s : z[p] = s[q]
    BY <1>1
  <1>8. q > n
    <2>1. q \in Nat /\ q >= 1 /\ n \in Nat
      <3>1. q \in 1 .. Len(s) /\ Len(s) \in Nat
        BY LenProperties
      <3>2. n \in Nat
        BY RestFacts
      <3> QED BY <3>1, <3>2
    <2>2. q \in 1 .. n => s[q] <= i
      BY DEF PopsThrough
    <2>3. q \notin 1 .. n
      BY <2>2, <1>1, <1>6, <1>7
    <2> QED BY <2>1, <2>3
  <1> QED BY <1>7, <1>8, RestFacts

(* The log loses its leading commands up to an index.                      *)
LEMMA PopOrder ==
  ASSUME TypeInv, Order, NEW i \in Nat, NEW n, NEW m, PopsThrough(cmd_log, i, n),
         PopsThrough(sync_cmd_log, i, m), Rest(cmd_log, n, cmd_log'),
         Rest(sync_cmd_log, m, sync_cmd_log'),
         SetStates({cmd_log[p] : p \in 1 .. n}, Completed), kind' = kind
  PROVE  /\ LogOrder'
         /\ \A p \in DOMAIN cmd_log' : \E q \in DOMAIN cmd_log : cmd_log'[p] = cmd_log[q]
  <1>1. /\ cmd_log \in Seq(Nat) /\ sync_cmd_log \in Seq(Nat)
        /\ \A p \in DOMAIN cmd_log : cmd_log[p] \in DOMAIN state /\ cmd_log[p] \in HwIdx
    BY TypeFacts DEF WorkerTypeOK, Order, LogOrder
  <1>2. LogOrder
    BY DEF Order
  <1> HIDE DEF TypeInv, TypeOK
  <1>3. Increasing(cmd_log)' /\ Increasing(sync_cmd_log)'
    BY <1>1, <1>2, IncreasingRest DEF LogOrder, Increasing
  <1>4. \A p \in DOMAIN cmd_log' : \E q \in DOMAIN cmd_log : cmd_log'[p] = cmd_log[q]
    BY <1>1, RestFacts
  <1>5. ASSUME NEW p \in DOMAIN cmd_log'
        PROVE  cmd_log'[p] \in HwIdx' /\ state'[cmd_log'[p]] = InFlight
    <2>1. cmd_log'[p] \in HwIdx /\ cmd_log'[p] \in DOMAIN state /\ state[cmd_log'[p]] = InFlight
      BY <1>1, <1>2, <1>4 DEF LogOrder
    <2>2. cmd_log'[p] \notin {cmd_log[q] : q \in 1 .. n}
      BY <1>1, <1>2, IncreasingRest DEF LogOrder
    <2> QED BY <2>1, <2>2 DEF SetStates, HwIdx
  <1>6. \A p \in DOMAIN sync_cmd_log' : \E q \in DOMAIN cmd_log' :
          sync_cmd_log'[p] = cmd_log'[q]
    BY <1>1, <1>2, RestCovers DEF LogOrder
  <1> QED BY <1>3, <1>4, <1>5, <1>6 DEF LogOrder

(* A shorter log keeps the order.                                          *)
LEMMA OrderShorterLog ==
  ASSUME Order, LogOrder', UNCHANGED <<cmds, cur>>, Launching' => Launching, EnqueueKept,
         \A p \in DOMAIN cmd_log' : \E q \in DOMAIN cmd_log : cmd_log'[p] = cmd_log[q]
  PROVE  Order'
  BY DEF Order, CurOrder, BufOrder, SubmitOrder, EnqueueKept

LEMMA EmptyLogOrder ==
  ASSUME cmd_log = <<>>, sync_cmd_log = <<>>
  PROVE  LogOrder
  BY DEF LogOrder, Increasing

(* The commands a synchronization completes leave the log.                 *)
LEMMA PostOrder ==
  ASSUME TypeInv, Order, NEW t \in Threads, SyncCmdPost(t) \/ (t = Worker /\ SyncAllPost),
         Launching' => Launching, EnqueueKept
  PROVE  Order' /\ (cmd_log' = cmd_log \/ Len(cmd_log') < Len(cmd_log))
  <1>1. kind' = kind /\ cmds' = cmds /\ cur' = cur
    BY DEF SyncCmdPost, SyncAllPost
  <1>2. CASE UNCHANGED <<state, logVars>>
    BY <1>1, <1>2, OrderFrame, TypeFacts DEF logVars
  <1>3. CASE cmd_log' = <<>> /\ sync_cmd_log' = <<>>
    BY <1>1, <1>3, OrderShorterLog, TypeFacts, EmptyLogOrder DEF LogOrder, Increasing
  <1>4. CASE SyncCmdPost(t) /\ Unpreempted(t)
    <2>1. PICK n \in 0 .. Len(cmd_log), m \in 0 .. Len(sync_cmd_log) :
            /\ PopsThrough(cmd_log, arg[t], n) /\ PopsThrough(sync_cmd_log, arg[t], m)
            /\ SetStates({cmd_log[p] : p \in 1 .. n}, Completed)
            /\ cmd_log' = SubSeq(cmd_log, n + 1, Len(cmd_log))
            /\ sync_cmd_log' = SubSeq(sync_cmd_log, m + 1, Len(sync_cmd_log))
      BY <1>4 DEF SyncCmdPost
    <2>2. /\ Rest(cmd_log, n, cmd_log') /\ Rest(sync_cmd_log, m, sync_cmd_log')
          /\ Len(cmd_log') = Len(cmd_log) - n
      BY <2>1, Suffix DEF WorkerTypeOK
    <2>3. n \in Nat /\ Len(cmd_log) \in Nat /\ arg[t] \in Nat
      BY TypeFacts
    <2>4. /\ LogOrder'
          /\ \A p \in DOMAIN cmd_log' : \E q \in DOMAIN cmd_log : cmd_log'[p] = cmd_log[q]
      <3> HIDE DEF TypeInv
      <3> QED BY <1>1, <2>1, <2>2, <2>3, PopOrder
    <2>5. n = 0 => cmd_log' = cmd_log
      <3>1. cmd_log \in Seq(Nat)
        BY DEF WorkerTypeOK
      <3>2. SubSeq(cmd_log, 1, Len(cmd_log)) = cmd_log
        BY <3>1
      <3> QED BY <2>1, <3>2
    <2> QED BY <1>1, <2>2, <2>3, <2>4, <2>5, OrderShorterLog
  <1> QED BY <1>2, <1>3, <1>4 DEF SyncCmdPost, SyncAllPost

LEMMA OrderDropAll ==
  ASSUME TypeInv, Order, NEW k \in Controllers, ResumeDropAll(k), Launching' => Launching,
         EnqueueKept
  PROVE  Order'
  <1>1. UNCHANGED <<kind, cmd_log, sync_cmd_log, cur>> /\ cmds' = <<>>
        /\ SetStates(HwIn(cmds), Completed)
    BY DEF ResumeDropAll, DropAll, logVars
  <1>2. \A p \in DOMAIN cmd_log : cmd_log[p] \notin HwIn(cmds)
    BY TypeFacts DEF Order, BufOrder, HwIn
  <1>3. LogOrder'
    <2>1. \A p \in DOMAIN cmd_log : state'[cmd_log[p]] = state[cmd_log[p]]
      BY <1>1, <1>2, TypeFacts DEF Order, LogOrder, SetStates
    <2> QED BY <1>1, <2>1 DEF Order, LogOrder, Increasing, HwIdx
  <1>4. CurOrder' /\ BufOrder' /\ SubmitOrder'
    BY <1>1 DEF Order, CurOrder, BufOrder, SubmitOrder, EnqueueKept
  <1> QED BY <1>3, <1>4 DEF Order

LEMMA OrderResumeDrop ==
  ASSUME TypeInv, Order, NEW k \in Controllers, ResumeDrop(k), Launching' => Launching,
         EnqueueKept
  PROVE  Order'
  <1>1. cmd_log' = <<>> /\ sync_cmd_log' = <<>> /\ cmds' = cmds /\ cur' = cur
    BY DEF ResumeDrop, ResumeAndDrop
  <1>2. LogOrder' /\ DOMAIN cmd_log' = {}
    BY <1>1 DEF LogOrder, Increasing
  <1> QED BY <1>1, <1>2, OrderShorterLog

(* Only a submission gets a thread to the point of enqueueing a command.   *)
LEMMA OthersKeepEnqueue ==
  ASSUME TypeInv, [Next]_vars, \A t \in Apps \cap Submitters : ~SubmitDraw(t)
  PROVE  EnqueueKept
  <1>0. pc \in [Threads -> Labels] /\ arg \in [Threads -> Nat]
    BY DEF ApiTypeOK, WorkerTypeOK, Labels
  <1>1. ASSUME NEW t \in Threads,
               \E l : l # "enqueue" /\ pc' = [pc EXCEPT ![t] = l],
               arg' = arg \/ \E i : arg' = [arg EXCEPT ![t] = i]
        PROVE  EnqueueKept
    BY <1>0, <1>1 DEF EnqueueKept
  <1>2. UNCHANGED <<pc, arg>> => EnqueueKept
    BY DEF EnqueueKept
  <1>3. CASE WorkerStep
    <2>1. Worker \in Threads /\ ret # "enqueue"
      BY TypeFacts DEF WorkerTypeOK
    <2>2. \/ UNCHANGED <<pc, arg>>
          \/ /\ \E l : l # "enqueue" /\ pc' = [pc EXCEPT ![Worker] = l]
             /\ arg' = arg \/ \E i : arg' = [arg EXCEPT ![Worker] = i]
      <3>1. CASE WorkerTake
        BY <3>1 DEF WorkerTake, Dispatch, Goto
      <3>2. CASE WorkerIdle \/ LaunchBegin \/ LaunchFull \/ AwaitRunning \/ LaunchDropped
                 \/ Launch \/ WorkerBatch \/ WorkerDone
        BY <3>2 DEF WorkerIdle, LaunchBegin, LaunchFull, AwaitRunning, LaunchDropped, Launch,
           WorkerBatch, WorkerDone, Goto, BeginSyncCmd, BeginSyncAll
      <3>3. CASE SyncAllCheck \/ SyncAllHw \/ SyncAllPost
        BY <2>1, <3>3 DEF SyncAllCheck, SyncAllHw, SyncAllPost, ReturnFromSync, Goto
      <3>4. CASE SyncCmdCheck(Worker) \/ SyncCmdHw(Worker) \/ SyncCmdPost(Worker)
                 \/ CvWait(Worker)
        BY <2>1, <3>4 DEF SyncCmdCheck, SyncCmdHw, SyncCmdPost, CvWait, ReturnFromSync, Goto,
           threadVars
      <3> QED BY <1>3, <3>1, <3>2, <3>3, <3>4 DEF WorkerStep
    <2> QED BY <1>1, <1>2, <2>1, <2>2
  <1>4. CASE HwStep \/ UNCHANGED vars
    BY <1>2, <1>4 DEF HwStep, vars, workerVars
  <1>5. ASSUME NEW t \in Apps, AppCall(t) \/ AppProgress(t)
        PROVE  EnqueueKept
    <2>1. t \in Threads /\ t # Worker
      BY ThreadsAssumption, TypeFacts
    <2>2. \/ UNCHANGED <<pc, arg>>
          \/ /\ \E l : l # "enqueue" /\ pc' = [pc EXCEPT ![t] = l]
             /\ arg' = arg \/ \E i : arg' = [arg EXCEPT ![t] = i]
      <3>1. CASE WaitCmd(t) \/ CallWaitAll(t) \/ SubmitWaitAll(t)
        BY <3>1 DEF WaitCmd, CallWaitAll, SubmitWaitAll, Goto, workerVars
      <3>2. CASE SubmitEnqueue(t) \/ CmdReached(t)
        BY <3>2 DEF SubmitEnqueue, CmdReached, Return, Goto
      <3>3. CASE SyncCmdCheck(t) \/ SyncCmdHw(t) \/ SyncCmdPost(t) \/ CvWait(t)
        BY <2>1, <3>3 DEF SyncCmdCheck, SyncCmdHw, SyncCmdPost, CvWait, ReturnFromSync, Goto,
           threadVars
      <3> QED BY <1>5, <3>1, <3>2, <3>3 DEF AppCall, AppProgress
    <2> QED BY <1>1, <1>2, <2>1, <2>2
  <1>6. ASSUME NEW k \in Controllers, ControlCall(k) \/ ControlProgress(k)
        PROVE  EnqueueKept
    <2>1. k \in Threads
      BY TypeFacts
    <2>2. /\ \E l : l # "enqueue" /\ pc' = [pc EXCEPT ![k] = l]
          /\ arg' = arg \/ \E i : arg' = [arg EXCEPT ![k] = i]
      BY <1>6 DEF ControlCall, ControlProgress, Suspend, ResumeBegin, DestructBegin,
         SuspendPause, SuspendDeactivate, SuspendSyncHw, ReactivateSync, ReactivateRead,
         ReactivateClear, ReactivateRelaunch, ResumeWorker, ResumeDropAll, ResumeDropIdx,
         ResumeDrop, DestructEnqueue, DestructWait, BeginResume, EndResume, DestructResume, Goto
    <2> QED BY <1>1, <1>2, <2>1, <2>2
  <1> QED BY <1>3, <1>4, <1>5, <1>6 DEF Next, Terminating

(* Steps of the worker that leave the log, the buffer and the states of    *)
(* the hardware commands alone.                                            *)
WorkerMoves ==
  \/ WorkerIdle \/ LaunchBegin \/ LaunchFull \/ AwaitRunning \/ WorkerBatch \/ WorkerDone
  \/ SyncAllCheck \/ SyncAllHw
  \/ SyncCmdCheck(Worker) \/ SyncCmdHw(Worker) \/ CvWait(Worker)

LEMMA WorkerMovesFrame ==
  WorkerMoves => UNCHANGED <<kind, state, cmds, cmd_log, sync_cmd_log, cur>>
  BY DEF WorkerMoves, WorkerIdle, DequeueIdle, LaunchBegin, LaunchFull, AwaitRunning,
     WorkerBatch, WorkerDone, SyncAllCheck, SyncAllHw, SyncCmdCheck, SyncCmdHw, CvWait,
     bufVars, logVars

LEMMA OrderWorker ==
  ASSUME TypeInv, LaunchesHardware, Order, WorkerStep, EnqueueKept
  PROVE  Order'
  <1>1. CASE WorkerTake
    BY <1>1, OrderTake
  <1>2. ~WorkerTake => (Launching' => Launching)
    BY WorkerKeepsLaunching
  <1>3. CASE LaunchDropped
    BY <1>3, OrderLaunchDropped
  <1>4. CASE Launch
    BY <1>4, OrderLaunch
  <1>5. CASE ~WorkerTake /\ (SyncAllPost \/ SyncCmdPost(Worker))
    <2>1. Worker \in Threads
      BY TypeFacts
    <2> HIDE DEF TypeInv
    <2> QED BY <1>2, <1>5, <2>1, PostOrder
  <1>6. CASE ~WorkerTake /\ WorkerMoves
    <2> HIDE DEF TypeInv
    <2> QED BY <1>2, <1>6, WorkerMovesFrame, OrderFrame
  <1> QED BY <1>1, <1>3, <1>4, <1>5, <1>6 DEF WorkerStep, WorkerMoves

LEMMA OrderOthers ==
  ASSUME TypeInv, Order, OneSubmitter,
         \/ HwStep
         \/ \E t \in Apps : AppCall(t) \/ AppProgress(t)
         \/ \E k \in Controllers : ControlCall(k) \/ ControlProgress(k),
         EnqueueKept \/ \E t \in Apps \cap Submitters : SubmitDraw(t)
  PROVE  Order' /\ (cmd_log' = cmd_log \/ Len(cmd_log') < Len(cmd_log))
  <1>1. Launching' => Launching
    BY OthersKeepWorker DEF Launching
  <1>2. ASSUME NEW t \in Apps \cap Submitters, SubmitDraw(t)
        PROVE  Order' /\ cmd_log' = cmd_log
    BY <1>2, OrderSubmitDraw DEF SubmitDraw, logVars
  <1>3. ASSUME EnqueueKept, HwStep
        PROVE  Order' /\ cmd_log' = cmd_log
    <2>1. UNCHANGED <<kind, state, cmds, cmd_log, sync_cmd_log, cur>>
      BY <1>3 DEF HwStep, HwExecute, HwFlush, bufVars, workerVars
    <2> QED BY <1>1, <1>3, <2>1, OrderFrame
  <1>4. ASSUME EnqueueKept, NEW t \in Apps, AppCall(t) \/ AppProgress(t)
        PROVE  Order' /\ (cmd_log' = cmd_log \/ Len(cmd_log') < Len(cmd_log))
    <2>0. t \in Threads
      BY TypeFacts
    <2>1. CASE WaitCmd(t) \/ CmdReached(t) \/ SyncCmdCheck(t) \/ SyncCmdHw(t) \/ CvWait(t)
      <3>1. UNCHANGED <<kind, state, cmds, cmd_log, sync_cmd_log, cur>>
        BY <2>1 DEF WaitCmd, CmdReached, SyncCmdCheck, SyncCmdHw, CvWait, bufVars, logVars
      <3> QED BY <1>1, <1>4, <3>1, OrderFrame
    <2>2. CASE SubmitEnqueue(t)
      BY <2>2, OrderSubmitEnqueue DEF SubmitEnqueue, logVars
    <2>3. CASE SyncCmdPost(t)
      <3> HIDE DEF TypeInv
      <3> QED BY <1>1, <1>4, <2>0, <2>3, PostOrder
    <2>4. CASE CallWaitAll(t) \/ SubmitWaitAll(t)
      <3>1. PICK w \in 1 .. Len(wait_all) + 1 : EnqueueXQueueWaitAllCommand(w)
        BY <2>4 DEF CallWaitAll, SubmitWaitAll
      <3>2. /\ UNCHANGED <<kind, state, cmd_log, sync_cmd_log, cur>>
            /\ cmds' = cmds \/ cmds' = Append(cmds, WaitAll(w))
        BY <2>4, <3>1 DEF CallWaitAll, SubmitWaitAll, EnqueueXQueueWaitAllCommand, bufVars,
           workerVars, logVars
      <3>3. WaitAll(w).type # "Hardware"
        BY DEF WaitAll
      <3> QED BY <1>1, <1>4, <3>2, <3>3, OrderEnqueueOther
    <2>5. CASE t \in Submitters /\ SubmitDraw(t)
      BY <1>2, <2>5
    <2> QED BY <1>4, <2>1, <2>2, <2>3, <2>4, <2>5 DEF AppCall, AppProgress
  <1>5. ASSUME EnqueueKept, NEW k \in Controllers, ControlCall(k) \/ ControlProgress(k)
        PROVE  Order' /\ (cmd_log' = cmd_log \/ Len(cmd_log') < Len(cmd_log))
    <2>1. CASE ResumeDropAll(k)
      BY <1>1, <1>5, <2>1, OrderDropAll DEF ResumeDropAll, logVars
    <2>2. CASE ResumeDrop(k)
      <3>1. cmd_log' = <<>>
        BY <2>2 DEF ResumeDrop, ResumeAndDrop
      <3>2. cmd_log' = cmd_log \/ Len(cmd_log') < Len(cmd_log)
        BY <3>1 DEF WorkerTypeOK
      <3> QED BY <1>1, <1>5, <2>2, <3>2, OrderResumeDrop
    <2>3. CASE DestructEnqueue(k)
      <3>1. /\ UNCHANGED <<kind, state, cmd_log, sync_cmd_log, cur>>
            /\ cmds' = Append(cmds, Destroy) /\ Destroy.type # "Hardware"
        BY <2>3 DEF DestructEnqueue, EnqueueDestroy, Destroy, logVars
      <3> HIDE DEF TypeInv
      <3> QED BY <1>1, <1>5, <3>1, OrderEnqueueOther
    <2>4. CASE ~ResumeDropAll(k) /\ ~ResumeDrop(k) /\ ~DestructEnqueue(k)
      <3>1. UNCHANGED <<kind, state, cmds, cmd_log, sync_cmd_log, cur>>
        BY <1>5, <2>4 DEF ControlCall, ControlProgress, Suspend, ResumeBegin, DestructBegin,
           SuspendPause, SuspendDeactivate, SuspendSyncHw, ReactivateSync, ReactivateRead,
           ReactivateClear, ReactivateRelaunch, ResumeWorker, ResumeDropIdx, DestructWait,
           Pause, Resume, bufVars, logVars
      <3> QED BY <1>1, <1>5, <3>1, OrderFrame
    <2> QED BY <2>1, <2>2, <2>3, <2>4
  <1> QED BY <1>2, <1>3, <1>4, <1>5

(* A step that leaves the worker where it is, and the log no longer.       *)
LEMMA BoundOthers ==
  ASSUME TypeInv, TypeInv', Bound, cmd_log' = cmd_log \/ Len(cmd_log') < Len(cmd_log),
         ret' = ret, pc'[Worker] = pc[Worker], arg'[Worker] = arg[Worker]
  PROVE  Bound'
  <1>1. Len(cmd_log) \in Nat /\ Len(cmd_log') \in Nat /\ Threshold \in Nat
    BY LenProperties, ConfigAssumption DEF WorkerTypeOK
  <1>2. CASE cmd_log' = cmd_log
    BY <1>2, BoundFrame
  <1>3. CASE Len(cmd_log') < Len(cmd_log)
    <2>1. Len(cmd_log) <= Threshold
      BY DEF Bound
    <2>2. Len(cmd_log') < Threshold
      BY <1>1, <1>3, <2>1
    <2> QED BY <1>1, <2>2 DEF Bound
  <1> QED BY <1>2, <1>3

LEMMA BoundWorker ==
  ASSUME TypeInv, TypeInv', LaunchesHardware, Order, Bound, WorkerStep
  PROVE  Bound'
  <1>0. /\ Len(cmd_log) \in Nat /\ Len(cmd_log') \in Nat /\ Threshold \in Nat /\ Threshold > 0
        /\ Worker \in Threads /\ pc \in [Threads -> Labels] /\ arg \in [Threads -> Nat]
        /\ ret \in {"full", "tail", "done"} /\ Len(cmd_log) <= Threshold
    <2>1. Len(cmd_log) \in Nat /\ Len(cmd_log') \in Nat
      BY LenProperties DEF WorkerTypeOK
    <2>2. Threshold \in Nat /\ Threshold > 0
      BY ConfigAssumption
    <2>3. ret \in {"full", "tail", "done"} /\ arg \in [Threads -> Nat] /\ Len(cmd_log) <= Threshold
      BY DEF WorkerTypeOK, Bound
    <2>4. Worker \in Threads /\ pc \in [Threads -> Labels]
      BY TypeFacts
    <2> QED BY <2>1, <2>2, <2>3, <2>4
  <1>1. ASSUME cmd_log' = cmd_log, pc'[Worker] \notin SyncCmdLabels \/ ret' # "tail",
               pc'[Worker] \in {"await", "tail"} => Len(cmd_log) < Threshold
        PROVE  Bound'
    BY <1>0, <1>1 DEF Bound
  <1>2. CASE WorkerTake \/ WorkerIdle \/ WorkerBatch \/ WorkerDone \/ LaunchDropped \/ LaunchBegin
    <2>1. cmd_log' = cmd_log
      BY <1>2 DEF WorkerTake, Dispatch, WorkerIdle, WorkerBatch, WorkerDone, LaunchDropped,
         LaunchBegin, logVars
    <2>2. CASE WorkerTake
      BY <1>0, <1>1, <2>1, <2>2 DEF WorkerTake, Dispatch, Goto, SyncCmdLabels
    <2>3. CASE WorkerIdle \/ WorkerDone \/ LaunchDropped
      BY <1>0, <1>1, <2>1, <2>3 DEF WorkerIdle, WorkerDone, LaunchDropped, Goto, SyncCmdLabels
    <2>4. CASE WorkerBatch \/ LaunchBegin
      BY <1>0, <1>1, <2>1, <2>4 DEF WorkerBatch, LaunchBegin, Goto, BeginSyncCmd, BeginSyncAll,
         SyncCmdLabels
    <2> QED BY <1>2, <2>2, <2>3, <2>4
  <1>3. CASE LaunchFull
    <2>1. cmd_log' = cmd_log
      BY <1>3 DEF LaunchFull, logVars
    <2>2. CASE ~LogFull
      <3>1. Len(cmd_log) < Threshold /\ pc'[Worker] = "await"
        BY <1>0, <1>3, <2>2 DEF LaunchFull, LogFull, Goto
      <3> QED BY <1>1, <2>1, <3>1 DEF SyncCmdLabels
    <2>3. CASE \E p \in DOMAIN sync_cmd_log : BeginSyncCmd(sync_cmd_log[p], "tail")
      <3>1. PICK p \in DOMAIN sync_cmd_log : BeginSyncCmd(sync_cmd_log[p], "tail")
        BY <2>3
      <3>2. PICK q \in DOMAIN cmd_log : sync_cmd_log[p] = cmd_log[q]
        BY DEF Order, LogOrder
      <3>3. arg'[Worker] = cmd_log[q] /\ pc'[Worker] = "cmdCheck"
        BY <1>0, <3>1, <3>2 DEF BeginSyncCmd, Goto
      <3> QED BY <1>0, <2>1, <3>3 DEF Bound
    <2>4. CASE BeginSyncAll("tail")
      BY <1>0, <1>1, <2>1, <2>4 DEF BeginSyncAll, Goto, SyncCmdLabels
    <2> QED BY <1>3, <2>2, <2>3, <2>4 DEF LaunchFull
  <1>4. CASE AwaitRunning
    BY <1>0, <1>1, <1>4 DEF AwaitRunning, Bound, Goto, SyncCmdLabels, logVars
  <1>5. CASE Launch
    <2>1. Len(cmd_log) < Threshold /\ Len(cmd_log') = Len(cmd_log) + 1
      BY <1>5 DEF Launch, Bound, WorkerTypeOK
    <2>2. pc'[Worker] = "dequeue"
      BY <1>0, <1>5 DEF Launch, Goto
    <2> QED BY <1>0, <2>1, <2>2 DEF Bound, SyncCmdLabels
  <1>6. CASE SyncAllCheck \/ SyncAllHw \/ SyncAllPost
    <2>1. CASE pc'[Worker] \in {"allCheck", "allSync", "allPost"} /\ cmd_log' = cmd_log
      BY <1>1, <2>1 DEF SyncCmdLabels
    <2>2. CASE cmd_log' = <<>> /\ pc'[Worker] = ret
      BY <1>0, <2>2 DEF Bound, SyncCmdLabels
    <2>3. \/ pc'[Worker] \in {"allCheck", "allSync", "allPost"} /\ cmd_log' = cmd_log
          \/ cmd_log' = <<>> /\ pc'[Worker] = ret
      BY <1>0, <1>6 DEF SyncAllCheck, SyncAllHw, SyncAllPost, ReturnFromSync, Goto, logVars
    <2> QED BY <2>1, <2>2, <2>3
  <1>7. CASE SyncCmdHw(Worker) \/ CvWait(Worker)
    <2>1. UNCHANGED <<cmd_log, ret, arg>>
      BY <1>7 DEF SyncCmdHw, CvWait, logVars, threadVars
    <2>2. \/ pc'[Worker] = pc[Worker]
          \/ pc[Worker] = "cmdSync" /\ pc'[Worker] = "cmdPost"
      <3>1. CASE SyncCmdHw(Worker)
        BY <1>0, <3>1 DEF SyncCmdHw, Goto
      <3>2. CASE CvWait(Worker)
        BY <3>2 DEF CvWait, threadVars
      <3> QED BY <1>7, <3>1, <3>2
    <2> QED BY <2>1, <2>2 DEF Bound, SyncCmdLabels
  <1>8. CASE SyncCmdCheck(Worker)
    <2>1. cmd_log' = cmd_log /\ ret' = ret /\ pc[Worker] = "cmdCheck"
      BY <1>8 DEF SyncCmdCheck, logVars
    <2>2. CASE state[arg[Worker]] = Completed /\ ReturnFromSync(Worker)
      <3>1. pc'[Worker] = ret
        BY <1>0, <2>2 DEF ReturnFromSync, Goto
      <3>2. \A p \in DOMAIN cmd_log : cmd_log[p] # arg[Worker]
        BY <2>2 DEF Order, LogOrder, InFlight, Completed
      <3>3. ret = "tail" => Len(cmd_log) < Threshold
        BY <1>0, <2>1, <3>2 DEF Bound, SyncCmdLabels
      <3> QED BY <1>0, <1>1, <2>1, <3>1, <3>3 DEF SyncCmdLabels
    <2>3. CASE pc'[Worker] = "cmdSync" /\ arg' = arg
      BY <2>1, <2>3 DEF Bound, SyncCmdLabels
    <2> QED BY <1>0, <1>8, <2>2, <2>3 DEF SyncCmdCheck, Goto
  <1>9. CASE SyncCmdPost(Worker)
    <2>1. ret' = ret /\ pc[Worker] = "cmdPost"
      BY <1>9 DEF SyncCmdPost
    <2>2. CASE Unpreempted(Worker)
      <3>1. pc'[Worker] = ret
        BY <1>0, <1>9, <2>2 DEF SyncCmdPost, ReturnFromSync, Goto
      <3>2. PICK n \in 0 .. Len(cmd_log) :
              /\ PopsThrough(cmd_log, arg[Worker], n)
              /\ cmd_log' = SubSeq(cmd_log, n + 1, Len(cmd_log))
        BY <1>9, <2>2 DEF SyncCmdPost
      <3>3. n \in Nat /\ Len(cmd_log') = Len(cmd_log) - n
        BY <1>0, <3>2, Suffix DEF WorkerTypeOK
      <3>4. n = 0 => \A p \in DOMAIN cmd_log : cmd_log[p] # arg[Worker]
        <4> SUFFICES ASSUME n = 0, NEW p \in DOMAIN cmd_log
                     PROVE  cmd_log[p] # arg[Worker]
          OBVIOUS
        <4>1. p \in 1 .. Len(cmd_log) /\ 1 \in DOMAIN cmd_log
          BY <1>0, TypeFacts
        <4>2. cmd_log[1] > arg[Worker]
          BY <1>0, <3>2, <4>1 DEF PopsThrough
        <4>3. p = 1 \/ cmd_log[1] < cmd_log[p]
          BY <4>1 DEF Order, LogOrder, Increasing
        <4>4. cmd_log[1] \in Nat /\ cmd_log[p] \in Nat /\ arg[Worker] \in Nat
          BY <1>0, <4>1, TypeFacts
        <4> QED BY <4>2, <4>3, <4>4
      <3>5. ret = "tail" => Len(cmd_log') < Threshold
        <4>1. CASE n = 0
          BY <1>0, <2>1, <3>3, <3>4, <4>1 DEF Bound, SyncCmdLabels
        <4>2. CASE n > 0
          BY <1>0, <3>3, <4>2
        <4> QED BY <3>3, <4>1, <4>2
      <3>6. Len(cmd_log') <= Threshold
        BY <1>0, <3>3
      <3> QED BY <1>0, <2>1, <3>1, <3>5, <3>6 DEF Bound, SyncCmdLabels
    <2>3. CASE ~Unpreempted(Worker)
      <3>1. cmd_log' = cmd_log /\ arg' = arg /\ pc'[Worker] = "cmdCheck"
        BY <1>0, <1>9, <2>3 DEF SyncCmdPost, Goto, logVars
      <3> QED BY <2>1, <3>1 DEF Bound, SyncCmdLabels
    <2> QED BY <2>2, <2>3
  <1> QED BY <1>2, <1>3, <1>4, <1>5, <1>6, <1>7, <1>8, <1>9 DEF WorkerStep

(* With one submitting thread, no more commands are in flight than         *)
(* threshold_ allows: whatever waiters, controllers and hardware do while  *)
(* the worker waits for a slot, its launch finds one.                      *)
THEOREM InFlightBounded == ASSUME OneSubmitter PROVE Spec => []InFlightBound
  <1>1. Init => IInv
    <2>1. Init => LaunchesHardware /\ Order
      BY DEF Init, BufInit, WorkerInit, LaunchesHardware, Launching, SyncCmdLabels, Threads,
         Order, LogOrder, CurOrder, BufOrder, SubmitOrder, Increasing
    <2>2. Init => Bound
      BY ConfigAssumption DEF Init, WorkerInit, Bound, SyncCmdLabels, Threads
    <2> QED BY <2>1, <2>2, TypeInit DEF IInv
  <1>2. IInv /\ [Next]_vars => IInv'
    <2> SUFFICES ASSUME IInv, [Next]_vars PROVE IInv'
      OBVIOUS
    <2>1. TypeInv /\ LaunchesHardware /\ Order /\ Bound
      BY DEF IInv
    <2> HIDE DEF TypeInv, TypeOK
    <2>2. TypeInv' /\ LaunchesHardware'
      BY <2>1, TypeStep, LaunchesHardwareStep
    <2>3. CASE \E t \in Apps \cap Submitters : SubmitDraw(t)
      <3>1. \E t \in Apps : AppCall(t)
        BY <2>3 DEF AppCall
      <3> QED BY <2>1, <2>2, <2>3, <3>1, OrderOthers, OthersKeepWorker, BoundOthers DEF IInv
    <2>4. CASE ~ \E t \in Apps \cap Submitters : SubmitDraw(t)
      <3>1. EnqueueKept
        BY <2>1, <2>4, OthersKeepEnqueue
      <3>2. CASE WorkerStep
        BY <2>1, <2>2, <3>1, <3>2, OrderWorker, BoundWorker DEF IInv
      <3>3. CASE UNCHANGED vars
        <4>1. UNCHANGED <<kind, state, cmds, cmd_log, sync_cmd_log, cur, pc, arg, ret>>
          BY <3>3 DEF vars, bufVars, workerVars
        <4> QED BY <2>1, <2>2, <3>1, <4>1, OrderFrame, BoundFrame DEF IInv, Launching
      <3>4. CASE ~WorkerStep /\ ~UNCHANGED vars
        <4>1. \/ HwStep
              \/ \E t \in Apps : AppCall(t) \/ AppProgress(t)
              \/ \E k \in Controllers : ControlCall(k) \/ ControlProgress(k)
          BY <3>4 DEF Next, Terminating
        <4> QED BY <2>1, <2>2, <3>1, <4>1, OrderOthers, OthersKeepWorker, BoundOthers DEF IInv
      <3> QED BY <3>2, <3>3, <3>4
    <2> QED BY <2>3, <2>4
  <1>3. IInv => InFlightBound
    BY DEF IInv, Bound, InFlightBound
  <1> QED BY <1>1, <1>2, <1>3, PTL DEF Spec
=============================================================================
