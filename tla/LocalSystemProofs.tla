-------------------------- MODULE LocalSystemProofs --------------------------
(***************************************************************************)
(* Proofs about LocalSystem, for any queues, policies, hints and bounds:   *)
(* what the application threads report and what the executor reports when  *)
(* it drops the last reference to a queue keep the tables of the scheduler *)
(* in agreement, and so does a change of the policy; at rest the tables    *)
(* are true, the workers do what they say (AgreeInv), and what they say is *)
(* what the policy decides (PolicyInv, WorkInv).                           *)
(***************************************************************************)
EXTENDS LocalSystem, LocalSchedulerProofs

(* The executor works on queues of processes the scheduler knows.          *)
ExecutorType ==
  /\ ops \subseteq Procs
  /\ cur \in Queues \cup {NoQueue}

SystemInv == SchedInv /\ ExecutorType

-----------------------------------------------------------------------------
LEMMA SystemInvInit == Init => SystemInv
<1> SUFFICES ASSUME Init PROVE SystemInv OBVIOUS
<1> DEFINE p == CHOOSE x \in Procs : TRUE
<1>1. p \in Procs BY ProcsAssumption
<1>2. event_queue = <<ProcessCreate(p)>> BY DEF Init
<1> HIDE DEF p
<1>3. WellFormed(ProcessCreate(p)) BY <1>1 DEF WellFormed, ProcessCreate
<1>4. Sane(event_queue) BY <1>2, <1>3, OneEvent
<1>5. SchedInit /\ cur = NoQueue BY DEF Init
<1>6. SchedInv BY <1>4, <1>5, SchedStarts
<1> QED BY <1>5, <1>6 DEF SystemInv, ExecutorType, SchedInit

(* What application and executor report is about queues there are.         *)
LEMMA ReportsWellFormed ==
  /\ \A q \in Queues : /\ \A d : WellFormed(XQueueCreate(q, d))
                       /\ WellFormed(XQueueDestroy(q)) /\ WellFormed(XQueueReady(q))
                       /\ WellFormed(XQueueIdle(q))
  /\ \A h : WellFormed(Hint(h))
<1>1. ASSUME NEW q \in Queues, NEW d
      PROVE  /\ WellFormed(XQueueCreate(q, d)) /\ WellFormed(XQueueDestroy(q))
             /\ WellFormed(XQueueReady(q)) /\ WellFormed(XQueueIdle(q))
  BY DEF WellFormed, XQueueCreate, XQueueDestroy, XQueueReady, XQueueIdle
<1>2. \A h : WellFormed(Hint(h)) BY DEF WellFormed, Hint
<1> QED BY <1>1, <1>2

LEMMA SystemInvStep == ASSUME SystemInv, [Next]_vars PROVE SystemInv'
<1>1. SchedInv /\ ExecutorType BY DEF SystemInv
<1>2. ASSUME UNCHANGED schedVars PROVE SchedInv'
  BY <1>1, <1>2, Undisturbed DEF SchedInv, schedVars, policyVars, workerVars
<1>3. ASSUME NEW e, WellFormed(e), RecvEvent(e), OnlyEvents PROVE SchedInv'
  BY <1>1, <1>3, OneEvent, EventsCome DEF RecvEvent, OnlyEvents, policyVars, workerVars
<1>4. ASSUME NEW es, Sane(es), Relay(es) PROVE SchedInv'
  BY <1>1, <1>4, EventsCome DEF Relay, OnlyEvents, policyVars, workerVars
<1>5. ASSUME NEW e, WellFormed(e), Relay(<<e>>) PROVE SchedInv'
  BY <1>4, <1>5, OneEvent
<1>6. ASSUME UNCHANGED <<ops, cur>> PROVE ExecutorType'
  BY <1>1, <1>6 DEF ExecutorType
<1>7. ASSUME NEW q \in Queues,
             \/ Create(q) \/ RelayHint(q) \/ Submit(q) \/ Complete(q) \/ ReportIdle(q)
             \/ Destroy(q) \/ DelResume(q) \/ DelResumeWorker(q) \/ DelWaitAll(q)
             \/ DelDestroyed(q)
      PROVE  SystemInv'
  <2>1. UNCHANGED <<ops, cur>>
    BY <1>7 DEF Create, RelayHint, Submit, Complete, ReportIdle, Destroy, DelResume,
       DelResumeWorker, DelWaitAll, DelDestroyed, Destroyed, Relay, OnlyEvents, execVars,
       schedVars, workerVars
  <2>2. CASE Create(q)
    BY <1>5, <1>6, <2>1, <2>2, ReportsWellFormed DEF Create, SystemInv
  <2>3. CASE RelayHint(q)
    BY <1>5, <1>6, <2>1, <2>3, ReportsWellFormed DEF RelayHint, SystemInv
  <2>4. CASE Submit(q)
    <3>1. Relay(<<XQueueReady(q)>>) \/ Relay(<<>>) BY <2>4 DEF Submit
    <3> QED BY <1>4, <1>5, <1>6, <2>1, <3>1, NoEvents, ReportsWellFormed DEF SystemInv
  <2>5. CASE ReportIdle(q)
    BY <1>5, <1>6, <2>1, <2>5, ReportsWellFormed DEF ReportIdle, SystemInv
  <2>6. CASE Complete(q) \/ Destroy(q) \/ DelResume(q) \/ DelResumeWorker(q)
    <3>1. UNCHANGED schedVars
      BY <2>6 DEF Complete, Destroy, DelResume, DelResumeWorker
    <3> QED BY <1>2, <1>6, <2>1, <3>1 DEF SystemInv
  <2>7. CASE DelWaitAll(q)
    <3>1. UNCHANGED event_queue /\ OnlyEvents BY <2>7 DEF DelWaitAll, Destruct
    <3> QED BY <1>2, <1>6, <2>1, <3>1 DEF OnlyEvents, schedVars, SystemInv
  <2>8. CASE DelDestroyed(q)
    BY <1>5, <1>6, <2>1, <2>8, ReportsWellFormed DEF DelDestroyed, Destroyed, SystemInv
  <2> QED BY <1>7, <2>2, <2>3, <2>4, <2>5, <2>6, <2>7, <2>8
<1>8. CASE Executor
  <2>1. ASSUME NEW now_paused, cur # NoQueue, Release(now_paused) PROVE SystemInv'
    <3>1. cur' \in {cur, NoQueue} /\ UNCHANGED event_queue /\ OnlyEvents
      BY <2>1 DEF Release, Destruct, NextHandle
    <3>2. ExecutorType' BY <1>1, <3>1 DEF ExecutorType, OnlyEvents, workerVars
    <3> QED BY <1>2, <3>1, <3>2 DEF OnlyEvents, schedVars, SystemInv
  <2>2. CASE Lookup
    <3>1. Handles \subseteq Queues
      <4>1. \A p \in ops : running[p] \subseteq Queues /\ halted[p] \subseteq Queues
        BY <1>1 DEF ExecutorType, SchedInv, TableType
      <4> QED BY <4>1 DEF Handles, ToResume, ToSuspend
    <3>2. UNCHANGED schedVars /\ cur' \in Queues \cup {NoQueue}
      BY <2>2, <3>1 DEF Lookup
    <3>3. ExecutorType' BY <1>1, <3>2 DEF ExecutorType, schedVars, workerVars
    <3> QED BY <1>2, <3>2, <3>3 DEF SystemInv
  <2>3. CASE ExchangeFlag
    <3>1. CASE Release(paused) BY <2>1, <2>3, <3>1 DEF ExchangeFlag
    <3>2. CASE UNCHANGED <<schedVars, cur>>
      BY <1>2, <1>6, <3>2 DEF SystemInv, schedVars, workerVars
    <3> QED BY <2>3, <3>1, <3>2 DEF ExchangeFlag
  <2>4. CASE TellWorker BY <2>1, <2>4 DEF TellWorker
  <2>5. CASE EndOperation
    <3>1. SchedInv'
      BY <1>1, <2>5, Undisturbed DEF EndOperation, policyVars, SchedInv
    <3>2. ExecutorType' BY <1>1, <2>5 DEF EndOperation, ExecutorType
    <3> QED BY <3>1, <3>2 DEF SystemInv
  <2>6. CASE ExecDestroyed
    <3>1. cur \in Queues /\ Relay(<<XQueueDestroy(cur)>>) /\ cur' = NoQueue
      BY <1>1, <2>6 DEF ExecDestroyed, Destroyed, NextHandle, ExecutorType
    <3>2. SchedInv' BY <1>5, <3>1, ReportsWellFormed
    <3>3. ExecutorType' BY <1>1, <3>1 DEF ExecutorType, Relay, OnlyEvents, workerVars
    <3> QED BY <3>2, <3>3 DEF SystemInv
  <2> QED BY <1>8, <2>2, <2>3, <2>4, <2>5, <2>6 DEF Executor
<1>9. CASE Lone(Worker)
  <2>1. SchedInv' BY <1>1, <1>9, WorkerSteps DEF Lone
  <2>2. ops' \subseteq Procs
    BY <1>1, <1>9 DEF Lone, Worker, Take, TimerFires, Update, Round, EndRound,
                      ExecutorType, SchedInv, TableType
  <2>3. cur' = cur BY <1>9 DEF Lone, execVars
  <2> QED BY <1>1, <2>1, <2>2, <2>3 DEF SystemInv, ExecutorType
<1>10. CASE Lone(Tick) \/ Lone(ReplacePolicy)
  <2>1. SchedInv' BY <1>1, <1>10, TickSteps, ReplacePolicySteps DEF Lone
  <2>2. UNCHANGED <<ops, cur>> BY <1>10 DEF Lone, Tick, ReplacePolicy, execVars
  <2> QED BY <1>6, <2>1, <2>2 DEF SystemInv
<1>11. CASE ChangePolicy
  <2>1. PICK type : SetPolicy(type) BY <1>11 DEF ChangePolicy
  <2>2. UNCHANGED <<ops, cur>> BY <1>11, <2>1 DEF ChangePolicy, SetPolicy, workerVars, execVars
  <2> QED BY <1>1, <1>6, <2>1, <2>2, SetPolicySteps DEF SystemInv
<1>12. CASE Terminating \/ UNCHANGED vars
  BY <1>2, <1>6, <1>12 DEF Terminating, vars, schedVars, workerVars, execVars, SystemInv
<1> QED BY <1>7, <1>8, <1>9, <1>10, <1>11, <1>12 DEF Next

(* The two tables of a local scheduler agree under every policy and across *)
(* a change of the policy, however queues are created, used and destroyed. *)
THEOREM TablesCorrect == Spec => []TablesAgree
<1>1. SystemInv => TablesAgree BY DEF SystemInv, SchedInv
<1> QED BY <1>1, SystemInvInit, SystemInvStep, PTL DEF Spec

-----------------------------------------------------------------------------
(* The events that can be under way: those about a queue, and the others.  *)
Readies(q)  == {[type |-> "ready", q |-> q, age |-> a] : a \in 0 .. MaxAge}
Creates(q)  == {XQueueCreate(q, DeviceOf[q])}
Idles(q)    == {XQueueIdle(q)}
Destroys(q) == {XQueueDestroy(q)}
About(q)    == Readies(q) \cup Creates(q) \cup Idles(q) \cup Destroys(q)

(* The policies there can be, and what is said to them.                    *)
Kinds == Policies \cup {s[2] : s \in Switches}
Said  == UNION {Hints(type, q) : type \in Kinds, q \in Queues}

Others ==
  {SchedulerTerminate} \cup {ProcessCreate(p) : p \in Procs} \cup {Hint(h) : h \in Said}

Events == Others \cup UNION {About(q) : q \in Queues}

LEMMA OtherEvents ==
  ASSUME NEW e \in Others
  PROVE  /\ WellFormed(e) /\ e.type \in {"terminate", "process_create", "hint"}
         /\ e.type = "hint" => e.hint \in Said
  BY DEF Others, SchedulerTerminate, ProcessCreate, Hint, WellFormed

LEMMA EventsAbout ==
  ASSUME NEW q \in Queues, NEW e \in About(q)
  PROVE  /\ WellFormed(e) /\ e.q = q
         /\ \/ e \in Readies(q) /\ e.type = "ready" /\ e.age \in 0 .. MaxAge
               /\ e = [type |-> "ready", q |-> q, age |-> e.age]
            \/ e \in Creates(q) /\ e.type = "create" /\ e.device = DeviceOf[q]
            \/ e \in Idles(q) /\ e.type = "idle"
            \/ e \in Destroys(q) /\ e.type = "destroy"
<1>1. ASSUME e \in Readies(q)
      PROVE  /\ WellFormed(e) /\ e.q = q /\ e.type = "ready" /\ e.age \in 0 .. MaxAge
             /\ e = [type |-> "ready", q |-> q, age |-> e.age]
  BY <1>1 DEF Readies, WellFormed
<1>2. ASSUME e \in Creates(q) \cup Idles(q) \cup Destroys(q)
      PROVE  /\ WellFormed(e) /\ e.q = q
             /\ \/ e \in Creates(q) /\ e.type = "create" /\ e.device = DeviceOf[q]
                \/ e \in Idles(q) /\ e.type = "idle"
                \/ e \in Destroys(q) /\ e.type = "destroy"
  BY <1>2 DEF Creates, Idles, Destroys, XQueueCreate, XQueueIdle, XQueueDestroy, WellFormed
<1> QED BY <1>1, <1>2 DEF About

LEMMA EventKinds ==
  ASSUME NEW e \in Events
  PROVE  /\ WellFormed(e)
         /\ \/ e \in Others /\ \A q \in Queues : e \notin About(q)
            \/ e.q \in Queues /\ e \in About(e.q) /\ e \notin Others
               /\ \A q \in Queues : e \in About(q) => q = e.q
<1>1. CASE e \in Others
  <2>1. ASSUME NEW q \in Queues, e \in About(q) PROVE FALSE
    BY <1>1, <2>1, OtherEvents, EventsAbout
  <2> QED BY <1>1, <2>1, OtherEvents
<1>2. CASE e \notin Others
  <2>1. PICK q \in Queues : e \in About(q) BY <1>2 DEF Events
  <2> QED BY <1>2, <2>1, EventsAbout
<1> QED BY <1>1, <1>2

LEMMA KindsApart ==
  ASSUME NEW q \in Queues, NEW e
  PROVE  /\ e \in Readies(q) => e \in About(q) /\ e \notin Creates(q) /\ e \notin Idles(q)
                                /\ e \notin Destroys(q)
         /\ e \in Creates(q) => e \in About(q) /\ e \notin Idles(q) /\ e \notin Destroys(q)
         /\ e \in Idles(q) => e \in About(q) /\ e \notin Destroys(q)
         /\ e \in Destroys(q) => e \in About(q)
         /\ e \in About(q) => e \in Events
<1>1. e \in Readies(q) => e.type = "ready" BY DEF Readies
<1>2. /\ e \in Creates(q) => e.type = "create"
      /\ e \in Idles(q) => e.type = "idle"
      /\ e \in Destroys(q) => e.type = "destroy"
  BY DEF Creates, Idles, Destroys, XQueueCreate, XQueueIdle, XQueueDestroy
<1>3. e \in About(q) => e \in Events BY DEF Events
<1> QED BY <1>1, <1>2, <1>3 DEF About

(* Time passes: a ready event grows older and still says the same.         *)
LEMMA OlderSays ==
  ASSUME NEW e \in Events
  PROVE  /\ OlderEvent(e) \in Events
         /\ \A q \in Queues :
              /\ OlderEvent(e) \in Readies(q) <=> e \in Readies(q)
              /\ OlderEvent(e) \in Creates(q) <=> e \in Creates(q)
              /\ OlderEvent(e) \in Idles(q) <=> e \in Idles(q)
              /\ OlderEvent(e) \in Destroys(q) <=> e \in Destroys(q)
<1>1. CASE e.type # "ready" BY <1>1 DEF OlderEvent
<1>2. CASE e.type = "ready"
  <2>1. e \notin Others /\ e.q \in Queues /\ e \in About(e.q)
    BY <1>2, EventKinds, OtherEvents
  <2>2. /\ e \in Readies(e.q) /\ e.age \in 0 .. MaxAge
        /\ e = [type |-> "ready", q |-> e.q, age |-> e.age]
    BY <1>2, <2>1, EventsAbout
  <2>3. Older(e.age) \in 0 .. MaxAge BY <2>2, AgeAssumption DEF Older
  <2>4. OlderEvent(e) = [type |-> "ready", q |-> e.q, age |-> Older(e.age)]
    BY <1>2, <2>2 DEF OlderEvent
  <2>5. OlderEvent(e) \in Readies(e.q) BY <2>3, <2>4 DEF Readies
  <2>6. OlderEvent(e).q = e.q BY <2>4
  <2>7. ASSUME NEW q \in Queues, NEW f \in About(q) PROVE f.q = q BY <2>7, EventsAbout
  <2>8. ASSUME NEW q \in Queues, NEW f, f \in Readies(e.q), f.q = e.q
        PROVE  /\ f \in Readies(q) <=> q = e.q
               /\ f \notin Creates(q) /\ f \notin Idles(q) /\ f \notin Destroys(q)
    <3>1. f \in About(q) => q = e.q BY <2>7, <2>8
    <3> QED BY <2>8, <3>1, KindsApart
  <2>9. OlderEvent(e) \in Events BY <2>1, <2>5, KindsApart
  <2> QED BY <2>2, <2>5, <2>6, <2>8, <2>9
<1> QED BY <1>1, <1>2

(* What an event says of a queue.                                          *)
EntryType == DOMAIN device = Queues /\ age \in [Queues -> 0 .. MaxAge]

LEMMA UpdateSays ==
  ASSUME SchedInv, EntryType, NEW e \in Events, UpdateStatus(e), NEW q \in Queues
  PROVE  /\ EntryType'
         /\ e \notin About(q) =>
              /\ (q \in known' <=> q \in known) /\ (q \in ready' <=> q \in ready)
              /\ device'[q] = device[q]
         /\ e \in About(q) /\ e \notin Destroys(q) =>
              /\ q \in known'
              /\ q \in ready' <=> \/ e \in Readies(q)
                                  \/ e \in Creates(q) /\ q \in known /\ q \in ready
              /\ e \in Creates(q) => device'[q] = DeviceOf[q]
              /\ e \notin Creates(q) /\ q \in known => device'[q] = device[q]
         /\ e \in Destroys(q) => q \notin known'
         /\ e \notin Destroys(q) => (q \in suspended' <=> q \in suspended)
<1>0. /\ suspended \subseteq known /\ ready \subseteq known
      /\ Pid[q] \in Procs
  BY PidAssumption DEF SchedInv, TablesAgree
<1>1. CASE e \in Others
  <2>1. UNCHANGED <<known, ready, suspended, device, age>>
    BY <1>1, OtherEvents DEF UpdateStatus, tableVars
  <2>2. e \notin About(q) BY <1>1, EventKinds
  <2> QED BY <2>1, <2>2, KindsApart DEF EntryType
<1>2. CASE e \notin Others
  <2> DEFINE r == e.q
  <2>1. r \in Queues /\ e \in About(r) /\ (e \in About(q) => q = r) BY <1>2, EventKinds
  <2> HIDE DEF r
  <2>2. CASE e \in Destroys(r)
    <3>1. DestroyXQueue(r) BY <2>1, <2>2, EventsAbout, KindsApart DEF UpdateStatus, r
    <3>2. /\ known' = known \ {r} /\ ready' = ready \ {r} /\ suspended' = suspended \ {r}
          /\ DOMAIN device' = Queues /\ age' \in [Queues -> 0 .. MaxAge]
          /\ q # r => device'[q] = device[q]
      <4>1. CASE r \notin known BY <1>0, <3>1, <4>1 DEF DestroyXQueue, tableVars, EntryType
      <4>2. CASE r \in known
        <5>1. Forget({r}) BY <3>1, <4>2 DEF DestroyXQueue
        <5> QED BY <5>1, AgeAssumption DEF Forget, EntryType
      <4> QED BY <4>1, <4>2
    <3> QED BY <2>1, <2>2, <3>2, KindsApart DEF EntryType
  <2>3. CASE e \in Creates(r)
    <3>1. Configured(r, DeviceOf[r])
      BY <2>1, <2>3, EventsAbout, KindsApart DEF UpdateStatus, r
    <3>2. /\ known' = known \cup {r} /\ device' = [device EXCEPT ![r] = DeviceOf[r]]
          /\ age' \in [Queues -> 0 .. MaxAge]
          /\ ready' = IF r \in known THEN ready ELSE ready \ {r}
          /\ suspended' = IF r \in known THEN suspended ELSE suspended \ {r}
      <4>1. CASE r \notin known
        BY <3>1, <4>1, AgeAssumption DEF Configured, CreateXQueueStatus, EntryType
      <4>2. CASE r \in known BY <3>1, <4>2 DEF Configured, EntryType
      <4> QED BY <4>1, <4>2
    <3>3. EntryType' BY <3>2 DEF EntryType
    <3>4. q # r => device'[q] = device[q] BY <3>2
    <3>5. device'[r] = DeviceOf[r] BY <2>1, <3>2 DEF EntryType
    <3>6. e \notin Readies(q) /\ e \notin Destroys(q) BY <2>1, <2>3, KindsApart
    <3> QED BY <1>0, <2>1, <2>3, <3>2, <3>3, <3>4, <3>5, <3>6
  <2>4. CASE e \in Readies(r)
    <3>0. e.age \in 0 .. MaxAge BY <2>1, <2>4, EventsAbout, KindsApart
    <3>1. BecomesReady(r, e.age)
      BY <2>1, <2>4, EventsAbout, KindsApart DEF UpdateStatus, r
    <3>2. /\ known' = known \cup {r} /\ ready' = ready \cup {r}
          /\ age' \in [Queues -> 0 .. MaxAge]
          /\ device' = IF r \in known THEN device ELSE [device EXCEPT ![r] = Unknown]
          /\ suspended' = IF r \in known THEN suspended ELSE suspended \ {r}
      BY <3>0, <3>1 DEF BecomesReady, CreateXQueueStatus, EntryType
    <3>3. EntryType' BY <3>2 DEF EntryType
    <3>4. q # r => device'[q] = device[q] BY <3>2
    <3>5. e \notin Creates(q) /\ e \notin Destroys(q) BY <2>1, <2>4, KindsApart
    <3> QED BY <1>0, <2>1, <2>4, <3>2, <3>3, <3>4, <3>5
  <2>5. CASE e \in Idles(r)
    <3>1. BecomesIdle(r)
      BY <2>1, <2>5, EventsAbout, KindsApart DEF UpdateStatus, r
    <3>2. /\ known' = known \cup {r} /\ ready' = ready \ {r}
          /\ age' \in [Queues -> 0 .. MaxAge]
          /\ device' = IF r \in known THEN device ELSE [device EXCEPT ![r] = Unknown]
          /\ suspended' = IF r \in known THEN suspended ELSE suspended \ {r}
      BY <3>1, AgeAssumption DEF BecomesIdle, CreateXQueueStatus, EntryType
    <3>3. EntryType' BY <3>2 DEF EntryType
    <3>4. q # r => device'[q] = device[q] BY <3>2
    <3>5. e \notin Readies(q) /\ e \notin Creates(q) /\ e \notin Destroys(q)
      BY <2>1, <2>5, KindsApart
    <3> QED BY <1>0, <2>1, <2>5, <3>2, <3>3, <3>4, <3>5
  <2> QED BY <2>1, <2>2, <2>3, <2>4, <2>5 DEF About
<1> QED BY <1>1, <1>2

-----------------------------------------------------------------------------
(* Of a queue that is not there yet nothing is heard; ...                  *)
Unheard(q) == q \notin known /\ Silent(event_queue, About(q)) /\ Silent(tmp_queue, About(q))

(* ... of one that is, its creation first ...                              *)
CreateFirst(q) ==
  /\ \A es \in {event_queue, tmp_queue} : FirstIn(es, About(q), Creates(q))
  /\ ~Silent(tmp_queue, Creates(q)) => q \notin known
  /\ ~Silent(event_queue, Creates(q)) => q \notin known /\ Silent(tmp_queue, About(q))
  /\ \/ q \in known
     \/ ~Silent(event_queue, Creates(q)) \/ ~Silent(tmp_queue, Creates(q))

(* ... and its state s last, its end not yet; ...                          *)
Shows(q, s) == IF s = "Ready" THEN Readies(q) ELSE Creates(q) \cup Idles(q)

Living(q, s) ==
  /\ Silent(event_queue, Destroys(q)) /\ Silent(tmp_queue, Destroys(q))
  /\ CreateFirst(q)
  /\ Settled(event_queue, tmp_queue, About(q), Shows(q, s),
             q \in known /\ (q \in ready <=> s = "Ready"))
  /\ q \in known => device[q] = DeviceOf[q]

(* ... and of one that is gone, its end last.                              *)
Forgotten(q) == Settled(event_queue, tmp_queue, About(q), Destroys(q), q \notin known)

Pipe ==
  /\ event_queue \in Seq(Events) /\ tmp_queue \in Seq(Events)
  /\ SchedInv /\ EntryType

(* The ways an event can go.  It enters, and is about another queue; ...   *)
Enters(e) ==
  event_queue' = Append(event_queue, e) /\ UNCHANGED <<known, ready, device, tmp_queue>>

LEMMA EntersOther ==
  ASSUME Pipe, NEW q \in Queues, NEW s, NEW e \in Events, e \notin About(q), Enters(e)
  PROVE  /\ Unheard(q) => Unheard(q)'
         /\ Living(q, s) => Living(q, s)'
         /\ Forgotten(q) => Forgotten(q)'
<1>1. event_queue \in Seq(Events) /\ event_queue' = Append(event_queue, e)
  BY DEF Pipe, Enters
<1>2. /\ Creates(q) \subseteq About(q) /\ Destroys(q) \subseteq About(q)
      /\ Shows(q, s) \subseteq About(q)
  BY KindsApart DEF Shows
<1>3. \A S : S \subseteq About(q) => (Silent(event_queue', S) <=> Silent(event_queue, S))
  BY <1>1, OneMore
<1>4. \A S, A : FirstIn(event_queue, S, A) /\ e \notin A => FirstIn(event_queue', S, A)
  BY <1>1, OneMore
<1>5. \A A : \A b \in BOOLEAN :
        Settled(event_queue, tmp_queue, About(q), A, b) =>
          Settled(event_queue', tmp_queue, About(q), A, b)
  BY <1>1, SettledEnters
<1>6. Unheard(q) => Unheard(q)' BY <1>3 DEF Unheard, Enters
<1>7. CreateFirst(q) => CreateFirst(q)'
  BY <1>2, <1>3, <1>4 DEF CreateFirst, Enters
<1>8. Living(q, s) => Living(q, s)'
  BY <1>2, <1>3, <1>5, <1>7 DEF Living, Enters
<1>9. Forgotten(q) => Forgotten(q)' BY <1>5 DEF Forgotten, Enters
<1> QED BY <1>6, <1>8, <1>9

(* ... it is the creation of the queue, or its new state, or its end; ...  *)
LEMMA EntersAbout ==
  ASSUME Pipe, NEW q \in Queues, NEW s, NEW e \in About(q), Enters(e)
  PROVE  /\ e \in Creates(q) /\ Unheard(q) => Living(q, "Idle")'
         /\ e \in Idles(q) /\ Living(q, s) => Living(q, "Idle")'
         /\ e \in Readies(q) /\ Living(q, s) => Living(q, "Ready")'
         /\ e \in Destroys(q) /\ Living(q, s) => Forgotten(q)'
<1>1. /\ event_queue \in Seq(Events) /\ event_queue' = Append(event_queue, e)
      /\ UNCHANGED <<known, ready, device, tmp_queue>> /\ e \in Events
  BY KindsApart DEF Pipe, Enters
<1>2. \A S : Silent(event_queue', S) <=> Silent(event_queue, S) /\ e \notin S
  BY <1>1, OneMore
<1>3. \A S, A : FirstIn(event_queue, S, A) /\ (e \in A => Silent(event_queue, S))
                  => FirstIn(event_queue', S, A)
  BY <1>1, OneMore
<1>4. \A S, A : e \in A => LastIn(event_queue', S, A) BY <1>1, OneMore
<1>5. \A S, A : e \in A => Settled(event_queue', tmp_queue', S, A, FALSE)
                           /\ Settled(event_queue', tmp_queue', S, A, TRUE)
  BY <1>4 DEF Settled
<1>6. ASSUME e \in Creates(q), Unheard(q) PROVE Living(q, "Idle")'
  <2>1. e \notin Destroys(q) /\ Creates(q) \subseteq About(q) /\ Destroys(q) \subseteq About(q)
    BY <1>6, KindsApart
  <2>2. /\ q \notin known /\ Silent(event_queue, About(q)) /\ Silent(tmp_queue, About(q))
    BY <1>6 DEF Unheard
  <2>3. \A S : S \subseteq About(q) => Silent(tmp_queue, S) /\ Silent(event_queue, S)
    BY <2>2 DEF Silent
  <2>4. FirstIn(event_queue', About(q), Creates(q)) /\ FirstIn(tmp_queue, About(q), Creates(q))
    <3>1. FirstIn(event_queue, About(q), Creates(q)) /\ FirstIn(tmp_queue, About(q), Creates(q))
      BY <2>2 DEF FirstIn, Silent
    <3> QED BY <1>3, <2>2, <3>1
  <2>5. CreateFirst(q)' BY <1>1, <1>2, <1>6, <2>1, <2>2, <2>3, <2>4 DEF CreateFirst
  <2>6. e \in Shows(q, "Idle") BY <1>6 DEF Shows
  <2> QED BY <1>1, <1>2, <1>4, <2>1, <2>2, <2>3, <2>5, <2>6 DEF Living, Settled
<1>7. ASSUME NEW t \in {"Idle", "Ready"}, e \in Shows(q, t), e \notin Creates(q), Living(q, s)
      PROVE  Living(q, t)'
  <2>1. e \notin Destroys(q) BY <1>7, KindsApart DEF Shows
  <2>2. CreateFirst(q)' BY <1>1, <1>2, <1>3, <1>7 DEF Living, CreateFirst
  <2> QED BY <1>1, <1>2, <1>4, <1>7, <2>1, <2>2 DEF Living, Settled
<1>8. e \in Idles(q) /\ Living(q, s) => Living(q, "Idle")' BY <1>7, KindsApart DEF Shows
<1>9. e \in Readies(q) /\ Living(q, s) => Living(q, "Ready")' BY <1>7, KindsApart DEF Shows
<1>10. e \in Destroys(q) => Forgotten(q)' BY <1>1, <1>4 DEF Forgotten, Settled
<1> QED BY <1>6, <1>8, <1>9, <1>10

(* ... the ready events grow older; ...                                    *)
LEMMA EventsPass ==
  ASSUME Pipe, NEW q \in Queues, NEW s, UNCHANGED <<known, ready, device, tmp_queue>>,
         event_queue' \in {event_queue, OlderEvents(event_queue)}
  PROVE  /\ event_queue' \in Seq(Events)
         /\ Unheard(q) => Unheard(q)'
         /\ Living(q, s) => Living(q, s)'
         /\ Forgotten(q) => Forgotten(q)'
<1>1. event_queue \in Seq(Events) BY DEF Pipe
<1>2. \A e \in Events :
        /\ OlderEvent(e) \in Events
        /\ OlderEvent(e) \in About(q) <=> e \in About(q)
        /\ OlderEvent(e) \in Creates(q) <=> e \in Creates(q)
        /\ OlderEvent(e) \in Destroys(q) <=> e \in Destroys(q)
        /\ OlderEvent(e) \in Shows(q, s) <=> e \in Shows(q, s)
  BY OlderSays DEF About, Shows
<1>3. /\ event_queue' \in Seq(Events)
      /\ Silent(event_queue', About(q)) <=> Silent(event_queue, About(q))
      /\ Silent(event_queue', Creates(q)) <=> Silent(event_queue, Creates(q))
      /\ Silent(event_queue', Destroys(q)) <=> Silent(event_queue, Destroys(q))
      /\ FirstIn(event_queue', About(q), Creates(q)) <=> FirstIn(event_queue, About(q), Creates(q))
      /\ LastIn(event_queue', About(q), Shows(q, s)) <=> LastIn(event_queue, About(q), Shows(q, s))
      /\ LastIn(event_queue', About(q), Destroys(q)) <=> LastIn(event_queue, About(q), Destroys(q))
  <2>1. CASE event_queue' = event_queue BY <1>1, <2>1
  <2>2. CASE event_queue' = OlderEvents(event_queue)
    <3>1. \A S : (\A e \in Events : OlderEvent(e) \in S <=> e \in S) =>
                   /\ event_queue' \in Seq(Events)
                   /\ Silent(event_queue', S) <=> Silent(event_queue, S)
      BY <1>1, <1>2, <2>2, OlderKept
    <3>2. \A S, A : (\A e \in Events : (OlderEvent(e) \in S <=> e \in S)
                                       /\ (OlderEvent(e) \in A <=> e \in A)) =>
                   /\ FirstIn(event_queue', S, A) <=> FirstIn(event_queue, S, A)
                   /\ LastIn(event_queue', S, A) <=> LastIn(event_queue, S, A)
      BY <1>1, <1>2, <2>2, OlderKept
    <3> QED BY <1>2, <3>1, <3>2
  <2> QED BY <2>1, <2>2
<1>4. CreateFirst(q)' <=> CreateFirst(q) BY <1>3 DEF CreateFirst
<1> QED BY <1>3, <1>4 DEF Unheard, Living, Forgotten, Settled

(* ... the worker takes all of them; ...                                   *)
LEMMA EventsTaken ==
  ASSUME NEW q \in Queues, NEW s, UNCHANGED <<known, ready, device>>,
         tmp_queue = <<>>, tmp_queue' = event_queue, event_queue' = <<>>
  PROVE  /\ Unheard(q) => Unheard(q)'
         /\ Living(q, s) => Living(q, s)'
         /\ Forgotten(q) => Forgotten(q)'
<1>1. \A A : \A b \in BOOLEAN :
        Settled(event_queue, <<>>, About(q), A, b) => Settled(<<>>, event_queue, About(q), A, b)
  BY SettledTaken
<1>2. CreateFirst(q) => CreateFirst(q)' BY NoneYet DEF CreateFirst
<1>3. Living(q, s) => Living(q, s)' BY <1>1, <1>2, NoneYet DEF Living
<1>4. Forgotten(q) => Forgotten(q)' BY <1>1 DEF Forgotten
<1> QED BY <1>3, <1>4, NoneYet DEF Unheard

(* ... and applies one.                                                    *)
LEMMA EventApplied ==
  ASSUME Pipe, NEW q \in Queues, NEW s \in {"Idle", "Ready"}, tmp_queue # <<>>,
         tmp_queue' = Tail(tmp_queue), UpdateStatus(Head(tmp_queue)), UNCHANGED event_queue
  PROVE  /\ tmp_queue' \in Seq(Events) /\ EntryType'
         /\ Unheard(q) => Unheard(q)'
         /\ Living(q, s) => Living(q, s)' /\ (q \in known => q \in known')
                            /\ (q \in suspended' <=> q \in suspended)
         /\ Forgotten(q) => Forgotten(q)'
<1> DEFINE e == Head(tmp_queue)
<1>1. tmp_queue \in Seq(Events) /\ SchedInv /\ EntryType BY DEF Pipe
<1>2. e \in Events /\ tmp_queue' \in Seq(Events) BY <1>1, OneLess
<1>3. \A S : Silent(tmp_queue, S) <=> e \notin S /\ Silent(tmp_queue', S) BY <1>1, OneLess
<1>4. \A S, A : FirstIn(tmp_queue, S, A) =>
                  FirstIn(tmp_queue', S, A) /\ (e \in S => Silent(tmp_queue', A))
  BY <1>1, OneLess
<1>5. /\ EntryType'
      /\ e \notin About(q) =>
           /\ (q \in known' <=> q \in known) /\ (q \in ready' <=> q \in ready)
           /\ device'[q] = device[q]
      /\ e \in About(q) /\ e \notin Destroys(q) =>
           /\ q \in known'
           /\ q \in ready' <=> \/ e \in Readies(q)
                               \/ e \in Creates(q) /\ q \in known /\ q \in ready
           /\ e \in Creates(q) => device'[q] = DeviceOf[q]
           /\ e \notin Creates(q) /\ q \in known => device'[q] = device[q]
      /\ e \in Destroys(q) => q \notin known'
      /\ e \notin Destroys(q) => (q \in suspended' <=> q \in suspended)
  BY <1>1, <1>2, UpdateSays
<1>6. \A S, A : \A b, c \in BOOLEAN :
        Settled(event_queue, tmp_queue, S, A, b) /\ (e \in A => c) /\ (b /\ e \notin S => c)
          => Settled(event_queue, tmp_queue', S, A, c)
  BY <1>1, SettledApplied
<1> HIDE DEF e
<1>7. /\ Creates(q) \subseteq About(q) /\ Destroys(q) \subseteq About(q)
      /\ e \in Creates(q) => e \notin Readies(q) /\ e \notin Destroys(q)
      /\ e \in Idles(q) => e \notin Readies(q) /\ e \notin Creates(q) /\ e \notin Destroys(q)
      /\ e \in Readies(q) => e \in About(q) /\ e \notin Destroys(q)
      /\ e \in Idles(q) => e \in About(q)
  BY KindsApart
<1>8. Unheard(q) => Unheard(q)' BY <1>3, <1>5 DEF Unheard
<1>9. Forgotten(q) => Forgotten(q)' BY <1>5, <1>6, <1>7 DEF Forgotten
<1>10. ASSUME Living(q, s)
       PROVE  /\ Living(q, s)' /\ (q \in known => q \in known')
              /\ q \in suspended' <=> q \in suspended
  <2>1. e \notin Destroys(q) BY <1>3, <1>10 DEF Living
  <2>2. CreateFirst(q) BY <1>10 DEF Living
  <2>3. e \in Creates(q) => q \notin known BY <1>3, <2>2 DEF CreateFirst
  <2>4. e \in About(q) \ Creates(q) => q \in known
    <3> SUFFICES ASSUME e \in About(q), e \notin Creates(q) PROVE q \in known OBVIOUS
    <3>1. ~Silent(tmp_queue, About(q)) /\ Silent(tmp_queue', Creates(q))
      BY <1>3, <1>4, <2>2 DEF CreateFirst
    <3>2. Silent(tmp_queue, Creates(q)) BY <1>3, <3>1
    <3> QED BY <2>2, <3>1, <3>2 DEF CreateFirst
  <2>5. CreateFirst(q)'
    <3>1. FirstIn(tmp_queue', About(q), Creates(q)) BY <1>4, <2>2 DEF CreateFirst
    <3>2. ~Silent(tmp_queue', Creates(q)) => q \notin known'
      BY <1>3, <1>4, <1>5, <2>2 DEF CreateFirst
    <3>3. ~Silent(event_queue, Creates(q)) => q \notin known' /\ Silent(tmp_queue', About(q))
      BY <1>3, <1>5, <2>2 DEF CreateFirst
    <3>4. q \in known' \/ ~Silent(event_queue, Creates(q)) \/ ~Silent(tmp_queue', Creates(q))
      BY <1>3, <1>5, <1>7, <2>1, <2>2 DEF CreateFirst
    <3> QED BY <2>2, <3>1, <3>2, <3>3, <3>4 DEF CreateFirst
  <2>6. q \in known' => device'[q] = DeviceOf[q]
    BY <1>5, <1>10, <2>1, <2>4 DEF Living
  <2> DEFINE b == q \in known /\ (q \in ready <=> s = "Ready")
             c == (q \in known /\ (q \in ready <=> s = "Ready"))'
  <2>7. e \in Shows(q, s) => c BY <1>5, <1>7, <2>1, <2>3 DEF Shows
  <2>8. b /\ e \notin About(q) => c BY <1>5
  <2>9. Settled(event_queue, tmp_queue', About(q), Shows(q, s), c)
    <3>1. Settled(event_queue, tmp_queue, About(q), Shows(q, s), b) BY <1>10 DEF Living
    <3>2. b \in BOOLEAN /\ c \in BOOLEAN OBVIOUS
    <3> HIDE DEF b, c
    <3> QED BY <1>6, <2>7, <2>8, <3>1, <3>2
  <2>10. Silent(tmp_queue', Destroys(q)) BY <1>3, <1>10 DEF Living
  <2>11. Living(q, s)' BY <1>10, <2>5, <2>6, <2>9, <2>10 DEF Living
  <2>12. q \in known => q \in known' BY <1>5, <2>1
  <2> QED BY <1>5, <2>1, <2>11, <2>12
<1> QED BY <1>2, <1>5, <1>8, <1>9, <1>10

-----------------------------------------------------------------------------
Stages == {"none", "hint", "live", "erased", "resuming", "waiting", "released", "destroying",
           "gone"}

PipeType ==
  /\ event_queue \in Seq(Events) /\ tmp_queue \in Seq(Events) /\ EntryType
  /\ sched_pc # "events" => tmp_queue = <<>>
  /\ policy \in Kinds /\ next_policy \in Kinds \cup {NoPolicy}
  /\ life \in [Queues -> Stages] /\ xq_state \in [Queues -> {"Idle", "Ready"}]
  /\ suspended_flag \in [Queues -> BOOLEAN] /\ paused \in [Queues -> BOOLEAN]

(* What the scheduler hears of a queue at each stage of its life.          *)
Heard(q) ==
  /\ life[q] = "none" => Unheard(q)
  /\ Exists(q) => Living(q, xq_state[q])
  /\ life[q] = "gone" => Forgotten(q)

Fresh(q) == life[q] = "none" => xq_state[q] = "Idle" /\ ~suspended_flag[q] /\ ~paused[q]

(* The executor works on the operations of a round, on one queue at a time *)
(* that it knows to exist.                                                 *)
ExecutorAt ==
  /\ sched_pc # "execute" => ops = {}
  /\ ops = {} => done = {} /\ cur = NoQueue
  /\ cur = NoQueue => step = "flag"
  /\ cur # NoQueue => /\ cur \in known /\ Pid[cur] \in ops /\ cur \notin done
                      /\ life[cur] \notin {"none", "gone"}

(* Flag and worker agree but in the middle of an operation, and with the   *)
(* table unless the operation is still to come.                            *)
ToDo(q) == Pid[q] \in ops /\ q \in known \ done

Obeys(q) ==
  Registered(q) =>
    /\ q \notin known => ~suspended_flag[q]
    /\ IF cur = q /\ step = "worker" THEN suspended_flag[q] <=> q \in suspended
       ELSE paused[q] <=> suspended_flag[q]
    /\ ~switched /\ ~ToDo(q) => (q \in suspended <=> suspended_flag[q])

AgreeInv ==
  /\ SystemInv /\ PipeType /\ ExecutorAt
  /\ \A q \in Queues : Heard(q) /\ Fresh(q) /\ Obeys(q)

LEMMA AgreeInvInit == Init => AgreeInv
<1> SUFFICES ASSUME Init PROVE AgreeInv OBVIOUS
<1>1. SystemInv BY SystemInvInit
<1> DEFINE p == CHOOSE x \in Procs : TRUE
<1>2. p \in Procs BY ProcsAssumption
<1>3. event_queue = <<ProcessCreate(p)>> /\ tmp_queue = <<>> BY DEF Init, SchedInit
<1> HIDE DEF p
<1>4. ProcessCreate(p) \in Events /\ \A q \in Queues : ProcessCreate(p) \notin About(q)
  <2>1. ProcessCreate(p) \in Others BY <1>2 DEF Others
  <2>2. ProcessCreate(p) \in Events BY <2>1 DEF Events
  <2> QED BY <2>1, <2>2, EventKinds
<1>5. PipeType
  <2>1. event_queue \in Seq(Events) /\ tmp_queue \in Seq(Events)
    <3>1. ProcessCreate(p) \in Events BY <1>4
    <3> HIDE DEF Events
    <3> QED BY <1>3, <3>1
  <2>2. EntryType BY AgeAssumption DEF Init, SchedInit, EntryType
  <2> QED BY <2>1, <2>2 DEF PipeType, Init, SchedInit, Kinds, Stages
<1>6. ExecutorAt BY DEF Init, SchedInit, ExecutorAt
<1>7. ASSUME NEW q \in Queues PROVE Heard(q) /\ Fresh(q) /\ Obeys(q)
  <2>1. life[q] = "none" /\ known = {} BY DEF Init, SchedInit
  <2>2. Silent(event_queue, About(q)) /\ Silent(tmp_queue, About(q))
    BY <1>3, <1>4 DEF Silent
  <2> QED BY <2>1, <2>2 DEF Heard, Unheard, Exists, Fresh, Obeys, Registered, Init
<1> QED BY <1>1, <1>5, <1>6, <1>7 DEF AgreeInv

-----------------------------------------------------------------------------
(* What each step does to the events, and to the queues they are about.    *)
Steady(q) ==
  /\ xq_state'[q] = xq_state[q]
  /\ life'[q] = "none" <=> life[q] = "none"
  /\ life'[q] = "gone" <=> life[q] = "gone"

Reports(r, e) ==
  \/ e \in Creates(r) /\ life[r] = "none" /\ life'[r] = "hint" /\ xq_state'[r] = xq_state[r]
  \/ e \in Readies(r) /\ Exists(r) /\ Exists(r)' /\ xq_state'[r] = "Ready"
  \/ e \in Idles(r) /\ Exists(r) /\ Exists(r)' /\ xq_state'[r] = "Idle"
  \/ e \in Destroys(r) /\ Exists(r) /\ life'[r] = "gone"

EventMoves ==
  \/ \E r \in Queues : \E e \in About(r) :
       Enters(e) /\ Reports(r, e) /\ \A q \in Queues \ {r} : Steady(q)
  \/ \E e \in Others : Enters(e) /\ \A q \in Queues : Steady(q)
  \/ /\ UNCHANGED <<known, ready, device, tmp_queue>>
     /\ event_queue' \in {event_queue, OlderEvents(event_queue)}
     /\ \A q \in Queues : Steady(q)
  \/ Lone(Take)
  \/ Lone(Update)

LEMMA RelayEnters ==
  ASSUME event_queue \in Seq(Events), NEW e \in Events, RecvEvent(e), OnlyEvents
  PROVE  Enters(e)
<1>1. event_queue' = event_queue \o <<e>> BY DEF RecvEvent, RecvEvents
<1>2. Append(event_queue, e) = event_queue \o <<e>>
  <2> HIDE DEF Events
  <2> QED OBVIOUS
<1> QED BY <1>1, <1>2 DEF Enters, OnlyEvents, tableVars, workerVars

LEMMA WhatHappens ==
  ASSUME PipeType, \A q \in Queues : Fresh(q), ExecutorType, ExecutorAt, [Next]_vars
  PROVE  EventMoves
<1>1. /\ event_queue \in Seq(Events) /\ policy \in Kinds
      /\ life \in [Queues -> Stages] /\ xq_state \in [Queues -> {"Idle", "Ready"}]
  BY DEF PipeType
<1>2. \A r \in Queues :
        /\ XQueueCreate(r, DeviceOf[r]) \in Creates(r) /\ XQueueIdle(r) \in Idles(r)
        /\ XQueueDestroy(r) \in Destroys(r) /\ XQueueReady(r) \in Readies(r)
  BY AgeAssumption DEF Creates, Idles, Destroys, Readies, XQueueReady
<1>3. ASSUME NEW r \in Queues, NEW e \in About(r), RecvEvent(e), OnlyEvents, Reports(r, e),
             \A q \in Queues \ {r} : Steady(q)
      PROVE  EventMoves
  <2>1. e \in Events BY KindsApart
  <2> QED BY <1>1, <1>3, <2>1, RelayEnters DEF EventMoves
<1>4. ASSUME NEW e \in Others, RecvEvent(e), OnlyEvents, \A q \in Queues : Steady(q)
      PROVE  EventMoves
  <2>1. e \in Events BY DEF Events
  <2> QED BY <1>1, <1>4, <2>1, RelayEnters DEF EventMoves
<1>5. ASSUME UNCHANGED <<known, ready, device, tmp_queue>>, UNCHANGED event_queue,
             \A q \in Queues : Steady(q)
      PROVE  EventMoves
  BY <1>5 DEF EventMoves
<1>6. ASSUME UNCHANGED schedVars, \A q \in Queues : Steady(q) PROVE EventMoves
  BY <1>5, <1>6 DEF schedVars, tableVars, workerVars
<1>7. UNCHANGED <<life, xq_state>> => \A q \in Queues : Steady(q) BY DEF Steady
<1>8. ASSUME NEW r \in Queues, Destroyed(r) PROVE EventMoves
  <2>1. life'[r] = "gone" /\ Exists(r) /\ \A q \in Queues \ {r} : Steady(q)
    BY <1>1, <1>8 DEF Destroyed, Becomes, Steady, Exists
  <2>2. RecvEvent(XQueueDestroy(r)) /\ OnlyEvents BY <1>8 DEF Destroyed, Relay, RecvEvent
  <2>3. XQueueDestroy(r) \in About(r) BY <1>2, KindsApart
  <2> QED BY <1>2, <1>3, <2>1, <2>2, <2>3 DEF Reports
<1>16. ASSUME NEW r \in Queues, NEW now_paused, Destruct(r, now_paused), Exists(r), OnlyEvents
       PROVE  EventMoves
  <2>1. \A q \in Queues : Steady(q) BY <1>1, <1>16 DEF Destruct, Becomes, Steady, Exists
  <2> QED BY <1>5, <1>16, <2>1 DEF Destruct, OnlyEvents, tableVars, workerVars
<1>9. ASSUME NEW r \in Queues,
             \/ Create(r) \/ RelayHint(r) \/ Submit(r) \/ Complete(r) \/ ReportIdle(r)
             \/ Destroy(r) \/ DelResume(r) \/ DelResumeWorker(r) \/ DelWaitAll(r)
             \/ DelDestroyed(r)
      PROVE  EventMoves
  <2>0. /\ XQueueCreate(r, DeviceOf[r]) \in About(r) /\ XQueueIdle(r) \in About(r)
        /\ XQueueReady(r) \in About(r)
    BY <1>2, KindsApart
  <2>1. CASE Create(r)
    <3>1. life[r] = "none" /\ life'[r] = "hint" /\ UNCHANGED xq_state
      BY <1>1, <2>1 DEF Create, Becomes
    <3>2. \A q \in Queues \ {r} : Steady(q) BY <1>1, <2>1 DEF Create, Becomes, Steady
    <3>3. RecvEvent(XQueueCreate(r, DeviceOf[r])) /\ OnlyEvents
      BY <2>1 DEF Create, Relay, RecvEvent
    <3> QED BY <1>2, <1>3, <2>0, <3>1, <3>2, <3>3 DEF Reports
  <2>2. CASE RelayHint(r)
    <3>1. PICK h \in Hints(policy, r) : Relay(<<Hint(h)>>) BY <2>2 DEF RelayHint
    <3>2. Hint(h) \in Others BY <1>1, <3>1 DEF Others, Said
    <3>3. \A q \in Queues : Steady(q) BY <1>1, <2>2 DEF RelayHint, Becomes, Steady
    <3> QED BY <1>4, <3>1, <3>2, <3>3 DEF Relay, RecvEvent
  <2>3. CASE Submit(r)
    <3>1. \A q \in Queues \ {r} : Steady(q) BY <1>1, <2>3 DEF Submit, Steady
    <3>2. Exists(r) /\ Exists(r)' /\ xq_state'[r] = "Ready" /\ life'[r] = life[r]
      BY <1>1, <2>3 DEF Submit, Exists
    <3>3. CASE xq_state[r] = "Idle"
      <4>1. RecvEvent(XQueueReady(r)) /\ OnlyEvents
        BY <2>3, <3>3 DEF Submit, Relay, RecvEvent
      <4> QED BY <1>2, <1>3, <2>0, <3>1, <3>2, <4>1 DEF Reports
    <3>4. CASE xq_state[r] # "Idle"
      <4>1. Relay(<<>>) /\ Steady(r) BY <1>1, <2>3, <3>2, <3>4 DEF Submit, Steady
      <4>2. UNCHANGED event_queue
        <5>1. event_queue' = event_queue \o <<>> BY <4>1 DEF Relay, RecvEvents
        <5> HIDE DEF Events
        <5> QED BY <1>1, <5>1
      <4> QED BY <1>5, <3>1, <4>1, <4>2 DEF Relay, OnlyEvents, tableVars, workerVars
    <3> QED BY <3>3, <3>4
  <2>4. CASE ReportIdle(r)
    <3>1. \A q \in Queues \ {r} : Steady(q) BY <1>1, <2>4 DEF ReportIdle, Steady
    <3>2. Exists(r) /\ Exists(r)' /\ xq_state'[r] = "Idle"
      BY <1>1, <2>4 DEF ReportIdle, Exists
    <3>3. RecvEvent(XQueueIdle(r)) /\ OnlyEvents BY <2>4 DEF ReportIdle, Relay, RecvEvent
    <3> QED BY <1>2, <1>3, <2>0, <3>1, <3>2, <3>3 DEF Reports
  <2>5. CASE Complete(r) BY <1>6, <1>7, <2>5 DEF Complete
  <2>6. CASE Destroy(r) \/ DelResume(r) \/ DelResumeWorker(r)
    <3>1. \A q \in Queues : Steady(q)
      BY <1>1, <2>6 DEF Destroy, DelResume, DelResumeWorker, Becomes, Steady
    <3> QED BY <1>6, <2>6, <3>1 DEF Destroy, DelResume, DelResumeWorker
  <2>7. CASE DelWaitAll(r)
    <3>1. Exists(r) BY <2>7 DEF DelWaitAll, Exists
    <3>2. CASE Destruct(r, paused) /\ OnlyEvents BY <1>16, <3>1, <3>2
    <3>3. CASE Becomes(r, "released") /\ UNCHANGED <<xq_state, event_queue>> /\ OnlyEvents
      <4>1. \A q \in Queues : Steady(q) BY <1>1, <2>7, <3>3 DEF DelWaitAll, Becomes, Steady
      <4> QED BY <1>5, <3>3, <4>1 DEF OnlyEvents, tableVars, workerVars
    <3> QED BY <2>7, <3>2, <3>3 DEF DelWaitAll
  <2>8. CASE DelDestroyed(r) BY <1>8, <2>8 DEF DelDestroyed
  <2> QED BY <1>9, <2>1, <2>2, <2>3, <2>4, <2>5, <2>6, <2>7, <2>8
<1>10. CASE Executor
  <2>1. ASSUME NEW now_paused, cur # NoQueue, Release(now_paused) PROVE EventMoves
    <3>1. cur \in Queues BY <2>1 DEF ExecutorType
    <3>2. CASE life[cur] = "released" /\ Destruct(cur, now_paused)
      <4>1. Exists(cur) /\ OnlyEvents BY <2>1, <3>2 DEF Release, Exists
      <4> QED BY <1>16, <3>1, <3>2, <4>1
    <3>3. CASE UNCHANGED <<life, xq_state, event_queue>>
      BY <1>5, <1>7, <2>1, <3>3 DEF Release, OnlyEvents, tableVars, workerVars
    <3> QED BY <2>1, <3>2, <3>3 DEF Release
  <2>2. CASE Lookup BY <1>6, <1>7, <2>2 DEF Lookup, queueVars
  <2>3. CASE ExchangeFlag BY <1>6, <1>7, <2>1, <2>3 DEF ExchangeFlag
  <2>4. CASE TellWorker BY <2>1, <2>4 DEF TellWorker
  <2>5. CASE EndOperation BY <1>5, <1>7, <2>5 DEF EndOperation, tableVars, queueVars
  <2>6. CASE ExecDestroyed BY <1>8, <2>6 DEF ExecDestroyed, ExecutorType
  <2> QED BY <1>10, <2>2, <2>3, <2>4, <2>5, <2>6 DEF Executor
<1>11. CASE Lone(Worker)
  <2>1. \A q \in Queues : Steady(q) BY <1>7, <1>11 DEF Lone, queueVars
  <2>2. CASE TimerFires \/ EndRound BY <1>5, <2>1, <2>2 DEF TimerFires, EndRound, tableVars
  <2>3. CASE Round BY <1>5, <2>1, <2>3 DEF Round, entryVars
  <2> QED BY <1>11, <2>2, <2>3 DEF Lone, Worker, EventMoves
<1>12. CASE Lone(Tick)
  <2>1. \A q \in Queues : Steady(q) BY <1>7, <1>12 DEF Lone, queueVars
  <2> QED BY <1>12, <2>1 DEF Lone, Tick, EventMoves
<1>13. CASE ChangePolicy
  <2>1. PICK s \in Switches : SetPolicy(s[2]) BY <1>13 DEF ChangePolicy
  <2>2. (RecvEvent(SchedulerTerminate) /\ OnlyEvents) \/ Enters(SchedulerTerminate)
    <3>1. SchedulerTerminate \in Events BY DEF Events, Others
    <3>2. event_queue' = event_queue \o <<SchedulerTerminate>>
      BY <2>1 DEF SetPolicy, RecvEvent, RecvEvents
    <3>3. event_queue' = Append(event_queue, SchedulerTerminate)
      <4> HIDE DEF Events
      <4> QED BY <1>1, <3>1, <3>2
    <3> QED BY <2>1, <3>3 DEF SetPolicy, Enters, tableVars, workerVars
  <2>3. \A q \in Queues : Steady(q) BY <1>7, <1>13 DEF ChangePolicy, queueVars
  <2>4. SchedulerTerminate \in Others BY DEF Others
  <2> QED BY <1>4, <2>2, <2>3, <2>4 DEF EventMoves
<1>14. CASE Lone(ReplacePolicy)
  BY <1>5, <1>7, <1>14 DEF Lone, ReplacePolicy, entryVars, queueVars
<1>15. CASE Terminating \/ UNCHANGED vars
  BY <1>6, <1>7, <1>15 DEF Terminating, vars, queueVars
<1> QED BY <1>9, <1>10, <1>11, <1>12, <1>13, <1>14, <1>15 DEF Next

-----------------------------------------------------------------------------
(* Most steps leave the table and the policy as they are.                  *)
Calm ==
  /\ UNCHANGED <<tableVars, policyVars, switched>>
  /\ sched_pc' # "events" => sched_pc # "events"

LEMMA TableMoves ==
  ASSUME [Next]_vars
  PROVE  \/ Calm \/ Lone(TimerFires) \/ Lone(Update) \/ Lone(Round) \/ Lone(Tick)
         \/ Lone(ReplacePolicy)
<1>1. UNCHANGED schedVars \/ OnlyEvents => Calm
  BY DEF schedVars, OnlyEvents, workerVars, Calm
<1>2. CASE \E q \in Queues :
             \/ Create(q) \/ RelayHint(q) \/ Submit(q) \/ Complete(q) \/ ReportIdle(q)
             \/ Destroy(q) \/ DelResume(q) \/ DelResumeWorker(q) \/ DelWaitAll(q)
             \/ DelDestroyed(q)
  BY <1>1, <1>2 DEF Create, RelayHint, Submit, Complete, ReportIdle, Destroy, DelResume,
     DelResumeWorker, DelWaitAll, DelDestroyed, Destroyed, Relay
<1>3. CASE Executor
  <2>1. UNCHANGED schedVars \/ OnlyEvents \/ EndOperation
    BY <1>3 DEF Executor, Lookup, ExchangeFlag, TellWorker, Release, ExecDestroyed, Destroyed,
                Relay
  <2>2. EndOperation => Calm BY DEF EndOperation, Calm
  <2> QED BY <1>1, <2>1, <2>2
<1>4. CASE Lone(Worker)
  <2>1. Take \/ EndRound => Calm BY DEF Take, EndRound, Calm
  <2> QED BY <1>4, <2>1 DEF Lone, Worker
<1>5. CASE ChangePolicy BY <1>5 DEF ChangePolicy, SetPolicy, workerVars, Calm
<1>6. CASE Terminating \/ UNCHANGED vars BY <1>1, <1>6 DEF Terminating, vars
<1> QED BY <1>2, <1>3, <1>4, <1>5, <1>6 DEF Next

LEMMA PipeTypeStep ==
  ASSUME SystemInv, PipeType, ExecutorAt, \A q \in Queues : Fresh(q), [Next]_vars
  PROVE  PipeType'
<1>1. SchedInv /\ ExecutorType /\ Pipe /\ EventMoves
  BY WhatHappens DEF SystemInv, Pipe, PipeType
<1>2. event_queue' \in Seq(Events) /\ tmp_queue' \in Seq(Events)
  <2>1. event_queue \in Seq(Events) /\ tmp_queue \in Seq(Events) BY DEF PipeType
  <2>2. ASSUME NEW e \in Events, Enters(e)
        PROVE  event_queue' \in Seq(Events) /\ tmp_queue' \in Seq(Events)
    BY <2>1, <2>2, OneMore DEF Enters
  <2>3. Others \subseteq Events /\ \A r \in Queues : About(r) \subseteq Events BY DEF Events
  <2>4. ASSUME UNCHANGED tmp_queue, event_queue' \in {event_queue, OlderEvents(event_queue)}
        PROVE  event_queue' \in Seq(Events) /\ tmp_queue' \in Seq(Events)
    BY <2>1, <2>4, OlderSays, OlderKept
  <2>5. CASE Lone(Take)
    <3>1. event_queue' = <<>> /\ tmp_queue' = event_queue BY <2>5 DEF Lone, Take
    <3> HIDE DEF Events
    <3> QED BY <2>1, <3>1
  <2>6. CASE Lone(Update)
    <3>1. tmp_queue # <<>> /\ event_queue' = event_queue /\ tmp_queue' = Tail(tmp_queue)
      BY <2>6 DEF Lone, Update
    <3> QED BY <2>1, <3>1, OneLess
  <2> QED BY <1>1, <2>2, <2>3, <2>4, <2>5, <2>6 DEF EventMoves
<1>3. sched_pc' # "events" => tmp_queue' = <<>>
  <2>1. CASE Executor
    BY <2>1 DEF PipeType, Executor, Lookup, ExchangeFlag, TellWorker, EndOperation, Release,
                ExecDestroyed, Destroyed, Relay, OnlyEvents, workerVars, schedVars
  <2>2. CASE Lone(Worker)
    BY <2>2 DEF PipeType, Lone, Worker, Take, TimerFires, Update, Round, EndRound
  <2>3. CASE Lone(Tick) \/ Lone(ReplacePolicy) \/ ChangePolicy
    BY <2>3 DEF PipeType, Lone, Tick, ReplacePolicy, ChangePolicy, SetPolicy, workerVars
  <2>4. CASE Terminating \/ UNCHANGED vars
    BY <2>4 DEF PipeType, Terminating, vars, schedVars, workerVars
  <2>5. CASE \E q \in Queues :
               \/ Create(q) \/ RelayHint(q) \/ Submit(q) \/ Complete(q) \/ ReportIdle(q)
               \/ Destroy(q) \/ DelResume(q) \/ DelResumeWorker(q) \/ DelWaitAll(q)
               \/ DelDestroyed(q)
    <3>1. UNCHANGED workerVars
      BY <2>5 DEF Create, RelayHint, Submit, Complete, ReportIdle, Destroy, DelResume,
         DelResumeWorker, DelWaitAll, DelDestroyed, Destroyed, Relay, OnlyEvents, schedVars
    <3> QED BY <3>1 DEF PipeType, workerVars
  <2> QED BY <2>1, <2>2, <2>3, <2>4, <2>5 DEF Next
<1>4. policy' \in Kinds /\ next_policy' \in Kinds \cup {NoPolicy}
  <2>1. CASE ChangePolicy
    <3>1. PICK s \in Switches : SetPolicy(s[2]) BY <2>1 DEF ChangePolicy
    <3> QED BY <3>1 DEF SetPolicy, Kinds, PipeType, policyVars
  <2>2. CASE Lone(ReplacePolicy) BY <2>2 DEF Lone, ReplacePolicy, PipeType
  <2>3. CASE Executor
    BY <2>3 DEF PipeType, Executor, Lookup, ExchangeFlag, TellWorker, EndOperation, Release,
                ExecDestroyed, Destroyed, Relay, OnlyEvents, policyVars, schedVars
  <2>4. CASE Lone(Worker) \/ Lone(Tick)
    BY <2>4 DEF PipeType, Lone, Worker, Take, TimerFires, Update, UpdateStatus, Round, EndRound,
                Tick, policyVars
  <2>5. CASE Terminating \/ UNCHANGED vars
    BY <2>5 DEF PipeType, Terminating, vars, schedVars, policyVars
  <2>6. CASE \E q \in Queues :
               \/ Create(q) \/ RelayHint(q) \/ Submit(q) \/ Complete(q) \/ ReportIdle(q)
               \/ Destroy(q) \/ DelResume(q) \/ DelResumeWorker(q) \/ DelWaitAll(q)
               \/ DelDestroyed(q)
    <3>1. UNCHANGED <<policyVars, next_policy>>
      BY <2>6 DEF Create, RelayHint, Submit, Complete, ReportIdle, Destroy, DelResume,
         DelResumeWorker, DelWaitAll, DelDestroyed, Destroyed, Relay, OnlyEvents, schedVars
    <3> QED BY <3>1 DEF PipeType, policyVars
  <2> QED BY <2>1, <2>2, <2>3, <2>4, <2>5, <2>6 DEF Next
<1>5. EntryType'
  <2>1. CASE Lone(Update)
    <3> DEFINE e == Head(tmp_queue)
    <3>1. tmp_queue # <<>> /\ UpdateStatus(e) BY <2>1 DEF Lone, Update
    <3>2. tmp_queue \in Seq(Events) BY DEF PipeType
    <3>3. e \in Events BY <3>1, <3>2, OneLess
    <3> HIDE DEF e
    <3>4. CASE e \in Others
      <4>1. UNCHANGED <<device, age>>
        BY <3>1, <3>4, OtherEvents DEF UpdateStatus, tableVars
      <4> QED BY <4>1 DEF PipeType, EntryType
    <3>5. CASE e \notin Others
      <4>1. e.q \in Queues BY <3>3, <3>5, EventKinds
      <4> QED BY <1>1, <3>1, <3>3, <4>1, UpdateSays DEF PipeType
    <3> QED BY <3>4, <3>5
  <2>2. CASE Lone(Tick)
    <3>1. \A a \in 0 .. MaxAge : Older(a) \in 0 .. MaxAge BY AgeAssumption DEF Older
    <3> QED BY <2>2, <3>1 DEF Lone, Tick, PipeType, EntryType
  <2>3. CASE UNCHANGED <<device, age>> BY <2>3 DEF PipeType, EntryType
  <2> QED BY <2>1, <2>2, <2>3, TableMoves
           DEF Calm, Lone, TimerFires, Round, ReplacePolicy, tableVars, entryVars
<1>6. /\ life' \in [Queues -> Stages] /\ xq_state' \in [Queues -> {"Idle", "Ready"}]
      /\ suspended_flag' \in [Queues -> BOOLEAN] /\ paused' \in [Queues -> BOOLEAN]
  <2> DEFINE Typed == /\ life' \in [Queues -> Stages] /\ xq_state' \in [Queues -> {"Idle", "Ready"}]
                      /\ suspended_flag' \in [Queues -> BOOLEAN] /\ paused' \in [Queues -> BOOLEAN]
  <2>0. /\ life \in [Queues -> Stages] /\ xq_state \in [Queues -> {"Idle", "Ready"}]
        /\ suspended_flag \in [Queues -> BOOLEAN] /\ paused \in [Queues -> BOOLEAN]
    BY DEF PipeType
  <2>1. UNCHANGED <<life, xq_state, suspended_flag, paused>> => Typed BY <2>0
  <2>2. ASSUME NEW r \in Queues,
               \/ Create(r) \/ RelayHint(r) \/ Submit(r) \/ Complete(r) \/ ReportIdle(r)
               \/ Destroy(r) \/ DelResume(r) \/ DelResumeWorker(r) \/ DelWaitAll(r)
               \/ DelDestroyed(r)
        PROVE  Typed
    <3>1. CASE Create(r) \/ RelayHint(r) \/ Submit(r) \/ Complete(r) \/ ReportIdle(r) \/ Destroy(r)
      BY <2>0, <3>1 DEF Create, RelayHint, Submit, Complete, ReportIdle, Destroy, Becomes, Stages
    <3>2. CASE DelResume(r) \/ DelResumeWorker(r)
      BY <2>0, <3>2 DEF DelResume, DelResumeWorker, Becomes, Stages
    <3>3. CASE DelWaitAll(r) BY <2>0, <3>3 DEF DelWaitAll, Destruct, Becomes, Stages
    <3>4. CASE DelDestroyed(r) BY <2>0, <3>4 DEF DelDestroyed, Destroyed, Becomes, Stages
    <3> QED BY <2>2, <3>1, <3>2, <3>3, <3>4
  <2>3. ASSUME cur # NoQueue, NEW now_paused \in [Queues -> BOOLEAN], Release(now_paused)
        PROVE  Typed
    BY <2>0, <2>3 DEF Release, Destruct, Becomes, Stages
  <2>4. CASE Executor
    <3>1. CASE Lookup \/ EndOperation BY <2>1, <3>1 DEF Lookup, EndOperation, queueVars
    <3>0. Wanted \in BOOLEAN BY DEF Wanted
    <3>2. CASE ExchangeFlag
      <4>1. CASE Release(paused) BY <2>0, <2>3, <3>2, <4>1 DEF ExchangeFlag
      <4>2. CASE ~Release(paused) BY <2>0, <3>0, <3>2, <4>2 DEF ExchangeFlag
      <4> QED BY <4>1, <4>2
    <3>3. CASE TellWorker
      <4>1. [paused EXCEPT ![cur] = Wanted] \in [Queues -> BOOLEAN] BY <2>0, <3>0
      <4> QED BY <2>3, <3>3, <4>1 DEF TellWorker
    <3>4. CASE ExecDestroyed BY <2>0, <3>4 DEF ExecDestroyed, Destroyed, Becomes, Stages
    <3> QED BY <2>4, <3>1, <3>2, <3>3, <3>4 DEF Executor
  <2>5. CASE Lone(Worker) \/ Lone(Tick) \/ Lone(ReplacePolicy) \/ ChangePolicy
    BY <2>1, <2>5 DEF Lone, ChangePolicy, queueVars
  <2>6. CASE Terminating \/ UNCHANGED vars BY <2>1, <2>6 DEF Terminating, vars, queueVars
  <2> QED BY <2>2, <2>4, <2>5, <2>6 DEF Next
<1> QED BY <1>2, <1>3, <1>4, <1>5, <1>6 DEF PipeType

LEMMA HeardStep ==
  ASSUME AgreeInv, [Next]_vars, NEW q \in Queues
  PROVE  Heard(q)'
<1>1. /\ Pipe /\ EventMoves /\ Heard(q) /\ Fresh(q)
      /\ xq_state[q] \in {"Idle", "Ready"} /\ xq_state'[q] \in {"Idle", "Ready"}
  <2>1. SystemInv /\ PipeType /\ ExecutorAt /\ \A r \in Queues : Fresh(r) BY DEF AgreeInv
  <2>2. EventMoves BY <2>1, WhatHappens DEF SystemInv
  <2>3. PipeType' BY <2>1, PipeTypeStep
  <2> QED BY <2>1, <2>2, <2>3 DEF AgreeInv, Pipe, PipeType, SystemInv
<1>2. PICK s \in {"Idle", "Ready"} : s = xq_state[q] BY <1>1
<1>3. ASSUME Steady(q),
             /\ Unheard(q) => Unheard(q)'
             /\ Living(q, s) => Living(q, s)'
             /\ Forgotten(q) => Forgotten(q)'
      PROVE  Heard(q)'
  BY <1>1, <1>2, <1>3 DEF Steady, Heard, Exists
<1>4. ASSUME NEW r \in Queues, NEW e \in About(r), Enters(e), Reports(r, e),
             \A x \in Queues \ {r} : Steady(x)
      PROVE  Heard(q)'
  <2>1. CASE r # q
    <3>1. e \in Events /\ e \notin About(q) BY <1>4, <2>1, EventsAbout, KindsApart
    <3> QED BY <1>1, <1>3, <1>4, <2>1, <3>1, EntersOther
  <2>2. CASE r = q
    <3>1. /\ e \in Creates(q) /\ Unheard(q) => Living(q, "Idle")'
          /\ e \in Idles(q) /\ Living(q, s) => Living(q, "Idle")'
          /\ e \in Readies(q) /\ Living(q, s) => Living(q, "Ready")'
          /\ e \in Destroys(q) /\ Living(q, s) => Forgotten(q)'
      BY <1>1, <1>4, <2>2, EntersAbout
    <3>2. CASE /\ e \in Creates(q) /\ life[q] = "none" /\ life'[q] = "hint"
               /\ xq_state'[q] = xq_state[q]
      <4>1. Living(q, "Idle")' /\ xq_state'[q] = "Idle" BY <1>1, <3>1, <3>2 DEF Heard, Fresh
      <4> QED BY <3>2, <4>1 DEF Heard, Exists
    <3>3. Exists(q) => Living(q, s) BY <1>1, <1>2 DEF Heard
    <3>4. CASE e \in Readies(q) /\ Exists(q) /\ Exists(q)' /\ xq_state'[q] = "Ready"
      BY <3>1, <3>3, <3>4 DEF Heard, Exists
    <3>5. CASE e \in Idles(q) /\ Exists(q) /\ Exists(q)' /\ xq_state'[q] = "Idle"
      BY <3>1, <3>3, <3>5 DEF Heard, Exists
    <3>6. CASE e \in Destroys(q) /\ Exists(q) /\ life'[q] = "gone"
      BY <3>1, <3>3, <3>6 DEF Heard, Exists
    <3> QED BY <1>4, <2>2, <3>2, <3>4, <3>5, <3>6 DEF Reports
  <2> QED BY <2>1, <2>2
<1>5. ASSUME NEW e \in Others, Enters(e), Steady(q) PROVE Heard(q)'
  <2>1. e \in Events BY DEF Events
  <2>2. e \notin About(q) BY <2>1, EventKinds
  <2> QED BY <1>1, <1>3, <1>5, <2>1, <2>2, EntersOther
<1>6. CASE /\ UNCHANGED <<known, ready, device, tmp_queue>>
           /\ event_queue' \in {event_queue, OlderEvents(event_queue)}
           /\ \A x \in Queues : Steady(x)
  BY <1>1, <1>3, <1>6, EventsPass
<1>7. ASSUME Lone(Take) \/ Lone(Update) PROVE Steady(q)
  BY <1>7 DEF Lone, queueVars, Steady
<1>8. CASE Lone(Take)
  <2>1. /\ tmp_queue = <<>> /\ tmp_queue' = event_queue /\ event_queue' = <<>>
        /\ UNCHANGED <<known, ready, device>>
    BY <1>8 DEF Lone, Take, AgreeInv, PipeType, tableVars
  <2> QED BY <1>3, <1>7, <1>8, <2>1, EventsTaken
<1>9. CASE Lone(Update)
  <2>1. /\ tmp_queue # <<>> /\ tmp_queue' = Tail(tmp_queue) /\ UNCHANGED event_queue
        /\ UpdateStatus(Head(tmp_queue))
    BY <1>9 DEF Lone, Update
  <2> QED BY <1>1, <1>3, <1>7, <1>9, <2>1, EventApplied
<1> QED BY <1>1, <1>4, <1>5, <1>6, <1>8, <1>9 DEF EventMoves

-----------------------------------------------------------------------------
(* The application leaves the executor in peace ...                        *)
LEMMA QueueObeys ==
  ASSUME AgreeInv, NEW r \in Queues,
         \/ Create(r) \/ RelayHint(r) \/ Submit(r) \/ Complete(r) \/ ReportIdle(r)
         \/ Destroy(r) \/ DelResume(r) \/ DelResumeWorker(r) \/ DelWaitAll(r)
         \/ DelDestroyed(r)
  PROVE  ExecutorAt' /\ \A q \in Queues : Fresh(q)' /\ Obeys(q)'
<1>0. /\ life \in [Queues -> Stages] /\ xq_state \in [Queues -> {"Idle", "Ready"}]
      /\ suspended_flag \in [Queues -> BOOLEAN] /\ paused \in [Queues -> BOOLEAN]
      /\ cur \in Queues \cup {NoQueue} /\ NoQueue \notin Queues
      /\ suspended \subseteq known
  BY QueuesAssumption
  DEF AgreeInv, PipeType, SystemInv, ExecutorType, SchedInv, TablesAgree
<1>1. UNCHANGED <<known, suspended, ops, sched_pc, switched, done, cur, step>>
  BY DEF Create, RelayHint, Submit, Complete, ReportIdle, Destroy, DelResume, DelResumeWorker,
         DelWaitAll, DelDestroyed, Destroyed, Relay, OnlyEvents, schedVars, tableVars,
         workerVars, execVars
<1>2. /\ \A q \in Queues \ {r} :
           life'[q] = life[q] /\ xq_state'[q] = xq_state[q]
           /\ suspended_flag'[q] = suspended_flag[q] /\ paused'[q] = paused[q]
      /\ \/ life[r] = "none" /\ life'[r] = "hint"
            /\ suspended_flag'[r] = suspended_flag[r] /\ paused'[r] = paused[r]
         \/ life[r] = "hint" /\ life'[r] = "live"
            /\ suspended_flag'[r] = suspended_flag[r] /\ paused'[r] = paused[r]
         \/ life'[r] = life[r] /\ life[r] # "none"
            /\ suspended_flag'[r] = suspended_flag[r] /\ paused'[r] = paused[r]
         \/ life'[r] \in {"erased", "resuming", "waiting", "released", "destroying"}
         \/ life'[r] = "gone" /\ cur # r
  <2>1. CASE Create(r) \/ RelayHint(r) \/ Submit(r) \/ Complete(r) \/ ReportIdle(r)
    BY <1>0, <2>1 DEF Create, RelayHint, Submit, Complete, ReportIdle, Becomes, Exists
  <2>2. CASE Destroy(r) \/ DelResume(r) \/ DelResumeWorker(r)
    BY <1>0, <2>2 DEF Destroy, DelResume, DelResumeWorker, Becomes
  <2>3. CASE DelWaitAll(r)
    BY <1>0, <2>3 DEF DelWaitAll, Destruct, Becomes
  <2>4. CASE DelDestroyed(r)
    BY <1>0, <2>4 DEF DelDestroyed, Destroyed, Becomes
  <2> QED BY <2>1, <2>2, <2>3, <2>4
<1>3. ExecutorAt'
  <2>1. cur = r => life'[r] \notin {"none", "gone"}
    BY <1>0, <1>2 DEF AgreeInv, ExecutorAt, Stages
  <2> QED BY <1>0, <1>1, <1>2, <2>1 DEF AgreeInv, ExecutorAt
<1>4. ASSUME NEW q \in Queues PROVE Fresh(q)' /\ Obeys(q)'
  <2>0. Heard(q) /\ Fresh(q) /\ Obeys(q) BY DEF AgreeInv
  <2>1. CASE \/ q # r
             \/ /\ life'[q] = life[q] /\ xq_state'[q] = xq_state[q]
                /\ suspended_flag'[q] = suspended_flag[q] /\ paused'[q] = paused[q]
    BY <1>1, <1>2, <2>0, <2>1 DEF Fresh, Obeys, Registered, ToDo
  <2>2. CASE q = r /\ life[r] = "none" /\ life'[r] = "hint"
             /\ suspended_flag'[r] = suspended_flag[r] /\ paused'[r] = paused[r]
    <3>1. q \notin known /\ ~suspended_flag[q] /\ ~paused[q] /\ cur # q /\ q \notin suspended
      BY <1>0, <2>0, <2>2 DEF Heard, Unheard, Fresh, AgreeInv, ExecutorAt
    <3> QED BY <1>1, <2>2, <3>1 DEF Fresh, Obeys
  <2>3. CASE /\ q = r /\ suspended_flag'[r] = suspended_flag[r] /\ paused'[r] = paused[r]
             /\ \/ life[r] = "hint" /\ life'[r] = "live"
                \/ life'[r] = life[r] /\ life[r] # "none"
    BY <1>1, <2>0, <2>3 DEF Fresh, Obeys, Registered, ToDo
  <2>4. CASE q = r /\ life'[r] \in {"erased", "resuming", "waiting", "released", "destroying",
                                     "gone"}
    BY <2>4 DEF Fresh, Obeys, Registered
  <2> QED BY <1>2, <2>1, <2>2, <2>3, <2>4
<1> QED BY <1>3, <1>4

(* ... which executes the operations of a round ...                        *)
LEMMA ExecutorObeys ==
  ASSUME AgreeInv, Executor
  PROVE  ExecutorAt' /\ \A q \in Queues : Fresh(q)' /\ Obeys(q)'
<1>0. /\ life \in [Queues -> Stages] /\ xq_state \in [Queues -> {"Idle", "Ready"}]
      /\ suspended_flag \in [Queues -> BOOLEAN] /\ paused \in [Queues -> BOOLEAN]
      /\ cur \in Queues \cup {NoQueue} /\ NoQueue \notin Queues /\ ops \subseteq Procs
      /\ ExecutorAt /\ TablesAgree /\ suspended \subseteq known /\ known \subseteq Queues
      /\ \A q \in Queues : Heard(q) /\ Fresh(q) /\ Obeys(q)
  BY QueuesAssumption
  DEF AgreeInv, PipeType, SystemInv, ExecutorType, SchedInv, TablesAgree, TableType
<1>1. /\ \A q : q \in ToSuspend <=> ToDo(q) /\ q \in suspended
      /\ \A q : q \in ToResume <=> ToDo(q) /\ q \notin suspended
  <2>1. \A p \in ops : /\ running[p] = {q \in known \ suspended : Pid[q] = p}
                       /\ halted[p] = {q \in known \cap suspended : Pid[q] = p}
    BY <1>0 DEF TablesAgree
  <2>2. ASSUME NEW q
        PROVE  /\ q \in ToSuspend <=> ToDo(q) /\ q \in suspended
               /\ q \in ToResume <=> ToDo(q) /\ q \notin suspended
    <3>1. q \in ToSuspend <=> q \notin done /\ \E p \in ops : q \in halted[p] BY DEF ToSuspend
    <3>2. q \in ToResume <=> q \notin done /\ \E p \in ops : q \in running[p] BY DEF ToResume
    <3> QED BY <2>1, <3>1, <3>2 DEF ToDo
  <2> QED BY <2>2
<1>2. \A q \in Handles : ToDo(q) BY <1>1 DEF Handles
<1>3. Handles = {} => \A q : ~ToDo(q) BY <1>1 DEF Handles
<1>4. cur # NoQueue => cur \in Queues /\ ToDo(cur) /\ (Wanted <=> cur \in suspended)
  BY <1>0, <1>1 DEF ExecutorAt, ToDo, Wanted
<1>5. CASE Lookup
  <2>1. PICK q \in Handles : IF Registered(q) THEN cur' = q /\ UNCHANGED done
                             ELSE done' = done \cup {q} /\ UNCHANGED cur
    BY <1>5 DEF Lookup
  <2>2. /\ UNCHANGED <<known, suspended, ops, sched_pc, switched, life, xq_state,
                       suspended_flag, paused, step>>
        /\ sched_pc = "execute" /\ cur = NoQueue
    BY <1>5 DEF Lookup, schedVars, tableVars, workerVars, queueVars
  <2>3. ToDo(q) /\ q \in Queues BY <1>0, <1>2, <2>1 DEF ToDo
  <2>4. ExecutorAt'
    BY <1>0, <2>1, <2>2, <2>3 DEF ExecutorAt, ToDo, Registered
  <2>5. ASSUME NEW x \in Queues PROVE Fresh(x)' /\ Obeys(x)'
    BY <1>0, <2>1, <2>2 DEF ExecutorAt, Fresh, Obeys, ToDo, Registered
  <2> QED BY <2>4, <2>5
<1>6. ASSUME NEW now_paused, cur # NoQueue, Release(now_paused), now_paused \in [Queues -> BOOLEAN],
             \A q \in Queues \ {cur} : now_paused[q] = paused[q],
             Registered(cur) => /\ now_paused[cur] <=> suspended_flag[cur]
                                /\ suspended_flag[cur] <=> cur \in suspended
      PROVE  ExecutorAt' /\ \A q \in Queues : Fresh(q)' /\ Obeys(q)'
  <2>1. /\ UNCHANGED <<known, suspended, ops, sched_pc, switched>>
        /\ \/ cur' = NoQueue /\ step' = "flag" /\ done' = done \cup {cur}
           \/ cur' = cur /\ step' = "wait" /\ done' = done /\ life'[cur] = "destroying"
    BY <1>0, <1>6 DEF Release, Destruct, Becomes, NextHandle, OnlyEvents, tableVars, workerVars
  <2>2. ops # {} BY <1>0, <1>6 DEF ExecutorAt
  <2>3. ExecutorAt' BY <1>0, <1>6, <2>1, <2>2 DEF ExecutorAt
  <2>4. /\ \A q \in Queues \ {cur} :
             /\ life'[q] = life[q] /\ xq_state'[q] = xq_state[q]
             /\ suspended_flag'[q] = suspended_flag[q] /\ paused'[q] = paused[q]
        /\ \/ life'[cur] = "destroying"
           \/ /\ life'[cur] = life[cur] /\ xq_state'[cur] = xq_state[cur] /\ cur' = NoQueue
              /\ suspended_flag'[cur] = suspended_flag[cur] /\ paused'[cur] = now_paused[cur]
    BY <1>0, <1>6 DEF Release, Destruct, Becomes, NextHandle
  <2>5. ASSUME NEW q \in Queues PROVE Fresh(q)' /\ Obeys(q)'
    <3>1. CASE q # cur
      BY <1>0, <2>1, <2>4, <3>1 DEF Fresh, Obeys, ToDo, Registered
    <3>2. CASE q = cur /\ life'[cur] = "destroying" BY <3>2 DEF Fresh, Obeys, Registered
    <3>3. CASE q = cur /\ life'[cur] # "destroying"
      <4>1. life[cur] # "none" /\ cur \in known BY <1>0, <1>6 DEF ExecutorAt
      <4>2. q # cur' BY <1>0, <2>4, <3>3
      <4> QED BY <1>6, <2>1, <2>4, <3>3, <4>1, <4>2 DEF Fresh, Obeys, Registered
    <3> QED BY <3>1, <3>2, <3>3
  <2> QED BY <2>3, <2>5
<1>7. CASE ExchangeFlag
  <2>0. cur # NoQueue /\ step = "flag" BY <1>7 DEF ExchangeFlag
  <2>1. CASE suspended_flag[cur] = Wanted /\ Release(paused)
    <3>1. Registered(cur) => (paused[cur] <=> suspended_flag[cur])
      BY <1>0, <1>4, <2>0 DEF Obeys
    <3> QED BY <1>0, <1>4, <1>6, <2>0, <2>1, <3>1
  <2>2. CASE /\ suspended_flag[cur] # Wanted
             /\ suspended_flag' = [suspended_flag EXCEPT ![cur] = Wanted]
             /\ step' = "worker"
             /\ UNCHANGED <<schedVars, life, jobs, submitted, xq_state, paused, done, cur>>
    <3>1. UNCHANGED <<known, suspended, ops, sched_pc, switched, done, cur, life, xq_state, paused>>
      BY <2>2 DEF schedVars, tableVars, workerVars
    <3>2. ExecutorAt' BY <1>0, <2>0, <2>2, <3>1 DEF ExecutorAt
    <3>3. ASSUME NEW q \in Queues PROVE Fresh(q)' /\ Obeys(q)'
      <4>1. CASE q # cur
        <5>1. suspended_flag'[q] = suspended_flag[q] BY <1>0, <2>2, <4>1
        <5> QED BY <1>0, <3>1, <4>1, <5>1 DEF Fresh, Obeys, ToDo, Registered
      <4>2. CASE q = cur
        <5>1. suspended_flag'[q] <=> q \in suspended BY <1>0, <1>4, <2>2, <4>2
        <5>2. life[q] # "none" /\ q \in known BY <1>0, <2>0, <4>2 DEF ExecutorAt
        <5> QED BY <2>2, <3>1, <4>2, <5>1, <5>2 DEF Fresh, Obeys
      <4> QED BY <4>1, <4>2
    <3> QED BY <3>2, <3>3
  <2> QED BY <1>7, <2>1, <2>2 DEF ExchangeFlag
<1>8. CASE TellWorker
  <2>0. cur # NoQueue /\ step = "worker" /\ Release([paused EXCEPT ![cur] = Wanted])
    BY <1>8 DEF TellWorker
  <2>1. Wanted \in BOOLEAN BY DEF Wanted
  <2> DEFINE now == [paused EXCEPT ![cur] = Wanted]
  <2>2. /\ now \in [Queues -> BOOLEAN] /\ now[cur] = Wanted
        /\ \A q \in Queues \ {cur} : now[q] = paused[q]
    BY <1>0, <1>4, <2>0, <2>1
  <2>3. Registered(cur) => (suspended_flag[cur] <=> cur \in suspended)
    BY <1>0, <1>4, <2>0 DEF Obeys
  <2> HIDE DEF now
  <2>4. Registered(cur) => (now[cur] <=> suspended_flag[cur]) BY <1>4, <2>0, <2>2, <2>3
  <2>5. Release(now) BY <2>0 DEF now
  <2> QED BY <1>6, <2>0, <2>2, <2>3, <2>4, <2>5
<1>9. CASE EndOperation
  <2>1. /\ UNCHANGED <<known, suspended, sched_pc, switched, life, xq_state, suspended_flag,
                       paused, cur, step>>
        /\ cur = NoQueue /\ Handles = {} /\ ops' = {} /\ done' = {}
    BY <1>9 DEF EndOperation, tableVars, queueVars
  <2>2. ExecutorAt' BY <1>0, <2>1 DEF ExecutorAt
  <2>3. ASSUME NEW q \in Queues PROVE Fresh(q)' /\ Obeys(q)'
    BY <1>0, <1>3, <2>1 DEF Fresh, Obeys, Registered
  <2> QED BY <2>2, <2>3
<1>10. CASE ExecDestroyed
  <2>1. /\ UNCHANGED <<known, suspended, ops, sched_pc, switched, suspended_flag, paused>>
        /\ cur \in Queues /\ cur' = NoQueue /\ step' = "flag" /\ done' = done \cup {cur}
        /\ life' = [life EXCEPT ![cur] = "gone"] /\ xq_state' = [xq_state EXCEPT ![cur] = "Idle"]
    BY <1>0, <1>10
    DEF ExecDestroyed, Destroyed, Becomes, NextHandle, Relay, OnlyEvents, tableVars, workerVars
  <2>2. ops # {} BY <1>0, <2>1 DEF ExecutorAt
  <2>3. ExecutorAt' BY <1>0, <2>1, <2>2 DEF ExecutorAt
  <2>4. ASSUME NEW q \in Queues PROVE Fresh(q)' /\ Obeys(q)'
    <3>1. CASE q # cur
      <4>1. life'[q] = life[q] /\ xq_state'[q] = xq_state[q] BY <1>0, <2>1, <3>1
      <4> QED BY <1>0, <2>1, <3>1, <4>1 DEF Fresh, Obeys, ToDo, Registered
    <3>2. CASE q = cur
      <4>1. life'[q] = "gone" BY <1>0, <2>1, <3>2
      <4> QED BY <4>1 DEF Fresh, Obeys, Registered
    <3> QED BY <3>1, <3>2
  <2> QED BY <2>3, <2>4
<1> QED BY <1>5, <1>7, <1>8, <1>9, <1>10 DEF Executor

(* ... and the thread of the scheduler, which decides between them.        *)
LEMMA SchedulerObeys ==
  ASSUME AgreeInv, SchedInv',
         Lone(Worker) \/ Lone(Tick) \/ Lone(ReplacePolicy) \/ ChangePolicy
  PROVE  ExecutorAt' /\ \A q \in Queues : Fresh(q)' /\ Obeys(q)'
<1>0. /\ cur \in Queues \cup {NoQueue} /\ xq_state \in [Queues -> {"Idle", "Ready"}]
      /\ ExecutorAt /\ TablesAgree /\ suspended \subseteq known /\ known \subseteq Queues
      /\ TablesAgree' /\ suspended' \subseteq known'
      /\ \A q \in Queues : Heard(q) /\ Fresh(q) /\ Obeys(q)
  BY DEF AgreeInv, PipeType, SystemInv, ExecutorType, SchedInv, TablesAgree, TableType
<1>1. UNCHANGED <<life, xq_state, suspended_flag, paused, done, cur, step>>
  BY DEF Lone, ChangePolicy, queueVars, execVars
<1>2. \A q \in Queues : Fresh(q)' BY <1>0, <1>1 DEF Fresh
<1>3. CASE Lone(Take) \/ Lone(TimerFires) \/ Lone(EndRound) \/ Lone(Tick) \/ ChangePolicy
  <2>1. UNCHANGED <<known, suspended, ops, switched>>
    BY <1>3 DEF Lone, Take, TimerFires, EndRound, Tick, ChangePolicy, SetPolicy, tableVars,
                workerVars
  <2>2. sched_pc' = sched_pc \/ ops = {}
    BY <1>0, <1>3 DEF Lone, Take, TimerFires, EndRound, Tick, ChangePolicy, SetPolicy, workerVars,
                      ExecutorAt
  <2>3. ExecutorAt' BY <1>0, <1>1, <2>1, <2>2 DEF ExecutorAt
  <2>4. \A q \in Queues : Obeys(q)' BY <1>0, <1>1, <2>1 DEF Obeys, Registered, ToDo
  <2> QED BY <1>2, <2>3, <2>4
<1>4. CASE Lone(Update)
  <2>1. /\ tmp_queue # <<>> /\ tmp_queue' = Tail(tmp_queue) /\ UNCHANGED event_queue
        /\ UpdateStatus(Head(tmp_queue)) /\ sched_pc = "events"
        /\ UNCHANGED <<ops, switched, sched_pc>>
    BY <1>4 DEF Lone, Update
  <2>2. ops = {} /\ cur = NoQueue /\ done = {} BY <1>0, <2>1 DEF ExecutorAt
  <2>3. ExecutorAt' BY <1>0, <1>1, <2>1, <2>2 DEF ExecutorAt
  <2>4. ASSUME NEW q \in Queues, Registered(q) PROVE Obeys(q)'
    <3>1. PICK s \in {"Idle", "Ready"} : Living(q, s)
      BY <1>0, <2>4 DEF Heard, Exists, Registered
    <3>2. Pipe BY DEF AgreeInv, SystemInv, PipeType, Pipe
    <3>3. /\ q \in suspended' <=> q \in suspended
          /\ q \in known => q \in known'
      BY <2>1, <3>1, <3>2, EventApplied
    <3> QED BY <1>0, <1>1, <2>1, <2>2, <2>4, <3>3 DEF Obeys, ToDo
  <2>5. \A q \in Queues : Registered(q)' => Registered(q) BY <1>1 DEF Registered
  <2>6. \A q \in Queues : Obeys(q)'
    <3> SUFFICES ASSUME NEW q \in Queues PROVE Obeys(q)' OBVIOUS
    <3>1. CASE Registered(q) BY <2>4, <3>1
    <3>2. CASE ~Registered(q) BY <2>5, <3>2 DEF Obeys
    <3> QED BY <3>1, <3>2
  <2> QED BY <1>2, <2>3, <2>6
<1>5. CASE Lone(Round)
  <2>1. /\ sched_pc = "events" /\ sched_pc' = "execute" /\ switched' = FALSE
        /\ ops' = {p \in procs : HasQueues(p)} /\ UNCHANGED <<known, procs>>
    BY <1>5 DEF Lone, Round, entryVars
  <2>2. ops = {} /\ cur = NoQueue /\ done = {} /\ step = "flag" BY <1>0, <2>1 DEF ExecutorAt
  <2>3. ExecutorAt' BY <1>1, <2>1, <2>2 DEF ExecutorAt
  <2>4. ASSUME NEW q \in known PROVE Pid[q] \in ops'
    <3>1. Pid[q] \in Procs /\ q \in running[Pid[q]] \cup halted[Pid[q]]
      BY <1>0, <2>4, PidAssumption DEF TablesAgree
    <3> QED BY <1>0, <2>1, <3>1 DEF TablesAgree, HasQueues
  <2>5. ASSUME NEW q \in Queues PROVE Obeys(q)'
    <3>1. q \in known => ToDo(q)' BY <1>1, <2>1, <2>2, <2>4 DEF ToDo
    <3>2. q \notin known => q \notin suspended' BY <1>0, <2>1
    <3> QED BY <1>0, <1>1, <2>1, <2>2, <3>1, <3>2 DEF Obeys, Registered
  <2> QED BY <1>2, <2>3, <2>5
<1>6. CASE Lone(ReplacePolicy)
  <2>1. /\ sched_pc = "end" /\ sched_pc' = "wait" /\ switched' = TRUE
        /\ UNCHANGED <<known, ops>>
    BY <1>6 DEF Lone, ReplacePolicy, entryVars
  <2>2. ops = {} /\ cur = NoQueue /\ done = {} /\ step = "flag" BY <1>0, <2>1 DEF ExecutorAt
  <2>3. ExecutorAt' BY <1>1, <2>1, <2>2 DEF ExecutorAt
  <2>4. \A q \in Queues : Obeys(q)' BY <1>0, <1>1, <2>1, <2>2 DEF Obeys, Registered
  <2> QED BY <1>2, <2>3, <2>4
<1>7. Lone(Worker) => \/ Lone(Take) \/ Lone(TimerFires) \/ Lone(Update) \/ Lone(Round)
                      \/ Lone(EndRound)
  BY DEF Lone, Worker
<1> QED BY <1>3, <1>4, <1>5, <1>6, <1>7

LEMMA AgreeInvStep == ASSUME AgreeInv, [Next]_vars PROVE AgreeInv'
<1>1. SystemInv /\ PipeType /\ ExecutorAt /\ \A q \in Queues : Fresh(q) BY DEF AgreeInv
<1>2. SystemInv' /\ SchedInv' BY <1>1, SystemInvStep DEF SystemInv
<1>3. PipeType' BY <1>1, PipeTypeStep
<1>4. \A q \in Queues : Heard(q)' BY HeardStep
<1>5. ExecutorAt' /\ \A q \in Queues : Fresh(q)' /\ Obeys(q)'
  <2>1. CASE \E r \in Queues :
               \/ Create(r) \/ RelayHint(r) \/ Submit(r) \/ Complete(r) \/ ReportIdle(r)
               \/ Destroy(r) \/ DelResume(r) \/ DelResumeWorker(r) \/ DelWaitAll(r)
               \/ DelDestroyed(r)
    BY <2>1, QueueObeys
  <2>2. CASE Executor BY <2>2, ExecutorObeys
  <2>3. CASE Lone(Worker) \/ Lone(Tick) \/ Lone(ReplacePolicy) \/ ChangePolicy
    BY <1>2, <2>3, SchedulerObeys
  <2>4. CASE UNCHANGED vars
    <3>1. UNCHANGED <<known, suspended, ops, sched_pc, switched, life, xq_state, suspended_flag,
                      paused, done, cur, step>>
      BY <2>4 DEF vars, schedVars, tableVars, workerVars, queueVars, execVars
    <3> QED BY <3>1 DEF AgreeInv, ExecutorAt, Fresh, Obeys, Registered, ToDo
  <2> QED BY <2>1, <2>2, <2>3, <2>4 DEF Next, Terminating
<1> QED BY <1>2, <1>3, <1>4, <1>5 DEF AgreeInv

(* At rest nothing is under way, so that what was to be heard is known.    *)
LEMMA AtRestKnown ==
  ASSUME AgreeInv, AtRest, NEW q \in Queues
  PROVE  /\ q \in known <=> Exists(q)
         /\ Exists(q) => (q \in ready <=> xq_state[q] = "Ready") /\ device[q] = DeviceOf[q]
         /\ Registered(q) => /\ q \in suspended <=> paused[q]
                             /\ paused[q] = suspended_flag[q]
<1>1. /\ event_queue = <<>> /\ tmp_queue = <<>> /\ ops = {} /\ cur = NoQueue /\ ~switched
      /\ Heard(q) /\ Obeys(q)
      /\ paused \in [Queues -> BOOLEAN] /\ suspended_flag \in [Queues -> BOOLEAN]
  BY DEF AtRest, AgreeInv, PipeType, ExecutorAt
<1>2. \A A : \A b \in BOOLEAN : Settled(<<>>, <<>>, About(q), A, b) => b
  BY NoneYet DEF Settled
<1>3. Exists(q) => q \in known /\ (q \in ready <=> xq_state[q] = "Ready") /\ device[q] = DeviceOf[q]
  BY <1>1, <1>2 DEF Heard, Living
<1>4. ~Exists(q) => q \notin known
  BY <1>1, <1>2 DEF Heard, Exists, Unheard, Forgotten
<1>5. Registered(q) => /\ q \in suspended <=> paused[q]
                       /\ paused[q] = suspended_flag[q]
  <2>1. NoQueue \notin Queues BY QueuesAssumption
  <2> QED BY <1>1, <2>1 DEF Obeys, ToDo
<1> QED BY <1>3, <1>4, <1>5

(* Whatever happens at the same time, the scheduler at rest knows the      *)
(* queues there are, which of them have work and which are suspended, and  *)
(* flag and worker of each queue agree.                                    *)
THEOREM AgreeCorrect == Spec => []AgreeAtRest
<1>1. AgreeInv => AgreeAtRest
  <2> SUFFICES ASSUME AgreeInv, AtRest
               PROVE  /\ known \subseteq {q \in Queues : Exists(q)}
                      /\ \A q \in Queues : Registered(q) =>
                           /\ q \in known
                           /\ q \in ready <=> xq_state[q] = "Ready"
                           /\ q \in suspended <=> paused[q]
                           /\ paused[q] = suspended_flag[q]
    BY DEF AgreeAtRest
  <2>1. known \subseteq Queues BY DEF AgreeInv, SystemInv, SchedInv, TableType
  <2>2. \A q \in Queues : Registered(q) => Exists(q) BY DEF Registered, Exists
  <2> QED BY <2>1, <2>2, AtRestKnown
<1> QED BY <1>1, AgreeInvInit, AgreeInvStep, PTL DEF Spec

-----------------------------------------------------------------------------
(* What the policy knows: of each queue its hint, and the slice that ends. *)
ValueOf(type, hint) ==
  \/ hint = NoHint
  \/ type # "LAX" /\ hint \in Int
  \/ type = "LAX" /\ hint \in Laxities

PolicyValues ==
  /\ DOMAIN pol.hints = Queues /\ \A q \in Queues : ValueOf(policy, pol.hints[q])
  /\ pol.k \in Nat \ {0} /\ pol.cur \in Queues \cup {NoQueue} /\ pol.slice \in Nat
  /\ timers \subseteq Nat

LEMMA WhatIsSaid ==
  ASSUME NEW h \in Said
  PROVE  \/ /\ h.kind \in {"priority", "deadline", "utilization", "kdeadline"}
            /\ h.q \in Queues /\ h.value \in Int
            /\ h = [kind |-> h.kind, q |-> h.q, value |-> h.value]
         \/ h.kind = "laxity" /\ h.q \in Queues /\ h.value \in Laxities
<1>1. PICK type \in Kinds, q \in Queues : h \in Hints(type, q) BY DEF Said
<1>2. h \in [kind : {"priority", "deadline", "utilization", "kdeadline"}, q : {q}, value : Int]
            \cup [kind : {"laxity"}, q : {q}, value : Laxities]
  BY <1>1, HintsAssumption DEF Kinds
<1> QED BY <1>2

(* A hint is taken by the policy that it is for.                           *)
LEMMA HintSays ==
  ASSUME PolicyType, PolicyValues, NEW h \in Said, pol' = RecvHint(h),
         UNCHANGED <<policy, timers>>
  PROVE  /\ PolicyValues'
         /\ pol'.cur = pol.cur /\ pol'.slice = pol.slice /\ pol'.turn = pol.turn
         /\ \A q \in Queues : pol.hints[q] # NoHint => pol'.hints[q] # NoHint
         /\ \/ policy = "KEDF" /\ h.kind = "deadline"
            \/ policy = "UP" /\ h.kind = "utilization"
            => pol'.hints[h.q] # NoHint
<1>0. NoHint \notin Int /\ NoHint \notin Laxities BY HintsAssumption
<1>1. ASSUME NEW q \in Queues, NEW v, v # NoHint, ValueOf(policy, v),
             pol' = [pol EXCEPT !.hints = [pol.hints EXCEPT ![q] = v]]
      PROVE  /\ PolicyValues'
             /\ pol'.cur = pol.cur /\ pol'.slice = pol.slice /\ pol'.turn = pol.turn
             /\ \A r \in Queues : pol.hints[r] # NoHint => pol'.hints[r] # NoHint
             /\ pol'.hints[q] # NoHint
  <2>1. /\ pol'.cur = pol.cur /\ pol'.slice = pol.slice /\ pol'.turn = pol.turn
        /\ pol'.k = pol.k /\ pol'.hints = [pol.hints EXCEPT ![q] = v]
    BY <1>1 DEF PolicyType, PolicyFields
  <2>2. pol'.hints[q] = v /\ \A r \in Queues \ {q} : pol'.hints[r] = pol.hints[r]
    BY <2>1 DEF PolicyValues
  <2>3. DOMAIN pol'.hints = Queues BY <2>1 DEF PolicyValues
  <2>4. ASSUME NEW r \in Queues PROVE ValueOf(policy', pol'.hints[r])
    <3>1. pol'.hints[r] = v \/ pol'.hints[r] = pol.hints[r] BY <2>2
    <3> QED BY <1>1, <3>1 DEF PolicyValues
  <2> QED BY <1>1, <2>1, <2>2, <2>3, <2>4 DEF PolicyValues
<1>2. CASE h.kind = "priority" /\ policy \in {"HPF", "HHPF"}
  <2>0. h.q \in Queues /\ h.value \in Int /\ h = [kind |-> "priority", q |-> h.q, value |-> h.value]
    BY <1>2, WhatIsSaid
  <2> DEFINE c == [h EXCEPT !.value = Clamp(@)]
  <2>1. pol' = ForQueue(c) BY <1>2 DEF RecvHint
  <2>2. c.q = h.q /\ c.value = Clamp(h.value) BY <2>0
  <2>3. Clamp(h.value) \in Int BY <2>0, PriorityAssumption DEF Clamp
  <2> HIDE DEF c
  <2>4. pol' = [pol EXCEPT !.hints = [pol.hints EXCEPT ![h.q] = Clamp(h.value)]]
    BY <2>1, <2>2, Zenon DEF ForQueue
  <2>5. Clamp(h.value) # NoHint /\ ValueOf(policy, Clamp(h.value)) BY <1>0, <1>2, <2>3 DEF ValueOf
  <2> QED BY <1>1, <1>2, <2>0, <2>4, <2>5
<1>3. CASE \/ h.kind = "laxity" /\ policy = "LAX"
           \/ h.kind = "deadline" /\ policy = "KEDF"
           \/ h.kind = "utilization" /\ policy = "UP"
  <2>1. h.q \in Queues /\ h.value # NoHint /\ ValueOf(policy, h.value)
    BY <1>0, <1>3, WhatIsSaid DEF ValueOf
  <2>2. pol' = ForQueue(h) BY <1>3 DEF RecvHint
  <2>3. pol' = [pol EXCEPT !.hints = [pol.hints EXCEPT ![h.q] = h.value]]
    BY <2>2, Zenon DEF ForQueue
  <2> QED BY <1>1, <2>1, <2>3
<1>4. CASE h.kind = "kdeadline" /\ policy = "KEDF" /\ h.value >= 1
  <2>1. h.value \in Int BY <1>4, WhatIsSaid
  <2>2. pol' = [pol EXCEPT !.k = h.value] BY <1>4 DEF RecvHint
  <2>3. h.value \in Nat \ {0} BY <1>4, <2>1
  <2>4. /\ pol'.cur = pol.cur /\ pol'.slice = pol.slice /\ pol'.turn = pol.turn
        /\ pol'.k = h.value /\ pol'.hints = pol.hints
    BY <2>2 DEF PolicyType, PolicyFields
  <2> QED BY <1>4, <2>3, <2>4 DEF PolicyValues, ValueOf
<1>5. CASE pol' = pol /\ ~ (h.kind = "deadline" /\ policy = "KEDF")
                      /\ ~ (h.kind = "utilization" /\ policy = "UP")
  BY <1>5 DEF PolicyValues, ValueOf
<1>6. h.kind # "window" BY WhatIsSaid
<1> QED BY <1>2, <1>3, <1>4, <1>5, <1>6 DEF RecvHint

-----------------------------------------------------------------------------
(* What a round decides holds until the next event or change of policy.    *)
RoundOver == sched_pc # "events" /\ ~switched

(* UP: the queue whose turn it is runs, and its slice has an end.          *)
OnTurn(over) ==
  pol.cur # NoQueue =>
    /\ pol.cur \notin suspended /\ pol.hints[pol.cur] # NoHint
    /\ over \/ pol.slice > 0 => pol.slice \in timers

LEMMA UPSays ==
  ASSUME SchedInv, PolicyValues, UNCHANGED <<entryVars, policy>>, policy = "UP",
         OnTurn(FALSE), UPSched
  PROVE  /\ PolicyValues' /\ OnTurn(TRUE)'
         /\ (\E q \in ready : pol.hints[q] # NoHint) => \E r \in ready : r \notin suspended'
<1> DEFINE hints == [q \in Queues |-> IF q \in known THEN pol.hints[q] ELSE NoHint]
           kept  == IF pol.cur \in known THEN pol.cur ELSE NoQueue
           now   == [pol EXCEPT !.hints = hints, !.cur = kept]
           utils == {q \in known : hints[q] # NoHint}
           next  == (utils \cap ready) \ {kept}
           Typed(p) == /\ DOMAIN p = PolicyFields /\ p.hints = hints /\ p.k = pol.k
                       /\ p.slice = pol.slice
           OneRuns == \E r \in ready : r \notin suspended'
<1>0. /\ known \subseteq Queues /\ ready \subseteq known /\ suspended \subseteq known
      /\ NoQueue \notin Queues /\ Queues \subseteq Nat
  BY QueuesAssumption DEF SchedInv, TableType, TablesAgree
<1>1. Typed(now) /\ now.cur = kept BY DEF SchedInv, PolicyType, PolicyFields
<1>2. DOMAIN hints = Queues /\ \A q \in Queues : ValueOf("UP", hints[q])
  BY DEF PolicyValues, ValueOf
<1>3. next \subseteq utils \cap ready /\ next \subseteq Nat /\ utils \subseteq known BY <1>0
<1>4. (\E q \in ready : pol.hints[q] # NoHint) => utils \cap ready # {} BY <1>0
<1>5. kept # NoQueue => kept = pol.cur /\ kept \in utils /\ kept \notin suspended
  BY <1>0 DEF OnTurn
<1>6. \/ utils = {} /\ KeepAll /\ pol' = now /\ UNCHANGED timers
      \/ utils # {} /\ kept = NoQueue /\ SwitchToAny(utils, now)
      \/ /\ kept # NoQueue /\ pol.slice > 0 /\ kept \in ready
         /\ KeepAll /\ pol' = now /\ UNCHANGED timers
      \/ next # {} /\ SwitchTo(NextInOrder(kept, next), now)
      \/ /\ kept # NoQueue /\ next = {} /\ KeepAll /\ pol' = [now EXCEPT !.cur = NoQueue]
         /\ UNCHANGED timers
  BY DEF UPSched
<1>7. /\ pol.k \in Nat \ {0} /\ pol.slice \in Nat /\ timers \subseteq Nat
      /\ pol.cur \in Queues \cup {NoQueue}
  BY DEF PolicyValues
<1>8. \A q \in Queues : hints[q] # NoHint <=> q \in utils BY HintsAssumption
<1> HIDE DEF hints, now, utils, next, kept
<1>9. ASSUME NEW q \in utils \cap ready, SwitchTo(q, now)
      PROVE  PolicyValues' /\ OnTurn(TRUE)' /\ OneRuns
  <2>1. /\ pol' = [[now EXCEPT !.cur = q] EXCEPT !.slice = SliceTicks]
        /\ timers' = timers \cup {SliceTicks}
    BY <1>9 DEF SwitchTo, StartSlice
  <2>2. pol'.hints = hints /\ pol'.k = pol.k /\ pol'.slice = SliceTicks /\ pol'.cur = q
    BY <1>1, <2>1 DEF PolicyFields
  <2>3. suspended' = (suspended \ {q}) \cup (known \ {q}) BY <1>9 DEF SwitchTo, Assign
  <2>4. q \in Queues /\ hints[q] # NoHint BY <1>0, <1>3, <1>8
  <2> QED BY <1>2, <1>7, <1>9, <2>1, <2>2, <2>3, <2>4, SliceAssumption DEF PolicyValues, OnTurn
<1>10. ASSUME NEW p, Typed(p), p.cur \in {kept, NoQueue}, pol' = p, UNCHANGED timers,
              p.cur # NoQueue => kept \notin suspended' /\ pol.slice > 0
       PROVE  PolicyValues' /\ OnTurn(TRUE)'
  <2>1. pol'.cur \in Queues \cup {NoQueue} BY <1>0, <1>3, <1>5, <1>10
  <2>2. OnTurn(TRUE)' BY <1>0, <1>3, <1>5, <1>8, <1>10 DEF OnTurn
  <2> QED BY <1>2, <1>7, <1>10, <2>1, <2>2 DEF PolicyValues
<1>11. CASE utils = {} /\ KeepAll /\ pol' = now /\ UNCHANGED timers
  BY <1>1, <1>4, <1>5, <1>10, <1>11
<1>12. CASE utils # {} /\ kept = NoQueue /\ SwitchToAny(utils, now)
  <2>1. CASE \E q \in utils \cap ready : SwitchTo(q, now) BY <1>9, <2>1
  <2>2. CASE /\ utils \cap ready = {} /\ pol' = [now EXCEPT !.cur = NoQueue] /\ UNCHANGED timers
    <3>1. Typed([now EXCEPT !.cur = NoQueue]) /\ [now EXCEPT !.cur = NoQueue].cur = NoQueue
      BY <1>1 DEF PolicyFields
    <3> QED BY <1>4, <1>10, <2>2, <3>1
  <2> QED BY <1>12, <2>1, <2>2 DEF SwitchToAny
<1>13. CASE /\ kept # NoQueue /\ pol.slice > 0 /\ kept \in ready
            /\ KeepAll /\ pol' = now /\ UNCHANGED timers
  <2>1. suspended' = suspended BY <1>13 DEF KeepAll, markVars
  <2> QED BY <1>1, <1>5, <1>10, <1>13, <2>1
<1>14. CASE next # {} /\ SwitchTo(NextInOrder(kept, next), now)
  <2> DEFINE later == {r \in next : r > kept}
             among == IF \E r \in next : r > kept THEN later ELSE next
  <2>1. among \subseteq next /\ among # {} BY <1>14
  <2>2. NextInOrder(kept, next) = Least(among) BY DEF NextInOrder
  <2> HIDE DEF among
  <2>3. NextInOrder(kept, next) \in utils \cap ready BY <1>3, <2>1, <2>2, LeastIn
  <2> QED BY <1>9, <1>14, <2>3
<1>15. CASE /\ kept # NoQueue /\ next = {} /\ KeepAll /\ pol' = [now EXCEPT !.cur = NoQueue]
            /\ UNCHANGED timers
  <2>1. Typed([now EXCEPT !.cur = NoQueue]) /\ [now EXCEPT !.cur = NoQueue].cur = NoQueue
    BY <1>1 DEF PolicyFields
  <2>2. suspended' = suspended BY <1>15 DEF KeepAll, markVars
  <2>3. utils \cap ready # {} => kept \in ready BY <1>15 DEF next
  <2>4. (\E q \in ready : pol.hints[q] # NoHint) => OneRuns
    BY <1>4, <1>5, <1>15, <2>2, <2>3
  <2> QED BY <1>10, <1>15, <2>1, <2>4
<1> QED BY <1>6, <1>11, <1>12, <1>13, <1>14, <1>15

(* The ready queue that ranks highest is not suspended.                    *)
LEMMA RanksAreNumbers ==
  ASSUME PolicyValues
  PROVE  /\ policy # "LAX" => \A q \in Queues : Priorities[q] \in Int
         /\ policy = "LAX" => \A q \in Queues : LaxPriority(q) \in Int
<1> SUFFICES ASSUME NEW q \in Queues
             PROVE  /\ policy # "LAX" => Priority(q) \in Int
                    /\ policy = "LAX" => LaxPriority(q) \in Int
  BY DEF Priorities
<1>1. ValueOf(policy, pol.hints[q]) BY DEF PolicyValues
<1>2. policy # "LAX" => Priority(q) \in Int BY <1>1 DEF ValueOf, Priority
<1>3. policy = "LAX" => LaxPriority(q) \in Int BY <1>1 DEF ValueOf, LaxPriority, Laxities
<1> QED BY <1>2, <1>3

(* The queues that rank lower are suspended; LAX has a timer set for each  *)
(* queue that is to become critical.                                       *)
Ranked ==
  /\ policy = "HPF" => suspended = OutrankedOnDevice(Priorities)
  /\ policy = "HHPF" => suspended = Outranked(Priorities)
  /\ policy = "LAX" /\ 0 \notin timers =>
       /\ suspended = Relaxed
       /\ \A q \in ready : Lax(q) => \E t \in timers : t <= pol.hints[q].lax - age[q]

(* Of the ready queues that are a choice, one is not suspended.  (Of LAX   *)
(* this follows from Ranked, see LaxConserves.)                            *)
Conserves ==
  policy # "LAX" /\ (\E q \in ready : policy \in {"KEDF", "UP"} => pol.hints[q] # NoHint) =>
    \E r \in ready : r \notin suspended

LEMMA RanksSay ==
  ASSUME SchedInv, EntryType, PolicyValues, IsFiniteSet(known), UNCHANGED <<entryVars, policy>>,
         \/ policy = "HPF" /\ HPFSched
         \/ policy = "HHPF" /\ HHPFSched
         \/ policy = "CHPF" /\ CHPFSched
         \/ policy = "LAX" /\ LAXSched
  PROVE  PolicyValues' /\ Ranked' /\ Conserves'
<1>0. /\ known \subseteq Queues /\ ready \subseteq known /\ suspended \subseteq known
      /\ UNCHANGED <<known, ready, device, age, policy>> /\ timers \subseteq Nat
  BY DEF SchedInv, TableType, TablesAgree, entryVars, PolicyValues
<1>1. pol' = pol \/ \E os : pol' = [pol EXCEPT !.os = os]
  BY DEF HPFSched, HHPFSched, CHPFSched, LAXSched
<1>2. /\ pol'.hints = pol.hints /\ pol'.k = pol.k /\ pol'.cur = pol.cur
      /\ pol'.slice = pol.slice
  BY <1>1 DEF SchedInv, PolicyType, PolicyFields
<1>8. Priorities' = Priorities BY <1>2 DEF Priorities, Priority
<1>9. timers' \subseteq Nat => PolicyValues' BY <1>0, <1>2 DEF PolicyValues
<1>3. ASSUME NEW f, \A q \in Queues : f[q] \in Int, NEW S, suspended' = S,
             \/ S \subseteq {q \in known : \E r \in ready : f[r] > f[q]}
      PROVE  Conserves'
  <2> SUFFICES ASSUME NEW q \in ready PROVE \E r \in ready : r \notin suspended'
    BY <1>0 DEF Conserves
  <2>1. IsFiniteSet(ready) /\ \A x \in ready : f[x] \in Int BY <1>0, <1>3, FS_Subset
  <2>2. PICK r \in ready : \A y \in ready : f[y] <= f[r] BY <2>1, Highest
  <2>3. r \notin S BY <1>3, <2>1, <2>2
  <2> QED BY <1>3, <2>3
<1>4. CASE policy = "HPF" /\ HPFSched
  <2>1. OutrankedOnDevice(Priorities) \in SUBSET known BY DEF OutrankedOnDevice
  <2>2. suspended' = OutrankedOnDevice(Priorities) /\ timers' = timers
    BY <1>0, <1>4, <2>1, SuspendsThese DEF HPFSched
  <2>3. OutrankedOnDevice(Priorities)' = OutrankedOnDevice(Priorities)
    BY <1>0, <1>8 DEF OutrankedOnDevice
  <2>4. Conserves'
    <3>1. \A q \in Queues : Priorities[q] \in Int BY <1>4, RanksAreNumbers
    <3>2. OutrankedOnDevice(Priorities) \subseteq
            {q \in known : \E r \in ready : Priorities[r] > Priorities[q]}
      BY DEF OutrankedOnDevice
    <3> QED BY <1>3, <2>2, <3>1, <3>2
  <2> QED BY <1>0, <1>4, <1>9, <2>2, <2>3, <2>4 DEF Ranked
<1>5. CASE policy = "HHPF" /\ HHPFSched
  <2>1. Outranked(Priorities) \in SUBSET known BY DEF Outranked
  <2>2. suspended' = Outranked(Priorities) /\ timers' = timers
    BY <1>0, <1>5, <2>1, SuspendsThese DEF HHPFSched
  <2>3. Outranked(Priorities)' = Outranked(Priorities) BY <1>0, <1>8 DEF Outranked
  <2>4. Conserves'
    <3>1. \A q \in Queues : Priorities[q] \in Int BY <1>5, RanksAreNumbers
    <3> QED BY <1>3, <2>2, <3>1 DEF Outranked
  <2> QED BY <1>0, <1>5, <1>9, <2>2, <2>3, <2>4 DEF Ranked
<1>6. CASE policy = "CHPF" /\ CHPFSched
  <2>1. PICK os : /\ SuspendOnly(OutrankedOnDevice(PidPrio(os))) /\ UNCHANGED timers
                  /\ \A q \in Queues : PidPrio(os)[q] \in Int
    BY <1>6, CHPFReads
  <2>2. OutrankedOnDevice(PidPrio(os)) \in SUBSET known BY DEF OutrankedOnDevice
  <2>3. suspended' = OutrankedOnDevice(PidPrio(os)) BY <1>0, <2>1, <2>2, SuspendsThese
  <2>4. OutrankedOnDevice(PidPrio(os)) \subseteq
          {q \in known : \E r \in ready : PidPrio(os)[r] > PidPrio(os)[q]}
    BY DEF OutrankedOnDevice
  <2>5. Conserves' BY <1>3, <2>1, <2>3, <2>4
  <2> QED BY <1>0, <1>6, <1>9, <2>1, <2>5 DEF Ranked
<1>7. CASE policy = "LAX" /\ LAXSched
  <2> DEFINE waiting == {pol.hints[q].lax - age[q] : q \in {r \in ready : Lax(r)}}
             prio == [q \in Queues |-> LaxPriority(q)]
  <2>1. Relaxed \in SUBSET known BY DEF Relaxed, Outranked
  <2>2. /\ suspended' = Relaxed
        /\ timers' = IF waiting = {} THEN timers ELSE timers \cup {Least(waiting)}
    BY <1>0, <1>7, <2>1, SuspendsThese DEF LAXSched
  <2>3. \A q \in Queues : LaxPriority(q)' = LaxPriority(q) /\ (Lax(q)' <=> Lax(q))
    BY <1>0, <1>2 DEF LaxPriority, Lax
  <2>4. Relaxed' = Relaxed
    <3>1. prio' = prio BY <2>3
    <3>2. Outranked(prio)' = Outranked(prio) BY <1>0, <3>1 DEF Outranked
    <3>3. {q \in known : LaxPriority(q) < PriorityMin}' =
            {q \in known : LaxPriority(q) < PriorityMin}
      BY <1>0, <2>3
    <3> QED BY <3>2, <3>3 DEF Relaxed
  <2>5. waiting \subseteq Nat
    <3> SUFFICES ASSUME NEW q \in ready, Lax(q) PROVE pol.hints[q].lax - age[q] \in Nat
      OBVIOUS
    <3>1. ValueOf("LAX", pol.hints[q]) /\ age[q] \in Nat
      BY <1>0, <1>7, AgeAssumption DEF PolicyValues, EntryType
    <3>2. pol.hints[q].lax \in Int /\ age[q] < pol.hints[q].lax
      BY <3>1 DEF ValueOf, Lax, Laxities
    <3> QED BY <3>1, <3>2
  <2>6. waiting # {} => Least(waiting) \in Nat /\ \A t \in waiting : Least(waiting) <= t
    <3> HIDE DEF waiting
    <3> QED BY <2>5, LeastIn
  <2>7. \A q \in ready : Lax(q) => pol.hints[q].lax - age[q] \in waiting OBVIOUS
  <2>8. \A q \in ready : Lax(q) => \E t \in timers' : t <= pol.hints[q].lax - age[q]
    <3> HIDE DEF waiting
    <3> QED BY <2>2, <2>6, <2>7
  <2>9. timers' \subseteq Nat
    <3> HIDE DEF waiting
    <3> QED BY <1>0, <2>2, <2>6
  <2>10. Ranked' BY <1>0, <1>2, <1>7, <2>2, <2>3, <2>4, <2>8 DEF Ranked
  <2> QED BY <1>0, <1>7, <1>9, <2>9, <2>10 DEF Conserves
<1> QED BY <1>4, <1>5, <1>6, <1>7

(* LAX: of the ready queues it does not refuse, the one that ranks highest *)
(* runs.                                                                   *)
LEMMA LaxConserves ==
  ASSUME PolicyValues, policy = "LAX", suspended = Relaxed, IsFiniteSet(ready),
         ready \subseteq Queues, NEW q \in ready, LaxPriority(q) >= PriorityMin
  PROVE  \E r \in ready : r \notin suspended
<1> DEFINE prio == [x \in Queues |-> LaxPriority(x)]
<1>1. \A x \in ready : prio[x] \in Int /\ prio[x] = LaxPriority(x) BY RanksAreNumbers
<1>2. prio[q] >= PriorityMin BY <1>1
<1>3. Relaxed = Outranked(prio) \cup {x \in known : LaxPriority(x) < PriorityMin}
  BY DEF Relaxed
<1> HIDE DEF prio
<1>4. PICK r \in ready : \A y \in ready : prio[y] <= prio[r] BY <1>1, Highest
<1>5. prio[r] \in Int /\ prio[q] \in Int /\ prio[q] <= prio[r] BY <1>1, <1>4
<1>6. r \notin Outranked(prio) BY <1>1, <1>4 DEF Outranked
<1>7. ~ (LaxPriority(r) < PriorityMin) BY <1>1, <1>2, <1>5, PriorityAssumption
<1> QED BY <1>3, <1>6, <1>7

(* KEDF: k queues run, and no queue that is suspended is due before one of *)
(* them.                                                                   *)
DueFirst ==
  /\ Cardinality(known \ suspended) = Least({pol.k, Cardinality(known)})
  /\ \A q \in known \ suspended, r \in suspended : ~DueBefore(r, q)

LEMMA DeadlinesSay ==
  ASSUME SchedInv, PolicyValues, IsFiniteSet(known), UNCHANGED <<entryVars, policy>>,
         policy = "KEDF", KEDFSched
  PROVE  UNCHANGED <<pol, timers>> /\ DueFirst' /\ Conserves'
<1>0. /\ known \subseteq Queues /\ ready \subseteq known /\ suspended \subseteq known
      /\ UNCHANGED <<known, ready, device, age, policy>>
  BY DEF SchedInv, TableType, TablesAgree, entryVars
<1>1. UNCHANGED <<pol, timers>> BY DEF KEDFSched
<1>2. PICK R \in SUBSET known :
        /\ Cardinality(R) = Least({pol.k, Cardinality(known)})
        /\ \A q \in R, r \in known \ R : ~DueBefore(r, q)
        /\ Assign(R, known \ R)
  BY DEF KEDFSched
<1>3. suspended' = known \ R /\ known \ suspended' = R BY <1>0, <1>2 DEF Assign
<1>4. \A q, r : DueBefore(r, q)' <=> DueBefore(r, q) BY <1>0, <1>1 DEF DueBefore, HasDeadline
<1>5. DueFirst' BY <1>0, <1>1, <1>2, <1>3, <1>4 DEF DueFirst
<1>6. Conserves'
  <2>0. known' = known /\ ready' = ready /\ pol' = pol BY <1>0, <1>1
  <2> SUFFICES ASSUME NEW q \in ready, pol.hints[q] # NoHint
               PROVE  \E r \in ready : r \in R
    BY <1>0, <1>3, <2>0 DEF Conserves
  <2>1. CASE q \in R BY <2>1
  <2>2. CASE q \notin R
    <3>1. Cardinality(known) \in Nat \ {0} /\ pol.k \in Nat \ {0}
      BY <1>0, FS_EmptySet, FS_CardinalityType DEF PolicyValues
    <3>2. Least({pol.k, Cardinality(known)}) \in {pol.k, Cardinality(known)}
      BY <3>1, LeastIn
    <3>3. R # {} BY <1>2, <3>1, <3>2, FS_EmptySet
    <3>4. PICK r \in R : TRUE BY <3>3
    <3>5. ~DueBefore(q, r) BY <1>0, <1>2, <2>2, <3>4
    <3>6. r \in ready BY <3>5 DEF DueBefore, HasDeadline
    <3> QED BY <3>4, <3>6
  <2> QED BY <2>1, <2>2
<1> QED BY <1>1, <1>5, <1>6

LEMMA WindowsSay ==
  ASSUME SchedInv, UNCHANGED <<entryVars, policy>>, policy = "AWF", AWFSched
  PROVE  UNCHANGED <<pol, timers>> /\ Conserves'
<1> DEFINE inactive == {q \in known : Pid[q] \notin pol.active}
           S == IF ready \subseteq inactive THEN {} ELSE inactive
<1>1. S \in SUBSET known /\ suspended \subseteq known /\ UNCHANGED ready
  BY DEF SchedInv, TablesAgree, entryVars
<1>2. SuspendOnly(S) /\ UNCHANGED <<pol, timers>> BY DEF AWFSched
<1>3. suspended' = S BY <1>1, <1>2, SuspendsThese
<1> QED BY <1>1, <1>2, <1>3 DEF Conserves

(* PUP: the process whose turn it is has no queue that is suspended, and   *)
(* it is ready when the turn goes to it.                                   *)
TurnRuns == \A p \in Procs : p = pol.turn => halted[p] = {}

LEMMA SwitchProcessSays ==
  ASSUME SchedInv, PolicyValues, UNCHANGED <<entryVars, policy>>, NEW queue \in Seq(Procs),
         Len(queue) >= 1, ProcessReady(queue[1]), \A i \in 2 .. Len(queue) : queue[i] # queue[1],
         SwitchProcess(queue)
  PROVE  PolicyValues' /\ TurnRuns' /\ Conserves'
<1> DEFINE others == {queue[i] : i \in 2 .. Len(queue)}
           p == queue[1]
           R == halted[p]
           S == UNION {running[x] : x \in others}
<1>1. Len(queue) \in Nat /\ \A i \in 1 .. Len(queue) : queue[i] \in Procs OBVIOUS
<1>2. p \in Procs /\ others \subseteq Procs /\ p \notin others
  <2>1. 1 \in 1 .. Len(queue) BY <1>1
  <2>2. \A i \in 2 .. Len(queue) : i \in 1 .. Len(queue) BY <1>1
  <2> QED BY <1>1, <2>1, <2>2
<1>3. \A x \in Procs : /\ halted[x] = {q \in known \cap suspended : Pid[q] = x}
                       /\ running[x] = {q \in known \ suspended : Pid[q] = x}
                       /\ running[x] \cup halted[x] # {} => x \in procs
  BY DEF SchedInv, TablesAgree
<1>4. UNCHANGED <<known, ready, procs>> BY DEF entryVars
<1> HIDE DEF others
<1>5. Assign(R, S) BY DEF SwitchProcess, others
<1>6. S \cap QueuesOf(p) = {} BY <1>2, <1>3 DEF QueuesOf
<1>7. PICK r \in running[p] \cup halted[p] : r \in ready BY DEF ProcessReady
<1>8. p \in procs BY <1>2, <1>3, <1>7
<1>9. halted'[p] = {}
  <2>1. halted'[p] = (halted[p] \ R) \cup (S \cap QueuesOf(p)) BY <1>2, <1>5, <1>8 DEF Assign
  <2> QED BY <1>6, <2>1
<1>10. r \notin suspended'
  <2>1. suspended' = (suspended \ R) \cup S BY <1>5 DEF Assign
  <2>2. r \notin S
    <3>1. r \in known /\ Pid[r] = p BY <1>2, <1>3, <1>7
    <3>2. known \subseteq Queues BY DEF SchedInv, TableType
    <3> QED BY <1>6, <3>1, <3>2 DEF QueuesOf
  <2>3. r \in suspended => r \in R BY <1>2, <1>3, <1>7
  <2> QED BY <2>1, <2>2, <2>3
<1> HIDE DEF p, R, S
<1>11. /\ pol' = [[pol EXCEPT !.queue = queue, !.turn = p] EXCEPT !.slice = SliceTicks]
       /\ timers' = timers \cup {SliceTicks}
  BY DEF SwitchProcess, StartSlice, p
<1>12. /\ pol'.hints = pol.hints /\ pol'.k = pol.k /\ pol'.cur = pol.cur
       /\ pol'.slice = SliceTicks /\ pol'.turn = p
  BY <1>11 DEF SchedInv, PolicyType, PolicyFields
<1>13. PolicyValues' BY <1>11, <1>12, SliceAssumption DEF PolicyValues, ValueOf
<1> QED BY <1>4, <1>7, <1>9, <1>10, <1>12, <1>13 DEF TurnRuns, Conserves

LEMMA TurnsSay ==
  ASSUME SchedInv, PolicyValues, UNCHANGED <<entryVars, policy>>, policy = "PUP", TurnRuns, PUPSched
  PROVE  PolicyValues' /\ TurnRuns' /\ Conserves'
<1> DEFINE Turn(queue) == IF pol.turn \in ToSet(queue) THEN pol.turn ELSE NoPid
           Stays(queue) == /\ Head(queue) = Turn(queue) /\ pol.slice > 0
                           /\ ProcessReady(Head(queue))
           Requeued(queue) == Append(Tail(queue), Head(queue))
<1>1. PICK queue \in Refreshed(pol.queue) :
        \/ /\ \/ \A i \in DOMAIN queue : ~ProcessReady(queue[i])
              \/ queue # <<>> /\ Stays(queue)
           /\ KeepAll /\ pol' = [pol EXCEPT !.queue = queue, !.turn = Turn(queue)]
           /\ UNCHANGED timers
        \/ /\ \E i \in DOMAIN queue : ProcessReady(queue[i])
           /\ \/ SwitchProcess(Turned(queue))
              \/ SwitchProcess(Turned(Requeued(queue)))
  BY DEF PUPSched
<1>2. queue \in Seq(Procs) BY RefreshedType DEF SchedInv
<1>3. Distinct(queue) /\ \A p \in procs : HasQueues(p) => \E i \in DOMAIN queue : queue[i] = p
  BY RefreshedAll DEF SchedInv
<1>4. /\ \A x \in Procs : /\ halted[x] = {q \in known \cap suspended : Pid[q] = x}
                          /\ running[x] = {q \in known \ suspended : Pid[q] = x}
                          /\ running[x] \cup halted[x] # {} => x \in procs
      /\ ready \subseteq known /\ known \subseteq Queues
  BY DEF SchedInv, TablesAgree, TableType
<1>5. CASE /\ \/ \A i \in DOMAIN queue : ~ProcessReady(queue[i])
              \/ queue # <<>> /\ Stays(queue)
           /\ KeepAll /\ pol' = [pol EXCEPT !.queue = queue, !.turn = Turn(queue)]
           /\ UNCHANGED timers
  <2>1. /\ pol'.hints = pol.hints /\ pol'.k = pol.k /\ pol'.cur = pol.cur
        /\ pol'.slice = pol.slice /\ pol'.turn = Turn(queue)
    BY <1>5 DEF SchedInv, PolicyType, PolicyFields
  <2>2. PolicyValues' BY <1>5, <2>1 DEF PolicyValues, ValueOf
  <2>3. TurnRuns' BY <1>5, <2>1, PidAssumption DEF TurnRuns, KeepAll, markVars
  <2>4. suspended' = suspended /\ ready' = ready BY <1>5 DEF KeepAll, markVars, entryVars
  <2>5. ASSUME NEW q \in ready PROVE \E r \in ready : r \notin suspended
    <3>1. /\ Pid[q] \in Procs /\ q \in running[Pid[q]] \cup halted[Pid[q]] /\ Pid[q] \in procs
      BY <1>4, PidAssumption
    <3>2. PICK i \in DOMAIN queue : queue[i] = Pid[q] BY <1>3, <3>1 DEF HasQueues
    <3>3. ProcessReady(queue[i]) BY <3>1, <3>2 DEF ProcessReady
    <3>4. Stays(queue) /\ queue # <<>> BY <1>5, <3>3
    <3>5. Head(queue) \in Procs /\ Head(queue) = pol.turn
      BY <1>2, <3>4, HeadTailProperties, PidAssumption
    <3>6. PICK r \in running[Head(queue)] \cup halted[Head(queue)] : r \in ready
      BY <3>4 DEF ProcessReady
    <3>7. r \in running[Head(queue)] BY <3>5, <3>6 DEF TurnRuns
    <3> QED BY <1>4, <3>5, <3>6, <3>7
  <2> QED BY <2>2, <2>3, <2>4, <2>5 DEF Conserves
<1>6. CASE /\ \E i \in DOMAIN queue : ProcessReady(queue[i])
           /\ SwitchProcess(Turned(queue))
  BY <1>2, <1>3, <1>6, TurnedFirst, SwitchProcessSays
<1>7. CASE /\ \E i \in DOMAIN queue : ProcessReady(queue[i])
           /\ SwitchProcess(Turned(Requeued(queue)))
  <2>1. /\ Requeued(queue) \in Seq(Procs) /\ Distinct(Requeued(queue))
        /\ \E i \in DOMAIN Requeued(queue) : ProcessReady(Requeued(queue)[i])
    BY <1>2, <1>3, <1>7, Rotated
  <2> HIDE DEF Last
  <2> QED BY <1>7, <2>1, TurnedFirst, SwitchProcessSays
<1> QED BY <1>1, <1>5, <1>6, <1>7

(* UP forgets the hints of the queues that are gone, and no other.         *)
LEMMA UPHints ==
  ASSUME PolicyType, UPSched
  PROVE  pol'.hints = [q \in Queues |-> IF q \in known THEN pol.hints[q] ELSE NoHint]
<1> DEFINE hints == [q \in Queues |-> IF q \in known THEN pol.hints[q] ELSE NoHint]
           kept  == IF pol.cur \in known THEN pol.cur ELSE NoQueue
           now   == [pol EXCEPT !.hints = hints, !.cur = kept]
           utils == {q \in known : hints[q] # NoHint}
           next  == (utils \cap ready) \ {kept}
<1>1. DOMAIN now = PolicyFields /\ now.hints = hints BY DEF PolicyType, PolicyFields
<1>2. \/ pol' = now \/ pol' = [now EXCEPT !.cur = NoQueue]
      \/ SwitchToAny(utils, now) \/ SwitchTo(NextInOrder(kept, next), now)
  BY DEF UPSched
<1> HIDE DEF now, utils, next, kept, hints
<1>3. \/ pol' = now \/ pol' = [now EXCEPT !.cur = NoQueue]
      \/ \E q : pol' = [[now EXCEPT !.cur = q] EXCEPT !.slice = SliceTicks]
  BY <1>2 DEF SwitchToAny, SwitchTo, StartSlice
<1>4. pol'.hints = hints BY <1>1, <1>3 DEF PolicyFields
<1> QED BY <1>4 DEF hints

-----------------------------------------------------------------------------
(* From a round to the next event the table is what the policy decided.    *)
Decisions ==
  /\ Ranked /\ Conserves
  /\ policy = "KEDF" => DueFirst

PolicyInv ==
  /\ PolicyValues /\ IsFiniteSet(known)
  /\ policy = "UP" => OnTurn(RoundOver)
  /\ policy = "PUP" => TurnRuns
  /\ RoundOver => Decisions

LEMMA PolicyInvInit == Init => PolicyInv
<1> SUFFICES ASSUME Init PROVE PolicyInv OBVIOUS
<1>1. /\ known = {} /\ ready = {} /\ suspended = {} /\ pol = CreatePolicy /\ timers = {}
      /\ \A p \in Procs : halted[p] = {}
  BY DEF Init, SchedInit
<1>2. /\ DOMAIN pol.hints = Queues /\ \A q \in Queues : pol.hints[q] = NoHint
      /\ pol.k = 1 /\ pol.cur = NoQueue /\ pol.slice = 0 /\ pol.turn = NoPid
  BY <1>1 DEF CreatePolicy
<1>3. PolicyValues BY <1>1, <1>2 DEF PolicyValues, ValueOf
<1>4. Cardinality(known) = 0 /\ IsFiniteSet(known) /\ Cardinality(known \ suspended) = 0
  BY <1>1, FS_EmptySet
<1>5. Least({pol.k, Cardinality(known)}) = 0
  <2> DEFINE S == {pol.k, Cardinality(known)}
  <2>1. S = {0, 1} BY <1>2, <1>4
  <2>2. S \subseteq Nat /\ S # {} BY <2>1
  <2> HIDE DEF S
  <2>3. Least(S) \in S /\ Least(S) <= 0 BY <2>1, <2>2, LeastIn
  <2>4. Least(S) = 0 BY <2>1, <2>3
  <2> QED BY <2>4 DEF S
<1>6. DueFirst BY <1>1, <1>4, <1>5 DEF DueFirst
<1>7. Ranked BY <1>1 DEF Ranked, OutrankedOnDevice, Outranked, Relaxed
<1> QED BY <1>1, <1>2, <1>3, <1>4, <1>6, <1>7 DEF PolicyInv, OnTurn, TurnRuns, Decisions, Conserves

LEMMA KnownFinite ==
  ASSUME IsFiniteSet(known), NEW e, UpdateStatus(e)
  PROVE  IsFiniteSet(known')
<1>1. ASSUME NEW q, known' = known \cup {q} PROVE IsFiniteSet(known')
  BY <1>1, FS_AddElement
<1>2. ASSUME known' \subseteq known PROVE IsFiniteSet(known') BY <1>2, FS_Subset
<1>3. CASE \E q : known' = known \cup {q} BY <1>1, <1>3
<1>4. (\E q : known' = known \cup {q}) \/ known' \subseteq known
  BY DEF UpdateStatus, Configured, BecomesReady, BecomesIdle, CreateXQueueStatus, DestroyXQueue,
         DestroyProcess, Forget, tableVars
<1> QED BY <1>2, <1>3, <1>4

LEMMA RoundDecides ==
  ASSUME AgreeInv, PolicyInv, Lone(Round)
  PROVE  PolicyInv'
<1>1. /\ SchedInv /\ EntryType /\ PolicyValues /\ IsFiniteSet(known)
      /\ policy = "UP" => OnTurn(FALSE)
      /\ policy = "PUP" => TurnRuns
  BY DEF AgreeInv, SystemInv, PipeType, PolicyInv, OnTurn
<1>2. UNCHANGED <<entryVars, policy>> /\ Sched BY DEF Lone, Round
<1>3. IsFiniteSet(known') BY <1>1, <1>2 DEF entryVars
<1>4. OnTurn(TRUE)' => OnTurn(RoundOver)' BY DEF OnTurn
<1>5. policy = "KEDF" \/ policy = "AWF" \/ policy = "UP" \/ policy = "PUP" => Ranked'
  BY <1>2 DEF Ranked
<1>6. CASE \/ policy = "HPF" /\ HPFSched
           \/ policy = "HHPF" /\ HHPFSched
           \/ policy = "CHPF" /\ CHPFSched
           \/ policy = "LAX" /\ LAXSched
  <2>1. PolicyValues' /\ Ranked' /\ Conserves' BY <1>1, <1>2, <1>6, RanksSay
  <2> QED BY <1>2, <1>3, <1>6, <2>1 DEF PolicyInv, Decisions
<1>7. CASE policy = "KEDF" /\ KEDFSched
  <2>1. UNCHANGED <<pol, timers>> /\ DueFirst' /\ Conserves' BY <1>1, <1>2, <1>7, DeadlinesSay
  <2>2. PolicyValues' BY <1>1, <1>2, <2>1 DEF PolicyValues
  <2> QED BY <1>2, <1>3, <1>5, <1>7, <2>1, <2>2 DEF PolicyInv, Decisions
<1>8. CASE policy = "AWF" /\ AWFSched
  <2>1. UNCHANGED <<pol, timers>> /\ Conserves' BY <1>1, <1>2, <1>8, WindowsSay
  <2>2. PolicyValues' BY <1>1, <1>2, <2>1 DEF PolicyValues
  <2> QED BY <1>2, <1>3, <1>5, <1>8, <2>1, <2>2 DEF PolicyInv, Decisions
<1>9. CASE policy = "UP" /\ UPSched
  <2>1. /\ PolicyValues' /\ OnTurn(TRUE)'
        /\ (\E q \in ready : pol.hints[q] # NoHint) => \E r \in ready : r \notin suspended'
    BY <1>1, <1>2, <1>9, UPSays
  <2>2. \A q \in ready : pol'.hints[q] # NoHint => pol.hints[q] # NoHint
    <3>1. pol'.hints = [q \in Queues |-> IF q \in known THEN pol.hints[q] ELSE NoHint]
      BY <1>1, <1>9, UPHints DEF SchedInv
    <3>2. ready \subseteq Queues BY <1>1 DEF SchedInv, TableType, TablesAgree
    <3> QED BY <3>1, <3>2
  <2>3. Conserves' BY <1>2, <1>9, <2>1, <2>2 DEF Conserves, entryVars
  <2> QED BY <1>2, <1>3, <1>4, <1>5, <1>9, <2>1, <2>3 DEF PolicyInv, Decisions
<1>10. CASE policy = "PUP" /\ PUPSched
  <2>1. PolicyValues' /\ TurnRuns' /\ Conserves' BY <1>1, <1>2, <1>10, TurnsSay
  <2> QED BY <1>2, <1>3, <1>5, <1>10, <2>1 DEF PolicyInv, Decisions
<1>11. \/ policy = "HPF" /\ HPFSched
       \/ policy = "HHPF" /\ HHPFSched
       \/ policy = "CHPF" /\ CHPFSched
       \/ policy = "LAX" /\ LAXSched
       \/ policy = "KEDF" /\ KEDFSched
       \/ policy = "AWF" /\ AWFSched
       \/ policy = "UP" /\ UPSched
       \/ policy = "PUP" /\ PUPSched
  BY <1>2 DEF Sched
<1> QED BY <1>6, <1>7, <1>8, <1>9, <1>10, <1>11

(* Time changes what the policies compare only where a timer is due.       *)
LEMMA TickDecides ==
  ASSUME AgreeInv, PolicyInv, Lone(Tick)
  PROVE  PolicyInv'
<1>1. /\ UNCHANGED <<known, ready, suspended, device, halted, policy, sched_pc, switched>>
      /\ policy = "KEDF" => MaxAge \notin AgesShown
      /\ age' = IF policy \in {"KEDF", "LAX"}
                THEN [q \in Queues |-> IF q \in ready THEN Older(age[q]) ELSE age[q]] ELSE age
      /\ pol' = [pol EXCEPT !.slice = IF @ > 0 THEN @ - 1 ELSE 0]
      /\ timers' = {IF t > 0 THEN t - 1 ELSE 0 : t \in timers}
  BY DEF Lone, Tick, Aged
<1>2. /\ SchedInv /\ EntryType /\ PolicyType /\ PolicyValues /\ ready \subseteq known
      /\ known \subseteq Queues
  BY DEF AgreeInv, SystemInv, PipeType, PolicyInv, SchedInv, TablesAgree, TableType
<1>3. /\ pol'.hints = pol.hints /\ pol'.k = pol.k /\ pol'.cur = pol.cur /\ pol'.turn = pol.turn
      /\ pol'.slice = IF pol.slice > 0 THEN pol.slice - 1 ELSE 0
  BY <1>1, <1>2 DEF PolicyType, PolicyFields
<1>4. timers \subseteq Nat /\ pol.slice \in Nat BY <1>2 DEF PolicyValues
<1>5. PolicyValues'
  <2>1. timers' \subseteq Nat BY <1>1, <1>4
  <2> QED BY <1>1, <1>2, <1>3, <2>1 DEF PolicyValues
<1>6. RoundOver' <=> RoundOver BY <1>1 DEF RoundOver
<1>7. ASSUME policy = "UP" PROVE OnTurn(RoundOver)'
  <2>1. pol.slice \in timers => pol'.slice \in timers' BY <1>1, <1>3
  <2>2. pol'.slice > 0 => pol.slice > 0 BY <1>3, <1>4
  <2>3. OnTurn(RoundOver) BY <1>7 DEF PolicyInv
  <2> QED BY <1>1, <1>3, <1>6, <2>1, <2>2, <2>3 DEF OnTurn
<1>8. policy = "PUP" => TurnRuns' BY <1>1, <1>3 DEF PolicyInv, TurnRuns
<1>9. ASSUME Conserves PROVE Conserves' BY <1>1, <1>3, <1>9 DEF Conserves
<1>10. ASSUME Ranked PROVE Ranked'
  <2>1. CASE policy # "LAX"
    <3>1. Priorities' = Priorities BY <1>3 DEF Priorities, Priority
    <3>2. /\ OutrankedOnDevice(Priorities)' = OutrankedOnDevice(Priorities)
          /\ Outranked(Priorities)' = Outranked(Priorities)
      BY <1>1, <3>1 DEF OutrankedOnDevice, Outranked
    <3> QED BY <1>1, <1>10, <2>1, <3>2 DEF Ranked
  <2>2. CASE policy = "LAX" /\ 0 \in timers'
    BY <1>1, <2>2 DEF Ranked
  <2>3. CASE policy = "LAX" /\ 0 \notin timers'
    <3>1. \A t \in timers : t > 1 /\ t - 1 \in timers' BY <1>1, <1>4, <2>3
    <3>2. /\ suspended = Relaxed
          /\ \A q \in ready : Lax(q) => \E t \in timers : t <= pol.hints[q].lax - age[q]
      BY <1>4, <1>10, <2>3, <3>1 DEF Ranked
    <3>3. ASSUME NEW q \in ready
          PROVE  /\ pol.hints[q] # NoHint => pol.hints[q].lax \in Int
                 /\ age[q] \in Nat /\ age'[q] \in {age[q], age[q] + 1} /\ q \in Queues
      <4>1. q \in Queues /\ age[q] \in 0 .. MaxAge BY <1>2 DEF EntryType
      <4>2. age'[q] = Older(age[q]) BY <1>1, <2>3, <4>1
      <4>3. ValueOf("LAX", pol.hints[q]) BY <1>2, <2>3, <4>1 DEF PolicyValues
      <4>4. pol.hints[q] # NoHint => pol.hints[q].lax \in Int BY <4>3 DEF ValueOf, Laxities
      <4> QED BY <4>1, <4>2, <4>4, AgeAssumption DEF Older
    <3>4. ASSUME NEW q \in ready, Lax(q)
          PROVE  Lax(q)' /\ \E t \in timers' : t <= pol'.hints[q].lax - age'[q]
      <4>1. PICK t \in timers : t <= pol.hints[q].lax - age[q] BY <3>2, <3>4
      <4>2. pol.hints[q] # NoHint /\ pol.hints[q].lax \in Int BY <3>3, <3>4 DEF Lax
      <4>3. t - 1 <= pol.hints[q].lax - age'[q] /\ age'[q] < pol.hints[q].lax
        BY <1>4, <3>1, <3>3, <4>1, <4>2
      <4> QED BY <1>3, <3>1, <4>2, <4>3 DEF Lax
    <3>5. ASSUME NEW q \in ready, Lax(q)' PROVE Lax(q)
      <4>1. pol.hints[q] # NoHint /\ age'[q] < pol.hints[q].lax BY <1>3, <3>5 DEF Lax
      <4>2. age[q] < pol.hints[q].lax BY <3>3, <4>1
      <4> QED BY <4>1, <4>2 DEF Lax
    <3>6. \A q \in Queues : LaxPriority(q)' = LaxPriority(q)
      BY <1>1, <1>3, <3>4, <3>5 DEF LaxPriority
    <3>7. Relaxed' = Relaxed
      <4> DEFINE prio == [q \in Queues |-> LaxPriority(q)]
      <4>1. prio' = prio BY <3>6
      <4>2. Outranked(prio)' = Outranked(prio) BY <1>1, <4>1 DEF Outranked
      <4>3. {q \in known : LaxPriority(q) < PriorityMin}' =
              {q \in known : LaxPriority(q) < PriorityMin}
        BY <1>1, <1>2, <3>6
      <4> QED BY <4>2, <4>3 DEF Relaxed
    <3> QED BY <1>1, <2>3, <3>2, <3>4, <3>5, <3>7 DEF Ranked
  <2> QED BY <2>1, <2>2, <2>3
<1>11. ASSUME policy = "KEDF", DueFirst PROVE DueFirst'
  <2>1. ASSUME NEW q \in ready PROVE age[q] \in Int /\ age'[q] = age[q] + 1
    <3>1. q \in Queues /\ age[q] \in 0 .. MaxAge BY <1>2, <2>1 DEF EntryType
    <3>2. age[q] # MaxAge BY <1>1, <1>11, <2>1 DEF AgesShown
    <3>3. age'[q] = Older(age[q]) BY <1>1, <1>11, <2>1, <3>1
    <3> QED BY <3>1, <3>2, <3>3, AgeAssumption DEF Older
  <2>2. \A q \in ready : pol.hints[q] # NoHint => pol.hints[q] \in Int
    BY <1>2, <1>11 DEF PolicyValues, ValueOf
  <2>3. \A q : HasDeadline(q)' <=> HasDeadline(q) BY <1>1, <1>3 DEF HasDeadline
  <2>4. ASSUME NEW q, NEW r, HasDeadline(q), HasDeadline(r)
        PROVE  pol'.hints[q] - age'[q] < pol'.hints[r] - age'[r]
                 <=> pol.hints[q] - age[q] < pol.hints[r] - age[r]
    BY <1>3, <2>1, <2>2, <2>4 DEF HasDeadline
  <2>5. \A q, r : DueBefore(q, r)' <=> DueBefore(q, r) BY <2>3, <2>4 DEF DueBefore
  <2> QED BY <1>1, <1>3, <1>11, <2>5 DEF DueFirst
<1> QED BY <1>1, <1>5, <1>6, <1>7, <1>8, <1>9, <1>10, <1>11 DEF PolicyInv, Decisions

LEMMA PolicyInvStep == ASSUME AgreeInv, PolicyInv, [Next]_vars PROVE PolicyInv'
<1>1. /\ SchedInv /\ EntryType /\ PolicyType /\ PolicyValues /\ IsFiniteSet(known)
      /\ TablesAgree /\ TableType /\ tmp_queue \in Seq(Events)
  BY DEF AgreeInv, SystemInv, PipeType, PolicyInv, SchedInv
<1>2. CASE Calm
  <2>1. /\ UNCHANGED <<known, ready, suspended, device, age, halted, policy, pol, timers>>
        /\ RoundOver' => RoundOver
    BY <1>2 DEF Calm, tableVars, policyVars, RoundOver
  <2>2. PolicyValues' BY <1>1, <2>1 DEF PolicyValues
  <2>3. policy = "UP" => OnTurn(RoundOver)' BY <2>1 DEF PolicyInv, OnTurn
  <2>4. policy = "PUP" => TurnRuns' BY <2>1 DEF PolicyInv, TurnRuns
  <2>5. Conserves' <=> Conserves BY <2>1 DEF Conserves
  <2>6. DueFirst' <=> DueFirst BY <2>1 DEF DueFirst, DueBefore, HasDeadline
  <2>7. Ranked' <=> Ranked
    <3>1. Priorities' = Priorities /\ Relaxed' = Relaxed /\ \A q : Lax(q)' <=> Lax(q)
      BY <2>1 DEF Priorities, Priority, Relaxed, Outranked, LaxPriority, Lax
    <3>2. /\ OutrankedOnDevice(Priorities)' = OutrankedOnDevice(Priorities)
          /\ Outranked(Priorities)' = Outranked(Priorities)
      BY <2>1, <3>1 DEF OutrankedOnDevice, Outranked
    <3> QED BY <2>1, <3>1, <3>2 DEF Ranked
  <2> QED BY <1>1, <2>1, <2>2, <2>3, <2>4, <2>5, <2>6, <2>7 DEF PolicyInv, Decisions
<1>3. CASE Lone(TimerFires)
  <2>1. /\ UNCHANGED <<known, suspended, halted, policy, pol>> /\ timers' = timers \ {0}
        /\ ~RoundOver'
    BY <1>3 DEF Lone, TimerFires, tableVars, RoundOver
  <2>2. PolicyValues' BY <1>1, <2>1 DEF PolicyValues
  <2>3. policy = "UP" => OnTurn(RoundOver)' BY <2>1 DEF PolicyInv, OnTurn
  <2> QED BY <1>1, <2>1, <2>2, <2>3 DEF PolicyInv, TurnRuns
<1>4. CASE Lone(Update)
  <2> DEFINE e == Head(tmp_queue)
  <2>1. UpdateStatus(e) /\ tmp_queue # <<>> /\ ~RoundOver' BY <1>4 DEF Lone, Update, RoundOver
  <2>2. e \in Events BY <1>1, <2>1, OneLess
  <2> HIDE DEF e
  <2>3. UNCHANGED <<policy, timers>> /\ pol' = IF e.type = "hint" THEN RecvHint(e.hint) ELSE pol
    BY <2>1 DEF UpdateStatus
  <2>4. /\ PolicyValues'
        /\ pol'.cur = pol.cur /\ pol'.slice = pol.slice /\ pol'.turn = pol.turn
        /\ \A q \in Queues : pol.hints[q] # NoHint => pol'.hints[q] # NoHint
    <3>1. CASE e.type = "hint"
      <4>1. e \in Others BY <2>2, <3>1, EventKinds, EventsAbout
      <4>2. e.hint \in Said BY <3>1, <4>1, OtherEvents
      <4> QED BY <1>1, <2>3, <3>1, <4>2, HintSays
    <3>2. CASE e.type # "hint" BY <1>1, <2>3, <3>2 DEF PolicyValues
    <3> QED BY <3>1, <3>2
  <2>5. suspended' \subseteq suspended /\ \A p \in Procs : halted'[p] \subseteq halted[p]
    <3>1. suspended' \subseteq suspended
      BY <2>1 DEF UpdateStatus, Configured, BecomesReady, BecomesIdle, CreateXQueueStatus,
             DestroyXQueue, DestroyProcess, Forget, tableVars
    <3>2. \/ UNCHANGED halted
          \/ \E q : halted' = [halted EXCEPT ![Pid[q]] = @ \ {q}]
          \/ \E p : halted' = [halted EXCEPT ![p] = {}]
      BY <2>1 DEF UpdateStatus, Configured, BecomesReady, BecomesIdle, CreateXQueueStatus,
             DestroyXQueue, DestroyProcess, tableVars
    <3>3. DOMAIN halted = Procs BY <1>1 DEF TableType
    <3> QED BY <3>1, <3>2, <3>3
  <2>6. IsFiniteSet(known') BY <1>1, <2>1, KnownFinite
  <2>7. policy = "UP" => OnTurn(RoundOver)'
    <3>1. pol.cur \in Queues \cup {NoQueue} BY <1>1 DEF PolicyValues
    <3> QED BY <2>1, <2>3, <2>4, <2>5, <3>1 DEF PolicyInv, OnTurn
  <2>8. policy = "PUP" => TurnRuns' BY <2>4, <2>5 DEF PolicyInv, TurnRuns
  <2> QED BY <2>1, <2>3, <2>4, <2>6, <2>7, <2>8 DEF PolicyInv
<1>5. CASE Lone(Round) BY <1>5, RoundDecides
<1>6. CASE Lone(Tick) BY <1>6, TickDecides
<1>7. CASE Lone(ReplacePolicy)
  <2>1. /\ UNCHANGED known /\ pol' = CreatePolicy /\ timers' = {} /\ ~RoundOver'
    BY <1>7 DEF Lone, ReplacePolicy, entryVars, RoundOver
  <2>2. /\ DOMAIN pol'.hints = Queues /\ \A q \in Queues : pol'.hints[q] = NoHint
        /\ pol'.k = 1 /\ pol'.cur = NoQueue /\ pol'.slice = 0 /\ pol'.turn = NoPid
    BY <2>1 DEF CreatePolicy
  <2> QED BY <1>1, <2>1, <2>2, PidAssumption DEF PolicyInv, PolicyValues, ValueOf, OnTurn, TurnRuns
<1> QED BY <1>2, <1>3, <1>4, <1>5, <1>6, <1>7, TableMoves

-----------------------------------------------------------------------------
RulesInv == AgreeInv /\ PolicyInv

LEMMA RulesInvKept == Spec => []RulesInv
<1>1. Init => RulesInv BY AgreeInvInit, PolicyInvInit DEF RulesInv
<1>2. RulesInv /\ [Next]_vars => RulesInv' BY AgreeInvStep, PolicyInvStep DEF RulesInv
<1> QED BY <1>1, <1>2, PTL DEF Spec

LEMMA AtRestDecided == RulesInv /\ AtRest => Decisions /\ RoundOver /\ 0 \notin timers
  BY DEF RulesInv, PolicyInv, AtRest, RoundOver

(* HPF, HHPF and LAX: at rest the workers that are paused are those the    *)
(* priorities say, whatever was reported, and in whatever order, before.   *)
(* A priority below PriorityMin, as PRIORITY_NO_EXECUTE is, keeps a queue  *)
(* from being executed under LAX, and under LAX only.                      *)
THEOREM PrioritiesRule == Spec => []PriorityRules
<1>1. RulesInv => PriorityRules
  <2> SUFFICES ASSUME RulesInv, AtRest, policy \in {"HPF", "HHPF", "LAX"},
                      NEW q \in Queues, Registered(q)
               PROVE  paused[q] <=>
                        \/ Refused(q)
                        \/ \E r \in Queues : /\ Exists(r) /\ xq_state[r] = "Ready"
                                             /\ policy = "HPF" => DeviceOf[r] = DeviceOf[q]
                                             /\ Rank(r) > Rank(q)
    BY DEF PriorityRules
  <2>1. /\ AgreeInv /\ Ranked /\ 0 \notin timers /\ PolicyValues
        /\ ready \subseteq known /\ known \subseteq Queues
    BY AtRestDecided
    DEF RulesInv, PolicyInv, Decisions, AgreeInv, SystemInv, SchedInv, TableType, TablesAgree
  <2>2. Exists(q) /\ q \in known /\ device[q] = DeviceOf[q] /\ (q \in suspended <=> paused[q])
    BY <2>1, AtRestKnown DEF Registered, Exists
  <2>3. \A r : r \in ready <=> r \in Queues /\ Exists(r) /\ xq_state[r] = "Ready"
    BY <2>1, AtRestKnown
  <2>4. \A r \in ready : device[r] = DeviceOf[r] BY <2>1, <2>3, AtRestKnown
  <2>5. \A r \in Queues : Priorities[r] = Priority(r) BY DEF Priorities
  <2>6. CASE policy = "HPF"
    <3>1. suspended = OutrankedOnDevice(Priorities) BY <2>1, <2>6 DEF Ranked
    <3>2. q \in suspended <=>
            \E r \in ready : device[r] = device[q] /\ Priorities[r] > Priorities[q]
      BY <2>2, <3>1 DEF OutrankedOnDevice
    <3>3. \A r \in Queues : Rank(r) = Priorities[r] BY <2>5, <2>6 DEF Rank
    <3>4. q \in suspended <=> \E r \in Queues :
            /\ Exists(r) /\ xq_state[r] = "Ready"
            /\ policy = "HPF" => DeviceOf[r] = DeviceOf[q]
            /\ Rank(r) > Rank(q)
      BY <2>2, <2>3, <2>4, <2>6, <3>2, <3>3
    <3> QED BY <2>2, <2>6, <3>4 DEF Refused
  <2>7. CASE policy = "HHPF"
    <3>1. suspended = Outranked(Priorities) BY <2>1, <2>7 DEF Ranked
    <3>2. q \in suspended <=> \E r \in ready : Priorities[r] > Priorities[q]
      BY <2>2, <3>1 DEF Outranked
    <3>3. \A r \in Queues : Rank(r) = Priorities[r] BY <2>5, <2>7 DEF Rank
    <3>4. q \in suspended <=> \E r \in Queues :
            /\ Exists(r) /\ xq_state[r] = "Ready"
            /\ policy = "HPF" => DeviceOf[r] = DeviceOf[q]
            /\ Rank(r) > Rank(q)
      BY <2>3, <2>7, <3>2, <3>3
    <3> QED BY <2>2, <2>7, <3>4 DEF Refused
  <2>8. CASE policy = "LAX"
    <3>1. suspended = Relaxed BY <2>1, <2>8 DEF Ranked
    <3>2. q \in suspended <=> \/ LaxPriority(q) < PriorityMin
                              \/ \E r \in ready : LaxPriority(r) > LaxPriority(q)
      <4>1. q \in suspended <=> \/ q \in Outranked([x \in Queues |-> LaxPriority(x)])
                                \/ LaxPriority(q) < PriorityMin
        BY <2>2, <3>1 DEF Relaxed
      <4>2. ready \subseteq Queues BY <2>1
      <4> QED BY <2>2, <4>1, <4>2 DEF Outranked
    <3>3. \A r \in Queues : Rank(r) = LaxPriority(r) BY <2>8 DEF Rank
    <3>4. \A r : r \in ready /\ LaxPriority(r) > LaxPriority(q) <=>
                   /\ r \in Queues /\ Exists(r) /\ xq_state[r] = "Ready"
                   /\ policy = "HPF" => DeviceOf[r] = DeviceOf[q]
                   /\ Rank(r) > Rank(q)
      <4>1. policy # "HPF" /\ \A r \in ready : Rank(r) = LaxPriority(r) BY <2>1, <2>8, <3>3
      <4>2. Rank(q) = LaxPriority(q) BY <3>3
      <4> QED BY <2>3, <4>1, <4>2, Zenon
    <3>5. Refused(q) <=> LaxPriority(q) < PriorityMin BY <2>8, <3>3 DEF Refused
    <3> QED BY <2>2, <3>2, <3>4, <3>5, Zenon
  <2> QED BY <2>6, <2>7, <2>8
<1> QED BY <1>1, RulesInvKept, PTL

(* KEDF: at rest as many queues run as K allows, and none of those that do *)
(* not is due before one of them.                                          *)
THEOREM EarliestCorrect == Spec => []EarliestRun
<1>1. RulesInv => EarliestRun
  <2> SUFFICES ASSUME RulesInv, AtRest, policy = "KEDF", \A q \in known : Registered(q)
               PROVE  /\ Cardinality({q \in known : ~paused[q]}) =
                           Least({pol.k, Cardinality(known)})
                      /\ \A q, r \in known : paused[q] /\ ~paused[r] => ~DueBefore(q, r)
    BY DEF EarliestRun
  <2>1. /\ AgreeInv /\ DueFirst /\ known \subseteq Queues /\ suspended \subseteq known
    BY AtRestDecided DEF RulesInv, Decisions, AgreeInv, SystemInv, SchedInv, TableType, TablesAgree
  <2>2. \A q \in known : q \in suspended <=> paused[q] BY <2>1, AtRestKnown
  <2>3. {q \in known : ~paused[q]} = known \ suspended BY <2>2
  <2> QED BY <2>1, <2>2, <2>3 DEF DueFirst
<1> QED BY <1>1, RulesInvKept, PTL

(* UP: whatever the queue whose turn it is does, a timer ends its slice,   *)
(* and until then it is not suspended.                                     *)
THEOREM SlicesEnd == Spec => []SliceEnds
<1>1. RulesInv => SliceEnds
  <2> SUFFICES ASSUME RulesInv, AtRest, policy = "UP", pol.cur # NoQueue, Registered(pol.cur)
               PROVE  ~paused[pol.cur] /\ (\E t \in timers : t <= pol.slice)
    BY DEF SliceEnds
  <2>1. /\ AgreeInv /\ RoundOver /\ PolicyValues /\ OnTurn(RoundOver)
    BY AtRestDecided DEF RulesInv, PolicyInv
  <2>2. pol.cur \in Queues /\ pol.slice \in Nat BY <2>1 DEF PolicyValues
  <2>3. pol.cur \in suspended <=> paused[pol.cur] BY <2>1, <2>2, AtRestKnown
  <2> QED BY <2>1, <2>2, <2>3 DEF OnTurn
<1> QED BY <1>1, RulesInvKept, PTL

-----------------------------------------------------------------------------
(* KEDF and UP never choose a queue that nobody told them of.  The         *)
(* application tells them of each, and they are there from the beginning.  *)
ToldOf ==
  /\ \A q \in Queues : /\ \A h \in Hints("KEDF", q) : h.kind = "deadline"
                       /\ \A h \in Hints("UP", q) : h.kind = "utilization"
  /\ \A s \in Switches : s[2] \notin {"KEDF", "UP"}

SaidOf(type, q) == {Hint(h) : h \in Hints(type, q)}
Hearing(type, q) == Creates(q) \cup SaidOf(type, q)

(* The hint is on its way behind the creation, or known to the policy.     *)
Hinted(type, q) ==
  Settled(event_queue, tmp_queue, Hearing(type, q), SaidOf(type, q), pol.hints[q] # NoHint)

WorkInv ==
  /\ next_policy \in {NoPolicy} \cup {s[2] : s \in Switches}
  /\ jobs \in [Queues -> Nat]
  /\ \A q \in Queues : /\ jobs[q] > 0 => xq_state[q] = "Ready"
                       /\ life[q] \in {"released", "destroying"} => jobs[q] = 0
  /\ \A type \in {"KEDF", "UP"}, q \in Queues :
       policy = type /\ life[q] = "live" => Hinted(type, q)

LEMMA WorkInvInit == Init => WorkInv
  BY DEF Init, SchedInit, WorkInv

LEMMA JobsStep ==
  ASSUME AgreeInv, WorkInv, [Next]_vars
  PROVE  /\ next_policy' \in {NoPolicy} \cup {s[2] : s \in Switches}
         /\ jobs' \in [Queues -> Nat]
         /\ \A q \in Queues : /\ jobs'[q] > 0 => xq_state'[q] = "Ready"
                              /\ life'[q] \in {"released", "destroying"} => jobs'[q] = 0
         /\ \A q \in Queues : life'[q] = "live" => life[q] = "live" \/ RelayHint(q)
<1> DEFINE Queued == /\ jobs' \in [Queues -> Nat]
                     /\ \A q \in Queues : /\ jobs'[q] > 0 => xq_state'[q] = "Ready"
                                          /\ life'[q] \in {"released", "destroying"} =>
                                               jobs'[q] = 0
                     /\ \A q \in Queues : life'[q] = "live" => life[q] = "live" \/ RelayHint(q)
           OfQueue(r) == \/ Create(r) \/ RelayHint(r) \/ Submit(r) \/ Complete(r) \/ ReportIdle(r)
                         \/ Destroy(r) \/ DelResume(r) \/ DelResumeWorker(r) \/ DelWaitAll(r)
                         \/ DelDestroyed(r)
<1>1. /\ jobs \in [Queues -> Nat] /\ life \in [Queues -> Stages]
      /\ xq_state \in [Queues -> {"Idle", "Ready"}]
      /\ \A q \in Queues : /\ jobs[q] > 0 => xq_state[q] = "Ready"
                           /\ life[q] \in {"released", "destroying"} => jobs[q] = 0
      /\ cur \in Queues \cup {NoQueue}
      /\ next_policy \in {NoPolicy} \cup {s[2] : s \in Switches}
  BY DEF AgreeInv, PipeType, WorkInv, ExecutorAt, SystemInv, SchedInv, TableType
<1>2. CASE \E r \in Queues : OfQueue(r)
  <2>1. PICK r \in Queues : OfQueue(r) BY <1>2
  <2>0. r \in Queues BY <2>1
  <2>2. UNCHANGED next_policy
    BY <2>1 DEF Create, RelayHint, Submit, Complete, ReportIdle, Destroy, DelResume,
       DelResumeWorker, DelWaitAll, DelDestroyed, Destroyed, Relay, OnlyEvents, schedVars
  <2>3. ASSUME NEW x, life' = [life EXCEPT ![r] = x], UNCHANGED <<jobs, xq_state>>,
               x = "live" => RelayHint(r), x \in {"released", "destroying"} => jobs[r] = 0
        PROVE  Queued
    BY <1>1, <2>0, <2>3
  <2>4. ASSUME \/ Create(r) \/ RelayHint(r) \/ Destroy(r) \/ DelResume(r) \/ DelResumeWorker(r)
        PROVE  Queued
    <3>1. ASSUME Create(r) PROVE Queued BY <2>3, <3>1 DEF Create, Becomes
    <3>2. ASSUME RelayHint(r) PROVE Queued
      <4>1. life' = [life EXCEPT ![r] = "live"] /\ UNCHANGED <<jobs, xq_state>>
        BY <3>2 DEF RelayHint, Becomes
      <4> QED BY <2>3, <3>2, <4>1
    <3>3. ASSUME Destroy(r) PROVE Queued BY <2>3, <3>3 DEF Destroy, Becomes
    <3>4. ASSUME DelResume(r) PROVE Queued BY <2>3, <3>4 DEF DelResume, Becomes
    <3>5. ASSUME DelResumeWorker(r) PROVE Queued BY <2>3, <3>5 DEF DelResumeWorker, Becomes
    <3> QED BY <2>4, <3>1, <3>2, <3>3, <3>4, <3>5
  <2>5. ASSUME Submit(r) PROVE Queued
    <3>1. /\ life' = life /\ life[r] = "live" /\ jobs' = [jobs EXCEPT ![r] = @ + 1]
          /\ xq_state' = [xq_state EXCEPT ![r] = "Ready"]
      BY <2>5 DEF Submit
    <3> QED BY <1>1, <2>0, <3>1
  <2>6. ASSUME Complete(r) PROVE Queued
    <3>1. life' = life /\ jobs[r] > 0 /\ jobs' = [jobs EXCEPT ![r] = @ - 1] /\ xq_state' = xq_state
      BY <2>6 DEF Complete
    <3> QED BY <1>1, <2>0, <3>1
  <2>7. ASSUME ReportIdle(r) PROVE Queued
    <3>1. life' = life /\ jobs[r] = 0 /\ jobs' = jobs /\ xq_state' = [xq_state EXCEPT ![r] = "Idle"]
      BY <2>7 DEF ReportIdle
    <3> QED BY <1>1, <2>0, <3>1
  <2>8. ASSUME DelWaitAll(r) PROVE Queued
    <3>1. jobs[r] = 0 BY <2>8 DEF DelWaitAll
    <3>2. ASSUME Becomes(r, "released") /\ UNCHANGED <<jobs, xq_state>> PROVE Queued
      BY <2>3, <3>1, <3>2 DEF Becomes
    <3>3. ASSUME Destruct(r, paused) PROVE Queued BY <2>3, <3>1, <3>3 DEF Destruct, Becomes
    <3> QED BY <2>8, <3>2, <3>3 DEF DelWaitAll
  <2>9. ASSUME DelDestroyed(r) PROVE Queued
    <3>1. /\ life' = [life EXCEPT ![r] = "gone"] /\ jobs' = jobs /\ jobs[r] = 0
          /\ xq_state' = [xq_state EXCEPT ![r] = "Idle"]
      BY <1>1, <2>9 DEF DelDestroyed, Destroyed, Becomes
    <3> QED BY <1>1, <2>0, <3>1
  <2>10. Queued BY <2>1, <2>4, <2>5, <2>6, <2>7, <2>8, <2>9
  <2> QED BY <1>1, <2>2, <2>10
<1>3. CASE Executor
  <2>1. UNCHANGED <<life, jobs, xq_state>> => Queued BY <1>1
  <2>2. ASSUME NEW S, Release(S), cur # NoQueue PROVE Queued
    <3>1. CASE life[cur] = "released" /\ Destruct(cur, S)
      BY <1>1, <2>2, <3>1 DEF Destruct, Becomes
    <3> QED BY <2>1, <2>2, <3>1 DEF Release
  <2>5. ASSUME ExecDestroyed PROVE Queued
    <3>1. /\ life' = [life EXCEPT ![cur] = "gone"] /\ jobs' = jobs /\ cur \in Queues
          /\ jobs[cur] = 0 /\ xq_state' = [xq_state EXCEPT ![cur] = "Idle"]
      BY <1>1, <2>5 DEF ExecDestroyed, Destroyed, Becomes
    <3> QED BY <1>1, <3>1
  <2>3. Queued
    BY <1>3, <2>1, <2>2, <2>5
    DEF Executor, Lookup, ExchangeFlag, TellWorker, EndOperation, queueVars
  <2>4. UNCHANGED next_policy
    BY <1>3 DEF Executor, Lookup, ExchangeFlag, TellWorker, EndOperation, Release,
                ExecDestroyed, Destroyed, Relay, OnlyEvents, schedVars
  <2> QED BY <1>1, <2>3, <2>4
<1>4. CASE Lone(Worker) \/ Lone(Tick) \/ Lone(ReplacePolicy)
  <2>1. UNCHANGED <<life, jobs, xq_state>> BY <1>4 DEF Lone, queueVars
  <2>2. next_policy' \in {next_policy, NoPolicy}
    BY <1>4 DEF Lone, Worker, Take, TimerFires, Update, Round, EndRound, Tick, ReplacePolicy
  <2> QED BY <1>1, <2>1, <2>2
<1>5. CASE ChangePolicy
  <2>1. UNCHANGED <<life, jobs, xq_state>> BY <1>5 DEF ChangePolicy, queueVars
  <2>2. next_policy' \in {s[2] : s \in Switches} BY <1>5 DEF ChangePolicy, SetPolicy
  <2> QED BY <1>1, <2>1, <2>2
<1>6. CASE Terminating \/ UNCHANGED vars
  <2>1. UNCHANGED <<life, jobs, xq_state, next_policy>>
    BY <1>6 DEF Terminating, vars, queueVars, schedVars
  <2> QED BY <1>1, <2>1
<1> QED BY <1>2, <1>3, <1>4, <1>5, <1>6 DEF Next

(* A hint is kept while the scheduler knows the queue.                     *)
LEMMA HintsKept ==
  ASSUME AgreeInv, PolicyInv, [Next]_vars, policy \in {"KEDF", "UP"}, ~Lone(ReplacePolicy),
         NEW q \in Queues, pol.hints[q] # NoHint, q \in known'
  PROVE  pol'.hints[q] # NoHint
<1>1. SchedInv /\ PolicyType /\ PolicyValues
  BY DEF AgreeInv, SystemInv, PolicyInv, SchedInv
<1>2. CASE Calm BY <1>2 DEF Calm, policyVars
<1>3. CASE Lone(TimerFires) BY <1>3 DEF Lone, TimerFires
<1>4. CASE Lone(Update)
  <2> DEFINE e == Head(tmp_queue)
  <2>1. UpdateStatus(e) /\ tmp_queue # <<>> BY <1>4 DEF Lone, Update
  <2>2. e \in Events BY <2>1, OneLess DEF AgreeInv, PipeType
  <2> HIDE DEF e
  <2>3. UNCHANGED <<policy, timers>> /\ pol' = IF e.type = "hint" THEN RecvHint(e.hint) ELSE pol
    BY <2>1 DEF UpdateStatus
  <2>4. CASE e.type = "hint"
    <3>1. e.hint \in Said BY <2>2, <2>4, EventKinds, EventsAbout, OtherEvents
    <3> QED BY <1>1, <2>3, <2>4, <3>1, HintSays
  <2> QED BY <2>3, <2>4
<1>5. CASE Lone(Round)
  <2>1. UNCHANGED known /\ Sched BY <1>5 DEF Lone, Round, entryVars
  <2>2. CASE policy = "KEDF" BY <2>1, <2>2 DEF Sched, KEDFSched
  <2>3. CASE policy = "UP"
    <3>1. UPSched BY <2>1, <2>3 DEF Sched
    <3> QED BY <1>1, <2>1, <3>1, UPHints
  <2> QED BY <2>2, <2>3
<1>6. CASE Lone(Tick)
  <2>1. pol' = [pol EXCEPT !.slice = IF @ > 0 THEN @ - 1 ELSE 0] BY <1>6 DEF Lone, Tick
  <2>2. pol'.hints = pol.hints BY <1>1, <2>1 DEF PolicyType, PolicyFields
  <2> QED BY <2>2
<1> QED BY <1>2, <1>3, <1>4, <1>5, <1>6, TableMoves

(* The events that are about hints, and about the creation of a queue.     *)
LEMMA HintEvents ==
  ASSUME NEW type \in Kinds, NEW q \in Queues, NEW e \in Events
  PROVE  /\ e \in About(q) /\ e \notin Creates(q) => e \notin Hearing(type, q)
         /\ \A r \in Queues \ {q} : e \in About(r) => e \notin Hearing(type, q)
         /\ OlderEvent(e) \in Hearing(type, q) <=> e \in Hearing(type, q)
         /\ OlderEvent(e) \in SaidOf(type, q) <=> e \in SaidOf(type, q)
<1>1. ASSUME NEW f \in SaidOf(type, q) PROVE f \in Others /\ f \in Events /\ f.type = "hint"
  BY DEF SaidOf, Said, Others, Hint, Events
<1>2. ASSUME NEW r \in Queues, e \in About(r) PROVE e \notin SaidOf(type, q)
  BY <1>1, <1>2, EventKinds
<1>3. ASSUME NEW r \in Queues \ {q}, e \in About(r) PROVE e \notin Creates(q)
  BY <1>3, EventsAbout, KindsApart
<1>4. OlderEvent(e) \in SaidOf(type, q) <=> e \in SaidOf(type, q)
  <2>1. CASE e.type = "ready"
    <3>1. e \notin Others /\ e.q \in Queues /\ e \in Readies(e.q)
      BY <2>1, EventKinds, OtherEvents, EventsAbout
    <3>2. OlderEvent(e) \in Readies(e.q) BY <3>1, OlderSays
    <3>3. \A f \in Readies(e.q) : f.type = "ready" BY DEF Readies
    <3> QED BY <1>1, <3>1, <3>2, <3>3
  <2>2. CASE e.type # "ready" BY <2>2 DEF OlderEvent
  <2> QED BY <2>1, <2>2
<1>5. OlderEvent(e) \in Creates(q) <=> e \in Creates(q) BY OlderSays
<1> QED BY <1>1, <1>2, <1>3, <1>4, <1>5 DEF Hearing

LEMMA HintedStep ==
  ASSUME AgreeInv, PolicyInv, ToldOf, [Next]_vars, ~Lone(ReplacePolicy),
         NEW type \in {"KEDF", "UP"}, policy = type, NEW q \in Queues, life'[q] = "live",
         \/ RelayHint(q)
         \/ life[q] = "live" /\ Hinted(type, q)
  PROVE  Hinted(type, q)'
<1> DEFINE S == Hearing(type, q)
           A == SaidOf(type, q)
           b == pol.hints[q] # NoHint
           c == pol'.hints[q] # NoHint
<1>1. /\ event_queue \in Seq(Events) /\ tmp_queue \in Seq(Events) /\ type \in Kinds
      /\ SchedInv /\ PolicyType /\ PolicyValues
      /\ sched_pc # "events" => tmp_queue = <<>>
  BY DEF AgreeInv, PipeType, SystemInv, SchedInv, PolicyInv
<1>2. /\ A \subseteq Events /\ A \subseteq S /\ Creates(q) \subseteq S
      /\ \A e \in Events :
           /\ e \in About(q) /\ e \notin Creates(q) => e \notin S
           /\ \A r \in Queues \ {q} : e \in About(r) => e \notin S
           /\ OlderEvent(e) \in S <=> e \in S
           /\ OlderEvent(e) \in A <=> e \in A
  <2>1. A \subseteq Events BY <1>1 DEF SaidOf, Said, Others, Events
  <2>2. A \subseteq S /\ Creates(q) \subseteq S BY DEF Hearing
  <2>3. \A e \in Events :
           /\ e \in About(q) /\ e \notin Creates(q) => e \notin S
           /\ \A r \in Queues \ {q} : e \in About(r) => e \notin S
           /\ OlderEvent(e) \in S <=> e \in S
           /\ OlderEvent(e) \in A <=> e \in A
    BY <1>1, HintEvents
  <2> QED BY <2>1, <2>2, <2>3
<1>3. CreateFirst(q)'
  BY HeardStep DEF Heard, Living, Exists
<1>4. Hinted(type, q)' <=> Settled(event_queue', tmp_queue', S, A, c) BY DEF Hinted
<1>5. CASE RelayHint(q)
  <2>1. PICK h \in Hints(policy, q) : Relay(<<Hint(h)>>) BY <1>5 DEF RelayHint
  <2>2. Hint(h) \in A BY <2>1 DEF SaidOf
  <2>3. event_queue' = event_queue \o <<Hint(h)>> BY <2>1 DEF Relay, RecvEvents
  <2>4. event_queue' = Append(event_queue, Hint(h))
    <3> HIDE DEF Events
    <3> QED BY <1>1, <1>2, <2>2, <2>3
  <2>5. LastIn(event_queue', S, A) BY <1>1, <1>2, <2>2, <2>4, OneMore
  <2> QED BY <1>4, <2>5 DEF Settled
<1>6. CASE life[q] = "live" /\ Hinted(type, q)
  <2>1. Settled(event_queue, tmp_queue, S, A, b) BY <1>6 DEF Hinted
  <2>2. ASSUME Settled(event_queue', tmp_queue', S, A, b) PROVE Hinted(type, q)'
    <3>1. Silent(event_queue', S) /\ Silent(tmp_queue', S) => q \in known'
      BY <1>2, <1>3 DEF CreateFirst, Silent
    <3>2. b /\ q \in known' => c BY HintsKept
    <3> HIDE DEF S, A, b, c
    <3> QED BY <1>4, <2>2, <3>1, <3>2 DEF Settled
  <2>3. ASSUME NEW e \in Events, Enters(e), e \in A \/ e \notin S PROVE Hinted(type, q)'
    <3>1. b \in BOOLEAN /\ event_queue' = Append(event_queue, e) /\ tmp_queue' = tmp_queue
      BY <2>3 DEF Enters
    <3> HIDE DEF S, A, b
    <3>2. Settled(event_queue', tmp_queue', S, A, b)
      BY <1>1, <2>1, <2>3, <3>1, SettledEnters
    <3> QED BY <2>2, <3>2
  <2>4. CASE \E r \in Queues : \E e \in About(r) : Enters(e) /\ Reports(r, e)
    <3>0. PICK r \in Queues : \E e \in About(r) : Enters(e) /\ Reports(r, e) BY <2>4
    <3>1. PICK e \in About(r) : Enters(e) /\ Reports(r, e) BY <3>0
    <3>2. e \in Events BY KindsApart
    <3>3. r = q => e \notin Creates(q)
      BY <1>6, <3>1, KindsApart DEF Reports
    <3> QED BY <1>2, <2>3, <3>1, <3>2, <3>3
  <2>5. CASE \E e \in Others : Enters(e)
    <3>1. PICK e \in Others : Enters(e) BY <2>5
    <3>2. e \in Events BY DEF Events
    <3>3. e \notin Creates(q) BY <3>2, EventKinds, KindsApart
    <3> QED BY <1>2, <2>3, <3>1, <3>2, <3>3 DEF Hearing
  <2>6. CASE UNCHANGED tmp_queue /\ event_queue' \in {event_queue, OlderEvents(event_queue)}
    <3>1. /\ Silent(event_queue', S) <=> Silent(event_queue, S)
          /\ LastIn(event_queue', S, A) <=> LastIn(event_queue, S, A)
      <4>1. \A e \in Events : /\ OlderEvent(e) \in Events
                              /\ OlderEvent(e) \in S <=> e \in S
                              /\ OlderEvent(e) \in A <=> e \in A
        BY <1>2, OlderSays
      <4>2. CASE event_queue' = event_queue BY <4>2
      <4>3. CASE event_queue' = OlderEvents(event_queue)
        <5> HIDE DEF S, A
        <5> QED BY <1>1, <4>1, <4>3, OlderKept
      <4> QED BY <2>6, <4>2, <4>3
    <3>2. Settled(event_queue', tmp_queue', S, A, b) BY <2>1, <2>6, <3>1 DEF Settled
    <3> QED BY <2>2, <3>2
  <2>7. CASE Lone(Take)
    <3>1. tmp_queue = <<>> /\ event_queue' = <<>> /\ tmp_queue' = event_queue
      BY <1>1, <2>7 DEF Lone, Take
    <3>2. b \in BOOLEAN OBVIOUS
    <3>3. Settled(event_queue', tmp_queue', S, A, b)
      <4> HIDE DEF S, A, b
      <4> QED BY <2>1, <3>1, <3>2, SettledTaken
    <3> QED BY <2>2, <3>3
  <2>8. CASE Lone(Update)
    <3> DEFINE e == Head(tmp_queue)
    <3>1. /\ UpdateStatus(e) /\ tmp_queue # <<>> /\ tmp_queue' = Tail(tmp_queue)
          /\ event_queue' = event_queue
      BY <2>8 DEF Lone, Update
    <3>2. e \in Events BY <1>1, <3>1, OneLess
    <3>3. UNCHANGED <<policy, timers>> /\ pol' = IF e.type = "hint" THEN RecvHint(e.hint) ELSE pol
      BY <3>1 DEF UpdateStatus
    <3>4. e \in A => c
      <4> HIDE DEF e
      <4> SUFFICES ASSUME e \in A PROVE c OBVIOUS
      <4>1. PICK h \in Hints(type, q) : e = Hint(h) BY DEF SaidOf
      <4>2. h \in Said BY <1>1, <4>1 DEF Said
      <4>3. h.q = q /\ h.kind = IF type = "KEDF" THEN "deadline" ELSE "utilization"
        <5>1. h.q = q BY <1>1, <4>1, HintsAssumption DEF Kinds
        <5> QED BY <5>1 DEF ToldOf
      <4>4. pol' = RecvHint(h) BY <3>3, <4>1 DEF Hint
      <4> QED BY <1>1, <3>3, <4>2, <4>3, <4>4, HintSays
    <3>5. b => c
      <4> HIDE DEF e
      <4>1. CASE e.type = "hint"
        <5>1. e.hint \in Said BY <3>2, <4>1, EventKinds, EventsAbout, OtherEvents
        <5> QED BY <1>1, <3>3, <4>1, <5>1, HintSays
      <4> QED BY <3>3, <4>1
    <3>6. b \in BOOLEAN /\ c \in BOOLEAN OBVIOUS
    <3>7. Settled(event_queue, tmp_queue', S, A, c)
      <4> HIDE DEF S, A, b, c
      <4> QED BY <1>1, <2>1, <3>1, <3>4, <3>5, <3>6, SettledApplied
    <3> QED BY <1>4, <3>1, <3>7
  <2>9. EventMoves
    BY WhatHappens DEF AgreeInv, SystemInv
  <2> QED BY <2>4, <2>5, <2>6, <2>7, <2>8, <2>9 DEF EventMoves
<1> QED BY <1>5, <1>6

LEMMA WorkInvStep ==
  ASSUME AgreeInv, PolicyInv, ToldOf, WorkInv, [Next]_vars
  PROVE  WorkInv'
<1>1. ASSUME NEW type \in {"KEDF", "UP"}, NEW q \in Queues, policy' = type, life'[q] = "live"
      PROVE  Hinted(type, q)'
  <2>1. ~Lone(ReplacePolicy)
    BY <1>1 DEF Lone, ReplacePolicy, WorkInv, ToldOf
  <2>2. policy = type
    BY <1>1, <2>1, TableMoves DEF Calm, policyVars, Lone, TimerFires, Update, UpdateStatus,
       Round, Tick
  <2> QED BY <1>1, <2>1, <2>2, JobsStep, HintedStep DEF WorkInv
<1> QED BY <1>1, JobsStep DEF WorkInv

(* No policy suspends all queues that have work and are to be executed,    *)
(* whatever happened before, unless one of them is being destroyed and     *)
(* resumes itself: under KEDF and UP if they were told of each queue.      *)
THEOREM WorkConserved == ToldOf => (Spec => []WorkConserving)
<1>1. ASSUME ToldOf PROVE Spec => [](RulesInv /\ WorkInv)
  <2>1. Init => RulesInv /\ WorkInv BY AgreeInvInit, PolicyInvInit, WorkInvInit DEF RulesInv
  <2>2. RulesInv /\ WorkInv /\ [Next]_vars => (RulesInv /\ WorkInv)'
    BY <1>1, AgreeInvStep, PolicyInvStep, WorkInvStep DEF RulesInv
  <2> QED BY <2>1, <2>2, PTL DEF Spec
<1>2. RulesInv /\ WorkInv => WorkConserving
  <2> DEFINE busy == {q \in Queues : life[q] = "live" /\ jobs[q] > 0 /\ ~Refused(q)}
             destroyed == {q \in Queues : Exists(q) /\ ~Registered(q)}
  <2> SUFFICES ASSUME RulesInv, WorkInv, AtRest, busy # {}, destroyed = {}
               PROVE  \E q \in Queues : xq_state[q] = "Ready" /\ ~paused[q]
    BY DEF WorkConserving
  <2>1. /\ AgreeInv /\ Conserves /\ Ranked /\ 0 \notin timers /\ PolicyValues
        /\ ready \subseteq known /\ known \subseteq Queues /\ IsFiniteSet(ready)
        /\ event_queue = <<>> /\ tmp_queue = <<>> /\ life \in [Queues -> Stages]
    BY AtRestDecided, FS_Subset DEF RulesInv, PolicyInv, Decisions, AgreeInv, SystemInv, SchedInv,
       TableType, TablesAgree, PipeType, AtRest
  <2>2. PICK q \in Queues : life[q] = "live" /\ jobs[q] > 0 /\ ~Refused(q) OBVIOUS
  <2>3. q \in ready BY <2>1, <2>2, AtRestKnown DEF WorkInv, Exists
  <2>4. ASSUME policy \in {"KEDF", "UP"} PROVE pol.hints[q] # NoHint
    <3>1. Hinted(policy, q) BY <2>2, <2>4 DEF WorkInv
    <3> QED BY <2>1, <3>1, NoneYet DEF Hinted, Settled
  <2>5. PICK r \in ready : r \notin suspended
    <3>1. CASE policy # "LAX" BY <2>1, <2>3, <2>4, <3>1 DEF Conserves
    <3>2. CASE policy = "LAX"
      <4>1. LaxPriority(q) >= PriorityMin
        BY <2>1, <2>2, <3>2, RanksAreNumbers, PriorityAssumption DEF Refused, Rank
      <4> QED BY <2>1, <2>3, <3>2, <4>1, LaxConserves DEF Ranked
    <3> QED BY <3>1, <3>2
  <2>6. r \in Queues /\ Exists(r) /\ xq_state[r] = "Ready" BY <2>1, AtRestKnown
  <2>7. Registered(r) BY <2>6
  <2> QED BY <2>1, <2>5, <2>6, <2>7, AtRestKnown
<1>3. CASE ToldOf
  <2>1. Spec => [](RulesInv /\ WorkInv) BY <1>1, <1>3
  <2>2. Spec => []WorkConserving BY <1>2, <2>1, PTL
  <2> QED BY <2>2
<1>4. CASE ~ToldOf BY <1>4
<1> QED BY <1>3, <1>4
=============================================================================
