------------------------ MODULE LocalSchedulerProofs ------------------------
(***************************************************************************)
(* Proofs about LocalScheduler, for any queues, processes and policies:    *)
(* whatever events come and whatever a policy decides, the table of queues *)
(* and the table of processes say the same.  The modules that use the      *)
(* scheduler cite the lemmas on its steps, and on what the last of the     *)
(* events under way says.                                                  *)
(***************************************************************************)
EXTENDS LocalScheduler, SequenceTheorems, FiniteSetTheorems, WellFoundedInduction, TLAPS

(* An event is about a queue or a process that may exist.                  *)
WellFormed(e) ==
  /\ e.type \in {"create", "config", "destroy", "ready", "idle"} => e.q \in Queues
  /\ e.type \in {"process_create", "process_destroy"} => e.pid \in Procs
  /\ e.type = "ready" => {"type", "q", "age"} \subseteq DOMAIN e

Sane(es) == \E S : es \in Seq(S) /\ \A e \in S : WellFormed(e)

PolicyFields ==
  {"hints", "k", "cur", "slice", "queue", "turn", "active", "window", "os"}

PolicyType == DOMAIN pol = PolicyFields /\ pol.queue \in Seq(Procs)

TableType ==
  /\ known \subseteq Queues /\ procs \subseteq Procs
  /\ running \in [Procs -> SUBSET Queues]
  /\ halted \in [Procs -> SUBSET Queues]

SchedInv ==
  TableType /\ PolicyType /\ Sane(event_queue) /\ Sane(tmp_queue) /\ TablesAgree

-----------------------------------------------------------------------------
(* Sequences of events.                                                    *)
LEMMA AllSane ==
  ASSUME NEW S, NEW es \in Seq(S), \A e \in S : WellFormed(e)
  PROVE  Sane(es)
  BY DEF Sane

LEMMA NoEvents == Sane(<<>>)
<1> DEFINE S == {}
<1>1. <<>> \in Seq(S) /\ \A e \in S : WellFormed(e) OBVIOUS
<1> HIDE DEF S
<1> QED BY <1>1, AllSane

LEMMA OneEvent == ASSUME NEW e, WellFormed(e) PROVE Sane(<<e>>)
<1> DEFINE S == {e}
<1>1. <<e>> \in Seq(S) /\ \A x \in S : WellFormed(x) OBVIOUS
<1> HIDE DEF S
<1> QED BY <1>1, AllSane

LEMMA MoreEvents == ASSUME NEW es, NEW fs, Sane(es), Sane(fs) PROVE Sane(es \o fs)
<1>1. PICK S : es \in Seq(S) /\ \A e \in S : WellFormed(e) BY DEF Sane
<1>2. PICK T : fs \in Seq(T) /\ \A e \in T : WellFormed(e) BY DEF Sane
<1>3. es \in Seq(S \cup T) /\ fs \in Seq(S \cup T) BY <1>1, <1>2
<1>4. es \o fs \in Seq(S \cup T) BY <1>3, ConcatProperties
<1> QED BY <1>1, <1>2, <1>4 DEF Sane

LEMMA FewerEvents ==
  ASSUME NEW es, Sane(es), es # <<>>
  PROVE  WellFormed(Head(es)) /\ Sane(Tail(es))
<1>1. PICK S : es \in Seq(S) /\ \A e \in S : WellFormed(e) BY DEF Sane
<1>2. Head(es) \in S /\ Tail(es) \in Seq(S) BY <1>1, HeadTailProperties
<1> QED BY <1>1, <1>2 DEF Sane

LEMMA OldEvents == ASSUME NEW es, Sane(es) PROVE Sane(OlderEvents(es))
<1>1. PICK S : es \in Seq(S) /\ \A e \in S : WellFormed(e) BY DEF Sane
<1> DEFINE old(e) == IF e.type = "ready" THEN [e EXCEPT !.age = Older(@)] ELSE e
           T == {old(e) : e \in S}
<1>2. ASSUME NEW e \in S PROVE WellFormed(old(e))
  <2>1. WellFormed(e) BY <1>1
  <2>2. CASE e.type # "ready" BY <2>1, <2>2
  <2>3. CASE e.type = "ready"
    <3>1. {"type", "q", "age"} \subseteq DOMAIN e /\ e.q \in Queues
      BY <2>1, <2>3 DEF WellFormed
    <3>2. /\ old(e).type = "ready" /\ old(e).q = e.q
          /\ DOMAIN old(e) = DOMAIN e
      BY <2>3, <3>1
    <3> HIDE DEF old
    <3> QED BY <3>1, <3>2 DEF WellFormed
  <2> QED BY <2>2, <2>3
<1>3. OlderEvents(es) = [i \in 1 .. Len(es) |-> old(es[i])]
  BY <1>1 DEF OlderEvents
<1> HIDE DEF old
<1>4. \A i \in 1 .. Len(es) : old(es[i]) \in T BY <1>1
<1>5. Len(es) \in Nat BY <1>1
<1>6. OlderEvents(es) \in Seq(T)
  <2> HIDE DEF T
  <2> QED BY <1>3, <1>4, <1>5
<1>7. \A e \in T : WellFormed(e) BY <1>2
<1> QED BY <1>6, <1>7 DEF Sane

-----------------------------------------------------------------------------
(* What a policy may decide.                                               *)
LEMMA LeastIn ==
  ASSUME NEW S, S \subseteq Nat, S # {}
  PROVE  Least(S) \in S /\ \A y \in S : Least(S) <= y
<1>1. \E x \in S : \A y \in S : ~ (<<y, x>> \in OpToRel(<, Nat))
  BY WFMin, NatLessThanWellFounded
<1>2. PICK x \in S : \A y \in S : ~ (<<y, x>> \in OpToRel(<, Nat)) BY <1>1
<1>3. \A y \in Nat : y < x => <<y, x>> \in OpToRel(<, Nat) BY DEF OpToRel
<1>4. \A y \in S : y \in Nat /\ x \in Nat /\ ~ (y < x) BY <1>2, <1>3
<1>5. \A y \in S : x <= y BY <1>4
<1> QED BY <1>5 DEF Least

(* Of finitely many there is one that ranks highest.                       *)
LEMMA Highest ==
  ASSUME NEW S, IsFiniteSet(S), S # {}, NEW f, \A x \in S : f[x] \in Int
  PROVE  \E x \in S : \A y \in S : f[y] <= f[x]
<1> DEFINE above(x) == {y \in S : f[y] > f[x]}
           N == {Cardinality(above(x)) : x \in S}
<1>1. \A x \in S : IsFiniteSet(above(x)) /\ Cardinality(above(x)) \in Nat
  BY FS_Subset, FS_CardinalityType
<1>2. N \subseteq Nat /\ N # {} BY <1>1
<1>3. PICK x \in S : Cardinality(above(x)) = Least(N)
  <2>1. Least(N) \in N
    <3> HIDE DEF N
    <3> QED BY <1>2, LeastIn
  <2> QED BY <2>1
<1>4. \A y \in S : Cardinality(above(x)) <= Cardinality(above(y))
  <2>1. \A n \in N : Least(N) <= n
    <3> HIDE DEF N
    <3> QED BY <1>2, LeastIn
  <2> QED BY <1>3, <2>1
<1>5. ASSUME NEW y \in S, ~(f[y] <= f[x]) PROVE FALSE
  <2>1. f[y] > f[x] BY <1>5
  <2>2. above(y) \subseteq above(x) /\ y \in above(x) /\ y \notin above(y) BY <2>1
  <2> HIDE DEF above
  <2>3. /\ Cardinality(above(y)) <= Cardinality(above(x))
        /\ Cardinality(above(y)) # Cardinality(above(x))
    BY <1>1, <2>2, FS_Subset
  <2> QED BY <1>1, <1>4, <2>3
<1> QED BY <1>5

(* Suspending some of the known queues and resuming others keeps the two   *)
(* tables in step.                                                         *)
LEMMA AssignAgrees ==
  ASSUME TableType, TablesAgree, UNCHANGED entryVars,
         NEW R \in SUBSET known, NEW S \in SUBSET known, R \cap S = {}, Assign(R, S)
  PROVE  TableType' /\ TablesAgree'
<1>1. UNCHANGED <<known, ready, procs>> BY DEF entryVars
<1>2. TableType' BY <1>1 DEF TableType, Assign, QueuesOf
<1>3. suspended' = (suspended \ R) \cup S BY DEF Assign
<1>4. ASSUME NEW p \in Procs
      PROVE  /\ running'[p] = {q \in known' \ suspended' : Pid[q] = p}
             /\ halted'[p] = {q \in known' \cap suspended' : Pid[q] = p}
             /\ running'[p] \cup halted'[p] # {} => p \in procs'
  <2>1. /\ running[p] = {q \in known \ suspended : Pid[q] = p}
        /\ halted[p] = {q \in known \cap suspended : Pid[q] = p}
        /\ running[p] \cup halted[p] # {} => p \in procs
    BY DEF TablesAgree
  <2>2. CASE p \notin procs
    <3>1. running'[p] = running[p] /\ halted'[p] = halted[p] BY <2>2 DEF Assign
    <3>2. \A q \in known : Pid[q] # p BY <2>1, <2>2
    <3> QED BY <1>1, <2>1, <2>2, <3>1, <3>2
  <2>3. CASE p \in procs
    <3>1. /\ running'[p] = (running[p] \ S) \cup {q \in R : Pid[q] = p}
          /\ halted'[p] = (halted[p] \ R) \cup {q \in S : Pid[q] = p}
      BY <2>3 DEF Assign, QueuesOf, TableType
    <3>2. running'[p] = {q \in known \ suspended' : Pid[q] = p} BY <1>3, <2>1, <3>1
    <3>3. halted'[p] = {q \in known \cap suspended' : Pid[q] = p} BY <1>3, <2>1, <3>1
    <3> QED BY <1>1, <2>3, <3>2, <3>3
  <2> QED BY <2>2, <2>3
<1>5. suspended' \subseteq known' /\ ready' \subseteq known'
  BY <1>1, <1>3 DEF TablesAgree
<1> QED BY <1>2, <1>4, <1>5 DEF TablesAgree

Decided == TableType' /\ PolicyType' /\ TablesAgree'

LEMMA SuspendOnlyAgrees ==
  ASSUME SchedInv, UNCHANGED entryVars, PolicyType', NEW S \in SUBSET known, SuspendOnly(S)
  PROVE  Decided
<1>1. Assign(known \ S, S) BY DEF SuspendOnly
<1>2. TableType' /\ TablesAgree' BY <1>1, AssignAgrees DEF SchedInv
<1> QED BY <1>2 DEF Decided

LEMMA SuspendsThese ==
  ASSUME suspended \subseteq known, NEW S \in SUBSET known, SuspendOnly(S)
  PROVE  suspended' = S
  BY DEF SuspendOnly, Assign

LEMMA KeepsAgree ==
  ASSUME SchedInv, UNCHANGED <<entryVars, markVars>>, PolicyType'
  PROVE  Decided
  BY DEF SchedInv, Decided, TableType, TablesAgree, entryVars, markVars

(* CHPF: what is read of a process is a priority of Linux, or nothing, and *)
(* it is compared as a number.                                             *)
Readable == {prio \in Int : prio >= -1} \cup {NoEntry}

LEMMA ConvertedIsNumber == ASSUME NEW prio \in Readable PROVE Converted(prio) \in Int
<1>1. CASE prio = NoEntry BY <1>1 DEF Converted
<1>2. CASE prio # NoEntry BY <1>2 DEF Converted, Readable
<1> QED BY <1>1, <1>2

LEMMA CHPFReads ==
  ASSUME CHPFSched
  PROVE  \E os \in [Procs -> Readable] :
           /\ SuspendOnly(OutrankedOnDevice(PidPrio(os)))
           /\ pol' = [pol EXCEPT !.os = os] /\ UNCHANGED timers
           /\ \A q \in Queues : PidPrio(os)[q] = Converted(os[Pid[q]]) /\ PidPrio(os)[q] \in Int
<1> DEFINE S == (UNION {OsPriorities[p] : p \in Procs}) \cup {NoEntry}
<1>1. PICK os \in [Procs -> S] :
        /\ SuspendOnly(OutrankedOnDevice(PidPrio(os)))
        /\ pol' = [pol EXCEPT !.os = os] /\ UNCHANGED timers
  BY DEF CHPFSched
<1>2. S \subseteq Readable
  <2>1. ASSUME NEW p \in Procs, NEW prio \in OsPriorities[p] PROVE prio \in Readable
    <3>1. OsPriorities[p] \subseteq Int \cup {NoEntry} BY OsPrioritiesAssumption
    <3>2. CASE prio = NoEntry BY <3>2 DEF Readable
    <3>3. CASE prio # NoEntry
      <4>1. prio \in OsPriorities[p] \ {NoEntry} BY <3>3
      <4>2. prio >= -1 BY <4>1, OsPrioritiesAssumption
      <4>3. prio \in Int BY <3>1, <3>3
      <4> QED BY <4>2, <4>3 DEF Readable
    <3> QED BY <3>2, <3>3
  <2>2. NoEntry \in Readable BY DEF Readable
  <2> QED BY <2>1, <2>2
<1> HIDE DEF S
<1>3. os \in [Procs -> Readable] BY <1>1, <1>2
<1>4. ASSUME NEW q \in Queues
      PROVE  PidPrio(os)[q] = Converted(os[Pid[q]]) /\ PidPrio(os)[q] \in Int
  <2>1. os[Pid[q]] \in Readable BY <1>3, PidAssumption
  <2> QED BY <2>1, ConvertedIsNumber DEF PidPrio
<1> QED BY <1>1, <1>3, <1>4

(* The policies that go by priorities, windows or deadlines.               *)
LEMMA PriorityPolicies ==
  ASSUME SchedInv, UNCHANGED entryVars,
         \/ HPFSched \/ HHPFSched \/ CHPFSched \/ LAXSched \/ AWFSched \/ KEDFSched
  PROVE  Decided
<1>1. pol' = pol \/ \E os : pol' = [pol EXCEPT !.os = os]
  BY DEF HPFSched, HHPFSched, CHPFSched, LAXSched, AWFSched, KEDFSched
<1>2. PolicyType' BY <1>1 DEF SchedInv, PolicyType, PolicyFields
<1>3. CASE HPFSched
  <2>1. OutrankedOnDevice(Priorities) \in SUBSET known BY DEF OutrankedOnDevice
  <2> QED BY <1>2, <1>3, <2>1, SuspendOnlyAgrees DEF HPFSched
<1>4. CASE HHPFSched
  <2>1. Outranked(Priorities) \in SUBSET known BY DEF Outranked
  <2> QED BY <1>2, <1>4, <2>1, SuspendOnlyAgrees DEF HHPFSched
<1>5. CASE CHPFSched
  <2>1. PICK os : SuspendOnly(OutrankedOnDevice(PidPrio(os))) BY <1>5 DEF CHPFSched
  <2>2. OutrankedOnDevice(PidPrio(os)) \in SUBSET known BY DEF OutrankedOnDevice
  <2> QED BY <1>2, <2>1, <2>2, SuspendOnlyAgrees
<1>6. CASE LAXSched
  <2>1. Relaxed \in SUBSET known BY DEF Relaxed, Outranked
  <2> QED BY <1>2, <1>6, <2>1, SuspendOnlyAgrees DEF LAXSched
<1>7. CASE AWFSched
  <2>1. PICK S \in SUBSET known : SuspendOnly(S) BY <1>7 DEF AWFSched
  <2> QED BY <1>2, <2>1, SuspendOnlyAgrees
<1>8. CASE KEDFSched
  <2>1. PICK R \in SUBSET known : Assign(R, known \ R) BY <1>8 DEF KEDFSched
  <2>2. TableType' /\ TablesAgree' BY <2>1, AssignAgrees DEF SchedInv
  <2> QED BY <1>2, <2>2 DEF Decided
<1> QED BY <1>3, <1>4, <1>5, <1>6, <1>7, <1>8

(* UP.                                                                     *)
LEMMA SwitchToAgrees ==
  ASSUME SchedInv, UNCHANGED entryVars, NEW q \in known, NEW changed,
         DOMAIN changed = PolicyFields, changed.queue \in Seq(Procs), SwitchTo(q, changed)
  PROVE  Decided
<1>1. Assign({q}, known \ {q}) BY DEF SwitchTo
<1>2. TableType' /\ TablesAgree' BY <1>1, AssignAgrees DEF SchedInv
<1>3. pol' = [[changed EXCEPT !.cur = q] EXCEPT !.slice = SliceTicks]
  BY DEF SwitchTo, StartSlice
<1>4. PolicyType' BY <1>3 DEF PolicyType, PolicyFields
<1> QED BY <1>2, <1>4 DEF Decided

LEMMA UPAgrees == ASSUME SchedInv, UNCHANGED entryVars, UPSched PROVE Decided
<1> DEFINE hints == [q \in Queues |-> IF q \in known THEN pol.hints[q] ELSE NoHint]
           cur   == IF pol.cur \in known THEN pol.cur ELSE NoQueue
           now   == [pol EXCEPT !.hints = hints, !.cur = cur]
           utils == {q \in known : hints[q] # NoHint}
           next  == (utils \cap ready) \ {cur}
<1>1. DOMAIN now = PolicyFields /\ now.queue \in Seq(Procs)
  BY DEF SchedInv, PolicyType, PolicyFields
<1>2. next \subseteq known /\ next \subseteq Nat
  BY QueuesAssumption DEF SchedInv, TableType
<1>3. \/ KeepAll /\ pol' = now
      \/ SwitchToAny(utils, now)
      \/ next # {} /\ SwitchTo(NextInOrder(cur, next), now)
      \/ KeepAll /\ pol' = [now EXCEPT !.cur = NoQueue]
  BY DEF UPSched
<1>4. utils \subseteq known OBVIOUS
<1> HIDE DEF now, utils, next, cur
<1>5. CASE KeepAll /\ (pol' = now \/ pol' = [now EXCEPT !.cur = NoQueue])
  <2>1. PolicyType' BY <1>1, <1>5 DEF PolicyType, PolicyFields
  <2> QED BY <1>5, <2>1, KeepsAgree DEF KeepAll
<1>6. CASE SwitchToAny(utils, now)
  <2>1. ASSUME NEW q \in utils, SwitchTo(q, now) PROVE Decided
    BY <1>1, <1>4, <2>1, SwitchToAgrees
  <2>2. CASE SuspendOnly(known) /\ pol' = [now EXCEPT !.cur = NoQueue]
    <3>1. PolicyType' BY <1>1, <2>2 DEF PolicyType, PolicyFields
    <3> QED BY <2>2, <3>1, SuspendOnlyAgrees
  <2> QED BY <1>6, <2>1, <2>2 DEF SwitchToAny
<1>7. CASE next # {} /\ SwitchTo(NextInOrder(cur, next), now)
  <2> DEFINE later == {r \in next : r > cur}
             among == IF \E r \in next : r > cur THEN later ELSE next
  <2>1. among \subseteq next /\ among # {} BY <1>7
  <2>2. NextInOrder(cur, next) = Least(among) BY DEF NextInOrder
  <2> HIDE DEF among
  <2>3. NextInOrder(cur, next) \in known BY <1>2, <2>1, <2>2, LeastIn
  <2> QED BY <1>1, <1>7, <2>3, SwitchToAgrees
<1> QED BY <1>3, <1>5, <1>6, <1>7

-----------------------------------------------------------------------------
(* PUP.  The run queue is a sequence of processes ...                      *)
LEMMA RefreshedType ==
  ASSUME TableType, NEW old, NEW queue \in Refreshed(old)
  PROVE  queue \in Seq(Procs)
<1> DEFINE S == {p \in procs : HasQueues(p)}
<1>1. queue \in SetToSeqs(S) BY DEF Refreshed
<1>2. queue \in [1 .. Cardinality(S) -> S] BY <1>1 DEF SetToSeqs
<1>3. S \subseteq Procs BY DEF TableType
<1>4. IsFiniteSet(S) BY <1>3, ProcsAssumption, FS_Subset
<1>5. Cardinality(S) \in Nat BY <1>4, FS_CardinalityType
<1> HIDE DEF S
<1>6. queue \in Seq(S) BY <1>2, <1>5
<1> QED BY <1>3, <1>6

Distinct(queue) == \A i, j \in DOMAIN queue : i # j => queue[i] # queue[j]

LEMMA RefreshedAll ==
  ASSUME TableType, NEW old, NEW queue \in Refreshed(old)
  PROVE  /\ Distinct(queue)
         /\ \A p \in procs : HasQueues(p) => \E i \in DOMAIN queue : queue[i] = p
<1> DEFINE S == {p \in procs : HasQueues(p)}
           n == Cardinality(S)
<1>1. queue \in SetToSeqs(S) BY DEF Refreshed
<1>2. queue \in [1 .. n -> S] /\ \A i, j \in 1 .. n : i # j => queue[i] # queue[j]
  BY <1>1 DEF SetToSeqs
<1>3. IsFiniteSet(S) /\ n \in Nat BY ProcsAssumption, FS_Subset, FS_CardinalityType DEF TableType
<1> HIDE DEF S
<1>4. queue \in Injection(1 .. n, S) BY <1>2 DEF Injection, IsInjective
<1>5. Cardinality(1 .. n) = n BY <1>3, FS_Interval
<1>6. queue \in Surjection(1 .. n, S) BY <1>3, <1>4, <1>5, FS_Injection
<1>7. \A p \in S : \E i \in 1 .. n : queue[i] = p BY <1>6 DEF Surjection
<1>8. DOMAIN queue = 1 .. n BY <1>2
<1> QED BY <1>2, <1>7, <1>8 DEF Distinct, S

(* ... the first of which that is ready has its turn, or the one behind it *)
LEMMA TurnedFirst ==
  ASSUME NEW queue \in Seq(Procs), \E i \in DOMAIN queue : ProcessReady(queue[i]), Distinct(queue)
  PROVE  LET new == Turned(queue) IN
         /\ new \in Seq(Procs) /\ Len(new) >= 1 /\ ProcessReady(new[1])
         /\ \A i \in 2 .. Len(new) : new[i] # new[1]
<1> DEFINE S == {i \in DOMAIN queue : ProcessReady(queue[i])}
           first == Least(S)
           n == Len(queue)
           new == Turned(queue)
           front == SubSeq(queue, first, n)
           back == SubSeq(queue, 1, first - 1)
<1>1. n \in Nat /\ DOMAIN queue = 1 .. n OBVIOUS
<1>2. S \subseteq Nat /\ S # {} /\ S \subseteq 1 .. n BY <1>1
<1>3. first \in 1 .. n /\ ProcessReady(queue[first])
  <2>1. first \in S
    <3> HIDE DEF S
    <3> QED BY <1>2, LeastIn
  <2> QED BY <1>2, <2>1
<1>4. new = front \o back BY DEF Turned
<1> HIDE DEF first
<1>5. /\ front \in Seq(Procs) /\ Len(front) = n - first + 1
      /\ \A i \in 1 .. n - first + 1 : front[i] = queue[first + i - 1]
  <2>1. \A i \in first .. n : queue[i] \in Procs BY <1>1, <1>3
  <2>2. first \in Int /\ n \in Int /\ first <= n BY <1>1, <1>3
  <2> HIDE DEF n
  <2> QED BY <2>1, <2>2, SubSeqProperties
<1>6. /\ back \in Seq(Procs) /\ Len(back) = first - 1
      /\ \A i \in 1 .. first - 1 : back[i] = queue[i]
  <2>1. \A i \in 1 .. first - 1 : queue[i] \in Procs BY <1>1, <1>3
  <2>2. 1 \in Int /\ first - 1 \in Int /\ \A i \in Int : 1 + i - 1 = i BY <1>3
  <2> HIDE DEF n
  <2> QED BY <1>3, <2>1, <2>2, SubSeqProperties
<1> HIDE DEF n, new, front, back
<1>7. /\ new \in Seq(Procs) /\ Len(new) = n
      /\ \A i \in 1 .. n : new[i] = IF i <= n - first + 1 THEN front[i]
                                ELSE back[i - (n - first + 1)]
  <2>1. Len(front) + Len(back) = n BY <1>1, <1>3, <1>5, <1>6
  <2>2. /\ front \o back \in Seq(Procs) /\ Len(front \o back) = Len(front) + Len(back)
        /\ \A i \in 1 .. Len(front) + Len(back) :
             (front \o back)[i] = IF i <= Len(front) THEN front[i] ELSE back[i - Len(front)]
    <3>1. front \in Seq(Procs) /\ back \in Seq(Procs) BY <1>5, <1>6
    <3> QED BY <3>1, ConcatProperties
  <2>3. Len(front) = n - first + 1 BY <1>5
  <2> QED BY <1>4, <2>1, <2>2, <2>3
<1>8. \A i \in 1 .. n : new[i] = queue[IF i <= n - first + 1 THEN first + i - 1
                                 ELSE i - (n - first + 1)]
  <2> SUFFICES ASSUME NEW i \in 1 .. n
               PROVE  new[i] = queue[IF i <= n - first + 1 THEN first + i - 1
                                     ELSE i - (n - first + 1)]
    OBVIOUS
  <2>1. CASE i <= n - first + 1
    <3>1. i \in 1 .. n - first + 1 BY <1>1, <1>3, <2>1
    <3> QED BY <1>5, <1>7, <2>1, <3>1
  <2>2. CASE ~(i <= n - first + 1)
    <3>1. i - (n - first + 1) \in 1 .. first - 1 BY <1>1, <1>3, <2>2
    <3> QED BY <1>6, <1>7, <2>2, <3>1
  <2> QED BY <2>1, <2>2
<1>9. new[1] = queue[first]
  <2>1. 1 \in 1 .. n /\ 1 <= n - first + 1 /\ first + 1 - 1 = first BY <1>1, <1>3
  <2> QED BY <1>8, <2>1
<1>10. \A i \in 2 .. n : new[i] # new[1]
  <2> SUFFICES ASSUME NEW i \in 2 .. n PROVE new[i] # queue[first] BY <1>9
  <2> DEFINE j == IF i <= n - first + 1 THEN first + i - 1 ELSE i - (n - first + 1)
  <2>1. i \in 1 .. n /\ j \in 1 .. n /\ j # first BY <1>1, <1>3
  <2>2. new[i] = queue[j] BY <1>8, <2>1
  <2> HIDE DEF j
  <2> QED BY <1>1, <1>3, <2>1, <2>2 DEF Distinct
<1> QED BY <1>1, <1>3, <1>7, <1>9, <1>10 DEF new

LEMMA Rotated ==
  ASSUME NEW queue \in Seq(Procs), \E i \in DOMAIN queue : ProcessReady(queue[i]), Distinct(queue)
  PROVE  LET last == Append(Tail(queue), Head(queue)) IN
         /\ last \in Seq(Procs) /\ Distinct(last)
         /\ \E i \in DOMAIN last : ProcessReady(last[i])
<1> DEFINE last == Append(Tail(queue), Head(queue))
           n == Len(queue)
<1>1. PICK i \in DOMAIN queue : ProcessReady(queue[i]) OBVIOUS
<1>2. n \in Nat /\ i \in 1 .. n /\ queue # <<>> BY <1>1
<1>3. /\ Head(queue) = queue[1] /\ Head(queue) \in Procs
      /\ Tail(queue) \in Seq(Procs) /\ Len(Tail(queue)) = n - 1
      /\ \A j \in 1 .. n - 1 : Tail(queue)[j] = queue[j + 1]
  BY <1>2, HeadTailProperties
<1>4. /\ last \in Seq(Procs) /\ Len(last) = n
      /\ \A j \in 1 .. n - 1 : last[j] = queue[j + 1]
      /\ last[n] = queue[1]
  <2>1. /\ last \in Seq(Procs) /\ Len(last) = Len(Tail(queue)) + 1
        /\ \A j \in 1 .. Len(Tail(queue)) : last[j] = Tail(queue)[j]
        /\ last[Len(Tail(queue)) + 1] = Head(queue)
    BY <1>3, AppendProperties
  <2>2. (n - 1) + 1 = n BY <1>2
  <2> HIDE DEF last
  <2> QED BY <1>3, <2>1, <2>2
<1>5. DOMAIN queue = 1 .. n OBVIOUS
<1> HIDE DEF last, n
<1>6. DOMAIN last = 1 .. n BY <1>4
<1>7. \E j \in DOMAIN last : ProcessReady(last[j])
  <2>1. CASE i = 1
    <3>1. n \in 1 .. n BY <1>2
    <3> QED BY <1>1, <1>4, <1>6, <2>1, <3>1
  <2>2. CASE i # 1
    <3>1. i - 1 \in 1 .. n - 1 /\ i - 1 \in 1 .. n /\ (i - 1) + 1 = i BY <1>2, <2>2
    <3>2. last[i - 1] = queue[i] BY <1>4, <3>1
    <3> QED BY <1>1, <1>6, <3>1, <3>2
  <2> QED BY <2>1, <2>2
<1>8. Distinct(last)
  <2> SUFFICES ASSUME NEW j \in 1 .. n, NEW k \in 1 .. n, j # k PROVE last[j] # last[k]
    BY <1>6 DEF Distinct
  <2> DEFINE from(x) == IF x = n THEN 1 ELSE x + 1
  <2>1. \A x \in 1 .. n : from(x) \in 1 .. n /\ last[x] = queue[from(x)]
    <3> SUFFICES ASSUME NEW x \in 1 .. n PROVE from(x) \in 1 .. n /\ last[x] = queue[from(x)]
      OBVIOUS
    <3>1. CASE x = n BY <1>2, <1>4, <3>1
    <3>2. CASE x # n
      <4>1. x \in 1 .. n - 1 /\ x + 1 \in 1 .. n BY <1>2, <3>2
      <4> QED BY <1>4, <3>2, <4>1
    <3> QED BY <3>1, <3>2
  <2>2. from(j) # from(k) BY <1>2
  <2> HIDE DEF from
  <2> QED BY <1>5, <2>1, <2>2 DEF Distinct
<1> QED BY <1>4, <1>7, <1>8 DEF last

(* ... of which the first is resumed and the others are suspended.         *)
LEMMA SwitchProcessAgrees ==
  ASSUME SchedInv, UNCHANGED entryVars, NEW queue \in Seq(Procs), Len(queue) >= 1,
         SwitchProcess(queue)
  PROVE  Decided
<1> DEFINE others == {queue[i] : i \in 2 .. Len(queue)}
           R == halted[queue[1]]
           S == UNION {running[p] : p \in others}
<1>1. Len(queue) \in Nat /\ \A i \in 1 .. Len(queue) : queue[i] \in Procs OBVIOUS
<1>2. queue[1] \in Procs /\ others \subseteq Procs
  <2>1. 1 \in 1 .. Len(queue) BY <1>1
  <2>2. \A i \in 2 .. Len(queue) : i \in 1 .. Len(queue) BY <1>1
  <2> QED BY <1>1, <2>1, <2>2
<1>3. \A p \in Procs : /\ halted[p] \subseteq known \cap suspended
                       /\ running[p] \subseteq known \ suspended
  BY DEF SchedInv, TablesAgree
<1> HIDE DEF others
<1>4. R \in SUBSET known /\ S \in SUBSET known /\ R \cap S = {} BY <1>2, <1>3
<1>5. Assign(R, S) BY DEF SwitchProcess, others
<1> HIDE DEF R, S
<1>6. TableType' /\ TablesAgree' BY <1>4, <1>5, AssignAgrees DEF SchedInv
<1>7. pol' = [[pol EXCEPT !.queue = queue, !.turn = queue[1]] EXCEPT !.slice = SliceTicks]
  BY DEF SwitchProcess, StartSlice
<1>8. PolicyType' BY <1>7 DEF PolicyType, PolicyFields, SchedInv
<1> QED BY <1>6, <1>8 DEF Decided

LEMMA PUPAgrees == ASSUME SchedInv, UNCHANGED entryVars, PUPSched PROVE Decided
<1>1. PICK queue \in Refreshed(pol.queue) :
        \/ /\ KeepAll
           /\ \E turn : pol' = [pol EXCEPT !.queue = queue, !.turn = turn]
        \/ /\ \E i \in DOMAIN queue : ProcessReady(queue[i])
           /\ \/ SwitchProcess(Turned(queue))
              \/ SwitchProcess(Turned(Append(Tail(queue), Head(queue))))
  BY DEF PUPSched
<1>2. queue \in Seq(Procs) BY RefreshedType DEF SchedInv
<1>3. Distinct(queue) BY RefreshedAll DEF SchedInv
<1>4. CASE KeepAll /\ \E turn : pol' = [pol EXCEPT !.queue = queue, !.turn = turn]
  <2>1. PolicyType' BY <1>2, <1>4 DEF PolicyType, PolicyFields, SchedInv
  <2> QED BY <1>4, <2>1, KeepsAgree DEF KeepAll
<1>5. CASE /\ \E i \in DOMAIN queue : ProcessReady(queue[i])
           /\ SwitchProcess(Turned(queue))
  BY <1>2, <1>3, <1>5, TurnedFirst, SwitchProcessAgrees
<1>6. CASE /\ \E i \in DOMAIN queue : ProcessReady(queue[i])
           /\ SwitchProcess(Turned(Append(Tail(queue), Head(queue))))
  BY <1>2, <1>3, <1>6, Rotated, TurnedFirst, SwitchProcessAgrees
<1> QED BY <1>1, <1>4, <1>5, <1>6

(* Whatever the policy, a round keeps the tables in step.                  *)
LEMMA SchedAgrees == ASSUME SchedInv, UNCHANGED entryVars, Sched PROVE Decided
  BY PriorityPolicies, UPAgrees, PUPAgrees DEF Sched

-----------------------------------------------------------------------------
(* What an event does to the tables.                                       *)
LEMMA CreateAgrees ==
  ASSUME TableType, TablesAgree, NEW q \in Queues, q \notin known,
         NEW d, NEW r, NEW a, CreateXQueueStatus(q, d, r, a)
  PROVE  TableType' /\ TablesAgree'
<1>1. Pid[q] \in Procs BY PidAssumption
<1>2. /\ known' = known \cup {q} /\ suspended' = suspended \ {q}
      /\ procs' = procs \cup {Pid[q]} /\ halted' = halted
      /\ running' = [running EXCEPT ![Pid[q]] = @ \cup {q}]
      /\ ready' \subseteq ready \cup {q}
  BY DEF CreateXQueueStatus
<1>3. TableType' BY <1>1, <1>2 DEF TableType
<1>4. ASSUME NEW p \in Procs
      PROVE  /\ running'[p] = {x \in known' \ suspended' : Pid[x] = p}
             /\ halted'[p] = {x \in known' \cap suspended' : Pid[x] = p}
             /\ running'[p] \cup halted'[p] # {} => p \in procs'
  <2>1. /\ running[p] = {x \in known \ suspended : Pid[x] = p}
        /\ halted[p] = {x \in known \cap suspended : Pid[x] = p}
        /\ running[p] \cup halted[p] # {} => p \in procs
    BY DEF TablesAgree
  <2>2. running'[p] = IF p = Pid[q] THEN running[p] \cup {q} ELSE running[p]
    BY <1>1, <1>2 DEF TableType
  <2> QED BY <1>2, <2>1, <2>2 DEF TablesAgree
<1> QED BY <1>2, <1>3, <1>4 DEF TablesAgree

(* Queues that all of a sudden are gone, with what was said of them.       *)
LEMMA ForgetAgrees ==
  ASSUME TableType, TablesAgree, NEW S \in SUBSET Queues, Forget(S),
         running' = [p \in Procs |-> running[p] \ S],
         halted' = [p \in Procs |-> halted[p] \ S],
         procs' \in SUBSET procs,
         \A p \in Procs : p \in procs => p \in procs' \/ running[p] \cup halted[p] \subseteq S
  PROVE  TableType' /\ TablesAgree'
<1>1. known' = known \ S /\ suspended' = suspended \ S /\ ready' = ready \ S BY DEF Forget
<1>2. TableType' BY <1>1 DEF TableType
<1>3. ASSUME NEW p \in Procs
      PROVE  /\ running'[p] = {x \in known' \ suspended' : Pid[x] = p}
             /\ halted'[p] = {x \in known' \cap suspended' : Pid[x] = p}
             /\ running'[p] \cup halted'[p] # {} => p \in procs'
  <2>1. /\ running[p] = {x \in known \ suspended : Pid[x] = p}
        /\ halted[p] = {x \in known \cap suspended : Pid[x] = p}
        /\ running[p] \cup halted[p] # {} => p \in procs
    BY DEF TablesAgree
  <2>2. running'[p] = running[p] \ S /\ halted'[p] = halted[p] \ S OBVIOUS
  <2> QED BY <1>1, <2>1, <2>2
<1> QED BY <1>1, <1>2, <1>3 DEF TablesAgree

LEMMA DestroyXQueueAgrees ==
  ASSUME TableType, TablesAgree, NEW q \in Queues, DestroyXQueue(q)
  PROVE  TableType' /\ TablesAgree'
<1>1. CASE q \notin known
  BY <1>1 DEF DestroyXQueue, tableVars, TableType, TablesAgree
<1>2. CASE q \in known
  <2>1. Pid[q] \in Procs BY PidAssumption
  <2>2. /\ running' = [running EXCEPT ![Pid[q]] = @ \ {q}]
        /\ halted' = [halted EXCEPT ![Pid[q]] = @ \ {q}]
        /\ Forget({q}) /\ procs' = procs
    BY <1>2 DEF DestroyXQueue
  <2>3. \A p \in Procs : p # Pid[q] => q \notin running[p] /\ q \notin halted[p]
    BY DEF TablesAgree
  <2>4. running' = [p \in Procs |-> running[p] \ {q}] BY <2>1, <2>2, <2>3 DEF TableType
  <2>5. halted' = [p \in Procs |-> halted[p] \ {q}] BY <2>1, <2>2, <2>3 DEF TableType
  <2> QED BY <2>2, <2>4, <2>5, ForgetAgrees
<1> QED BY <1>1, <1>2

LEMMA DestroyProcessAgrees ==
  ASSUME TableType, TablesAgree, NEW p \in Procs, DestroyProcess(p)
  PROVE  TableType' /\ TablesAgree'
<1>1. CASE p \notin procs
  BY <1>1 DEF DestroyProcess, tableVars, TableType, TablesAgree
<1>2. CASE p \in procs
  <2> DEFINE S == running[p] \cup halted[p]
  <2>1. /\ running' = [running EXCEPT ![p] = {}] /\ halted' = [halted EXCEPT ![p] = {}]
        /\ Forget(S) /\ procs' = procs \ {p}
    BY <1>2 DEF DestroyProcess
  <2>2. S \in SUBSET Queues BY DEF TableType
  <2>3. \A r \in Procs : r # p => running[r] \cap S = {} /\ halted[r] \cap S = {}
    BY DEF TablesAgree
  <2>4. running' = [r \in Procs |-> running[r] \ S] BY <2>1, <2>3 DEF TableType
  <2>5. halted' = [r \in Procs |-> halted[r] \ S] BY <2>1, <2>3 DEF TableType
  <2>6. \A r \in Procs : r \in procs => r \in procs' \/ running[r] \cup halted[r] \subseteq S
    BY <2>1
  <2>7. procs' \in SUBSET procs BY <2>1
  <2> HIDE DEF S
  <2> QED BY <2>1, <2>2, <2>4, <2>5, <2>6, <2>7, ForgetAgrees
<1> QED BY <1>1, <1>2

(* A hint changes neither the fields of a policy nor its run queue.        *)
LEMMA HintType ==
  ASSUME PolicyType, NEW h, pol' = RecvHint(h)
  PROVE  PolicyType'
<1>1. ASSUME NEW x
      PROVE  DOMAIN ForQueue(x) = PolicyFields /\ ForQueue(x).queue = pol.queue
  <2> DEFINE hints == [pol.hints EXCEPT ![x.q] = x.value]
  <2>1. ForQueue(x) = [pol EXCEPT !.hints = hints] BY Zenon DEF ForQueue
  <2> HIDE DEF hints
  <2> QED BY <2>1 DEF PolicyType, PolicyFields
<1>2. ASSUME NEW x
      PROVE  DOMAIN RecvWindow(x) = PolicyFields /\ RecvWindow(x).queue = pol.queue
  <2> DEFINE active == (pol.active \ {pol.window[x.display]}) \cup {x.pid}
             window == [pol.window EXCEPT ![x.display] = x.pid]
  <2>1. RecvWindow(x) = [pol EXCEPT !.active = active, !.window = window]
    BY DEF RecvWindow, PolicyType, PolicyFields
  <2> HIDE DEF active, window
  <2> QED BY <2>1 DEF PolicyType, PolicyFields
<1>3. ASSUME NEW v
      PROVE  DOMAIN [pol EXCEPT !.k = v] = PolicyFields /\ [pol EXCEPT !.k = v].queue = pol.queue
  BY DEF PolicyType, PolicyFields
<1>4. \/ \E x : pol' = ForQueue(x)
      \/ \E x : pol' = RecvWindow(x)
      \/ \E v : pol' = [pol EXCEPT !.k = v]
      \/ pol' = pol
  BY DEF RecvHint
<1> QED BY <1>1, <1>2, <1>3, <1>4 DEF PolicyType

LEMMA UpdateAgrees ==
  ASSUME SchedInv, NEW e, WellFormed(e), UpdateStatus(e)
  PROVE  Decided
<1>1. TableType /\ TablesAgree /\ PolicyType BY DEF SchedInv
<1>2. PolicyType'
  <2>1. pol' = RecvHint(e.hint) \/ pol' = pol BY DEF UpdateStatus
  <2> QED BY <1>1, <2>1, HintType DEF PolicyType
<1> SUFFICES TableType' /\ TablesAgree' BY <1>2 DEF Decided
<1>3. ASSUME UNCHANGED <<known, ready, suspended, procs, running, halted>>
      PROVE  TableType' /\ TablesAgree'
  BY <1>1, <1>3 DEF TableType, TablesAgree
<1>4. CASE e.type \in {"create", "config"}
  <2>1. e.q \in Queues /\ Configured(e.q, e.device) BY <1>4 DEF UpdateStatus, WellFormed
  <2> QED BY <1>1, <1>3, <2>1, CreateAgrees DEF Configured
<1>5. CASE e.type = "destroy"
  <2>1. e.q \in Queues /\ DestroyXQueue(e.q) BY <1>5 DEF UpdateStatus, WellFormed
  <2> QED BY <1>1, <2>1, DestroyXQueueAgrees
<1>6. CASE e.type = "ready"
  <2>1. e.q \in Queues /\ BecomesReady(e.q, e.age) BY <1>6 DEF UpdateStatus, WellFormed
  <2>2. CASE e.q \notin known
    BY <1>1, <2>1, <2>2, CreateAgrees DEF BecomesReady
  <2>3. CASE e.q \in known
    <3>1. /\ UNCHANGED <<known, suspended, procs, running, halted>>
          /\ ready' = ready \cup {e.q}
      BY <2>1, <2>3 DEF BecomesReady
    <3>2. ready' \subseteq known BY <1>1, <2>3, <3>1 DEF TablesAgree
    <3> QED BY <1>1, <3>1, <3>2 DEF TableType, TablesAgree
  <2> QED BY <2>2, <2>3
<1>7. CASE e.type = "idle"
  <2>1. e.q \in Queues /\ BecomesIdle(e.q) BY <1>7 DEF UpdateStatus, WellFormed
  <2>2. CASE e.q \notin known
    BY <1>1, <2>1, <2>2, CreateAgrees DEF BecomesIdle
  <2>3. CASE e.q \in known
    BY <1>1, <2>1, <2>3 DEF BecomesIdle, TableType, TablesAgree
  <2> QED BY <2>2, <2>3
<1>8. CASE e.type = "process_destroy"
  <2>1. e.pid \in Procs /\ DestroyProcess(e.pid) BY <1>8 DEF UpdateStatus, WellFormed
  <2> QED BY <1>1, <2>1, DestroyProcessAgrees
<1>9. CASE e.type = "process_create"
  <2>1. /\ e.pid \in Procs /\ procs' = procs \cup {e.pid}
        /\ UNCHANGED <<known, ready, suspended, running, halted>>
    BY <1>9 DEF UpdateStatus, WellFormed
  <2> QED BY <1>1, <2>1 DEF TableType, TablesAgree
<1>10. CASE e.type \notin {"create", "config", "destroy", "ready", "idle",
                           "process_create", "process_destroy"}
  <2>1. UNCHANGED tableVars BY <1>10 DEF UpdateStatus
  <2> QED BY <1>3, <2>1 DEF tableVars
<1> QED BY <1>4, <1>5, <1>6, <1>7, <1>8, <1>9, <1>10

-----------------------------------------------------------------------------
(* The steps of the scheduler, for the specifications that contain it.     *)
LEMMA SchedStarts == ASSUME SchedInit, Sane(event_queue) PROVE SchedInv
<1>1. TableType BY DEF SchedInit, TableType
<1>2. DOMAIN pol = PolicyFields /\ pol.queue = <<>>
  BY DEF SchedInit, CreatePolicy, PolicyFields
<1>3. PolicyType BY <1>2 DEF PolicyType
<1>4. TablesAgree BY DEF SchedInit, TablesAgree
<1> QED BY <1>1, <1>3, <1>4, NoEvents DEF SchedInv, SchedInit

LEMMA Undisturbed ==
  ASSUME SchedInv, Sane(event_queue'), UNCHANGED <<tableVars, pol, tmp_queue>>
  PROVE  SchedInv'
  BY DEF SchedInv, TableType, PolicyType, TablesAgree, tableVars, Sane

LEMMA EventsCome ==
  ASSUME SchedInv, NEW es, Sane(es), RecvEvents(es), UNCHANGED <<tableVars, pol, tmp_queue>>
  PROVE  SchedInv'
<1>1. Sane(event_queue') BY MoreEvents DEF RecvEvents, SchedInv
<1> QED BY <1>1, Undisturbed

LEMMA WorkerSteps == ASSUME SchedInv, Worker PROVE SchedInv'
<1>1. CASE Take
  <2>1. /\ tmp_queue' = event_queue /\ event_queue' = <<>>
        /\ UNCHANGED <<tableVars, pol>>
    BY <1>1 DEF Take, policyVars
  <2>2. TableType' /\ PolicyType' /\ TablesAgree'
    BY <2>1 DEF SchedInv, TableType, PolicyType, TablesAgree, tableVars
  <2> QED BY <2>1, <2>2, NoEvents DEF SchedInv
<1>2. CASE TimerFires
  BY <1>2, Undisturbed DEF TimerFires, SchedInv
<1>3. CASE Update
  <2>1. /\ tmp_queue # <<>> /\ UpdateStatus(Head(tmp_queue))
        /\ tmp_queue' = Tail(tmp_queue) /\ event_queue' = event_queue
    BY <1>3 DEF Update
  <2>2. WellFormed(Head(tmp_queue)) /\ Sane(Tail(tmp_queue))
    BY <2>1, FewerEvents DEF SchedInv
  <2>3. Decided BY <2>1, <2>2, UpdateAgrees
  <2> QED BY <2>1, <2>2, <2>3 DEF Decided, SchedInv
<1>4. CASE Round
  <2>1. Sched /\ UNCHANGED <<entryVars, tmp_queue, event_queue>> BY <1>4 DEF Round
  <2>2. Decided BY <2>1, SchedAgrees
  <2> QED BY <2>1, <2>2 DEF Decided, SchedInv
<1>5. CASE EndRound
  BY <1>5, Undisturbed DEF EndRound, policyVars, SchedInv
<1> QED BY <1>1, <1>2, <1>3, <1>4, <1>5 DEF Worker

LEMMA TickSteps == ASSUME SchedInv, Tick PROVE SchedInv'
<1>1. /\ UNCHANGED <<known, ready, suspended, procs, running, halted, tmp_queue>>
      /\ event_queue' = OlderEvents(event_queue) \/ event_queue' = event_queue
  BY DEF Tick
<1>2. Sane(event_queue') /\ Sane(tmp_queue') BY <1>1, OldEvents DEF SchedInv
<1>3. TableType' /\ TablesAgree' BY <1>1 DEF SchedInv, TableType, TablesAgree
<1>4. pol' = [pol EXCEPT !.slice = IF @ > 0 THEN @ - 1 ELSE 0] BY DEF Tick
<1>5. PolicyType' BY <1>4 DEF SchedInv, PolicyType, PolicyFields
<1> QED BY <1>2, <1>3, <1>5 DEF SchedInv

LEMMA SetPolicySteps == ASSUME SchedInv, NEW type, SetPolicy(type) PROVE SchedInv'
<1>1. WellFormed(SchedulerTerminate) BY DEF WellFormed, SchedulerTerminate
<1>2. Sane(<<SchedulerTerminate>>) BY <1>1, OneEvent
<1> QED BY <1>2, EventsCome DEF SetPolicy, RecvEvent, policyVars, workerVars

LEMMA ReplacePolicySteps == ASSUME SchedInv, ReplacePolicy PROVE SchedInv'
<1>1. /\ Assign(known, {}) /\ UNCHANGED <<entryVars, tmp_queue, event_queue>>
      /\ pol' = CreatePolicy
  BY DEF ReplacePolicy
<1>2. TableType' /\ TablesAgree' BY <1>1, AssignAgrees DEF SchedInv
<1>3. DOMAIN pol' = PolicyFields /\ pol'.queue = <<>>
  BY <1>1 DEF CreatePolicy, PolicyFields
<1>4. PolicyType' BY <1>3 DEF PolicyType
<1> QED BY <1>1, <1>2, <1>4 DEF SchedInv

-----------------------------------------------------------------------------
(* What the scheduler will know once it has worked through the events that *)
(* are under way: of those that matter to a question, a set S, the last    *)
(* one counts.  No event of S; an event of A after the last one of S;      *)
(* those of A before all others of S.                                      *)
Silent(es, S)    == \A i \in 1 .. Len(es) : es[i] \notin S
LastIn(es, S, A) == \E i \in 1 .. Len(es) :
                      es[i] \in A /\ \A j \in i + 1 .. Len(es) : es[j] \notin S
FirstIn(es, S, A) == \A i \in 1 .. Len(es) :
                      es[i] \in A => \A j \in 1 .. i - 1 : es[j] \notin S

LEMMA NoneYet == \A S, A : Silent(<<>>, S) /\ ~LastIn(<<>>, S, A) /\ FirstIn(<<>>, S, A)
  BY DEF Silent, LastIn, FirstIn

LEMMA OneMore ==
  ASSUME NEW Ev, NEW es \in Seq(Ev), NEW e \in Ev, NEW S, NEW A
  PROVE  LET new == Append(es, e) IN
         /\ new \in Seq(Ev)
         /\ Silent(new, S) <=> Silent(es, S) /\ e \notin S
         /\ e \notin S /\ LastIn(es, S, A) => LastIn(new, S, A)
         /\ e \in A => LastIn(new, S, A)
         /\ FirstIn(es, S, A) /\ (e \in A => Silent(es, S)) => FirstIn(new, S, A)
<1> DEFINE new == Append(es, e)
           n == Len(es)
<1>1. /\ n \in Nat /\ new \in Seq(Ev) /\ Len(new) = n + 1
      /\ \A i \in 1 .. n : new[i] = es[i]
      /\ new[n + 1] = e
  BY AppendProperties
<1> HIDE DEF new, n
<1>2. Silent(new, S) <=> Silent(es, S) /\ e \notin S
  <2>1. \A i : i \in 1 .. n + 1 <=> i \in 1 .. n \/ i = n + 1 BY <1>1
  <2>2. Silent(new, S) <=> \A i \in 1 .. n + 1 : new[i] \notin S BY <1>1 DEF Silent
  <2>3. Silent(es, S) <=> \A i \in 1 .. n : es[i] \notin S BY DEF Silent, n
  <2> QED BY <1>1, <2>1, <2>2, <2>3
<1>3. ASSUME e \notin S, LastIn(es, S, A) PROVE LastIn(new, S, A)
  <2>1. PICK i \in 1 .. n : es[i] \in A /\ \A j \in i + 1 .. n : es[j] \notin S
    BY <1>3 DEF LastIn, n
  <2>2. i \in 1 .. Len(new) /\ new[i] \in A BY <1>1, <2>1
  <2>3. \A j \in i + 1 .. Len(new) : new[j] \notin S BY <1>1, <1>3, <2>1
  <2> QED BY <2>2, <2>3 DEF LastIn
<1>4. ASSUME e \in A PROVE LastIn(new, S, A)
  <2>1. n + 1 \in 1 .. Len(new) /\ \A j \in n + 2 .. Len(new) : new[j] \notin S BY <1>1
  <2>2. (n + 1) + 1 = n + 2 BY <1>1
  <2> QED BY <1>1, <1>4, <2>1, <2>2 DEF LastIn
<1>5. ASSUME FirstIn(es, S, A), e \in A => Silent(es, S) PROVE FirstIn(new, S, A)
  <2> SUFFICES ASSUME NEW i \in 1 .. n + 1, new[i] \in A, NEW j \in 1 .. i - 1
               PROVE  new[j] \notin S
    BY <1>1 DEF FirstIn
  <2>1. j \in 1 .. n /\ new[j] = es[j] BY <1>1
  <2>2. CASE i = n + 1 BY <1>1, <1>5, <2>1, <2>2 DEF Silent, n
  <2>3. CASE i # n + 1
    <3>1. i \in 1 .. n /\ es[i] \in A BY <1>1, <2>3
    <3> QED BY <1>5, <2>1, <3>1 DEF FirstIn, n
  <2> QED BY <2>2, <2>3
<1> QED BY <1>1, <1>2, <1>3, <1>4, <1>5 DEF new

LEMMA OneLess ==
  ASSUME NEW Ev, NEW es \in Seq(Ev), es # <<>>, NEW S, NEW A
  PROVE  /\ Head(es) \in Ev /\ Head(es) = es[1] /\ Tail(es) \in Seq(Ev)
         /\ Silent(es, S) <=> Head(es) \notin S /\ Silent(Tail(es), S)
         /\ LastIn(es, S, A) =>
              LastIn(Tail(es), S, A) \/ (Head(es) \in A /\ Silent(Tail(es), S))
         /\ FirstIn(es, S, A) =>
              FirstIn(Tail(es), S, A) /\ (Head(es) \in S => Silent(Tail(es), A))
<1> DEFINE new == Tail(es)
           n == Len(es)
<1>1. /\ n \in Nat \ {0} /\ new \in Seq(Ev) /\ Len(new) = n - 1
      /\ \A i \in 1 .. n - 1 : new[i] = es[i + 1]
      /\ Head(es) \in Ev /\ Head(es) = es[1]
  BY HeadTailProperties, EmptySeq
<1> HIDE DEF new, n
<1>2. \A i \in 2 .. n : i - 1 \in 1 .. n - 1 /\ new[i - 1] = es[i]
  <2> TAKE i \in 2 .. n
  <2>1. i - 1 \in 1 .. n - 1 /\ (i - 1) + 1 = i BY <1>1
  <2> QED BY <1>1, <2>1
<1>3. Silent(es, S) <=> Head(es) \notin S /\ Silent(new, S)
  <2>1. Silent(es, S) <=> \A i \in 1 .. n : es[i] \notin S BY DEF Silent, n
  <2>2. Silent(new, S) <=> \A i \in 1 .. n - 1 : es[i + 1] \notin S BY <1>1 DEF Silent
  <2>3. ASSUME es[1] \notin S, \A i \in 1 .. n - 1 : es[i + 1] \notin S, NEW i \in 1 .. n
        PROVE  es[i] \notin S
    <3>1. CASE i = 1 BY <2>3, <3>1
    <3>2. CASE i # 1
      <4>1. i \in 2 .. n BY <1>1, <3>2
      <4> QED BY <1>1, <1>2, <2>3, <4>1
    <3> QED BY <3>1, <3>2
  <2>4. \A i \in 1 .. n - 1 : i + 1 \in 1 .. n BY <1>1
  <2>5. 1 \in 1 .. n BY <1>1
  <2> QED BY <1>1, <2>1, <2>2, <2>3, <2>4, <2>5
<1>4. ASSUME LastIn(es, S, A)
      PROVE  LastIn(new, S, A) \/ (Head(es) \in A /\ Silent(new, S))
  <2>1. PICK i \in 1 .. n : es[i] \in A /\ \A j \in i + 1 .. n : es[j] \notin S
    BY <1>4 DEF LastIn, n
  <2>2. CASE i = 1
    <3>1. \A j \in 1 .. n - 1 : new[j] = es[j + 1] /\ j + 1 \in 1 + 1 .. n BY <1>1
    <3> QED BY <1>1, <2>1, <2>2, <3>1 DEF Silent
  <2>3. CASE i # 1
    <3>1. i - 1 \in 1 .. Len(new) /\ new[i - 1] \in A BY <1>1, <1>2, <2>1, <2>3
    <3>2. \A j \in (i - 1) + 1 .. Len(new) : new[j] = es[j + 1] /\ j + 1 \in i + 1 .. n
      BY <1>1, <2>3
    <3> QED BY <2>1, <3>1, <3>2 DEF LastIn
  <2> QED BY <2>2, <2>3
<1>5. ASSUME FirstIn(es, S, A)
      PROVE  FirstIn(new, S, A) /\ (Head(es) \in S => Silent(new, A))
  <2>1. \A i \in 1 .. n : es[i] \in A => \A j \in 1 .. i - 1 : es[j] \notin S
    BY <1>5 DEF FirstIn, n
  <2>2. ASSUME NEW i \in 1 .. n - 1, new[i] \in A, NEW j \in 1 .. i - 1 PROVE new[j] \notin S
    <3>1. i + 1 \in 1 .. n /\ j + 1 \in 1 .. (i + 1) - 1 /\ j \in 1 .. n - 1 BY <1>1
    <3> QED BY <1>1, <2>1, <2>2, <3>1
  <2>3. ASSUME NEW i \in 1 .. n - 1, new[i] \in A PROVE Head(es) \notin S
    <3>1. i + 1 \in 1 .. n /\ 1 \in 1 .. (i + 1) - 1 BY <1>1
    <3> QED BY <1>1, <2>1, <2>3, <3>1
  <2> QED BY <1>1, <2>2, <2>3 DEF FirstIn, Silent
<1> QED BY <1>1, <1>3, <1>4, <1>5 DEF new

(* Time passes: a ready event grows older and still says the same.         *)
OlderEvent(e) == IF e.type = "ready" THEN [e EXCEPT !.age = Older(@)] ELSE e

LEMMA OlderKept ==
  ASSUME NEW Ev, NEW es \in Seq(Ev), NEW S, NEW A,
         \A e \in Ev : /\ OlderEvent(e) \in Ev
                       /\ OlderEvent(e) \in S <=> e \in S
                       /\ OlderEvent(e) \in A <=> e \in A
  PROVE  LET new == OlderEvents(es) IN
         /\ new \in Seq(Ev)
         /\ Silent(new, S) <=> Silent(es, S)
         /\ LastIn(new, S, A) <=> LastIn(es, S, A)
         /\ FirstIn(new, S, A) <=> FirstIn(es, S, A)
<1> DEFINE new == OlderEvents(es)
           n == Len(es)
<1>1. n \in Nat /\ \A i \in 1 .. n : es[i] \in Ev OBVIOUS
<1>2. new = [i \in 1 .. n |-> OlderEvent(es[i])] BY DEF OlderEvents, OlderEvent
<1> HIDE DEF new, n
<1>3. new \in Seq(Ev) /\ Len(new) = n BY <1>1, <1>2
<1>4. \A i \in 1 .. n : (new[i] \in S <=> es[i] \in S) /\ (new[i] \in A <=> es[i] \in A)
  BY <1>1, <1>2
<1>5. Silent(new, S) <=> Silent(es, S) BY <1>3, <1>4 DEF Silent, n
<1>6. LastIn(new, S, A) <=> LastIn(es, S, A)
  <2>1. \A i \in 1 .. n : \A j \in i + 1 .. n : j \in 1 .. n BY <1>1
  <2> QED BY <1>3, <1>4, <2>1 DEF LastIn, n
<1>7. FirstIn(new, S, A) <=> FirstIn(es, S, A)
  <2>1. \A i \in 1 .. n : \A j \in 1 .. i - 1 : j \in 1 .. n BY <1>1
  <2> QED BY <1>3, <1>4, <2>1 DEF FirstIn, n
<1> QED BY <1>3, <1>5, <1>6, <1>7 DEF new

-----------------------------------------------------------------------------
(* The questions the invariants ask have one answer after the other: the   *)
(* last event of S in evs counts, without one the last in tmp, and without *)
(* one there, what the tables say (b).                                     *)
Settled(evs, tmp, S, A, b) ==
  \/ LastIn(evs, S, A)
  \/ Silent(evs, S) /\ (LastIn(tmp, S, A) \/ (Silent(tmp, S) /\ b))

LEMMA SettledEnters ==
  ASSUME NEW Ev, NEW evs \in Seq(Ev), NEW tmp, NEW e \in Ev, NEW S, NEW A,
         NEW b \in BOOLEAN, e \in A \/ (e \notin S /\ Settled(evs, tmp, S, A, b))
  PROVE  Settled(Append(evs, e), tmp, S, A, b)
  BY OneMore DEF Settled

LEMMA SettledTaken ==
  ASSUME NEW evs, NEW S, NEW A, NEW b \in BOOLEAN, Settled(evs, <<>>, S, A, b)
  PROVE  Settled(<<>>, evs, S, A, b)
  BY NoneYet DEF Settled

LEMMA SettledApplied ==
  ASSUME NEW Ev, NEW evs, NEW tmp \in Seq(Ev), tmp # <<>>, NEW S, NEW A,
         NEW b \in BOOLEAN, NEW c \in BOOLEAN, Settled(evs, tmp, S, A, b),
         Head(tmp) \in A => c, b /\ Head(tmp) \notin S => c
  PROVE  Settled(evs, Tail(tmp), S, A, c)
  BY OneLess DEF Settled
=============================================================================
