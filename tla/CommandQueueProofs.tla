------------------------- MODULE CommandQueueProofs -------------------------
(***************************************************************************)
(* What the promises of CommandQueue amount to, for any set of indices.    *)
(***************************************************************************)
EXTENDS CommandQueue, SequenceTheorems, TLAPS

LEMMA TypeStep ==
  ASSUME Idx \subseteq Nat, TypeOK, [Next]_vars
  PROVE  TypeOK'
  <1>0. ASSUME NEW S, submitted \subseteq S PROVE executed \in Seq(S)
    <2>1. executed \in [1 .. Len(executed) -> submitted] /\ Len(executed) \in Nat
      BY LenProperties DEF TypeOK
    <2> QED BY <1>0, <2>1
  <1>1. ASSUME NEW i \in Idx, Submit(i)
        PROVE  TypeOK'
    BY <1>0, <1>1 DEF Submit, TypeOK
  <1>2. ASSUME NEW i \in submitted, Execute(i)
        PROVE  TypeOK'
    BY <1>2, AppendProperties DEF Execute, TypeOK
  <1>3. ASSUME NEW S \in SUBSET submitted, Report(S) \/ GiveUp(S)
        PROVE  TypeOK'
    BY <1>3 DEF Report, GiveUp, TypeOK
  <1>4. CASE UNCHANGED vars
    BY <1>4 DEF vars, TypeOK
  <1> QED BY <1>1, <1>2, <1>3, <1>4 DEF Next

(* Every command that has an effect was submitted first.                   *)
THEOREM TypeCorrect == ASSUME Idx \subseteq Nat PROVE Spec => []TypeOK
  <1>1. Init => TypeOK
    BY DEF Init, TypeOK
  <1>2. TypeOK /\ [Next]_vars => TypeOK'
    BY TypeStep
  <1> QED BY <1>1, <1>2, PTL DEF Spec

LEMMA OverStep ==
  ASSUME TypeOK, [Next]_vars, NEW j, Over(j)
  PROVE  Over(j)'
  <1>1. executed \in Seq(submitted)
    BY DEF TypeOK
  <1>2. executed' = executed \/ \E i \in submitted : executed' = Append(executed, i)
    BY DEF Next, Submit, Execute, Report, GiveUp, vars
  <1>3. given_up \subseteq given_up'
    BY DEF Next, Submit, Execute, Report, GiveUp, vars
  <1>4. Ran(j) => Ran(j)'
    <2> SUFFICES ASSUME NEW p \in DOMAIN executed, executed[p] = j
                 PROVE  \E q \in DOMAIN executed' : executed'[q] = j
      BY DEF Ran, ToSet
    <2>1. p \in DOMAIN executed' /\ executed'[p] = executed[p]
      BY <1>1, <1>2, AppendProperties
    <2> QED BY <2>1
  <1> QED BY <1>3, <1>4 DEF Over

(* A command is reported completed only after it and everything submitted  *)
(* before it has run or been given up: it stays so, as later submissions   *)
(* get higher indices.                                                     *)
THEOREM CompletedOver == ASSUME Idx \subseteq Nat PROVE Spec => []CompletedAreOver
  <1>1. Init => TypeOK /\ CompletedAreOver
    BY DEF Init, TypeOK, CompletedAreOver
  <1>2. TypeOK /\ CompletedAreOver /\ [Next]_vars => (TypeOK /\ CompletedAreOver)'
    <2> SUFFICES ASSUME TypeOK, CompletedAreOver, [Next]_vars
                 PROVE  TypeOK' /\ CompletedAreOver'
      OBVIOUS
    <2>1. TypeOK'
      BY TypeStep
    <2>2. ASSUME NEW i \in Idx, Submit(i)
          PROVE  CompletedAreOver'
      <3>1. completed \subseteq submitted /\ submitted \subseteq Nat /\ i \in Nat
        BY DEF TypeOK
      <3>2. \A c \in completed : ~(i <= c)
        BY <2>2, <3>1 DEF Submit
      <3>3. \A j : Over(j) => Over(j)'
        BY OverStep
      <3>4. submitted' = submitted \cup {i} /\ completed' = completed /\ given_up' = given_up
        BY <2>2 DEF Submit
      <3> QED BY <3>2, <3>3, <3>4 DEF CompletedAreOver
    <2>3. CASE UNCHANGED submitted
      <3>1. \A j : Over(j) => Over(j)'
        BY OverStep
      <3>2. given_up \subseteq given_up'
        BY DEF Next, Submit, Execute, Report, GiveUp, vars
      <3>3. \A c \in completed' : \/ c \in completed \/ c \in given_up'
                                 \/ \A j \in submitted : j <= c => Over(j)
        BY DEF Next, Submit, Execute, Report, GiveUp, vars
      <3> QED BY <2>1, <2>3, <3>1, <3>2, <3>3 DEF CompletedAreOver
    <2>4. (\E i \in Idx : Submit(i)) \/ UNCHANGED submitted
      BY DEF Next, Execute, Report, GiveUp, vars
    <2> QED BY <2>1, <2>2, <2>3, <2>4
  <1> QED BY <1>1, <1>2, PTL DEF Spec

(* Commands run in submission order, and none that cannot be repeated runs *)
(* twice.                                                                  *)
THEOREM RunsOrdered == ASSUME Idx \subseteq Nat PROVE Spec => []RunInOrder
  <1>1. Init => TypeOK /\ RunInOrder
    BY DEF Init, TypeOK, RunInOrder
  <1>2. TypeOK /\ RunInOrder /\ [Next]_vars => (TypeOK /\ RunInOrder)'
    <2> SUFFICES ASSUME TypeOK, RunInOrder, [Next]_vars
                 PROVE  TypeOK' /\ RunInOrder'
      OBVIOUS
    <2>1. TypeOK'
      BY TypeStep
    <2>2. ASSUME NEW i \in submitted, Execute(i)
          PROVE  RunInOrder'
      <3>1. /\ executed \in Seq(submitted) /\ executed' = Append(executed, i)
            /\ repeatable' = repeatable
        BY <2>2 DEF Execute, TypeOK
      <3>2. /\ Len(executed) \in Nat /\ DOMAIN executed = 1 .. Len(executed)
            /\ DOMAIN executed' = 1 .. Len(executed) + 1
            /\ \A p \in DOMAIN executed : executed'[p] = executed[p]
            /\ executed'[Len(executed) + 1] = i
        BY <3>1, LenProperties
      <3>3. \A p \in DOMAIN executed : executed[p] \notin repeatable => executed[p] < i
        BY <2>2 DEF Execute, ToSet
      <3> QED BY <3>1, <3>2, <3>3 DEF RunInOrder
    <2>3. CASE UNCHANGED executed /\ repeatable \subseteq repeatable'
      BY <2>1, <2>3 DEF RunInOrder
    <2>4. \/ \E i \in submitted : Execute(i)
          \/ UNCHANGED executed /\ repeatable \subseteq repeatable'
      BY DEF Next, Submit, Report, GiveUp, vars
    <2> QED BY <2>1, <2>2, <2>3, <2>4
  <1> QED BY <1>1, <1>2, PTL DEF Spec
=============================================================================
