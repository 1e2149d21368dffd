---------------------------- MODULE CommandQueue ----------------------------
(***************************************************************************)
(* What an XQueue promises the application that submits commands to it     *)
(* (include/xsched/xqueue.h, preempt/README.md): however often the queue   *)
(* is suspended and resumed, the commands run in the order of submission,  *)
(* none of them twice unless it is repeatable, and a command is reported   *)
(* completed only after it and everything before it has run, or has been   *)
(* given up by a Resume that drops commands.                               *)
(***************************************************************************)
EXTENDS Integers, SequencesExt

CONSTANTS
  Idx          (* the indices that commands can have: natural numbers      *)

VARIABLES
  submitted,   (* the commands submitted, numbered in submission order     *)
  repeatable,  (* the idempotent ones among them                           *)
  executed,    (* the commands in the order in which they ran              *)
  completed,   (* the commands reported as completed                       *)
  given_up     (* the commands given up                                    *)

vars == <<submitted, repeatable, executed, completed, given_up>>

Ran(i)  == i \in ToSet(executed)
Over(i) == Ran(i) \/ i \in given_up

Init ==
  /\ submitted = {} /\ repeatable = {}
  /\ executed = <<>>
  /\ completed = {} /\ given_up = {}

Submit(i) ==
  /\ \A j \in submitted : j < i
  /\ submitted' = submitted \cup {i}
  /\ repeatable' \in {repeatable, repeatable \cup {i}}
  /\ UNCHANGED <<executed, completed, given_up>>

(* Nothing that counts ran after i, and nothing that counts before i is    *)
(* still to run.                                                           *)
Execute(i) ==
  /\ i \in submitted \ given_up
  /\ \A j \in ToSet(executed) \ repeatable : j < i
  /\ i \notin repeatable => \A j \in submitted \ repeatable : j < i => Over(j)
  /\ executed' = Append(executed, i)
  /\ UNCHANGED <<submitted, repeatable, completed, given_up>>

Report(S) ==
  /\ S \subseteq submitted
  /\ completed' = completed \cup S
  /\ \A i \in S : \A j \in submitted : j <= i => Over(j)
  /\ UNCHANGED <<submitted, repeatable, executed, given_up>>

GiveUp(S) ==
  /\ S \subseteq submitted
  /\ given_up' = given_up \cup S
  /\ completed' = completed \cup S
  /\ UNCHANGED <<submitted, repeatable, executed>>

Next ==
  \/ \E S \in SUBSET submitted : Report(S) \/ GiveUp(S)
  \/ \E i \in Idx : Submit(i)
  \/ \E i \in submitted : Execute(i)

Spec == Init /\ [][Next]_vars
-----------------------------------------------------------------------------
TypeOK ==
  /\ submitted \subseteq Idx
  /\ repeatable \subseteq submitted
  /\ executed \in Seq(submitted)
  /\ completed \subseteq submitted /\ given_up \subseteq submitted

(* A completed command has run, as has everything submitted before it,     *)
(* unless it was given up.                                                 *)
CompletedAreOver ==
  \A i \in completed : i \in given_up \/ \A j \in submitted : j <= i => Over(j)

(* Commands run in submission order, and none runs again after it, or      *)
(* after a later one, that cannot be repeated.                             *)
RunInOrder ==
  \A p, q \in DOMAIN executed :
    p < q /\ executed[p] \notin repeatable => executed[p] < executed[q]
=============================================================================
