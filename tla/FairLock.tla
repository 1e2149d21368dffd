------------------------------ MODULE FairLock ------------------------------
(***************************************************************************)
(* What MCSLock promises its user (the launch workers): each lock is held  *)
(* by one thread at a time, and is handed on in the order in which the     *)
(* threads asked for it.                                                   *)
(***************************************************************************)
EXTENDS Sequences

CONSTANTS
  Threads,
  Locks

VARIABLES
  queue,     (* per lock: the threads that hold it or wait for it, in the  *)
             (* order in which they asked                                  *)
  inside     (* the threads that have been let in                          *)

vars == <<queue, inside>>

Init ==
  /\ queue = [l \in Locks |-> <<>>]
  /\ inside = {}

(* t asks for the lock l, and is let in at once only when nobody has it.   *)
Join(t, l) ==
  /\ \A m \in Locks : \A i \in DOMAIN queue[m] : queue[m][i] # t
  /\ queue' = [queue EXCEPT ![l] = Append(@, t)]
  /\ \/ inside' = inside
     \/ queue[l] = <<>> /\ inside' = inside \cup {t}

Enter(t, l) ==
  /\ queue[l] # <<>> /\ Head(queue[l]) = t
  /\ inside' = inside \cup {t}
  /\ UNCHANGED queue

Leave(t, l) ==
  /\ t \in inside
  /\ queue[l] # <<>> /\ Head(queue[l]) = t
  /\ queue' = [queue EXCEPT ![l] = Tail(@)]
  /\ inside' = inside \ {t}

Next ==
  \E t \in Threads, l \in Locks : Join(t, l) \/ Enter(t, l) \/ Leave(t, l)

Spec == Init /\ [][Next]_vars
=============================================================================
