-------------------------- MODULE SchedulableQueue --------------------------
(***************************************************************************)
(* What the scheduler relies on in an XQueue (LocalSystem and Server take  *)
(* it for granted): it is idle until a command is submitted, it reports    *)
(* that it is idle again only after all of them are completed, a pause     *)
(* loses none of them, it is destroyed only without commands, and while it *)
(* is not paused it comes to its end with them.                            *)
(***************************************************************************)
EXTENDS Integers

VARIABLES
  jobs,       (* commands submitted and not completed                      *)
  xq_state,   (* "Idle" or "Ready": the last event                         *)
  paused,     (* whether its worker is paused                              *)
  gone        (* whether it is destroyed                                   *)

vars == <<jobs, xq_state, paused, gone>>

Init == jobs = 0 /\ xq_state = "Idle" /\ paused = FALSE /\ gone = FALSE

Submit == ~gone /\ jobs' = jobs + 1 /\ xq_state' = "Ready" /\ UNCHANGED <<paused, gone>>

(* Several commands may complete at once, also while the queue is paused.  *)
Complete ==
  /\ jobs' \in 0 .. jobs - 1
  /\ UNCHANGED <<xq_state, paused, gone>>

ReportIdle ==
  /\ xq_state = "Ready" /\ jobs = 0
  /\ xq_state' = "Idle"
  /\ UNCHANGED <<jobs, paused, gone>>

Control == ~gone /\ paused' = ~paused /\ UNCHANGED <<jobs, xq_state, gone>>

Destruct ==
  /\ ~gone /\ jobs = 0
  /\ gone' = TRUE /\ xq_state' = "Idle" /\ paused' = FALSE
  /\ UNCHANGED jobs

Next == Submit \/ Complete \/ ReportIdle \/ Control \/ Destruct

Steps == Init /\ [][Next]_vars

(* A queue that has work and is not paused goes on.                        *)
Spec == Steps /\ WF_vars(~paused /\ (Complete \/ ReportIdle))
=============================================================================
