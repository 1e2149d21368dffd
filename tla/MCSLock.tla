------------------------------- MODULE MCSLock -------------------------------
(***************************************************************************)
(* The queue lock of utils/src/lock.cpp, the mtx_ of every LaunchWorker.   *)
(* A lock is only a pointer to the last node of its queue; a thread has    *)
(* one node (MCSNode me, thread_local), which it uses for every lock it    *)
(* takes, one after the other, and which its neighbours in the queue       *)
(* write: the successor links itself to it, the predecessor grants it.     *)
(* One action is one access to a field that other threads can see.  The    *)
(* fields are read and written in program order (see README.md).           *)
(***************************************************************************)
EXTENDS Sequences, FiniteSets

CONSTANTS
  Threads,
  Locks,
  NoThread     (* nullptr                                                  *)

ASSUME NoThreadAssumption == NoThread \notin Threads

VARIABLES
  tail,        (* per lock: tail_                                          *)
  flag, next,  (* per thread: the fields of its node                       *)
  pc, lock,    (* per thread: where it is, and in which lock               *)
  pred,        (* per thread: the local variable tail of lock()            *)
  queue        (* history: the threads in the queue of each lock           *)

nodeVars == <<flag, next>>
vars == <<tail, flag, next, pc, lock, pred, queue>>

Goto(t, where) == pc' = [pc EXCEPT ![t] = where]
At(t, where)   == pc[t] = where

Init ==
  /\ tail = [l \in Locks |-> NoThread]
  /\ flag = [t \in Threads |-> "waiting"]
  /\ next = [t \in Threads |-> NoThread]
  /\ pc = [t \in Threads |-> "idle"]
  /\ lock \in [Threads -> Locks]
  /\ pred = [t \in Threads |-> NoThread]
  /\ queue = [l \in Locks |-> <<>>]
-----------------------------------------------------------------------------
(* MCSLock::lock *)
ResetFlag(t) ==
  /\ At(t, "idle") /\ Goto(t, "reset")
  /\ \E l \in Locks : lock' = [lock EXCEPT ![t] = l]
  /\ flag' = [flag EXCEPT ![t] = "waiting"]
  /\ UNCHANGED <<tail, next, pred, queue>>

(* Mutant: the link to the successor of the last time is not reset.        *)
ResetNothing(t) ==
  /\ At(t, "reset") /\ Goto(t, "swap")
  /\ UNCHANGED <<tail, flag, next, lock, pred, queue>>

ResetNext(t) ==
  /\ At(t, "reset") /\ Goto(t, "swap")
  /\ next' = [next EXCEPT ![t] = NoThread]
  /\ UNCHANGED <<tail, flag, lock, pred, queue>>

Swap(t) ==
  /\ At(t, "swap")
  /\ Goto(t, IF tail[lock[t]] = NoThread THEN "inside" ELSE "link")
  /\ pred' = [pred EXCEPT ![t] = tail[lock[t]]]
  /\ tail' = [tail EXCEPT ![lock[t]] = t]
  /\ queue' = [queue EXCEPT ![lock[t]] = Append(@, t)]
  /\ UNCHANGED <<flag, next, lock>>

Link(t) ==
  /\ At(t, "link") /\ Goto(t, "spin")
  /\ next' = [next EXCEPT ![pred[t]] = t]
  /\ UNCHANGED <<tail, flag, lock, pred, queue>>

Spin(t) ==
  /\ At(t, "spin") /\ flag[t] = "granted"
  /\ Goto(t, "inside")
  /\ UNCHANGED <<tail, flag, next, lock, pred, queue>>

-----------------------------------------------------------------------------
(* MCSLock::unlock *)
Unlock(t) ==
  /\ At(t, "inside")
  /\ Goto(t, IF next[t] = NoThread THEN "cas" ELSE "grant")
  /\ UNCHANGED <<tail, flag, next, lock, pred, queue>>

(* Mutant: the tail is stored without looking whether t is still the last. *)
StoreTail(t) ==
  /\ At(t, "cas") /\ Goto(t, "idle")
  /\ tail' = [tail EXCEPT ![lock[t]] = NoThread]
  /\ queue' = [queue EXCEPT ![lock[t]] = Tail(@)]
  /\ UNCHANGED <<flag, next, lock, pred>>

(* Mutant: when the exchange fails, the successor is left to itself.       *)
NeverAwait(t) ==
  /\ At(t, "cas") /\ Goto(t, "idle")
  /\ tail' = [tail EXCEPT ![lock[t]] = IF @ = t THEN NoThread ELSE @]
  /\ queue' = [queue EXCEPT ![lock[t]] = Tail(@)]
  /\ UNCHANGED <<flag, next, lock, pred>>

CompareAndSwap(t) ==
  /\ At(t, "cas")
  /\ \/ /\ tail[lock[t]] = t
        /\ tail' = [tail EXCEPT ![lock[t]] = NoThread]
        /\ queue' = [queue EXCEPT ![lock[t]] = Tail(@)]
        /\ Goto(t, "idle")
     \/ /\ tail[lock[t]] # t
        /\ Goto(t, "await")
        /\ UNCHANGED <<tail, queue>>
  /\ UNCHANGED <<flag, next, lock, pred>>

AwaitNext(t) ==
  /\ At(t, "await") /\ next[t] # NoThread
  /\ Goto(t, "grant")
  /\ UNCHANGED <<tail, flag, next, lock, pred, queue>>

Grant(t) ==
  /\ At(t, "grant") /\ Goto(t, "idle")
  /\ flag' = [flag EXCEPT ![next[t]] = "granted"]
  /\ queue' = [queue EXCEPT ![lock[t]] = Tail(@)]
  /\ UNCHANGED <<tail, next, lock, pred>>

-----------------------------------------------------------------------------
Acquire(t) == ResetNext(t) \/ Swap(t) \/ Link(t) \/ Spin(t)
Release(t) == Unlock(t) \/ CompareAndSwap(t) \/ AwaitNext(t) \/ Grant(t)

Next == \E t \in Threads : ResetFlag(t) \/ Acquire(t) \/ Release(t)

Spec == Init /\ [][Next]_vars

(* A thread that has begun to take or to give back a lock is scheduled     *)
(* again and again, and nobody stays inside for ever (the launch worker    *)
(* sleeps and synchronizes without the lock); it need not ask for it.      *)
FairSpec == Spec /\ \A t \in Threads : WF_vars(Acquire(t) \/ Release(t))
-----------------------------------------------------------------------------
PCs == {"idle", "reset", "swap", "link", "spin", "inside", "cas", "await", "grant"}

TypeOK ==
  /\ tail \in [Locks -> Threads \cup {NoThread}]
  /\ flag \in [Threads -> {"waiting", "granted"}]
  /\ next \in [Threads -> Threads \cup {NoThread}]
  /\ pc \in [Threads -> PCs]
  /\ lock \in [Threads -> Locks]
  /\ pred \in [Threads -> Threads \cup {NoThread}]
  /\ queue \in [Locks -> Seq(Threads)]

(* t is between the moment it is let in and the one it lets the next in.   *)
Holds(t) == pc[t] \in {"inside", "cas", "await", "grant"}

(* Two threads never hold one lock at the same time, although a thread     *)
(* uses the same node again at once, for this lock or for another one.     *)
MutualExclusion ==
  \A s, t \in Threads : Holds(s) /\ Holds(t) /\ lock[s] = lock[t] => s = t

(* The node of a thread that is in no queue is its own: no lock points to  *)
(* it, nobody is about to link himself to it, and whoever linked himself   *)
(* behind it or was to grant it has done so.  Otherwise lock() would reset *)
(* what a neighbour still writes.                                          *)
NodeIsPrivate ==
  \A t \in Threads : pc[t] \in {"idle", "reset", "swap"} =>
    /\ \A l \in Locks : tail[l] # t
    /\ \A s \in Threads : At(s, "link") => pred[s] # t
    /\ \A s \in Threads : Holds(s) => next[s] # t

(* The lock is fair, as FairLock says: the queue of its history is what    *)
(* the links and the tail realize.                                         *)
Fair == INSTANCE FairLock WITH
  inside <- {t \in Threads : Holds(t)}

IsFair == Fair!Spec

(* Whoever asks for a lock gets it: an unlock that comes between the swap  *)
(* of the tail and the link does not lose the one who waits.               *)
EveryRequestIsGranted ==
  \A t \in Threads : At(t, "swap") ~> Holds(t)
=============================================================================
