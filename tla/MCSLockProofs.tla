---------------------------- MODULE MCSLockProofs ----------------------------
(***************************************************************************)
(* Proofs about MCSLock, for any threads and locks: it excludes, it keeps  *)
(* its hands off the nodes of others, and it implements FairLock.  All     *)
(* follow from one invariant, which says how the tail of a lock and the    *)
(* links and flags of the nodes represent the queue of its history.        *)
(***************************************************************************)
EXTENDS MCSLock, SequenceTheorems, TLAPS

InQueue(t) == pc[t] \in {"link", "spin", "inside", "cas", "await", "grant"}

(* The queues hold exactly the threads that have swapped the tail and have *)
(* not handed the lock on, each once and in the queue of its lock.         *)
Enqueued ==
  /\ \A l \in Locks : \A i \in 1 .. Len(queue[l]) :
       InQueue(queue[l][i]) /\ lock[queue[l][i]] = l
  /\ \A l \in Locks : \A i, j \in 1 .. Len(queue[l]) :
       queue[l][i] = queue[l][j] => i = j
  /\ \A t \in Threads : InQueue(t) =>
       \E i \in 1 .. Len(queue[lock[t]]) : queue[lock[t]][i] = t

(* The tail is the last of the queue, to which nobody has linked himself.  *)
Tails ==
  \A l \in Locks :
    /\ queue[l] = <<>> => tail[l] = NoThread
    /\ queue[l] # <<>> => /\ tail[l] = queue[l][Len(queue[l])]
                          /\ next[tail[l]] = NoThread

(* The first of a queue holds the lock or has been granted it.             *)
Heads ==
  \A l \in Locks : queue[l] # <<>> =>
    Holds(queue[l][1]) \/ (At(queue[l][1], "spin") /\ flag[queue[l][1]] = "granted")

(* The others wait: each for the one before it, to which it is linked once *)
(* it spins.                                                               *)
Follows(s, t) ==
  /\ flag[t] = "waiting"
  /\ \/ At(t, "link") /\ pred[t] = s /\ next[s] = NoThread
     \/ At(t, "spin") /\ next[s] = t

Waiters ==
  \A l \in Locks : \A i \in 2 .. Len(queue[l]) : Follows(queue[l][i - 1], queue[l][i])

(* A node is fresh when it enters a queue, and whoever hands the lock on   *)
(* has a successor.                                                        *)
Nodes ==
  /\ \A t \in Threads : pc[t] \in {"reset", "swap"} => flag[t] = "waiting"
  /\ \A t \in Threads : pc[t] = "swap" => next[t] = NoThread
  /\ \A t \in Threads : pc[t] = "grant" => next[t] # NoThread
  /\ \A t \in Threads : pc[t] = "await" => tail[lock[t]] # t

IInv == TypeOK /\ Enqueued /\ Tails /\ Heads /\ Waiters /\ Nodes

-----------------------------------------------------------------------------
(* What the parts of the invariant say together about a thread.            *)
(* Whoever holds a lock is the first of its queue.                         *)
LEMMA HolderFirst ==
  ASSUME IInv, NEW t \in Threads, Holds(t)
  PROVE  /\ lock[t] \in Locks /\ queue[lock[t]] \in Seq(Threads)
         /\ Len(queue[lock[t]]) >= 1 /\ queue[lock[t]][1] = t
<1> USE DEF IInv
<1> DEFINE q == queue[lock[t]]
<1>1. lock[t] \in Locks /\ q \in Seq(Threads) /\ Len(q) \in Nat BY DEF TypeOK
<1>2. PICK i \in 1 .. Len(q) : q[i] = t BY DEF Enqueued, InQueue, Holds
<1>3. CASE i # 1
  <2>1. i \in 2 .. Len(q) BY <1>1, <1>3
  <2>2. Follows(q[i - 1], q[i]) BY <1>1, <2>1 DEF Waiters
  <2> QED BY <1>2, <2>2 DEF Follows, Holds, At
<1> QED BY <1>1, <1>2, <1>3

(* Whoever is linked behind a holder is the second of its queue, and spins. *)
LEMMA Successor ==
  ASSUME IInv, NEW t \in Threads, Holds(t), next[t] # NoThread
  PROVE  /\ Len(queue[lock[t]]) >= 2 /\ queue[lock[t]][2] = next[t]
         /\ next[t] \in Threads /\ At(next[t], "spin")
<1> USE DEF IInv
<1> DEFINE q == queue[lock[t]]
<1>1. lock[t] \in Locks /\ q \in Seq(Threads) /\ Len(q) \in Nat /\ Len(q) >= 1 /\ q[1] = t
  BY HolderFirst
<1>2. q # <<>> BY <1>1
<1>3. Len(q) # 1 BY <1>1, <1>2 DEF Tails
<1>4. 2 \in 2 .. Len(q) /\ q[2] \in Threads
  <2>0. \A k \in Nat : k >= 1 /\ k # 1 => k >= 2 OBVIOUS
  <2>1. Len(q) >= 2 BY <1>1, <1>3, <2>0
  <2>2. 2 \in 1 .. Len(q) BY <1>1, <2>1
  <2> QED BY <1>1, <2>1, <2>2, ElementOfSeq
<1>5. Follows(q[1], q[2]) BY <1>1, <1>4 DEF Waiters
<1> QED BY <1>1, <1>3, <1>4, <1>5 DEF Follows

(* Whoever is about to link himself stands behind the one he saw.          *)
LEMMA LinkerBehind ==
  ASSUME IInv, NEW t \in Threads, At(t, "link")
  PROVE  \E i \in 2 .. Len(queue[lock[t]]) :
           /\ queue[lock[t]][i] = t /\ queue[lock[t]][i - 1] = pred[t]
           /\ pred[t] \in Threads /\ next[pred[t]] = NoThread /\ flag[t] = "waiting"
<1> USE DEF IInv
<1> DEFINE q == queue[lock[t]]
<1>1. lock[t] \in Locks /\ q \in Seq(Threads) /\ Len(q) \in Nat BY DEF TypeOK
<1>2. PICK i \in 1 .. Len(q) : q[i] = t BY DEF Enqueued, InQueue, At
<1>3. i # 1
  <2>1. SUFFICES ASSUME i = 1 PROVE FALSE OBVIOUS
  <2>2. q # <<>> BY <1>1
  <2> QED BY <1>1, <1>2, <2>1, <2>2 DEF Heads, Holds, At
<1>4. i \in 2 .. Len(q) /\ i - 1 \in 1 .. Len(q) /\ q[i - 1] \in Threads BY <1>1, <1>3
<1>5. Follows(q[i - 1], q[i]) BY <1>1, <1>4 DEF Waiters
<1>6. q[i - 1] = pred[t] /\ next[q[i - 1]] = NoThread /\ flag[t] = "waiting"
  BY <1>2, <1>5 DEF Follows, At
<1> QED BY <1>2, <1>4, <1>6

(* Who is not in a queue is not the tail of a lock either.                 *)
LEMMA OutsideNoTail ==
  ASSUME IInv, NEW t \in Threads, ~InQueue(t), NEW l \in Locks
  PROVE  tail[l] # t
<1> USE DEF IInv
<1>1. queue[l] \in Seq(Threads) /\ Len(queue[l]) \in Nat BY DEF TypeOK
<1>2. CASE queue[l] = <<>> BY <1>2, NoThreadAssumption DEF Tails
<1>3. CASE queue[l] # <<>>
  <2>1. Len(queue[l]) \in 1 .. Len(queue[l]) BY <1>1, <1>3, EmptySeq
  <2> QED BY <1>3, <2>1 DEF Tails, Enqueued
<1> QED BY <1>2, <1>3

-----------------------------------------------------------------------------
(* The invariant holds at the beginning.                                   *)
LEMMA IInvInit == Init => IInv
<1> SUFFICES ASSUME Init PROVE IInv OBVIOUS
<1>1. \A l \in Locks : queue[l] = <<>> /\ Len(queue[l]) = 0 BY DEF Init
<1>2. TypeOK BY DEF Init, TypeOK, PCs
<1>3. Enqueued BY <1>1 DEF Init, Enqueued, InQueue
<1>4. Tails /\ Heads /\ Waiters BY <1>1 DEF Init, Tails, Heads, Waiters
<1>5. Nodes BY DEF Init, Nodes
<1> QED BY <1>2, <1>3, <1>4, <1>5 DEF IInv

(* Every step keeps the types.                                             *)
LEMMA TypeStep == ASSUME IInv, [Next]_vars PROVE TypeOK'
<1> USE DEF IInv, TypeOK, Goto, At, PCs
<1>1. ASSUME NEW t \in Threads, ResetFlag(t) PROVE TypeOK' BY <1>1 DEF ResetFlag
<1>2. ASSUME NEW t \in Threads, ResetNext(t) PROVE TypeOK' BY <1>2 DEF ResetNext
<1>3. ASSUME NEW t \in Threads, Swap(t) PROVE TypeOK'
  <2>1. queue' \in [Locks -> Seq(Threads)] BY <1>3, AppendProperties DEF Swap
  <2> QED BY <1>3, <2>1 DEF Swap
<1>4. ASSUME NEW t \in Threads, Link(t) PROVE TypeOK' BY <1>4 DEF Link
<1>5. ASSUME NEW t \in Threads, Spin(t) PROVE TypeOK' BY <1>5 DEF Spin
<1>6. ASSUME NEW t \in Threads, Unlock(t) PROVE TypeOK' BY <1>6 DEF Unlock
<1>7. ASSUME NEW t \in Threads, CompareAndSwap(t) \/ Grant(t) PROVE TypeOK'
  <2>1. Holds(t) BY <1>7 DEF CompareAndSwap, Grant, Holds
  <2>2. queue[lock[t]] \in Seq(Threads) /\ queue[lock[t]] # <<>>
    BY <2>1, HolderFirst, EmptySeq
  <2>3. Tail(queue[lock[t]]) \in Seq(Threads) BY <2>2, HeadTailProperties
  <2>4. CASE CompareAndSwap(t)
    <3>1. queue' \in [Locks -> Seq(Threads)] BY <2>3, <2>4 DEF CompareAndSwap
    <3>2. tail' \in [Locks -> Threads \cup {NoThread}] BY <2>4 DEF CompareAndSwap
    <3>3. pc' \in [Threads -> PCs] BY <2>4 DEF CompareAndSwap
    <3>4. UNCHANGED <<flag, next, lock, pred>> BY <2>4 DEF CompareAndSwap
    <3> QED BY <3>1, <3>2, <3>3, <3>4
  <2>5. CASE Grant(t)
    <3>1. queue' \in [Locks -> Seq(Threads)] BY <2>3, <2>5 DEF Grant
    <3> QED BY <2>5, <3>1 DEF Grant
  <2> QED BY <1>7, <2>4, <2>5
<1>8. ASSUME NEW t \in Threads, AwaitNext(t) PROVE TypeOK' BY <1>8 DEF AwaitNext
<1>9. CASE UNCHANGED vars BY <1>9 DEF vars
<1> QED BY <1>1, <1>2, <1>3, <1>4, <1>5, <1>6, <1>7, <1>8, <1>9
        DEF Next, Acquire, Release

-----------------------------------------------------------------------------
(* A thread outside of all queues touches nothing but its own node.        *)
LEMMA OutsideStep ==
  ASSUME IInv, TypeOK', NEW t \in Threads, ResetFlag(t) \/ ResetNext(t)
  PROVE  IInv'
<1> USE DEF IInv
<1>1. ~InQueue(t) /\ ~InQueue(t)' /\ UNCHANGED <<queue, tail, pred>>
  BY DEF ResetFlag, ResetNext, InQueue, At, Goto, TypeOK
<1>2. \A x \in Threads \ {t} :
        pc'[x] = pc[x] /\ flag'[x] = flag[x] /\ next'[x] = next[x] /\ lock'[x] = lock[x]
  BY DEF ResetFlag, ResetNext, Goto, TypeOK
<1>3. \A l \in Locks : queue[l] \in Seq(Threads) /\ Len(queue[l]) \in Nat BY DEF TypeOK
<1>4. \A l \in Locks : \A i \in 1 .. Len(queue[l]) : queue[l][i] \in Threads \ {t}
  BY <1>1, <1>3 DEF Enqueued
<1>5. Enqueued'
  <2>1. \A x \in Threads : InQueue(x)' => x # t /\ InQueue(x) /\ lock'[x] = lock[x]
    BY <1>1, <1>2 DEF InQueue
  <2> QED BY <1>1, <1>2, <1>4, <2>1 DEF Enqueued, InQueue
<1>6. Tails'
  <2>1. \A l \in Locks : queue[l] # <<>> => tail[l] \in Threads \ {t}
    BY <1>3, <1>4, EmptySeq DEF Tails
  <2> QED BY <1>1, <1>2, <2>1 DEF Tails
<1>7. Heads'
  <2>1. \A l \in Locks : queue[l] # <<>> => queue[l][1] \in Threads \ {t}
    BY <1>3, <1>4, EmptySeq
  <2> QED BY <1>1, <1>2, <2>1 DEF Heads, Holds, At
<1>8. Waiters'
  <2> SUFFICES ASSUME NEW l \in Locks, NEW i \in 2 .. Len(queue[l])
               PROVE  Follows(queue[l][i - 1], queue[l][i])'
    BY <1>1 DEF Waiters
  <2>1. i \in 1 .. Len(queue[l]) /\ i - 1 \in 1 .. Len(queue[l]) BY <1>3
  <2>2. queue[l][i] \in Threads \ {t} /\ queue[l][i - 1] \in Threads \ {t} BY <1>4, <2>1
  <2>3. Follows(queue[l][i - 1], queue[l][i]) BY DEF Waiters
  <2> QED BY <1>1, <1>2, <2>2, <2>3 DEF Follows, At
<1>9. Nodes'
  <2>1. /\ pc'[t] \in {"reset", "swap"} /\ flag'[t] = "waiting"
        /\ pc'[t] = "swap" => next'[t] = NoThread
    <3>1. CASE ResetFlag(t) BY <3>1 DEF ResetFlag, At, Goto, TypeOK
    <3>2. CASE ResetNext(t) BY <3>2 DEF ResetNext, At, Goto, TypeOK, Nodes
    <3> QED BY <3>1, <3>2
  <2> QED BY <1>1, <1>2, <2>1 DEF Nodes
<1> QED BY <1>5, <1>6, <1>7, <1>8, <1>9

(* A thread enters a queue at its end.                                     *)
LEMMA SwapStep ==
  ASSUME IInv, TypeOK', NEW t \in Threads, Swap(t)
  PROVE  IInv'
<1> USE DEF IInv
<1> DEFINE l == lock[t]
           q == queue[l]
           n == Len(q)
<1>1. l \in Locks /\ q \in Seq(Threads) /\ n \in Nat BY DEF TypeOK
<1>2. /\ pc[t] = "swap" /\ flag[t] = "waiting" /\ next[t] = NoThread /\ ~InQueue(t)
      /\ pc'[t] = (IF tail[l] = NoThread THEN "inside" ELSE "link")
      /\ pred'[t] = tail[l] /\ tail'[l] = t /\ InQueue(t)'
  BY <1>1 DEF Swap, At, Goto, InQueue, Nodes, TypeOK
<1>3. /\ UNCHANGED <<flag, next, lock>>
      /\ \A x \in Threads \ {t} : pc'[x] = pc[x] /\ pred'[x] = pred[x]
      /\ \A m \in Locks \ {l} : queue'[m] = queue[m] /\ tail'[m] = tail[m]
  BY <1>1 DEF Swap, Goto, TypeOK
<1>4. /\ queue'[l] = Append(q, t) /\ Len(queue'[l]) = n + 1
      /\ \A i \in 1 .. n : queue'[l][i] = q[i]
      /\ queue'[l][n + 1] = t
  BY <1>1, AppendProperties DEF Swap, TypeOK
<1>5. \A m \in Locks : queue[m] \in Seq(Threads) /\ Len(queue[m]) \in Nat BY DEF TypeOK
<1>6. \A m \in Locks : \A i \in 1 .. Len(queue[m]) : queue[m][i] \in Threads \ {t}
  BY <1>2, <1>5 DEF Enqueued
<1>7. tail[l] = NoThread <=> q = <<>>
  <2>1. q # <<>> => n \in 1 .. n BY <1>1, EmptySeq
  <2> QED BY <1>1, <1>6, <2>1, NoThreadAssumption DEF Tails
<1>8. Enqueued'
  <2>1. ASSUME NEW m \in Locks, NEW i \in 1 .. Len(queue'[m])
        PROVE  InQueue(queue[m][i])' /\ lock'[queue'[m][i]] = m
    <3>1. CASE m # l BY <1>3, <1>6, <2>1, <3>1 DEF Enqueued, InQueue
    <3>2. CASE m = l /\ i # n + 1
      <4>1. i \in 1 .. n BY <1>1, <1>4, <2>1, <3>2
      <4>2. queue'[m][i] = q[i] /\ q[i] \in Threads \ {t} BY <1>1, <1>4, <1>6, <3>2, <4>1
      <4>3. InQueue(q[i]) /\ lock[q[i]] = l BY <1>1, <4>1 DEF Enqueued
      <4> QED BY <1>3, <3>2, <4>2, <4>3 DEF InQueue
    <3>3. CASE m = l /\ i = n + 1 BY <1>2, <1>3, <1>4, <3>3
    <3> QED BY <3>1, <3>2, <3>3
  <2>2. ASSUME NEW m \in Locks, NEW i \in 1 .. Len(queue'[m]), NEW j \in 1 .. Len(queue'[m]),
               queue'[m][i] = queue'[m][j]
        PROVE  i = j
    <3>1. CASE m # l BY <1>3, <2>2, <3>1 DEF Enqueued
    <3>2. CASE m = l
      <4>1. i \in 1 .. n \/ i = n + 1 BY <1>1, <1>4, <2>2, <3>2
      <4>2. j \in 1 .. n \/ j = n + 1 BY <1>1, <1>4, <2>2, <3>2
      <4>3. \A k \in 1 .. n : queue'[l][k] = q[k] /\ q[k] # t BY <1>1, <1>4, <1>6
      <4>4. CASE i \in 1 .. n /\ j \in 1 .. n
        BY <1>1, <2>2, <3>2, <4>3, <4>4 DEF Enqueued
      <4>5. CASE i = n + 1 \/ j = n + 1 BY <1>4, <2>2, <3>2, <4>1, <4>2, <4>3, <4>5
      <4> QED BY <4>1, <4>2, <4>4, <4>5
    <3> QED BY <3>1, <3>2
  <2>3. ASSUME NEW x \in Threads, InQueue(x)'
        PROVE  \E i \in 1 .. Len(queue'[lock'[x]]) : queue'[lock'[x]][i] = x
    <3>1. CASE x = t
      <4>1. n + 1 \in 1 .. Len(queue'[l]) BY <1>1, <1>4
      <4> QED BY <1>3, <1>4, <3>1, <4>1
    <3>2. CASE x # t
      <4>1. InQueue(x) BY <1>3, <2>3, <3>2 DEF InQueue
      <4>2. PICK i \in 1 .. Len(queue[lock[x]]) : queue[lock[x]][i] = x
        BY <4>1 DEF Enqueued
      <4>3. lock[x] \in Locks BY DEF TypeOK
      <4>4. CASE lock[x] # l BY <1>3, <4>2, <4>3, <4>4
      <4>5. CASE lock[x] = l
        <5>1. i \in 1 .. Len(queue'[l]) /\ queue'[l][i] = x BY <1>1, <1>4, <4>2, <4>5
        <5> QED BY <1>3, <4>5, <5>1
      <4> QED BY <4>4, <4>5
    <3> QED BY <3>1, <3>2
  <2> QED BY <2>1, <2>2, <2>3 DEF Enqueued
<1>9. Tails'
  <2>1. queue'[l] # <<>> /\ queue'[l][Len(queue'[l])] = t BY <1>1, <1>4
  <2> QED BY <1>2, <1>3, <2>1 DEF Tails
<1>10. Heads'
  <2> SUFFICES ASSUME NEW m \in Locks, queue'[m] # <<>>
               PROVE  \/ Holds(queue[m][1])'
                      \/ At(queue[m][1], "spin")' /\ flag'[queue'[m][1]] = "granted"
    BY DEF Heads, At
  <2>1. CASE m # l
    <3>1. queue[m] # <<>> /\ queue[m][1] \in Threads \ {t}
      BY <1>3, <1>5, <1>6, <2>1, EmptySeq
    <3> QED BY <1>3, <2>1, <3>1 DEF Heads, Holds, At
  <2>2. CASE m = l /\ q = <<>>
    <3>1. queue'[l][1] = t BY <1>1, <1>4, <2>2
    <3> QED BY <1>2, <1>7, <2>2, <3>1 DEF Holds
  <2>3. CASE m = l /\ q # <<>>
    <3>1. 1 \in 1 .. n BY <1>1, <2>3, EmptySeq
    <3>2. queue'[l][1] = q[1] /\ q[1] \in Threads \ {t} BY <1>1, <1>4, <1>6, <3>1
    <3> QED BY <1>1, <1>3, <2>3, <3>2 DEF Heads, Holds, At
  <2> QED BY <2>1, <2>2, <2>3
<1>11. Waiters'
  <2> SUFFICES ASSUME NEW m \in Locks, NEW i \in 2 .. Len(queue'[m])
               PROVE  Follows(queue[m][i - 1], queue[m][i])'
    BY DEF Waiters
  <2>1. ASSUME i \in 2 .. Len(queue[m]), queue'[m][i] = queue[m][i],
               queue'[m][i - 1] = queue[m][i - 1]
        PROVE  Follows(queue[m][i - 1], queue[m][i])'
    <3>1. Follows(queue[m][i - 1], queue[m][i]) BY <2>1 DEF Waiters
    <3>2. i \in 1 .. Len(queue[m]) /\ i - 1 \in 1 .. Len(queue[m]) BY <1>5, <2>1
    <3>3. queue[m][i] \in Threads \ {t} BY <1>6, <3>2
    <3> QED BY <1>3, <2>1, <3>1, <3>3 DEF Follows, At
  <2>2. CASE m # l BY <1>3, <2>1, <2>2
  <2>3. CASE m = l /\ i # n + 1
    <3>1. i \in 1 .. n /\ i - 1 \in 1 .. n /\ i \in 2 .. n BY <1>1, <1>4, <2>3
    <3> QED BY <1>4, <2>1, <2>3, <3>1
  <2>4. CASE m = l /\ i = n + 1
    <3>1. q # <<>> /\ n \in 1 .. n /\ i - 1 = n BY <1>1, <1>4, <2>4
    <3>2. queue'[m][i] = t /\ queue'[m][i - 1] = tail[l] /\ next[tail[l]] = NoThread
      BY <1>1, <1>4, <2>4, <3>1 DEF Tails
    <3> QED BY <1>2, <1>3, <1>7, <3>1, <3>2 DEF Follows, At
  <2> QED BY <2>2, <2>3, <2>4
<1>12. Nodes'
  <2>1. \A x \in Threads : pc[x] = "await" => x # t /\ tail'[lock[x]] # x
    BY <1>2, <1>3 DEF Nodes, TypeOK
  <2> QED BY <1>2, <1>3, <2>1 DEF Nodes
<1> QED BY <1>8, <1>9, <1>10, <1>11, <1>12

(* A thread links itself to the one before it.                             *)
LEMMA LinkStep ==
  ASSUME IInv, TypeOK', NEW t \in Threads, Link(t)
  PROVE  IInv'
<1> USE DEF IInv
<1> DEFINE l == lock[t]
           q == queue[l]
           s == pred[t]
<1>1. l \in Locks /\ q \in Seq(Threads) /\ Len(q) \in Nat BY DEF TypeOK
<1>2. At(t, "link") BY DEF Link
<1>3. PICK i \in 2 .. Len(q) :
        q[i] = t /\ q[i - 1] = s /\ s \in Threads /\ next[s] = NoThread /\ flag[t] = "waiting"
  BY <1>2, LinkerBehind
<1>4. i \in 1 .. Len(q) /\ i - 1 \in 1 .. Len(q) BY <1>1
<1>5. InQueue(s) /\ lock[s] = l BY <1>1, <1>3, <1>4 DEF Enqueued
<1>6. /\ UNCHANGED <<tail, flag, lock, pred, queue>>
      /\ pc'[t] = "spin" /\ next'[s] = t
      /\ \A x \in Threads \ {t} : pc'[x] = pc[x]
      /\ \A x \in Threads \ {s} : next'[x] = next[x]
  BY <1>3 DEF Link, Goto, TypeOK
<1>7. \A x \in Threads : InQueue(x)' <=> InQueue(x) BY <1>2, <1>6 DEF InQueue, At
<1>8. \A m \in Locks : queue[m] \in Seq(Threads) /\ Len(queue[m]) \in Nat BY DEF TypeOK
<1>9. \A m \in Locks : \A j \in 1 .. Len(queue[m]) : queue[m][j] \in Threads BY <1>8
<1>10. Enqueued' BY <1>6, <1>7, <1>9 DEF Enqueued
<1>11. Tails'
  <2> SUFFICES ASSUME NEW m \in Locks, queue[m] # <<>> PROVE tail[m] \in Threads \ {s}
    BY <1>6 DEF Tails
  <2>1. Len(queue[m]) \in 1 .. Len(queue[m]) BY <1>8, EmptySeq
  <2>2. tail[m] = queue[m][Len(queue[m])] /\ tail[m] \in Threads BY <1>9, <2>1 DEF Tails
  <2>3. CASE m # l BY <1>5, <2>1, <2>2, <2>3 DEF Enqueued
  <2>4. CASE m = l
    <3>1. i - 1 # Len(q) BY <1>1
    <3> QED BY <1>1, <1>3, <1>4, <2>1, <2>2, <2>4, <3>1 DEF Enqueued
  <2> QED BY <2>3, <2>4, <2>2
<1>12. Heads'
  <2> SUFFICES ASSUME NEW m \in Locks, queue[m] # <<>>
               PROVE  \/ Holds(queue[m][1])'
                      \/ At(queue[m][1], "spin")' /\ flag[queue[m][1]] = "granted"
    BY <1>6 DEF Heads, At
  <2>1. queue[m][1] \in Threads BY <1>8, <1>9, EmptySeq
  <2>2. queue[m][1] # t BY <1>2 DEF Heads, Holds, At
  <2> QED BY <1>6, <2>1, <2>2 DEF Heads, Holds, At
<1>13. Waiters'
  <2> SUFFICES ASSUME NEW m \in Locks, NEW j \in 2 .. Len(queue[m])
               PROVE  Follows(queue[m][j - 1], queue[m][j])'
    BY <1>6 DEF Waiters
  <2>1. j \in 1 .. Len(queue[m]) /\ j - 1 \in 1 .. Len(queue[m]) BY <1>8
  <2>2. queue[m][j] \in Threads /\ queue[m][j - 1] \in Threads BY <1>9, <2>1
  <2>3. Follows(queue[m][j - 1], queue[m][j]) BY DEF Waiters
  <2>4. CASE queue[m][j] = t
    <3>1. m = l BY <2>1, <2>4 DEF Enqueued
    <3>2. j = i BY <1>1, <1>3, <1>4, <2>1, <2>4, <3>1 DEF Enqueued
    <3> QED BY <1>3, <1>6, <2>4, <3>1, <3>2 DEF Follows, At
  <2>5. CASE queue[m][j] # t
    <3>1. queue[m][j - 1] # s
      <4> SUFFICES ASSUME queue[m][j - 1] = s PROVE FALSE OBVIOUS
      <4>1. m = l BY <1>5, <2>1 DEF Enqueued
      <4>2. j - 1 \in 1 .. Len(queue[l]) /\ i - 1 \in 1 .. Len(queue[l])
        BY <1>1, <1>3, <1>4, <2>1, <4>1
      <4>3. queue[l][j - 1] = queue[l][i - 1] BY <1>1, <1>3, <4>1
      <4>4. j - 1 = i - 1 BY <1>1, <4>2, <4>3 DEF Enqueued
      <4> QED BY <1>1, <1>3, <2>1, <2>5, <4>1, <4>4
    <3> QED BY <1>6, <2>2, <2>3, <2>5, <3>1 DEF Follows, At
  <2> QED BY <2>4, <2>5
<1>14. Nodes'
  <2>1. pc[s] # "swap" /\ t # NoThread BY <1>5, NoThreadAssumption DEF InQueue
  <2> QED BY <1>2, <1>6, <2>1 DEF Nodes, At
<1> QED BY <1>10, <1>11, <1>12, <1>13, <1>14

(* A thread that has been let in only moves on.                            *)
LEMMA InsideStep ==
  ASSUME IInv, TypeOK', NEW t \in Threads,
         Holds(t) \/ (At(t, "spin") /\ flag[t] = "granted"),
         Holds(t)', \A x \in Threads \ {t} : pc'[x] = pc[x],
         UNCHANGED <<tail, flag, next, lock, pred, queue>>,
         pc'[t] = "grant" => next[t] # NoThread,
         pc'[t] = "await" => tail[lock[t]] # t
  PROVE  IInv'
<1> USE DEF IInv
<1>1. \A x \in Threads : InQueue(x)' <=> InQueue(x) BY DEF InQueue, Holds, At
<1>2. \A m \in Locks : queue[m] \in Seq(Threads) /\ Len(queue[m]) \in Nat BY DEF TypeOK
<1>3. \A m \in Locks : \A j \in 1 .. Len(queue[m]) : queue[m][j] \in Threads BY <1>2
<1>4. Enqueued' BY <1>1, <1>3 DEF Enqueued
<1>5. Tails' BY DEF Tails
<1>6. Heads'
  <2>1. \A m \in Locks : queue[m] # <<>> => queue[m][1] \in Threads
    BY <1>2, <1>3, EmptySeq
  <2> QED BY <2>1 DEF Heads, Holds, At
<1>7. Waiters'
  <2> SUFFICES ASSUME NEW m \in Locks, NEW j \in 2 .. Len(queue[m])
               PROVE  Follows(queue[m][j - 1], queue[m][j])'
    BY DEF Waiters
  <2>1. j \in 1 .. Len(queue[m]) BY <1>2
  <2>2. queue[m][j] \in Threads BY <1>3, <2>1
  <2>3. Follows(queue[m][j - 1], queue[m][j]) BY DEF Waiters
  <2>4. queue[m][j] # t BY <2>3 DEF Follows, Holds, At
  <2> QED BY <2>2, <2>3, <2>4 DEF Follows, At
<1>8. Nodes' BY DEF Nodes, Holds
<1> QED BY <1>4, <1>5, <1>6, <1>7, <1>8

(* A thread leaves its queue at the front, and what is behind it moves up. *)
LEMMA LeaveStep ==
  ASSUME IInv, TypeOK', NEW t \in Threads, Holds(t), pc'[t] = "idle",
         \A x \in Threads \ {t} : pc'[x] = pc[x],
         queue' = [queue EXCEPT ![lock[t]] = Tail(@)],
         UNCHANGED <<next, lock, pred>>,
         \/ /\ tail[lock[t]] = t
            /\ tail' = [tail EXCEPT ![lock[t]] = NoThread]
            /\ UNCHANGED flag
         \/ /\ next[t] # NoThread
            /\ flag' = [flag EXCEPT ![next[t]] = "granted"]
            /\ UNCHANGED tail
  PROVE  IInv'
<1> USE DEF IInv
<1> DEFINE l == lock[t]
           q == queue[l]
           n == Len(q)
           last == tail[l] = t /\ tail' = [tail EXCEPT ![l] = NoThread] /\ UNCHANGED flag
           hand == /\ next[t] # NoThread
                   /\ flag' = [flag EXCEPT ![next[t]] = "granted"]
                   /\ UNCHANGED tail
<1>1. l \in Locks /\ q \in Seq(Threads) /\ n \in Nat /\ n >= 1 /\ q[1] = t BY HolderFirst
<1>2. q # <<>> BY <1>1
<1>3. /\ queue'[l] \in Seq(Threads) /\ Len(queue'[l]) = n - 1
      /\ \A i \in 1 .. n - 1 : queue'[l][i] = q[i + 1]
  BY <1>1, <1>2, HeadTailProperties DEF TypeOK
<1>4. \A m \in Locks \ {l} : queue'[m] = queue[m] BY DEF TypeOK
<1>5. \A m \in Locks : queue[m] \in Seq(Threads) /\ Len(queue[m]) \in Nat BY DEF TypeOK
<1>6. \A m \in Locks \ {l} : \A i \in 1 .. Len(queue[m]) : queue[m][i] \in Threads \ {t}
  BY <1>5 DEF Enqueued
<1>7. \A i \in 2 .. n : q[i] \in Threads \ {t}
  <2> TAKE i \in 2 .. n
  <2>1. i \in 1 .. n /\ 1 \in 1 .. n /\ i # 1 BY <1>1
  <2> QED BY <1>1, <2>1 DEF Enqueued
<1>8. \A m \in Locks : \A i \in 1 .. Len(queue'[m]) : queue'[m][i] \in Threads \ {t}
  <2> SUFFICES ASSUME NEW m \in Locks, NEW i \in 1 .. Len(queue'[m])
               PROVE  queue'[m][i] \in Threads \ {t} OBVIOUS
  <2>1. CASE m # l BY <1>4, <1>6, <2>1
  <2>2. CASE m = l
    <3>1. i \in 1 .. n - 1 /\ i + 1 \in 2 .. n BY <1>1, <1>3, <2>2
    <3> QED BY <1>3, <1>7, <2>2, <3>1
  <2> QED BY <2>1, <2>2
<1>9. \A x \in Threads \ {t} : InQueue(x)' <=> InQueue(x) BY DEF InQueue
<1>10. ~InQueue(t)' BY DEF InQueue
<1>11. Enqueued'
  <2>1. ASSUME NEW m \in Locks, NEW i \in 1 .. Len(queue'[m])
        PROVE  InQueue(queue[m][i])' /\ lock'[queue'[m][i]] = m
    <3>1. CASE m # l BY <1>4, <1>6, <1>9, <2>1, <3>1 DEF Enqueued
    <3>2. CASE m = l
      <4>1. i \in 1 .. n - 1 /\ i + 1 \in 2 .. n /\ i + 1 \in 1 .. n
        BY <1>1, <1>3, <2>1, <3>2
      <4> QED BY <1>1, <1>3, <1>7, <1>9, <3>2, <4>1 DEF Enqueued
    <3> QED BY <3>1, <3>2
  <2>2. ASSUME NEW m \in Locks, NEW i \in 1 .. Len(queue'[m]), NEW j \in 1 .. Len(queue'[m]),
               queue'[m][i] = queue'[m][j]
        PROVE  i = j
    <3>1. CASE m # l BY <1>4, <2>2, <3>1 DEF Enqueued
    <3>2. CASE m = l
      <4>1. /\ i \in 1 .. n - 1 /\ i + 1 \in 1 .. n
            /\ j \in 1 .. n - 1 /\ j + 1 \in 1 .. n
        BY <1>1, <1>3, <2>2, <3>2
      <4>2. i + 1 = j + 1 BY <1>1, <1>3, <2>2, <3>2, <4>1 DEF Enqueued
      <4> QED BY <4>1, <4>2
    <3> QED BY <3>1, <3>2
  <2>3. ASSUME NEW x \in Threads, InQueue(x)'
        PROVE  \E i \in 1 .. Len(queue'[lock'[x]]) : queue'[lock'[x]][i] = x
    <3>1. x # t /\ InQueue(x) BY <1>9, <1>10, <2>3
    <3>2. PICK i \in 1 .. Len(queue[lock[x]]) : queue[lock[x]][i] = x BY <3>1 DEF Enqueued
    <3>3. lock[x] \in Locks BY DEF TypeOK
    <3>4. CASE lock[x] # l BY <1>4, <3>2, <3>3, <3>4
    <3>5. CASE lock[x] = l
      <4>1. i # 1 BY <1>1, <3>1, <3>2, <3>5
      <4>2. i - 1 \in 1 .. n - 1 /\ (i - 1) + 1 = i BY <1>1, <3>2, <3>5, <4>1
      <4>3. queue'[l][i - 1] = x BY <1>3, <3>2, <3>5, <4>2
      <4> QED BY <1>3, <3>5, <4>2, <4>3
    <3> QED BY <3>4, <3>5
  <2> QED BY <2>1, <2>2, <2>3 DEF Enqueued
<1>12. \A m \in Locks \ {l} : queue[m] # <<>> => queue[m][1] \in Threads \ {t}
  BY <1>5, <1>6, EmptySeq
<1>13. CASE last
  <2>1. n = 1
    <3>1. q[n] = t BY <1>1, <1>2, <1>13 DEF Tails
    <3>2. n \in 1 .. n /\ 1 \in 1 .. n BY <1>1
    <3>3. \A i, j \in 1 .. n : q[i] = q[j] => i = j BY <1>1 DEF Enqueued
    <3>4. q[n] = q[1] BY <1>1, <3>1
    <3> QED BY <3>2, <3>3, <3>4
  <2>2. queue'[l] = <<>> /\ Len(queue'[l]) = 0
    <3>1. Len(queue'[l]) = 0 BY <1>1, <1>3, <2>1
    <3> QED BY <1>3, <3>1, EmptySeq
  <2>3. tail'[l] = NoThread /\ \A m \in Locks \ {l} : tail'[m] = tail[m]
    BY <1>1, <1>13 DEF TypeOK
  <2>4. Tails' BY <1>4, <2>2, <2>3 DEF Tails
  <2>5. Heads' BY <1>4, <1>12, <1>13, <2>2 DEF Heads, Holds, At
  <2>6. Waiters'
    <3> SUFFICES ASSUME NEW m \in Locks, NEW i \in 2 .. Len(queue'[m])
                 PROVE  Follows(queue[m][i - 1], queue[m][i])'
      BY DEF Waiters
    <3>1. m # l BY <2>2
    <3>2. i \in 1 .. Len(queue[m]) BY <1>4, <1>5, <3>1
    <3>3. queue[m][i] \in Threads \ {t} BY <1>6, <3>1, <3>2
    <3>4. Follows(queue[m][i - 1], queue[m][i]) BY <1>4, <3>1 DEF Waiters
    <3> QED BY <1>4, <1>13, <3>1, <3>3, <3>4 DEF Follows, At
  <2>7. Nodes'
    <3>1. \A x \in Threads : lock[x] \in Locks /\ x # NoThread
      BY NoThreadAssumption DEF TypeOK
    <3> QED BY <1>13, <2>3, <3>1 DEF Nodes
  <2> QED BY <1>11, <2>4, <2>5, <2>6, <2>7
<1>14. CASE hand
  <2>1. n >= 2 /\ q[2] = next[t] /\ next[t] \in Threads /\ At(next[t], "spin")
    BY <1>14, Successor
  <2>2. flag'[next[t]] = "granted" /\ \A x \in Threads \ {next[t]} : flag'[x] = flag[x]
    BY <1>14, <2>1 DEF TypeOK
  <2>3. 2 \in 2 .. n /\ next[t] # t BY <1>1, <1>7, <2>1
  <2>4. Tails'
    <3>1. n - 1 \in 1 .. n - 1 /\ queue'[l][n - 1] = q[n]
      <4>1. n - 1 \in 1 .. n - 1 /\ (n - 1) + 1 = n BY <1>1, <2>1
      <4>2. queue'[l][n - 1] = q[(n - 1) + 1] BY <1>3, <4>1
      <4> QED BY <4>1, <4>2
    <3>2. queue'[l] # <<>>
      <4>1. Len(queue'[l]) = n - 1 /\ n - 1 # 0 BY <1>1, <1>3, <2>1
      <4>2. Len(queue'[l]) # 0 BY <4>1
      <4> QED BY <4>2, EmptySeq
    <3> QED BY <1>1, <1>2, <1>3, <1>4, <1>14, <3>1, <3>2 DEF Tails
  <2>5. Heads'
    <3> SUFFICES ASSUME NEW m \in Locks, queue'[m] # <<>>
                 PROVE  \/ Holds(queue[m][1])'
                        \/ At(queue[m][1], "spin")' /\ flag'[queue'[m][1]] = "granted"
      BY DEF Heads, At
    <3>1. CASE m # l
      <4>1. queue[m] # <<>> /\ queue[m][1] \in Threads \ {t} BY <1>4, <1>12, <3>1
      <4> QED BY <1>4, <2>2, <3>1, <4>1 DEF Heads, Holds, At
    <3>2. CASE m = l
      <4>1. 1 \in 1 .. n - 1 /\ queue'[l][1] = next[t] BY <1>1, <1>3, <2>1
      <4> QED BY <2>1, <2>2, <2>3, <3>2, <4>1 DEF At
    <3> QED BY <3>1, <3>2
  <2>6. Waiters'
    <3> SUFFICES ASSUME NEW m \in Locks, NEW i \in 2 .. Len(queue'[m])
                 PROVE  Follows(queue[m][i - 1], queue[m][i])'
      BY DEF Waiters
    <3>2. CASE m # l
      <4>1. i \in 1 .. Len(queue[m]) /\ i - 1 \in 1 .. Len(queue[m]) BY <1>4, <1>5, <3>2
      <4>2. queue[m][i] \in Threads \ {t} /\ queue[m][i - 1] \in Threads
        BY <1>6, <3>2, <4>1
      <4>3. lock[queue[m][i]] = m BY <4>1 DEF Enqueued
      <4>4. lock[next[t]] = l BY <1>1, <2>1 DEF Enqueued
      <4>5. Follows(queue[m][i - 1], queue[m][i]) BY <1>4, <3>2 DEF Waiters
      <4>6. queue[m][i] \in Threads \ {t, next[t]} BY <3>2, <4>2, <4>3, <4>4
      <4> QED BY <1>4, <2>2, <3>2, <4>2, <4>5, <4>6 DEF Follows, At
    <3>3. CASE m = l
      <4>1. /\ i \in 1 .. n - 1 /\ i - 1 \in 1 .. n - 1 /\ (i - 1) + 1 = i
            /\ i \in 1 .. n /\ i + 1 \in 2 .. n /\ (i + 1) - 1 = i
            /\ i + 1 \in 1 .. n /\ i + 1 # 2 /\ 2 \in 1 .. n
        BY <1>1, <1>3, <2>1, <3>3
      <4>2. queue'[l][i] = q[i + 1] /\ queue'[l][i - 1] = q[i] BY <1>3, <4>1
      <4>3. Follows(q[i], q[i + 1]) BY <1>1, <4>1 DEF Waiters
      <4>4. q[i + 1] # next[t] BY <1>1, <2>1, <4>1 DEF Enqueued
      <4>5. q[i] \in Threads BY <1>1, <4>1, ElementOfSeq
      <4>7. q[i + 1] \in Threads \ {t} BY <1>7, <4>1
      <4>6. queue'[m][i - 1] \in Threads /\ queue'[m][i] \in Threads \ {t, next[t]}
        BY <3>3, <4>2, <4>4, <4>5, <4>7
      <4> QED BY <2>2, <3>3, <4>2, <4>3, <4>6 DEF Follows, At
    <3> QED BY <3>2, <3>3
  <2>7. Nodes' BY <1>14, <2>1, <2>2 DEF Nodes, At
  <2> QED BY <1>11, <2>4, <2>5, <2>6, <2>7
<1> QED BY <1>13, <1>14

-----------------------------------------------------------------------------
(* The steps of lock() and unlock(), one by one.                           *)
LEMMA IInvStep == ASSUME IInv, [Next]_vars PROVE IInv'
<1>1. TypeOK' BY TypeStep
<1>2. ASSUME NEW t \in Threads, ResetFlag(t) \/ ResetNext(t) PROVE IInv'
  BY <1>1, <1>2, OutsideStep
<1>3. ASSUME NEW t \in Threads, Swap(t) PROVE IInv' BY <1>1, <1>3, SwapStep
<1>4. ASSUME NEW t \in Threads, Link(t) PROVE IInv' BY <1>1, <1>4, LinkStep
<1>5. ASSUME NEW t \in Threads, Spin(t) \/ Unlock(t) \/ AwaitNext(t) PROVE IInv'
  <2>1. /\ Holds(t) \/ (At(t, "spin") /\ flag[t] = "granted")
        /\ Holds(t)' /\ \A x \in Threads \ {t} : pc'[x] = pc[x]
        /\ UNCHANGED <<tail, flag, next, lock, pred, queue>>
        /\ pc'[t] = "grant" => next[t] # NoThread
        /\ pc'[t] = "await" => tail[lock[t]] # t
    BY <1>5 DEF Spin, Unlock, AwaitNext, IInv, TypeOK, At, Goto, Holds
  <2> QED BY <1>1, <2>1, InsideStep
<1>6. ASSUME NEW t \in Threads, CompareAndSwap(t) PROVE IInv'
  <2>1. Holds(t) BY <1>6 DEF CompareAndSwap, Holds, At
  <2>2. CASE tail[lock[t]] = t
    <3>1. /\ pc'[t] = "idle" /\ \A x \in Threads \ {t} : pc'[x] = pc[x]
          /\ queue' = [queue EXCEPT ![lock[t]] = Tail(@)]
          /\ tail' = [tail EXCEPT ![lock[t]] = NoThread]
          /\ UNCHANGED <<flag, next, lock, pred>>
      BY <1>6, <2>2 DEF CompareAndSwap, Goto, IInv, TypeOK
    <3> QED BY <1>1, <2>1, <2>2, <3>1, LeaveStep
  <2>3. CASE tail[lock[t]] # t
    <3>1. /\ pc'[t] = "await" /\ \A x \in Threads \ {t} : pc'[x] = pc[x]
          /\ UNCHANGED <<tail, flag, next, lock, pred, queue>>
      BY <1>6, <2>3 DEF CompareAndSwap, Goto, IInv, TypeOK
    <3>2. Holds(t)' BY <3>1 DEF Holds
    <3> QED BY <1>1, <2>1, <2>3, <3>1, <3>2, InsideStep
  <2> QED BY <2>2, <2>3
<1>7. ASSUME NEW t \in Threads, Grant(t) PROVE IInv'
  <2>1. /\ Holds(t) /\ pc'[t] = "idle" /\ \A x \in Threads \ {t} : pc'[x] = pc[x]
        /\ queue' = [queue EXCEPT ![lock[t]] = Tail(@)]
        /\ next[t] # NoThread
        /\ flag' = [flag EXCEPT ![next[t]] = "granted"]
        /\ UNCHANGED <<tail, next, lock, pred>>
    BY <1>7 DEF Grant, Holds, At, Goto, IInv, TypeOK, Nodes
  <2> QED BY <1>1, <2>1, LeaveStep
<1>8. CASE UNCHANGED vars
  BY <1>8 DEF vars, IInv, TypeOK, Enqueued, InQueue, Tails, Heads, Waiters, Follows, Nodes,
              Holds, At
<1> QED BY <1>2, <1>3, <1>4, <1>5, <1>6, <1>7, <1>8 DEF Next, Acquire, Release

(* The invariant holds for every set of threads and of locks.              *)
THEOREM Invariant == Spec => []IInv
  BY IInvInit, IInvStep, PTL DEF Spec

(* Two threads never hold one lock at the same time.                       *)
THEOREM Exclusion == Spec => []MutualExclusion
<1>1. IInv => MutualExclusion
  BY HolderFirst DEF MutualExclusion
<1> QED BY <1>1, Invariant, PTL

(* lock() resets a node that no lock points to and no neighbour will write *)
(* any more, although a thread uses it again and again.                    *)
THEOREM PrivateNode == Spec => []NodeIsPrivate
<1>1. IInv => NodeIsPrivate
  <2> SUFFICES ASSUME IInv, NEW t \in Threads, pc[t] \in {"idle", "reset", "swap"}
               PROVE  /\ \A l \in Locks : tail[l] # t
                      /\ \A s \in Threads : At(s, "link") => pred[s] # t
                      /\ \A s \in Threads : Holds(s) => next[s] # t
    BY DEF NodeIsPrivate
  <2>1. ~InQueue(t) BY DEF InQueue
  <2>2. ASSUME NEW s \in Threads, At(s, "link") PROVE pred[s] # t
    <3>1. PICK i \in 2 .. Len(queue[lock[s]]) : queue[lock[s]][i - 1] = pred[s]
      BY <2>2, LinkerBehind
    <3>2. lock[s] \in Locks /\ queue[lock[s]] \in Seq(Threads) BY DEF IInv, TypeOK
    <3>3. i - 1 \in 1 .. Len(queue[lock[s]]) BY <3>2
    <3> QED BY <2>1, <3>1, <3>2, <3>3 DEF IInv, Enqueued
  <2>3. ASSUME NEW s \in Threads, Holds(s) PROVE next[s] # t
    BY <2>3, Successor, NoThreadAssumption DEF At
  <2> QED BY <2>1, <2>2, <2>3, OutsideNoTail
<1> QED BY <1>1, Invariant, PTL

-----------------------------------------------------------------------------
(* The lock implements FairLock: at the beginning ...                      *)
LEMMA FairInit == Init => Fair!Init
  BY DEF Init, Fair!Init, Holds

(* ... and with every step, which lets somebody in only when it is his     *)
(* turn.                                                                   *)
LEMMA FairStep == ASSUME IInv, [Next]_vars PROVE [Fair!Next]_(Fair!vars)
<1> DEFINE inside == {t \in Threads : Holds(t)}
<1>1. ASSUME NEW t \in Threads, Swap(t) PROVE [Fair!Next]_(Fair!vars)
  <2> DEFINE l == lock[t]
  <2>1. l \in Locks /\ ~InQueue(t) /\ queue[l] \in Seq(Threads)
    BY <1>1 DEF Swap, At, InQueue, IInv, TypeOK
  <2>2. \A m \in Locks : \A i \in DOMAIN queue[m] : queue[m][i] # t
    <3>1. \A m \in Locks : DOMAIN queue[m] = 1 .. Len(queue[m]) BY DEF IInv, TypeOK
    <3> QED BY <2>1, <3>1 DEF IInv, Enqueued
  <2>3. queue' = [queue EXCEPT ![l] = Append(@, t)] BY <1>1 DEF Swap
  <2>4. \A x \in Threads \ {t} : Holds(x)' <=> Holds(x)
    BY <1>1 DEF Swap, Holds, Goto, IInv, TypeOK
  <2>5. ~Holds(t) BY <1>1 DEF Swap, Holds, At
  <2>6. CASE tail[l] = NoThread
    <3>1. Holds(t)' BY <1>1, <2>6 DEF Swap, Holds, Goto, IInv, TypeOK
    <3>2. inside' = inside \cup {t} BY <2>4, <3>1
    <3>3. queue[l] = <<>>
      <4> SUFFICES ASSUME queue[l] # <<>> PROVE FALSE OBVIOUS
      <4>1. Len(queue[l]) \in 1 .. Len(queue[l]) BY <2>1, EmptySeq
      <4>2. tail[l] \in Threads BY <2>1, <4>1 DEF IInv, Tails
      <4> QED BY <2>6, <4>2, NoThreadAssumption
    <3>4. Fair!Join(t, l) BY <2>2, <2>3, <3>2, <3>3 DEF Fair!Join
    <3> QED BY <2>1, <3>4 DEF Fair!Next
  <2>7. CASE tail[l] # NoThread
    <3>1. ~Holds(t)' BY <1>1, <2>7 DEF Swap, Holds, Goto, IInv, TypeOK
    <3>2. inside' = inside BY <2>4, <2>5, <3>1
    <3>3. Fair!Join(t, l) BY <2>2, <2>3, <3>2 DEF Fair!Join
    <3> QED BY <2>1, <3>3 DEF Fair!Next
  <2> QED BY <2>6, <2>7
<1>2. ASSUME NEW t \in Threads, Spin(t) PROVE [Fair!Next]_(Fair!vars)
  <2> DEFINE l == lock[t]
  <2>1. l \in Locks /\ queue[l] \in Seq(Threads) /\ Len(queue[l]) \in Nat
    BY DEF IInv, TypeOK
  <2>2. PICK i \in 1 .. Len(queue[l]) : queue[l][i] = t
    BY <1>2 DEF Spin, At, InQueue, IInv, Enqueued
  <2>3. CASE i # 1
    <3>1. i \in 2 .. Len(queue[l]) BY <2>1, <2>2, <2>3
    <3>2. Follows(queue[l][i - 1], t) BY <2>1, <2>2, <3>1 DEF IInv, Waiters
    <3> QED BY <1>2, <3>2 DEF Follows, Spin
  <2>4. CASE i = 1
    <3>1. queue[l] # <<>> /\ Head(queue[l]) = t BY <2>1, <2>2, <2>4
    <3>2. /\ Holds(t)' /\ UNCHANGED queue
          /\ \A x \in Threads \ {t} : Holds(x)' <=> Holds(x)
      BY <1>2 DEF Spin, Holds, Goto, IInv, TypeOK
    <3>3. inside' = inside \cup {t} BY <3>2
    <3>4. Fair!Enter(t, l) BY <3>1, <3>2, <3>3 DEF Fair!Enter
    <3> QED BY <2>1, <3>4 DEF Fair!Next
  <2> QED BY <2>3, <2>4
<1>3. ASSUME NEW t \in Threads, Holds(t), ~Holds(t)',
             \A x \in Threads \ {t} : Holds(x)' <=> Holds(x),
             queue' = [queue EXCEPT ![lock[t]] = Tail(@)]
      PROVE  [Fair!Next]_(Fair!vars)
  <2> DEFINE l == lock[t]
  <2>1. /\ l \in Locks /\ queue[l] \in Seq(Threads)
        /\ Len(queue[l]) >= 1 /\ queue[l][1] = t
    BY <1>3, HolderFirst
  <2>2. queue[l] # <<>> /\ Head(queue[l]) = t BY <2>1
  <2>3. t \in inside /\ inside' = inside \ {t} BY <1>3
  <2>4. Fair!Leave(t, l) BY <1>3, <2>2, <2>3 DEF Fair!Leave
  <2> QED BY <2>1, <2>4 DEF Fair!Next
<1>4. ASSUME UNCHANGED queue, \A x \in Threads : Holds(x)' <=> Holds(x)
      PROVE  [Fair!Next]_(Fair!vars)
  <2>1. inside' = inside BY <1>4
  <2> QED BY <1>4, <2>1 DEF Fair!vars
<1>5. ASSUME NEW t \in Threads,
             ResetFlag(t) \/ ResetNext(t) \/ Link(t) \/ Unlock(t) \/ AwaitNext(t)
      PROVE  UNCHANGED queue /\ \A x \in Threads : Holds(x)' <=> Holds(x)
  BY <1>5 DEF ResetFlag, ResetNext, Link, Unlock, AwaitNext, Holds, At, Goto, IInv, TypeOK
<1>6. ASSUME NEW t \in Threads, CompareAndSwap(t) PROVE [Fair!Next]_(Fair!vars)
  <2>1. CASE tail[lock[t]] = t
    <3>1. /\ Holds(t) /\ ~Holds(t)' /\ \A x \in Threads \ {t} : Holds(x)' <=> Holds(x)
          /\ queue' = [queue EXCEPT ![lock[t]] = Tail(@)]
      BY <1>6, <2>1 DEF CompareAndSwap, Holds, At, Goto, IInv, TypeOK
    <3> QED BY <1>3, <3>1
  <2>2. CASE tail[lock[t]] # t
    <3>1. UNCHANGED queue /\ \A x \in Threads : Holds(x)' <=> Holds(x)
      BY <1>6, <2>2 DEF CompareAndSwap, Holds, At, Goto, IInv, TypeOK
    <3> QED BY <1>4, <3>1
  <2> QED BY <2>1, <2>2
<1>7. ASSUME NEW t \in Threads, Grant(t) PROVE [Fair!Next]_(Fair!vars)
  <2>1. /\ Holds(t) /\ ~Holds(t)' /\ \A x \in Threads \ {t} : Holds(x)' <=> Holds(x)
        /\ queue' = [queue EXCEPT ![lock[t]] = Tail(@)]
    BY <1>7 DEF Grant, Holds, At, Goto, IInv, TypeOK
  <2> QED BY <1>3, <2>1
<1>8. CASE UNCHANGED vars BY <1>4, <1>8 DEF vars, Holds
<1> QED BY <1>1, <1>2, <1>4, <1>5, <1>6, <1>7, <1>8 DEF Next, Acquire, Release

(* Whatever the lock does is what FairLock allows: one at a time, in the   *)
(* order of the requests.                                                  *)
THEOREM Implements == Spec => IsFair
  BY FairInit, FairStep, Invariant, PTL DEF Spec, IsFair, Fair!Spec
=============================================================================
