--------------------------- MODULE PollServerProofs ---------------------------
(***************************************************************************)
(* Proofs about WorkQueue, for every ring and every pool of workers, and   *)
(* then about PollServer, which extends it, for every number of clients    *)
(* and every size of the arrays.                                           *)
(***************************************************************************)
EXTENDS PollServer, FiniteSetTheorems, SequenceTheorems, TLAPS

-----------------------------------------------------------------------------
(* The work queue *)

\* Counting past the end of the ring goes back to its start.
LEMMA Wrap ==
  ASSUME NEW n \in Nat, n < 2 * Size
  PROVE  n % Size = IF n < Size THEN n ELSE n - Size
BY QueueAssumption

\* The successor of an index is an index.
LEMMA SuccIndex ==
  ASSUME NEW n \in Indices
  PROVE  Succ(n) = (IF n + 1 = Size THEN 0 ELSE n + 1) /\ Succ(n) \in Indices
BY Wrap, QueueAssumption DEF Succ, Indices

\* The ring starts empty with every worker awake.
LEMMA QueueInitType == QueueInit => QueueTypeOK
<1> SUFFICES ASSUME QueueInit PROVE QueueTypeOK
  OBVIOUS
<1>1. 0 \in Indices /\ 0 \in 0..Size /\ (0 + 0) % Size = 0
  BY Wrap, QueueAssumption DEF Indices
<1> QED BY <1>1 DEF QueueInit, QueueTypeOK

\* Every step keeps the three counters in agreement.
LEMMA QueueNextType == QueueTypeOK /\ [Next]_queueVars => QueueTypeOK'
<1> SUFFICES ASSUME QueueTypeOK, [Next]_queueVars PROVE QueueTypeOK'
  OBVIOUS
<1> USE DEF QueueTypeOK
<1>0. Size \in Nat /\ Size > 0 /\ queue_front \in Nat /\ queue_count \in Nat
      /\ queue_front < Size /\ queue_count <= Size
  BY QueueAssumption DEF Indices
<1>1. ASSUME NEW x \in Items, Enqueue(x) PROVE QueueTypeOK'
  <2>1. queue_count + 1 \in 0..Size
    BY <1>0, <1>1 DEF Enqueue
  <2>2. Succ(queue_rear) \in Indices
    BY SuccIndex
  <2>3. Succ((queue_front + queue_count) % Size) = (queue_front + (queue_count + 1)) % Size
    <3>1. (queue_front + queue_count) % Size \in Indices
      OBVIOUS
    <3>2. queue_front + queue_count \in Nat /\ queue_front + queue_count < 2 * Size
          /\ queue_front + (queue_count + 1) \in Nat
          /\ queue_front + (queue_count + 1) < 2 * Size
      BY <1>0, <1>1 DEF Enqueue
    <3> QED BY <1>0, <3>1, <3>2, SuccIndex, Wrap
  <2>4. waiting' \subseteq waiting
    BY <1>1 DEF Enqueue, Signal
  <2>5. UNCHANGED <<queue_front, item>> /\ queue_count' = queue_count + 1
        /\ queue_rear' = Succ(queue_rear) /\ work_queue' \in [Indices -> Items \cup {NoItem}]
    BY <1>1 DEF Enqueue
  <2> QED BY <2>1, <2>2, <2>3, <2>4, <2>5
<1>2. ASSUME NEW w \in Workers, Wait(w) \/ SpuriousWakeup(w) \/ Finish(w)
      PROVE  QueueTypeOK'
  <2>1. UNCHANGED <<work_queue, queue_front, queue_rear, queue_count>>
    BY <1>2 DEF Wait, SpuriousWakeup, Finish
  <2>2. waiting' \subseteq Workers /\ item' \in [Workers -> Items \cup {NoItem}]
        /\ \A v \in waiting' : item'[v] = NoItem
    BY <1>2 DEF Wait, SpuriousWakeup, Finish, Runs
  <2> QED BY <2>1, <2>2
<1>3. ASSUME NEW w \in Workers, Dequeue(w) PROVE QueueTypeOK'
  <2>1. queue_count - 1 \in 0..Size
    BY <1>0, <1>3 DEF Dequeue
  <2>2. Succ(queue_front) \in Indices
    BY SuccIndex
  <2>3. (Succ(queue_front) + (queue_count - 1)) % Size = (queue_front + queue_count) % Size
    <3>1. queue_front + queue_count \in Nat /\ queue_front + queue_count < 2 * Size
          /\ queue_count > 0
      BY <1>0, <1>3 DEF Dequeue
    <3>2. CASE queue_front + 1 = Size
      <4>1. Succ(queue_front) + (queue_count - 1) = queue_count - 1
            /\ queue_count - 1 \in Nat /\ queue_count - 1 < Size
            /\ queue_count - 1 < 2 * Size
        BY <1>0, <3>1, <3>2, SuccIndex
      <4> QED BY <1>0, <3>1, <3>2, <4>1, Wrap
    <3>3. CASE queue_front + 1 # Size
      BY <1>0, <3>1, <3>3, SuccIndex
    <3> QED BY <3>2, <3>3
  <2>4. work_queue[queue_front] \in Items \cup {NoItem}
    OBVIOUS
  <2>5. UNCHANGED <<work_queue, queue_rear, waiting>> /\ queue_count' = queue_count - 1
        /\ queue_front' = Succ(queue_front) /\ item' \in [Workers -> Items \cup {NoItem}]
        /\ \A v \in waiting' : item'[v] = NoItem
    BY <1>3, <2>4 DEF Dequeue, Runs
  <2> QED BY <2>1, <2>2, <2>3, <2>5
<1>4. CASE Drop \/ UNCHANGED queueVars
  BY <1>4 DEF Drop, queueVars
<1> QED BY <1>1, <1>2, <1>3, <1>4 DEF Next, WorkerStep

\* The queue's counters agree in every state, whatever the order of producers
\* and consumers.
THEOREM QueueTyping == Spec => []QueueTypeOK
BY QueueInitType, QueueNextType, PTL DEF Spec

-----------------------------------------------------------------------------
Running == {w \in Workers : Runs(w)}

LEMMA RunningFinite == IsFiniteSet(Running) /\ Cardinality(Running) \in Nat
<1>1. Running \subseteq Workers
  BY DEF Running
<1> QED BY <1>1, QueueAssumption, FS_Subset, FS_CardinalityType

\* Enqueue adds an item and, if anyone sleeps, a runner; Dequeue removes one of
\* each; a worker goes to sleep only when nothing waits.
LEMMA NextWakeup ==
  QueueTypeOK /\ QueueTypeOK' /\ NoLostWakeup /\ [Next]_queueVars => NoLostWakeup'
<1> SUFFICES ASSUME QueueTypeOK, QueueTypeOK', NoLostWakeup, [Next]_queueVars,
                    waiting' # {}
             PROVE  Cardinality(Running') >= queue_count'
  BY DEF NoLostWakeup, Running
<1>0. queue_count \in Nat /\ queue_count' \in Nat
  BY QueueAssumption DEF QueueTypeOK
<1>1. waiting # {} => Cardinality(Running) >= queue_count
  BY DEF NoLostWakeup, Running
<1>2. ASSUME NEW w \in Workers, w \notin Running, Running' = Running \cup {w}
      PROVE  Cardinality(Running') = Cardinality(Running) + 1
  BY <1>2, RunningFinite, FS_AddElement
<1>3. ASSUME NEW w \in Running, Running' = Running \ {w}
      PROVE  Cardinality(Running') = Cardinality(Running) - 1
  BY <1>3, RunningFinite, FS_RemoveElement
<1>4. ASSUME NEW x \in Items, Enqueue(x) PROVE Cardinality(Running') >= queue_count'
  <2>1. waiting # {} /\ UNCHANGED item /\ queue_count' = queue_count + 1
    BY <1>4 DEF Enqueue, Signal
  <2>2. PICK w \in waiting : waiting' = waiting \ {w}
    BY <1>4, <2>1 DEF Enqueue, Signal
  <2>3. w \in Workers /\ w \notin Running /\ Running' = Running \cup {w}
    BY <2>1, <2>2 DEF Running, Runs, QueueTypeOK
  <2> QED BY <1>0, <1>1, <1>2, <2>1, <2>3, RunningFinite
<1>5. ASSUME NEW w \in Workers, Wait(w) PROVE Cardinality(Running') >= queue_count'
  <2>1. queue_count' = 0
    BY <1>5 DEF Wait
  <2>2. IsFiniteSet(Running') /\ Cardinality(Running') \in Nat
    <3>1. Running' \subseteq Workers
      BY DEF Running
    <3> QED BY <3>1, QueueAssumption, FS_Subset, FS_CardinalityType
  <2> QED BY <2>1, <2>2
<1>6. ASSUME NEW w \in Workers, SpuriousWakeup(w) PROVE Cardinality(Running') >= queue_count'
  <2>1. w \notin Running /\ Running' = Running \cup {w} /\ queue_count' = queue_count
    BY <1>6 DEF SpuriousWakeup, Running, Runs, QueueTypeOK
  <2>2. waiting # {}
    BY <1>6 DEF SpuriousWakeup
  <2> QED BY <1>0, <1>1, <1>2, <2>1, <2>2, RunningFinite
<1>7. ASSUME NEW w \in Workers, Dequeue(w) PROVE Cardinality(Running') >= queue_count'
  <2>1. waiting' = waiting /\ queue_count' = queue_count - 1
    BY <1>7 DEF Dequeue
  <2>2. CASE work_queue[queue_front] = NoItem
    <3>1. Running' = Running
      BY <1>7, <2>2 DEF Dequeue, Running, Runs, QueueTypeOK
    <3> QED BY <1>0, <1>1, <2>1, <3>1, RunningFinite
  <2>3. CASE work_queue[queue_front] # NoItem
    <3>1. w \in Running /\ Running' = Running \ {w}
      BY <1>7, <2>3 DEF Dequeue, Running, Runs, QueueTypeOK
    <3> QED BY <1>0, <1>1, <1>3, <2>1, <3>1, RunningFinite
  <2> QED BY <2>2, <2>3
<1>8. ASSUME NEW w \in Workers, Finish(w) PROVE Cardinality(Running') >= queue_count'
  <2>1. waiting' = waiting /\ queue_count' = queue_count
    BY <1>8 DEF Finish
  <2>2. w \notin Running /\ Running' = Running \cup {w}
    BY <1>8 DEF Finish, Running, Runs, QueueTypeOK
  <2> QED BY <1>0, <1>1, <1>2, <2>1, <2>2, RunningFinite
<1>9. CASE Drop \/ UNCHANGED queueVars
  BY <1>1, <1>9 DEF Drop, queueVars, Running, Runs
<1> QED BY <1>4, <1>5, <1>6, <1>7, <1>8, <1>9 DEF Next, WorkerStep

\* Signalling once per item is enough: work never waits while idle workers sleep.
THEOREM WakeupTheorem == Spec => []NoLostWakeup
<1>1. QueueInit => NoLostWakeup
  BY DEF QueueInit, NoLostWakeup
<1> QED BY <1>1, QueueTyping, NextWakeup, PTL DEF Spec

-----------------------------------------------------------------------------
(* The refinement of BoundedFifo. *)

\* The ring index of the k-th oldest item.
Index(k) == (queue_front + k - 1) % Size

\* Different positions in the queue are different slots of the ring.
LEMMA IndexInjective ==
  ASSUME QueueTypeOK, NEW j \in 1..Size, NEW k \in 1..Size
  PROVE  Index(j) \in Indices /\ (Index(j) = Index(k) => j = k)
<1>1. /\ queue_front \in Nat /\ queue_front < Size /\ Size \in Nat
      /\ queue_front + j - 1 \in Nat /\ queue_front + j - 1 < 2 * Size
      /\ queue_front + k - 1 \in Nat /\ queue_front + k - 1 < 2 * Size
  BY QueueAssumption DEF QueueTypeOK, Indices
<1>2. Index(j) = IF queue_front + j - 1 < Size THEN queue_front + j - 1
                                                ELSE queue_front + j - 1 - Size
  BY <1>1, Wrap DEF Index
<1>3. Index(k) = IF queue_front + k - 1 < Size THEN queue_front + k - 1
                                                ELSE queue_front + k - 1 - Size
  BY <1>1, Wrap DEF Index
<1> QED BY <1>1, <1>2, <1>3 DEF Indices

\* What waits is a sequence of queue_count items.
LEMMA QueuedIsSeq ==
  ASSUME QueueTypeOK
  PROVE  /\ Queued \in Seq(Items \cup {NoItem})
         /\ Len(Queued) = queue_count
         /\ \A k \in 1..queue_count : Queued[k] = work_queue[Index(k)]
<1>1. queue_count \in Nat /\ queue_count <= Size /\ Size \in Nat
  BY QueueAssumption DEF QueueTypeOK
<1>2. \A k \in 1..queue_count : work_queue[Index(k)] \in Items \cup {NoItem}
  <2> SUFFICES ASSUME NEW k \in 1..queue_count
               PROVE  work_queue[Index(k)] \in Items \cup {NoItem}
    OBVIOUS
  <2>1. k \in 1..Size
    BY <1>1
  <2> QED BY <2>1, IndexInjective DEF QueueTypeOK
<1>3. Queued = [k \in 1..queue_count |-> work_queue[Index(k)]]
  BY DEF Queued, Index
<1> QED BY <1>1, <1>2, <1>3

\* enqueue_work() writes behind the last item and moves no other.
LEMMA EnqueueAppends ==
  ASSUME QueueTypeOK, QueueTypeOK', NEW x \in Items, Enqueue(x)
  PROVE  Queued' = Append(Queued, x)
<1>1. queue_count \in Nat /\ queue_count < Size /\ queue_count' = queue_count + 1
      /\ Size \in Nat /\ queue_front' = queue_front /\ queue_front \in Nat
  BY QueueAssumption DEF Enqueue, QueueTypeOK, Indices
<1>2. queue_rear = Index(queue_count + 1)
  BY <1>1 DEF QueueTypeOK, Index
<1>3. \A k \in 1..queue_count + 1 : Index(k)' = Index(k)
  BY <1>1 DEF Index
<1>4. \A k \in 1..queue_count : Index(k) # queue_rear /\ Index(k) \in Indices
  <2> SUFFICES ASSUME NEW k \in 1..queue_count
               PROVE  Index(k) # queue_rear /\ Index(k) \in Indices
    OBVIOUS
  <2>1. k \in 1..Size /\ queue_count + 1 \in 1..Size /\ k # queue_count + 1
    BY <1>1
  <2> QED BY <1>2, <2>1, IndexInjective
<1>5. \A k \in 1..queue_count : work_queue'[Index(k)] = work_queue[Index(k)]
  BY <1>4 DEF Enqueue, QueueTypeOK
<1>6. work_queue'[Index(queue_count + 1)] = x
  BY <1>2 DEF Enqueue, QueueTypeOK
<1>7. /\ Queued' \in Seq(Items \cup {NoItem})
      /\ Len(Queued') = queue_count + 1
      /\ \A k \in 1..queue_count + 1 : Queued'[k] = work_queue'[Index(k)]
  <2>1. Queued' = [k \in 1..queue_count + 1 |-> work_queue'[Index(k)]]
    BY <1>1, <1>3 DEF Queued, Index
  <2>2. \A k \in 1..queue_count + 1 : work_queue'[Index(k)] \in Items \cup {NoItem}
    <3> SUFFICES ASSUME NEW k \in 1..queue_count + 1
                 PROVE  work_queue'[Index(k)] \in Items \cup {NoItem}
      OBVIOUS
    <3>1. CASE k = queue_count + 1
      BY <1>6, <3>1
    <3>2. CASE k # queue_count + 1
      <4>1. k \in 1..queue_count
        BY <1>1, <3>2
      <4> QED BY <1>4, <1>5, <4>1 DEF QueueTypeOK
    <3> QED BY <3>1, <3>2
  <2> QED BY <1>1, <2>1, <2>2
<1>8. Append(Queued, x) \in Seq(Items \cup {NoItem})
      /\ Len(Append(Queued, x)) = queue_count + 1
      /\ Append(Queued, x)[queue_count + 1] = x
      /\ \A k \in 1..queue_count : Append(Queued, x)[k] = Queued[k]
  BY <1>1, QueuedIsSeq
<1>9. \A k \in 1..queue_count + 1 : Queued'[k] = Append(Queued, x)[k]
  BY <1>1, <1>5, <1>6, <1>7, <1>8, QueuedIsSeq
<1> QED BY <1>1, <1>7, <1>8, <1>9, SeqEqual

\* worker_thread() takes the oldest item and leaves the others in order.
LEMMA DequeueTakesHead ==
  ASSUME QueueTypeOK, QueueTypeOK', NEW w \in Workers, Dequeue(w)
  PROVE  /\ Queued # <<>>
         /\ work_queue[queue_front] = Head(Queued)
         /\ Queued' = Tail(Queued)
<1>1. queue_count \in Nat /\ queue_count > 0 /\ queue_count <= Size
      /\ queue_count' = queue_count - 1 /\ work_queue' = work_queue
      /\ Size \in Nat /\ queue_front \in Indices /\ queue_front' = Succ(queue_front)
  BY QueueAssumption DEF Dequeue, QueueTypeOK
<1>2. Index(1) = queue_front
  BY <1>1, Wrap, QueueAssumption DEF Index, Indices
<1>3. Queued # <<>> /\ Head(Queued) = work_queue[queue_front]
  BY <1>1, <1>2, QueuedIsSeq
<1>4. \A k \in 1..queue_count - 1 : Index(k)' = Index(k + 1)
  <2> SUFFICES ASSUME NEW k \in 1..queue_count - 1 PROVE Index(k)' = Index(k + 1)
    OBVIOUS
  <2>1. queue_front \in Nat /\ queue_front < Size /\ k \in Nat /\ k < Size /\ k >= 1
    BY <1>1 DEF Indices
  <2>2. CASE queue_front + 1 = Size
    <3>1. queue_front' + k - 1 = k - 1 /\ k - 1 \in Nat /\ k - 1 < Size
          /\ k - 1 < 2 * Size /\ queue_front + (k + 1) - 1 = Size + (k - 1)
      BY <1>1, <2>1, <2>2, SuccIndex
    <3>2. Size + (k - 1) \in Nat /\ Size + (k - 1) < 2 * Size /\ ~(Size + (k - 1) < Size)
      BY <1>1, <2>1
    <3> QED BY <1>1, <2>1, <3>1, <3>2, Wrap DEF Index
  <2>3. CASE queue_front + 1 # Size
    BY <1>1, <2>1, <2>3, SuccIndex DEF Index
  <2> QED BY <2>2, <2>3
<1>5. /\ Queued' \in Seq(Items \cup {NoItem})
      /\ Len(Queued') = queue_count - 1
      /\ \A k \in 1..queue_count - 1 : Queued'[k] = work_queue[Index(k + 1)]
  <2>1. Queued' = [k \in 1..queue_count - 1 |-> work_queue[Index(k + 1)]]
    BY <1>1, <1>4 DEF Queued, Index
  <2>2. \A k \in 1..queue_count - 1 : work_queue[Index(k + 1)] \in Items \cup {NoItem}
    <3> SUFFICES ASSUME NEW k \in 1..queue_count - 1
                 PROVE  work_queue[Index(k + 1)] \in Items \cup {NoItem}
      OBVIOUS
    <3>1. k + 1 \in 1..Size
      BY <1>1
    <3> QED BY <3>1, IndexInjective DEF QueueTypeOK
  <2> QED BY <1>1, <2>1, <2>2
<1>6. /\ Tail(Queued) \in Seq(Items \cup {NoItem})
      /\ Len(Tail(Queued)) = queue_count - 1
      /\ \A k \in 1..queue_count - 1 : Tail(Queued)[k] = Queued[k + 1]
  BY <1>1, <1>3, QueuedIsSeq, HeadTailProperties
<1>7. \A k \in 1..queue_count - 1 : Queued'[k] = Tail(Queued)[k]
  <2> SUFFICES ASSUME NEW k \in 1..queue_count - 1 PROVE Queued'[k] = Tail(Queued)[k]
    OBVIOUS
  <2>1. k + 1 \in 1..queue_count
    BY <1>1
  <2> QED BY <1>5, <1>6, <2>1, QueuedIsSeq
<1>8. Queued' = Tail(Queued)
  BY <1>1, <1>5, <1>6, <1>7, SeqEqual
<1> QED BY <1>3, <1>8

\* Every step of the ring is a step of the abstract queue or changes nothing
\* that it shows.
LEMMA QueueStepRefines ==
  QueueTypeOK /\ QueueTypeOK' /\ [Next]_queueVars => [Fifo!Next]_<<Queued, item>>
<1> SUFFICES ASSUME QueueTypeOK, QueueTypeOK', [Next]_queueVars
             PROVE  [Fifo!Next]_<<Queued, item>>
  OBVIOUS
<1>1. ASSUME NEW x \in Items, Enqueue(x) PROVE Fifo!Next
  <2>1. Queued' = Append(Queued, x)
    BY <1>1, EnqueueAppends
  <2>2. Len(Queued) < Size /\ UNCHANGED item
    BY <1>1, QueuedIsSeq DEF Enqueue
  <2> QED BY <2>1, <2>2 DEF Fifo!Next, Fifo!Put
<1>2. ASSUME NEW w \in Workers, Dequeue(w) PROVE Fifo!Next
  <2>1. Queued # <<>> /\ work_queue[queue_front] = Head(Queued) /\ Queued' = Tail(Queued)
    BY <1>2, DequeueTakesHead
  <2>2. item[w] = NoItem /\ item' = [item EXCEPT ![w] = Head(Queued)]
    BY <1>2, <2>1 DEF Dequeue, Runs
  <2> QED BY <2>1, <2>2 DEF Fifo!Next, Fifo!Get
<1>3. ASSUME UNCHANGED <<work_queue, queue_front, queue_count>> PROVE Queued' = Queued
  BY <1>3 DEF Queued
<1>4. ASSUME NEW w \in Workers, Finish(w) PROVE Fifo!Next
  BY <1>3, <1>4 DEF Finish, Fifo!Next, Fifo!Done
<1>5. ASSUME NEW w \in Workers, Wait(w) \/ SpuriousWakeup(w)
      PROVE  UNCHANGED <<Queued, item>>
  BY <1>3, <1>5 DEF Wait, SpuriousWakeup
<1>6. CASE Drop \/ UNCHANGED queueVars
  BY <1>3, <1>6 DEF Drop, queueVars
<1> QED BY <1>1, <1>2, <1>4, <1>5, <1>6 DEF Next, WorkerStep

\* The ring with its mutex and condition variable implements a bounded FIFO.
THEOREM QueueRefinesFifo == Spec => ImplementsFifo
<1>1. QueueInit => Fifo!Init
  <2> SUFFICES ASSUME QueueInit PROVE Fifo!Init
    OBVIOUS
  <2>1. Queued \in Seq(Items \cup {NoItem}) /\ Len(Queued) = 0
    BY QueueInitType, QueuedIsSeq DEF QueueInit
  <2>2. Queued = <<>>
    BY <2>1, EmptySeq
  <2> QED BY <2>2 DEF QueueInit, Fifo!Init
<1> QED BY <1>1, QueueTyping, QueueStepRefines, PTL DEF Spec, ImplementsFifo, Fifo!Spec

-----------------------------------------------------------------------------
(* The server *)

\* The work queue: what waits are work items, and a worker that has none is idle.
Queue ==
  /\ QueueTypeOK
  /\ \A k \in 1..queue_count : Queued[k] # NoItem
  /\ step \in [Workers -> Steps]
  /\ \A w \in Workers : step[w] = "idle" <=> item[w] = NoItem

\* The locks of the sessions, and the descriptors the workers have read.
Work == locked \subseteq Heap /\ wfd \in [Workers -> Fds \cup {NoFd}]

\* The connections: nothing is received that was not sent.
Net ==
  /\ peer \in [Conns -> {"new", "up", "down"}]
  /\ sent \in [Conns -> 0..2 * MaxCommands]
  /\ rcvd \in [Conns -> Nat]
  /\ \A c \in Conns : rcvd[c] <= sent[c]
  /\ behind \in [Fds -> Conns \cup {NoConn}]
  /\ backlog \subseteq Conns

\* The range of the arrays and of the heap.
Memory ==
  /\ poll_size \in PollSize..MaxPollSize
  /\ poll_count \in 1..poll_size
  /\ poll_fds \in [Slots -> [fd : Fds \cup {NoFd}, revents : BOOLEAN]]
  /\ sessions \in [Slots -> Heap \cup {NoSession}]
  /\ heap \subseteq Heap
  /\ ses \in [Heap -> [sockfd : Fds \cup {NoFd}, logged_in : Conns \cup {NoConn}]]

\* Each open descriptor and each live session has one slot, the same one.
Arrays ==
  /\ \A k \in Used : sessions[k] \in heap /\ poll_fds[k].fd = ses[sessions[k]].sockfd
  /\ \A k, l \in Used : poll_fds[k].fd = poll_fds[l].fd => k = l
  /\ {poll_fds[k].fd : k \in Used} = Fds \ FreeFds
  /\ {sessions[k] : k \in Used} = heap
  /\ active_connections = poll_count - 1

\* Where main() is, and that the session it reads from is that of its slot.
Main ==
  /\ at \in {"poll", "loop", "recv", "freed"}
  /\ i \in 1..poll_count + 1
  /\ cur \in Heap \cup {NoSession}
  /\ buf \in Nat
  /\ at \in {"poll", "loop"} => buf = 0
  /\ at = "recv" => i \in Used /\ cur = sessions[i] /\ buf <= rcvd[Conn]

\* The invariant holds while the process runs and what it does is defined.
Good == Queue /\ Work /\ Net /\ Memory /\ Arrays /\ Main
IInv == Alive => Good

-----------------------------------------------------------------------------
(* What follows from the invariant. *)

\* The slots of the arrays that are in use exist.
LEMMA UsedAreSlots ==
  ASSUME Memory
  PROVE  /\ Used \subseteq Slots /\ poll_count \in Nat /\ poll_count <= MaxPollSize
         /\ Listener \notin Used
BY PollAssumption DEF Memory, Used, Slots, Listener

\* A slot in use holds an open descriptor and the session of its connection.
LEMMA SlotInUse ==
  ASSUME Net, Memory, Arrays, NEW k \in Used
  PROVE  /\ sessions[k] \in heap /\ sessions[k] \in Heap
         /\ poll_fds[k].fd = ses[sessions[k]].sockfd
         /\ poll_fds[k].fd \in Fds /\ poll_fds[k].fd \notin FreeFds
         /\ behind[poll_fds[k].fd] \in Conns
<1>1. sessions[k] \in heap /\ poll_fds[k].fd = ses[sessions[k]].sockfd
  BY DEF Arrays
<1>2. poll_fds[k].fd \in Fds \ FreeFds
  BY DEF Arrays
<1>3. behind[poll_fds[k].fd] \in Conns
  BY <1>2 DEF FreeFds, Net
<1> QED BY <1>1, <1>2, <1>3 DEF Memory

\* No session has two slots.
LEMMA OneSlot ==
  ASSUME Arrays, NEW k \in Used, NEW l \in Used, sessions[k] = sessions[l]
  PROVE  k = l
BY DEF Arrays

\* The connection main() reads from is open.
LEMMA ConnIsOpen ==
  ASSUME Net, Memory, Arrays, Main, at = "recv"
  PROVE  /\ i \in Used /\ cur = sessions[i] /\ cur \in heap /\ cur \in Heap
         /\ ses[cur].sockfd = poll_fds[i].fd /\ ses[cur].sockfd \in Fds
         /\ Conn \in Conns /\ buf <= rcvd[Conn]
<1>1. i \in Used /\ cur = sessions[i] /\ buf <= rcvd[Conn]
  BY DEF Main
<1> QED BY <1>1, SlotInUse DEF Conn

\* What main() puts into the queue is a work item.
LEMMA CommandIsItem ==
  ASSUME Net, Memory, Arrays, Main, at = "recv", buf >= 2
  PROVE  WorkItem \in Items
<1>1. cur \in Heap /\ Conn \in Conns /\ buf <= rcvd[Conn]
  BY ConnIsOpen
<1>2. /\ rcvd[Conn] \in Nat /\ sent[Conn] \in Nat /\ rcvd[Conn] <= sent[Conn]
      /\ sent[Conn] <= 2 * MaxCommands /\ MaxCommands \in Nat /\ buf \in Nat
  BY <1>1, PollAssumption DEF Net, Main
<1>3. (rcvd[Conn] - buf) \div 2 + 1 \in 1..MaxCommands
  <2>1. \A r, b, m \in Nat : r <= 2 * m /\ b <= r /\ b >= 2 => (r - b) \div 2 + 1 \in 1..m
    OBVIOUS
  <2>2. rcvd[Conn] <= 2 * MaxCommands
    BY <1>2
  <2> HIDE DEF Conn
  <2> QED BY <1>1, <1>2, <2>1, <2>2
<1> QED BY <1>1, <1>3, PollAssumption DEF WorkItem

\* A worker that is not idle has an item.
LEMMA HasItem ==
  ASSUME Queue, NEW w \in Workers, step[w] # "idle"
  PROVE  /\ item[w] # NoItem /\ item[w] \in Items
         /\ item[w].session \in Heap /\ item[w].conn \in Conns
<1>1. item[w] # NoItem /\ item[w] \in Items
  BY DEF Queue, QueueTypeOK
<1>2. item[w] \in [session : Heap, conn : Conns, n : 1..MaxCommands]
  BY <1>1, PollAssumption
<1> QED BY <1>1, <1>2

\* The steps of a worker with its item.
ItemStep(w) ==
  \/ CheckActive(w) \/ Inactive(w) \/ LockSession(w) \/ UnknownCommand(w) \/ LogIn(w)
  \/ Reply(w) \/ ReplyBye(w) \/ LogOut(w) \/ UseFreed(w)

\* A worker changes no more of the memory of main() than the user of a session.
LEMMA WorkerLeaves ==
  ASSUME Queue, NEW w \in Workers, WorkerMoves(w)
  PROVE  /\ UNCHANGED <<netVars, pollVars, heap, mainVars>>
         /\ \/ UNCHANGED ses
            \/ /\ item[w] # NoItem
               /\ \E who \in {item[w].conn, NoConn} :
                    ses' = [ses EXCEPT ![item[w].session].logged_in = who]
<1>1. CASE GetWork(w) \/ Sleep(w) \/ WakeUp(w)
  BY <1>1 DEF GetWork, Sleep, WakeUp
<1>2. CASE CheckActive(w) \/ Inactive(w) \/ UseFreed(w)
  BY <1>2 DEF CheckActive, Inactive, UseFreed
<1>3. CASE LockSession(w) \/ UnknownCommand(w)
  BY <1>3 DEF LockSession, UnknownCommand, ReadSockfd
<1>4. CASE Reply(w) \/ ReplyBye(w)
  BY <1>4 DEF Reply, ReplyBye
<1>5. CASE LogIn(w)
  BY <1>5, HasItem DEF LogIn
<1>6. CASE LogOut(w)
  BY <1>6, HasItem DEF LogOut
<1> QED BY <1>1, <1>2, <1>3, <1>4, <1>5, <1>6 DEF WorkerMoves

\* So a session keeps its descriptor.
LEMMA WorkerKeepsSocket ==
  ASSUME Queue, Memory, NEW w \in Workers, WorkerMoves(w)
  PROVE  /\ \/ UNCHANGED ses
            \/ \E s \in Heap, who \in Conns \cup {NoConn} :
                 ses' = [ses EXCEPT ![s].logged_in = who]
         /\ \A s \in Heap : ses'[s].sockfd = ses[s].sockfd
<1>1. \/ UNCHANGED ses
      \/ /\ item[w] # NoItem
         /\ \E who \in {item[w].conn, NoConn} :
              ses' = [ses EXCEPT ![item[w].session].logged_in = who]
  BY WorkerLeaves
<1>2. item[w] # NoItem => item[w].session \in Heap /\ item[w].conn \in Conns
  BY HasItem DEF Queue
<1>3. \/ UNCHANGED ses
      \/ \E s \in Heap, who \in Conns \cup {NoConn} :
           ses' = [ses EXCEPT ![s].logged_in = who]
  BY <1>1, <1>2
<1>4. CASE UNCHANGED ses
  BY <1>3, <1>4
<1>5. ASSUME NEW s \in Heap, NEW who \in Conns \cup {NoConn},
             ses' = [ses EXCEPT ![s].logged_in = who]
      PROVE  \A t \in Heap : ses'[t].sockfd = ses[t].sockfd
  BY <1>5 DEF Memory
<1> QED BY <1>3, <1>4, <1>5

\* Where a step takes a worker that has an item.
LEMMA ItemMoves ==
  ASSUME Queue, Work, NEW w \in Workers, ItemStep(w), Alive'
  PROVE  /\ UNCHANGED <<work_queue, queue_front, queue_rear, queue_count, waiting>>
         /\ step[w] # "idle"
         /\ \/ /\ UNCHANGED <<item>>
               /\ \E x \in Steps \ {"idle"} : step' = [step EXCEPT ![w] = x]
            \/ /\ item' = [item EXCEPT ![w] = NoItem]
               /\ step' = [step EXCEPT ![w] = "idle"]
<1>0. step \in [Workers -> Steps]
  BY DEF Queue
<1>1. CASE CheckActive(w)
  BY <1>0, <1>1 DEF CheckActive, queueVars, Steps
<1>2. CASE LockSession(w) \/ UnknownCommand(w)
  BY <1>0, <1>2 DEF LockSession, UnknownCommand, ReadSockfd, queueVars, Steps
<1>3. CASE LogIn(w) \/ ReplyBye(w)
  BY <1>0, <1>3 DEF LogIn, ReplyBye, queueVars, Steps
<1>4. CASE Inactive(w)
  BY <1>4 DEF Inactive, Finish
<1>5. CASE Reply(w) \/ LogOut(w)
  BY <1>5 DEF Reply, LogOut, Return, Finish
<1>6. ~UseFreed(w)
  BY DEF UseFreed, Alive
<1> QED BY <1>1, <1>2, <1>3, <1>4, <1>5, <1>6 DEF ItemStep

-----------------------------------------------------------------------------
(* The work queue in the server. *)

\* What waits in the queue.
Waiting == \A k \in 1..queue_count : Queued[k] # NoItem

\* The steps of the server are steps of its queue.
LEMMA QueueSteps ==
  ASSUME IInv, [PollNext]_vars
  PROVE  [Next]_queueVars
<1>1. CASE MainStep
  <2>1. CASE Command
    <3>1. WorkItem \in Items
      BY <1>1, <2>1, CommandIsItem DEF MainStep, Command, IInv, Good, Alive
    <3>2. Enqueue(WorkItem) \/ Drop
      BY <2>1 DEF Command
    <3> QED BY <3>1, <3>2 DEF Next
  <2>2. CASE ~Command
    <3>1. UNCHANGED queueVars
      BY <1>1, <2>2 DEF MainStep, Poll, LoopEnds, SkipSlots, AcceptFails, RejectClient,
         AcceptClient, AcceptOverrun, ReadSlot, Recv, Disconnect, ReadFreed
    <3> QED BY <3>1
  <2> QED BY <2>1, <2>2
<1>2. ASSUME NEW w \in Workers, WorkerMoves(w) PROVE [Next]_queueVars
  <2>1. \/ Dequeue(w) \/ Wait(w) \/ SpuriousWakeup(w) \/ Finish(w)
        \/ UNCHANGED queueVars
    <3>1. CASE GetWork(w) \/ Sleep(w) \/ WakeUp(w)
      BY <3>1 DEF GetWork, Sleep, WakeUp
    <3>2. CASE Inactive(w) \/ Reply(w) \/ LogOut(w)
      BY <3>2 DEF Inactive, Reply, LogOut, Return
    <3>3. CASE CheckActive(w) \/ LogIn(w) \/ ReplyBye(w) \/ UseFreed(w)
      BY <3>3 DEF CheckActive, LogIn, ReplyBye, UseFreed
    <3>4. CASE LockSession(w) \/ UnknownCommand(w)
      BY <3>4 DEF LockSession, UnknownCommand, ReadSockfd
    <3> QED BY <1>2, <3>1, <3>2, <3>3, <3>4 DEF WorkerMoves
  <2> QED BY <2>1 DEF Next, WorkerStep
<1>3. CASE ClientStep \/ Ended \/ UNCHANGED vars
  BY <1>3 DEF ClientStep, Connect, SendHalf, Close, Ended, vars
<1> QED BY <1>1, <1>2, <1>3 DEF PollNext

\* Work items are all that ever waits.
LEMMA WaitingHolds ==
  ASSUME QueueTypeOK, QueueTypeOK', Waiting, [Next]_queueVars
  PROVE  Waiting'
<1>0. /\ queue_count \in Nat /\ queue_count' \in Nat
      /\ Queued \in Seq(Items \cup {NoItem}) /\ Len(Queued) = queue_count
  BY QueuedIsSeq, QueueAssumption DEF QueueTypeOK
<1>1. ASSUME NEW x \in Items, Enqueue(x) PROVE Waiting'
  <2>1. Queued' = Append(Queued, x) /\ queue_count' = queue_count + 1
    BY <1>1, EnqueueAppends DEF Enqueue
  <2>2. x # NoItem
    BY QueueAssumption
  <2>3. \A k \in 1..queue_count + 1 :
          Append(Queued, x)[k] = IF k <= queue_count THEN Queued[k] ELSE x
    BY <1>0
  <2> HIDE DEF Queued
  <2> QED BY <1>0, <2>1, <2>2, <2>3 DEF Waiting
<1>2. ASSUME NEW w \in Workers, Dequeue(w) PROVE Waiting'
  <2>1. Queued' = Tail(Queued) /\ queue_count' = queue_count - 1 /\ Queued # <<>>
    BY <1>2, DequeueTakesHead DEF Dequeue
  <2>2. \A k \in 1..queue_count - 1 : Tail(Queued)[k] = Queued[k + 1]
    BY <1>0, <2>1, HeadTailProperties
  <2> HIDE DEF Queued
  <2> QED BY <1>0, <2>1, <2>2 DEF Waiting
<1>3. CASE UNCHANGED <<work_queue, queue_front, queue_count>>
  BY <1>3 DEF Waiting, Queued
<1> QED BY <1>1, <1>2, <1>3 DEF Next, WorkerStep, Wait, SpuriousWakeup, Finish, Drop, queueVars

\* The queue and the workers' places in their items.
LEMMA QueueKeeps ==
  ASSUME IInv, Alive, [PollNext]_vars, Alive'
  PROVE  Queue'
<1>1. [Next]_queueVars
  BY QueueSteps
<1>2. QueueTypeOK /\ Waiting /\ Queue
  BY DEF IInv, Good, Queue, Waiting
<1>3. QueueTypeOK' /\ Waiting'
  BY <1>1, <1>2, QueueNextType, WaitingHolds
<1>4. ASSUME UNCHANGED <<item, step>> PROVE Queue'
  BY <1>2, <1>3, <1>4 DEF Queue, Waiting
<1>5. CASE MainStep \/ ClientStep \/ Ended \/ UNCHANGED vars
  <2>1. UNCHANGED <<item, step>>
    BY <1>5 DEF MainStep, Poll, LoopEnds, SkipSlots, AcceptFails, RejectClient,
       AcceptClient, AcceptOverrun, ReadSlot, Recv, Command, Disconnect, ReadFreed,
       ClientStep, Connect, SendHalf, Close, Ended, vars, queueVars, workVars, Enqueue, Drop
  <2> QED BY <1>4, <2>1
<1>6. ASSUME NEW w \in Workers, WorkerMoves(w) PROVE Queue'
  <2>1. CASE GetWork(w)
    <3>1. work_queue[queue_front] # NoItem
      <4>1. queue_count > 0 /\ queue_count \in Nat
        BY <2>1, <1>2, QueueAssumption DEF GetWork, Dequeue, QueueTypeOK
      <4>2. Queued # <<>> /\ work_queue[queue_front] = Head(Queued)
        BY <1>2, <1>3, <2>1, DequeueTakesHead DEF GetWork
      <4>3. Head(Queued) = Queued[1]
        BY <1>2, <4>2, QueuedIsSeq, HeadTailProperties
      <4> QED BY <1>2, <4>1, <4>2, <4>3 DEF Waiting
    <3>2. /\ item' = [item EXCEPT ![w] = work_queue[queue_front]]
          /\ step' = [step EXCEPT ![w] = "check"]
      BY <2>1 DEF GetWork, Dequeue
    <3>3. /\ step' \in [Workers -> Steps]
          /\ \A v \in Workers : step'[v] = "idle" <=> item'[v] = NoItem
      BY <1>2, <3>1, <3>2 DEF Queue, QueueTypeOK, Steps
    <3> QED BY <1>3, <3>3 DEF Queue, Waiting
  <2>2. CASE Sleep(w) \/ WakeUp(w)
    BY <1>4, <2>2 DEF Sleep, WakeUp, Wait, SpuriousWakeup, workVars
  <2>3. CASE ItemStep(w)
    <3>1. /\ step[w] # "idle"
          /\ \/ /\ UNCHANGED item
                /\ \E x \in Steps \ {"idle"} : step' = [step EXCEPT ![w] = x]
             \/ /\ item' = [item EXCEPT ![w] = NoItem]
                /\ step' = [step EXCEPT ![w] = "idle"]
      BY <1>2, <2>3, ItemMoves DEF IInv, Good
    <3>2. /\ step' \in [Workers -> Steps]
          /\ \A v \in Workers : step'[v] = "idle" <=> item'[v] = NoItem
      BY <1>2, <3>1 DEF Queue, QueueTypeOK, Steps
    <3> QED BY <1>3, <3>2 DEF Queue, Waiting
  <2> QED BY <1>6, <2>1, <2>2, <2>3 DEF WorkerMoves, ItemStep
<1> QED BY <1>5, <1>6 DEF PollNext

\* Locks are taken on sessions, and what a worker reads as its descriptor is one.
LEMMA WorkKeeps ==
  ASSUME IInv, Alive, [PollNext]_vars, Alive'
  PROVE  Work'
<1>1. Queue /\ Work /\ Memory
  BY DEF IInv, Good
<1>2. CASE UNCHANGED <<locked, wfd>>
  BY <1>1, <1>2 DEF Work
<1>3. CASE MainStep \/ ClientStep \/ Ended \/ UNCHANGED vars
  <2>1. UNCHANGED wfd /\ locked' \subseteq locked
    BY <1>3 DEF MainStep, Poll, LoopEnds, SkipSlots, AcceptFails, RejectClient,
       AcceptClient, AcceptOverrun, ReadSlot, Recv, Command, Disconnect, ReadFreed,
       ClientStep, Connect, SendHalf, Close, Ended, vars, workVars
  <2> QED BY <1>1, <2>1 DEF Work
<1>4. ASSUME NEW w \in Workers, WorkerMoves(w) PROVE Work'
  <2>1. CASE GetWork(w) \/ Sleep(w) \/ WakeUp(w) \/ CheckActive(w) \/ Inactive(w)
    BY <1>2, <2>1 DEF GetWork, Sleep, WakeUp, CheckActive, Inactive, workVars
  <2>2. CASE LogIn(w) \/ ReplyBye(w) \/ UseFreed(w)
    BY <1>2, <2>2 DEF LogIn, ReplyBye, UseFreed, workVars
  <2>3. CASE LockSession(w) \/ UnknownCommand(w)
    <3>1. /\ step[w] = "run" /\ wfd' = [wfd EXCEPT ![w] = ses[item[w].session].sockfd]
          /\ locked' \subseteq locked \cup {item[w].session}
      BY <2>3 DEF LockSession, UnknownCommand, ReadSockfd
    <3>2. item[w].session \in Heap
      BY <1>1, <3>1, HasItem
    <3>3. ses[item[w].session].sockfd \in Fds \cup {NoFd}
      BY <1>1, <3>2 DEF Memory
    <3> QED BY <1>1, <3>1, <3>2, <3>3 DEF Work
  <2>4. CASE Reply(w) \/ LogOut(w)
    <3>1. wfd' = [wfd EXCEPT ![w] = NoFd] /\ locked' \subseteq locked
      BY <2>4 DEF Reply, LogOut, Return
    <3> QED BY <1>1, <3>1 DEF Work
  <2> QED BY <1>4, <2>1, <2>2, <2>3, <2>4 DEF WorkerMoves
<1> QED BY <1>3, <1>4 DEF PollNext

-----------------------------------------------------------------------------
(* One lemma for each part of the program. *)

\* What most steps leave alone.
LEMMA Frame ==
  ASSUME Net, Memory, Arrays, UNCHANGED <<pollVars, heap, behind>>,
         \/ UNCHANGED ses
         \/ \E s \in Heap, who \in Conns \cup {NoConn} :
              ses' = [ses EXCEPT ![s].logged_in = who]
  PROVE  Memory' /\ Arrays' /\ \A s \in Heap : ses'[s].sockfd = ses[s].sockfd
<1>1. /\ ses' \in [Heap -> [sockfd : Fds \cup {NoFd}, logged_in : Conns \cup {NoConn}]]
      /\ \A s \in Heap : ses'[s].sockfd = ses[s].sockfd
  BY DEF Memory
<1>2. Memory'
  BY <1>1 DEF Memory, pollVars
<1>3. \A k \in Used : sessions[k] \in Heap
  BY SlotInUse
<1>4. Arrays'
  BY <1>1, <1>3 DEF Arrays, pollVars, Used, FreeFds
<1> QED BY <1>1, <1>2, <1>4

\* Clients do not touch the server's memory.
LEMMA ClientKeeps ==
  ASSUME IInv, ClientStep
  PROVE  Net' /\ Memory' /\ Arrays' /\ Main'
<1> USE DEF mainVars, pollVars
<1>1. Good
  BY DEF ClientStep, IInv, Alive
<1>2. /\ UNCHANGED <<rcvd, behind, pollVars, heap, ses, mainVars>>
      /\ peer' \in [Conns -> {"new", "up", "down"}]
      /\ sent' \in [Conns -> 0..2 * MaxCommands]
      /\ \A c \in Conns : sent'[c] >= sent[c]
      /\ backlog' \subseteq Conns
  <2>1. PICK c \in Conns : Connect(c) \/ SendHalf(c) \/ Close(c)
    BY DEF ClientStep
  <2>2. \A d \in Conns : sent[d] \in Nat /\ sent[d] <= 2 * MaxCommands
    BY <1>1, PollAssumption DEF Good, Net
  <2>3. CASE Connect(c) \/ Close(c)
    BY <1>1, <2>2, <2>3 DEF Connect, Close, Good, Net
  <2>4. CASE SendHalf(c)
    <3>1. sent[c] + 1 \in 0..2 * MaxCommands
      BY <2>2, <2>4, PollAssumption DEF SendHalf
    <3> QED BY <1>1, <2>2, <2>4, <3>1 DEF SendHalf, Good, Net
  <2> QED BY <2>1, <2>3, <2>4
<1>3. Net'
  <2>1. \A c \in Conns : rcvd[c] \in Nat /\ sent[c] \in Nat /\ sent'[c] \in Nat
                         /\ rcvd[c] <= sent[c]
    BY <1>1, <1>2, PollAssumption DEF Good, Net
  <2> QED BY <1>1, <1>2, <2>1 DEF Good, Net
<1>4. Memory' /\ Arrays'
  BY <1>1, <1>2, Frame DEF Good
<1>5. Main'
  BY <1>1, <1>2 DEF Good, Main, Used, Conn
<1> QED BY <1>3, <1>4, <1>5

\* A worker changes no more of a session than its user.
LEMMA WorkerKeeps ==
  ASSUME IInv, NEW w \in Workers, WorkerMoves(w), Alive'
  PROVE  Net' /\ Memory' /\ Arrays' /\ Main'
<1> USE DEF mainVars, pollVars, netVars
<1>1. Good
  BY DEF WorkerMoves, IInv, Alive
<1>2. /\ UNCHANGED <<netVars, pollVars, heap, mainVars>>
      /\ \/ UNCHANGED ses
         \/ \E s \in Heap, who \in Conns \cup {NoConn} :
              ses' = [ses EXCEPT ![s].logged_in = who]
  <2>1. UNCHANGED <<netVars, pollVars, heap, mainVars>>
    BY <1>1, WorkerLeaves DEF Good
  <2> QED BY <1>1, <2>1, WorkerKeepsSocket DEF Good
<1>3. Net'
  BY <1>1, <1>2 DEF Good, Net
<1>4. Memory' /\ Arrays' /\ \A s \in Heap : ses'[s].sockfd = ses[s].sockfd
  BY <1>1, <1>2, Frame DEF Good
<1>5. Main'
  <2>1. at = "recv" => cur \in Heap
    BY <1>1, ConnIsOpen DEF Good
  <2>2. at = "recv" => Conn' = Conn
    BY <1>2, <1>4, <2>1 DEF Conn
  <2> QED BY <1>1, <1>2, <2>2 DEF Good, Main, Used
<1> QED BY <1>3, <1>4, <1>5

\* poll(), and the loop over the slots.
LEMMA LoopKeeps ==
  ASSUME Good, Poll \/ LoopEnds \/ SkipSlots \/ AcceptFails \/ ReadSlot
  PROVE  Net' /\ Memory' /\ Arrays' /\ Main'
<1> USE DEF netVars
<1>0. poll_count \in Nat \ {0} /\ i \in Nat
  BY PollAssumption DEF Good, Memory, Main
<1>1. /\ UNCHANGED <<netVars, poll_size, sessions, poll_count, active_connections, heap,
                     ses, buf>>
      /\ buf = 0
  BY DEF Poll, LoopEnds, SkipSlots, AcceptFails, AtListener, ReadSlot, pollVars, Good, Main
<1>2. Net'
  BY <1>1 DEF Good, Net
<1>3. /\ poll_fds' \in [Slots -> [fd : Fds \cup {NoFd}, revents : BOOLEAN]]
      /\ \A k \in Slots : poll_fds'[k].fd = poll_fds[k].fd
  <2>1. CASE Poll
    <3>1. \A k \in Slots : Readable(k) \in BOOLEAN
      BY DEF Readable
    <3>2. \A k \in Slots : poll_fds'[k] = IF k <= poll_count
                                            THEN [poll_fds[k] EXCEPT !.revents = Readable(k)]
                                            ELSE poll_fds[k]
      BY <2>1 DEF Poll
    <3>3. \A k \in Slots : /\ poll_fds'[k] \in [fd : Fds \cup {NoFd}, revents : BOOLEAN]
                           /\ poll_fds'[k].fd = poll_fds[k].fd
      <4> TAKE k \in Slots
      <4> HIDE DEF Readable
      <4>1. poll_fds[k] \in [fd : Fds \cup {NoFd}, revents : BOOLEAN]
        BY DEF Good, Memory
      <4> QED BY <3>1, <3>2, <4>1
    <3>4. poll_fds' = [k \in Slots |-> poll_fds'[k]]
      <4> DEFINE P(k) == IF k <= poll_count
                           THEN [poll_fds[k] EXCEPT !.revents = Readable(k)]
                           ELSE poll_fds[k]
      <4>1. poll_fds' = [k \in Slots |-> P(k)]
        BY <2>1 DEF Poll
      <4> HIDE DEF P
      <4> QED BY <4>1
    <3> QED BY <3>3, <3>4
  <2>2. CASE ~Poll
    BY <2>2 DEF LoopEnds, SkipSlots, AcceptFails, ReadSlot, pollVars, Good, Memory
  <2> QED BY <2>1, <2>2
<1>4. Memory'
  BY <1>1, <1>3 DEF Good, Memory
<1>5. Arrays'
  <2>1. Used \subseteq Slots
    BY UsedAreSlots DEF Good
  <2>2. \A k \in Used : poll_fds'[k].fd = poll_fds[k].fd
    BY <1>3, <2>1
  <2>3. Used' = Used /\ FreeFds' = FreeFds
    BY <1>1 DEF Used, FreeFds
  <2>4. {poll_fds'[k].fd : k \in Used} = {poll_fds[k].fd : k \in Used}
    BY <2>2
  <2> QED BY <1>1, <2>2, <2>3, <2>4 DEF Good, Arrays
<1>6. Main'
  <2>1. CASE Poll \/ LoopEnds \/ SkipSlots \/ AcceptFails
    <3>1. at' \in {"poll", "loop"} /\ i' \in 1..poll_count + 1 /\ UNCHANGED <<cur, buf>>
      BY <1>0, <2>1 DEF Poll, LoopEnds, SkipSlots, AcceptFails, AtListener, Listener
    <3> QED BY <1>1, <3>1 DEF Good, Main
  <2>2. CASE ReadSlot
    <3>1. /\ at' = "recv" /\ cur' = sessions[i] /\ i' = i /\ i \in Used
      <4>1. i \in 1..poll_count + 1
        BY DEF Good, Main
      <4> QED BY <1>0, <2>2, <4>1 DEF ReadSlot, Listener, Used
    <3>2. /\ sessions[i] \in Heap /\ ses[sessions[i]].sockfd = poll_fds[i].fd
          /\ behind[poll_fds[i].fd] \in Conns
      BY <3>1, SlotInUse DEF Good
    <3>3. Conn' \in Conns
      BY <1>1, <3>1, <3>2 DEF Conn
    <3>4. buf' <= rcvd'[Conn']
      BY <1>1, <1>2, <3>3 DEF Net
    <3> QED BY <1>1, <3>1, <3>2, <3>4 DEF Good, Main, Used
  <2> QED BY <2>1, <2>2
<1> QED BY <1>2, <1>4, <1>5, <1>6

\* Bytes are received, a command is taken from them, or a freed session is looked at.
LEMMA ReceiveKeeps ==
  ASSUME Good, Recv \/ Command \/ ReadFreed, Alive'
  PROVE  Net' /\ Memory' /\ Arrays' /\ Main'
<1> USE DEF netVars
<1>1. /\ UNCHANGED <<peer, sent, behind, backlog, pollVars, heap, ses>>
      /\ at \in {"recv", "freed"}
  BY DEF Recv, Command, ReadFreed
<1>2. Memory' /\ Arrays'
  BY <1>1, Frame DEF Good
<1>3. CASE Recv
  <2>1. at = "recv"
    BY <1>3 DEF Recv
  <2>2. /\ i \in Used /\ cur = sessions[i] /\ cur \in Heap /\ Conn \in Conns
        /\ buf <= rcvd[Conn] /\ buf \in Nat
    BY <2>1, ConnIsOpen DEF Good, Main
  <2>3. PICK k \in 1..sent[Conn] - rcvd[Conn] :
          buf' = buf + k /\ rcvd' = [rcvd EXCEPT ![Conn] = @ + k]
    BY <1>3 DEF Recv
  <2>4. Conn' = Conn /\ UNCHANGED <<at, i, cur, sessions, poll_count>>
    BY <1>1, <1>3 DEF Conn, Recv, pollVars
  <2> HIDE DEF Conn
  <2>5. \A c \in Conns : rcvd[c] \in Nat /\ sent[c] \in Nat /\ rcvd[c] <= sent[c]
    BY PollAssumption DEF Good, Net
  <2>6. /\ k \in Nat /\ rcvd[Conn] + k <= sent[Conn] /\ rcvd'[Conn] = rcvd[Conn] + k
        /\ rcvd' \in [Conns -> Nat] /\ \A c \in Conns : rcvd'[c] <= sent[c]
    BY <2>2, <2>3, <2>5 DEF Good, Net
  <2>7. Net'
    BY <1>1, <2>6 DEF Good, Net
  <2>8. Main'
    <3>1. buf' \in Nat /\ buf' <= rcvd'[Conn']
      BY <2>2, <2>3, <2>4, <2>5, <2>6
    <3> QED BY <2>1, <2>2, <2>4, <3>1 DEF Good, Main, Used
  <2> QED BY <1>2, <2>7, <2>8
<1>4. CASE Command
  <2>1. at = "recv" /\ buf >= 2 /\ UNCHANGED netVars
    BY <1>4 DEF Command
  <2>2. /\ i \in Used /\ cur = sessions[i] /\ cur \in Heap /\ Conn \in Conns
        /\ buf <= rcvd[Conn] /\ buf \in Nat
    BY <2>1, ConnIsOpen DEF Good, Main
  <2>3. Net'
    BY <2>1 DEF Good, Net
  <2>4. Conn' = Conn \/ at' = "loop"
    BY <1>1, <1>4 DEF Command, Conn
  <2>5. \/ at' = "loop" /\ i' = i + 1 /\ cur' = NoSession /\ buf' = 0
        \/ buf' = buf - 2 /\ UNCHANGED <<at, i, cur>>
    BY <1>4 DEF Command
  <2>6. UNCHANGED <<sessions, poll_count>> /\ poll_count \in Nat
    BY <1>1, UsedAreSlots DEF pollVars, Good
  <2>7. CASE at' = "loop" /\ i' = i + 1 /\ cur' = NoSession /\ buf' = 0
    <3>1. i + 1 \in 1..poll_count + 1
      BY <2>2, <2>6 DEF Used
    <3> QED BY <1>2, <2>3, <2>6, <2>7, <3>1 DEF Main
  <2>8. CASE buf' = buf - 2 /\ UNCHANGED <<at, i, cur>>
    <3>1. rcvd[Conn] \in Nat /\ rcvd' = rcvd /\ Conn' = Conn
      BY <2>1, <2>2, <2>4, <2>8 DEF Good, Net
    <3> HIDE DEF Conn
    <3>2. buf' \in Nat /\ buf' <= rcvd'[Conn']
      BY <2>1, <2>2, <2>8, <3>1
    <3>3. Main'
      BY <2>1, <2>2, <2>6, <2>8, <3>2 DEF Good, Main, Used
    <3> QED BY <1>2, <2>3, <3>3
  <2> QED BY <2>5, <2>7, <2>8
<1>5. CASE ReadFreed
  <2>1. /\ UNCHANGED <<netVars, pollVars, i, buf>> /\ buf = 0 /\ at' = "loop"
        /\ cur' = NoSession
    BY <1>5 DEF ReadFreed, Alive
  <2> QED BY <1>2, <2>1 DEF Good, Net, Main, pollVars
<1> QED BY <1>3, <1>4, <1>5

\* The slots behind a slot that is removed move down.
LEMMA ShiftedIs ==
  ASSUME Memory, NEW a, NEW k \in 2..poll_count - 1, i \in Used
  PROVE  LET j == IF k < i THEN k ELSE k + 1 IN
           j \in Used \ {i} /\ Shifted(a)[k] = a[j]
<1>1. poll_count \in Nat /\ poll_count <= MaxPollSize /\ MaxPollSize \in Nat /\ i \in Nat
  BY UsedAreSlots, PollAssumption DEF Used
<1>2. k \in Slots
  BY <1>1 DEF Slots
<1>3. Shifted(a)[k] = IF k \in i..poll_count - 1 THEN a[k + 1] ELSE a[k]
  BY <1>2 DEF Shifted
<1> QED BY <1>1, <1>3 DEF Used

\* Every other slot is still there.
LEMMA ShiftedKeeps ==
  ASSUME Memory, NEW a, NEW j \in Used \ {i}, i \in Used
  PROVE  \E k \in 2..poll_count - 1 : Shifted(a)[k] = a[j]
<1> DEFINE k == IF j < i THEN j ELSE j - 1
<1>1. poll_count \in Nat /\ i \in Nat /\ j \in Nat /\ i >= 2 /\ j >= 2 /\ i <= poll_count
      /\ j <= poll_count /\ j # i
  BY UsedAreSlots DEF Used
<1>2. k \in 2..poll_count - 1 /\ (IF k < i THEN k ELSE k + 1) = j
  BY <1>1
<1>3. Shifted(a)[k] = a[j]
  <2> HIDE DEF k
  <2> QED BY <1>2, ShiftedIs
<1> QED BY <1>2, <1>3

\* recv() has ended: the session is freed, and its slot removed.
LEMMA DisconnectKeeps ==
  ASSUME Good, Disconnect
  PROVE  Net' /\ Memory' /\ Arrays' /\ Main'
<1> DEFINE fd == ses[cur].sockfd
<1>0. at = "recv"
  BY DEF Disconnect
<1>1. /\ i \in Used /\ cur = sessions[i] /\ cur \in heap /\ cur \in Heap
      /\ fd = poll_fds[i].fd /\ fd \in Fds /\ poll_count \in Nat /\ buf \in Nat
      /\ Used \subseteq Slots /\ i >= 2 /\ i <= poll_count /\ i \in Nat
      /\ poll_count <= poll_size
  BY <1>0, ConnIsOpen, UsedAreSlots, PollAssumption DEF Good, Main, Memory, Used
<1>2. /\ behind' = [behind EXCEPT ![fd] = NoConn] /\ heap' = heap \ {cur}
      /\ poll_fds' = Shifted(poll_fds) /\ sessions' = Shifted(sessions)
      /\ poll_count' = poll_count - 1 /\ active_connections' = active_connections - 1
      /\ at' = "freed" /\ buf' \in {0, buf - 2} /\ (buf >= 2 \/ buf' = 0)
      /\ UNCHANGED <<peer, sent, rcvd, backlog, poll_size, ses, i, cur>>
  BY DEF Disconnect
<1> HIDE DEF fd
<1>3. Net'
  BY <1>1, <1>2 DEF Good, Net
<1>4. Used' = 2..poll_count - 1
  BY <1>2 DEF Used
<1>5. Memory'
  <2>1. poll_fds' \in [Slots -> [fd : Fds \cup {NoFd}, revents : BOOLEAN]]
    <3>1. \A k \in Slots : k \in i..poll_count - 1 => k + 1 \in Slots
      BY <1>1 DEF Used
    <3> QED BY <1>2, <3>1 DEF Shifted, Good, Memory
  <2>2. sessions' \in [Slots -> Heap \cup {NoSession}]
    <3>1. \A k \in Slots : k \in i..poll_count - 1 => k + 1 \in Slots
      BY <1>1 DEF Used
    <3> QED BY <1>2, <3>1 DEF Shifted, Good, Memory
  <2>3. poll_count - 1 \in 1..poll_size
    BY <1>1, PollAssumption DEF Good, Memory
  <2> QED BY <1>2, <2>1, <2>2, <2>3 DEF Good, Memory
\* The slots that are left, as they were before.
<1> DEFINE Old(k) == IF k < i THEN k ELSE k + 1
<1>6. ASSUME NEW k \in 2..poll_count - 1
      PROVE  /\ Old(k) \in Used \ {i} /\ poll_fds'[k] = poll_fds[Old(k)]
             /\ sessions'[k] = sessions[Old(k)]
  BY <1>1, <1>2, ShiftedIs DEF Good
<1>7. ASSUME NEW k \in 2..poll_count - 1, NEW l \in 2..poll_count - 1, Old(k) = Old(l)
      PROVE  k = l
  BY <1>1, <1>7
<1> HIDE DEF Old
<1>8. \A j \in Used \ {i} :
        \E k \in 2..poll_count - 1 : poll_fds'[k] = poll_fds[j]
  BY <1>1, <1>2, ShiftedKeeps DEF Good
<1>9. \A j \in Used \ {i} :
        \E k \in 2..poll_count - 1 : sessions'[k] = sessions[j]
  BY <1>1, <1>2, ShiftedKeeps DEF Good
<1>10. \A j \in Used \ {i} : poll_fds[j].fd # fd /\ sessions[j] # cur
  <2> TAKE j \in Used \ {i}
  <2>1. sessions[j] # cur
    BY <1>1, OneSlot DEF Good
  <2>2. poll_fds[j].fd # fd
    BY <1>1 DEF Good, Arrays
  <2> QED BY <2>1, <2>2
<1>11. \A k \in Used' : sessions'[k] \in heap' /\ poll_fds'[k].fd = ses'[sessions'[k]].sockfd
  <2> TAKE k \in Used'
  <2>1. /\ Old(k) \in Used \ {i} /\ poll_fds'[k] = poll_fds[Old(k)]
        /\ sessions'[k] = sessions[Old(k)]
    BY <1>4, <1>6
  <2>2. sessions[Old(k)] \in heap /\ poll_fds[Old(k)].fd = ses[sessions[Old(k)]].sockfd
    BY <2>1 DEF Good, Arrays
  <2> QED BY <1>2, <1>10, <2>1, <2>2
<1>12. \A k, l \in Used' : poll_fds'[k].fd = poll_fds'[l].fd => k = l
  <2> SUFFICES ASSUME NEW k \in Used', NEW l \in Used', poll_fds'[k].fd = poll_fds'[l].fd
               PROVE  k = l
    OBVIOUS
  <2>1. /\ Old(k) \in Used /\ Old(l) \in Used
        /\ poll_fds[Old(k)].fd = poll_fds[Old(l)].fd
    BY <1>4, <1>6
  <2>2. Old(k) = Old(l)
    BY <2>1 DEF Good, Arrays
  <2> QED BY <1>4, <1>7, <2>2
<1>13. FreeFds' = FreeFds \cup {fd} /\ fd \notin FreeFds
  <2>1. fd \notin FreeFds
    BY <1>1, SlotInUse DEF Good
  <2> QED BY <1>1, <1>2, <2>1 DEF FreeFds, Good, Net
<1>14. {poll_fds'[k].fd : k \in Used'} = Fds \ FreeFds'
  <2>1. {poll_fds[k].fd : k \in Used} = Fds \ FreeFds
    BY DEF Good, Arrays
  <2>2. ASSUME NEW f \in {poll_fds'[k].fd : k \in Used'} PROVE f \in Fds \ FreeFds'
    <3>1. PICK k \in Used' : f = poll_fds'[k].fd
      BY <2>2
    <3>2. Old(k) \in Used \ {i} /\ f = poll_fds[Old(k)].fd
      BY <1>4, <1>6, <3>1
    <3> QED BY <1>10, <1>13, <2>1, <3>2
  <2>3. ASSUME NEW f \in Fds \ FreeFds' PROVE f \in {poll_fds'[k].fd : k \in Used'}
    <3>1. f \in {poll_fds[k].fd : k \in Used} /\ f # fd
      BY <1>13, <2>1, <2>3
    <3>2. PICK j \in Used : f = poll_fds[j].fd
      BY <3>1
    <3>3. j \in Used \ {i}
      BY <1>1, <3>1, <3>2
    <3> QED BY <1>4, <1>8, <3>2, <3>3
  <2> QED BY <2>2, <2>3
<1>15. {sessions'[k] : k \in Used'} = heap'
  <2>1. {sessions[k] : k \in Used} = heap
    BY DEF Good, Arrays
  <2>2. ASSUME NEW s \in heap' PROVE s \in {sessions'[k] : k \in Used'}
    <3>1. s \in {sessions[k] : k \in Used} /\ s # cur
      BY <1>2, <2>1, <2>2
    <3>2. PICK j \in Used : s = sessions[j]
      BY <3>1
    <3>3. j \in Used \ {i}
      BY <1>1, <3>1, <3>2
    <3> QED BY <1>4, <1>9, <3>2, <3>3
  <2> QED BY <1>11, <2>2
<1>16. active_connections' = poll_count' - 1
  BY <1>1, <1>2 DEF Good, Arrays
<1>17. Arrays'
  BY <1>11, <1>12, <1>14, <1>15, <1>16, Zenon DEF Arrays
<1>18. Main'
  BY <1>1, <1>2 DEF Good, Main
<1> QED BY <1>3, <1>5, <1>17, <1>18

\* expand_poll_arrays() leaves the slots in use as they are.
LEMMA GrownArrays ==
  ASSUME Memory, Grow, NEW p \in Expanded(2 * poll_size)
  PROVE  /\ p \in [Slots -> [fd : Fds \cup {NoFd}, revents : BOOLEAN]]
         /\ \A k \in Used : p[k] = poll_fds[k]
         /\ 2 * poll_size \in PollSize..MaxPollSize /\ poll_count \in 1..2 * poll_size
<1>1. /\ poll_count \in Nat \ {0} /\ poll_size \in Nat /\ poll_count <= poll_size
      /\ PollSize \in Nat \ {0} /\ PollSize <= poll_size /\ MaxPollSize \in Nat
      /\ poll_size <= MaxPollSize /\ Used = 2..poll_count
  BY PollAssumption DEF Memory, Used
<1>2. PICK r \in [poll_size + 1..2 * poll_size -> BOOLEAN] :
        p = [k \in Slots |-> IF k \in DOMAIN r THEN [fd |-> NoFd, revents |-> r[k]]
                             ELSE poll_fds[k]]
  BY DEF Expanded
<1>3. p \in [Slots -> [fd : Fds \cup {NoFd}, revents : BOOLEAN]]
  <2>1. \A k \in Slots : p[k] \in [fd : Fds \cup {NoFd}, revents : BOOLEAN]
    <3> TAKE k \in Slots
    <3>1. poll_fds[k] \in [fd : Fds \cup {NoFd}, revents : BOOLEAN]
      BY DEF Memory
    <3>2. k \in DOMAIN r => r[k] \in BOOLEAN
      BY <1>2
    <3> QED BY <1>2, <3>1, <3>2
  <2> QED BY <1>2, <2>1
<1>4. \A k \in Used : p[k] = poll_fds[k]
  BY <1>1, <1>2 DEF Slots
<1>5. 2 * poll_size \in PollSize..MaxPollSize /\ poll_count \in 1..2 * poll_size
  BY <1>1 DEF Grow
<1> QED BY <1>3, <1>4, <1>5

\* A client is accepted: its descriptor and its session are new, and get a new slot.
LEMMA AcceptKeeps ==
  ASSUME Good, NEW c \in Conns, NEW f \in Fds, NEW s \in Heap, AcceptClient(c, f, s)
  PROVE  Net' /\ Memory' /\ Arrays' /\ Main'
<1> DEFINE n == poll_count + 1
<1>1. /\ f \in FreeFds /\ s \notin heap /\ at = "loop" /\ i = 1
      /\ backlog' = backlog \ {c} /\ behind' = [behind EXCEPT ![f] = c]
      /\ heap' = heap \cup {s}
      /\ ses' = [ses EXCEPT ![s] = [sockfd |-> f, logged_in |-> NoConn]]
      /\ sessions' = [sessions EXCEPT ![n] = s] /\ poll_count' = n
      /\ active_connections' = active_connections + 1 /\ i' = i + 1
      /\ UNCHANGED <<peer, sent, rcvd, at, cur, buf>>
  BY DEF AcceptClient, AtListener, Listener
<1>2. /\ poll_count \in Nat \ {0} /\ poll_size \in Nat /\ poll_count <= poll_size
      /\ PollSize \in Nat \ {0} /\ PollSize <= poll_size /\ MaxPollSize \in Nat
      /\ poll_size <= MaxPollSize /\ n \in Nat /\ Used = 2..poll_count
  BY PollAssumption DEF Good, Memory, Used
<1>3. /\ n <= poll_size' /\ poll_size' \in PollSize..MaxPollSize
      /\ poll_fds' \in [Slots -> [fd : Fds \cup {NoFd}, revents : BOOLEAN]]
      /\ \A k \in Used : poll_fds'[k].fd = poll_fds[k].fd
      /\ poll_fds'[n].fd = f
  <2>1. \A p \in [Slots -> [fd : Fds \cup {NoFd}, revents : BOOLEAN]] : n \in Slots =>
          /\ [p EXCEPT ![n].fd = f] \in [Slots -> [fd : Fds \cup {NoFd}, revents : BOOLEAN]]
          /\ \A k \in Used : [p EXCEPT ![n].fd = f][k].fd = p[k].fd
          /\ [p EXCEPT ![n].fd = f][n].fd = f
    <3> SUFFICES ASSUME NEW p \in [Slots -> [fd : Fds \cup {NoFd}, revents : BOOLEAN]],
                        n \in Slots
                 PROVE  LET q == [p EXCEPT ![n].fd = f] IN
                        /\ q \in [Slots -> [fd : Fds \cup {NoFd}, revents : BOOLEAN]]
                        /\ \A k \in Used : q[k].fd = p[k].fd
                        /\ q[n].fd = f
      OBVIOUS
    <3>1. n \notin Used /\ Used \subseteq Slots
      BY <1>2, UsedAreSlots DEF Good
    <3> HIDE DEF n
    <3> QED BY <3>1
  <2>2. CASE HasRoom /\ poll_fds' = [poll_fds EXCEPT ![n].fd = f] /\ UNCHANGED poll_size
    <3>1. n \in Slots /\ n <= poll_size
      BY <1>2, <2>2 DEF HasRoom, Slots
    <3>2. poll_fds \in [Slots -> [fd : Fds \cup {NoFd}, revents : BOOLEAN]]
      BY DEF Good, Memory
    <3> HIDE DEF n
    <3> QED BY <1>2, <2>1, <2>2, <3>1, <3>2
  <2>3. CASE /\ Grow
             /\ \E p \in Expanded(poll_size') : poll_fds' = [p EXCEPT ![n].fd = f]
    <3>1. PICK p \in Expanded(2 * poll_size) : poll_fds' = [p EXCEPT ![n].fd = f]
      BY <2>3 DEF Grow
    <3>2. /\ p \in [Slots -> [fd : Fds \cup {NoFd}, revents : BOOLEAN]]
          /\ \A k \in Used : p[k] = poll_fds[k]
          /\ 2 * poll_size \in PollSize..MaxPollSize
      BY <2>3, GrownArrays DEF Good
    <3>3. n \in Slots /\ n <= 2 * poll_size
      BY <1>2, <2>3 DEF Grow, HasRoom, Slots
    <3> HIDE DEF n
    <3>4. /\ poll_fds' \in [Slots -> [fd : Fds \cup {NoFd}, revents : BOOLEAN]]
          /\ \A k \in Used : poll_fds'[k].fd = p[k].fd
          /\ poll_fds'[n].fd = f
      BY <2>1, <3>1, <3>2, <3>3, Zenon
    <3>5. poll_size' = 2 * poll_size
      BY <2>3 DEF Grow
    <3> QED BY <3>2, <3>3, <3>4, <3>5, Zenon
  <2>4. \/ HasRoom /\ poll_fds' = [poll_fds EXCEPT ![n].fd = f] /\ UNCHANGED poll_size
        \/ Grow /\ \E p \in Expanded(poll_size') : poll_fds' = [p EXCEPT ![n].fd = f]
    BY DEF AcceptClient
  <2> QED BY <2>2, <2>3, <2>4
<1>4. n \in Slots /\ n \notin Used /\ Used' = Used \cup {n} /\ Used \subseteq Slots
  BY <1>1, <1>2, <1>3, UsedAreSlots DEF Slots, Used, Good
<1>5. Net'
  BY <1>1 DEF Good, Net
<1>6. Memory'
  <2>1. n \in 1..poll_size' /\ sessions' \in [Slots -> Heap \cup {NoSession}]
    BY <1>1, <1>2, <1>3, <1>4 DEF Good, Memory
  <2>2. /\ heap' \subseteq Heap
        /\ ses' \in [Heap -> [sockfd : Fds \cup {NoFd}, logged_in : Conns \cup {NoConn}]]
    BY <1>1 DEF Good, Memory
  <2> QED BY <1>1, <1>3, <2>1, <2>2 DEF Memory
<1>7. /\ \A k \in Used : sessions'[k] = sessions[k] /\ sessions[k] # s
                         /\ sessions[k] \in Heap
      /\ sessions'[n] = s /\ ses'[s].sockfd = f
      /\ \A t \in Heap \ {s} : ses'[t] = ses[t]
  <2>1. \A k \in Used : sessions[k] \in heap /\ sessions[k] \in Heap
    BY SlotInUse DEF Good
  <2> HIDE DEF n
  <2> QED BY <1>1, <1>4, <2>1 DEF Good, Memory
<1>8. \A k \in Used : poll_fds[k].fd # f
  BY <1>1, SlotInUse DEF Good
<1> HIDE DEF n
<1>9. \A k \in Used' : sessions'[k] \in heap' /\ poll_fds'[k].fd = ses'[sessions'[k]].sockfd
  <2>1. \A k \in Used : sessions[k] \in heap /\ poll_fds[k].fd = ses[sessions[k]].sockfd
    BY DEF Good, Arrays
  <2> QED BY <1>1, <1>3, <1>4, <1>7, <2>1
<1>10. \A k, l \in Used' : poll_fds'[k].fd = poll_fds'[l].fd => k = l
  <2>1. \A k, l \in Used : poll_fds[k].fd = poll_fds[l].fd => k = l
    BY DEF Good, Arrays
  <2> QED BY <1>3, <1>4, <1>8, <2>1
<1>11. FreeFds' = FreeFds \ {f}
  <2>1. c # NoConn
    BY PollAssumption
  <2> QED BY <1>1, <2>1 DEF FreeFds, Good, Net
<1>12. {poll_fds'[k].fd : k \in Used'} = Fds \ FreeFds'
  <2>1. {poll_fds[k].fd : k \in Used} = Fds \ FreeFds
    BY DEF Good, Arrays
  <2>2. {poll_fds'[k].fd : k \in Used'} = {poll_fds[k].fd : k \in Used} \cup {f}
    BY <1>3, <1>4
  <2> QED BY <1>1, <1>11, <2>1, <2>2
<1>13. {sessions'[k] : k \in Used'} = heap'
  <2>1. {sessions[k] : k \in Used} = heap
    BY DEF Good, Arrays
  <2>2. {sessions'[k] : k \in Used'} = {sessions[k] : k \in Used} \cup {s}
    BY <1>4, <1>7
  <2> QED BY <1>1, <2>1, <2>2
<1>14. active_connections' = poll_count' - 1
  BY <1>1, <1>2 DEF Good, Arrays, n
<1>15. Arrays'
  BY <1>9, <1>10, <1>12, <1>13, <1>14, Zenon DEF Arrays
<1>16. Main'
  <2>1. i' \in 1..poll_count' + 1
    BY <1>1, <1>2 DEF n
  <2> QED BY <1>1, <2>1 DEF Good, Main
<1> QED BY <1>5, <1>6, <1>15, <1>16

\* A client is turned away for want of memory, when the arrays may have grown for it.
LEMMA RejectKeeps ==
  ASSUME Good, NEW c \in Conns, RejectClient(c)
  PROVE  Net' /\ Memory' /\ Arrays' /\ Main'
<1>1. /\ UNCHANGED <<peer, sent, rcvd, behind, sessions, poll_count, active_connections,
                     heap, ses, at, cur, buf>>
      /\ backlog' = backlog \ {c} /\ i = 1 /\ i' = i + 1 /\ at = "loop"
  BY DEF RejectClient, AtListener, Listener
<1>2. Net'
  BY <1>1 DEF Good, Net
<1>3. /\ poll_fds' \in [Slots -> [fd : Fds \cup {NoFd}, revents : BOOLEAN]]
      /\ \A k \in Used : poll_fds'[k].fd = poll_fds[k].fd
      /\ poll_size' \in PollSize..MaxPollSize /\ poll_count \in 1..poll_size'
  <2>1. CASE UNCHANGED <<poll_size, poll_fds>>
    BY <2>1 DEF Good, Memory
  <2>2. CASE Grow /\ poll_fds' \in Expanded(poll_size')
    BY <2>2, GrownArrays DEF Grow, Good
  <2> QED BY <2>1, <2>2 DEF RejectClient
<1>4. Memory'
  BY <1>1, <1>3 DEF Good, Memory
<1>5. Arrays'
  <2>1. Used' = Used /\ FreeFds' = FreeFds
    BY <1>1 DEF Used, FreeFds
  <2>2. {poll_fds'[k].fd : k \in Used} = {poll_fds[k].fd : k \in Used}
    BY <1>3
  <2> QED BY <1>1, <1>3, <2>1, <2>2 DEF Good, Arrays
<1>6. i' \in 1..poll_count + 1
  BY <1>1, PollAssumption DEF Good, Memory
<1> QED BY <1>1, <1>2, <1>4, <1>5, <1>6 DEF Good, Main

-----------------------------------------------------------------------------
(* The invariant, and what follows from it. *)

\* The server starts with the listener alone.
LEMMA InitInv == Init => IInv
<1> SUFFICES ASSUME Init PROVE Good
  BY DEF IInv
<1>1. /\ QueueInit /\ poll_count = 1 /\ heap = {} /\ at = "poll" /\ i = 1 /\ buf = 0
      /\ poll_size = PollSize /\ active_connections = 0 /\ cur = NoSession
      /\ item = [w \in Workers |-> NoItem] /\ step = [w \in Workers |-> "idle"]
      /\ queue_count = 0 /\ locked = {} /\ wfd = [w \in Workers |-> NoFd]
  BY DEF Init, QueueInit
<1>2. Queue
  <2>1. QueueTypeOK
    BY <1>1, QueueInitType
  <2>2. 1..queue_count = {}
    BY <1>1
  <2> QED BY <1>1, <2>1, <2>2 DEF Queue, Steps
<1>3. Net
  <2>1. 0 \in 0..2 * MaxCommands
    BY PollAssumption
  <2> QED BY <2>1 DEF Init, Net
<1>4. Memory
  BY PollAssumption DEF Init, Memory
<1>5. Arrays
  <2>1. Used = {} /\ FreeFds = Fds
    BY <1>1 DEF Init, Used, FreeFds
  <2> QED BY <1>1, <2>1 DEF Arrays
<1>6. Main
  BY <1>1 DEF Main
<1>7. Work
  BY <1>1 DEF Work
<1> QED BY <1>2, <1>3, <1>4, <1>5, <1>6, <1>7 DEF Good

\* Every step keeps the invariant.
LEMMA NextInv == IInv /\ [PollNext]_vars => IInv'
<1> SUFFICES ASSUME IInv, [PollNext]_vars, Alive' PROVE Good'
  BY DEF IInv
<1>1. CASE MainStep
  <2>1. Good /\ Alive
    BY <1>1 DEF MainStep, IInv, Alive
  <2>2. Queue' /\ Work'
    BY <2>1, QueueKeeps, WorkKeeps
  <2>3. ~AcceptOverrun
    BY DEF AcceptOverrun, Alive
  <2>4. Net' /\ Memory' /\ Arrays' /\ Main'
    BY <1>1, <2>1, <2>3, LoopKeeps, ReceiveKeeps, DisconnectKeeps, AcceptKeeps, RejectKeeps
       DEF MainStep
  <2> QED BY <2>2, <2>4 DEF Good
<1>2. ASSUME NEW w \in Workers, WorkerMoves(w) PROVE Good'
  BY <1>2, QueueKeeps, WorkKeeps, WorkerKeeps DEF Good, WorkerMoves, Alive
<1>3. CASE ClientStep
  BY <1>3, QueueKeeps, WorkKeeps, ClientKeeps DEF Good, ClientStep, Alive
<1>4. CASE Ended \/ UNCHANGED vars
  BY <1>4 DEF Ended, vars, queueVars, netVars, pollVars, mainVars, workVars, IInv, Alive,
     Good, Work, Queue, QueueTypeOK, Queued, Net, Memory, Arrays, Main, Used, FreeFds, Conn
<1> QED BY <1>1, <1>2, <1>3, <1>4 DEF PollNext

\* IInv is an invariant.
LEMMA InvHolds == PollSpec => []IInv
BY InitInv, NextInv, PTL DEF PollSpec

\* The type invariant: while the process runs, no slot past the end of the arrays is
\* in use, and main() holds no bytes it did not receive.
THEOREM PollTyping == PollSpec => []PollTypeOK
<1>1. IInv => PollTypeOK
  <2> SUFFICES ASSUME Good PROVE PollTypeOK
    BY DEF IInv, PollTypeOK
  <2>1. \A c \in Conns : rcvd[c] \in 0..sent[c]
    BY PollAssumption DEF Good, Net
  <2>2. at = "recv" => buf \in 0..rcvd[Conn]
    <3> SUFFICES ASSUME at = "recv" PROVE buf \in 0..rcvd[Conn]
      OBVIOUS
    <3>1. Conn \in Conns /\ buf <= rcvd[Conn] /\ buf \in Nat
      BY ConnIsOpen DEF Good, Main
    <3> QED BY <3>1 DEF Good, Net
  <2> QED BY <2>1, <2>2 DEF Good, Queue, Work, Net, Memory, Main, PollTypeOK
<1> QED BY <1>1, InvHolds, PTL

\* After any sequence of arrivals, departures and shifts of the arrays, each open
\* descriptor and each live session has exactly one slot, and the two belong together.
THEOREM ArraysAgreeHolds == PollSpec => []ArraysAgree
<1>1. IInv => ArraysAgree
  BY DEF IInv, Good, Arrays, Main, ArraysAgree
<1> QED BY <1>1, InvHolds, PTL

\* To its queue the server is no more than producers and workers.
THEOREM PollUsesQueue == PollSpec => Spec
<1>1. Init => QueueInit
  BY DEF Init
<1>2. IInv /\ [PollNext]_vars => [Next]_queueVars
  BY QueueSteps
<1> QED BY <1>1, <1>2, InvHolds, PTL DEF PollSpec, Spec

\* In the server, as in the queue by itself, no wake-up is lost.
THEOREM PollWakesWorkers == PollSpec => []NoLostWakeup
BY PollUsesQueue, WakeupTheorem, PTL

\* In the server the ring is a bounded queue.
THEOREM PollQueueIsFifo == PollSpec => ImplementsFifo
BY PollUsesQueue, QueueRefinesFifo, PTL

-----------------------------------------------------------------------------
(* Commands are run once, and queued in order. *)

\* The command of a work item.
Cmd(x) == [conn |-> x.conn, n |-> x.n]

Answers == [conn : Conns, n : Nat]

\* No command of the queue q, of the workers' hands h and of the answers a is there twice.
QueuedOnce(q) == \A j, k \in DOMAIN q : Cmd(q[j]) = Cmd(q[k]) => j = k
QueuedOrHeld(q, h) ==
  \A j \in DOMAIN q : \A w \in Workers : h[w] # NoItem => Cmd(q[j]) # Cmd(h[w])
QueuedOrAnswered(q, a) ==
  \A j \in DOMAIN q : \A c \in Conns : \A k \in DOMAIN a[c] : Cmd(q[j]) # a[c][k]
HeldOnce(h) ==
  \A v, w \in Workers : h[v] # NoItem /\ h[w] # NoItem /\ Cmd(h[v]) = Cmd(h[w]) => v = w
HeldOrAnswered(h, a) ==
  \A w \in Workers : \A c \in Conns : \A k \in DOMAIN a[c] :
    h[w] # NoItem => Cmd(h[w]) # a[c][k]
AnsweredOnce(a) ==
  \A c, d \in Conns : \A k \in DOMAIN a[c] : \A l \in DOMAIN a[d] :
    a[c][k] = a[d][l] => c = d /\ k = l

Once(q, h, a) ==
  /\ QueuedOnce(q) /\ QueuedOrHeld(q, h) /\ QueuedOrAnswered(q, a)
  /\ HeldOnce(h) /\ HeldOrAnswered(h, a) /\ AnsweredOnce(a)

\* The commands of one client are in the queue in the order of their numbers.
InOrder(q) == \A j, k \in DOMAIN q : j < k /\ q[j].conn = q[k].conn => q[j].n < q[k].n

\* Client c has sent all the commands that are anywhere: t[c] halves of them.
Below(q, h, a, t) ==
  /\ \A k \in DOMAIN q : 2 * q[k].n <= t[q[k].conn]
  /\ \A w \in Workers : h[w] # NoItem => 2 * h[w].n <= t[h[w].conn]
  /\ \A c \in Conns : \A k \in DOMAIN a[c] : 2 * a[c][k].n <= t[a[c][k].conn]

\* The half commands main() is done with.
Done == [c \in Conns |-> IF at = "recv" /\ Conn = c THEN rcvd[c] - buf ELSE rcvd[c]]

\* What the workers are still to answer; a BYE is answered before it is done.
Unanswered == [w \in Workers |-> IF step[w] = "bye" THEN NoItem ELSE item[w]]

Commands ==
  /\ answers \in [Conns -> Seq(Answers)]
  /\ Once(Queued, Unanswered, answers)
  /\ InOrder(Queued)
  /\ Below(Queued, Unanswered, answers, Done)

\* A work item is a record.
LEMMA ItemIs ==
  ASSUME NEW x \in Items
  PROVE  x.conn \in Conns /\ x.n \in Nat /\ x # NoItem /\ Cmd(x) \in Answers
<1>1. x \in [session : Heap, conn : Conns, n : 1..MaxCommands] /\ x # NoItem
  BY PollAssumption, QueueAssumption
<1>2. x.conn \in Conns /\ x.n \in 1..MaxCommands /\ MaxCommands \in Nat
  BY <1>1, PollAssumption
<1> QED BY <1>1, <1>2 DEF Cmd, Answers

\* Two items are different commands when their numbers differ.
LEMMA CmdDiffers ==
  ASSUME NEW x, NEW y, Cmd(x) = Cmd(y)
  PROVE  x.conn = y.conn /\ x.n = y.n
BY DEF Cmd

\* A command whose number is higher than all others of its client is new.
LEMMA AppendOnce ==
  ASSUME NEW q \in Seq(Items), NEW h \in [Workers -> Items \cup {NoItem}],
         NEW a \in [Conns -> Seq(Answers)], NEW t \in [Conns -> Int], NEW m \in Items,
         Once(q, h, a), InOrder(q), Below(q, h, a, t), t[m.conn] < 2 * m.n
  PROVE  Once(Append(q, m), h, a) /\ InOrder(Append(q, m))
<1> DEFINE r == Append(q, m)
<1>0. m.n \in Nat /\ m.conn \in Conns
  BY ItemIs
<1>1. /\ DOMAIN r = DOMAIN q \cup {Len(q) + 1} /\ r[Len(q) + 1] = m
      /\ \A j \in DOMAIN q : r[j] = q[j] /\ q[j] \in Items /\ j < Len(q) + 1 /\ j \in Int
      /\ Len(q) \in Nat
  OBVIOUS
<1>2. \A j \in DOMAIN q : q[j].n \in Nat /\ (q[j].conn = m.conn => q[j].n < m.n)
  <2> TAKE j \in DOMAIN q
  <2>1. q[j].n \in Nat /\ q[j].conn \in Conns
    BY <1>1, ItemIs
  <2>2. 2 * q[j].n <= t[q[j].conn]
    BY DEF Below
  <2> QED BY <1>0, <2>1, <2>2
<1>3. \A w \in Workers : h[w] # NoItem => Cmd(h[w]) # Cmd(m)
  <2> SUFFICES ASSUME NEW w \in Workers, h[w] # NoItem, Cmd(h[w]) = Cmd(m) PROVE FALSE
    OBVIOUS
  <2>1. h[w].n = m.n /\ h[w].conn = m.conn
    BY CmdDiffers
  <2>2. 2 * h[w].n <= t[h[w].conn]
    BY DEF Below
  <2> QED BY <1>0, <2>1, <2>2
<1>4. \A c \in Conns : \A k \in DOMAIN a[c] : Cmd(m) # a[c][k]
  <2> SUFFICES ASSUME NEW c \in Conns, NEW k \in DOMAIN a[c], Cmd(m) = a[c][k] PROVE FALSE
    OBVIOUS
  <2>1. a[c][k].n = m.n /\ a[c][k].conn = m.conn
    BY DEF Cmd
  <2>2. 2 * a[c][k].n <= t[a[c][k].conn]
    BY DEF Below
  <2> QED BY <1>0, <2>1, <2>2
<1>5. \A j \in DOMAIN q : Cmd(q[j]) # Cmd(m)
  <2> SUFFICES ASSUME NEW j \in DOMAIN q, Cmd(q[j]) = Cmd(m) PROVE FALSE
    OBVIOUS
  <2>1. q[j].n = m.n /\ q[j].conn = m.conn
    BY CmdDiffers
  <2> QED BY <1>0, <1>2, <2>1
<1> HIDE DEF r
<1>6. QueuedOnce(r)
  BY <1>1, <1>5, Zenon DEF Once, QueuedOnce
<1>7. QueuedOrHeld(r, h)
  <2> SUFFICES ASSUME NEW j \in DOMAIN r, NEW w \in Workers, h[w] # NoItem,
                      Cmd(r[j]) = Cmd(h[w])
               PROVE  FALSE
    BY DEF QueuedOrHeld
  <2>1. CASE j \in DOMAIN q
    <3>1. r[j] = q[j]
      BY <1>1, <2>1
    <3> QED BY <2>1, <3>1 DEF Once, QueuedOrHeld
  <2>2. CASE r[j] = m
    BY <1>3, <2>2
  <2> QED BY <1>1, <2>1, <2>2
<1>8. QueuedOrAnswered(r, a)
  <2> SUFFICES ASSUME NEW j \in DOMAIN r, NEW c \in Conns, NEW k \in DOMAIN a[c],
                      Cmd(r[j]) = a[c][k]
               PROVE  FALSE
    BY DEF QueuedOrAnswered
  <2>1. CASE j \in DOMAIN q
    <3>1. r[j] = q[j]
      BY <1>1, <2>1
    <3> QED BY <2>1, <3>1 DEF Once, QueuedOrAnswered
  <2>2. CASE r[j] = m
    BY <1>4, <2>2
  <2> QED BY <1>1, <2>1, <2>2
<1>9. Once(r, h, a)
  BY <1>6, <1>7, <1>8 DEF Once
<1>10. InOrder(r)
  <2> SUFFICES ASSUME NEW j \in DOMAIN r, NEW k \in DOMAIN r, j < k, r[j].conn = r[k].conn
               PROVE  r[j].n < r[k].n
    BY DEF InOrder
  <2>1. j \in DOMAIN q
    BY <1>1
  <2>2. CASE k \in DOMAIN q
    BY <1>1, <2>1, <2>2 DEF InOrder
  <2>3. CASE k = Len(q) + 1
    BY <1>1, <1>2, <2>1, <2>3
  <2> QED BY <1>1, <2>2, <2>3
<1> QED BY <1>9, <1>10 DEF r

\* A worker takes the oldest item.
LEMMA TakeOnce ==
  ASSUME NEW q \in Seq(Items), q # <<>>, NEW h \in [Workers -> Items \cup {NoItem}],
         NEW a \in [Conns -> Seq(Answers)], NEW t, NEW w \in Workers, h[w] = NoItem,
         Once(q, h, a), InOrder(q), Below(q, h, a, t)
  PROVE  LET g == [h EXCEPT ![w] = Head(q)] IN
           Once(Tail(q), g, a) /\ InOrder(Tail(q)) /\ Below(Tail(q), g, a, t)
<1> DEFINE r == Tail(q)
           g == [h EXCEPT ![w] = Head(q)]
<1>1. /\ Len(q) \in Nat /\ Len(q) > 0 /\ Head(q) = q[1] /\ 1 \in DOMAIN q
      /\ DOMAIN q = 1..Len(q) /\ DOMAIN r = 1..Len(q) - 1
      /\ \A j \in DOMAIN r : r[j] = q[j + 1] /\ j + 1 \in DOMAIN q /\ j + 1 # 1 /\ j \in Int
  BY HeadTailProperties
<1>2. g[w] = q[1] /\ \A v \in Workers \ {w} : g[v] = h[v]
  BY <1>1
<1> HIDE DEF r, g
<1>3. QueuedOnce(r)
  <2> SUFFICES ASSUME NEW j \in DOMAIN r, NEW k \in DOMAIN r, Cmd(r[j]) = Cmd(r[k])
               PROVE  j = k
    BY DEF QueuedOnce
  <2>1. j + 1 \in DOMAIN q /\ k + 1 \in DOMAIN q /\ Cmd(q[j + 1]) = Cmd(q[k + 1])
        /\ j \in Int /\ k \in Int
    BY <1>1
  <2>2. j + 1 = k + 1
    BY <2>1, Zenon DEF Once, QueuedOnce
  <2> QED BY <2>1, <2>2
<1>4. QueuedOrHeld(r, g)
  <2> SUFFICES ASSUME NEW j \in DOMAIN r, NEW v \in Workers, g[v] # NoItem,
                      Cmd(r[j]) = Cmd(g[v])
               PROVE  FALSE
    BY DEF QueuedOrHeld
  <2>1. r[j] = q[j + 1] /\ j + 1 \in DOMAIN q /\ j + 1 # 1
    BY <1>1
  <2>2. CASE v = w
    <3>1. Cmd(q[j + 1]) = Cmd(q[1])
      BY <1>2, <2>1, <2>2
    <3> QED BY <1>1, <2>1, <3>1, Zenon DEF Once, QueuedOnce
  <2>3. CASE v # w
    <3>1. g[v] = h[v]
      BY <1>2, <2>3
    <3> QED BY <2>1, <3>1 DEF Once, QueuedOrHeld
  <2> QED BY <2>2, <2>3
<1>5. QueuedOrAnswered(r, a)
  <2> SUFFICES ASSUME NEW j \in DOMAIN r, NEW c \in Conns, NEW k \in DOMAIN a[c],
                      Cmd(r[j]) = a[c][k]
               PROVE  FALSE
    BY DEF QueuedOrAnswered
  <2>1. r[j] = q[j + 1] /\ j + 1 \in DOMAIN q
    BY <1>1
  <2> QED BY <2>1 DEF Once, QueuedOrAnswered
<1>6. HeldOnce(g)
  <2> SUFFICES ASSUME NEW u \in Workers, NEW v \in Workers, g[u] # NoItem, g[v] # NoItem,
                      Cmd(g[u]) = Cmd(g[v]), u # v
               PROVE  FALSE
    BY DEF HeldOnce
  <2>1. CASE u = w
    <3>1. g[u] = q[1] /\ g[v] = h[v]
      BY <1>2, <2>1
    <3> QED BY <1>1, <3>1 DEF Once, QueuedOrHeld
  <2>2. CASE v = w
    <3>1. g[v] = q[1] /\ g[u] = h[u]
      BY <1>2, <2>2
    <3> QED BY <1>1, <3>1 DEF Once, QueuedOrHeld
  <2>3. CASE u # w /\ v # w
    <3>1. g[v] = h[v] /\ g[u] = h[u]
      BY <1>2, <2>3
    <3> QED BY <3>1 DEF Once, HeldOnce
  <2> QED BY <2>1, <2>2, <2>3
<1>7. HeldOrAnswered(g, a)
  <2> SUFFICES ASSUME NEW v \in Workers, NEW c \in Conns, NEW k \in DOMAIN a[c],
                      g[v] # NoItem, Cmd(g[v]) = a[c][k]
               PROVE  FALSE
    BY DEF HeldOrAnswered
  <2>1. CASE v = w
    BY <1>1, <1>2, <2>1 DEF Once, QueuedOrAnswered
  <2>2. CASE v # w
    <3>1. g[v] = h[v]
      BY <1>2, <2>2
    <3> QED BY <3>1 DEF Once, HeldOrAnswered
  <2> QED BY <2>1, <2>2
<1>8. Once(r, g, a)
  BY <1>3, <1>4, <1>5, <1>6, <1>7 DEF Once
<1>9. InOrder(r)
  BY <1>1 DEF InOrder
<1>10. Below(r, g, a, t)
  BY <1>1, <1>2, Zenon DEF Below
<1> QED BY <1>8, <1>9, <1>10 DEF r, g

\* A worker has finished its item, and nobody is told.
LEMMA FinishOnce ==
  ASSUME NEW q, NEW h \in [Workers -> Items \cup {NoItem}], NEW a, NEW t, NEW w \in Workers,
         Once(q, h, a), Below(q, h, a, t)
  PROVE  LET g == [h EXCEPT ![w] = NoItem] IN Once(q, g, a) /\ Below(q, g, a, t)
<1> DEFINE g == [h EXCEPT ![w] = NoItem]
<1>1. g[w] = NoItem /\ \A v \in Workers \ {w} : g[v] = h[v]
  OBVIOUS
<1> HIDE DEF g
<1>2. \A v \in Workers : g[v] # NoItem => v # w /\ g[v] = h[v]
  BY <1>1
<1>3. Once(q, g, a)
  <2>1. QueuedOrHeld(q, g)
    BY <1>2 DEF Once, QueuedOrHeld
  <2>2. HeldOnce(g)
    BY <1>2 DEF Once, HeldOnce
  <2>3. HeldOrAnswered(g, a)
    BY <1>2 DEF Once, HeldOrAnswered
  <2> QED BY <2>1, <2>2, <2>3 DEF Once
<1>4. Below(q, g, a, t)
  BY <1>2, Zenon DEF Below
<1> QED BY <1>3, <1>4 DEF g

\* A worker has finished its item, and the client behind its descriptor is told.
LEMMA AnswerOnce ==
  ASSUME NEW q \in Seq(Items), NEW h \in [Workers -> Items \cup {NoItem}],
         NEW a \in [Conns -> Seq(Answers)], NEW t, NEW w \in Workers, NEW b \in Conns,
         h[w] # NoItem, Once(q, h, a), Below(q, h, a, t)
  PROVE  LET g == [h EXCEPT ![w] = NoItem]
             e == [a EXCEPT ![b] = Append(@, Cmd(h[w]))]
         IN  e \in [Conns -> Seq(Answers)] /\ Once(q, g, e) /\ Below(q, g, e, t)
<1> DEFINE g == [h EXCEPT ![w] = NoItem]
           e == [a EXCEPT ![b] = Append(@, Cmd(h[w]))]
           m == Cmd(h[w])
           new == Len(a[b]) + 1
<1>0. h[w] \in Items /\ m \in Answers /\ m.n = h[w].n /\ m.conn = h[w].conn
  <2>1. h[w] \in Items
    OBVIOUS
  <2> QED BY <2>1, ItemIs DEF Cmd
<1>1. g[w] = NoItem /\ \A v \in Workers \ {w} : g[v] = h[v]
  OBVIOUS
<1>2. \A v \in Workers : g[v] # NoItem => v # w /\ g[v] = h[v] /\ h[v] # NoItem
  BY <1>1
<1> HIDE DEF m
<1>3. a[b] \in Seq(Answers) /\ Append(a[b], m) \in Seq(Answers) /\ new \notin DOMAIN a[b]
      /\ DOMAIN Append(a[b], m) = DOMAIN a[b] \cup {new} /\ Append(a[b], m)[new] = m
      /\ \A k \in DOMAIN a[b] : Append(a[b], m)[k] = a[b][k]
  BY <1>0
<1>4. e[b] = Append(a[b], m) /\ \A c \in Conns \ {b} : e[c] = a[c]
  BY DEF m
<1>5. e \in [Conns -> Seq(Answers)]
  BY <1>3 DEF m
<1> HIDE DEF g, e, new
\* Each answer was there before, or is the new one.
<1>6. \A c \in Conns : \A k \in DOMAIN e[c] :
        \/ k \in DOMAIN a[c] /\ e[c][k] = a[c][k]
        \/ c = b /\ k = new /\ e[c][k] = m
  BY <1>3, <1>4, Zenon
<1>7. \A j \in DOMAIN q : Cmd(q[j]) # m
  BY DEF Once, QueuedOrHeld, m
<1>8. \A v \in Workers : g[v] # NoItem => Cmd(g[v]) # m
  <2> SUFFICES ASSUME NEW v \in Workers, g[v] # NoItem, Cmd(g[v]) = m PROVE FALSE
    OBVIOUS
  <2>1. v # w /\ g[v] = h[v] /\ h[v] # NoItem
    BY <1>2
  <2> QED BY <2>1 DEF Once, HeldOnce, m
<1>9. \A c \in Conns : \A k \in DOMAIN a[c] : a[c][k] # m
  BY DEF Once, HeldOrAnswered, m
<1>10. QueuedOrHeld(q, g) /\ HeldOnce(g)
  BY <1>2 DEF Once, QueuedOrHeld, HeldOnce
<1>11. QueuedOrAnswered(q, e)
  <2> SUFFICES ASSUME NEW j \in DOMAIN q, NEW c \in Conns, NEW k \in DOMAIN e[c],
                      Cmd(q[j]) = e[c][k]
               PROVE  FALSE
    BY DEF QueuedOrAnswered
  <2>1. CASE k \in DOMAIN a[c] /\ e[c][k] = a[c][k]
    BY <2>1 DEF Once, QueuedOrAnswered
  <2>2. CASE e[c][k] = m
    BY <1>7, <2>2
  <2> QED BY <1>6, <2>1, <2>2
<1>12. HeldOrAnswered(g, e)
  <2> SUFFICES ASSUME NEW v \in Workers, NEW c \in Conns, NEW k \in DOMAIN e[c],
                      g[v] # NoItem, Cmd(g[v]) = e[c][k]
               PROVE  FALSE
    BY DEF HeldOrAnswered
  <2>1. CASE k \in DOMAIN a[c] /\ e[c][k] = a[c][k]
    <3>1. g[v] = h[v]
      BY <1>2
    <3> QED BY <2>1, <3>1 DEF Once, HeldOrAnswered
  <2>2. CASE e[c][k] = m
    BY <1>8, <2>2
  <2> QED BY <1>6, <2>1, <2>2
<1>14. AnsweredOnce(e)
  <2> SUFFICES ASSUME NEW c \in Conns, NEW d \in Conns, NEW k \in DOMAIN e[c],
                      NEW l \in DOMAIN e[d], e[c][k] = e[d][l]
               PROVE  c = d /\ k = l
    BY DEF AnsweredOnce
  <2>1. CASE k \in DOMAIN a[c] /\ e[c][k] = a[c][k]
    <3>1. a[c][k] # m
      BY <1>9, <2>1
    <3>2. l \in DOMAIN a[d] /\ e[d][l] = a[d][l]
      BY <1>6, <2>1, <3>1
    <3>3. k \in DOMAIN a[c] /\ l \in DOMAIN a[d] /\ a[c][k] = a[d][l]
      BY <2>1, <3>2
    <3>4. \A x \in DOMAIN a[c] : \A y \in DOMAIN a[d] : a[c][x] = a[d][y] => c = d /\ x = y
      <4>1. AnsweredOnce(a)
        BY DEF Once
      <4> QED BY <4>1, Zenon DEF AnsweredOnce
    <3> QED BY <3>3, <3>4, Zenon
  <2>2. CASE c = b /\ k = new /\ e[c][k] = m
    <3>1. ~(l \in DOMAIN a[d] /\ e[d][l] = a[d][l])
      BY <1>9, <2>2
    <3> QED BY <1>6, <2>2, <3>1
  <2> QED BY <1>6, <2>1, <2>2
<1>15. Once(q, g, e)
  BY <1>10, <1>11, <1>12, <1>14 DEF Once
<1>16. Below(q, g, e, t)
  <2>1. \A k \in DOMAIN q : 2 * q[k].n <= t[q[k].conn]
    BY DEF Below
  <2>2. \A v \in Workers : g[v] # NoItem => 2 * g[v].n <= t[g[v].conn]
    BY <1>2, Zenon DEF Below
  <2>3. 2 * m.n <= t[m.conn]
    BY <1>0 DEF Below
  <2>4. \A c \in Conns : \A k \in DOMAIN e[c] : 2 * e[c][k].n <= t[e[c][k].conn]
    BY <1>6, <2>3, Zenon DEF Below
  <2> QED BY <2>1, <2>2, <2>4, Zenon DEF Below
<1> QED BY <1>5, <1>15, <1>16 DEF g, e, m

\* What is below a bound is below a higher one.
LEMMA BelowHigher ==
  ASSUME NEW q \in Seq(Items), NEW h \in [Workers -> Items \cup {NoItem}],
         NEW a \in [Conns -> Seq(Answers)], NEW t \in [Conns -> Int],
         NEW u \in [Conns -> Int], \A c \in Conns : t[c] <= u[c], Below(q, h, a, t)
  PROVE  Below(q, h, a, u)
<1>1. \A k \in DOMAIN q : 2 * q[k].n <= u[q[k].conn]
  <2> TAKE k \in DOMAIN q
  <2>1. q[k] \in Items
    OBVIOUS
  <2>2. q[k].conn \in Conns /\ q[k].n \in Nat
    BY <2>1, ItemIs
  <2>3. 2 * q[k].n <= t[q[k].conn]
    BY DEF Below
  <2> QED BY <2>2, <2>3
<1>2. \A w \in Workers : h[w] # NoItem => 2 * h[w].n <= u[h[w].conn]
  <2> SUFFICES ASSUME NEW w \in Workers, h[w] # NoItem PROVE 2 * h[w].n <= u[h[w].conn]
    OBVIOUS
  <2>1. h[w] \in Items
    OBVIOUS
  <2>2. h[w].conn \in Conns /\ h[w].n \in Nat
    BY <2>1, ItemIs
  <2>3. 2 * h[w].n <= t[h[w].conn]
    BY DEF Below
  <2> QED BY <2>2, <2>3
<1>3. \A c \in Conns : \A k \in DOMAIN a[c] : 2 * a[c][k].n <= u[a[c][k].conn]
  <2> TAKE c \in Conns
  <2> TAKE k \in DOMAIN a[c]
  <2>1. a[c][k] \in Answers
    OBVIOUS
  <2>2. a[c][k].conn \in Conns /\ a[c][k].n \in Nat
    BY <2>1 DEF Answers
  <2>3. 2 * a[c][k].n <= t[a[c][k].conn]
    BY DEF Below
  <2> QED BY <2>2, <2>3
<1> QED BY <1>1, <1>2, <1>3 DEF Below

\* The items that wait are a sequence, and what main() is done with is a number.
LEMMA QueuedAndDone ==
  ASSUME Good
  PROVE  /\ Queued \in Seq(Items) /\ Len(Queued) = queue_count
         /\ item \in [Workers -> Items \cup {NoItem}]
         /\ Unanswered \in [Workers -> Items \cup {NoItem}]
         /\ Done \in [Conns -> Int]
<1>1. Queued \in Seq(Items \cup {NoItem}) /\ Len(Queued) = queue_count
  BY QueuedIsSeq DEF Good, Queue
<1>2. \A k \in 1..Len(Queued) : Queued[k] \in Items
  BY <1>1 DEF Good, Queue
<1>3. Queued \in Seq(Items)
  BY <1>1, <1>2
<1>4. Done \in [Conns -> Int]
  <2>1. \A c \in Conns : rcvd[c] \in Int /\ rcvd[c] - buf \in Int
    BY DEF Good, Net, Main
  <2> QED BY <2>1 DEF Done
<1>5. item \in [Workers -> Items \cup {NoItem}]
  BY DEF Good, Queue, QueueTypeOK
<1>6. Unanswered \in [Workers -> Items \cup {NoItem}]
  BY <1>5 DEF Unanswered
<1> QED BY <1>1, <1>3, <1>4, <1>5, <1>6

\* main() is never done with less than before.
LEMMA DoneGrows ==
  ASSUME Good, Good', [PollNext]_vars, Alive, Alive'
  PROVE  \A c \in Conns : Done[c] <= Done'[c]
<1> USE DEF mainVars, netVars, pollVars
<1>0. \A c \in Conns : rcvd[c] \in Nat /\ rcvd'[c] \in Nat
  BY DEF Good, Net
<1>1. buf \in Nat /\ buf' \in Nat
  BY DEF Good, Main
<1>2. \A c \in Conns :
        /\ Done[c] = IF at = "recv" /\ Conn = c THEN rcvd[c] - buf ELSE rcvd[c]
        /\ Done'[c] = IF at' = "recv" /\ Conn' = c THEN rcvd'[c] - buf' ELSE rcvd'[c]
  BY DEF Done
<1>3. ASSUME UNCHANGED <<at, buf, rcvd>>, at # "recv" \/ Conn' = Conn
      PROVE  \A c \in Conns : Done[c] <= Done'[c]
  <2> HIDE DEF Conn
  <2> QED BY <1>0, <1>1, <1>2, <1>3
<1>4. ASSUME UNCHANGED rcvd, at' # "recv" \/ (at' = "recv" /\ buf' = 0)
      PROVE  \A c \in Conns : Done[c] <= Done'[c]
  <2> HIDE DEF Conn
  <2> QED BY <1>0, <1>1, <1>2, <1>4
<1>5. CASE MainStep
  <2>1. CASE Poll \/ LoopEnds \/ SkipSlots \/ AcceptFails \/ ReadFreed
             \/ \E c \in Conns : RejectClient(c) \/ \E f \in Fds, s \in Heap : AcceptClient(c, f, s)
    <3>1. UNCHANGED rcvd /\ at' # "recv"
      BY <2>1 DEF Poll, LoopEnds, SkipSlots, AcceptFails, RejectClient, AcceptClient,
         AtListener, ReadFreed, Alive
    <3> QED BY <1>4, <3>1
  <2>2. CASE ReadSlot \/ Disconnect
    <3>1. UNCHANGED rcvd /\ (at' # "recv" \/ (at' = "recv" /\ buf' = 0))
      BY <2>2 DEF ReadSlot, Disconnect, Good, Main
    <3> QED BY <1>4, <3>1
  <2>3. CASE Recv
    <3>1. at = "recv" /\ Conn \in Conns /\ at' = at /\ Conn' = Conn
      BY <2>3, ConnIsOpen DEF Recv, Good, Conn
    <3>2. PICK k \in 1..sent[Conn] - rcvd[Conn] :
            buf' = buf + k /\ rcvd' = [rcvd EXCEPT ![Conn] = @ + k]
      BY <2>3 DEF Recv
    <3>3. k \in Nat
      BY <1>0, <3>1, PollAssumption DEF Good, Net
    <3> HIDE DEF Conn
    <3>4. rcvd'[Conn] = rcvd[Conn] + k /\ \A c \in Conns \ {Conn} : rcvd'[c] = rcvd[c]
      BY <3>1, <3>2 DEF Good, Net
    <3> QED BY <1>0, <1>1, <1>2, <3>1, <3>2, <3>3, <3>4
  <2>4. CASE Command
    <3>1. UNCHANGED rcvd /\ (at' = "loop" \/ (UNCHANGED at /\ buf' = buf - 2 /\ Conn' = Conn))
      BY <2>4 DEF Command, Conn
    <3> HIDE DEF Conn
    <3> QED BY <1>0, <1>1, <1>2, <1>4, <3>1
  <2>5. ~AcceptOverrun
    BY DEF AcceptOverrun, Alive
  <2> QED BY <1>5, <2>1, <2>2, <2>3, <2>4, <2>5 DEF MainStep
<1>6. ASSUME NEW w \in Workers, WorkerMoves(w) PROVE \A c \in Conns : Done[c] <= Done'[c]
  <2>0. Queue /\ Memory
    BY DEF Good
  <2>1. UNCHANGED <<at, buf, rcvd, cur, behind>>
    BY <1>6, <2>0, WorkerLeaves
  <2>2. cur \in Heap => ses'[cur].sockfd = ses[cur].sockfd
    BY <1>6, <2>0, WorkerKeepsSocket
  <2>3. at = "recv" => Conn' = Conn
    BY <2>1, <2>2, ConnIsOpen DEF Good, Conn
  <2> QED BY <1>3, <2>1, <2>3
<1>7. CASE ClientStep \/ Ended \/ UNCHANGED vars
  <2>1. UNCHANGED <<at, buf, rcvd, cur, behind, ses>>
    BY <1>7 DEF ClientStep, Connect, SendHalf, Close, Ended, vars
  <2>2. Conn' = Conn
    BY <2>1 DEF Conn
  <2> QED BY <1>3, <2>1, <2>2
<1> QED BY <1>5, <1>6, <1>7 DEF PollNext

\* The next command of a client has a number above all that are anywhere.
LEMMA CommandIsNext ==
  ASSUME NEW r \in Nat, NEW b \in Nat, 2 <= b, b <= r
  PROVE  /\ r - b < 2 * ((r - b) \div 2 + 1)
         /\ 2 * ((r - b) \div 2 + 1) <= r - (b - 2)
<1>1. \A x \in Nat : 2 * (x \div 2) <= x /\ x < 2 * (x \div 2) + 2 /\ x \div 2 \in Nat
  OBVIOUS
<1>2. r - b \in Nat
  OBVIOUS
<1> QED BY <1>1, <1>2

\* Every step keeps commands apart and in order.
LEMMA CommandsKeep ==
  ASSUME Good, Good', Commands, [PollNext]_vars, Alive, Alive'
  PROVE  Commands'
<1>0. /\ Queued \in Seq(Items) /\ Unanswered \in [Workers -> Items \cup {NoItem}]
      /\ answers \in [Conns -> Seq(Answers)] /\ Done \in [Conns -> Int]
      /\ Done' \in [Conns -> Int] /\ QueueTypeOK /\ QueueTypeOK'
      /\ \A c \in Conns : Done[c] <= Done'[c]
      /\ Once(Queued, Unanswered, answers) /\ InOrder(Queued)
      /\ Below(Queued, Unanswered, answers, Done)
  <2>1. Done' \in [Conns -> Int]
    <3>1. \A c \in Conns : rcvd'[c] \in Int /\ rcvd'[c] - buf' \in Int
      BY DEF Good, Net, Main
    <3> QED BY <3>1 DEF Done
  <2>2. QueueTypeOK /\ QueueTypeOK'
    BY DEF Good, Queue
  <2>3. \A c \in Conns : Done[c] <= Done'[c]
    BY DoneGrows
  <2> HIDE DEF Done, Queued
  <2> QED BY <2>1, <2>2, <2>3, QueuedAndDone DEF Commands
<1>1. Below(Queued, Unanswered, answers, Done')
  <2> HIDE DEF Done, Queued
  <2> QED BY <1>0, BelowHigher
<1>2. ASSUME UNCHANGED <<queueVars, step, answers>> PROVE Commands'
  <2>1. Queued' = Queued /\ Unanswered' = Unanswered
    BY <1>2 DEF queueVars, Queued, Unanswered
  <2> QED BY <1>0, <1>1, <1>2, <2>1 DEF Commands
<1>3. ASSUME Queued' = Queued, NEW w \in Workers,
             Unanswered' = [Unanswered EXCEPT ![w] = NoItem], UNCHANGED answers
      PROVE  Commands'
  <2>1. /\ Once(Queued, Unanswered', answers)
        /\ Below(Queued, Unanswered', answers, Done')
    BY <1>0, <1>1, <1>3, FinishOnce
  <2> QED BY <1>0, <1>3, <2>1 DEF Commands
<1>4. CASE MainStep /\ Command
  <2> DEFINE m == WorkItem
  <2>1. at = "recv" /\ buf >= 2 /\ UNCHANGED <<netVars, answers>> /\ (Enqueue(m) \/ Drop)
    BY <1>4 DEF Command
  <2>2. /\ Conn \in Conns /\ buf <= rcvd[Conn] /\ rcvd[Conn] \in Nat /\ buf \in Nat
        /\ m \in Items
    BY <2>1, ConnIsOpen, CommandIsItem DEF Good, Net, Main
  <2>3. CASE Drop
    BY <1>2, <1>4, <2>1, <2>3 DEF Drop, Command, workVars
  <2>4. CASE Enqueue(m)
    <3>1. Queued' = Append(Queued, m) /\ UNCHANGED <<item, step>>
      BY <1>0, <1>4, <2>2, <2>4, EnqueueAppends DEF Enqueue, Command, workVars
    <3>0. Unanswered' = Unanswered
      BY <3>1 DEF Unanswered
    <3>2. Done[Conn] = rcvd[Conn] - buf
      BY <2>1, <2>2 DEF Done
    <3>3. Done'[Conn] = rcvd[Conn] - (buf - 2)
      <4>1. CASE buf = 2
        <5>1. at' = "loop" /\ rcvd' = rcvd
          BY <1>4, <2>1, <4>1 DEF Command, netVars
        <5>2. \A c \in Conns : Done'[c] = rcvd[c]
          BY <5>1 DEF Done
        <5> QED BY <2>2, <4>1, <5>2
      <4>2. CASE buf # 2
        <5>1. at' = "recv" /\ rcvd' = rcvd /\ buf' = buf - 2 /\ Conn' = Conn
          BY <1>4, <2>1, <4>2 DEF Command, netVars, Conn
        <5>2. \A c \in Conns : Conn' = c => Done'[c] = rcvd[c] - (buf - 2)
          BY <5>1 DEF Done
        <5> HIDE DEF Conn
        <5> QED BY <2>2, <5>1, <5>2
      <4> QED BY <4>1, <4>2
    <3>4. m.conn = Conn /\ m.n = (rcvd[Conn] - buf) \div 2 + 1
      BY DEF WorkItem
    <3>5. Done[m.conn] < 2 * m.n /\ 2 * m.n <= Done'[m.conn]
      <4> HIDE DEF m, Conn, Done
      <4> QED BY <2>1, <2>2, <3>2, <3>3, <3>4, CommandIsNext
    <3> HIDE DEF m, Conn, Done, Queued, Unanswered
    <3>6. Once(Queued', Unanswered, answers) /\ InOrder(Queued')
      BY <1>0, <2>2, <3>1, <3>5, AppendOnce
    <3>7. Below(Queued', Unanswered, answers, Done')
      <4>1. /\ DOMAIN Append(Queued, m) = DOMAIN Queued \cup {Len(Queued) + 1}
            /\ Append(Queued, m)[Len(Queued) + 1] = m
            /\ \A k \in DOMAIN Queued : Append(Queued, m)[k] = Queued[k]
        BY <1>0, <2>2
      <4> QED BY <1>1, <3>1, <3>5, <4>1 DEF Below
    <3> QED BY <1>0, <2>1, <3>0, <3>1, <3>6, <3>7 DEF Commands
  <2> QED BY <2>1, <2>3, <2>4
<1>5. CASE MainStep /\ ~Command
  <2>1. UNCHANGED <<queueVars, step, answers>>
    BY <1>5 DEF workVars, MainStep, Poll, LoopEnds, SkipSlots, AcceptFails, RejectClient,
       AcceptClient, AcceptOverrun, ReadSlot, Recv, Disconnect, ReadFreed
  <2> QED BY <1>2, <2>1
<1>6. CASE ClientStep \/ Ended \/ UNCHANGED vars
  <2>1. UNCHANGED <<queueVars, step, answers>>
    BY <1>6 DEF workVars, ClientStep, Connect, SendHalf, Close, Ended, vars
  <2> QED BY <1>2, <2>1
<1>7. ASSUME NEW w \in Workers, WorkerMoves(w) PROVE Commands'
  <2>0. /\ item \in [Workers -> Items \cup {NoItem}] /\ step \in [Workers -> Steps]
        /\ Queue /\ Work
    BY QueuedAndDone DEF Good, Queue
  <2>1. CASE GetWork(w)
    <3>1. Dequeue(w) /\ UNCHANGED answers /\ step' = [step EXCEPT ![w] = "check"]
      BY <2>1 DEF GetWork
    <3>2. /\ Queued # <<>> /\ Queued' = Tail(Queued) /\ item[w] = NoItem
          /\ item' = [item EXCEPT ![w] = Head(Queued)]
      BY <1>0, <3>1, DequeueTakesHead DEF Dequeue, Runs
    <3> HIDE DEF Queued, Done
    <3>3. /\ Unanswered[w] = NoItem
          /\ Unanswered' = [Unanswered EXCEPT ![w] = Head(Queued)]
      BY <2>0, <3>1, <3>2 DEF Unanswered
    <3> HIDE DEF Unanswered
    <3> QED BY <1>0, <1>1, <3>1, <3>2, <3>3, TakeOnce DEF Commands
  <2>2. CASE Sleep(w) \/ WakeUp(w)
    <3>1. UNCHANGED <<work_queue, queue_front, queue_count, item, step, answers>>
      BY <2>2 DEF Sleep, WakeUp, Wait, SpuriousWakeup, workVars
    <3>2. Queued' = Queued /\ Unanswered' = Unanswered
      BY <3>1 DEF Queued, Unanswered
    <3> QED BY <1>0, <1>1, <3>1, <3>2 DEF Commands
  <2>3. CASE ItemStep(w)
    <3>1. /\ Queued' = Queued /\ step[w] # "idle"
          /\ \/ /\ UNCHANGED item
                /\ \E x \in Steps \ {"idle"} : step' = [step EXCEPT ![w] = x]
             \/ /\ item' = [item EXCEPT ![w] = NoItem]
                /\ step' = [step EXCEPT ![w] = "idle"]
      BY <2>0, <2>3, ItemMoves DEF Queued
    <3> HIDE DEF Queued, Done
    <3>2. CASE Reply(w) \/ ReplyBye(w)
      <4> DEFINE b == behind[wfd[w]]
      <4>1. /\ step[w] # "bye"
            /\ \/ item' = [item EXCEPT ![w] = NoItem]
               \/ UNCHANGED item /\ step' = [step EXCEPT ![w] = "bye"]
        BY <3>2 DEF Reply, Return, Finish, ReplyBye, queueVars
      <4>2. /\ Unanswered' = [Unanswered EXCEPT ![w] = NoItem]
            /\ Unanswered[w] = item[w] /\ item[w] # NoItem
        BY <2>0, <3>1, <4>1, HasItem DEF Unanswered
      <4>3. \/ UNCHANGED answers
            \/ answers' = [answers EXCEPT ![b] = Append(@, Cmd(item[w]))]
        BY <3>2 DEF Reply, ReplyBye, Answer, Send, Cmd
      <4> HIDE DEF b, Unanswered
      <4>4. CASE UNCHANGED answers
        BY <1>3, <3>1, <4>2, <4>4
      <4>5. CASE answers' = [answers EXCEPT ![b] = Append(@, Cmd(item[w]))] /\ b \in Conns
        <5>1. /\ answers' \in [Conns -> Seq(Answers)] /\ Once(Queued, Unanswered', answers')
              /\ Below(Queued, Unanswered', answers', Done')
          BY <1>0, <1>1, <4>2, <4>5, AnswerOnce
        <5> QED BY <1>0, <3>1, <5>1 DEF Commands
      <4>6. CASE answers' = [answers EXCEPT ![b] = Append(@, Cmd(item[w]))] /\ b \notin Conns
        <5>1. UNCHANGED answers
          BY <1>0, <4>6
        <5> QED BY <4>4, <5>1
      <4> QED BY <4>3, <4>4, <4>5, <4>6
    <3>3. CASE ~(Reply(w) \/ ReplyBye(w))
      <4>1. UNCHANGED answers /\ (step'[w] = "bye" => step[w] = "bye")
        <5>1. CASE CheckActive(w) \/ Inactive(w)
          BY <2>0, <5>1 DEF CheckActive, Inactive
        <5>2. CASE LockSession(w) \/ UnknownCommand(w)
          BY <2>0, <5>2 DEF LockSession, UnknownCommand, ReadSockfd
        <5>3. CASE LogIn(w) \/ UseFreed(w)
          BY <2>0, <5>3 DEF LogIn, UseFreed, workVars
        <5>4. CASE LogOut(w)
          BY <2>0, <5>4 DEF LogOut, Return
        <5> QED BY <2>3, <3>3, <5>1, <5>2, <5>3, <5>4 DEF ItemStep
      <4>2. CASE UNCHANGED item /\ step'[w] # "bye" /\ step[w] # "bye"
        <5>1. Unanswered' = Unanswered
          BY <2>0, <3>1, <4>2 DEF Unanswered
        <5> QED BY <1>0, <1>1, <3>1, <4>1, <5>1 DEF Commands
      <4>3. CASE step[w] = "bye" \/ item' = [item EXCEPT ![w] = NoItem]
        <5>1. Unanswered' = [Unanswered EXCEPT ![w] = NoItem]
          <6>1. \A v \in Workers \ {w} : item'[v] = item[v] /\ step'[v] = step[v]
            BY <2>0, <3>1
          <6>2. step'[w] = "bye" \/ item'[w] = NoItem
            <7>1. step[w] = "bye" => step'[w] = "bye" \/ item'[w] = NoItem
              <8>1. ASSUME step[w] = "bye" PROVE LogOut(w) \/ UseFreed(w)
                BY <2>3, <3>3, <8>1 DEF ItemStep, CheckActive, Inactive, LockSession,
                   UnknownCommand, ReadSockfd, LogIn
              <8>2. CASE LogOut(w)
                BY <2>0, <8>2 DEF LogOut, Return, Finish
              <8>3. ~UseFreed(w)
                BY DEF UseFreed, Alive
              <8> QED BY <8>1, <8>2, <8>3
            <7> QED BY <2>0, <4>3, <7>1
          <6> QED BY <6>1, <6>2 DEF Unanswered
        <5> HIDE DEF Unanswered
        <5> QED BY <1>3, <3>1, <4>1, <5>1
      <4> QED BY <3>1, <4>1, <4>2, <4>3
    <3> QED BY <3>2, <3>3
  <2> QED BY <1>7, <2>1, <2>2, <2>3 DEF WorkerMoves, ItemStep
<1> QED BY <1>4, <1>5, <1>6, <1>7 DEF PollNext

\* Commands that are apart are in different places.
LEMMA CommandsArePlaced ==
  ASSUME Good, Commands
  PROVE  CommandsRunOnce
<1>0. /\ Queued \in Seq(Items) /\ Len(Queued) = queue_count /\ queue_count \in Nat
      /\ answers \in [Conns -> Seq(Answers)] /\ DOMAIN Queued = 1..queue_count
      /\ Once(Queued, Unanswered, answers) /\ InOrder(Queued)
  BY QueuedAndDone, QueueAssumption DEF Commands, Good, Queue, QueueTypeOK
<1> HIDE DEF Queued
<1>1. ASSUME NEW p \in Places
      PROVE  \/ \E k \in DOMAIN Queued : p = <<"queued", k>> /\ CommandAt(p) = Cmd(Queued[k])
             \/ \E w \in Workers : p = <<"held", w>>
                  /\ CommandAt(p) = IF Unanswered[w] = NoItem THEN NoItem ELSE Cmd(Unanswered[w])
             \/ \E c \in Conns : \E k \in DOMAIN answers[c] :
                  p = <<"answered", k, c>> /\ CommandAt(p) = answers[c][k]
  <2>1. CASE p \in {<<"queued", k>> : k \in 1..queue_count}
    BY <1>0, <2>1 DEF CommandAt, Cmd
  <2>2. CASE p \in {<<"held", w>> : w \in Workers}
    BY <2>2 DEF CommandAt, Cmd, Unanswered
  <2>3. ASSUME NEW c \in Conns, p \in {<<"answered", k, c>> : k \in 1..Len(answers[c])}
        PROVE  \E k \in DOMAIN answers[c] :
                 p = <<"answered", k, c>> /\ CommandAt(p) = answers[c][k]
    <3>1. DOMAIN answers[c] = 1..Len(answers[c])
      BY <1>0
    <3> QED BY <2>3, <3>1 DEF CommandAt
  <2> QED BY <2>1, <2>2, <2>3 DEF Places
<1>2. ASSUME NEW p \in Places, NEW q \in Places, CommandAt(p) = CommandAt(q),
             CommandAt(p) # NoItem
      PROVE  p = q
  <2> HIDE DEF CommandAt, Unanswered
  <2>0. CommandAt(q) # NoItem
    BY <1>2
  <2>1. CASE \E k \in DOMAIN Queued : p = <<"queued", k>> /\ CommandAt(p) = Cmd(Queued[k])
    <3>1. PICK k \in DOMAIN Queued : p = <<"queued", k>> /\ CommandAt(p) = Cmd(Queued[k])
      BY <2>1
    <3>2. PICK l \in DOMAIN Queued : q = <<"queued", l>> /\ CommandAt(q) = Cmd(Queued[l])
      <4>1. \A w \in Workers : Unanswered[w] # NoItem => CommandAt(q) # Cmd(Unanswered[w])
        BY <1>0, <1>2, <3>1 DEF Once, QueuedOrHeld
      <4>2. \A c \in Conns : \A j \in DOMAIN answers[c] : answers[c][j] # CommandAt(q)
        BY <1>0, <1>2, <3>1 DEF Once, QueuedOrAnswered
      <4> QED BY <1>1, <2>0, <4>1, <4>2
    <3>3. k = l
      BY <1>0, <1>2, <3>1, <3>2, Zenon DEF Once, QueuedOnce
    <3> QED BY <3>1, <3>2, <3>3
  <2>2. CASE \E w \in Workers : p = <<"held", w>> /\ Unanswered[w] # NoItem
               /\ CommandAt(p) = Cmd(Unanswered[w])
    <3>1. PICK w \in Workers : p = <<"held", w>> /\ Unanswered[w] # NoItem
            /\ CommandAt(p) = Cmd(Unanswered[w])
      BY <2>2
    <3>2. PICK v \in Workers : q = <<"held", v>> /\ Unanswered[v] # NoItem
            /\ CommandAt(q) = Cmd(Unanswered[v])
      <4>1. \A k \in DOMAIN Queued : Cmd(Queued[k]) # CommandAt(q)
        BY <1>0, <1>2, <3>1 DEF Once, QueuedOrHeld
      <4>2. \A c \in Conns : \A k \in DOMAIN answers[c] : answers[c][k] # CommandAt(q)
        BY <1>0, <1>2, <3>1 DEF Once, HeldOrAnswered
      <4> QED BY <1>1, <2>0, <4>1, <4>2
    <3>3. w = v
      BY <1>0, <1>2, <3>1, <3>2, Zenon DEF Once, HeldOnce
    <3> QED BY <3>1, <3>2, <3>3
  <2>3. CASE \E c \in Conns : \E k \in DOMAIN answers[c] :
               p = <<"answered", k, c>> /\ CommandAt(p) = answers[c][k]
    <3>1. PICK c \in Conns : \E k \in DOMAIN answers[c] :
            p = <<"answered", k, c>> /\ CommandAt(p) = answers[c][k]
      BY <2>3
    <3>2. PICK k \in DOMAIN answers[c] :
            p = <<"answered", k, c>> /\ CommandAt(p) = answers[c][k]
      BY <3>1
    <3>3. PICK d \in Conns : \E l \in DOMAIN answers[d] :
            q = <<"answered", l, d>> /\ CommandAt(q) = answers[d][l]
      <4>1. \A w \in Workers : Unanswered[w] # NoItem => CommandAt(q) # Cmd(Unanswered[w])
        BY <1>0, <1>2, <3>2 DEF Once, HeldOrAnswered
      <4>2. \A j \in DOMAIN Queued : Cmd(Queued[j]) # CommandAt(q)
        BY <1>0, <1>2, <3>2 DEF Once, QueuedOrAnswered
      <4> QED BY <1>1, <2>0, <4>1, <4>2
    <3>4. PICK l \in DOMAIN answers[d] :
            q = <<"answered", l, d>> /\ CommandAt(q) = answers[d][l]
      BY <3>3
    <3>5. \A x \in DOMAIN answers[c] : \A y \in DOMAIN answers[d] :
            answers[c][x] = answers[d][y] => c = d /\ x = y
      BY <1>0, Zenon DEF Once, AnsweredOnce
    <3>6. c = d /\ k = l
      BY <1>2, <3>2, <3>4, <3>5, Zenon
    <3> QED BY <3>2, <3>4, <3>6
  <2> QED BY <1>1, <1>2, <2>1, <2>2, <2>3
<1>3. \A j, k \in 1..queue_count :
        j < k /\ Queued[j].conn = Queued[k].conn => Queued[j].n < Queued[k].n
  BY <1>0 DEF InOrder
<1> QED BY <1>2, <1>3 DEF CommandsRunOnce

\* What is known of the commands while the process runs.
CInv == IInv /\ (Alive => Commands)

\* A process that is running was running before the step.
LEMMA AliveBefore == [PollNext]_vars /\ Alive' => Alive
BY DEF Alive, PollNext, MainStep, WorkerMoves, ClientStep, Ended, vars

\* CInv is an invariant.
LEMMA CommandsHold == PollSpec => []CInv
<1>1. Init => CInv
  <2> SUFFICES ASSUME Init PROVE Commands
    BY InitInv DEF CInv
  <2>1. /\ answers = [c \in Conns |-> <<>>] /\ item = [w \in Workers |-> NoItem]
        /\ queue_count = 0
    BY DEF Init, QueueInit
  <2>2. answers \in [Conns -> Seq(Answers)] /\ \A c \in Conns : DOMAIN answers[c] = {}
    BY <2>1
  <2>3. Queued = <<>>
    <3>1. DOMAIN Queued = {}
      BY <2>1 DEF Queued
    <3> QED BY <2>1 DEF Queued
  <2>4. DOMAIN Queued = {}
    BY <2>3
  <2> HIDE DEF Queued
  <2> QED BY <2>1, <2>2, <2>4 DEF Commands, Once, QueuedOnce, QueuedOrHeld, QueuedOrAnswered,
             HeldOnce, HeldOrAnswered, AnsweredOnce, InOrder, Below, Unanswered
<1>2. CInv /\ [PollNext]_vars => CInv'
  <2> SUFFICES ASSUME CInv, [PollNext]_vars PROVE CInv'
    OBVIOUS
  <2>1. IInv'
    BY NextInv DEF CInv
  <2>2. Alive' => Commands'
    BY <2>1, AliveBefore, CommandsKeep DEF IInv, CInv
  <2> QED BY <2>1, <2>2 DEF CInv
<1> QED BY <1>1, <1>2, PTL DEF PollSpec

\* Each command is run at most once, and the commands of one client enter the queue in
\* the order in which it sent them, however recv() cuts them.
THEOREM CommandsRunOnceHolds == PollSpec => []CommandsRunOnce
<1>1. CInv => CommandsRunOnce
  BY CommandsArePlaced DEF CInv, IInv, CommandsRunOnce
<1> QED BY <1>1, CommandsHold, PTL

-----------------------------------------------------------------------------
(* Clients that are connected at the same time never meet. *)

\* A descriptor has a connection of its own, one that was made and was taken from
\* the backlog.
Links ==
  /\ \A f, g \in Fds : behind[f] # NoConn /\ behind[f] = behind[g] => f = g
  /\ \A f \in Fds : behind[f] # NoConn =>
       behind[f] \notin backlog /\ peer[behind[f]] # "new"
  /\ \A c \in backlog : peer[c] # "new"

\* The connection of a session, and that a pointer held for connection c is still
\* good, or c is over.
Owner(s) == behind[ses[s].sockfd]
Own(s, c) == (s \in heap /\ Owner(s) = c) \/ Over(c)

\* Where a worker has read the descriptor it will answer on.
Sockets == {"locked", "granted", "answer", "bye"}

\* Whoever goes by a session pointer: the commands that wait, those that workers
\* hold, and the users that are logged in; and the descriptors read from sessions.
OwnQueued == \A k \in DOMAIN Queued : Own(Queued[k].session, Queued[k].conn)
OwnHeld == \A w \in Workers : item[w] # NoItem => Own(item[w].session, item[w].conn)
OwnSocket ==
  \A w \in Workers : step[w] \in Sockets =>
    Over(item[w].conn) \/ (wfd[w] \in Fds /\ behind[wfd[w]] = item[w].conn)
OwnUser == \A s \in heap : ses[s].logged_in # NoConn => Own(s, ses[s].logged_in)

\* Whose answers a client has received.
OwnAnswers ==
  \A c \in Conns : \A k \in DOMAIN answers[c] :
    answers[c][k].conn = c \/ Over(answers[c][k].conn)

Apart == Links /\ OwnQueued /\ OwnHeld /\ OwnSocket /\ OwnUser /\ OwnAnswers

\* A live session has an open descriptor, which no other session has.
LEMMA LiveSession ==
  ASSUME Good, NEW s \in heap
  PROVE  /\ s \in Heap /\ ses[s].sockfd \in Fds /\ ses[s].sockfd \notin FreeFds
         /\ Owner(s) \in Conns
         /\ \A t \in heap : ses[t].sockfd = ses[s].sockfd => t = s
<1>1. {sessions[k] : k \in Used} = heap
  BY DEF Good, Arrays
<1>2. PICK k \in Used : s = sessions[k]
  BY <1>1
<1>3. /\ poll_fds[k].fd = ses[s].sockfd /\ poll_fds[k].fd \in Fds
      /\ poll_fds[k].fd \notin FreeFds /\ behind[poll_fds[k].fd] \in Conns /\ s \in Heap
  BY <1>2, SlotInUse DEF Good
<1>4. ASSUME NEW t \in heap, ses[t].sockfd = ses[s].sockfd PROVE t = s
  <2>1. PICK l \in Used : t = sessions[l]
    BY <1>1
  <2>2. poll_fds[l].fd = poll_fds[k].fd
    BY <1>3, <1>4, <2>1, SlotInUse DEF Good
  <2>3. l = k
    BY <2>2 DEF Good, Arrays
  <2> QED BY <1>2, <2>1, <2>3
<1> QED BY <1>3, <1>4 DEF Owner

\* A session keeps its descriptor.
LEMMA SameDescriptor ==
  ASSUME Good, [PollNext]_vars, NEW s \in heap
  PROVE  ses'[s].sockfd = ses[s].sockfd
<1>0. s \in Heap
  BY LiveSession
<1>1. CASE MainStep
  <2>1. ASSUME NEW c \in Conns, NEW f \in Fds, NEW t \in Heap, AcceptClient(c, f, t)
        PROVE  ses'[s].sockfd = ses[s].sockfd
    BY <1>0, <2>1 DEF AcceptClient, Good, Memory
  <2>2. CASE UNCHANGED ses
    BY <2>2
  <2>3. UNCHANGED ses \/ \E c \in Conns, f \in Fds, t \in Heap : AcceptClient(c, f, t)
    BY <1>1 DEF MainStep, Poll, LoopEnds, SkipSlots, AcceptFails, RejectClient,
       AcceptOverrun, ReadSlot, Recv, Command, Disconnect, ReadFreed
  <2> QED BY <2>1, <2>2, <2>3
<1>2. ASSUME NEW w \in Workers, WorkerMoves(w) PROVE ses'[s].sockfd = ses[s].sockfd
  <2>1. Queue /\ Memory
    BY DEF Good
  <2> QED BY <1>0, <1>2, <2>1, WorkerKeepsSocket
<1>3. CASE ClientStep \/ Ended \/ UNCHANGED vars
  BY <1>3 DEF ClientStep, Connect, SendHalf, Close, Ended, vars
<1> QED BY <1>1, <1>2, <1>3 DEF PollNext

\* What the steps of the program do to the connections.
LEMMA LinkSteps ==
  ASSUME Good, [PollNext]_vars, Alive'
  PROVE  \/ UNCHANGED <<peer, backlog, behind, heap>>
         \/ \E c \in Conns : Connect(c) \/ Close(c) \/ RejectClient(c)
         \/ \E c \in Conns, f \in Fds, s \in Heap : AcceptClient(c, f, s)
         \/ Disconnect
<1> USE DEF netVars
<1>1. CASE MainStep
  BY <1>1 DEF MainStep, Poll, LoopEnds, SkipSlots, AcceptFails, AcceptOverrun, ReadSlot,
     Recv, Command, ReadFreed
<1>2. ASSUME NEW w \in Workers, WorkerMoves(w)
      PROVE  UNCHANGED <<peer, backlog, behind, heap>>
  BY <1>2, WorkerLeaves DEF Good
<1>3. CASE ClientStep \/ Ended \/ UNCHANGED vars
  BY <1>3 DEF ClientStep, SendHalf, Ended, vars
<1> QED BY <1>1, <1>2, <1>3 DEF PollNext

\* Connections stay linked, one that is over stays so, and a session keeps its
\* connection for as long as it lasts.
LEMMA LinksKeep ==
  ASSUME Good, Links, [PollNext]_vars, Alive'
  PROVE  /\ Links'
         /\ \A c \in Conns : Over(c) => Over(c)'
         /\ \A s \in heap, c \in Conns :
              Owner(s) = c => (s \in heap' /\ Owner(s)' = c) \/ Over(c)'
         /\ \A f \in Fds, c \in Conns : behind[f] = c => behind'[f] = c \/ Over(c)'
<1>0. /\ \A s \in heap : /\ s \in Heap /\ ses[s].sockfd \in Fds /\ Owner(s) \in Conns
                         /\ ses'[s].sockfd = ses[s].sockfd /\ ses[s].sockfd \notin FreeFds
      /\ peer \in [Conns -> {"new", "up", "down"}] /\ backlog \subseteq Conns
      /\ behind \in [Fds -> Conns \cup {NoConn}] /\ NoConn \notin Conns
  BY LiveSession, SameDescriptor, PollAssumption DEF Good, Net
<1>1. CASE UNCHANGED <<peer, backlog, behind, heap>>
  BY <1>0, <1>1 DEF Links, Over, Owner
<1>2. ASSUME NEW c \in Conns, Connect(c) \/ Close(c) \/ RejectClient(c)
      PROVE  /\ Links' /\ \A d \in Conns : Over(d) => Over(d)'
             /\ \A s \in heap : s \in heap' /\ Owner(s)' = Owner(s)
             /\ \A g \in Fds : behind[g] \in Conns => behind'[g] = behind[g]
  <2>1. UNCHANGED <<behind, heap>>
    BY <1>2 DEF Connect, Close, RejectClient
  <2>2. \A s \in heap : s \in heap' /\ Owner(s)' = Owner(s)
    BY <1>0, <2>1 DEF Owner
  <2>3. /\ \A d \in Conns : peer[d] # "new" => peer'[d] # "new" /\ (d \in backlog' => d \in backlog)
        /\ \A d \in backlog' : d \in backlog \/ peer'[d] # "new"
        /\ backlog' \subseteq Conns
    BY <1>0, <1>2 DEF Connect, Close, RejectClient
  <2>4. Links'
    BY <1>0, <2>1, <2>3 DEF Links
  <2>5. \A d \in Conns : Over(d) => Over(d)'
    BY <2>1, <2>3 DEF Over
  <2> QED BY <2>1, <2>2, <2>4, <2>5
<1>3. ASSUME NEW c \in Conns, NEW f \in Fds, NEW t \in Heap, AcceptClient(c, f, t)
      PROVE  /\ Links' /\ \A d \in Conns : Over(d) => Over(d)'
             /\ \A s \in heap : s \in heap' /\ Owner(s)' = Owner(s)
             /\ \A g \in Fds : behind[g] \in Conns => behind'[g] = behind[g]
  <2>1. /\ behind[f] = NoConn /\ c \in backlog /\ backlog' = backlog \ {c}
        /\ behind' = [behind EXCEPT ![f] = c] /\ heap' = heap \cup {t} /\ UNCHANGED peer
    BY <1>3 DEF AcceptClient, FreeFds
  <2>2. behind'[f] = c /\ \A g \in Fds \ {f} : behind'[g] = behind[g]
    BY <1>0, <2>1
  <2>3. \A s \in heap : s \in heap' /\ Owner(s)' = Owner(s)
    BY <1>0, <2>1, <2>2 DEF Owner, FreeFds
  <2>4. \A g \in Fds : behind[g] # c
    BY <1>0, <2>1 DEF Links
  <2>5. Links'
    BY <1>0, <2>1, <2>2, <2>4 DEF Links
  <2>6. \A d \in Conns : Over(d) => Over(d)'
    BY <2>1, <2>2 DEF Over
  <2> QED BY <1>0, <2>1, <2>2, <2>3, <2>5, <2>6
<1>4. CASE Disconnect
  <2>1. /\ cur \in heap /\ behind' = [behind EXCEPT ![ses[cur].sockfd] = NoConn]
        /\ heap' = heap \ {cur} /\ UNCHANGED <<peer, backlog>>
    BY <1>4, ConnIsOpen DEF Disconnect, Good
  <2>2. /\ behind'[ses[cur].sockfd] = NoConn
        /\ \A g \in Fds \ {ses[cur].sockfd} : behind'[g] = behind[g]
    BY <1>0, <2>1
  <2>3. Links'
    BY <1>0, <2>1, <2>2 DEF Links
  <2>4. \A d \in Conns : Over(d) => Over(d)'
    BY <1>0, <2>1, <2>2 DEF Over
  <2>5. ASSUME NEW s \in heap, s # cur PROVE s \in heap' /\ Owner(s)' = Owner(s)
    <3>1. ses[s].sockfd # ses[cur].sockfd
      BY <2>1, <2>5, LiveSession
    <3> QED BY <1>0, <2>1, <2>2, <2>5, <3>1 DEF Owner
  <2>6. ASSUME NEW d \in Conns, Owner(cur) = d PROVE Over(d)'
    <3>1. behind[ses[cur].sockfd] = d /\ d # NoConn /\ ses[cur].sockfd \in Fds
      BY <1>0, <2>1, <2>6 DEF Owner
    <3>2. peer'[d] # "new" /\ d \notin backlog'
      BY <2>1, <3>1 DEF Links
    <3>3. \A g \in Fds : behind'[g] # d
      BY <2>2, <3>1 DEF Links
    <3> QED BY <3>2, <3>3 DEF Over
  <2> QED BY <2>2, <2>3, <2>4, <2>5, <2>6 DEF Owner
<1> QED BY <1>1, <1>2, <1>3, <1>4, LinkSteps

\* So what belongs to a connection goes on doing so.
LEMMA OwnKeeps ==
  ASSUME Good, Links, [PollNext]_vars, Alive', NEW s, NEW c \in Conns, Own(s, c)
  PROVE  Own(s, c)'
BY LinksKeep DEF Own

\* A command belongs to its connection when main() reads it.
LEMMA OwnWorkItem ==
  ASSUME Good, at = "recv"
  PROVE  Own(WorkItem.session, WorkItem.conn)
<1>1. cur \in heap /\ WorkItem.session = cur /\ WorkItem.conn = Conn
  BY ConnIsOpen DEF Good, WorkItem
<1> QED BY <1>1 DEF Own, Owner, Conn

\* The commands that wait and those that are worked on.
LEMMA OwnItemsKeep ==
  ASSUME Good, Good', Links, OwnQueued, OwnHeld, [PollNext]_vars, Alive, Alive'
  PROVE  OwnQueued' /\ OwnHeld'
<1>0. /\ Queued \in Seq(Items) /\ item \in [Workers -> Items \cup {NoItem}]
      /\ QueueTypeOK /\ QueueTypeOK'
  BY QueuedAndDone DEF Good, Queue
<1>1. \A x \in Items : Own(x.session, x.conn) => Own(x.session, x.conn)'
  <2> TAKE x \in Items
  <2>1. x.conn \in Conns
    BY ItemIs
  <2> QED BY <2>1, OwnKeeps
<1>2. /\ \A k \in DOMAIN Queued :
           Queued[k] \in Items /\ Own(Queued[k].session, Queued[k].conn)
      /\ \A w \in Workers : item[w] # NoItem =>
           item[w] \in Items /\ Own(item[w].session, item[w].conn)
  <2> HIDE DEF Queued
  <2> QED BY <1>0 DEF OwnQueued, OwnHeld
<1>3. ASSUME \A k \in DOMAIN Queued' : \E j \in DOMAIN Queued : Queued'[k] = Queued[j]
      PROVE  OwnQueued'
  <2> SUFFICES ASSUME NEW k \in DOMAIN Queued'
               PROVE  (\A x : x = Queued[k] => Own(x.session, x.conn))'
    BY DEF OwnQueued
  <2> QED BY <1>1, <1>2, <1>3
<1>4. ASSUME \A w \in Workers : item'[w] # NoItem =>
               \/ \E v \in Workers : item[v] # NoItem /\ item'[w] = item[v]
               \/ \E k \in DOMAIN Queued : item'[w] = Queued[k]
      PROVE  OwnHeld'
  <2> SUFFICES ASSUME NEW w \in Workers, item'[w] # NoItem
               PROVE  (\A x : x = item[w] => Own(x.session, x.conn))'
    BY DEF OwnHeld
  <2> HIDE DEF Queued
  <2> QED BY <1>1, <1>2, <1>4
<1>5. ASSUME Queued' = Queued, \A w \in Workers : item'[w] \in {item[w], NoItem}
      PROVE  OwnQueued' /\ OwnHeld'
  <2> HIDE DEF Queued
  <2>1. OwnQueued'
    BY <1>3, <1>5
  <2>2. OwnHeld'
    BY <1>4, <1>5
  <2> QED BY <2>1, <2>2
<1>6. ASSUME UNCHANGED <<work_queue, queue_front, queue_count>> PROVE Queued' = Queued
  BY <1>6 DEF Queued
<1>7. CASE MainStep /\ Command
  <2>1. at = "recv" /\ buf >= 2 /\ (Enqueue(WorkItem) \/ Drop)
    BY <1>7 DEF Command
  <2>2. CASE Drop
    BY <1>5, <1>6, <2>2 DEF Drop, queueVars
  <2>3. CASE Enqueue(WorkItem)
    <3>1. WorkItem \in Items /\ Own(WorkItem.session, WorkItem.conn)
      BY <2>1, CommandIsItem, OwnWorkItem DEF Good
    <3>2. Queued' = Append(Queued, WorkItem) /\ UNCHANGED item
      BY <1>0, <2>3, <3>1, EnqueueAppends DEF Enqueue
    <3> HIDE DEF Queued
    <3>3. \A k \in DOMAIN Queued' :
            Queued'[k] = WorkItem \/ \E j \in DOMAIN Queued : Queued'[k] = Queued[j]
      BY <1>0, <3>1, <3>2
    <3>4. OwnQueued'
      <4> SUFFICES ASSUME NEW k \in DOMAIN Queued'
                   PROVE  (\A x : x = Queued[k] => Own(x.session, x.conn))'
        BY DEF OwnQueued
      <4>1. PICK m : m = WorkItem
        OBVIOUS
      <4>2. m \in Items /\ Own(m.session, m.conn)
        BY <3>1, <4>1
      <4>3. \A x : x = Queued'[k] => x \in Items /\ Own(x.session, x.conn)
        BY <1>2, <3>3, <4>1, <4>2
      <4> QED BY <1>1, <4>3
    <3>5. OwnHeld'
      BY <1>4, <3>2
    <3> QED BY <3>4, <3>5
  <2> QED BY <2>1, <2>2, <2>3
<1>8. CASE (MainStep /\ ~Command) \/ ClientStep \/ Ended \/ UNCHANGED vars
  <2>1. UNCHANGED queueVars
    BY <1>8 DEF MainStep, Poll, LoopEnds, SkipSlots, AcceptFails, RejectClient,
       AcceptClient, AcceptOverrun, ReadSlot, Recv, Disconnect, ReadFreed,
       ClientStep, Connect, SendHalf, Close, Ended, vars
  <2> QED BY <1>5, <1>6, <2>1 DEF queueVars
<1>9. ASSUME NEW w \in Workers, WorkerMoves(w) PROVE OwnQueued' /\ OwnHeld'
  <2>1. CASE GetWork(w)
    <3>1. /\ Queued # <<>> /\ Queued' = Tail(Queued)
          /\ item' = [item EXCEPT ![w] = Head(Queued)]
      BY <1>0, <2>1, DequeueTakesHead DEF GetWork, Dequeue
    <3> HIDE DEF Queued
    <3>2. /\ 1 \in DOMAIN Queued /\ Head(Queued) = Queued[1]
          /\ \A k \in DOMAIN Queued' : k + 1 \in DOMAIN Queued /\ Queued'[k] = Queued[k + 1]
      BY <1>0, <3>1, HeadTailProperties
    <3>3. OwnQueued'
      BY <1>3, <3>2
    <3>4. OwnHeld'
      <4>1. item'[w] = Queued[1] /\ \A v \in Workers \ {w} : item'[v] = item[v]
        BY <1>0, <3>1, <3>2
      <4> QED BY <1>4, <3>2, <4>1
    <3> QED BY <3>3, <3>4
  <2>2. CASE ~GetWork(w)
    <3>1. /\ UNCHANGED <<work_queue, queue_front, queue_count>>
          /\ UNCHANGED item \/ item' = [item EXCEPT ![w] = NoItem]
      <4>1. CASE Sleep(w) \/ WakeUp(w)
        BY <4>1 DEF Sleep, WakeUp, Wait, SpuriousWakeup
      <4>2. CASE ItemStep(w)
        BY <4>2, ItemMoves DEF Good
      <4> QED BY <1>9, <2>2, <4>1, <4>2 DEF WorkerMoves, ItemStep
    <3> QED BY <1>0, <1>5, <1>6, <3>1
  <2> QED BY <2>1, <2>2
<1> QED BY <1>7, <1>8, <1>9 DEF PollNext

\* The descriptors that workers have read: main() may close them, which ends the
\* connection, but it does not give them to another client without that.
LEMMA OwnSocketKeeps ==
  ASSUME Good, Links, OwnHeld, OwnSocket, [PollNext]_vars, Alive'
  PROVE  OwnSocket'
<1>0. Queue /\ Work /\ item \in [Workers -> Items \cup {NoItem}] /\ step \in [Workers -> Steps]
      /\ wfd \in [Workers -> Fds \cup {NoFd}]
  BY QueuedAndDone DEF Good, Queue, Work
<1>1. ASSUME NEW x \in Items, NEW f, Over(x.conn) \/ (f \in Fds /\ behind[f] = x.conn)
      PROVE  (Over(x.conn) \/ (f \in Fds /\ behind[f] = x.conn))'
  <2>1. x.conn \in Conns
    BY ItemIs
  <2> QED BY <1>1, <2>1, LinksKeep
<1>2. ASSUME \A w \in Workers :
               \/ step'[w] \notin Sockets
               \/ /\ step[w] \in Sockets
                  /\ item'[w] = item[w] /\ wfd'[w] = wfd[w]
               \/ /\ step[w] = "run" /\ item'[w] = item[w]
                  /\ wfd'[w] = ses[item[w].session].sockfd
      PROVE  OwnSocket'
  <2> SUFFICES ASSUME NEW w \in Workers, step'[w] \in Sockets
               PROVE  (\A x, f : x = item[w] /\ f = wfd[w] =>
                         Over(x.conn) \/ (f \in Fds /\ behind[f] = x.conn))'
    BY DEF OwnSocket
  <2> SUFFICES ASSUME NEW x, NEW f, x = item'[w], f = wfd'[w]
               PROVE  (Over(x.conn) \/ (f \in Fds /\ behind[f] = x.conn))'
    OBVIOUS
  <2>1. CASE step[w] \in Sockets /\ item'[w] = item[w] /\ wfd'[w] = wfd[w]
    <3>1. x \in Items
      BY <1>0, <2>1, HasItem DEF Sockets
    <3> QED BY <1>1, <2>1, <3>1 DEF OwnSocket
  <2>2. CASE step[w] = "run" /\ item'[w] = item[w] /\ wfd'[w] = ses[item[w].session].sockfd
    <3>1. x \in Items /\ Own(x.session, x.conn) /\ f = ses[x.session].sockfd
      BY <1>0, <2>2, HasItem DEF OwnHeld
    <3>2. Over(x.conn) \/ (f \in Fds /\ behind[f] = x.conn)
      BY <3>1, LiveSession DEF Own, Owner
    <3> QED BY <1>1, <3>1, <3>2
  <2> QED BY <1>2, <2>1, <2>2
<1>3. CASE MainStep \/ ClientStep \/ Ended \/ UNCHANGED vars
  <2>1. UNCHANGED <<step, item, wfd>>
    BY <1>3 DEF MainStep, Poll, LoopEnds, SkipSlots, AcceptFails, RejectClient,
       AcceptClient, AcceptOverrun, ReadSlot, Recv, Command, Disconnect, ReadFreed,
       ClientStep, Connect, SendHalf, Close, Ended, vars, queueVars, workVars, Enqueue, Drop
  <2> QED BY <1>2, <2>1
<1>4. ASSUME NEW w \in Workers, WorkerMoves(w) PROVE OwnSocket'
  <2>1. /\ \A v \in Workers \ {w} : item'[v] = item[v] /\ step'[v] = step[v] /\ wfd'[v] = wfd[v]
        /\ \/ step'[w] \notin Sockets
           \/ step[w] \in Sockets /\ item'[w] = item[w] /\ wfd'[w] = wfd[w]
           \/ /\ step[w] = "run" /\ item'[w] = item[w]
              /\ wfd'[w] = ses[item[w].session].sockfd
    <3>1. CASE GetWork(w) \/ CheckActive(w)
      BY <1>0, <3>1 DEF GetWork, Dequeue, CheckActive, queueVars, Sockets
    <3>2. CASE Sleep(w) \/ WakeUp(w)
      BY <3>2 DEF Sleep, WakeUp, Wait, SpuriousWakeup, workVars
    <3>3. CASE Inactive(w)
      BY <1>0, <3>3 DEF Inactive, Finish, Sockets
    <3>4. CASE LockSession(w) \/ UnknownCommand(w)
      BY <1>0, <3>4 DEF LockSession, UnknownCommand, ReadSockfd, queueVars
    <3>5. CASE LogIn(w) \/ ReplyBye(w)
      BY <1>0, <3>5 DEF LogIn, ReplyBye, queueVars, Sockets
    <3>6. CASE Reply(w) \/ LogOut(w)
      BY <1>0, <3>6 DEF Reply, LogOut, Return, Finish, Sockets
    <3>7. ~UseFreed(w)
      BY DEF UseFreed, Alive
    <3> QED BY <1>4, <3>1, <3>2, <3>3, <3>4, <3>5, <3>6, <3>7 DEF WorkerMoves
  <2> QED BY <1>2, <2>1
<1> QED BY <1>3, <1>4 DEF PollNext

\* The users that are logged in.
LEMMA OwnUserKeeps ==
  ASSUME Good, Links, OwnHeld, OwnUser, [PollNext]_vars, Alive'
  PROVE  OwnUser'
<1>0. /\ \A s \in heap : s \in Heap /\ ses[s].logged_in \in Conns \cup {NoConn}
      /\ item \in [Workers -> Items \cup {NoItem}]
  BY QueuedAndDone DEF Good, Memory
<1>1. \A s \in heap, c \in Conns : Own(s, c) => Own(s, c)'
  BY OwnKeeps
\* A user is the one of before, nobody, or the client of a command.
<1>2. ASSUME \A s \in heap' : \/ ses'[s].logged_in = NoConn
                              \/ s \in heap /\ ses'[s].logged_in = ses[s].logged_in
                              \/ \E w \in Workers :
                                   /\ item[w] # NoItem /\ s \in heap
                                   /\ item[w].session = s
                                   /\ ses'[s].logged_in = item[w].conn
      PROVE  OwnUser'
  <2> SUFFICES ASSUME NEW s \in heap', ses'[s].logged_in # NoConn,
                      NEW c, c = ses'[s].logged_in
               PROVE  Own(s, c)'
    BY DEF OwnUser
  <2>1. CASE s \in heap /\ ses'[s].logged_in = ses[s].logged_in
    BY <1>0, <1>1, <2>1 DEF OwnUser
  <2>2. CASE \E w \in Workers : /\ item[w] # NoItem /\ s \in heap
                                /\ item[w].session = s /\ ses'[s].logged_in = item[w].conn
    <3>1. PICK w \in Workers : /\ item[w] # NoItem /\ s \in heap
                               /\ item[w].session = s /\ ses'[s].logged_in = item[w].conn
      BY <2>2
    <3>2. c \in Conns /\ Own(s, c)
      BY <1>0, <3>1, ItemIs DEF OwnHeld
    <3> QED BY <1>1, <3>1, <3>2
  <2> QED BY <1>2, <2>1, <2>2
<1>3. CASE MainStep
  <2>1. ASSUME NEW c \in Conns, NEW f \in Fds, NEW t \in Heap, AcceptClient(c, f, t)
        PROVE  OwnUser'
    <3>1. /\ heap' = heap \cup {t} /\ ses'[t].logged_in = NoConn
          /\ \A s \in Heap \ {t} : ses'[s] = ses[s]
      BY <2>1 DEF AcceptClient, Good, Memory
    <3> QED BY <1>0, <1>2, <3>1
  <2>2. CASE heap' \subseteq heap /\ UNCHANGED ses
    BY <1>2, <2>2
  <2>3. \/ heap' \subseteq heap /\ UNCHANGED ses
        \/ \E c \in Conns, f \in Fds, t \in Heap : AcceptClient(c, f, t)
    BY <1>3 DEF MainStep, Poll, LoopEnds, SkipSlots, AcceptFails, RejectClient,
       AcceptOverrun, ReadSlot, Recv, Command, Disconnect, ReadFreed
  <2> QED BY <2>1, <2>2, <2>3
<1>4. ASSUME NEW w \in Workers, WorkerMoves(w) PROVE OwnUser'
  <2>1. /\ heap' = heap
        /\ \/ UNCHANGED ses
           \/ /\ item[w] # NoItem
              /\ \E who \in {item[w].conn, NoConn} :
                   ses' = [ses EXCEPT ![item[w].session].logged_in = who]
    BY <1>4, WorkerLeaves DEF Good
  <2>2. CASE UNCHANGED ses
    BY <1>2, <2>1, <2>2
  <2>3. ASSUME item[w] # NoItem, NEW who \in {item[w].conn, NoConn},
               ses' = [ses EXCEPT ![item[w].session].logged_in = who]
        PROVE  OwnUser'
    <3>1. \A s \in Heap : ses'[s].logged_in =
            IF s = item[w].session THEN who ELSE ses[s].logged_in
      BY <2>3 DEF Good, Memory
    <3> QED BY <1>0, <1>2, <2>1, <2>3, <3>1
  <2> QED BY <2>1, <2>2, <2>3
<1>5. CASE ClientStep \/ Ended \/ UNCHANGED vars
  <2>1. UNCHANGED <<heap, ses>>
    BY <1>5 DEF ClientStep, Connect, SendHalf, Close, Ended, vars
  <2> QED BY <1>2, <2>1
<1> QED BY <1>3, <1>4, <1>5 DEF PollNext

\* The answers the clients have received.
LEMMA OwnAnswersKeep ==
  ASSUME Good, Links, OwnSocket, OwnAnswers, answers \in [Conns -> Seq(Answers)],
         [PollNext]_vars, Alive'
  PROVE  OwnAnswers'
<1>1. \A c \in Conns : Over(c) => Over(c)'
  BY LinksKeep
<1>2. \A c \in Conns : \A k \in DOMAIN answers[c] : answers[c][k].conn \in Conns
  <2> TAKE c \in Conns
  <2> TAKE k \in DOMAIN answers[c]
  <2>1. answers[c] \in Seq(Answers)
    OBVIOUS
  <2>2. answers[c][k] \in Answers
    BY <2>1
  <2> QED BY <2>2 DEF Answers
<1>3. CASE UNCHANGED answers
  <2> SUFFICES ASSUME NEW c \in Conns, NEW k \in DOMAIN answers[c],
                      NEW d, d = answers[c][k].conn, d # c
               PROVE  Over(d)'
    BY <1>3 DEF OwnAnswers
  <2> QED BY <1>1, <1>2 DEF OwnAnswers
<1>4. ASSUME NEW w \in Workers, Reply(w) \/ ReplyBye(w), answers' # answers PROVE OwnAnswers'
  <2> DEFINE b == behind[wfd[w]]
             e == [conn |-> item[w].conn, n |-> item[w].n]
  <2>0. step[w] \in Sockets /\ item[w] # NoItem
    <3>1. step[w] \in Sockets
      BY <1>4 DEF Reply, ReplyBye, Sockets
    <3> QED BY <3>1, HasItem DEF Good, Sockets
  <2>1. item[w] # NoItem /\ answers' = [answers EXCEPT ![b] = Append(@, e)]
    BY <1>4, <2>0 DEF Reply, ReplyBye, Answer, Send
  <2>2. b \in Conns
    BY <1>4, <2>1
  <2>3. item[w] \in Items /\ e \in Answers /\ e.conn = item[w].conn /\ item[w].conn \in Conns
    <3>1. item[w] \in Items
      BY <2>1, QueuedAndDone
    <3>2. Cmd(item[w]) \in Answers /\ item[w].conn \in Conns
      BY <3>1, ItemIs
    <3> QED BY <3>1, <3>2 DEF Cmd
  <2>4. e.conn = b \/ Over(e.conn)
    BY <2>0 DEF OwnSocket
  <2> HIDE DEF b, e
  <2>5. \A c \in Conns : \A k \in DOMAIN answers'[c] :
          \/ k \in DOMAIN answers[c] /\ answers'[c][k] = answers[c][k]
          \/ c = b /\ answers'[c][k] = e
    <3> TAKE c \in Conns
    <3>1. answers[c] \in Seq(Answers)
      OBVIOUS
    <3>2. CASE c = b
      <4>1. answers'[c] = Append(answers[c], e)
        BY <2>1, <2>2, <3>2
      <4> QED BY <2>3, <3>1, <3>2, <4>1
    <3>3. CASE c # b
      BY <2>1, <3>3
    <3> QED BY <3>2, <3>3
  <2> SUFFICES ASSUME NEW c \in Conns, NEW k \in DOMAIN answers'[c],
                      NEW d, d = answers'[c][k].conn, d # c
               PROVE  Over(d)'
    BY DEF OwnAnswers
  <2>6. d \in Conns /\ Over(d)
    BY <1>2, <2>3, <2>4, <2>5 DEF OwnAnswers
  <2> QED BY <1>1, <2>6
<1>5. UNCHANGED answers \/ \E w \in Workers : Reply(w) \/ ReplyBye(w)
  <2>1. CASE MainStep \/ ClientStep \/ Ended \/ UNCHANGED vars
    BY <2>1 DEF MainStep, Poll, LoopEnds, SkipSlots, AcceptFails, RejectClient,
       AcceptClient, AcceptOverrun, ReadSlot, Recv, Command, Disconnect, ReadFreed,
       ClientStep, Connect, SendHalf, Close, Ended, vars
  <2>2. ASSUME NEW w \in Workers, WorkerMoves(w)
        PROVE  UNCHANGED answers \/ Reply(w) \/ ReplyBye(w)
    BY <2>2 DEF WorkerMoves, GetWork, Sleep, WakeUp, CheckActive, Inactive, LockSession,
       UnknownCommand, ReadSockfd, LogIn, LogOut, UseFreed
  <2> QED BY <2>1, <2>2 DEF PollNext
<1> QED BY <1>3, <1>4, <1>5

\* A session is logged in, and an answer received, by a command of another client only
\* when that client's connection is over: clients that are connected at the same time
\* do not get each other's sessions or answers, however descriptors and addresses are
\* used again.
THEOREM ClientsAreApartHolds == PollSpec => []ClientsAreApart
<1> DEFINE AInv == Alive => Apart
<1>1. Init => AInv
  <2> SUFFICES ASSUME Init PROVE Apart
    OBVIOUS
  <2>1. /\ answers = [c \in Conns |-> <<>>] /\ item = [w \in Workers |-> NoItem]
        /\ queue_count = 0 /\ heap = {} /\ backlog = {} /\ behind = [f \in Fds |-> NoConn]
    BY DEF Init, QueueInit
  <2>2. \A c \in Conns : DOMAIN answers[c] = {}
    BY <2>1
  <2>3. DOMAIN Queued = {}
    BY <2>1 DEF Queued
  <2> HIDE DEF Queued
  <2>4. step = [w \in Workers |-> "idle"]
    BY DEF Init
  <2> QED BY <2>1, <2>2, <2>3, <2>4 DEF Apart, Links, OwnQueued, OwnHeld, OwnSocket, Sockets,
             OwnUser, OwnAnswers
<1>2. CInv /\ CInv' /\ AInv /\ [PollNext]_vars => AInv'
  <2> SUFFICES ASSUME CInv, CInv', AInv, [PollNext]_vars, Alive' PROVE Apart'
    OBVIOUS
  <2>1. Alive
    BY AliveBefore
  <2>2. Good /\ Good' /\ Apart /\ answers \in [Conns -> Seq(Answers)]
    BY <2>1 DEF CInv, IInv, Commands
  <2>3. Links'
    BY <2>2, LinksKeep DEF Apart
  <2>4. OwnQueued' /\ OwnHeld'
    BY <2>1, <2>2, OwnItemsKeep DEF Apart
  <2>5. OwnUser'
    BY <2>2, OwnUserKeeps DEF Apart
  <2>6. OwnAnswers'
    BY <2>2, OwnAnswersKeep DEF Apart
  <2>7. OwnSocket'
    BY <2>2, OwnSocketKeeps DEF Apart
  <2> QED BY <2>3, <2>4, <2>5, <2>6, <2>7 DEF Apart
<1>3. AInv => ClientsAreApart
  BY DEF Apart, OwnUser, OwnAnswers, Own, Owner, ClientsAreApart
<1> HIDE DEF AInv
<1> QED BY <1>1, <1>2, <1>3, CommandsHold, PTL DEF PollSpec

-----------------------------------------------------------------------------
(* What main() waits for *)

\* main() comes to the listener only with the revents poll() has just written.
Fresh ==
  /\ at = "freed" => i # Listener
  /\ AtListener => backlog # {}

\* poll() has nothing to report.
Idle == at = "poll" /\ \A k \in 1..poll_count : ~Readable(k)

\* While main() sits in poll(), nobody waits for accept(), all that came in on open
\* descriptors has been read and cut into commands, and no client has gone without its
\* descriptor being closed; and accept() is called only for a client that has come.
MainMissesNothing == Alive =>
  /\ Idle =>
       /\ backlog = {} /\ buf = 0
       /\ \A f \in Fds \ FreeFds : rcvd[behind[f]] = sent[behind[f]] /\ peer[behind[f]] # "down"
  /\ AtListener => backlog # {}

LEMMA FreshKept ==
  ASSUME IInv, Alive, Alive', Fresh, [PollNext]_vars
  PROVE  Fresh'
<1> USE DEF Fresh, AtListener, Listener
<1>1. i \in Nat /\ i >= 1 /\ at \in {"poll", "loop", "recv", "freed"} /\ (at = "recv" => i # 1)
      /\ poll_fds \in [Slots -> [fd : Fds \cup {NoFd}, revents : BOOLEAN]]
      /\ 1 \in Slots /\ poll_count \in Nat /\ poll_count >= 1
  BY PollAssumption DEF IInv, Good, Main, Memory, Used, Slots
<1>2. CASE Poll
  <2>1. poll_fds'[1] = [poll_fds[1] EXCEPT !.revents = Readable(1)]
    BY <1>1, <1>2 DEF Poll
  <2>2. poll_fds'[1].revents = Readable(1) /\ at' = "loop" /\ i' = 1 /\ backlog' = backlog
    BY <1>1, <1>2, <2>1 DEF Poll, netVars
  <2> QED BY <2>2 DEF Readable
<1>3. CASE LoopEnds \/ ReadSlot \/ Recv \/ Command \/ Disconnect \/ ReadFreed
  BY <1>1, <1>3 DEF LoopEnds, ReadSlot, Recv, Command, Disconnect, ReadFreed, Alive
<1>4. CASE \/ SkipSlots \/ AcceptFails \/ (\E c \in Conns : RejectClient(c))
           \/ (\E c \in Conns, f \in Fds, s \in Heap : AcceptClient(c, f, s))
  <2>1. i' # 1 /\ at' = at /\ at # "freed"
    <3>1. CASE SkipSlots
      BY <1>1, <3>1 DEF SkipSlots
    <3>2. CASE AcceptFails
      BY <1>1, <3>2 DEF AcceptFails
    <3>3. ASSUME NEW c \in Conns, RejectClient(c) PROVE i' # 1 /\ at' = at /\ at # "freed"
      BY <1>1, <3>3 DEF RejectClient
    <3>4. ASSUME NEW c \in Conns, NEW f \in Fds, NEW s \in Heap, AcceptClient(c, f, s)
          PROVE  i' # 1 /\ at' = at /\ at # "freed"
      BY <1>1, <3>4 DEF AcceptClient
    <3> QED BY <1>4, <3>1, <3>2, <3>3, <3>4
  <2> QED BY <2>1
<1>5. CASE AcceptOverrun
  BY <1>5 DEF AcceptOverrun, Alive
<1>6. CASE \E w \in Workers : WorkerMoves(w)
  BY <1>6, WorkerLeaves DEF IInv, Good, netVars, pollVars, mainVars
<1>7. CASE ClientStep
  BY <1>7 DEF ClientStep, Connect, SendHalf, Close, pollVars, mainVars
<1>8. CASE Ended \/ UNCHANGED vars
  BY <1>8 DEF Ended, vars, netVars, pollVars, mainVars
<1> QED BY <1>2, <1>3, <1>4, <1>5, <1>6, <1>7, <1>8 DEF PollNext, MainStep

\* The slots poll() is given leave out no client, after any sequence of arrivals,
\* departures and shifts, and no command stays behind in a leftover: main() waits for
\* clients only when none has anything for it.
THEOREM MainMissesNothingHolds == PollSpec => []MainMissesNothing
<1> DEFINE FInv == Alive => Fresh
<1>1. Init => FInv
  BY DEF Init, Fresh, AtListener
<1>2. IInv /\ FInv /\ [PollNext]_vars => FInv'
  BY FreshKept, AliveBefore
<1>3. IInv /\ FInv => MainMissesNothing
  <2> SUFFICES ASSUME IInv, FInv, Alive PROVE MainMissesNothing
    BY DEF MainMissesNothing
  <2>1. Net /\ Memory /\ Arrays /\ Main /\ Fresh
    BY DEF IInv, Good
  <2>2. ASSUME Idle PROVE backlog = {} /\ buf = 0
    <3>1. 1 \in 1..poll_count
      BY <2>1 DEF Memory
    <3> QED BY <2>1, <2>2, <3>1 DEF Idle, Readable, Listener, Main
  <2>3. ASSUME Idle, NEW f \in Fds \ FreeFds
        PROVE  rcvd[behind[f]] = sent[behind[f]] /\ peer[behind[f]] # "down"
    <3>1. PICK k \in Used : poll_fds[k].fd = f
      BY <2>1 DEF Arrays
    <3>2. k \in 1..poll_count /\ k # Listener
      BY <2>1 DEF Memory, Used, Listener
    <3>3. behind[f] \in Conns
      BY <2>1 DEF Net, FreeFds
    <3>4. ~(sent[behind[f]] > rcvd[behind[f]]) /\ peer[behind[f]] # "down"
      BY <2>3, <3>1, <3>2 DEF Idle, Readable
    <3>5. sent[behind[f]] \in Nat /\ rcvd[behind[f]] \in Nat
          /\ rcvd[behind[f]] <= sent[behind[f]]
      BY <2>1, <3>3, PollAssumption DEF Net
    <3> QED BY <3>4, <3>5
  <2> QED BY <2>1, <2>2, <2>3 DEF MainMissesNothing, Fresh
<1> QED BY <1>1, <1>2, <1>3, InvHolds, PTL DEF PollSpec
==============================================================================
