------------------------------ MODULE WorkQueue ------------------------------
(***************************************************************************)
(* The work queue of HW7/TCP_Server: a ring of Size slots between the poll *)
(* loop, which enqueues, and the worker threads, which sleep on queue_cond *)
(* while queue_count is 0.  Every access is made under queue_mutex, so a   *)
(* critical section is one step.                                           *)
(***************************************************************************)
EXTENDS Naturals, FiniteSets

CONSTANTS
  Workers,  \* the pool of worker_thread()s
  Items,    \* work items
  NoItem,   \* a worker that has none
  Size      \* slots of work_queue

ASSUME QueueAssumption ==
  /\ IsFiniteSet(Workers)
  /\ NoItem \notin Items
  /\ Size \in Nat \ {0}

VARIABLES
  work_queue,
  queue_front,
  queue_rear,
  queue_count,
  waiting,   \* workers blocked in pthread_cond_wait()
  item       \* the item each worker is processing

queueVars == <<work_queue, queue_front, queue_rear, queue_count, waiting, item>>

Indices == 0..Size - 1

Succ(i) == (i + 1) % Size

\* A slot of work_queue starts as zeroes: no session.
QueueInit ==
  /\ work_queue = [i \in Indices |-> NoItem]
  /\ queue_front = 0
  /\ queue_rear = 0
  /\ queue_count = 0
  /\ waiting = {}
  /\ item = [w \in Workers |-> NoItem]

\* Mutant: only the first item of an empty queue is signalled.
SignalFirst ==
  \/ (waiting = {} \/ queue_count > 0) /\ UNCHANGED waiting
  \/ queue_count = 0 /\ \E w \in waiting : waiting' = waiting \ {w}

\* Mutant: nobody is signalled.
SignalNobody == UNCHANGED waiting

\* pthread_cond_signal(): one of the waiting workers, if there is one, goes back
\* to compete for the mutex.
Signal ==
  \/ waiting = {} /\ UNCHANGED waiting
  \/ \E w \in waiting : waiting' = waiting \ {w}

\* Mutant: the item is stored at the front.
EnqueueAtFront(x) ==
  /\ queue_count < Size
  /\ work_queue' = [work_queue EXCEPT ![queue_front] = x]
  /\ queue_rear' = Succ(queue_rear)
  /\ queue_count' = queue_count + 1
  /\ Signal
  /\ UNCHANGED <<queue_front, item>>

\* enqueue_work() with room.
Enqueue(x) ==
  /\ queue_count < Size
  /\ work_queue' = [work_queue EXCEPT ![queue_rear] = x]
  /\ queue_rear' = Succ(queue_rear)
  /\ queue_count' = queue_count + 1
  /\ Signal
  /\ UNCHANGED <<queue_front, item>>

\* enqueue_work() without room: the command is dropped and nobody is told.
Drop ==
  /\ queue_count = Size
  /\ UNCHANGED queueVars

Runs(w) == w \notin waiting /\ item[w] = NoItem

\* worker_thread() finds the queue empty.
Wait(w) ==
  /\ Runs(w)
  /\ queue_count = 0
  /\ waiting' = waiting \cup {w}
  /\ UNCHANGED <<work_queue, queue_front, queue_rear, queue_count, item>>

\* pthread_cond_wait() may return without a signal.
SpuriousWakeup(w) ==
  /\ w \in waiting
  /\ waiting' = waiting \ {w}
  /\ UNCHANGED <<work_queue, queue_front, queue_rear, queue_count, item>>

\* Mutant: the front does not advance.
DequeueKeepsFront(w) ==
  /\ Runs(w)
  /\ queue_count > 0
  /\ item' = [item EXCEPT ![w] = work_queue[queue_front]]
  /\ queue_count' = queue_count - 1
  /\ UNCHANGED <<work_queue, queue_front, queue_rear, waiting>>

\* worker_thread() copies the front item.
Dequeue(w) ==
  /\ Runs(w)
  /\ queue_count > 0
  /\ item' = [item EXCEPT ![w] = work_queue[queue_front]]
  /\ queue_front' = Succ(queue_front)
  /\ queue_count' = queue_count - 1
  /\ UNCHANGED <<work_queue, queue_rear, waiting>>

\* The worker has processed its item.
Finish(w) ==
  /\ item[w] # NoItem
  /\ item' = [item EXCEPT ![w] = NoItem]
  /\ UNCHANGED <<work_queue, queue_front, queue_rear, queue_count, waiting>>

WorkerStep(w) == Wait(w) \/ Dequeue(w) \/ Finish(w)

Next ==
  \/ \E x \in Items : Enqueue(x)
  \/ Drop
  \/ \E w \in Workers : WorkerStep(w) \/ SpuriousWakeup(w)

Spec == QueueInit /\ [][Next]_queueVars

-----------------------------------------------------------------------------
(* Properties *)

\* The ring stays a ring: the three counters agree, so neither the reader nor
\* the writer ever leaves the array or meets a slot of the other.
QueueTypeOK ==
  /\ work_queue \in [Indices -> Items \cup {NoItem}]
  /\ queue_front \in Indices
  /\ queue_rear \in Indices
  /\ queue_count \in 0..Size
  /\ queue_rear = (queue_front + queue_count) % Size
  /\ waiting \subseteq Workers
  /\ item \in [Workers -> Items \cup {NoItem}]
  /\ \A w \in waiting : item[w] = NoItem

\* No wake-up is lost: while a worker sleeps, enough workers are awake to take
\* everything that waits.  A command never sits in the queue behind a slow one
\* while another worker could run it.
NoLostWakeup ==
  waiting # {} => Cardinality({w \in Workers : Runs(w)}) >= queue_count

\* The items that wait, oldest first.
Queued == [k \in 1..queue_count |-> work_queue[(queue_front + k - 1) % Size]]

Fifo == INSTANCE BoundedFifo WITH
          Capacity <- Size, Consumers <- Workers, Nothing <- NoItem,
          queue <- Queued, holds <- item

\* The ring, its counters and the condition variable implement a bounded queue.
ImplementsFifo == Fifo!Spec
==============================================================================
