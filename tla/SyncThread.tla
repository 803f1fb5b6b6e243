------------------------------ MODULE SyncThread ------------------------------
(***************************************************************************)
(* HW6/sync_thread.c: producers fill buff[] under put.mutex and announce   *)
(* each item under nready.mutex; one consumer waits for announcements and  *)
(* checks that item i has the value i.  The two critical sections of a     *)
(* producer are two steps: between them other producers may store and      *)
(* announce.                                                               *)
(***************************************************************************)
EXTENDS Naturals, FiniteSets

CONSTANTS
  Producers,  \* produce() threads
  nitems      \* items to produce

ASSUME SyncAssumption ==
  /\ IsFiniteSet(Producers)
  /\ nitems \in Nat

VARIABLES
  buff,
  nput,     \* put.nput
  nval,     \* put.nval
  nready,   \* nready.nready
  pc,       \* where each producer is
  count,    \* items each producer has produced
  i,        \* the consumer's loop variable
  consumer  \* where the consumer is

vars == <<buff, nput, nval, nready, pc, count, i, consumer>>

Init ==
  /\ buff = [k \in 0..nitems - 1 |-> 0]
  /\ nput = 0
  /\ nval = 0
  /\ nready = 0
  /\ pc = [p \in Producers |-> "store"]
  /\ count = [p \in Producers |-> 0]
  /\ i = 0
  /\ consumer = "loop"

\* Mutant: the array may be overrun by one.
StorePastEnd(p) ==
  /\ pc[p] = "store"
  /\ nput <= nitems
  /\ buff' = [buff EXCEPT ![nput] = nval]
  /\ nput' = nput + 1
  /\ nval' = nval + 1
  /\ pc' = [pc EXCEPT ![p] = "announce"]
  /\ UNCHANGED <<nready, count, i, consumer>>

\* The section under put.mutex.
Store(p) ==
  /\ pc[p] = "store"
  /\ nput < nitems
  /\ buff' = [buff EXCEPT ![nput] = nval]
  /\ nput' = nput + 1
  /\ nval' = nval + 1
  /\ pc' = [pc EXCEPT ![p] = "announce"]
  /\ UNCHANGED <<nready, count, i, consumer>>

\* Mutant: the turn that finds the array full is counted too.
ArrayFullCounted(p) ==
  /\ pc[p] = "store"
  /\ nput >= nitems
  /\ pc' = [pc EXCEPT ![p] = "done"]
  /\ count' = [count EXCEPT ![p] = @ + 1]
  /\ UNCHANGED <<buff, nput, nval, nready, i, consumer>>

ArrayFull(p) ==
  /\ pc[p] = "store"
  /\ nput >= nitems
  /\ pc' = [pc EXCEPT ![p] = "done"]
  /\ UNCHANGED <<buff, nput, nval, nready, count, i, consumer>>

\* Mutant: the count is tested after it was increased.
AnnounceLate(p) ==
  /\ pc[p] = "announce"
  /\ consumer' = IF nready + 1 = 0 /\ consumer = "wait" THEN "woken" ELSE consumer
  /\ nready' = nready + 1
  /\ count' = [count EXCEPT ![p] = @ + 1]
  /\ pc' = [pc EXCEPT ![p] = "store"]
  /\ UNCHANGED <<buff, nput, nval, i>>

\* The section under nready.mutex: only the first announcement signals.
Announce(p) ==
  /\ pc[p] = "announce"
  /\ consumer' = IF nready = 0 /\ consumer = "wait" THEN "woken" ELSE consumer
  /\ nready' = nready + 1
  /\ count' = [count EXCEPT ![p] = @ + 1]
  /\ pc' = [pc EXCEPT ![p] = "store"]
  /\ UNCHANGED <<buff, nput, nval, i>>

\* The consumer holds nready.mutex and finds nothing announced.
ConsumerWait ==
  /\ consumer \in {"loop", "woken"}
  /\ i < nitems
  /\ nready = 0
  /\ consumer' = "wait"
  /\ UNCHANGED <<buff, nput, nval, nready, pc, count, i>>

\* pthread_cond_wait() may return without a signal.
SpuriousWakeup ==
  /\ consumer = "wait"
  /\ consumer' = "woken"
  /\ UNCHANGED <<buff, nput, nval, nready, pc, count, i>>

\* Mutant: "if" in place of "while" before pthread_cond_wait().
ConsumerTakeUnchecked ==
  /\ consumer = "woken" \/ (consumer = "loop" /\ nready > 0)
  /\ i < nitems
  /\ nready' = nready - 1
  /\ consumer' = "check"
  /\ UNCHANGED <<buff, nput, nval, pc, count, i>>

ConsumerTake ==
  /\ consumer \in {"loop", "woken"}
  /\ i < nitems
  /\ nready > 0
  /\ nready' = nready - 1
  /\ consumer' = "check"
  /\ UNCHANGED <<buff, nput, nval, pc, count, i>>

\* The consumer reads buff[i] with no lock.
ConsumerCheck ==
  /\ consumer = "check"
  /\ i' = i + 1
  /\ consumer' = "loop"
  /\ UNCHANGED <<buff, nput, nval, nready, pc, count>>

ConsumerDone ==
  /\ consumer = "loop"
  /\ i >= nitems
  /\ consumer' = "done"
  /\ UNCHANGED <<buff, nput, nval, nready, pc, count, i>>

ProducerStep(p) == Store(p) \/ ArrayFull(p) \/ Announce(p)

ConsumerStep == ConsumerWait \/ ConsumerTake \/ ConsumerCheck \/ ConsumerDone

\* main() has joined every thread.
Joined == consumer = "done" /\ \A p \in Producers : pc[p] = "done"

Next ==
  \/ \E p \in Producers : ProducerStep(p)
  \/ ConsumerStep
  \/ SpuriousWakeup
  \/ Joined /\ UNCHANGED vars

Spec == Init /\ [][Next]_vars

\* Every runnable thread is eventually scheduled.
FairSpec ==
  /\ Spec
  /\ \A p \in Producers : WF_vars(ProducerStep(p))
  /\ WF_vars(ConsumerStep)

-----------------------------------------------------------------------------
(* Properties *)

\* Every variable stays in its range: no producer stores past the end of buff and
\* nready never counts more items than there are.
TypeOK ==
  /\ buff \in [0..nitems - 1 -> 0..nitems]
  /\ nput \in 0..nitems
  /\ nval \in 0..nitems
  /\ nready \in 0..nitems
  /\ pc \in [Producers -> {"store", "announce", "done"}]
  /\ count \in [Producers -> 0..nitems]
  /\ i \in 0..nitems
  /\ consumer \in {"loop", "wait", "woken", "check", "done"}

\* The check of the consumer never prints: the item it was promised is in place
\* although a producer announces after it has given up put.mutex, so that
\* announcements overtake each other.
ItemInPlace == consumer = "check" => i < nitems /\ buff[i] = i

\* Signalling only on the first announcement loses no wake-up, because there is
\* one consumer.
NoLostWakeup == consumer = "wait" => nready = 0

\* The items the counts stand for: the first count[p] of each producer p.
Counted == UNION {{p} \X (1..count[p]) : p \in Producers}

\* The counts main() prints add up to the number of items.
CountsAddUp == Joined => Cardinality(Counted) = nitems

\* Both kinds of thread return and main() joins them all.
Termination == <>Joined
==============================================================================
