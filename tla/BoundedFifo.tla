----------------------------- MODULE BoundedFifo -----------------------------
(***************************************************************************)
(* What a bounded queue between one producer and many consumers promises:  *)
(* items leave in the order in which they entered, each to one consumer,   *)
(* and at most Capacity of them wait.                                      *)
(***************************************************************************)
EXTENDS Naturals, Sequences

CONSTANTS Items, Capacity, Consumers, Nothing

VARIABLES
  queue,  \* the items that wait, oldest first
  holds   \* the item each consumer is working on

Init == queue = <<>> /\ holds = [c \in Consumers |-> Nothing]

Put(x) ==
  /\ Len(queue) < Capacity
  /\ queue' = Append(queue, x)
  /\ UNCHANGED holds

Get(c) ==
  /\ queue # <<>>
  /\ holds[c] = Nothing
  /\ holds' = [holds EXCEPT ![c] = Head(queue)]
  /\ queue' = Tail(queue)

Done(c) ==
  /\ holds[c] # Nothing
  /\ holds' = [holds EXCEPT ![c] = Nothing]
  /\ UNCHANGED queue

Next ==
  \/ \E x \in Items : Put(x)
  \/ \E c \in Consumers : Get(c) \/ Done(c)

Spec == Init /\ [][Next]_<<queue, holds>>
==============================================================================
