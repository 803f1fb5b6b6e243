--------------------------- MODULE SyncThreadProofs ---------------------------
(***************************************************************************)
(* Proofs about SyncThread, for every number of producers and items.       *)
(***************************************************************************)
EXTENDS SyncThread, FiniteSetTheorems, TLAPS

\* Producers that have stored an item and not yet announced it.
Announcing == {p \in Producers : pc[p] = "announce"}

\* Items the consumer has taken; the one it is checking counts.
Taken == IF consumer = "check" THEN i + 1 ELSE i

\* What is counted is what was announced: what was taken and what is ready.
CountsAgree ==
  /\ count \in [Producers -> Nat]
  /\ IsFiniteSet(Counted)
  /\ Cardinality(Counted) = Taken + nready

\* The consumer leaves its loop after the last item.
DoneAtEnd == consumer = "done" => i >= nitems

\* Why ItemInPlace holds: items are stored in order, and what was stored is
\* exactly what was taken, is ready, or is still to be announced.
Ledger == nput = Taken + nready + Cardinality(Announcing)

Stored == nval = nput /\ \A k \in 0..nitems - 1 : k < nput => buff[k] = k

Ranges ==
  /\ buff \in [0..nitems - 1 -> 0..nitems]
  /\ nput \in 0..nitems
  /\ nready \in Nat
  /\ pc \in [Producers -> {"store", "announce", "done"}]
  /\ i \in Nat
  /\ consumer \in {"loop", "wait", "woken", "check", "done"}

IInv == Ranges /\ Stored /\ Ledger

-----------------------------------------------------------------------------
LEMMA AnnouncingFinite ==
  IsFiniteSet(Announcing) /\ Cardinality(Announcing) \in Nat
<1>1. Announcing \subseteq Producers
  BY DEF Announcing
<1> QED BY <1>1, SyncAssumption, FS_Subset, FS_CardinalityType

LEMMA InitInv == Init => IInv
<1> SUFFICES ASSUME Init PROVE IInv
  OBVIOUS
<1>1. Announcing = {}
  BY DEF Init, Announcing
<1>2. Cardinality(Announcing) = 0
  BY <1>1, FS_EmptySet
<1>3. Ranges /\ Stored
  BY SyncAssumption DEF Init, Ranges, Stored
<1>4. Ledger
  BY <1>2 DEF Init, Ledger, Taken
<1> QED BY <1>3, <1>4 DEF IInv

\* Each critical section moves one item along: stored, announced, taken, checked.
LEMMA NextInv == IInv /\ [Next]_vars => IInv'
<1> SUFFICES ASSUME IInv, [Next]_vars PROVE IInv'
  OBVIOUS
<1> USE DEF IInv
<1>0. nitems \in Nat /\ nput \in Nat /\ nready \in Nat /\ i \in Nat
      /\ Cardinality(Announcing) \in Nat
  BY SyncAssumption, AnnouncingFinite DEF Ranges
<1>1. ASSUME NEW p \in Producers, Store(p) PROVE IInv'
  <2>1. nput \in 0..nitems - 1 /\ nput + 1 \in 0..nitems
    BY <1>0, <1>1 DEF Store
  <2>2. /\ buff' = [buff EXCEPT ![nput] = nval]
        /\ nput' = nput + 1
        /\ nval' = nval + 1
        /\ pc' = [pc EXCEPT ![p] = "announce"]
        /\ pc[p] = "store"
        /\ UNCHANGED <<nready, i, consumer>>
    BY <1>1 DEF Store
  <2>3. Ranges'
    BY <1>0, <2>1, <2>2 DEF Ranges, Stored
  <2>4. Stored'
    BY <1>0, <2>1, <2>2 DEF Ranges, Stored
  <2>5. p \notin Announcing /\ Announcing' = Announcing \cup {p}
    BY <2>2 DEF Announcing, Ranges
  <2>6. Cardinality(Announcing') = Cardinality(Announcing) + 1
    BY <2>5, AnnouncingFinite, FS_AddElement
  <2>7. Taken' = Taken /\ Taken \in Nat
    BY <1>0, <2>2 DEF Taken
  <2>8. Ledger'
    BY <1>0, <2>2, <2>6, <2>7 DEF Ledger
  <2> QED BY <2>3, <2>4, <2>8
<1>2. ASSUME NEW p \in Producers, Announce(p) PROVE IInv'
  <2>1. /\ nready' = nready + 1
        /\ pc' = [pc EXCEPT ![p] = "store"]
        /\ pc[p] = "announce"
        /\ consumer' = (IF nready = 0 /\ consumer = "wait" THEN "woken" ELSE consumer)
        /\ UNCHANGED <<buff, nput, nval, i>>
    BY <1>2 DEF Announce
  <2>2. Ranges' /\ Stored'
    BY <1>0, <2>1 DEF Ranges, Stored
  <2>3. p \in Announcing /\ Announcing' = Announcing \ {p}
    BY <2>1 DEF Announcing, Ranges
  <2>4. Cardinality(Announcing') = Cardinality(Announcing) - 1
    BY <2>3, AnnouncingFinite, FS_RemoveElement
  <2>5. Taken' = Taken /\ Taken \in Nat
    BY <1>0, <2>1 DEF Taken
  <2>6. Ledger'
    BY <1>0, <2>1, <2>4, <2>5 DEF Ledger
  <2> QED BY <2>2, <2>6
<1>3. ASSUME NEW p \in Producers, ArrayFull(p) PROVE IInv'
  <2>1. Announcing' = Announcing
    BY <1>3 DEF ArrayFull, Announcing, Ranges
  <2>2. Ledger'
    BY <1>3, <2>1 DEF ArrayFull, Ledger, Taken
  <2> QED BY <1>3, <2>2 DEF ArrayFull, Ranges, Stored
<1>4. CASE ConsumerStep \/ SpuriousWakeup
  <2>1. Announcing' = Announcing /\ UNCHANGED <<buff, nput, nval, pc>>
    BY <1>4 DEF ConsumerStep, SpuriousWakeup, ConsumerWait, ConsumerTake, ConsumerCheck,
                ConsumerDone, Announcing
  <2>2. Ranges' /\ Stored'
    BY <1>0, <1>4, <2>1 DEF ConsumerStep, SpuriousWakeup, ConsumerWait, ConsumerTake,
                      ConsumerCheck, ConsumerDone, Ranges, Stored
  <2>3. Taken' + nready' = Taken + nready
    BY <1>0, <1>4 DEF ConsumerStep, SpuriousWakeup, ConsumerWait, ConsumerTake,
                      ConsumerCheck, ConsumerDone, Taken
  <2> QED BY <2>1, <2>2, <2>3 DEF Ledger
<1>5. CASE UNCHANGED vars
  BY <1>5 DEF vars, Ranges, Stored, Ledger, Taken, Announcing
<1> QED BY <1>1, <1>2, <1>3, <1>4, <1>5 DEF Next, ProducerStep

-----------------------------------------------------------------------------
(* The counts of the producers *)

LEMMA InitCounts == Init => CountsAgree /\ DoneAtEnd
<1> SUFFICES ASSUME Init PROVE CountsAgree /\ DoneAtEnd
  OBVIOUS
<1>1. Counted = {}
  BY DEF Init, Counted
<1>2. IsFiniteSet(Counted) /\ Cardinality(Counted) = 0
  BY <1>1, FS_EmptySet
<1> QED BY <1>2 DEF Init, CountsAgree, DoneAtEnd, Taken

\* An announcement adds one item to those of its producer.
LEMMA AnnounceCounts ==
  ASSUME CountsAgree, NEW p \in Producers, count' = [count EXCEPT ![p] = @ + 1]
  PROVE  /\ count' \in [Producers -> Nat]
         /\ IsFiniteSet(Counted')
         /\ Cardinality(Counted') = Cardinality(Counted) + 1
<1>1. count \in [Producers -> Nat] /\ IsFiniteSet(Counted)
  BY DEF CountsAgree
<1>2. /\ count' \in [Producers -> Nat] /\ count'[p] = count[p] + 1
      /\ \A q \in Producers : q # p => count'[q] = count[q]
  BY <1>1
<1> DEFINE e == <<p, count[p] + 1>>
<1>3. e \notin Counted
  <2>1. count[p] + 1 \notin 1..count[p]
    BY <1>1
  <2> QED BY <2>1 DEF Counted
<1>4. 1..count'[p] = 1..count[p] \cup {count[p] + 1}
  BY <1>1, <1>2
<1>5. Counted' = Counted \cup {e}
  <2>1. ASSUME NEW x \in Counted' PROVE x \in Counted \cup {e}
    <3>1. PICK q \in Producers : x \in {q} \X (1..count'[q])
      BY <2>1 DEF Counted
    <3>2. CASE q = p
      BY <1>4, <3>1, <3>2 DEF Counted
    <3>3. CASE q # p
      BY <1>2, <3>1, <3>3 DEF Counted
    <3> QED BY <3>2, <3>3
  <2>2. ASSUME NEW x \in Counted PROVE x \in Counted'
    <3>1. PICK q \in Producers : x \in {q} \X (1..count[q])
      BY <2>2 DEF Counted
    <3>2. CASE q = p
      BY <1>4, <3>1, <3>2 DEF Counted
    <3>3. CASE q # p
      BY <1>2, <3>1, <3>3 DEF Counted
    <3> QED BY <3>2, <3>3
  <2>3. e \in Counted'
    BY <1>4 DEF Counted
  <2> QED BY <2>1, <2>2, <2>3
<1>6. IsFiniteSet(Counted \cup {e}) /\ Cardinality(Counted \cup {e}) = Cardinality(Counted) + 1
  <2> HIDE DEF e
  <2> QED BY <1>1, <1>3, FS_AddElement
<1> QED BY <1>2, <1>5, <1>6

LEMMA NextCounts == IInv /\ CountsAgree /\ DoneAtEnd /\ [Next]_vars => CountsAgree' /\ DoneAtEnd'
<1> SUFFICES ASSUME IInv, CountsAgree, DoneAtEnd, [Next]_vars
             PROVE  CountsAgree' /\ DoneAtEnd'
  OBVIOUS
<1>0. nitems \in Nat /\ nready \in Nat /\ i \in Nat
  BY SyncAssumption DEF IInv, Ranges
<1>1. ASSUME NEW p \in Producers, Announce(p) PROVE CountsAgree' /\ DoneAtEnd'
  <2>1. /\ nready' = nready + 1 /\ i' = i
        /\ count' = [count EXCEPT ![p] = @ + 1]
        /\ consumer' = (IF nready = 0 /\ consumer = "wait" THEN "woken" ELSE consumer)
    BY <1>1 DEF Announce
  <2>2. Taken' = Taken /\ Taken \in Nat
    BY <1>0, <2>1 DEF Taken
  <2>3. /\ count' \in [Producers -> Nat] /\ IsFiniteSet(Counted')
        /\ Cardinality(Counted') = Cardinality(Counted) + 1
    BY <2>1, AnnounceCounts
  <2>4. Cardinality(Counted) = Taken + nready
    BY DEF CountsAgree
  <2>5. CountsAgree'
    BY <1>0, <2>1, <2>2, <2>3, <2>4 DEF CountsAgree
  <2> QED BY <2>1, <2>5 DEF DoneAtEnd
<1>2. ASSUME UNCHANGED <<count, nready, i, consumer>> PROVE CountsAgree' /\ DoneAtEnd'
  BY <1>2 DEF CountsAgree, DoneAtEnd, Counted, Taken
<1>3. CASE ConsumerStep \/ SpuriousWakeup
  <2>1. Taken' + nready' = Taken + nready /\ count' = count
    BY <1>0, <1>3 DEF ConsumerStep, SpuriousWakeup, ConsumerWait, ConsumerTake,
                      ConsumerCheck, ConsumerDone, Taken
  <2>2. Counted' = Counted
    BY <2>1 DEF Counted
  <2>3. CountsAgree'
    BY <2>1, <2>2 DEF CountsAgree
  <2>4. DoneAtEnd'
    BY <1>3 DEF DoneAtEnd, ConsumerStep, SpuriousWakeup, ConsumerWait, ConsumerTake,
                ConsumerCheck, ConsumerDone
  <2> QED BY <2>3, <2>4
<1> QED BY <1>1, <1>2, <1>3
        DEF Next, ProducerStep, Store, ArrayFull, vars

LEMMA InvHolds == Spec => [](IInv /\ CountsAgree /\ DoneAtEnd)
BY InitInv, NextInv, InitCounts, NextCounts, PTL DEF Spec

\* What is ready, and what any one producer has announced, was stored before.
LEMMA Bounds ==
  ASSUME IInv, CountsAgree
  PROVE  /\ i <= nitems /\ nready <= nitems
         /\ \A p \in Producers : count[p] \in 0..nitems
<1>1. /\ nitems \in Nat /\ nput \in Nat /\ nput <= nitems /\ nready \in Nat /\ i \in Nat
      /\ Cardinality(Announcing) \in Nat
  BY SyncAssumption, AnnouncingFinite DEF IInv, Ranges
<1>2. Taken \in Nat /\ i <= Taken
  BY <1>1 DEF Taken
<1>3. nput = Taken + nready + Cardinality(Announcing)
  BY DEF IInv, Ledger
<1>4. i <= nitems /\ nready <= nitems
  BY <1>1, <1>2, <1>3
<1>5. ASSUME NEW p \in Producers PROVE count[p] \in 0..nitems
  <2> DEFINE Own == {p} \X (1..count[p])
  <2>1. count[p] \in Nat
    BY DEF CountsAgree
  <2>2. IsFiniteSet(1..count[p]) /\ Cardinality(1..count[p]) = count[p]
    BY <2>1, FS_Interval
  <2>3. IsFiniteSet({p}) /\ Cardinality({p}) = 1
    BY FS_Singleton
  <2>4. Cardinality(Own) = 1 * count[p]
    BY <2>2, <2>3, FS_Product
  <2>5. Own \subseteq Counted
    BY DEF Counted
  <2>6. Cardinality(Own) <= Cardinality(Counted)
    <3> HIDE DEF Own
    <3> QED BY <2>5, FS_Subset DEF CountsAgree
  <2> QED BY <1>1, <1>2, <1>3, <2>1, <2>4, <2>6 DEF CountsAgree
<1> QED BY <1>4, <1>5

-----------------------------------------------------------------------------
\* No producer stores past the end of buff, and none of the counters of the program
\* ever passes the number of items.
THEOREM Typing == Spec => []TypeOK
<1>1. IInv /\ CountsAgree => TypeOK
  <2> SUFFICES ASSUME IInv, CountsAgree PROVE TypeOK
    OBVIOUS
  <2>1. \A k \in 0..nitems - 1 : buff[k] \in 0..nitems
    BY DEF IInv, Stored, Ranges
  <2> QED BY <2>1, Bounds, SyncAssumption DEF IInv, Ranges, Stored, CountsAgree, TypeOK
<1> QED BY <1>1, InvHolds, PTL

\* The consumer never finds a wrong value, with any number of producers.
THEOREM ItemInPlaceHolds == Spec => []ItemInPlace
<1>1. IInv => ItemInPlace
  <2> SUFFICES ASSUME IInv, consumer = "check" PROVE i < nitems /\ buff[i] = i
    BY DEF ItemInPlace
  <2>1. i \in Nat /\ nput \in Nat /\ nready \in Nat /\ nput <= nitems /\ nitems \in Nat
        /\ Cardinality(Announcing) \in Nat
    BY SyncAssumption, AnnouncingFinite DEF IInv, Ranges
  <2>2. i < nput
    BY <2>1 DEF IInv, Ledger, Taken
  <2> QED BY <2>1, <2>2 DEF IInv, Stored
<1> QED BY <1>1, InitInv, NextInv, PTL DEF Spec

\* When main() has joined every thread, the counts it prints add up to the number of
\* items: none was announced twice, and none was stored and not announced.
THEOREM CountsAddUpHolds == Spec => []CountsAddUp
<1>1. IInv /\ CountsAgree /\ DoneAtEnd => CountsAddUp
  <2> SUFFICES ASSUME IInv, CountsAgree, DoneAtEnd, Joined
               PROVE  Cardinality(Counted) = nitems
    BY DEF CountsAddUp
  <2>1. /\ nitems \in Nat /\ nput \in Nat /\ nput <= nitems /\ nready \in Nat /\ i \in Nat
        /\ Cardinality(Announcing) \in Nat
    BY SyncAssumption, AnnouncingFinite DEF IInv, Ranges
  <2>2. Taken = i /\ i >= nitems
    BY DEF Joined, DoneAtEnd, Taken
  <2>3. nput = Taken + nready + Cardinality(Announcing)
    BY DEF IInv, Ledger
  <2> QED BY <2>1, <2>2, <2>3 DEF CountsAgree
<1> QED BY <1>1, InvHolds, PTL

\* The consumer never sleeps while an item is ready.
THEOREM NoLostWakeupHolds == Spec => []NoLostWakeup
<1>1. Init => NoLostWakeup
  BY DEF Init, NoLostWakeup
<1>2. NoLostWakeup /\ [Next]_vars => NoLostWakeup'
  BY DEF NoLostWakeup, Next, vars, ProducerStep, ConsumerStep, SpuriousWakeup, Store,
         ArrayFull, Announce, ConsumerWait, ConsumerTake, ConsumerCheck, ConsumerDone
<1> QED BY <1>1, <1>2, PTL DEF Spec

-----------------------------------------------------------------------------
(* Why the program ends: nobody waits for nobody, and the steps run out. *)

\* The consumer that sleeps still lacks an item, and a producer returns only from a
\* full array.
LoopsEnd ==
  /\ consumer \in {"wait", "woken", "check"} => i < nitems
  /\ \A p \in Producers : pc[p] = "done" => nput >= nitems

LEMMA InitLoops == Init => LoopsEnd
BY DEF Init, LoopsEnd

LEMMA NextLoops == IInv /\ LoopsEnd /\ [Next]_vars => LoopsEnd'
<1> SUFFICES ASSUME IInv, LoopsEnd, [Next]_vars PROVE LoopsEnd'
  OBVIOUS
<1>0. nitems \in Nat /\ nput \in Nat /\ i \in Nat
      /\ pc \in [Producers -> {"store", "announce", "done"}]
  BY SyncAssumption DEF IInv, Ranges
<1>1. ASSUME NEW p \in Producers, ProducerStep(p) PROVE LoopsEnd'
  BY <1>0, <1>1 DEF ProducerStep, Store, ArrayFull, Announce, LoopsEnd
<1>2. CASE ConsumerStep \/ SpuriousWakeup
  BY <1>0, <1>2 DEF ConsumerStep, SpuriousWakeup, ConsumerWait, ConsumerTake,
                    ConsumerCheck, ConsumerDone, LoopsEnd
<1>3. CASE UNCHANGED vars
  BY <1>3 DEF vars, LoopsEnd
<1> QED BY <1>1, <1>2, <1>3 DEF Next

\* A consumer that sleeps sleeps on a producer that has not returned, and which is
\* never blocked itself.
ProducerIsAwaited == consumer = "wait" => \E p \in Producers : pc[p] # "done"

\* The consumer does not sleep when every producer has returned: what the last one
\* announced woke it up.  With no producer it would sleep for ever.
THEOREM ProducerIsAwaitedHolds ==
  ASSUME Producers # {}
  PROVE  Spec => []ProducerIsAwaited
<1>1. IInv /\ LoopsEnd /\ NoLostWakeup => ProducerIsAwaited
  <2> SUFFICES ASSUME IInv, LoopsEnd, NoLostWakeup, consumer = "wait",
                      \A p \in Producers : pc[p] = "done"
               PROVE  FALSE
    BY DEF ProducerIsAwaited
  <2>1. nitems \in Nat /\ nput \in Nat /\ nready \in Nat /\ i \in Nat
    BY SyncAssumption DEF IInv, Ranges
  <2>2. Announcing = {}
    BY DEF Announcing
  <2>3. Cardinality(Announcing) = 0
    BY <2>2, FS_EmptySet
  <2>4. nput >= nitems /\ i < nitems
    BY DEF LoopsEnd
  <2>5. nput = i
    BY <2>1, <2>3 DEF IInv, Ledger, Taken, NoLostWakeup
  <2> QED BY <2>1, <2>4, <2>5
<1> QED BY <1>1, InitInv, NextInv, InitLoops, NextLoops, NoLostWakeupHolds, PTL DEF Spec

Running == {p \in Producers : pc[p] # "done"}

\* How far the threads are from their ends together: two steps for each item to be
\* stored, two for each to be taken, one for each thread to return.
StepsLeft ==
  2 * (nitems - nput) + Cardinality(Announcing) + Cardinality(Running)
    + 2 * (nitems - i)
    + IF consumer \in {"loop", "wait", "woken"} THEN 1 ELSE 0

LEMMA RunningFinite == IsFiniteSet(Running) /\ Cardinality(Running) \in Nat
<1>1. Running \subseteq Producers
  BY DEF Running
<1> QED BY <1>1, SyncAssumption, FS_Subset, FS_CardinalityType

\* Every step brings the program closer to its end, but for going to sleep on the
\* condition variable and for waking up from it without a signal.
StepsRunOut ==
  [][\/ StepsLeft' < StepsLeft
     \/ (ConsumerWait \/ SpuriousWakeup) /\ StepsLeft' = StepsLeft]_vars

\* No thread of the program runs round for ever: main() can wait in pthread_join()
\* only as long as somebody sleeps or is not scheduled.
THEOREM StepsRunOutHolds == Spec => [](StepsLeft \in Nat) /\ StepsRunOut
<1>1. IInv /\ CountsAgree => StepsLeft \in Nat
  <2> SUFFICES ASSUME IInv, CountsAgree PROVE StepsLeft \in Nat
    OBVIOUS
  <2>1. /\ nitems \in Nat /\ nput \in Nat /\ nput <= nitems
        /\ i \in Nat /\ i <= nitems
    BY SyncAssumption, Bounds DEF IInv, Ranges
  <2> QED BY <2>1, AnnouncingFinite, RunningFinite DEF StepsLeft
<1>2. IInv /\ CountsAgree /\ [Next]_vars =>
        [\/ StepsLeft' < StepsLeft
         \/ (ConsumerWait \/ SpuriousWakeup) /\ StepsLeft' = StepsLeft]_vars
  <2> SUFFICES ASSUME IInv, CountsAgree, Next, ~ UNCHANGED vars
               PROVE  \/ StepsLeft' < StepsLeft
                      \/ (ConsumerWait \/ SpuriousWakeup) /\ StepsLeft' = StepsLeft
    OBVIOUS
  <2> DEFINE a == Cardinality(Announcing)
             r == Cardinality(Running)
  <2>0. /\ nitems \in Nat /\ nput \in Nat /\ i \in Nat /\ a \in Nat /\ r \in Nat
        /\ pc \in [Producers -> {"store", "announce", "done"}]
    BY SyncAssumption, AnnouncingFinite, RunningFinite DEF IInv, Ranges
  <2>1. ASSUME NEW p \in Producers, Store(p) PROVE StepsLeft' < StepsLeft
    <3>1. /\ p \notin Announcing /\ Announcing' = Announcing \cup {p}
          /\ Running' = Running
      BY <2>0, <2>1 DEF Store, Announcing, Running
    <3>2. Cardinality(Announcing') = a + 1 /\ Cardinality(Running') = r
      BY <3>1, AnnouncingFinite, FS_AddElement
    <3>3. nput' = nput + 1 /\ i' = i /\ consumer' = consumer
      BY <2>1 DEF Store
    <3> HIDE DEF a, r
    <3> QED BY <2>0, <3>2, <3>3 DEF StepsLeft, a, r
  <2>2. ASSUME NEW p \in Producers, ArrayFull(p) PROVE StepsLeft' < StepsLeft
    <3>1. /\ p \in Running /\ Running' = Running \ {p}
          /\ Announcing' = Announcing
      BY <2>0, <2>2 DEF ArrayFull, Announcing, Running
    <3>2. Cardinality(Running') = r - 1 /\ Cardinality(Announcing') = a
      BY <3>1, RunningFinite, FS_RemoveElement
    <3>3. nput' = nput /\ i' = i /\ consumer' = consumer
      BY <2>2 DEF ArrayFull
    <3> HIDE DEF a, r
    <3> QED BY <2>0, <3>2, <3>3 DEF StepsLeft, a, r
  <2>3. ASSUME NEW p \in Producers, Announce(p) PROVE StepsLeft' < StepsLeft
    <3>1. /\ p \in Announcing /\ Announcing' = Announcing \ {p}
          /\ Running' = Running
      BY <2>0, <2>3 DEF Announce, Announcing, Running
    <3>2. Cardinality(Announcing') = a - 1 /\ Cardinality(Running') = r
      BY <3>1, AnnouncingFinite, FS_RemoveElement
    <3>3. /\ nput' = nput /\ i' = i
          /\ consumer' \in {"loop", "wait", "woken"} <=> consumer \in {"loop", "wait", "woken"}
      BY <2>3 DEF Announce
    <3> HIDE DEF a, r
    <3> QED BY <2>0, <3>2, <3>3 DEF StepsLeft, a, r
  <2>4. CASE ConsumerStep \/ SpuriousWakeup
    <3>1. pc' = pc /\ nput' = nput
      BY <2>4 DEF ConsumerStep, SpuriousWakeup, ConsumerWait, ConsumerTake,
                  ConsumerCheck, ConsumerDone
    <3>2. Announcing' = Announcing /\ Running' = Running
      BY <3>1 DEF Announcing, Running
    <3>3. Cardinality(Announcing') = a /\ Cardinality(Running') = r
      BY <3>2
    <3> HIDE DEF a, r
    <3> QED BY <2>0, <2>4, <3>1, <3>3
            DEF StepsLeft, a, r, ConsumerStep, SpuriousWakeup, ConsumerWait,
                ConsumerTake, ConsumerCheck, ConsumerDone
  <2> QED BY <2>1, <2>2, <2>3, <2>4 DEF Next, ProducerStep
<1> QED BY <1>1, <1>2, InvHolds, PTL DEF Spec, StepsRunOut
==============================================================================
