--------------------------- MODULE DeliveryProofs ---------------------------
(***************************************************************************)
(* Proofs about EventDelivery, for any capacity, batch size, number of     *)
(* tries, faults, pushes and flushing threads.                             *)
(***************************************************************************)
EXTENDS EventDelivery, FiniteSetTheorems, TLAPS

USE DeliveryAssumption

Fates == {"none", "queued", "sending", "delivered", "failed", "lost", "dropped"}
FlushState == [pc : {"out", "look", "parked"}, late : BOOLEAN, owed : SUBSET Item, result : BOOLEAN]

-----------------------------------------------------------------------------
(* The inductive invariant. *)

\* The queue holds what is marked as queued and the worker what is marked as
\* being sent, each in the order of the pushes, the worker's before the queue's.
Placed ==
    /\ \A n \in Item : /\ fate[n] = "none" <=> n > pushed
                       /\ fate[n] = "queued" <=> \E i \in DOMAIN items : items[i] = n
                       /\ fate[n] = "sending" <=> \E i \in DOMAIN batch : batch[i] = n
    /\ \A i, j \in DOMAIN items : i < j => items[i] < items[j]
    /\ \A i, j \in DOMAIN batch : i < j => batch[i] < batch[j]
    /\ \A i \in DOMAIN batch, j \in DOMAIN items : batch[i] < items[j]

\* What is finished was pushed before all that is not.
FinishedFirst ==
    \A n \in Item : Finished(n) => /\ \A j \in DOMAIN items : n < items[j]
                                   /\ \A i \in DOMAIN batch : n < batch[i]

\* The flag says whether the worker has a batch in its hands or just had one.
BusyIsWorking ==
    /\ batch # <<>> => worker = "sink"
    /\ busy <=> worker \in {"sink", "done"}

\* The counter counts, and the queue is never over its capacity.
Counted ==
    /\ Len(items) <= AtLeastOne(Capacity)
    /\ dropped = Cardinality({n \in Item : fate[n] = "dropped"})

\* What a flush under way is owed was accepted, and is nowhere but in the
\* queue, in the worker's hands or finished.
OwedAccepted ==
    \A f \in Flushers : \A n \in flush[f].owed : fate[n] \in {"queued", "sending"} \/ Finished(n)

QueueInv == TypeOK /\ Placed /\ FinishedFirst /\ BusyIsWorking /\ Counted /\ OwedAccepted

-----------------------------------------------------------------------------
(* Helpers. *)

\* AtLeastOne is the code's max(1).
LEMMA AtLeastOneType == \A n \in Nat : AtLeastOne(n) \in Nat /\ AtLeastOne(n) >= 1
  BY DEF AtLeastOne

\* What a mark does to the fates.
LEMMA MarkFate ==
  ASSUME TypeOK, NEW ns, NEW f \in Fates, Mark(ns, f)
  PROVE  /\ fate' \in [Item -> Fates]
         /\ \A n \in Item : fate'[n] = IF n \in ns THEN f ELSE fate[n]
  BY DEF TypeOK, Mark, Fates

\* The batch that is taken and the queue that is left.
LEMMA TakenBatch ==
  ASSUME TypeOK, Take
  PROVE  /\ batch' \in Seq(Item) /\ items' \in Seq(Item)
         /\ BatchSize \in 1..Len(items)
         /\ Len(batch') = BatchSize /\ Len(items') = Len(items) - BatchSize
         /\ \A i \in 1..BatchSize : batch'[i] = items[i]
         /\ \A i \in 1..(Len(items) - BatchSize) : items'[i] = items[BatchSize + i]
         /\ batch' # <<>>
<1>1. items \in Seq(Item) /\ items # <<>> /\ Len(items) \in Nat /\ Len(items) >= 1
  BY DEF TypeOK, Take
<1>2. BatchSize \in 1..Len(items)
  BY <1>1, AtLeastOneType DEF BatchSize
<1>3. batch' = SubSeq(items, 1, BatchSize) /\ items' = SubSeq(items, BatchSize + 1, Len(items))
  BY DEF Take
<1> HIDE DEF BatchSize
<1>4. /\ batch' \in Seq(Item) /\ Len(batch') = BatchSize
      /\ \A i \in 1..BatchSize : batch'[i] = items[i]
  BY <1>1, <1>2, <1>3
<1>5. /\ items' \in Seq(Item) /\ Len(items') = Len(items) - BatchSize
      /\ \A i \in 1..(Len(items) - BatchSize) : items'[i] = items[BatchSize + i]
  BY <1>1, <1>2, <1>3
<1>6. batch' # <<>>
  BY <1>2, <1>4
<1> QED
  BY <1>2, <1>4, <1>5, <1>6

\* The items of a sequence.
LEMMA ItemsOfSeq == \A s \in Seq(Item), n \in Item : n \in ItemsOf(s) <=> \E i \in DOMAIN s : s[i] = n
  BY DEF ItemsOf

-----------------------------------------------------------------------------
(* Type correctness. *)

\* A sink that returns leaves a well-typed queue.
LEMMA SinkReturnsType ==
  ASSUME TypeOK, NEW o \in {"delivered", "failed", "lost"}, SinkReturns(o),
         UNCHANGED <<items, busy, closed, owned, pushed, dropped, flush>>
  PROVE  TypeOK'
<1>1. fate' \in [Item -> Fates]
  BY MarkFate DEF SinkReturns, Fates
<1>2. attempts' \in 0..(AtLeastOne(Tries) - 1)
  BY AtLeastOneType DEF SinkReturns
<1>3. batch' = <<>> /\ worker' = "done"
  BY DEF SinkReturns
<1> QED
  BY <1>1, <1>2, <1>3 DEF TypeOK, Fates

\* Waking the parked threads, and their own steps, leave well-typed flushes.
LEMMA WakeType ==
  ASSUME TypeOK, WakeFlushers
  PROVE  flush' \in [Flushers -> FlushState]
<1>1. \A f \in Flushers : flush[f] \in FlushState
  BY DEF TypeOK, FlushState
<1>2. \A f \in Flushers : [flush[f] EXCEPT !.pc = "look"] \in FlushState
  BY <1>1 DEF FlushState
<1> QED
  BY <1>1, <1>2 DEF WakeFlushers

\* So do the steps of a flush.
LEMMA FlushStepType ==
  ASSUME TypeOK, NEW f \in Flushers, FlushLooks(f) \/ DeadlinePasses(f) \/ FlusherWakes(f)
  PROVE  flush' \in [Flushers -> FlushState]
<1>1. flush \in [Flushers -> FlushState] /\ flush[f] \in FlushState
  BY DEF TypeOK, FlushState
<1>2. /\ [flush[f] EXCEPT !.pc = "look"] \in FlushState
      /\ [flush[f] EXCEPT !.pc = "parked"] \in FlushState
      /\ [flush[f] EXCEPT !.late = TRUE, !.pc = "look"] \in FlushState
      /\ Outside \in FlushState
      /\ [Outside EXCEPT !.result = ~busy] \in FlushState
  BY <1>1 DEF FlushState, Outside, TypeOK
<1>3. CASE FlushLooks(f)
  BY <1>1, <1>2, <1>3 DEF FlushLooks
<1>4. CASE DeadlinePasses(f)
  BY <1>1, <1>2, <1>4 DEF DeadlinePasses
<1>5. CASE FlusherWakes(f)
  BY <1>1, <1>2, <1>5 DEF FlusherWakes
<1> QED
  BY <1>3, <1>4, <1>5

\* A dropped push is counted once.
LEMMA DroppedOnce ==
  ASSUME TypeOK, Placed, Counted, Push, closed \/ Full
  PROVE  dropped' = Cardinality({n \in Item : fate'[n] = "dropped"})
<1> DEFINE D == {n \in Item : fate[n] = "dropped"}
           E == {n \in Item : fate'[n] = "dropped"}
<1>1. pushed + 1 \in Item /\ fate[pushed + 1] = "none" /\ Mark({pushed + 1}, "dropped") /\ dropped' = dropped + 1
  BY DEF Push, TypeOK, Placed, Item
<1>2. \A n \in Item : fate'[n] = IF n \in {pushed + 1} THEN "dropped" ELSE fate[n]
  BY <1>1, MarkFate DEF Fates
<1>3. E = D \cup {pushed + 1} /\ pushed + 1 \notin D
  BY <1>1, <1>2
<1>4. IsFiniteSet(D)
  <2>1. IsFiniteSet(Item)
    BY FS_Interval DEF Item
  <2> QED
    BY <2>1, FS_Subset
<1> HIDE DEF D, E
<1>5. Cardinality(E) = Cardinality(D) + 1
  BY <1>3, <1>4, FS_AddElement
<1>6. dropped = Cardinality(D)
  BY DEF D, Counted
<1> QED
  BY <1>1, <1>5, <1>6 DEF E

\* No more items are dropped than there are.
LEMMA DroppedBound ==
  ASSUME NEW S \in SUBSET Item
  PROVE  Cardinality(S) \in 0..MaxPushes
<1>1. IsFiniteSet(Item) /\ Cardinality(Item) = MaxPushes
  BY FS_Interval DEF Item
<1> QED
  BY <1>1, FS_Subset, FS_CardinalityType

\* The types are kept by every step.
LEMMA TypeNext ==
  ASSUME TypeOK, Placed, Counted, [Next]_vars
  PROVE  TypeOK'
<1>1. CASE UNCHANGED vars
  BY <1>1 DEF TypeOK, vars
<1>2. CASE Push
  <2>1. fate' \in [Item -> Fates] /\ pushed' \in 0..MaxPushes
    BY <1>2, MarkFate DEF Push, Fates, TypeOK
  <2>2. CASE closed \/ Full
    <3>1. dropped' \in 0..MaxPushes
      BY <1>2, <2>2, DroppedOnce, DroppedBound
    <3> QED
      BY <1>2, <2>1, <2>2, <3>1 DEF Push, TypeOK, Fates
  <2>3. CASE ~(closed \/ Full)
    <3>1. pushed + 1 \in Item /\ items' = Append(items, pushed + 1) /\ items \in Seq(Item)
      BY <1>2, <2>3 DEF Push, TypeOK, Item
    <3>2. items' \in Seq(Item)
      BY <3>1
    <3> QED
      BY <1>2, <2>1, <2>3, <3>2 DEF Push, TypeOK, Fates
  <2> QED
    BY <2>2, <2>3
<1>3. CASE Take
  <2>1. fate' \in [Item -> Fates]
    BY <1>3, MarkFate DEF Take, Fates
  <2> QED
    BY <1>3, <2>1, TakenBatch DEF TypeOK, Take, Fates
<1>4. CASE Park \/ Leave \/ WorkerWakes \/ DropQueue
  BY <1>4 DEF TypeOK, Park, Leave, WorkerWakes, DropQueue
<1>5. CASE Done
  <2>1. flush' \in [Flushers -> FlushState]
    BY <1>5, WakeType DEF TypeOK, Done, FlushState
  <2> QED
    BY <1>5, <2>1 DEF TypeOK, Done, FlushState
<1>6. CASE Accepted \/ Rejected \/ Loses
  BY <1>6, SinkReturnsType DEF Accepted, Rejected, Loses
<1>7. CASE TryFails
  <2>1. CASE SinkReturns("failed")
    BY <1>7, <2>1, SinkReturnsType DEF TryFails
  <2>2. CASE ~SinkReturns("failed")
    <3>1. /\ attempts + 1 < AtLeastOne(Tries) /\ attempts' = attempts + 1
          /\ UNCHANGED <<worker, batch, fate>>
      BY <1>7, <2>2 DEF TryFails
    <3>2. attempts' \in 0..(AtLeastOne(Tries) - 1)
      BY <3>1, AtLeastOneType DEF TypeOK
    <3> QED
      BY <1>7, <3>1, <3>2 DEF TypeOK, TryFails
  <2> QED
    BY <2>1, <2>2
<1>8. ASSUME NEW f \in Flushers, StartFlush(f)
      PROVE  TypeOK'
  BY <1>8 DEF TypeOK, StartFlush, Queued
<1>9. ASSUME NEW f \in Flushers, FlushLooks(f) \/ DeadlinePasses(f) \/ FlusherWakes(f)
      PROVE  TypeOK'
  <2>1. flush' \in [Flushers -> FlushState]
    BY <1>9, FlushStepType
  <2> QED
    BY <1>9, <2>1 DEF TypeOK, FlushLooks, DeadlinePasses, FlusherWakes, FlushState
<1> QED
  BY <1>1, <1>2, <1>3, <1>4, <1>5, <1>6, <1>7, <1>8, <1>9 DEF Next, WorkerStep, SinkStep

-----------------------------------------------------------------------------
(* The books are kept: one lemma for each way a step can move an item. *)

\* What neither moves an item nor marks one keeps the books.
LEMMA BooksUnchanged ==
  ASSUME QueueInv, UNCHANGED <<items, batch, pushed, dropped, fate>>
  PROVE  Placed' /\ FinishedFirst' /\ Counted'
  BY DEF QueueInv, Placed, FinishedFirst, Counted, Finished

\* A push.
LEMMA PushKeepsBooks ==
  ASSUME QueueInv, Push
  PROVE  Placed' /\ FinishedFirst' /\ Counted'
<1> DEFINE k == pushed + 1
<1>1. /\ items \in Seq(Item) /\ batch \in Seq(Item) /\ k \in Item /\ pushed' = k /\ batch' = batch
      /\ fate[k] = "none"
      /\ \A n \in Item : n \in Int
  BY DEF QueueInv, TypeOK, Placed, Push, Item
<1>2. \A n \in Item : fate[n] # "none" => n < k
  BY DEF QueueInv, Placed, TypeOK, Item
<1>3. CASE closed \/ Full
  <2>1. UNCHANGED items /\ Mark({k}, "dropped")
    BY <1>3 DEF Push
  <2>2. \A n \in Item : fate'[n] = IF n = k THEN "dropped" ELSE fate[n]
    BY <2>1, MarkFate DEF QueueInv, Fates
  <2>3. Placed'
    BY <1>1, <2>1, <2>2 DEF QueueInv, Placed, TypeOK, Item
  <2>4. FinishedFirst'
    BY <1>1, <2>1, <2>2 DEF QueueInv, FinishedFirst, Finished
  <2>5. Counted'
    BY <1>3, <2>1, DroppedOnce DEF QueueInv, Counted
  <2> QED
    BY <2>3, <2>4, <2>5
<1>4. CASE ~(closed \/ Full)
  <2>1. items' = Append(items, k) /\ Mark({k}, "queued") /\ dropped' = dropped
    BY <1>4 DEF Push
  <2>2. \A n \in Item : fate'[n] = IF n = k THEN "queued" ELSE fate[n]
    BY <2>1, MarkFate DEF QueueInv, Fates
  <2>3. /\ Len(items) \in Nat /\ Len(items') = Len(items) + 1
        /\ DOMAIN items = 1..Len(items) /\ DOMAIN items' = 1..(Len(items) + 1)
        /\ items'[Len(items) + 1] = k
        /\ \A i \in 1..Len(items) : items'[i] = items[i]
    BY <1>1, <2>1
  <2>4. \A i \in DOMAIN items : items[i] \in Item /\ items[i] < k
    <3>1. \A i \in DOMAIN items : items[i] \in Item
      BY <1>1
    <3>2. \A i \in DOMAIN items : fate[items[i]] = "queued"
      BY <3>1 DEF QueueInv, Placed
    <3> QED
      BY <1>2, <3>1, <3>2
  <2>5. \A i \in DOMAIN batch : batch[i] \in Item /\ batch[i] < k
    BY <1>1, <1>2 DEF QueueInv, Placed
  <2> HIDE DEF k
  <2>6. Placed'
    <3>1. \A n \in Item : fate'[n] = "none" <=> n > pushed'
      BY <1>1, <2>2 DEF QueueInv, Placed, TypeOK, Item, k
    <3>2. \A n \in Item : fate'[n] = "queued" <=> \E i \in DOMAIN items' : items'[i] = n
      <4> SUFFICES ASSUME NEW n \in Item
                   PROVE  fate'[n] = "queued" <=> \E i \in DOMAIN items' : items'[i] = n
        OBVIOUS
      <4>1. CASE n = k
        BY <2>2, <2>3, <4>1
      <4>2. CASE n # k
        <5>1. fate'[n] = "queued" <=> \E i \in DOMAIN items : items[i] = n
          BY <2>2, <4>2 DEF QueueInv, Placed
        <5> QED
          BY <2>3, <4>2, <5>1
      <4> QED
        BY <4>1, <4>2
    <3>3. \A n \in Item : fate'[n] = "sending" <=> \E i \in DOMAIN batch' : batch'[i] = n
      BY <1>1, <2>2, <2>5 DEF QueueInv, Placed
    <3>4. \A i, j \in DOMAIN items' : i < j => items'[i] < items'[j]
      <4>1. \A i, j \in 1..Len(items) : i < j => items[i] < items[j]
        BY <2>3 DEF QueueInv, Placed
      <4> QED
        BY <2>3, <2>4, <4>1
    <3>5. \A i \in DOMAIN batch', j \in DOMAIN items' : batch'[i] < items'[j]
      <4>1. \A i \in DOMAIN batch, j \in 1..Len(items) : batch[i] < items[j]
        BY <2>3 DEF QueueInv, Placed
      <4>2. \A j \in DOMAIN items' : j \in 1..Len(items) \/ j = Len(items) + 1
        BY <2>3
      <4>3. batch' = batch
        BY <1>1
      <4> QED
        BY <2>3, <2>5, <4>1, <4>2, <4>3
    <3> QED
      BY <1>1, <3>1, <3>2, <3>3, <3>4, <3>5 DEF QueueInv, Placed
  <2>7. FinishedFirst'
    <3> SUFFICES ASSUME NEW n \in Item, Finished(n)'
                 PROVE  /\ \A j \in DOMAIN items' : n < items'[j]
                        /\ \A i \in DOMAIN batch' : n < batch'[i]
      BY DEF FinishedFirst
    <3>1. Finished(n) /\ n < k
      BY <1>2, <2>2 DEF Finished, k
    <3>2. (\A j \in 1..Len(items) : n < items[j]) /\ (\A i \in DOMAIN batch : n < batch[i])
      BY <2>3, <3>1 DEF QueueInv, FinishedFirst
    <3> QED
      BY <1>1, <2>3, <3>1, <3>2
  <2>8. Counted'
    <3>1. {n \in Item : fate'[n] = "dropped"} = {n \in Item : fate[n] = "dropped"}
      BY <1>1, <2>2
    <3>2. Len(items') <= AtLeastOne(Capacity)
      BY <1>4, <2>3, AtLeastOneType DEF Full
    <3> QED
      BY <2>1, <3>1, <3>2 DEF QueueInv, Counted
  <2> QED
    BY <2>6, <2>7, <2>8
<1> QED
  BY <1>3, <1>4

\* A batch taken from the queue.
LEMMA TakeKeepsBooks ==
  ASSUME QueueInv, Take
  PROVE  Placed' /\ FinishedFirst' /\ Counted'
<1> DEFINE b == BatchSize
           L == Len(items)
<1>1. /\ items \in Seq(Item) /\ batch = <<>> /\ L \in Nat /\ DOMAIN items = 1..L
      /\ \A i \in 1..L : items[i] \in Item
      /\ \A n \in Item : n \in Int
      /\ UNCHANGED <<pushed, dropped>>
  <2>1. batch = <<>> /\ UNCHANGED <<pushed, dropped>>
    BY DEF QueueInv, BusyIsWorking, Take
  <2>2. items \in Seq(Item) /\ \A n \in Item : n \in Int
    BY DEF QueueInv, TypeOK, Item
  <2> QED
    BY <2>1, <2>2
<1>2. /\ b \in 1..L /\ DOMAIN batch' = 1..b /\ DOMAIN items' = 1..(L - b)
      /\ \A i \in 1..b : batch'[i] = items[i]
      /\ \A i \in 1..(L - b) : items'[i] = items[b + i]
      /\ batch' \in Seq(Item) /\ Len(items') = L - b
  BY TakenBatch DEF QueueInv
<1>3. \A n \in Item : fate'[n] = IF \E i \in DOMAIN batch' : batch'[i] = n THEN "sending" ELSE fate[n]
  <2>1. Mark(ItemsOf(batch'), "sending")
    BY DEF Take
  <2> QED
    BY <1>2, <2>1, MarkFate, ItemsOfSeq DEF QueueInv, Fates
<1> HIDE DEF b, L
<1>4. \A i \in 1..L, j \in 1..L : i < j => items[i] < items[j]
  BY <1>1 DEF QueueInv, Placed
<1>5. \A i \in 1..(L - b) : b + i \in 1..L
  BY <1>1, <1>2
<1>6. \A n \in Item : (\E i \in 1..b : items[i] = n) => fate[n] = "queued" /\ ~\E i \in 1..(L - b) : items[b + i] = n
  <2> SUFFICES ASSUME NEW n \in Item, NEW i \in 1..b, items[i] = n
               PROVE  fate[n] = "queued" /\ ~\E j \in 1..(L - b) : items[b + j] = n
    OBVIOUS
  <2>1. i \in 1..L
    BY <1>1, <1>2
  <2>2. fate[n] = "queued"
    BY <1>1, <2>1 DEF QueueInv, Placed
  <2>3. \A j \in 1..(L - b) : items[i] < items[b + j]
    BY <1>1, <1>2, <1>4, <1>5, <2>1
  <2> QED
    BY <1>1, <1>5, <2>1, <2>2, <2>3
<1>7. \A n \in Item : fate[n] = "queued" => (\E i \in 1..b : items[i] = n) \/ (\E i \in 1..(L - b) : items[b + i] = n)
  <2> SUFFICES ASSUME NEW n \in Item, fate[n] = "queued"
               PROVE  (\E i \in 1..b : items[i] = n) \/ (\E i \in 1..(L - b) : items[b + i] = n)
    OBVIOUS
  <2>1. PICK i \in 1..L : items[i] = n
    BY <1>1 DEF QueueInv, Placed
  <2>2. CASE i <= b
    BY <1>1, <1>2, <2>1, <2>2
  <2>3. CASE i > b
    <3>1. i - b \in 1..(L - b) /\ b + (i - b) = i
      BY <1>1, <1>2, <2>3
    <3> QED
      BY <2>1, <3>1
  <2> QED
    BY <1>1, <1>2, <2>2, <2>3
<1>8. Placed'
  <2>1. \A n \in Item : fate'[n] = "none" <=> n > pushed'
    <3>1. \A n \in Item : fate'[n] = "none" <=> fate[n] = "none"
      BY <1>2, <1>3, <1>6
    <3> QED
      BY <1>1, <3>1 DEF QueueInv, Placed
  <2>2. \A n \in Item : fate'[n] = "queued" <=> \E i \in DOMAIN items' : items'[i] = n
    <3> SUFFICES ASSUME NEW n \in Item
                 PROVE  fate'[n] = "queued" <=> \E i \in 1..(L - b) : items[b + i] = n
      BY <1>2
    <3>1. CASE \E i \in 1..b : items[i] = n
      BY <1>2, <1>3, <1>6, <3>1
    <3>2. CASE ~\E i \in 1..b : items[i] = n
      <4>1. fate'[n] = fate[n]
        BY <1>2, <1>3, <3>2
      <4>2. (\E i \in 1..(L - b) : items[b + i] = n) => fate[n] = "queued"
        BY <1>1, <1>5 DEF QueueInv, Placed
      <4> QED
        BY <1>7, <3>2, <4>1, <4>2
    <3> QED
      BY <3>1, <3>2
  <2>3. \A n \in Item : fate'[n] = "sending" <=> \E i \in DOMAIN batch' : batch'[i] = n
    <3>1. \A n \in Item : fate[n] # "sending"
      BY <1>1 DEF QueueInv, Placed
    <3> QED
      BY <1>3, <3>1
  <2>4. \A i, j \in DOMAIN items' : i < j => items'[i] < items'[j]
    BY <1>1, <1>2, <1>4, <1>5
  <2>5. \A i, j \in DOMAIN batch' : i < j => batch'[i] < batch'[j]
    BY <1>1, <1>2, <1>4
  <2>6. \A i \in DOMAIN batch', j \in DOMAIN items' : batch'[i] < items'[j]
    <3>1. \A i \in 1..b, j \in 1..(L - b) : i \in 1..L /\ b + j \in 1..L /\ i < b + j
      BY <1>1, <1>2
    <3> QED
      BY <1>2, <1>4, <3>1
  <2> QED
    BY <2>1, <2>2, <2>3, <2>4, <2>5, <2>6 DEF Placed
<1>9. FinishedFirst'
  <2> SUFFICES ASSUME NEW n \in Item, Finished(n)'
               PROVE  /\ \A j \in DOMAIN items' : n < items'[j]
                      /\ \A i \in DOMAIN batch' : n < batch'[i]
    BY DEF FinishedFirst
  <2>1. Finished(n)
    BY <1>3 DEF Finished
  <2>2. \A i \in 1..L : n < items[i]
    BY <1>1, <2>1 DEF QueueInv, FinishedFirst
  <2> QED
    BY <1>1, <1>2, <1>5, <2>2
<1>10. Counted'
  <2>1. {n \in Item : fate'[n] = "dropped"} = {n \in Item : fate[n] = "dropped"}
    BY <1>2, <1>3, <1>6
  <2>2. Len(items') <= AtLeastOne(Capacity)
    BY <1>1, <1>2, AtLeastOneType DEF QueueInv, Counted, L
  <2> QED
    BY <1>1, <2>1, <2>2 DEF QueueInv, Counted
<1> QED
  BY <1>8, <1>9, <1>10

\* A batch the sink is done with.
LEMMA ReturnKeepsBooks ==
  ASSUME QueueInv, NEW o \in {"delivered", "failed", "lost"}, SinkReturns(o),
         UNCHANGED <<items, pushed, dropped>>
  PROVE  Placed' /\ FinishedFirst' /\ Counted'
<1>1. batch \in Seq(Item) /\ batch' = <<>> /\ \A n \in Item : n \in Int
  BY DEF QueueInv, TypeOK, SinkReturns, Item
<1>2. \A n \in Item : fate'[n] = IF fate[n] = "sending" THEN o ELSE fate[n]
  <2>1. Mark(ItemsOf(batch), o)
    BY DEF SinkReturns
  <2>2. \A n \in Item : n \in ItemsOf(batch) <=> fate[n] = "sending"
    BY <1>1, ItemsOfSeq DEF QueueInv, Placed
  <2> QED
    BY <2>1, <2>2, MarkFate DEF QueueInv, Fates
<1>3. Placed'
  BY <1>1, <1>2 DEF QueueInv, Placed
<1>4. FinishedFirst'
  BY <1>1, <1>2 DEF QueueInv, FinishedFirst, Finished, Placed
<1>5. Counted'
  <2>1. {n \in Item : fate'[n] = "dropped"} = {n \in Item : fate[n] = "dropped"}
    BY <1>2
  <2> QED
    BY <2>1 DEF QueueInv, Counted
<1> QED
  BY <1>3, <1>4, <1>5

\* A step that marks nothing but what it moves keeps what a flush is owed.
LEMMA OwedKept ==
  ASSUME QueueInv,
         \A n \in Item : fate[n] \in {"queued", "sending"} \/ Finished(n)
                           => fate'[n] \in {"queued", "sending"} \/ Finished(n)',
         \A f \in Flushers : flush'[f].owed \subseteq flush[f].owed
  PROVE  OwedAccepted'
<1>1. \A f \in Flushers : flush[f].owed \subseteq Item
  BY DEF QueueInv, TypeOK
<1> QED
  BY <1>1 DEF QueueInv, OwedAccepted

-----------------------------------------------------------------------------
(* The invariant is inductive. *)

\* The queue starts empty.
LEMMA QueueInit == Init => QueueInv
<1> SUFFICES ASSUME Init PROVE QueueInv
  OBVIOUS
<1>1. TypeOK
  <2>1. attempts \in 0..(AtLeastOne(Tries) - 1)
    BY AtLeastOneType DEF Init
  <2>2. Outside \in FlushState
    BY DEF Outside, FlushState
  <2>3. flush \in [Flushers -> FlushState]
    BY <2>2 DEF Init
  <2>4. worker \in {"look", "none"} /\ closed \in BOOLEAN
    BY DEF Init
  <2>5. busy \in BOOLEAN /\ owned \in BOOLEAN
    BY DEF Init
  <2>6. items = <<>> /\ batch = <<>>
    BY DEF Init
  <2>7. pushed \in 0..MaxPushes /\ dropped \in 0..MaxPushes
    BY DEF Init
  <2>8. fate \in [Item -> Fates]
    BY DEF Init, Fates
  <2> QED
    BY <2>1, <2>3, <2>4, <2>5, <2>6, <2>7, <2>8 DEF TypeOK, FlushState, Fates
<1>2. Placed /\ FinishedFirst /\ BusyIsWorking /\ OwedAccepted
  BY DEF Init, Placed, FinishedFirst, Finished, BusyIsWorking, OwedAccepted, Outside, Item
<1>3. Counted
  <2>1. {n \in Item : fate[n] = "dropped"} = {}
    BY DEF Init
  <2>2. Len(items) <= AtLeastOne(Capacity)
    BY AtLeastOneType DEF Init
  <2> QED
    BY <2>1, <2>2, FS_EmptySet DEF Init, Counted
<1> QED
  BY <1>1, <1>2, <1>3 DEF QueueInv

\* Every step of the threads and the worker keeps the invariant.
LEMMA QueueNext ==
  ASSUME QueueInv, [Next]_vars
  PROVE  QueueInv'
<1>0. TypeOK'
  BY TypeNext DEF QueueInv
<1>1. CASE UNCHANGED vars
  BY <1>1 DEF QueueInv, TypeOK, Placed, FinishedFirst, Finished, BusyIsWorking, Counted, OwedAccepted, vars
<1>2. CASE Push
  <2>1. BusyIsWorking'
    BY <1>2 DEF QueueInv, BusyIsWorking, Push
  <2>2. OwedAccepted'
    <3>1. fate[pushed + 1] = "none"
      BY <1>2 DEF Push, QueueInv, TypeOK, Placed, Item
    <3>2. \A n \in Item : n # pushed + 1 => fate'[n] = fate[n]
      BY <1>2, MarkFate DEF Push, QueueInv, Fates
    <3>3. flush' = flush
      BY <1>2 DEF Push
    <3> QED
      BY <3>1, <3>2, <3>3, OwedKept DEF Finished
  <2> QED
    BY <1>0, <1>2, <2>1, <2>2, PushKeepsBooks DEF QueueInv
<1>3. CASE Take
  <2>1. BusyIsWorking'
    BY <1>3 DEF BusyIsWorking, Take
  <2>2. OwedAccepted'
    <3>1. \A n \in Item : fate'[n] = fate[n] \/ fate'[n] = "sending"
      BY <1>3, MarkFate DEF Take, QueueInv, Fates
    <3>2. flush' = flush
      BY <1>3 DEF Take
    <3> QED
      BY <3>1, <3>2, OwedKept DEF Finished
  <2> QED
    BY <1>0, <1>3, <2>1, <2>2, TakeKeepsBooks DEF QueueInv
<1>4. ASSUME NEW o \in {"delivered", "failed", "lost"}, SinkReturns(o), worker = "sink",
             UNCHANGED <<items, busy, closed, owned, pushed, dropped, flush>>
      PROVE  QueueInv'
  <2>1. BusyIsWorking'
    BY <1>4 DEF QueueInv, BusyIsWorking, SinkReturns
  <2>2. OwedAccepted'
    <3>1. \A n \in Item : fate'[n] = fate[n] \/ fate'[n] = o
      BY <1>4, MarkFate DEF SinkReturns, QueueInv, Fates
    <3> QED
      BY <1>4, <3>1, OwedKept DEF Finished
  <2> QED
    BY <1>0, <1>4, <2>1, <2>2, ReturnKeepsBooks DEF QueueInv
<1>5. CASE SinkStep
  <2>1. CASE Accepted \/ Rejected \/ Loses
    BY <1>4, <2>1 DEF Accepted, Rejected, Loses
  <2>2. CASE TryFails
    <3>1. CASE SinkReturns("failed")
      BY <1>4, <2>2, <3>1 DEF TryFails
    <3>2. CASE UNCHANGED <<worker, batch, fate>>
      <4>1. Placed' /\ FinishedFirst' /\ Counted'
        BY <2>2, <3>2, BooksUnchanged DEF TryFails
      <4>2. BusyIsWorking' /\ OwedAccepted'
        BY <2>2, <3>2 DEF TryFails, QueueInv, BusyIsWorking, OwedAccepted, Finished
      <4> QED
        BY <1>0, <4>1, <4>2 DEF QueueInv
    <3> QED
      BY <2>2, <3>1, <3>2 DEF TryFails
  <2> QED
    BY <1>5, <2>1, <2>2 DEF SinkStep
<1>6. CASE Park \/ Leave \/ WorkerWakes \/ DropQueue
  <2>1. Placed' /\ FinishedFirst' /\ Counted'
    BY <1>6, BooksUnchanged DEF Park, Leave, WorkerWakes, DropQueue
  <2>2. BusyIsWorking' /\ OwedAccepted'
    BY <1>6 DEF Park, Leave, WorkerWakes, DropQueue, QueueInv, BusyIsWorking, OwedAccepted, Finished
  <2> QED
    BY <1>0, <2>1, <2>2 DEF QueueInv
<1>7. CASE Done
  <2>1. Placed' /\ FinishedFirst' /\ Counted'
    BY <1>7, BooksUnchanged DEF Done
  <2>2. BusyIsWorking'
    BY <1>7 DEF Done, QueueInv, BusyIsWorking
  <2>3. \A f \in Flushers : flush'[f].owed = flush[f].owed
    BY <1>7 DEF Done, WakeFlushers, QueueInv, TypeOK
  <2>4. OwedAccepted'
    BY <1>7, <2>3, OwedKept DEF Done, Finished
  <2> QED
    BY <1>0, <2>1, <2>2, <2>4 DEF QueueInv
<1>8. ASSUME NEW f \in Flushers, StartFlush(f) \/ FlushLooks(f) \/ DeadlinePasses(f) \/ FlusherWakes(f)
      PROVE  QueueInv'
  <2>1. UNCHANGED <<items, busy, worker, batch, pushed, dropped, fate>>
    BY <1>8 DEF StartFlush, FlushLooks, DeadlinePasses, FlusherWakes
  <2>2. Placed' /\ FinishedFirst' /\ Counted'
    BY <2>1, BooksUnchanged
  <2>3. BusyIsWorking'
    BY <2>1 DEF QueueInv, BusyIsWorking
  <2>4. CASE StartFlush(f)
    <3>1. \A g \in Flushers : flush'[g].owed = flush[g].owed \/ flush'[g].owed = Queued
      BY <2>4 DEF StartFlush, QueueInv, TypeOK
    <3>2. OwedAccepted'
      BY <2>1, <3>1 DEF QueueInv, OwedAccepted, Queued, Finished
    <3> QED
      BY <1>0, <2>2, <2>3, <3>2 DEF QueueInv
  <2>5. CASE ~StartFlush(f)
    <3>1. \A g \in Flushers : flush'[g].owed = flush[g].owed \/ flush'[g].owed = {}
      <4>1. flush \in [Flushers -> FlushState]
        BY DEF QueueInv, TypeOK, FlushState
      <4>2. CASE FlushLooks(f)
        BY <4>1, <4>2 DEF FlushLooks, Outside, FlushState
      <4>3. CASE DeadlinePasses(f)
        BY <4>1, <4>3 DEF DeadlinePasses, Outside, FlushState
      <4>4. CASE FlusherWakes(f)
        BY <4>1, <4>4 DEF FlusherWakes, Outside, FlushState
      <4> QED
        BY <1>8, <2>5, <4>2, <4>3, <4>4
    <3>2. OwedAccepted'
      BY <2>1, <3>1 DEF QueueInv, OwedAccepted, Finished
    <3> QED
      BY <1>0, <2>2, <2>3, <3>2 DEF QueueInv
  <2> QED
    BY <2>4, <2>5
<1> QED
  BY <1>1, <1>2, <1>3, <1>5, <1>6, <1>7, <1>8 DEF Next, WorkerStep

-----------------------------------------------------------------------------
(* What it gives. *)

\* In a sequence that grows a value sits at one place at most.
LEMMA OnePlace ==
  ASSUME NEW s \in Seq(Item), NEW n \in Item,
         \A i, j \in DOMAIN s : i < j => s[i] < s[j]
  PROVE  Cardinality({i \in DOMAIN s : s[i] = n}) = IF \E i \in DOMAIN s : s[i] = n THEN 1 ELSE 0
<1>1. CASE \E i \in DOMAIN s : s[i] = n
  <2>1. PICK i \in DOMAIN s : s[i] = n
    BY <1>1
  <2>2. \A j \in DOMAIN s : s[j] = n => j = i
    BY <2>1 DEF Item
  <2>3. {j \in DOMAIN s : s[j] = n} = {i}
    BY <2>1, <2>2
  <2> QED
    BY <1>1, <2>3, FS_Singleton
<1>2. CASE ~\E i \in DOMAIN s : s[i] = n
  <2>1. {j \in DOMAIN s : s[j] = n} = {}
    BY <1>2
  <2> QED
    BY <1>2, <2>1, FS_EmptySet
<1> QED
  BY <1>1, <1>2

\* The invariant implies what the run checks.
LEMMA QueueImplies == QueueInv => DeliveryInv
<1> SUFFICES ASSUME QueueInv PROVE DeliveryInv
  OBVIOUS
<1>1. Accounted
  <2>1. \A n \in Item : (fate[n] = "none") = (n > pushed)
    BY DEF QueueInv, Placed
  <2>2. \A n \in Item : Cardinality({i \in DOMAIN items : items[i] = n}) = (IF fate[n] = "queued" THEN 1 ELSE 0)
    BY OnePlace DEF QueueInv, Placed, TypeOK
  <2>3. \A n \in Item : Cardinality({i \in DOMAIN batch : batch[i] = n}) = (IF fate[n] = "sending" THEN 1 ELSE 0)
    BY OnePlace DEF QueueInv, Placed, TypeOK
  <2> QED
    BY <2>1, <2>2, <2>3 DEF QueueInv, Counted, Accounted
<1>2. InOrder
  <2> SUFFICES ASSUME NEW a \in Item, NEW b \in Item, a < b, Finished(b), fate[a] # "dropped"
               PROVE  Finished(a)
    BY DEF InOrder
  <2>1. b <= pushed /\ fate[a] # "none"
    BY DEF QueueInv, Placed, TypeOK, Finished, Item
  <2>2. fate[a] # "queued" /\ fate[a] # "sending"
    BY DEF QueueInv, Placed, FinishedFirst, Item
  <2> QED
    BY <2>1, <2>2 DEF QueueInv, TypeOK, Finished
<1> QED
  BY <1>1, <1>2 DEF DeliveryInv, QueueInv

\* The queue as its callers rely on it, for any capacity, batch size and sink
\* (Queue::push, run, deliver).
THEOREM Delivery == Spec => []DeliveryInv
  BY QueueInit, QueueNext, QueueImplies, PTL DEF Spec

\* A flush that reports success has waited for all that was accepted before it
\* (Queue::flush, deliver).
THEOREM FlushIsTruthful == Spec => FlushTruthful
<1>1. ASSUME QueueInv, [Next]_vars, NEW f \in Flushers,
             flush[f].pc # "out", flush'[f].pc = "out", flush'[f].result,
             NEW n \in flush[f].owed
      PROVE  Finished(n)
  <2>1. flush[f] \in FlushState
    BY <1>1 DEF QueueInv, TypeOK, FlushState
  <2>2. FlushLooks(f)
    <3>1. flush'[f].pc # flush[f].pc
      BY <1>1
    <3>2. ASSUME NEW g \in Flushers, g # f,
                 StartFlush(g) \/ FlushLooks(g) \/ DeadlinePasses(g) \/ FlusherWakes(g)
          PROVE  flush'[f] = flush[f]
      BY <1>1, <3>2 DEF StartFlush, FlushLooks, DeadlinePasses, FlusherWakes, QueueInv, TypeOK
    <3>3. ~StartFlush(f) /\ ~DeadlinePasses(f) /\ ~FlusherWakes(f)
      BY <1>1 DEF StartFlush, DeadlinePasses, FlusherWakes, QueueInv, TypeOK
    <3>4. ~Done
      BY <1>1, <2>1 DEF Done, WakeFlushers, FlushState
    <3>5. UNCHANGED flush \/ Done \/ \E g \in Flushers :
               StartFlush(g) \/ FlushLooks(g) \/ DeadlinePasses(g) \/ FlusherWakes(g)
      BY <1>1 DEF Next, WorkerStep, SinkStep, Push, Park, Leave, Take, Accepted, Rejected, TryFails, Loses,
                  WorkerWakes, DropQueue, vars
    <3> QED
      BY <3>1, <3>2, <3>3, <3>4, <3>5
  <2>3. items = <<>> /\ ~busy
    <3>1. flush'[f] = IF Drained \/ (closed /\ items = <<>>) THEN [Outside EXCEPT !.result = ~busy]
                      ELSE IF flush[f].late THEN Outside ELSE [flush[f] EXCEPT !.pc = "parked"]
      BY <1>1, <2>2 DEF FlushLooks, QueueInv, TypeOK
    <3>2. Outside.result = FALSE /\ [flush[f] EXCEPT !.pc = "parked"].pc = "parked"
      BY <2>1 DEF Outside, FlushState
    <3>3. Drained \/ (closed /\ items = <<>>)
      BY <1>1, <3>1, <3>2
    <3>4. flush'[f].result = ~busy
      BY <3>1, <3>3 DEF Outside
    <3> QED
      BY <1>1, <3>3, <3>4 DEF Drained, QueueInv, TypeOK
  <2>4. batch = <<>>
    BY <1>1, <2>3 DEF QueueInv, BusyIsWorking
  <2>5. n \in Item /\ (fate[n] \in {"queued", "sending"} \/ Finished(n))
    BY <1>1 DEF QueueInv, TypeOK, OwedAccepted
  <2> QED
    BY <1>1, <2>3, <2>4, <2>5 DEF QueueInv, Placed
<1>2. QueueInv /\ [Next]_vars =>
        [\A f \in Flushers : flush[f].pc # "out" /\ flush'[f].pc = "out" /\ flush'[f].result
                               => \A n \in flush[f].owed : Finished(n)]_vars
  BY <1>1
<1> QED
  BY <1>2, QueueInit, QueueNext, PTL DEF Spec, FlushTruthful

=============================================================================
