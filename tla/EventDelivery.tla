---------------------------- MODULE EventDelivery ----------------------------
(***************************************************************************)
(* The delivery queue of cloakpipe-mcp (events/delivery.rs, Queue) with    *)
(* one sink behind it: a webhook, a trace exporter, the events log or the  *)
(* filing of approval requests.  A bounded queue, one worker thread, and   *)
(* callers that push (never blocking) or flush (waiting a bounded time).   *)
(*                                                                         *)
(* Every critical section of the queue's mutex is one step.  The condition *)
(* variables are modelled by who is parked on them: a notification that    *)
(* finds nobody parked is lost, and a thread may wake for no reason.       *)
(*                                                                         *)
(* An item is the number of its push.  A batch is sent as one request: a   *)
(* webhook and a filing take one item at a time (MaxBatch = 1), the events *)
(* log writes without retrying (Tries = 1).                                *)
(***************************************************************************)
EXTENDS Integers, Sequences, FiniteSets

CONSTANTS
    Flushers,     \* threads that may flush
    Capacity,     \* items the queue holds before it drops
    MaxBatch,     \* items handed to the sink at a time
    Tries,        \* attempts per request
    Faults,       \* "thread": the worker cannot be started
                  \* "client": the HTTP client cannot be built
                  \* "panic": the sink may panic
    MaxPushes     \* bound on the items pushed

ASSUME DeliveryAssumption ==
    /\ Capacity \in Nat
    /\ MaxBatch \in Nat
    /\ Tries \in Nat
    /\ MaxPushes \in Nat

VARIABLES
    items,        \* State::items
    busy,         \* State::busy
    closed,       \* State::closed
    owned,        \* the Queue has not been dropped
    worker,       \* what the worker thread does next
    batch,        \* the items it holds
    attempts,     \* tries made for this batch
    pushed,       \* number of pushes so far
    dropped,      \* Shared::dropped
    fate,         \* fate[n]: what became of item n
    flush         \* flush[f]: the flush thread f is in, or its last one

vars == <<items, busy, closed, owned, worker, batch, attempts, pushed, dropped, fate, flush>>

Item == 1..MaxPushes
AtLeastOne(n) == IF n = 0 THEN 1 ELSE n
Queued == {n \in Item : fate[n] \in {"queued", "sending"}}
Finished(n) == fate[n] \in {"delivered", "failed", "lost"}
ItemsOf(s) == {s[i] : i \in DOMAIN s}
Mark(ns, f) == fate' = [n \in Item |-> IF n \in ns THEN f ELSE fate[n]]

\* A thread outside flush, to which it last returned `result`; owed: what was
\* queued or held when the flush under way began.
Outside == [pc |-> "out", late |-> FALSE, owed |-> {}, result |-> FALSE]

\* Queue::spawn; a worker that cannot be started leaves the queue closed.
Init ==
    /\ items = <<>> /\ batch = <<>>
    /\ busy = FALSE
    /\ worker \in {"look"} \cup (IF "thread" \in Faults THEN {"none"} ELSE {})
    /\ closed = (worker = "none")
    /\ owned = TRUE
    /\ attempts = 0 /\ pushed = 0 /\ dropped = 0
    /\ fate = [n \in Item |-> "none"]
    /\ flush = [f \in Flushers |-> Outside]

(***************************************************************************)
(* push.                                                                   *)
(***************************************************************************)
Full == Len(items) >= AtLeastOne(Capacity)

\* Mutant: a full queue forgets its oldest item.
Push_Overwrites ==
    /\ owned
    /\ pushed < MaxPushes
    /\ pushed' = pushed + 1
    /\ items' = Append(IF Full THEN Tail(items) ELSE items, pushed + 1)
    /\ Mark({pushed + 1}, "queued")
    /\ worker' = IF worker = "parked" THEN "look" ELSE worker
    /\ UNCHANGED <<dropped, busy, closed, owned, batch, attempts, flush>>
Push ==
    /\ owned
    /\ pushed < MaxPushes
    /\ pushed' = pushed + 1
    /\ \/ /\ closed \/ Full
          /\ dropped' = dropped + 1
          /\ Mark({pushed + 1}, "dropped")
          /\ UNCHANGED <<items, worker>>
       \/ /\ ~(closed \/ Full)
          /\ items' = Append(items, pushed + 1)
          /\ Mark({pushed + 1}, "queued")
          /\ worker' = IF worker = "parked" THEN "look" ELSE worker
          /\ UNCHANGED dropped
    /\ UNCHANGED <<busy, closed, owned, batch, attempts, flush>>

(***************************************************************************)
(* The worker: wait for items, take a batch, hand it to the sink.          *)
(***************************************************************************)
Park ==
    /\ worker = "look"
    /\ items = <<>> /\ ~closed
    /\ worker' = "parked"
    /\ UNCHANGED <<items, busy, closed, owned, batch, attempts, pushed, dropped, fate, flush>>

Leave ==
    /\ worker = "look"
    /\ items = <<>> /\ closed
    /\ worker' = "exited"
    /\ UNCHANGED <<items, busy, closed, owned, batch, attempts, pushed, dropped, fate, flush>>

BatchSize == IF Len(items) < AtLeastOne(MaxBatch) THEN Len(items) ELSE AtLeastOne(MaxBatch)
\* Mutant: the batch is held without saying so.
Take_NotBusy ==
    /\ worker = "look"
    /\ items # <<>>
    /\ batch' = SubSeq(items, 1, BatchSize)
    /\ items' = SubSeq(items, BatchSize + 1, Len(items))
    /\ Mark(ItemsOf(batch'), "sending")
    /\ worker' = "sink"
    /\ UNCHANGED <<busy, closed, owned, attempts, pushed, dropped, flush>>
Take ==
    /\ worker = "look"
    /\ items # <<>>
    /\ busy' = TRUE
    /\ batch' = SubSeq(items, 1, BatchSize)
    /\ items' = SubSeq(items, BatchSize + 1, Len(items))
    /\ Mark(ItemsOf(batch'), "sending")
    /\ worker' = "sink"
    /\ UNCHANGED <<closed, owned, attempts, pushed, dropped, flush>>

\* The sink returns with this outcome for its batch, which it then no longer holds.
SinkReturns(outcome) ==
    /\ Mark(ItemsOf(batch), outcome)
    /\ batch' = <<>>
    /\ attempts' = 0
    /\ worker' = "done"

\* post_with_retry: a 2xx.
Accepted ==
    /\ worker = "sink"
    /\ SinkReturns("delivered")
    /\ UNCHANGED <<items, busy, closed, owned, pushed, dropped, flush>>

\* Any other status that is final.
Rejected ==
    /\ worker = "sink"
    /\ SinkReturns("failed")
    /\ UNCHANGED <<items, busy, closed, owned, pushed, dropped, flush>>

\* A 429 or 5xx, a timeout (the request may have arrived) or no connection:
\* another try, or the tries have run out.
TryFails ==
    /\ worker = "sink"
    /\ \/ /\ attempts + 1 < AtLeastOne(Tries)
          /\ attempts' = attempts + 1
          /\ UNCHANGED <<worker, batch, fate>>
       \/ /\ attempts + 1 >= AtLeastOne(Tries)
          /\ SinkReturns("failed")
    /\ UNCHANGED <<items, busy, closed, owned, pushed, dropped, flush>>

\* The sink panics, or has no HTTP client and returns: the batch is lost.
Loses ==
    /\ worker = "sink"
    /\ "panic" \in Faults \/ ("client" \in Faults /\ attempts = 0)
    /\ SinkReturns("lost")
    /\ UNCHANGED <<items, busy, closed, owned, pushed, dropped, flush>>

WakeFlushers == flush' = [f \in Flushers |-> IF flush[f].pc = "parked" THEN [flush[f] EXCEPT !.pc = "look"] ELSE flush[f]]
\* Mutant: idle is told only when the queue has been closed.
Done_Unheard ==
    /\ worker = "done"
    /\ busy' = FALSE
    /\ IF items = <<>> /\ closed THEN WakeFlushers ELSE UNCHANGED flush
    /\ worker' = "look"
    /\ UNCHANGED <<items, closed, owned, batch, attempts, pushed, dropped, fate>>
Done ==
    /\ worker = "done"
    /\ busy' = FALSE
    /\ IF items = <<>> THEN WakeFlushers ELSE UNCHANGED flush
    /\ worker' = "look"
    /\ UNCHANGED <<items, closed, owned, batch, attempts, pushed, dropped, fate>>

(***************************************************************************)
(* flush.                                                                  *)
(***************************************************************************)
StartFlush(f) ==
    /\ owned
    /\ flush[f].pc = "out"
    /\ flush' = [flush EXCEPT ![f] = [pc |-> "look", late |-> FALSE, owed |-> Queued, result |-> FALSE]]
    /\ UNCHANGED <<items, busy, closed, owned, worker, batch, attempts, pushed, dropped, fate>>

Drained == items = <<>> /\ ~busy
FlushLooks(f) ==
    /\ flush[f].pc = "look"
    /\ flush' = [flush EXCEPT ![f] =
           IF Drained \/ (closed /\ items = <<>>)
           THEN [Outside EXCEPT !.result = ~busy]
           ELSE IF flush[f].late THEN Outside ELSE [@ EXCEPT !.pc = "parked"]]
    /\ UNCHANGED <<items, busy, closed, owned, worker, batch, attempts, pushed, dropped, fate>>

\* The deadline passes; a parked thread wakes.
DeadlinePasses(f) ==
    /\ flush[f].pc # "out"
    /\ ~flush[f].late
    /\ flush' = [flush EXCEPT ![f].late = TRUE, ![f].pc = "look"]
    /\ UNCHANGED <<items, busy, closed, owned, worker, batch, attempts, pushed, dropped, fate>>

(***************************************************************************)
(* A condition variable wakes its thread for no reason.                    *)
(***************************************************************************)
WorkerWakes ==
    /\ worker = "parked"
    /\ worker' = "look"
    /\ UNCHANGED <<items, busy, closed, owned, batch, attempts, pushed, dropped, fate, flush>>

FlusherWakes(f) ==
    /\ flush[f].pc = "parked"
    /\ flush' = [flush EXCEPT ![f].pc = "look"]
    /\ UNCHANGED <<items, busy, closed, owned, worker, batch, attempts, pushed, dropped, fate>>

(***************************************************************************)
(* Drop: nobody holds the queue any more, so nobody pushes or flushes.     *)
(***************************************************************************)
DropQueue ==
    /\ owned
    /\ \A f \in Flushers : flush[f].pc = "out"
    /\ owned' = FALSE
    /\ closed' = TRUE
    /\ worker' = IF worker = "parked" THEN "look" ELSE worker
    /\ UNCHANGED <<items, busy, batch, attempts, pushed, dropped, fate, flush>>

WorkerStep == Park \/ Leave \/ Take \/ Done
SinkStep == Accepted \/ Rejected \/ TryFails \/ Loses
Next ==
    \/ Push
    \/ WorkerStep
    \/ SinkStep
    \/ WorkerWakes
    \/ DropQueue
    \/ \E f \in Flushers : StartFlush(f) \/ FlushLooks(f) \/ DeadlinePasses(f) \/ FlusherWakes(f)

Spec == Init /\ [][Next]_vars

(***************************************************************************)
(* Fairness: the worker and a thread that flushes run, and an attempt ends *)
(* (each has a timeout).  Nothing makes a deadline pass, a thread wake for *)
(* no reason, or the queue be dropped.                                     *)
(***************************************************************************)
FairSpec ==
    /\ Spec
    /\ WF_vars(WorkerStep) /\ WF_vars(SinkStep)
    /\ \A f \in Flushers : WF_vars(FlushLooks(f))

(***************************************************************************)
(* Properties.                                                             *)
(***************************************************************************)
\* The queue, its worker and its callers hold values of their types, the
\* worker never more tries than configured.
TypeOK ==
    /\ items \in Seq(Item) /\ batch \in Seq(Item)
    /\ busy \in BOOLEAN /\ closed \in BOOLEAN /\ owned \in BOOLEAN
    /\ worker \in {"none", "look", "parked", "sink", "done", "exited"}
    /\ attempts \in 0..(AtLeastOne(Tries) - 1)
    /\ pushed \in 0..MaxPushes /\ dropped \in 0..MaxPushes
    /\ fate \in [Item -> {"none", "queued", "sending", "delivered", "failed", "lost", "dropped"}]
    /\ flush \in [Flushers -> [pc : {"out", "look", "parked"}, late : BOOLEAN, owed : SUBSET Item, result : BOOLEAN]]

\* No event disappears: each one pushed is in the queue once, in the worker's
\* hands once, finished, or among those counted as dropped.
Accounted ==
    /\ Len(items) <= AtLeastOne(Capacity)
    /\ \A n \in Item : /\ (fate[n] = "none") = (n > pushed)
                       /\ Cardinality({i \in DOMAIN items : items[i] = n}) = (IF fate[n] = "queued" THEN 1 ELSE 0)
                       /\ Cardinality({i \in DOMAIN batch : batch[i] = n}) = (IF fate[n] = "sending" THEN 1 ELSE 0)
    /\ dropped = Cardinality({n \in Item : fate[n] = "dropped"})

\* Events are finished with in the order they were pushed.
InOrder == \A a, b \in Item : a < b /\ Finished(b) => Finished(a) \/ fate[a] = "dropped"

\* A flush that reports success has waited for everything that was queued,
\* or in the worker's hands, when it began.
FlushTruthful ==
    [][\A f \in Flushers : flush[f].pc # "out" /\ flush'[f].pc = "out" /\ flush'[f].result
                             => \A n \in flush[f].owed : Finished(n)]_vars

\* Whatever was accepted is finished with, also when the queue is dropped first.
EventuallyHandled == \A n \in Item : (fate[n] = "queued") ~> Finished(n)

\* A flush returns once the pushing ends, without its deadline: the worker
\* that empties the queue wakes it.
FlushReturns == \A f \in Flushers : (flush[f].pc # "out") ~> (flush[f].pc = "out")

\* A dropped queue's thread ends: none is left parked for ever.
WorkerEnds == ~owned ~> worker \in {"none", "exited"}

\* The queue as its callers rely on it: well typed, no event lost, kept twice
\* or dropped uncounted, none overtaking another, whatever the sink does and
\* however full the queue is (Queue::push, run, deliver).
DeliveryInv == TypeOK /\ Accounted /\ InOrder

\* No wake-up is lost: accepted events are finished with, flushes return
\* without their deadline, and the thread of a dropped queue ends (Queue::push,
\* flush, Drop, run).
QueueMakesProgress == EventuallyHandled /\ FlushReturns /\ WorkerEnds
===============================================================================
