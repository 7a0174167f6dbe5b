--------------------------- MODULE EvidenceLedger ---------------------------
(***************************************************************************)
(* The processes that share one decision ledger: gates (and `operations    *)
(* reconcile`) that append, the anchoring thread of each gate              *)
(* (ledger/anchoring.rs, AnchorLoop and AnchorScheduler), and an export    *)
(* that runs beside them.  Several gates may share a ledger: every gate    *)
(* uses $CLOAKPIPE_HOME/ledger.db unless told otherwise.                   *)
(*                                                                         *)
(* The thread's reads, transactions and calls to the authorities are steps *)
(* of their own, since nothing locks the ledger in between.  Time is       *)
(* abstract: the interval since the last seal passes (IntervalPasses) and  *)
(* the retry time of a failed epoch comes (RetryComes) at any moment.      *)
(***************************************************************************)
EXTENDS AuditPack

CONSTANTS
    Every,        \* --anchor-every, 0 when not given
    Interval,     \* whether --anchor-interval is given
    Exporter,     \* whether an export may run
    Faults,       \* "store": a ledger operation of the thread may fail
                  \* "crash": a gate may be killed
    MaxEntries,   \* bound on the ledger
    MaxStarts     \* bound on starts of each gate

ASSUME AnchoringAssumption ==
    /\ Every \in Nat
    /\ Interval \in BOOLEAN
    /\ Every > 0 \/ Interval
    /\ MaxEntries \in Nat
    /\ MaxStarts \in Nat

VARIABLES
    loop,         \* loop[g]: the anchoring thread of gate g
    export        \* what the running export has read of the decisions

vars == <<entries, epochs, loop, export>>

Steps == {"off", "idle", "head", "seal", "pending", "anchor", "keep"}

\* pc        what the thread does next
\* stopping  AnchorLoop::finish was called
\* flushing  the current round is flush, not tick
\* next      next_unsealed_seq as read
\* elapsed   the interval has passed since last_seal
\* backoff   failed_at: epochs whose retry time has not come
\* queue     the epochs still to anchor in this round, as read
\* got       the receipts of the call just made; failed, the kinds that failed
NotRunning == [pc |-> "off", stopping |-> FALSE, flushing |-> FALSE, next |-> 0, elapsed |-> FALSE,
               backoff |-> {}, queue |-> {}, got |-> {}, failed |-> {}, starts |-> 0]

Init ==
    /\ LedgerInit
    /\ loop = [g \in Gates |-> NotRunning]
    /\ export = [reading |-> FALSE, all |-> <<>>]

At(g, pc) == loop[g].pc = pc
Become(g, r) == loop' = [loop EXCEPT ![g] = r]

(***************************************************************************)
(* DecisionLog::append: the gate decides, or an operator reconciles.       *)
(***************************************************************************)
Decide(g) ==
    /\ Len(entries) < MaxEntries
    /\ \E t \in Times : AppendDecision(g, t)
    /\ UNCHANGED <<loop, export>>

(***************************************************************************)
(* AnchorLoop::spawn_with and finish; the end of the process.              *)
(***************************************************************************)
Spawn(g) ==
    /\ At(g, "off")
    /\ loop[g].starts < MaxStarts
    /\ Become(g, [NotRunning EXCEPT !.pc = "idle", !.starts = loop[g].starts + 1])
    /\ UNCHANGED <<entries, epochs, export>>

Finish(g) ==
    /\ ~At(g, "off")
    /\ ~loop[g].stopping
    /\ Become(g, [loop[g] EXCEPT !.stopping = TRUE])
    /\ UNCHANGED <<entries, epochs, export>>

Crash(g) ==
    /\ "crash" \in Faults
    /\ ~At(g, "off")
    /\ Become(g, [NotRunning EXCEPT !.starts = loop[g].starts])
    /\ UNCHANGED <<entries, epochs, export>>

IntervalPasses(g) ==
    /\ Interval
    /\ At(g, "idle")
    /\ ~loop[g].elapsed
    /\ Become(g, [loop[g] EXCEPT !.elapsed = TRUE])
    /\ UNCHANGED <<entries, epochs, export>>

RetryComes(g) ==
    /\ At(g, "idle")
    /\ \E n \in loop[g].backoff : Become(g, [loop[g] EXCEPT !.backoff = @ \ {n}])
    /\ UNCHANGED <<entries, epochs, export>>

(***************************************************************************)
(* tick and flush.                                                         *)
(***************************************************************************)
\* unsealed(): next_unsealed_seq, then decision_head_seq.
StartRound(g) ==
    /\ At(g, "idle")
    /\ Become(g, [loop[g] EXCEPT !.pc = "head", !.flushing = loop[g].stopping, !.next = NextUnsealedSeq])
    /\ UNCHANGED <<entries, epochs, export>>

Unsealed(g) == IF HeadSeq >= loop[g].next THEN HeadSeq - loop[g].next + 1 ELSE 0
Due(g) ==
    /\ Unsealed(g) > 0
    /\ \/ loop[g].flushing
       \/ Every > 0 /\ Unsealed(g) >= Every
       \/ Interval /\ loop[g].elapsed

ReadHead(g) ==
    /\ At(g, "head")
    /\ Become(g, [loop[g] EXCEPT !.pc = IF Due(g) THEN "seal" ELSE "pending"])
    /\ UNCHANGED <<entries, epochs, export>>

Seal(g) ==
    /\ At(g, "seal")
    /\ SealEpoch(g) \/ SealNothing
    /\ Become(g, [loop[g] EXCEPT !.pc = "pending", !.elapsed = FALSE])
    /\ UNCHANGED export

\* anchor_pending: the epochs that lack a wanted kind, as stored now.
Incomplete(ep) == \E k \in Kinds : ~Holds(ep, k)
ReadPending(g) ==
    /\ At(g, "pending")
    /\ Become(g, [loop[g] EXCEPT !.pc = "anchor", !.queue = {epochs[i] : i \in {j \in DOMAIN epochs : Incomplete(epochs[j])}}])
    /\ UNCHANGED <<entries, epochs, export>>

\* They are taken in order.
IsNext(g, ep) ==
    /\ ep \in loop[g].queue
    /\ \A other \in loop[g].queue : ep.head.epoch <= other.head.epoch

\* The retry time of this epoch has not come: `continue`.
Backed(g, ep) == ~loop[g].flushing /\ ep.head.epoch \in loop[g].backoff
Skip(g) ==
    /\ At(g, "anchor")
    /\ \E ep \in loop[g].queue :
          /\ IsNext(g, ep)
          /\ Backed(g, ep)
          /\ Become(g, [loop[g] EXCEPT !.queue = @ \ {ep}])
    /\ UNCHANGED <<entries, epochs, export>>

\* Anchorer::anchor: ask each authority the epoch, as read, has no receipt from.
Missing(ep) == {k \in Kinds : ~Holds(ep, k)}
Ask(g) ==
    /\ At(g, "anchor")
    /\ \E ep \in loop[g].queue :
          /\ IsNext(g, ep)
          /\ ~Backed(g, ep)
          /\ \E ok \in SUBSET Missing(ep) :
                Become(g, [loop[g] EXCEPT
                    !.pc = "keep",
                    !.got = {[kind |-> k, subject |-> ep.head.hash, asked |-> g] : k \in ok},
                    !.failed = Missing(ep) \ ok])
    /\ UNCHANGED <<entries, epochs, export>>

\* failed_at after an attempt for epoch n.
Attempted(r, n) ==
    [r EXCEPT !.got = {}, !.failed = {},
              !.backoff = IF r.failed = {} THEN @ \ {n} ELSE @ \cup {n}]

\* Mutant: an attempt that did not succeed in full keeps nothing.
Keep_AllOrNothing(g) ==
    /\ At(g, "keep")
    /\ \E ep \in loop[g].queue :
          /\ IsNext(g, ep)
          /\ AddEpochAnchors(ep.head.epoch + 1, IF loop[g].failed = {} THEN loop[g].got ELSE {}, loop[g].failed # {})
          /\ Become(g, [Attempted(loop[g], ep.head.epoch) EXCEPT !.pc = "anchor", !.queue = @ \ {ep}])
    /\ UNCHANGED export
\* add_epoch_anchors, then on to the next epoch.
Keep(g) ==
    /\ At(g, "keep")
    /\ \E ep \in loop[g].queue :
          /\ IsNext(g, ep)
          /\ AddEpochAnchors(ep.head.epoch + 1, loop[g].got, loop[g].failed # {})
          /\ Become(g, [Attempted(loop[g], ep.head.epoch) EXCEPT !.pc = "anchor", !.queue = @ \ {ep}])
    /\ UNCHANGED export

\* Where the thread goes when a round ends, and what it then forgets.
EndRound(r) ==
    [r EXCEPT !.pc = IF r.flushing THEN "off" ELSE "idle", !.stopping = @ /\ ~r.flushing,
              !.flushing = FALSE, !.elapsed = @ /\ ~r.flushing, !.backoff = IF r.flushing THEN {} ELSE @,
              !.next = 0, !.queue = {}, !.got = {}, !.failed = {}]

\* report(Ok(events)): one line, and one gate event, for each.
Report(g) ==
    /\ At(g, "anchor")
    /\ loop[g].queue = {}
    /\ Become(g, EndRound(loop[g]))
    /\ UNCHANGED <<entries, epochs, export>>

\* A ledger operation fails: the round returns the error.  (add_epoch_anchors
\* fails before it commits, and the receipts of that attempt are lost.)
RoundFails(g) ==
    /\ "store" \in Faults
    /\ loop[g].pc \in {"head", "seal", "pending", "keep"}
    /\ Become(g, EndRound(loop[g]))
    /\ UNCHANGED <<entries, epochs, export>>

\* The receipts are stored, and reading the epoch back for anchor.ok fails.
ReadBackFails(g) ==
    /\ "store" \in Faults
    /\ At(g, "keep")
    /\ loop[g].failed = {}
    /\ \E ep \in loop[g].queue :
          /\ IsNext(g, ep)
          /\ AddEpochAnchors(ep.head.epoch + 1, loop[g].got, FALSE)
          /\ Become(g, EndRound(Attempted(loop[g], ep.head.epoch)))
    /\ UNCHANGED export

(***************************************************************************)
(* export_pack: decisions(), then epochs().                                *)
(***************************************************************************)
ExportReads ==
    /\ Exporter
    /\ ~export.reading
    /\ export' = [reading |-> TRUE, all |-> entries]
    /\ UNCHANGED <<entries, epochs, loop>>

\* The pack written now: it leaves the system for the auditor.
PackFor(since, until) == ExportPack(export.all, epochs, since, until)

\* Or ExportError::Empty, and nothing is written.
ExportEnds ==
    /\ export.reading
    /\ export' = [reading |-> FALSE, all |-> <<>>]
    /\ UNCHANGED <<entries, epochs, loop>>

Next ==
    \/ \E g \in Gates :
          \/ Decide(g) \/ Spawn(g) \/ Finish(g) \/ Crash(g)
          \/ IntervalPasses(g) \/ RetryComes(g)
          \/ StartRound(g) \/ ReadHead(g) \/ Seal(g) \/ ReadPending(g)
          \/ Skip(g) \/ Ask(g) \/ Keep(g) \/ Report(g)
          \/ RoundFails(g) \/ ReadBackFails(g)
    \/ ExportReads \/ ExportEnds

Spec == Init /\ [][Next]_vars

(***************************************************************************)
(* Fairness: the thread keeps running while its process lives, time        *)
(* passes, and an authority asked again and again answers again and again. *)
(* Nothing is assumed of gates that decide, stop, start or crash.          *)
(***************************************************************************)
Answers(g, n, k) ==
    /\ Ask(g)
    /\ \E ep \in loop[g].queue : IsNext(g, ep) /\ ep.head.epoch = n
    /\ \E r \in loop'[g].got : r.kind = k

Fairness ==
    \A g \in Gates :
       /\ WF_vars(StartRound(g)) /\ WF_vars(ReadHead(g)) /\ WF_vars(Seal(g))
       /\ WF_vars(ReadPending(g)) /\ WF_vars(Skip(g)) /\ WF_vars(Ask(g))
       /\ WF_vars(Keep(g)) /\ WF_vars(Report(g))
       /\ SF_vars(IntervalPasses(g)) /\ SF_vars(RetryComes(g))
       /\ \A n \in 0..(MaxEntries - 1), k \in Kinds : SF_vars(Answers(g, n, k))
FairSpec == Spec /\ Fairness

(***************************************************************************)
(* Properties.                                                             *)
(***************************************************************************)
\* The ledger, the threads and the export hold values of their types.
Loop == [pc : Steps, stopping : BOOLEAN, flushing : BOOLEAN, next : Nat, elapsed : BOOLEAN,
         backoff : SUBSET Nat, queue : SUBSET StoredEpoch, got : SUBSET Receipt,
         failed : SUBSET Kinds, starts : Nat]
TypeOK ==
    /\ LedgerTypeOK
    /\ loop \in [Gates -> Loop]
    /\ export \in [reading : BOOLEAN, all : Seq(DecisionEntry)]

\* However many processes append, the decisions table is one chain from
\* genesis that the offline verifier accepts (append_decision).
ChainUnbroken ==
    /\ DecisionsVerify(entries, Gates)
    /\ entries # <<>> => entries[1].seq = 0

\* However many threads seal, the epochs cover the chain from seq 0 without
\* gap or overlap, each committing to the entry it ends with and to the
\* epoch before it (seal_epoch).
EpochsPartition ==
    \A i \in DOMAIN epochs :
       LET h == epochs[i].head
       IN /\ h.epoch = i - 1
          /\ h.first = (IF i = 1 THEN 0 ELSE epochs[i - 1].head.last + 1)
          /\ h.prev = (IF i = 1 THEN Genesis ELSE epochs[i - 1].head.hash)
          /\ h.first <= h.last /\ h.last < Len(entries)
          /\ h.entriesHead = entries[h.last + 1].hash

\* An epoch holds at most one receipt of each kind, and only receipts for
\* its own head, though threads that read it earlier may answer late.
ReceiptsSound ==
    \A i \in DOMAIN epochs :
       /\ AnchorsName(epochs[i])
       /\ \A r1, r2 \in epochs[i].anchors : r1.kind = r2.kind => r1 = r2

\* Nothing written is changed: entries and epoch heads stay, and a receipt
\* once kept is never replaced or lost.
HistoryStays ==
    [][/\ \A i \in DOMAIN entries : i \in DOMAIN entries' /\ entries'[i] = entries[i]
       /\ \A i \in DOMAIN epochs : /\ i \in DOMAIN epochs'
                                   /\ epochs'[i].head = epochs[i].head
                                   /\ epochs[i].anchors \subseteq epochs'[i].anchors]_vars

\* The export read an epoch that seals entries it had not read.
Torn(pack) == pack.epochs # <<>> /\ pack.epochs[Len(pack.epochs)].head.last > LastSeq(pack)

\* Every pack an export writes is a run of the ledger that verifies without
\* failures or gaps, whatever range was asked for and whatever was appended,
\* sealed or anchored meanwhile, unless the export read the two tables
\* around a seal.
PackVerifies ==
    \A since, until \in Times :
       InRange(export.all, since, until) =>
          LET pack == PackFor(since, until)
          IN /\ \A i \in DOMAIN pack.entries : pack.entries[i] = entries[FirstSeq(pack) + i]
             /\ Torn(pack) \/ ~(PackFails(pack, Gates) \/ PackGaps(pack, Gates))

\* Every entry ends up in an epoch that holds a receipt of every kind, as
\* long as the thread of some gate runs: failures are retried, and what did
\* succeed is kept.
EventuallyAnchored ==
    \A q \in 0..(MaxEntries - 1) :
       (q \in 0..HeadSeq) ~> (\/ \A g \in Gates : At(g, "off")
                             \/ \E i \in DOMAIN epochs : epochs[i].head.last >= q /\ ~Incomplete(epochs[i])
                                                        /\ epochs[i].head.first <= q)
===============================================================================
