---------------------------- MODULE LedgerProofs ----------------------------
(***************************************************************************)
(* Proofs about EvidenceLedger, for every set of gates, kinds and times    *)
(* and every policy: the chain is never broken, the epochs partition it,   *)
(* receipts are sound, nothing written is changed, and every pack an       *)
(* export writes verifies.                                                 *)
(***************************************************************************)
EXTENDS EvidenceLedger, SequenceTheorems, WellFoundedInduction, TLAPS

(***************************************************************************)
(* The inductive invariant.  Appending and sealing take the last row of a  *)
(* table and count on from it, so rows must sit where their number says.   *)
(* A thread works on copies it read earlier, so a copy must still name the *)
(* row it came from, and a receipt not yet kept the head it was asked for. *)
(***************************************************************************)
RowsInPlace == \A i \in DOMAIN entries : entries[i].seq = i - 1

CopiesCurrent ==
    \A g \in Gates : \A ep \in loop[g].queue :
       /\ ep.head.epoch + 1 \in DOMAIN epochs
       /\ epochs[ep.head.epoch + 1].head = ep.head

ReceiptsInFlight ==
    \A g \in Gates :
       /\ loop[g].pc # "keep" => loop[g].got = {}
       /\ \A r \in loop[g].got :
             /\ r.asked = g
             /\ \A ep \in loop[g].queue : IsNext(g, ep) => r.subject = ep.head.hash

LedgerInv ==
    /\ ChainUnbroken
    /\ RowsInPlace
    /\ EpochsPartition
    /\ ReceiptsSound
    /\ CopiesCurrent
    /\ ReceiptsInFlight

(***************************************************************************)
(* What the transactions of LedgerStore do.                                *)
(***************************************************************************)

\* The next sequence number is the number of rows, and the chain head is
\* the last row's hash (append_decision, decision_head_seq).
LEMMA NextSeqIsLen ==
    ASSUME LedgerTypeOK, RowsInPlace
    PROVE  /\ NextSeq = Len(entries)
           /\ HeadSeq = Len(entries) - 1
           /\ ChainHead \in EntryHashes
           /\ Len(entries) \in Nat
PROOF
  <1>1. CASE entries = <<>>
    BY <1>1 DEF NextSeq, HeadSeq, ChainHead, Genesis, EntryHashes
  <1>2. CASE entries # <<>>
    <2>1. Len(entries) \in DOMAIN entries /\ entries[Len(entries)] \in DecisionEntry /\ Len(entries) \in Nat
      BY <1>2 DEF LedgerTypeOK
    <2>2. entries[Len(entries)].hash \in EntryHashes
      BY <2>1 DEF DecisionEntry
    <2> QED BY <1>2, <2>1, <2>2 DEF NextSeq, HeadSeq, ChainHead, RowsInPlace
  <1> QED BY <1>1, <1>2

\* The next epoch number is the number of rows, and what is unsealed starts
\* after the last row (next_unsealed_seq, seal_epoch).
LEMMA NextEpochIsLen ==
    ASSUME LedgerTypeOK, EpochsPartition
    PROVE  /\ NextEpoch = Len(epochs)
           /\ NextUnsealedSeq \in Nat
           /\ EpochChainHead \in HeadHashes
           /\ Len(epochs) \in Nat
PROOF
  <1>1. CASE epochs = <<>>
    BY <1>1 DEF NextEpoch, NextUnsealedSeq, EpochChainHead, Genesis, HeadHashes
  <1>2. CASE epochs # <<>>
    <2>1. Len(epochs) \in DOMAIN epochs /\ epochs[Len(epochs)] \in StoredEpoch /\ Len(epochs) \in Nat
      BY <1>2 DEF LedgerTypeOK
    <2>2. epochs[Len(epochs)].head \in EpochHead
      BY <2>1 DEF StoredEpoch
    <2>3. epochs[Len(epochs)].head.hash \in HeadHashes /\ epochs[Len(epochs)].head.last \in Nat
      BY <2>2 DEF EpochHead
    <2>4. epochs[Len(epochs)].head.epoch = Len(epochs) - 1
      BY <2>1 DEF EpochsPartition
    <2> QED BY <1>2, <2>1, <2>3, <2>4 DEF NextEpoch, NextUnsealedSeq, EpochChainHead
  <1> QED BY <1>1, <1>2

\* The head of a stored epoch has numbers and a hash.
LEMMA HeadType ==
    ASSUME LedgerTypeOK, NEW i \in DOMAIN epochs
    PROVE  /\ epochs[i] \in StoredEpoch
           /\ epochs[i].head.epoch \in Nat
           /\ epochs[i].head.last \in Nat
           /\ epochs[i].head.hash \in HeadHashes
PROOF
  <1>1. epochs[i] \in StoredEpoch
    BY DEF LedgerTypeOK
  <1>2. epochs[i].head \in EpochHead
    BY <1>1 DEF StoredEpoch
  <1> QED BY <1>1, <1>2 DEF EpochHead

\* append_decision adds one signed, linked row and keeps the others.
LEMMA AppendStep ==
    ASSUME LedgerTypeOK, RowsInPlace, NEW k \in Gates, NEW t \in Times, AppendDecision(k, t)
    PROVE  /\ entries' \in Seq(DecisionEntry)
           /\ Len(entries') = Len(entries) + 1
           /\ \A i \in DOMAIN entries : i \in DOMAIN entries' /\ entries'[i] = entries[i]
           /\ entries'[Len(entries) + 1] = Link(Len(entries), ChainHead, t, k)
           /\ epochs' = epochs
PROOF
  <1> DEFINE c == [seq |-> Len(entries), ts |-> t, signer |-> k]
             e == Link(Len(entries), ChainHead, t, k)
  <1>1. NextSeq = Len(entries) /\ ChainHead \in EntryHashes /\ Len(entries) \in Nat
    BY NextSeqIsLen
  <1>2. Append(ChainHead, c) \in EntryHashes
    <2>1. c \in EntryContent
      BY <1>1 DEF EntryContent
    <2> QED BY <1>1, <2>1 DEF EntryHashes
  <1>3. e \in DecisionEntry
    BY <1>1, <1>2 DEF Link, Sign, DecisionEntry
  <1>4. entries' = Append(entries, e) /\ epochs' = epochs
    BY <1>1 DEF AppendDecision
  <1> HIDE DEF e
  <1>5. entries \in Seq(DecisionEntry)
    BY DEF LedgerTypeOK
  <1>6. /\ entries' \in Seq(DecisionEntry)
        /\ Len(entries') = Len(entries) + 1
        /\ \A i \in DOMAIN entries : i \in DOMAIN entries' /\ entries'[i] = entries[i]
        /\ entries'[Len(entries) + 1] = e
    BY <1>3, <1>4, <1>5
  <1> QED BY <1>4, <1>6 DEF e

\* seal_epoch adds one head over the rows no epoch covers and keeps the others.
LEMMA SealStep ==
    ASSUME LedgerTypeOK, RowsInPlace, EpochsPartition, NEW k \in Gates, SealEpoch(k)
    PROVE  LET h == SignedHead(Len(epochs), NextUnsealedSeq, Len(entries) - 1, ChainHead, EpochChainHead, k)
           IN /\ epochs' \in Seq(StoredEpoch)
              /\ Len(epochs') = Len(epochs) + 1
              /\ \A i \in DOMAIN epochs : i \in DOMAIN epochs' /\ epochs'[i] = epochs[i]
              /\ epochs'[Len(epochs) + 1] = [head |-> h, anchors |-> {}, failed |-> FALSE]
              /\ entries' = entries
              /\ Len(entries) - 1 >= NextUnsealedSeq
PROOF
  <1> DEFINE h == SignedHead(Len(epochs), NextUnsealedSeq, Len(entries) - 1, ChainHead, EpochChainHead, k)
             c == [epoch |-> Len(epochs), first |-> NextUnsealedSeq, last |-> Len(entries) - 1,
                   entriesHead |-> ChainHead, signer |-> k]
             ep == [head |-> h, anchors |-> {}, failed |-> FALSE]
  <1>1. HeadSeq = Len(entries) - 1 /\ ChainHead \in EntryHashes /\ Len(entries) \in Nat
    BY NextSeqIsLen
  <1>2. NextEpoch = Len(epochs) /\ NextUnsealedSeq \in Nat /\ EpochChainHead \in HeadHashes /\ Len(epochs) \in Nat
    BY NextEpochIsLen
  <1>3. Len(entries) - 1 >= NextUnsealedSeq /\ Len(entries) - 1 \in Nat
    BY <1>1, <1>2 DEF SealEpoch
  <1>4. Append(EpochChainHead, c) \in HeadHashes
    <2>1. c \in HeadContent
      BY <1>1, <1>2, <1>3 DEF HeadContent
    <2> QED BY <1>2, <2>1 DEF HeadHashes
  <1>5. h \in EpochHead
    BY <1>1, <1>2, <1>3, <1>4 DEF SignedHead, Sign, EpochHead
  <1>6. epochs' = Append(epochs, ep) /\ entries' = entries
    BY <1>1, <1>2 DEF SealEpoch
  <1> HIDE DEF h
  <1>7. ep \in StoredEpoch
    BY <1>5 DEF StoredEpoch
  <1> HIDE DEF ep
  <1>8. epochs \in Seq(StoredEpoch)
    BY DEF LedgerTypeOK
  <1>9. /\ epochs' \in Seq(StoredEpoch)
        /\ Len(epochs') = Len(epochs) + 1
        /\ \A i \in DOMAIN epochs : i \in DOMAIN epochs' /\ epochs'[i] = epochs[i]
        /\ epochs'[Len(epochs) + 1] = ep
    BY <1>6, <1>7, <1>8
  <1> QED BY <1>3, <1>6, <1>9 DEF ep, h

\* add_epoch_anchors changes the receipts of one row, and only adds to them.
LEMMA AnchorStep ==
    ASSUME LedgerTypeOK, NEW i \in DOMAIN epochs, NEW receipts \in SUBSET Receipt, NEW failed \in BOOLEAN,
           AddEpochAnchors(i, receipts, failed)
    PROVE  /\ epochs' \in Seq(StoredEpoch)
           /\ DOMAIN epochs' = DOMAIN epochs
           /\ Len(epochs') = Len(epochs)
           /\ \A j \in DOMAIN epochs : epochs'[j].head = epochs[j].head
           /\ \A j \in DOMAIN epochs : j # i => epochs'[j] = epochs[j]
           /\ \A x : x \in epochs'[i].anchors <=> \/ x \in epochs[i].anchors
                                                  \/ x \in receipts /\ ~Holds(epochs[i], x.kind)
           /\ entries' = entries
PROOF
  <1> DEFINE new == epochs[i].anchors \cup {r \in receipts : ~Holds(epochs[i], r.kind)}
             row == [epochs[i] EXCEPT !.anchors = new, !.failed = failed]
  <1>1. epochs \in Seq(StoredEpoch) /\ epochs[i] \in StoredEpoch
    BY DEF LedgerTypeOK
  <1>2. new \in SUBSET Receipt
    BY <1>1 DEF StoredEpoch
  <1>3. epochs' = [epochs EXCEPT ![i] = row] /\ entries' = entries
    BY <1>1 DEF AddEpochAnchors
  <1> HIDE DEF new
  <1>4. row \in StoredEpoch /\ row.head = epochs[i].head /\ row.anchors = new
    BY <1>1, <1>2 DEF StoredEpoch
  <1> HIDE DEF row
  <1>5. /\ epochs' \in Seq(StoredEpoch)
        /\ DOMAIN epochs' = DOMAIN epochs
        /\ Len(epochs') = Len(epochs)
        /\ epochs'[i] = row
        /\ \A j \in DOMAIN epochs : j # i => epochs'[j] = epochs[j]
    BY <1>1, <1>3, <1>4
  <1> QED BY <1>3, <1>4, <1>5 DEF new

(***************************************************************************)
(* What the steps of a thread do to its record.                            *)
(***************************************************************************)

\* A step of one gate's thread changes that thread's record only.
LEMMA BecomeStep ==
    ASSUME loop \in [Gates -> Loop], NEW g \in Gates, NEW r \in Loop, Become(g, r)
    PROVE  /\ loop' \in [Gates -> Loop]
           /\ loop'[g] = r
           /\ \A o \in Gates : o # g => loop'[o] = loop[o]
BY DEF Become

\* A thread that has ended its round has nothing in flight.
LEMMA EndRoundType ==
    ASSUME NEW r \in Loop
    PROVE  EndRound(r) \in Loop /\ EndRound(r).queue = {} /\ EndRound(r).got = {}
BY DEF EndRound, Loop, Steps

\* After an attempt the thread holds no receipt, and works on the same copies.
LEMMA AttemptedType ==
    ASSUME NEW r \in Loop, NEW n \in Nat
    PROVE  Attempted(r, n) \in Loop /\ Attempted(r, n).queue = r.queue /\ Attempted(r, n).got = {}
BY DEF Attempted, Loop

\* Dropping the copy just dealt with.
LEMMA NextCopyType ==
    ASSUME NEW r \in Loop, NEW ep
    PROVE  LET s == [r EXCEPT !.pc = "anchor", !.queue = @ \ {ep}]
           IN s \in Loop /\ s.queue = r.queue \ {ep} /\ s.got = r.got
BY DEF Loop, Steps

\* A copy of an epoch has a number and a receipt of the right form.
LEMMA CopyType ==
    ASSUME loop \in [Gates -> Loop], NEW g \in Gates, NEW ep \in loop[g].queue
    PROVE  /\ ep \in StoredEpoch
           /\ ep.head \in EpochHead
           /\ ep.head.epoch \in Nat
           /\ ep.head.hash \in HeadHashes
PROOF
  <1>1. ep \in StoredEpoch
    BY DEF Loop
  <1>2. ep.head \in EpochHead
    BY <1>1 DEF StoredEpoch
  <1> QED BY <1>1, <1>2 DEF EpochHead

\* Steps that touch neither table and put nothing in flight: the record they
\* leave is well typed, holds only copies it held before, and no receipt
\* unless nothing it holds has changed.
Quiet(g, r) ==
    /\ Become(g, r)
    /\ UNCHANGED <<entries, epochs>>
    /\ r \in Loop
    /\ r.queue \subseteq loop[g].queue
    /\ r.got = {} \/ (r.got = loop[g].got /\ r.queue = loop[g].queue /\ r.pc = loop[g].pc)

QuietStep == \E g \in Gates, r \in Loop : Quiet(g, r)
\* Stopping, starting, waiting, reading the head, skipping an epoch and
\* ending a round are quiet.
LEMMA QuietSteps ==
    ASSUME TypeOK, ReceiptsInFlight, NEW g \in Gates,
           \/ Spawn(g) \/ Finish(g) \/ Crash(g) \/ IntervalPasses(g) \/ RetryComes(g)
           \/ StartRound(g) \/ ReadHead(g) \/ Skip(g) \/ Report(g) \/ RoundFails(g),
           EpochsPartition
    PROVE  QuietStep
PROOF
  <1>0. loop \in [Gates -> Loop] /\ loop[g] \in Loop
    BY DEF TypeOK
  <1>1. CASE Spawn(g)
    <2> DEFINE r == [NotRunning EXCEPT !.pc = "idle", !.starts = loop[g].starts + 1]
    <2>0. NotRunning \in Loop /\ NotRunning.queue = {} /\ NotRunning.got = {} /\ loop[g].starts + 1 \in Nat
      BY <1>0 DEF NotRunning, Loop, Steps
    <2>1. r \in Loop /\ r.queue = {} /\ r.got = {}
      BY <2>0 DEF Loop, Steps
    <2>2. Become(g, r) /\ UNCHANGED <<entries, epochs>>
      BY <1>1 DEF Spawn
    <2> HIDE DEF r
    <2>3. Quiet(g, r)
      BY <2>1, <2>2 DEF Quiet
    <2> QED BY <2>1, <2>3 DEF QuietStep
  <1>2. CASE Finish(g)
    <2> DEFINE r == [loop[g] EXCEPT !.stopping = TRUE]
    <2>1. r \in Loop /\ r.queue = loop[g].queue /\ r.got = loop[g].got /\ r.pc = loop[g].pc
      BY <1>0 DEF Loop
    <2>2. Become(g, r) /\ UNCHANGED <<entries, epochs>>
      BY <1>2 DEF Finish
    <2> HIDE DEF r
    <2>3. Quiet(g, r)
      BY <2>1, <2>2 DEF Quiet
    <2> QED BY <2>1, <2>3 DEF QuietStep
  <1>3. CASE Crash(g)
    <2> DEFINE r == [NotRunning EXCEPT !.starts = loop[g].starts]
    <2>1. r \in Loop /\ r.queue = {} /\ r.got = {}
      BY <1>0 DEF NotRunning, Loop, Steps
    <2>2. Become(g, r) /\ UNCHANGED <<entries, epochs>>
      BY <1>3 DEF Crash
    <2> HIDE DEF r
    <2>3. Quiet(g, r)
      BY <2>1, <2>2 DEF Quiet
    <2> QED BY <2>1, <2>3 DEF QuietStep
  <1>4. CASE IntervalPasses(g)
    <2> DEFINE r == [loop[g] EXCEPT !.elapsed = TRUE]
    <2>1. r \in Loop /\ r.queue = loop[g].queue /\ r.got = loop[g].got /\ r.pc = loop[g].pc
      BY <1>0 DEF Loop
    <2>2. Become(g, r) /\ UNCHANGED <<entries, epochs>>
      BY <1>4 DEF IntervalPasses
    <2> HIDE DEF r
    <2>3. Quiet(g, r)
      BY <2>1, <2>2 DEF Quiet
    <2> QED BY <2>1, <2>3 DEF QuietStep
  <1>5. CASE RetryComes(g)
    <2>1. PICK n \in loop[g].backoff : Become(g, [loop[g] EXCEPT !.backoff = @ \ {n}])
      BY <1>5 DEF RetryComes
    <2> DEFINE r == [loop[g] EXCEPT !.backoff = @ \ {n}]
    <2>2. r \in Loop /\ r.queue = loop[g].queue /\ r.got = loop[g].got /\ r.pc = loop[g].pc
      BY <1>0 DEF Loop
    <2>3. Become(g, r) /\ UNCHANGED <<entries, epochs>>
      BY <1>5, <2>1 DEF RetryComes
    <2> HIDE DEF r
    <2>4. Quiet(g, r)
      BY <2>2, <2>3 DEF Quiet
    <2> QED BY <2>2, <2>4 DEF QuietStep
  <1>6. CASE StartRound(g)
    <2> DEFINE r == [loop[g] EXCEPT !.pc = "head", !.flushing = loop[g].stopping, !.next = NextUnsealedSeq]
    <2>1. NextUnsealedSeq \in Nat
      BY NextEpochIsLen DEF TypeOK
    <2>2. loop[g].got = {}
      BY <1>6 DEF StartRound, At, ReceiptsInFlight
    <2>3. r \in Loop /\ r.queue = loop[g].queue /\ r.got = {}
      BY <1>0, <2>1, <2>2 DEF Loop, Steps
    <2>4. Become(g, r) /\ UNCHANGED <<entries, epochs>>
      BY <1>6 DEF StartRound
    <2> HIDE DEF r
    <2>5. Quiet(g, r)
      BY <2>3, <2>4 DEF Quiet
    <2> QED BY <2>3, <2>5 DEF QuietStep
  <1>7. CASE ReadHead(g)
    <2> DEFINE r == [loop[g] EXCEPT !.pc = IF Due(g) THEN "seal" ELSE "pending"]
    <2>2. loop[g].got = {}
      BY <1>7 DEF ReadHead, At, ReceiptsInFlight
    <2>3. r \in Loop /\ r.queue = loop[g].queue /\ r.got = {}
      BY <1>0, <2>2 DEF Loop, Steps
    <2>4. Become(g, r) /\ UNCHANGED <<entries, epochs>>
      BY <1>7 DEF ReadHead
    <2> HIDE DEF r
    <2>5. Quiet(g, r)
      BY <2>3, <2>4 DEF Quiet
    <2> QED BY <2>3, <2>5 DEF QuietStep
  <1>8. CASE Skip(g)
    <2>1. PICK ep \in loop[g].queue : Become(g, [loop[g] EXCEPT !.queue = @ \ {ep}])
      BY <1>8 DEF Skip
    <2> DEFINE r == [loop[g] EXCEPT !.queue = @ \ {ep}]
    <2>2. loop[g].got = {}
      BY <1>8 DEF Skip, At, ReceiptsInFlight
    <2>3. r \in Loop /\ r.queue \subseteq loop[g].queue /\ r.got = {}
      BY <1>0, <2>2 DEF Loop
    <2>4. Become(g, r) /\ UNCHANGED <<entries, epochs>>
      BY <1>8, <2>1 DEF Skip
    <2> HIDE DEF r
    <2>5. Quiet(g, r)
      BY <2>3, <2>4 DEF Quiet
    <2> QED BY <2>3, <2>5 DEF QuietStep
  <1>9. CASE Report(g) \/ RoundFails(g)
    <2> DEFINE r == EndRound(loop[g])
    <2>1. r \in Loop /\ r.queue = {} /\ r.got = {}
      BY <1>0, EndRoundType
    <2>2. Become(g, r) /\ UNCHANGED <<entries, epochs>>
      BY <1>9 DEF Report, RoundFails
    <2> HIDE DEF r
    <2>3. Quiet(g, r)
      BY <2>1, <2>2 DEF Quiet
    <2> QED BY <2>1, <2>3 DEF QuietStep
  <1> QED BY <1>1, <1>2, <1>3, <1>4, <1>5, <1>6, <1>7, <1>8, <1>9

\* The store of receipts in a thread's round: what it holds goes to the row
\* its copy came from (Keep and ReadBackFails).
Store(g, ep, f, r) ==
    /\ IsNext(g, ep)
    /\ AddEpochAnchors(ep.head.epoch + 1, loop[g].got, f)
    /\ Become(g, r)
    /\ r.queue \subseteq loop[g].queue
    /\ r.got = {}

StoreStep == \E g \in Gates, f \in BOOLEAN, r \in Loop : \E ep \in loop[g].queue : Store(g, ep, f, r)

LEMMA StoreSteps ==
    ASSUME TypeOK, NEW g \in Gates, Keep(g) \/ ReadBackFails(g)
    PROVE  StoreStep
PROOF
  <1>0. loop \in [Gates -> Loop] /\ loop[g] \in Loop
    BY DEF TypeOK
  <1>1. CASE Keep(g)
    <2>1. PICK ep \in loop[g].queue :
             /\ IsNext(g, ep)
             /\ AddEpochAnchors(ep.head.epoch + 1, loop[g].got, loop[g].failed # {})
             /\ Become(g, [Attempted(loop[g], ep.head.epoch) EXCEPT !.pc = "anchor", !.queue = @ \ {ep}])
      BY <1>1 DEF Keep
    <2> DEFINE a == Attempted(loop[g], ep.head.epoch)
               r == [a EXCEPT !.pc = "anchor", !.queue = @ \ {ep}]
    <2>2. ep.head.epoch \in Nat
      BY <1>0, CopyType
    <2>3. a \in Loop /\ a.queue = loop[g].queue /\ a.got = {}
      BY <1>0, <2>2, AttemptedType
    <2>4. Become(g, r)
      BY <2>1
    <2> HIDE DEF a
    <2>5. r \in Loop /\ r.queue = a.queue \ {ep} /\ r.got = a.got
      BY <2>3, NextCopyType
    <2> HIDE DEF r
    <2>6. Store(g, ep, loop[g].failed # {}, r)
      BY <2>1, <2>3, <2>4, <2>5 DEF Store
    <2>7. (loop[g].failed # {}) \in BOOLEAN
      OBVIOUS
    <2> QED BY <2>5, <2>6, <2>7 DEF StoreStep
  <1>2. CASE ReadBackFails(g)
    <2>1. PICK ep \in loop[g].queue :
             /\ IsNext(g, ep)
             /\ AddEpochAnchors(ep.head.epoch + 1, loop[g].got, FALSE)
             /\ Become(g, EndRound(Attempted(loop[g], ep.head.epoch)))
      BY <1>2 DEF ReadBackFails
    <2> DEFINE a == Attempted(loop[g], ep.head.epoch)
               r == EndRound(a)
    <2>2. ep.head.epoch \in Nat
      BY <1>0, CopyType
    <2>3. a \in Loop
      BY <1>0, <2>2, AttemptedType
    <2>4. Become(g, r)
      BY <2>1
    <2> HIDE DEF a
    <2>5. r \in Loop /\ r.queue = {} /\ r.got = {}
      BY <2>3, EndRoundType
    <2> HIDE DEF r
    <2>6. Store(g, ep, FALSE, r)
      BY <2>1, <2>4, <2>5 DEF Store
    <2> QED BY <2>5, <2>6 DEF StoreStep
  <1> QED BY <1>1, <1>2
(***************************************************************************)
(* Each kind of step preserves the invariant.                              *)
(***************************************************************************)

\* Quiet steps leave the tables alone and put nothing new in flight.
LEMMA QuietPreserves ==
    ASSUME TypeOK, LedgerInv, QuietStep
    PROVE  LedgerInv' /\ LedgerTypeOK' /\ loop' \in [Gates -> Loop]
PROOF
  <1>1. PICK g \in Gates, r \in Loop : Quiet(g, r)
    BY DEF QuietStep
  <1>2. /\ loop' \in [Gates -> Loop]
        /\ loop'[g] = r
        /\ \A o \in Gates : o # g => loop'[o] = loop[o]
    BY <1>1, BecomeStep DEF Quiet, TypeOK
  <1>3. entries' = entries /\ epochs' = epochs
    BY <1>1 DEF Quiet
  <1>4. ChainUnbroken' /\ RowsInPlace'
    BY <1>3 DEF LedgerInv, ChainUnbroken, RowsInPlace, DecisionsVerify, EntrySigned, Linked, EntryHash, Covered, Sign, Genesis
  <1>5. EpochsPartition' /\ ReceiptsSound'
    BY <1>3 DEF LedgerInv, EpochsPartition, ReceiptsSound, AnchorsName, Genesis
  <1>6. CopiesCurrent'
    BY <1>1, <1>2, <1>3 DEF LedgerInv, CopiesCurrent, Quiet
  <1>7. ReceiptsInFlight'
    BY <1>1, <1>2 DEF LedgerInv, ReceiptsInFlight, Quiet, IsNext
  <1>8. LedgerTypeOK'
    BY <1>3 DEF TypeOK, LedgerTypeOK
  <1> QED BY <1>2, <1>4, <1>5, <1>6, <1>7, <1>8 DEF LedgerInv

\* append_decision: one chain, whoever appends, and the epochs still commit
\* to the rows they name.
LEMMA DecidePreserves ==
    ASSUME TypeOK, LedgerInv, NEW g \in Gates, Decide(g)
    PROVE  LedgerInv' /\ LedgerTypeOK' /\ loop' \in [Gates -> Loop]
PROOF
  <1>1. PICK t \in Times : AppendDecision(g, t)
    BY DEF Decide
  <1> DEFINE n == Len(entries)
             e == Link(n, ChainHead, t, g)
  <1>2. /\ entries' \in Seq(DecisionEntry)
        /\ Len(entries') = n + 1
        /\ \A i \in DOMAIN entries : i \in DOMAIN entries' /\ entries'[i] = entries[i]
        /\ entries'[n + 1] = e
        /\ epochs' = epochs
    BY <1>1, AppendStep DEF TypeOK, LedgerInv
  <1>3. n \in Nat /\ entries \in Seq(DecisionEntry) /\ DOMAIN entries = 1..n /\ DOMAIN entries' = 1..(n + 1)
    BY <1>2, NextSeqIsLen DEF TypeOK, LedgerInv, LedgerTypeOK
  <1>4. loop' = loop
    BY DEF Decide
  <1>5. /\ e.seq = n
        /\ e.prev = ChainHead
        /\ EntrySigned(e, Gates)
    BY DEF Link, EntrySigned, EntryHash, Covered, Sign
  <1> HIDE DEF e
  <1>6. RowsInPlace'
    BY <1>2, <1>3, <1>5 DEF RowsInPlace, LedgerInv
  <1>7. ChainUnbroken'
    <2>1. ASSUME NEW i \in DOMAIN entries'
          PROVE  /\ EntrySigned(entries'[i], Gates)
                 /\ IF i = 1 THEN entries'[1].seq = 0 => entries'[1].prev = Genesis
                             ELSE Linked(entries'[i - 1], entries'[i])
      <3>1. CASE i \in 1..n
        <4>1. entries'[i] = entries[i] /\ (i # 1 => entries'[i - 1] = entries[i - 1])
          BY <1>2, <1>3, <3>1
        <4>2. /\ EntrySigned(entries[i], Gates)
              /\ IF i = 1 THEN entries[1].seq = 0 => entries[1].prev = Genesis
                          ELSE Linked(entries[i - 1], entries[i])
          BY <1>3, <3>1 DEF LedgerInv, ChainUnbroken, DecisionsVerify
        <4> QED BY <4>1, <4>2
      <3>2. CASE i = n + 1
        <4>1. CASE n = 0
          BY <1>2, <1>3, <1>5, <3>2, <4>1 DEF ChainHead
        <4>2. CASE n # 0
          <5>1. entries # <<>> /\ n \in DOMAIN entries /\ entries'[n] = entries[n] /\ i - 1 = n
            BY <1>2, <1>3, <3>2, <4>2
          <5>2. entries[n].seq = n - 1
            BY <5>1 DEF LedgerInv, RowsInPlace
          <5>3. e.prev = entries[n].hash
            BY <1>5, <5>1 DEF ChainHead
          <5>4. Linked(entries[n], e)
            BY <1>3, <1>5, <5>2, <5>3 DEF Linked
          <5> QED BY <1>2, <1>3, <1>5, <3>2, <4>2, <5>1, <5>4
        <4> QED BY <4>1, <4>2
      <3> QED BY <1>3, <3>1, <3>2
    <2>2. entries'[1].seq = 0
      <3>1. 1 \in DOMAIN entries'
        BY <1>3
      <3> QED BY <1>6, <3>1 DEF RowsInPlace
    <2>3. Gates # {}
      OBVIOUS
    <2> QED BY <2>1, <2>2, <2>3 DEF ChainUnbroken, DecisionsVerify, EntrySigned, Linked, EntryHash, Covered, Sign, Genesis
  <1>8. EpochsPartition'
    <2>1. ASSUME NEW i \in DOMAIN epochs
          PROVE  entries'[epochs[i].head.last + 1] = entries[epochs[i].head.last + 1]
      <3>1. epochs[i].head.last \in Nat
        BY HeadType DEF TypeOK
      <3>2. epochs[i].head.last < n
        BY DEF LedgerInv, EpochsPartition
      <3> QED BY <1>2, <1>3, <3>1, <3>2
    <2>2. ASSUME NEW i \in DOMAIN epochs
          PROVE  epochs[i].head.last < n + 1
      <3>1. epochs[i].head.last \in Nat
        BY HeadType DEF TypeOK
      <3>2. epochs[i].head.last < n
        BY DEF LedgerInv, EpochsPartition
      <3> QED BY <1>3, <3>1, <3>2
    <2>3. EpochsPartition
      BY DEF LedgerInv
    <2> HIDE DEF n
    <2> QED BY <1>2, <2>1, <2>2, <2>3 DEF EpochsPartition, Genesis
  <1>9. ReceiptsSound' /\ CopiesCurrent' /\ ReceiptsInFlight'
    BY <1>2, <1>4 DEF LedgerInv, ReceiptsSound, AnchorsName, CopiesCurrent, ReceiptsInFlight, IsNext
  <1> QED BY <1>2, <1>4, <1>6, <1>7, <1>8, <1>9 DEF LedgerInv, LedgerTypeOK, TypeOK
\* seal_epoch: the new epoch starts where the last one ended, whoever seals.
LEMMA SealPreserves ==
    ASSUME TypeOK, LedgerInv, NEW g \in Gates, Seal(g)
    PROVE  LedgerInv' /\ LedgerTypeOK' /\ loop' \in [Gates -> Loop]
PROOF
  <1> DEFINE r == [loop[g] EXCEPT !.pc = "pending", !.elapsed = FALSE]
  <1>1. loop \in [Gates -> Loop] /\ loop[g] \in Loop /\ loop[g].got = {}
    BY DEF TypeOK, LedgerInv, ReceiptsInFlight, Seal, At
  <1>2. r \in Loop /\ r.queue = loop[g].queue /\ r.got = {}
    BY <1>1 DEF Loop, Steps
  <1>3. Become(g, r)
    BY DEF Seal
  <1> HIDE DEF r
  <1>4. CASE SealNothing
    <2>1. Quiet(g, r)
      BY <1>2, <1>3, <1>4 DEF Quiet, SealNothing, ledgerVars
    <2>2. QuietStep
      BY <1>2, <2>1 DEF QuietStep
    <2> QED BY <2>2, QuietPreserves
  <1>5. CASE SealEpoch(g)
    <2> DEFINE n == Len(epochs)
               h == SignedHead(n, NextUnsealedSeq, Len(entries) - 1, ChainHead, EpochChainHead, g)
    <2>1. /\ epochs' \in Seq(StoredEpoch)
          /\ Len(epochs') = n + 1
          /\ \A i \in DOMAIN epochs : i \in DOMAIN epochs' /\ epochs'[i] = epochs[i]
          /\ epochs'[n + 1] = [head |-> h, anchors |-> {}, failed |-> FALSE]
          /\ entries' = entries
          /\ Len(entries) - 1 >= NextUnsealedSeq
      BY <1>5, SealStep DEF TypeOK, LedgerInv
    <2>2. /\ epochs \in Seq(StoredEpoch)
          /\ n \in Nat
          /\ DOMAIN epochs = 1..n
          /\ DOMAIN epochs' = 1..(n + 1)
          /\ NextUnsealedSeq \in Nat
      BY <2>1, NextEpochIsLen DEF TypeOK, LedgerInv, LedgerTypeOK
    <2>3. Len(entries) \in Nat
      BY NextSeqIsLen DEF TypeOK, LedgerInv
    <2>4. /\ h.epoch = n
          /\ h.first = NextUnsealedSeq
          /\ h.last = Len(entries) - 1
          /\ h.entriesHead = ChainHead
          /\ h.prev = EpochChainHead
      BY DEF SignedHead
    <2> HIDE DEF h
    <2>5. epochs'[n + 1].head = h /\ epochs'[n + 1].anchors = {}
      BY <2>1
    <2>6. ChainUnbroken' /\ RowsInPlace'
      BY <2>1 DEF LedgerInv, ChainUnbroken, RowsInPlace, DecisionsVerify, EntrySigned, Linked, EntryHash, Covered, Sign, Genesis
    <2>7. EpochsPartition'
      <3>1. ASSUME NEW i \in DOMAIN epochs'
            PROVE  /\ epochs'[i].head.epoch = i - 1
                   /\ epochs'[i].head.first = (IF i = 1 THEN 0 ELSE epochs'[i - 1].head.last + 1)
                   /\ epochs'[i].head.prev = (IF i = 1 THEN Genesis ELSE epochs'[i - 1].head.hash)
                   /\ epochs'[i].head.first <= epochs'[i].head.last
                   /\ epochs'[i].head.last < Len(entries)
                   /\ epochs'[i].head.entriesHead = entries[epochs'[i].head.last + 1].hash
        <4>1. CASE i \in 1..n
          <5>1. epochs'[i] = epochs[i] /\ (i # 1 => epochs'[i - 1] = epochs[i - 1])
            BY <2>1, <2>2, <4>1
          <5>2. /\ epochs[i].head.epoch = i - 1
                /\ epochs[i].head.first = (IF i = 1 THEN 0 ELSE epochs[i - 1].head.last + 1)
                /\ epochs[i].head.prev = (IF i = 1 THEN Genesis ELSE epochs[i - 1].head.hash)
                /\ epochs[i].head.first <= epochs[i].head.last
                /\ epochs[i].head.last < Len(entries)
                /\ epochs[i].head.entriesHead = entries[epochs[i].head.last + 1].hash
            BY <2>2, <4>1 DEF LedgerInv, EpochsPartition
          <5> QED BY <5>1, <5>2
        <4>2. CASE i = n + 1
          <5>1. entries # <<>> /\ ChainHead = entries[Len(entries)].hash
            BY <2>1, <2>2, <2>3 DEF ChainHead
          <5>2. CASE n = 0
            <6>1. epochs = <<>> /\ i = 1
              BY <2>2, <4>2, <5>2
            <6>2. NextUnsealedSeq = 0 /\ EpochChainHead = Genesis
              BY <6>1 DEF NextUnsealedSeq, EpochChainHead
            <6> QED BY <2>1, <2>2, <2>3, <2>4, <2>5, <4>2, <5>1, <5>2, <6>1, <6>2
          <5>3. CASE n # 0
            <6>1. epochs # <<>> /\ i # 1 /\ i - 1 = n /\ epochs'[n] = epochs[n]
              BY <2>1, <2>2, <4>2, <5>3
            <6>2. NextUnsealedSeq = epochs[n].head.last + 1 /\ EpochChainHead = epochs[n].head.hash
              BY <6>1 DEF NextUnsealedSeq, EpochChainHead
            <6> QED BY <2>1, <2>2, <2>3, <2>4, <2>5, <4>2, <5>1, <6>1, <6>2
          <5> QED BY <5>2, <5>3
        <4> QED BY <2>2, <4>1, <4>2
      <3> QED BY <2>1, <3>1 DEF EpochsPartition, Genesis
    <2>8. ReceiptsSound'
      <3>1. ASSUME NEW i \in DOMAIN epochs'
            PROVE  AnchorsName(epochs'[i]) /\ \A r1, r2 \in epochs'[i].anchors : r1.kind = r2.kind => r1 = r2
        <4>1. CASE i \in 1..n
          BY <2>1, <2>2, <4>1 DEF LedgerInv, ReceiptsSound
        <4>2. CASE i = n + 1
          BY <2>5, <4>2 DEF AnchorsName
        <4> QED BY <2>2, <4>1, <4>2
      <3> QED BY <3>1 DEF ReceiptsSound, AnchorsName
    <2>9. /\ loop' \in [Gates -> Loop]
          /\ loop'[g] = r
          /\ \A o \in Gates : o # g => loop'[o] = loop[o]
      BY <1>1, <1>2, <1>3, BecomeStep
    <2>10. CopiesCurrent'
      BY <1>2, <2>1, <2>9 DEF LedgerInv, CopiesCurrent
    <2>11. ReceiptsInFlight'
      BY <1>2, <2>9 DEF LedgerInv, ReceiptsInFlight, IsNext
    <2> QED BY <2>1, <2>6, <2>7, <2>8, <2>9, <2>10, <2>11 DEF LedgerInv, LedgerTypeOK, TypeOK
  <1> QED BY <1>4, <1>5 DEF Seal

\* anchor_pending reads copies of rows, which name the rows they came from.
LEMMA ReadPendingPreserves ==
    ASSUME TypeOK, LedgerInv, NEW g \in Gates, ReadPending(g)
    PROVE  LedgerInv' /\ LedgerTypeOK' /\ loop' \in [Gates -> Loop]
PROOF
  <1> DEFINE Q == {epochs[i] : i \in {j \in DOMAIN epochs : Incomplete(epochs[j])}}
             r == [loop[g] EXCEPT !.pc = "anchor", !.queue = Q]
  <1>1. loop \in [Gates -> Loop] /\ loop[g] \in Loop /\ loop[g].got = {}
    BY DEF TypeOK, LedgerInv, ReceiptsInFlight, ReadPending, At
  <1>2. Become(g, r) /\ entries' = entries /\ epochs' = epochs
    BY DEF ReadPending
  <1>3. \A ep \in Q : /\ ep \in StoredEpoch
                      /\ ep.head.epoch + 1 \in DOMAIN epochs
                      /\ epochs[ep.head.epoch + 1].head = ep.head
    <2>1. ASSUME NEW i \in DOMAIN epochs
          PROVE  epochs[i] \in StoredEpoch /\ epochs[i].head.epoch + 1 = i
      <3>1. epochs[i] \in StoredEpoch
        BY HeadType DEF TypeOK
      <3>2. epochs[i].head.epoch = i - 1 /\ i \in Int
        BY DEF LedgerInv, EpochsPartition, TypeOK, LedgerTypeOK
      <3> QED BY <3>1, <3>2
    <2> QED BY <2>1
  <1> HIDE DEF Q
  <1>4. r \in Loop /\ r.queue = Q /\ r.got = {}
    BY <1>1, <1>3 DEF Loop, Steps
  <1> HIDE DEF r
  <1>5. /\ loop' \in [Gates -> Loop]
        /\ loop'[g] = r
        /\ \A o \in Gates : o # g => loop'[o] = loop[o]
    BY <1>1, <1>2, <1>4, BecomeStep
  <1>6. ChainUnbroken' /\ RowsInPlace'
    BY <1>2 DEF LedgerInv, ChainUnbroken, RowsInPlace, DecisionsVerify, EntrySigned, Linked, EntryHash, Covered, Sign, Genesis
  <1>7. EpochsPartition' /\ ReceiptsSound'
    BY <1>2 DEF LedgerInv, EpochsPartition, ReceiptsSound, AnchorsName, Genesis
  <1>8. CopiesCurrent'
    BY <1>2, <1>3, <1>4, <1>5 DEF LedgerInv, CopiesCurrent
  <1>9. ReceiptsInFlight'
    BY <1>4, <1>5 DEF LedgerInv, ReceiptsInFlight, IsNext
  <1> QED BY <1>2, <1>5, <1>6, <1>7, <1>8, <1>9 DEF LedgerInv, LedgerTypeOK, TypeOK

\* Anchorer::anchor puts in flight only receipts for the head it asked about.
LEMMA AskPreserves ==
    ASSUME TypeOK, LedgerInv, NEW g \in Gates, Ask(g)
    PROVE  LedgerInv' /\ LedgerTypeOK' /\ loop' \in [Gates -> Loop]
PROOF
  <1>1. PICK ep \in loop[g].queue :
           /\ IsNext(g, ep)
           /\ \E ok \in SUBSET Missing(ep) :
                Become(g, [loop[g] EXCEPT
                    !.pc = "keep",
                    !.got = {[kind |-> k, subject |-> ep.head.hash, asked |-> g] : k \in ok},
                    !.failed = Missing(ep) \ ok])
    BY DEF Ask
  <1>2. PICK ok \in SUBSET Missing(ep) :
                Become(g, [loop[g] EXCEPT
                    !.pc = "keep",
                    !.got = {[kind |-> k, subject |-> ep.head.hash, asked |-> g] : k \in ok},
                    !.failed = Missing(ep) \ ok])
    BY <1>1
  <1> DEFINE R == {[kind |-> k, subject |-> ep.head.hash, asked |-> g] : k \in ok}
             F == Missing(ep) \ ok
             r == [loop[g] EXCEPT !.pc = "keep", !.got = R, !.failed = F]
  <1>3. loop \in [Gates -> Loop] /\ loop[g] \in Loop /\ entries' = entries /\ epochs' = epochs
    BY DEF TypeOK, Ask
  <1>4. Become(g, r)
    BY <1>2
  <1>5. ok \subseteq Kinds /\ F \subseteq Kinds
    BY DEF Missing
  <1>6. R \subseteq Receipt /\ \A x \in R : x.asked = g /\ x.subject = ep.head.hash
    <2>1. ep.head.hash \in HeadHashes
      BY <1>3, CopyType
    <2> QED BY <1>5, <2>1 DEF Receipt
  <1> HIDE DEF R, F
  <1>7. r \in Loop /\ r.queue = loop[g].queue /\ r.got = R /\ r.pc = "keep"
    BY <1>3, <1>5, <1>6 DEF Loop, Steps
  <1> HIDE DEF r
  <1>8. /\ loop' \in [Gates -> Loop]
        /\ loop'[g] = r
        /\ \A o \in Gates : o # g => loop'[o] = loop[o]
    BY <1>3, <1>4, <1>7, BecomeStep
  <1>9. ChainUnbroken' /\ RowsInPlace'
    BY <1>3 DEF LedgerInv, ChainUnbroken, RowsInPlace, DecisionsVerify, EntrySigned, Linked, EntryHash, Covered, Sign, Genesis
  <1>10. EpochsPartition' /\ ReceiptsSound'
    BY <1>3 DEF LedgerInv, EpochsPartition, ReceiptsSound, AnchorsName, Genesis
  <1>11. CopiesCurrent'
    BY <1>3, <1>7, <1>8 DEF LedgerInv, CopiesCurrent
  <1>12. ReceiptsInFlight'
    \* Two copies that are both next are copies of the same row.
    <2>1. ASSUME NEW other \in loop[g].queue, IsNext(g, other)
          PROVE  other.head = ep.head
      <3>1. other.head.epoch \in Nat /\ ep.head.epoch \in Nat
        BY <1>3, CopyType
      <3>2. other.head.epoch <= ep.head.epoch /\ ep.head.epoch <= other.head.epoch
        BY <1>1, <2>1 DEF IsNext
      <3>3. other.head.epoch = ep.head.epoch
        BY <3>1, <3>2
      <3> QED BY <3>3 DEF LedgerInv, CopiesCurrent
    <2>2. ASSUME NEW x \in loop'[g].got
          PROVE  x.asked = g /\ \A e \in loop'[g].queue : IsNext(g, e)' => x.subject = e.head.hash
      <3>1. x \in R /\ loop'[g].queue = loop[g].queue
        BY <1>7, <1>8, <2>2
      <3>2. ASSUME NEW e \in loop'[g].queue, IsNext(g, e)'
            PROVE  IsNext(g, e)
        BY <3>1, <3>2 DEF IsNext
      <3> QED BY <1>6, <2>1, <3>1, <3>2
    <2>3. loop'[g].pc = "keep"
      BY <1>7, <1>8
    <2>4. \A o \in Gates : o # g =>
             /\ loop'[o].pc # "keep" => loop'[o].got = {}
             /\ \A x \in loop'[o].got :
                  /\ x.asked = o
                  /\ \A e \in loop'[o].queue : IsNext(o, e)' => x.subject = e.head.hash
      BY <1>8 DEF LedgerInv, ReceiptsInFlight, IsNext
    <2> QED BY <2>2, <2>3, <2>4 DEF ReceiptsInFlight
  <1> QED BY <1>3, <1>8, <1>9, <1>10, <1>11, <1>12 DEF LedgerInv, LedgerTypeOK, TypeOK
\* add_epoch_anchors: late receipts name the head they are stored under, and
\* one of a kind the row already holds is dropped.
LEMMA StorePreserves ==
    ASSUME TypeOK, LedgerInv, StoreStep
    PROVE  LedgerInv' /\ LedgerTypeOK' /\ loop' \in [Gates -> Loop]
PROOF
  <1>1. PICK g \in Gates, f \in BOOLEAN, r \in Loop : \E ep \in loop[g].queue : Store(g, ep, f, r)
    BY DEF StoreStep
  <1>2. PICK ep \in loop[g].queue : Store(g, ep, f, r)
    BY <1>1
  <1> DEFINE n == ep.head.epoch + 1
  <1>3. loop \in [Gates -> Loop] /\ loop[g] \in Loop /\ loop[g].got \in SUBSET Receipt
    BY DEF TypeOK, Loop
  <1>4. n \in DOMAIN epochs /\ epochs[n].head = ep.head
    BY DEF LedgerInv, CopiesCurrent
  <1>5. AddEpochAnchors(n, loop[g].got, f)
    BY <1>2 DEF Store
  <1> HIDE DEF n
  <1>6. /\ epochs' \in Seq(StoredEpoch)
        /\ DOMAIN epochs' = DOMAIN epochs
        /\ \A j \in DOMAIN epochs : epochs'[j].head = epochs[j].head
        /\ \A j \in DOMAIN epochs : j # n => epochs'[j] = epochs[j]
        /\ \A x : x \in epochs'[n].anchors <=> \/ x \in epochs[n].anchors
                                               \/ x \in loop[g].got /\ ~Holds(epochs[n], x.kind)
        /\ entries' = entries
    <2>1. LedgerTypeOK
      BY DEF TypeOK
    <2> QED BY <1>3, <1>4, <1>5, <2>1, AnchorStep
  <1>7. /\ loop' \in [Gates -> Loop]
        /\ loop'[g] = r
        /\ r.queue \subseteq loop[g].queue
        /\ r.got = {}
        /\ \A o \in Gates : o # g => loop'[o] = loop[o]
    BY <1>2, <1>3, BecomeStep DEF Store
  <1>8. ChainUnbroken' /\ RowsInPlace'
    BY <1>6 DEF LedgerInv, ChainUnbroken, RowsInPlace, DecisionsVerify, EntrySigned, Linked, EntryHash, Covered, Sign, Genesis
  <1>9. EpochsPartition'
    <2>1. \A i \in DOMAIN epochs : i # 1 => i - 1 \in DOMAIN epochs
      BY DEF TypeOK, LedgerTypeOK
    <2>2. EpochsPartition
      BY DEF LedgerInv
    <2> QED BY <1>6, <2>1, <2>2 DEF EpochsPartition, Genesis
  <1>10. ReceiptsSound'
    <2>1. \A x \in loop[g].got : x.asked = g /\ x.subject = epochs[n].head.hash
      BY <1>2, <1>4 DEF LedgerInv, ReceiptsInFlight, Store
    <2>2. ASSUME NEW i \in DOMAIN epochs'
          PROVE  AnchorsName(epochs'[i]) /\ \A r1, r2 \in epochs'[i].anchors : r1.kind = r2.kind => r1 = r2
      <3>1. CASE i # n
        BY <1>6, <3>1 DEF LedgerInv, ReceiptsSound
      <3>2. CASE i = n
        <4>1. epochs'[n].head = epochs[n].head /\ AnchorsName(epochs[n])
          BY <1>4, <1>6 DEF LedgerInv, ReceiptsSound
        <4>2. AnchorsName(epochs'[n])
          BY <1>6, <2>1, <4>1 DEF AnchorsName
        <4>3. ASSUME NEW r1 \in epochs'[n].anchors, NEW r2 \in epochs'[n].anchors, r1.kind = r2.kind
              PROVE  r1 = r2
          <5>1. CASE r1 \in epochs[n].anchors /\ r2 \in epochs[n].anchors
            BY <1>4, <4>3, <5>1 DEF LedgerInv, ReceiptsSound
          <5>2. CASE r1 \in loop[g].got /\ r2 \in loop[g].got
            <6>1. r1 \in Receipt /\ r2 \in Receipt
              BY <1>3, <5>2
            <6> QED BY <2>1, <4>3, <5>2, <6>1 DEF Receipt
          <5>3. CASE r1 \in epochs[n].anchors /\ r2 \notin epochs[n].anchors
            BY <1>6, <4>3, <5>3 DEF Holds
          <5>4. CASE r2 \in epochs[n].anchors /\ r1 \notin epochs[n].anchors
            BY <1>6, <4>3, <5>4 DEF Holds
          <5> QED BY <1>6, <5>1, <5>2, <5>3, <5>4
        <4> QED BY <3>2, <4>2, <4>3
      <3> QED BY <3>1, <3>2
    <2> QED BY <2>2 DEF ReceiptsSound, AnchorsName
  <1>11. CopiesCurrent'
    BY <1>6, <1>7 DEF LedgerInv, CopiesCurrent
  <1>12. ReceiptsInFlight'
    BY <1>7 DEF LedgerInv, ReceiptsInFlight, IsNext
  <1> QED BY <1>6, <1>7, <1>8, <1>9, <1>10, <1>11, <1>12 DEF LedgerInv, LedgerTypeOK, TypeOK

\* The reads of an export, and steps that change nothing.
LEMMA ExportPreserves ==
    ASSUME TypeOK, LedgerInv, UNCHANGED <<entries, epochs, loop>>
    PROVE  LedgerInv' /\ LedgerTypeOK' /\ loop' \in [Gates -> Loop]
PROOF
  <1>1. ChainUnbroken' /\ RowsInPlace'
    BY DEF LedgerInv, ChainUnbroken, RowsInPlace, DecisionsVerify, EntrySigned, Linked, EntryHash, Covered, Sign, Genesis
  <1>2. EpochsPartition' /\ ReceiptsSound'
    BY DEF LedgerInv, EpochsPartition, ReceiptsSound, AnchorsName, Genesis
  <1>3. CopiesCurrent' /\ ReceiptsInFlight'
    BY DEF LedgerInv, CopiesCurrent, ReceiptsInFlight, IsNext
  <1> QED BY <1>1, <1>2, <1>3 DEF LedgerInv, LedgerTypeOK, TypeOK

\* Every step, by one of the cases above.
LEMMA InvStep ==
    TypeOK /\ LedgerInv /\ [Next]_vars => TypeOK' /\ LedgerInv'
PROOF
  <1> SUFFICES ASSUME TypeOK, LedgerInv, [Next]_vars
               PROVE  TypeOK' /\ LedgerInv'
    OBVIOUS
  <1> USE DEF TypeOK
  <1>1. ASSUME NEW g \in Gates, Decide(g)
        PROVE  TypeOK' /\ LedgerInv'
    BY <1>1, DecidePreserves DEF Decide
  <1>2. ASSUME NEW g \in Gates,
               \/ Spawn(g) \/ Finish(g) \/ Crash(g) \/ IntervalPasses(g) \/ RetryComes(g)
               \/ StartRound(g) \/ ReadHead(g) \/ Skip(g) \/ Report(g)
        PROVE  TypeOK' /\ LedgerInv'
    <2>1. QuietStep
      BY <1>2, QuietSteps DEF LedgerInv
    <2>2. UNCHANGED export
      BY <1>2 DEF Spawn, Finish, Crash, IntervalPasses, RetryComes, StartRound, ReadHead, Skip, Report
    <2> QED BY <2>1, <2>2, QuietPreserves
  <1>3. ASSUME NEW g \in Gates, RoundFails(g)
        PROVE  TypeOK' /\ LedgerInv'
    <2>1. QuietStep
      BY <1>3, QuietSteps DEF LedgerInv
    <2>2. export' = export
      BY <1>3 DEF RoundFails
    <2> QED BY <2>1, <2>2, QuietPreserves
  <1>4. ASSUME NEW g \in Gates, Seal(g)
        PROVE  TypeOK' /\ LedgerInv'
    BY <1>4, SealPreserves DEF Seal
  <1>5. ASSUME NEW g \in Gates, ReadPending(g)
        PROVE  TypeOK' /\ LedgerInv'
    BY <1>5, ReadPendingPreserves DEF ReadPending
  <1>6. ASSUME NEW g \in Gates, Ask(g)
        PROVE  TypeOK' /\ LedgerInv'
    BY <1>6, AskPreserves DEF Ask
  <1>7. ASSUME NEW g \in Gates, Keep(g) \/ ReadBackFails(g)
        PROVE  TypeOK' /\ LedgerInv'
    <2>1. StoreStep
      BY <1>7, StoreSteps
    <2>2. export' = export
      BY <1>7 DEF Keep, ReadBackFails
    <2> QED BY <2>1, <2>2, StorePreserves
  <1>8. CASE ExportReads \/ ExportEnds
    <2>1. UNCHANGED <<entries, epochs, loop>>
      BY <1>8 DEF ExportReads, ExportEnds
    <2>2. export' \in [reading : BOOLEAN, all : Seq(DecisionEntry)]
      <3>1. entries \in Seq(DecisionEntry) /\ <<>> \in Seq(DecisionEntry)
        BY DEF LedgerTypeOK
      <3>2. CASE ExportReads
        <4>1. export' = [reading |-> TRUE, all |-> entries]
          BY <3>2 DEF ExportReads
        <4> QED BY <3>1, <4>1
      <3>3. CASE ExportEnds
        <4>1. export' = [reading |-> FALSE, all |-> <<>>]
          BY <3>3 DEF ExportEnds
        <4> QED BY <3>1, <4>1
      <3> QED BY <1>8, <3>2, <3>3
    <2> QED BY <2>1, <2>2, ExportPreserves
  <1>9. CASE UNCHANGED vars
    <2>1. UNCHANGED <<entries, epochs, loop, export>>
      BY <1>9 DEF vars
    <2> QED BY <2>1, ExportPreserves
  <1> QED BY <1>1, <1>2, <1>3, <1>4, <1>5, <1>6, <1>7, <1>8, <1>9 DEF Next

\* The empty ledger with no thread running.
LEMMA InvInit == Init => TypeOK /\ LedgerInv
PROOF
  <1> SUFFICES ASSUME Init PROVE TypeOK /\ LedgerInv
    OBVIOUS
  <1>1. entries = <<>> /\ epochs = <<>> /\ export = [reading |-> FALSE, all |-> <<>>]
    BY DEF Init, LedgerInit
  <1>2. loop = [g \in Gates |-> NotRunning] /\ NotRunning \in Loop
    BY DEF Init, NotRunning, Loop, Steps
  <1>3. \A g \in Gates : loop[g].queue = {} /\ loop[g].got = {}
    BY <1>2 DEF NotRunning
  <1>4. TypeOK
    BY <1>1, <1>2 DEF TypeOK, LedgerTypeOK
  <1>5. LedgerInv
    <2>1. DOMAIN entries = {} /\ DOMAIN epochs = {}
      BY <1>1
    <2> QED BY <1>1, <1>3, <2>1, LedgerAssumption DEF LedgerInv, ChainUnbroken, DecisionsVerify, RowsInPlace, EpochsPartition, ReceiptsSound, CopiesCurrent, ReceiptsInFlight
  <1> QED BY <1>4, <1>5

\* LedgerInv is inductive.
LEMMA InductiveInvariant == Spec => [](TypeOK /\ LedgerInv)
BY InvInit, InvStep, PTL DEF Spec

(***************************************************************************)
(* The theorems.                                                           *)
(***************************************************************************)

\* The ledger, the threads and the export always hold values of their types.
THEOREM TypeCorrect == Spec => []TypeOK
BY InductiveInvariant, PTL

\* However many processes append, seal, fail and crash, the decisions table
\* is one signed chain from genesis that the offline verifier accepts.
THEOREM ChainNeverBroken == Spec => []ChainUnbroken
PROOF
  <1>1. LedgerInv => ChainUnbroken
    BY DEF LedgerInv
  <1> QED BY <1>1, InductiveInvariant, PTL

\* However many threads seal, the epochs cover the chain from seq 0 without
\* gap or overlap, each committing to the entry it ends with and to the
\* epoch before it.
THEOREM EpochsAlwaysPartition == Spec => []EpochsPartition
PROOF
  <1>1. LedgerInv => EpochsPartition
    BY DEF LedgerInv
  <1> QED BY <1>1, InductiveInvariant, PTL

\* However late and however often receipts arrive, an epoch holds at most
\* one of each kind, and only receipts for its own head.
THEOREM ReceiptsAlwaysSound == Spec => []ReceiptsSound
PROOF
  <1>1. LedgerInv => ReceiptsSound
    BY DEF LedgerInv
  <1> QED BY <1>1, InductiveInvariant, PTL

\* What one step keeps: rows, heads and receipts.
Kept ==
    /\ \A i \in DOMAIN entries : i \in DOMAIN entries' /\ entries'[i] = entries[i]
    /\ \A i \in DOMAIN epochs : /\ i \in DOMAIN epochs'
                                /\ epochs'[i].head = epochs[i].head
                                /\ epochs[i].anchors \subseteq epochs'[i].anchors

\* No step rewrites a row, a head or a receipt.
LEMMA KeptStep == TypeOK /\ LedgerInv /\ [Next]_vars => Kept
PROOF
  <1> SUFFICES ASSUME TypeOK, LedgerInv, [Next]_vars
               PROVE  Kept
    OBVIOUS
  <1>1. ASSUME NEW g \in Gates, Decide(g)
        PROVE  Kept
    <2>1. PICK t \in Times : AppendDecision(g, t)
      BY <1>1 DEF Decide
    <2> QED BY <2>1, AppendStep DEF Kept, TypeOK, LedgerInv
  <1>2. ASSUME NEW g \in Gates, Seal(g)
        PROVE  Kept
    <2>1. CASE SealEpoch(g)
      BY <2>1, SealStep DEF Kept, TypeOK, LedgerInv
    <2>2. CASE SealNothing
      BY <2>2 DEF Kept, SealNothing, ledgerVars
    <2> QED BY <1>2, <2>1, <2>2 DEF Seal
  <1>3. ASSUME NEW g \in Gates, Keep(g) \/ ReadBackFails(g)
        PROVE  Kept
    <2>1. StoreStep
      BY <1>3, StoreSteps
    <2>2. PICK o \in Gates, f \in BOOLEAN, r \in Loop : \E ep \in loop[o].queue : Store(o, ep, f, r)
      BY <2>1 DEF StoreStep
    <2>3. PICK ep \in loop[o].queue : Store(o, ep, f, r)
      BY <2>2
    <2> DEFINE n == ep.head.epoch + 1
    <2>4. n \in DOMAIN epochs /\ loop[o].got \in SUBSET Receipt /\ AddEpochAnchors(n, loop[o].got, f)
      BY <2>3 DEF LedgerInv, CopiesCurrent, TypeOK, Loop, Store
    <2> HIDE DEF n
    <2>5. /\ DOMAIN epochs' = DOMAIN epochs
          /\ \A j \in DOMAIN epochs : epochs'[j].head = epochs[j].head
          /\ \A j \in DOMAIN epochs : j # n => epochs'[j] = epochs[j]
          /\ epochs[n].anchors \subseteq epochs'[n].anchors
          /\ entries' = entries
      BY <2>4, AnchorStep DEF TypeOK
    <2> QED BY <2>5 DEF Kept
  <1>4. CASE UNCHANGED <<entries, epochs>>
    BY <1>4 DEF Kept
  <1> QED BY <1>1, <1>2, <1>3, <1>4, Zenon
          DEF Next, vars, Spawn, Finish, Crash, IntervalPasses, RetryComes, StartRound, ReadHead, ReadPending,
              Skip, Ask, Report, RoundFails, ExportReads, ExportEnds

\* Nothing written to the ledger is ever changed: entries and epoch heads
\* stay as they are, and a receipt once kept is never replaced or lost.
THEOREM HistoryNeverChanges == Spec => HistoryStays
PROOF
  <1>1. TypeOK /\ LedgerInv /\ [Next]_vars => [Kept]_vars
    BY KeptStep
  <1>2. Spec => [][Kept]_vars
    BY <1>1, InductiveInvariant, PTL DEF Spec
  <1> QED BY <1>2 DEF HistoryStays, Kept

(***************************************************************************)
(* Induction on numbers, without an operator as a parameter.               *)
(***************************************************************************)
\* The pairs of numbers in order.
Below == {ss \in Nat \X Nat : ss[1] < ss[2]}

\* A set of numbers that is not empty has a least one.
LEMMA LeastElement ==
    ASSUME NEW T \in SUBSET Nat, T # {}
    PROVE  \E x \in T : \A y \in T : x <= y
<1>1. IsWellFoundedOn(Below, Nat)
    BY NatLessThanWellFounded DEF OpToRel, Below
<1>2. \A a, b \in Nat : a < b => <<a, b>> \in Below
    BY DEF Below
<1>3. PICK x \in T : \A y \in T : ~(<<y, x>> \in Below)
    BY <1>1, WFMin
<1>4. \A y \in T : y \in Nat /\ x \in Nat
    OBVIOUS
<1>5. \A y \in T : ~(y < x)
    BY <1>2, <1>3, <1>4
<1> QED BY <1>4, <1>5

\* One that is bounded has a greatest one.
LEMMA GreatestElement ==
    ASSUME NEW n \in Nat, NEW T \in SUBSET (0..n), T # {}
    PROVE  \E x \in T : \A y \in T : x >= y
<1> DEFINE U == {n - x : x \in T}
<1>1. U \in SUBSET Nat /\ U # {}
    <2>1. \A x \in T : n - x \in Nat
        OBVIOUS
    <2> QED BY <2>1
<1>2. PICK u \in U : \A v \in U : u <= v
    BY <1>1, LeastElement
<1>3. PICK x \in T : u = n - x
    OBVIOUS
<1>4. \A y \in T : n - y \in U /\ n - x <= n - y
    BY <1>2, <1>3
<1> QED BY <1>4

\* What holds of 0 and is handed on from each number below n to the next holds of all up to n.
LEMMA CountUp ==
    ASSUME NEW n \in Nat, NEW S, 0 \in S, \A k \in Nat : k < n /\ k \in S => k + 1 \in S
    PROVE  0..n \subseteq S
<1> SUFFICES ASSUME NEW i \in 0..n, i \notin S PROVE FALSE
    OBVIOUS
<1> DEFINE T == {k \in 0..n : k \notin S}
<1>1. PICK x \in T : \A y \in T : x <= y
    <2>1. T \in SUBSET Nat /\ T # {}
        OBVIOUS
    <2> QED BY <2>1, LeastElement
<1>2. x # 0 /\ x - 1 \in 0..n /\ x - 1 \in S
    BY <1>1
<1> QED BY <1>1, <1>2

\* The least of a set of sequence numbers.
LEMMA MinIs ==
    ASSUME NEW T \in SUBSET Nat, T # {}
    PROVE  Min(T) \in T /\ \A y \in T : Min(T) <= y
BY LeastElement DEF Min
\* The greatest of one that is bounded.
LEMMA MaxIs ==
    ASSUME NEW n \in Nat, NEW T \in SUBSET (0..n), T # {}
    PROVE  Max(T) \in T /\ \A y \in T : Max(T) >= y
BY GreatestElement DEF Max

\* `I` are the positions a to b of the first n; `t` is what `s` has there.
IsRun(I, n, a, b) ==
    /\ a \in Nat \ {0} /\ b \in Nat /\ a <= b + 1 /\ b <= n
    /\ \A i \in 1..n : i \in I <=> a <= i /\ i <= b
IsCut(t, s, a, b) ==
    /\ Len(t) = b - a + 1
    /\ \A i \in 1..(b - a + 1) : t[i] = s[a + i - 1]

\* Filtering a run of positions takes that run out.
LEMMA FilteredRun ==
    ASSUME NEW T, NEW s \in Seq(T), NEW a, NEW b, NEW I, IsRun(I, Len(s), a, b)
    PROVE  Filtered(s, I) \in Seq(T) /\ IsCut(Filtered(s, I), s, a, b)
<1> USE DEF IsRun
<1> DEFINE n == Len(s)
           R(f) == [i \in 0..n |-> IF i = 0 THEN <<>> ELSE IF i \in I THEN Append(f[i - 1], s[i]) ELSE f[i - 1]]
           End(i) == IF i < b THEN i ELSE b
           Many(i) == IF End(i) >= a THEN End(i) - a + 1 ELSE 0
           G == [i \in 0..n |-> [j \in 1..Many(i) |-> s[a + j - 1]]]
           F == CHOOSE f : f = R(f)
<1>0. n \in Nat
    OBVIOUS
<1>1. \A i \in 0..n : Many(i) \in Nat /\ Many(i) + a <= n + 1
    BY <1>0
<1>2. \A i \in 0..n : G[i] \in Seq(T) /\ Len(G[i]) = Many(i)
    <2> TAKE i \in 0..n
    <2>1. Many(i) \in Nat /\ \A j \in 1..Many(i) : a + j - 1 \in 1..n
        BY <1>0, <1>1
    <2>2. \A j \in 1..Many(i) : s[a + j - 1] \in T
        BY <2>1
    <2> QED BY <2>1, <2>2
<1>3. ASSUME NEW i \in 1..n PROVE G[i] = IF i \in I THEN Append(G[i - 1], s[i]) ELSE G[i - 1]
    <2>0. i \in 0..n /\ i - 1 \in 0..n /\ s[i] \in T
        BY <1>0
    <2>1. CASE i \notin I
        <3>1. Many(i) = Many(i - 1)
            BY <1>0, <2>1
        <3> QED BY <2>0, <2>1, <3>1
    <2>2. CASE i \in I
        <3>1. Many(i) = Many(i - 1) + 1 /\ i = a + Many(i) - 1
            BY <1>0, <2>2
        <3>2. G[i - 1] \in Seq(T) /\ Len(G[i - 1]) = Many(i - 1)
            BY <1>2, <2>0
        <3>3. Append(G[i - 1], s[i]) \in Seq(T) /\ Len(Append(G[i - 1], s[i])) = Many(i)
            BY <2>0, <3>1, <3>2
        <3>4. \A j \in 1..Many(i) : Append(G[i - 1], s[i])[j] = G[i][j]
            <4> TAKE j \in 1..Many(i)
            <4>1. CASE j <= Many(i - 1)
                BY <1>1, <2>0, <3>1, <3>2, <4>1
            <4>2. CASE j > Many(i - 1)
                BY <1>1, <2>0, <3>1, <3>2, <4>2
            <4> QED BY <1>1, <2>0, <4>1, <4>2
        <3>5. G[i] \in Seq(T) /\ Len(G[i]) = Many(i)
            BY <1>2, <2>0
        <3> DEFINE H == Append(G[i - 1], s[i])
        <3>6. H \in Seq(T) /\ Len(G[i]) = Len(H) /\ \A j \in 1..Len(G[i]) : G[i][j] = H[j]
            BY <3>3, <3>4, <3>5
        <3>7. G[i] = H
            <4> HIDE DEF G, H
            <4> QED BY <3>5, <3>6, SeqEqual
        <3> QED BY <2>2, <3>7
    <2> QED BY <2>1, <2>2
<1>4. G[0] = <<>>
    BY <1>0
<1>5. G = R(G)
    <2>1. \A i \in 0..n : G[i] = R(G)[i]
        <3> TAKE i \in 0..n
        <3>1. CASE i = 0
            BY <1>4, <3>1
        <3>2. CASE i # 0
            <4>1. i \in 1..n
                BY <1>0, <3>2
            <4> QED BY <1>3, <3>2, <4>1
        <3> QED BY <3>1, <3>2
    <2> QED BY <2>1
<1>6. F = R(F)
    BY <1>5
<1>6a. F[0] = <<>> /\ \A i \in 1..n : F[i] = IF i \in I THEN Append(F[i - 1], s[i]) ELSE F[i - 1]
    <2>1. ASSUME NEW f, f = R(f)
          PROVE  f[0] = <<>> /\ \A i \in 1..n : f[i] = IF i \in I THEN Append(f[i - 1], s[i]) ELSE f[i - 1]
        <3>1. \A i \in 0..n : f[i] = IF i = 0 THEN <<>> ELSE IF i \in I THEN Append(f[i - 1], s[i]) ELSE f[i - 1]
            BY <2>1, Zenon
        <3> QED BY <1>0, <3>1
    <2> HIDE DEF F
    <2> QED BY <1>6, <2>1
<1>8. Filtered(s, I) = F[n]
    BY Zenon DEF Filtered
<1> HIDE DEF F
<1>7. \A i \in 0..n : F[i] = G[i]
    <2> DEFINE S == {i \in 0..n : F[i] = G[i]}
    <2>1. 0 \in S
        BY <1>0, <1>4, <1>6a
    <2>2. ASSUME NEW k \in Nat, k < n, k \in S PROVE k + 1 \in S
        <3>1. k + 1 \in 1..n /\ k + 1 \in 0..n /\ k + 1 # 0 /\ (k + 1) - 1 = k
            BY <1>0, <2>2
        <3>2. F[k + 1] = IF k + 1 \in I THEN Append(F[k], s[k + 1]) ELSE F[k]
            BY <1>6a, <3>1
        <3>3. G[k + 1] = IF k + 1 \in I THEN Append(G[k], s[k + 1]) ELSE G[k]
            BY <1>3, <3>1
        <3> QED BY <2>2, <3>1, <3>2, <3>3
    <2>3. 0..n \subseteq S
        BY <1>0, <2>1, <2>2, CountUp
    <2> QED BY <2>3
<1>9. n \in 0..n /\ Filtered(s, I) = G[n]
    BY <1>0, <1>7, <1>8
<1>10. Many(n) = b - a + 1
    BY <1>0
<1>11. \A i \in 1..(b - a + 1) : G[n][i] = s[a + i - 1]
    BY <1>9, <1>10
<1> QED BY <1>2, <1>9, <1>10, <1>11 DEF IsCut

(***************************************************************************)
(* Exports.  Beside LedgerInv they need the heads to be signed and what    *)
(* the export has read to be a prefix of the table it was read from.       *)
(***************************************************************************)
\* Every head carries its own hash, signed by the gate that sealed it.
HeadSigned(h) == h.hash = EpochHash(h) /\ h.signer \in Gates /\ h.sig = Sign(h.signer, h.hash)
HeadsSigned == \A i \in DOMAIN epochs : HeadSigned(epochs[i].head)

\* What an export has read of the decisions is a prefix of the table.
ExportIsPrefix ==
    /\ Len(export.all) <= Len(entries)
    /\ \A i \in DOMAIN export.all : export.all[i] = entries[i]

ExportInv == HeadsSigned /\ ExportIsPrefix

\* The head seal_epoch writes is signed.
LEMMA SignedHeadIsSigned ==
    ASSUME NEW n, NEW first, NEW last, NEW eh, NEW prev, NEW k \in Gates
    PROVE  HeadSigned(SignedHead(n, first, last, eh, prev, k))
BY DEF HeadSigned, SignedHead, EpochHash, CoveredHead

\* The rows an export read stay where they are while the table grows.
LEMMA ExportInvStep ==
    TypeOK /\ LedgerInv /\ ExportInv /\ [Next]_vars => ExportInv'
PROOF
  <1> SUFFICES ASSUME TypeOK, LedgerInv, ExportInv, [Next]_vars
               PROVE  ExportInv'
    OBVIOUS
  <1>0. Kept /\ TypeOK'
    BY KeptStep, InvStep
  <1>1. Len(entries) \in Nat /\ Len(entries') \in Nat /\ DOMAIN entries = 1..Len(entries) /\ DOMAIN entries' = 1..Len(entries')
    BY <1>0 DEF TypeOK, LedgerTypeOK
  <1>2. Len(entries) <= Len(entries') /\ \A i \in DOMAIN entries : entries'[i] = entries[i]
    <2>1. CASE Len(entries) = 0
      BY <1>0, <1>1, <2>1 DEF Kept
    <2>2. CASE Len(entries) # 0
      <3>1. Len(entries) \in DOMAIN entries
        BY <1>1, <2>2
      <3> QED BY <1>0, <1>1, <3>1 DEF Kept
    <2> QED BY <2>1, <2>2
  <1>3. HeadsSigned'
    <2>1. ASSUME NEW g \in Gates, Seal(g), SealEpoch(g)
          PROVE  HeadsSigned'
      <3> DEFINE h == SignedHead(Len(epochs), NextUnsealedSeq, Len(entries) - 1, ChainHead, EpochChainHead, g)
      <3>1. /\ epochs' \in Seq(StoredEpoch)
            /\ Len(epochs') = Len(epochs) + 1
            /\ \A i \in DOMAIN epochs : i \in DOMAIN epochs' /\ epochs'[i] = epochs[i]
            /\ epochs'[Len(epochs) + 1] = [head |-> h, anchors |-> {}, failed |-> FALSE]
        BY <2>1, SealStep DEF TypeOK, LedgerInv
      <3>2. HeadSigned(h)
        BY SignedHeadIsSigned
      <3> HIDE DEF h
      <3>3. epochs'[Len(epochs) + 1].head = h
        BY <3>1
      <3>4. \A i \in DOMAIN epochs' : i \in DOMAIN epochs \/ i = Len(epochs) + 1
        BY <3>1 DEF TypeOK, LedgerTypeOK
      <3> QED BY <3>1, <3>2, <3>3, <3>4 DEF HeadsSigned, ExportInv, HeadSigned, EpochHash, CoveredHead, Sign
    <2>2. CASE DOMAIN epochs' = DOMAIN epochs
      BY <1>0, <2>2 DEF Kept, HeadsSigned, ExportInv, HeadSigned, EpochHash, CoveredHead, Sign
    <2>3. CASE UNCHANGED epochs
      BY <2>2, <2>3
    <2>4. ASSUME NEW g \in Gates, Keep(g) \/ ReadBackFails(g)
          PROVE  DOMAIN epochs' = DOMAIN epochs
      <3>1. StoreStep
        BY <2>4, StoreSteps
      <3>2. PICK o \in Gates, f \in BOOLEAN, r \in Loop : \E ep \in loop[o].queue : Store(o, ep, f, r)
        BY <3>1 DEF StoreStep
      <3>3. PICK ep \in loop[o].queue : Store(o, ep, f, r)
        BY <3>2
      <3> DEFINE n == ep.head.epoch + 1
      <3>4. n \in DOMAIN epochs /\ loop[o].got \in SUBSET Receipt /\ AddEpochAnchors(n, loop[o].got, f)
        BY <3>3 DEF LedgerInv, CopiesCurrent, TypeOK, Loop, Store
      <3> HIDE DEF n
      <3> QED BY <3>4, AnchorStep DEF TypeOK
    <2>5. ASSUME NEW g \in Gates, Seal(g), SealNothing
          PROVE  HeadsSigned'
      BY <2>3, <2>5 DEF SealNothing, ledgerVars
    <2>6. ASSUME NEW g \in Gates, Decide(g)
          PROVE  UNCHANGED epochs
      BY <2>6 DEF Decide, AppendDecision
    <2> QED BY <2>1, <2>2, <2>3, <2>4, <2>5, <2>6, Zenon
            DEF Next, vars, Seal, Spawn, Finish, Crash, IntervalPasses, RetryComes, StartRound, ReadHead,
                ReadPending, Skip, Ask, Report, RoundFails, ExportReads, ExportEnds
  <1>4. ExportIsPrefix'
    <2>1. export.all \in Seq(DecisionEntry)
      BY DEF TypeOK
    <2>2. CASE export' = export
      BY <1>1, <1>2, <2>1, <2>2 DEF ExportInv, ExportIsPrefix
    <2>3. CASE ExportReads
      BY <1>1, <2>3 DEF ExportReads, ExportIsPrefix
    <2>4. CASE ExportEnds
      <3>1. export'.all = <<>>
        BY <2>4 DEF ExportEnds
      <3> QED BY <1>1, <3>1 DEF ExportIsPrefix
    <2> QED BY <2>2, <2>3, <2>4, Zenon
            DEF Next, vars, Decide, Seal, Spawn, Finish, Crash, IntervalPasses, RetryComes, StartRound, ReadHead,
                ReadPending, Skip, Ask, Keep, Report, RoundFails, ReadBackFails
  <1> QED BY <1>3, <1>4 DEF ExportInv

\* Before anything is written or read.
LEMMA ExportInvInit == Init => ExportInv
BY DEF Init, LedgerInit, ExportInv, HeadsSigned, ExportIsPrefix

(***************************************************************************)
(* Why a pack verifies.  Rows sit where their numbers say, so the range    *)
(* exported is a run of the rows that had been read; epochs are in order,  *)
(* so those that meet it are a run of the epochs.  Widening the range by   *)
(* the epochs it first met leaves none of the run beginning before it.     *)
(***************************************************************************)
\* The epochs are in order and do not overlap.
LEMMA EpochsOrdered ==
    ASSUME LedgerTypeOK, EpochsPartition
    PROVE  /\ Len(epochs) \in Nat /\ DOMAIN epochs = 1..Len(epochs)
           /\ \A i \in DOMAIN epochs : epochs[i].head.first \in Nat /\ epochs[i].head.last \in Nat
           /\ \A i, j \in DOMAIN epochs : i < j => epochs[i].head.last < epochs[j].head.first
PROOF
  <1> DEFINE n == Len(epochs)
             First(i) == epochs[i].head.first
             Last(i) == epochs[i].head.last
  <1>1. n \in Nat /\ DOMAIN epochs = 1..n
    BY DEF LedgerTypeOK
  <1>2. ASSUME NEW i \in 1..n PROVE First(i) \in Nat /\ Last(i) \in Nat
    <2>1. epochs[i] \in StoredEpoch
      BY <1>1 DEF LedgerTypeOK
    <2>2. epochs[i].head \in EpochHead
      BY <2>1 DEF StoredEpoch
    <2> QED BY <2>2 DEF EpochHead
  <1>3. \A i \in 1..n : /\ First(i) <= Last(i)
                        /\ i # 1 => First(i) = Last(i - 1) + 1
    BY <1>1 DEF EpochsPartition
  <1> HIDE DEF First, Last
  <1>4. ASSUME NEW i \in 1..n, NEW j \in 1..n, i < j PROVE Last(i) < First(j)
    <2> DEFINE S == {k \in Nat : i < k /\ k <= n => Last(i) < First(k)}
    <2>1. 0 \in S
      BY <1>1
    <2>2. ASSUME NEW k \in Nat, k < n, k \in S PROVE k + 1 \in S
      <3>1. CASE i < k
        <4>1. k \in 1..n /\ k + 1 \in 1..n /\ (k + 1) - 1 = k
          BY <1>1, <2>2, <3>1
        <4>2. First(k + 1) = Last(k) + 1 /\ First(k) <= Last(k)
          BY <1>3, <4>1
        <4>3. Last(i) < First(k)
          BY <2>2, <3>1
        <4> QED BY <1>2, <4>1, <4>2, <4>3
      <3>2. CASE i = k
        <4>1. k + 1 \in 1..n /\ (k + 1) - 1 = k /\ k \in 1..n
          BY <1>1, <2>2, <3>2
        <4> QED BY <1>2, <1>3, <3>2, <4>1
      <3>3. CASE i > k
        BY <3>3
      <3> QED BY <3>1, <3>2, <3>3
    <2>3. 0..n \subseteq S
      BY <1>1, <2>1, <2>2, CountUp
    <2> QED BY <1>1, <1>4, <2>3
  <1> QED BY <1>1, <1>2, <1>4 DEF First, Last

\* What export_pack takes of the two tables: the rows of a range of
\* sequence numbers, and a run of epochs none of which begins before that
\* range and the first of which begins with it at the latest.
Contents(pack, lo, top, a, b) ==
    /\ lo <= top /\ top < Len(entries)
    /\ pack.entries \in Seq(DecisionEntry)
    /\ Len(pack.entries) = top - lo + 1
    /\ \A i \in 1..(top - lo + 1) : pack.entries[i] = entries[lo + i]
    /\ a <= b + 1 /\ b <= Len(epochs)
    /\ pack.epochs \in Seq(StoredEpoch)
    /\ Len(pack.epochs) = b - a + 1
    /\ \A i \in 1..(b - a + 1) : pack.epochs[i] = epochs[a + i - 1]
    /\ \A i \in a..b : epochs[i].head.first >= lo
    /\ a <= b => epochs[a].head.first <= lo

\* Every export that is not empty has such contents.
LEMMA PackContents ==
    ASSUME TypeOK, LedgerInv, ExportInv, NEW since \in Times, NEW until \in Times,
           InRange(export.all, since, until)
    PROVE  \E lo \in Nat, top \in Nat, a \in Nat \ {0}, b \in Nat :
              Contents(PackFor(since, until), lo, top, a, b)
PROOF
  <1> DEFINE all      == export.all
             n        == Len(all)
             m        == Len(epochs)
             First(i) == epochs[i].head.first
             Last(i)  == epochs[i].head.last
             selected == {all[i].seq : i \in {j \in DOMAIN all : all[j].ts >= since /\ all[j].ts <= until}}
             lo0      == Min(selected)
             hi0      == Max(selected)
             met      == {i \in DOMAIN epochs : Overlaps(epochs[i], lo0, hi0)}
             lows     == {lo0} \cup {epochs[i].head.first : i \in met}
             highs    == {hi0} \cup {epochs[i].head.last : i \in met}
             lo       == Min(lows)
             hi       == Max(highs)
             rows     == {i \in DOMAIN all : all[i].seq >= lo /\ all[i].seq <= hi}
             eps      == {i \in DOMAIN epochs : Overlaps(epochs[i], lo, hi)}
             pack     == PackFor(since, until)
  <1>1. /\ all \in Seq(DecisionEntry) /\ n \in Nat /\ DOMAIN all = 1..n
        /\ entries \in Seq(DecisionEntry) /\ Len(entries) \in Nat /\ n <= Len(entries)
        /\ \A i \in 1..n : all[i] = entries[i] /\ all[i].seq = i - 1
    BY DEF TypeOK, LedgerTypeOK, ExportInv, ExportIsPrefix, LedgerInv, RowsInPlace
  <1>2. /\ m \in Nat /\ DOMAIN epochs = 1..m /\ epochs \in Seq(StoredEpoch)
        /\ \A i \in 1..m : First(i) \in Nat /\ Last(i) \in Nat /\ First(i) <= Last(i) /\ Last(i) < Len(entries)
        /\ \A i, j \in 1..m : i < j => Last(i) < First(j)
        /\ \A i \in 1..m : First(i) = IF i = 1 THEN 0 ELSE Last(i - 1) + 1
    BY EpochsOrdered DEF TypeOK, LedgerTypeOK, LedgerInv, EpochsPartition
  <1>3. pack.entries = Filtered(all, rows) /\ pack.epochs = Filtered(epochs, eps)
    BY DEF PackFor, ExportPack
  <1>4. selected # {} /\ selected \in SUBSET (0..(n - 1)) /\ n - 1 \in Nat
    <2>1. PICK j \in DOMAIN all : all[j].ts >= since /\ all[j].ts <= until
      BY DEF InRange
    <2>2. all[j].seq \in selected
      BY <2>1
    <2>3. \A i \in DOMAIN all : all[i].seq \in 0..(n - 1)
      BY <1>1
    <2>4. n - 1 \in Nat
      BY <1>1
    <2> QED BY <2>2, <2>3, <2>4
  <1>5. lo0 \in 0..(n - 1) /\ hi0 \in 0..(n - 1) /\ lo0 <= hi0
    <2> HIDE DEF selected
    <2>1. selected \in SUBSET Nat
      BY <1>4
    <2>2. lo0 \in selected /\ \A y \in selected : lo0 <= y
      BY <1>4, <2>1, MinIs
    <2>3. hi0 \in selected
      BY <1>4, MaxIs
    <2> QED BY <1>4, <2>2, <2>3
  <1> HIDE DEF lo0, hi0, selected
  <1>6. \A i \in 1..m : i \in met <=> First(i) <= hi0 /\ Last(i) >= lo0
    BY <1>2 DEF Overlaps
  <1>7. /\ lo \in Nat /\ lo <= lo0 /\ \A i \in met : lo <= First(i)
        /\ lo = lo0 \/ \E k \in met : lo = First(k)
    <2>1. lows \in SUBSET Nat /\ lows # {}
      BY <1>1, <1>2, <1>5
    <2>2. lo \in lows /\ \A y \in lows : lo <= y
      <3> HIDE DEF lows
      <3> QED BY <2>1, MinIs
    <2> HIDE DEF lo
    <2> QED BY <2>1, <2>2
  <1>8. hi \in Nat /\ hi >= hi0 /\ hi < Len(entries)
    <2>1. highs \in SUBSET (0..(Len(entries) - 1)) /\ highs # {} /\ Len(entries) - 1 \in Nat
      <3>1. hi0 \in 0..(Len(entries) - 1) /\ Len(entries) - 1 \in Nat
        BY <1>1, <1>5
      <3>2. \A i \in met : epochs[i].head.last \in 0..(Len(entries) - 1)
        BY <1>1, <1>2
      <3> QED BY <3>1, <3>2
    <2>2. hi \in highs /\ \A y \in highs : hi >= y
      <3> HIDE DEF highs
      <3> QED BY <2>1, MaxIs
    <2> HIDE DEF hi
    <2> QED BY <2>1, <2>2
  <1>9. \A i \in 1..m : i \in eps <=> First(i) <= hi /\ Last(i) >= lo
    BY <1>2 DEF Overlaps
  <1> HIDE DEF lo, hi
  <1>10. \A i \in 1..n : i \in rows <=> lo + 1 <= i /\ i <= hi + 1
    BY <1>1, <1>7, <1>8
  <1> HIDE DEF met, eps, rows, First, Last, pack
  \* The rows: those of lo to hi that had been read.
  <1>11. \E top \in Nat : /\ lo <= top /\ top < Len(entries)
                          /\ pack.entries \in Seq(DecisionEntry)
                          /\ Len(pack.entries) = top - lo + 1
                          /\ \A i \in 1..(top - lo + 1) : pack.entries[i] = entries[lo + i]
    <2> DEFINE top == IF hi < n THEN hi ELSE n - 1
    <2>1. top \in Nat /\ lo <= top /\ top < n /\ lo + 1 \in Nat \ {0} /\ top + 1 \in Nat /\ lo + 1 <= (top + 1) + 1
      BY <1>1, <1>4, <1>5, <1>7, <1>8
    <2>2. \A i \in 1..n : i \in rows <=> lo + 1 <= i /\ i <= top + 1
      BY <1>1, <1>7, <1>8, <1>10
    <2> HIDE DEF top
    <2>3. /\ Filtered(all, rows) \in Seq(DecisionEntry)
          /\ Len(Filtered(all, rows)) = (top + 1) - (lo + 1) + 1
          /\ \A i \in 1..((top + 1) - (lo + 1) + 1) : Filtered(all, rows)[i] = all[(lo + 1) + i - 1]
      <3>1. top + 1 <= Len(all)
        BY <1>1, <2>1
      <3>2. IsRun(rows, Len(all), lo + 1, top + 1)
        BY <1>1, <2>1, <2>2, <3>1 DEF IsRun
      <3>3. Filtered(all, rows) \in Seq(DecisionEntry) /\ IsCut(Filtered(all, rows), all, lo + 1, top + 1)
        <4>1. all \in Seq(DecisionEntry)
          BY <1>1
        <4> HIDE DEF all
        <4> QED BY <3>2, <4>1, FilteredRun
      <3> QED BY <3>3 DEF IsCut
    <2>4. (top + 1) - (lo + 1) + 1 = top - lo + 1
      BY <1>7, <2>1
    <2>5. ASSUME NEW i \in 1..(top - lo + 1) PROVE pack.entries[i] = entries[lo + i]
      <3>1. (lo + 1) + i - 1 = lo + i /\ lo + i \in 1..n
        <4>1. i \in Nat /\ i >= 1 /\ i <= top - lo + 1
          BY <1>7, <2>1
        <4> QED BY <1>1, <1>7, <2>1, <4>1
      <3> QED BY <1>1, <1>3, <2>3, <2>4, <3>1
    <2> QED BY <1>1, <1>3, <2>1, <2>3, <2>4, <2>5
  \* The epochs: a run, since they are in order.
  <1>12. \E a \in Nat \ {0}, b \in Nat : a <= b + 1 /\ b <= m /\ \A i \in 1..m : i \in eps <=> a <= i /\ i <= b
    <2>1. CASE eps = {}
      <3>1. 1 <= 0 + 1 /\ 0 <= m /\ \A i \in 1..m : i \in eps <=> 1 <= i /\ i <= 0
        BY <1>2, <2>1
      <3> QED BY <3>1
    <2>2. CASE eps # {}
      <3>0. eps \subseteq 1..m
        BY <1>2 DEF eps
      <3>1. eps \in SUBSET Nat /\ eps \in SUBSET (0..m)
        BY <1>2, <3>0
      <3>2. PICK a \in eps : \A i \in eps : a <= i
        BY <2>2, <3>1, LeastElement
      <3>3. PICK b \in eps : \A i \in eps : b >= i
        BY <1>2, <2>2, <3>1, GreatestElement
      <3>4. a \in 1..m /\ b \in 1..m /\ a <= b
        BY <3>0, <3>2
      <3>5. ASSUME NEW i \in 1..m, a <= i, i <= b PROVE i \in eps
        <4>1. First(i) <= First(b)
          <5>1. CASE i = b
            BY <1>2, <5>1
          <5>2. CASE i < b
            <6>1. Last(i) < First(b) /\ First(i) <= Last(i)
              BY <1>2, <3>4, <5>2
            <6> QED BY <1>2, <3>4, <6>1
          <5> QED BY <1>2, <3>4, <3>5, <5>1, <5>2
        <4>2. Last(a) <= Last(i)
          <5>1. CASE i = a
            BY <1>2, <5>1
          <5>2. CASE a < i
            <6>1. Last(a) < First(i) /\ First(i) <= Last(i)
              BY <1>2, <3>4, <5>2
            <6> QED BY <1>2, <3>4, <6>1
          <5> QED BY <1>2, <3>4, <3>5, <5>1, <5>2
        <4>3. First(b) <= hi /\ Last(a) >= lo
          BY <1>9, <3>4
        <4>4. First(i) <= hi /\ Last(i) >= lo
          BY <1>2, <1>7, <1>8, <3>4, <4>1, <4>2, <4>3
        <4> QED BY <1>9, <4>4
      <3>6. a \in Nat \ {0} /\ b \in Nat /\ a <= b + 1 /\ b <= m
        BY <1>2, <3>4
      <3>7. \A i \in 1..m : i \in eps <=> a <= i /\ i <= b
        BY <3>2, <3>3, <3>5
      <3> QED BY <3>6, <3>7
    <2> QED BY <2>1, <2>2
  <1>13. PICK top \in Nat : /\ lo <= top /\ top < Len(entries)
                            /\ pack.entries \in Seq(DecisionEntry)
                            /\ Len(pack.entries) = top - lo + 1
                            /\ \A i \in 1..(top - lo + 1) : pack.entries[i] = entries[lo + i]
    BY <1>11
  <1>14. PICK a \in Nat \ {0}, b \in Nat : a <= b + 1 /\ b <= m /\ \A i \in 1..m : i \in eps <=> a <= i /\ i <= b
    BY <1>12
  <1>15. /\ pack.epochs \in Seq(StoredEpoch)
         /\ Len(pack.epochs) = b - a + 1
         /\ \A i \in 1..(b - a + 1) : pack.epochs[i] = epochs[a + i - 1]
    <2>1. IsRun(eps, Len(epochs), a, b)
      BY <1>2, <1>14 DEF IsRun
    <2>2. Filtered(epochs, eps) \in Seq(StoredEpoch) /\ IsCut(Filtered(epochs, eps), epochs, a, b)
      BY <1>2, <2>1, FilteredRun
    <2> QED BY <1>3, <2>2 DEF IsCut
  \* An epoch of the run that began before lo would have widened the range.
  <1>16. ASSUME NEW i \in a..b PROVE First(i) >= lo
    <2>0. i \in 1..m /\ i \in eps
      BY <1>2, <1>14
    <2>1. First(i) <= hi /\ Last(i) >= lo
      BY <1>9, <2>0
    <2>2. CASE lo = lo0
      <3> SUFFICES ASSUME First(i) < lo PROVE FALSE
        BY <1>2, <1>7, <2>0
      <3>1. First(i) <= hi0 /\ Last(i) >= lo0
        BY <1>2, <1>5, <2>0, <2>1, <2>2
      <3>2. i \in met
        BY <1>6, <2>0, <3>1
      <3> QED BY <1>2, <1>7, <2>0, <3>2
    <2>3. ASSUME NEW k \in met, lo = First(k) PROVE First(i) >= lo
      <3>0. k \in 1..m
        BY <1>2 DEF met
      <3>1. CASE i < k
        <4>1. Last(i) < First(k)
          BY <1>2, <2>0, <3>0, <3>1
        <4> QED BY <1>2, <2>0, <2>1, <2>3, <3>0, <4>1
      <3>2. CASE i = k
        BY <1>2, <2>0, <2>3, <3>2
      <3>3. CASE k < i
        <4>1. Last(k) < First(i) /\ First(k) <= Last(k)
          BY <1>2, <2>0, <3>0, <3>3
        <4> QED BY <1>2, <2>0, <2>3, <3>0, <4>1
      <3> QED BY <2>0, <3>0, <3>1, <3>2, <3>3
    <2> QED BY <1>7, <2>2, <2>3
  \* The epoch before the run ended before lo.
  <1>17. ASSUME a <= b PROVE First(a) <= lo
    <2>0. a \in 1..m /\ a \in eps
      BY <1>2, <1>14, <1>17
    <2>1. CASE a = 1
      <3>1. First(a) = 0
        BY <1>2, <2>0, <2>1
      <3> QED BY <1>7, <3>1
    <2>2. CASE a # 1
      <3>1. a - 1 \in 1..m /\ a - 1 \notin eps
        BY <1>2, <1>14, <1>17, <2>0, <2>2
      <3>2. First(a) = Last(a - 1) + 1
        BY <1>2, <2>0, <2>2
      <3>3. First(a - 1) <= hi
        <4>1. First(a) <= hi /\ First(a - 1) <= Last(a - 1)
          BY <1>2, <1>9, <2>0, <3>1
        <4> QED BY <1>2, <1>8, <2>0, <3>1, <3>2, <4>1
      <3>4. Last(a - 1) < lo
        BY <1>2, <1>7, <1>9, <3>1, <3>3
      <3> QED BY <1>2, <1>7, <2>0, <3>1, <3>2, <3>4
    <2> QED BY <2>1, <2>2
  <1>18. \A i \in a..b : epochs[i].head.first >= lo
    BY <1>16 DEF First
  <1>19. a <= b => epochs[a].head.first <= lo
    BY <1>17 DEF First
  <1>20. Contents(pack, lo, top, a, b)
    BY <1>2, <1>13, <1>14, <1>15, <1>18, <1>19 DEF Contents
  <1> QED BY <1>7, <1>13, <1>14, <1>20 DEF pack

\* A pack of those contents verifies, unless its last epoch was sealed after
\* the decisions were read.
LEMMA PackIsSound ==
    ASSUME TypeOK, LedgerInv, ExportInv
    PROVE  PackVerifies
PROOF
  <1> SUFFICES ASSUME NEW since \in Times, NEW until \in Times, InRange(export.all, since, until)
               PROVE  LET pack == PackFor(since, until)
                      IN /\ \A i \in DOMAIN pack.entries : pack.entries[i] = entries[FirstSeq(pack) + i]
                         /\ Torn(pack) \/ ~(PackFails(pack, Gates) \/ PackGaps(pack, Gates))
    BY DEF PackVerifies
  <1> DEFINE pack == PackFor(since, until)
  <1>0. PICK lo \in Nat, top \in Nat, a \in Nat \ {0}, b \in Nat : Contents(pack, lo, top, a, b)
    BY PackContents
  <1>1. /\ lo <= top /\ top < Len(entries)
        /\ pack.entries \in Seq(DecisionEntry)
        /\ Len(pack.entries) = top - lo + 1
        /\ \A i \in 1..(top - lo + 1) : pack.entries[i] = entries[lo + i]
        /\ a <= b + 1 /\ b <= Len(epochs)
        /\ pack.epochs \in Seq(StoredEpoch)
        /\ Len(pack.epochs) = b - a + 1
        /\ \A i \in 1..(b - a + 1) : pack.epochs[i] = epochs[a + i - 1]
        /\ \A i \in a..b : epochs[i].head.first >= lo
        /\ a <= b => epochs[a].head.first <= lo
    BY <1>0, Zenon DEF Contents
  <1> HIDE DEF pack
  <1> DEFINE n == top - lo + 1
             k == b - a + 1
  <1>2. /\ entries \in Seq(DecisionEntry) /\ Len(entries) \in Nat /\ DOMAIN entries = 1..Len(entries)
        /\ n \in Nat /\ n >= 1 /\ DOMAIN pack.entries = 1..n
        /\ \A i \in 1..n : lo + i \in 1..Len(entries) /\ pack.entries[i].seq = lo + i - 1
    <2>1. entries \in Seq(DecisionEntry) /\ Len(entries) \in Nat /\ DOMAIN entries = 1..Len(entries)
      BY DEF TypeOK, LedgerTypeOK
    <2>2. n \in Nat /\ n >= 1 /\ DOMAIN pack.entries = 1..n
      BY <1>1
    <2>3. \A i \in 1..n : lo + i \in 1..Len(entries)
      BY <1>1, <2>1
    <2>4. \A i \in 1..n : pack.entries[i].seq = lo + i - 1
      <3> TAKE i \in 1..n
      <3>1. pack.entries[i] = entries[lo + i] /\ lo + i \in DOMAIN entries
        BY <1>1, <2>1, <2>3
      <3> QED BY <3>1 DEF LedgerInv, RowsInPlace
    <2> QED BY <2>1, <2>2, <2>3, <2>4
  <1>3. FirstSeq(pack) = lo /\ LastSeq(pack) = top
    <2>1. 1 \in 1..n /\ n \in 1..n /\ lo + 1 - 1 = lo /\ lo + n - 1 = top
      BY <1>1, <1>2
    <2> QED BY <1>1, <1>2, <2>1 DEF FirstSeq, LastSeq
  <1>4. \A i \in DOMAIN pack.entries : pack.entries[i] = entries[FirstSeq(pack) + i]
    BY <1>1, <1>2, <1>3
  <1>5. DecisionsVerify(pack.entries, Gates)
    <2>0. /\ Gates # {}
          /\ \A i \in DOMAIN entries :
                /\ EntrySigned(entries[i], Gates)
                /\ IF i = 1 THEN entries[1].seq = 0 => entries[1].prev = Genesis
                            ELSE Linked(entries[i - 1], entries[i])
      BY DEF LedgerInv, ChainUnbroken, DecisionsVerify
    <2>1. ASSUME NEW i \in 1..n PROVE EntrySigned(pack.entries[i], Gates)
      <3>1. pack.entries[i] = entries[lo + i] /\ lo + i \in DOMAIN entries
        BY <1>1, <1>2
      <3> QED BY <2>0, <3>1
    <2>2. ASSUME NEW i \in 1..n, i # 1 PROVE Linked(pack.entries[i - 1], pack.entries[i])
      <3>1. /\ pack.entries[i] = entries[lo + i] /\ lo + i \in DOMAIN entries /\ lo + i # 1
            /\ i - 1 \in 1..n /\ lo + (i - 1) = (lo + i) - 1
        <4>1. pack.entries[i] = entries[lo + i] /\ lo + i \in DOMAIN entries
          BY <1>1, <1>2
        <4>2. lo + i # 1 /\ i - 1 \in 1..n /\ lo + (i - 1) = (lo + i) - 1
          BY <1>2, <2>2
        <4> QED BY <4>1, <4>2
      <3>2. pack.entries[i - 1] = entries[(lo + i) - 1]
        BY <1>1, <3>1
      <3>3. Linked(entries[(lo + i) - 1], entries[lo + i])
        BY <2>0, <3>1
      <3> QED BY <3>1, <3>2, <3>3
    <2>3. pack.entries[1].seq = 0 => pack.entries[1].prev = Genesis
      <3>1. SUFFICES ASSUME pack.entries[1].seq = 0 PROVE pack.entries[1].prev = Genesis
        OBVIOUS
      <3>2. 1 \in 1..n /\ lo + 1 - 1 = lo
        BY <1>2
      <3>3. lo = 0 /\ pack.entries[1] = entries[lo + 1] /\ lo + 1 \in DOMAIN entries
        BY <1>1, <1>2, <3>1, <3>2
      <3>4. lo + 1 = 1
        BY <3>3
      <3> QED BY <2>0, <3>1, <3>3, <3>4
    <2>4. \A i \in DOMAIN pack.entries :
             /\ EntrySigned(pack.entries[i], Gates)
             /\ IF i = 1 THEN pack.entries[1].seq = 0 => pack.entries[1].prev = Genesis
                         ELSE Linked(pack.entries[i - 1], pack.entries[i])
      BY <1>2, <2>1, <2>2, <2>3
    <2> QED BY <2>0, <2>4 DEF DecisionsVerify
  <1>6. /\ k \in Nat /\ DOMAIN pack.epochs = 1..k /\ Len(epochs) \in Nat /\ DOMAIN epochs = 1..Len(epochs)
        /\ \A i \in 1..k : a + i - 1 \in 1..Len(epochs) /\ a + i - 1 \in a..b
    <2>1. Len(epochs) \in Nat /\ DOMAIN epochs = 1..Len(epochs)
      BY DEF TypeOK, LedgerTypeOK
    <2>2. k \in Nat /\ DOMAIN pack.epochs = 1..k
      BY <1>1
    <2>3. ASSUME NEW i \in 1..k PROVE a + i - 1 \in 1..Len(epochs) /\ a + i - 1 \in a..b
      <3>1. i \in Nat /\ 1 <= i /\ i <= b - a + 1
        BY <2>2
      <3> QED BY <1>1, <2>1, <3>1
    <2> QED BY <2>1, <2>2, <2>3
  <1>7. SUFFICES ASSUME ~Torn(pack) PROVE ~PackFails(pack, Gates) /\ ~PackGaps(pack, Gates)
    BY <1>4 DEF pack
  <1>8. ASSUME NEW i \in a..b PROVE epochs[i].head.last <= top
    <2>1. k >= 1 /\ k \in 1..k /\ a + k - 1 = b /\ b \in 1..Len(epochs) /\ i \in 1..Len(epochs)
      BY <1>1, <1>6
    <2>2. pack.epochs # <<>> /\ pack.epochs[Len(pack.epochs)] = epochs[b]
      <3>1. pack.epochs[k] = epochs[b] /\ Len(pack.epochs) = k
        BY <1>1, <2>1
      <3>2. pack.epochs # <<>>
        BY <1>6, <2>1
      <3> QED BY <3>1, <3>2
    <2>3. epochs[b].head.last <= top
      <3>1. ~(epochs[b].head.last > top)
        BY <1>3, <1>7, <2>2 DEF Torn
      <3>2. epochs[b].head.last \in Nat
        BY <1>6, <2>1, HeadType DEF TypeOK
      <3> QED BY <3>1, <3>2
    <2>4. CASE i = b
      BY <2>3, <2>4
    <2>5. CASE i < b
      <3>1. epochs[i].head.last < epochs[b].head.first /\ epochs[b].head.first <= epochs[b].head.last
        BY <1>6, <2>1, <2>5, EpochsOrdered DEF TypeOK, LedgerInv, EpochsPartition
      <3>2. epochs[i].head.last \in Nat /\ epochs[b].head.first \in Nat /\ epochs[b].head.last \in Nat
        BY <1>6, <2>1, EpochsOrdered DEF TypeOK, LedgerInv
      <3> QED BY <2>3, <3>1, <3>2
    <2> QED BY <1>1, <2>4, <2>5
  <1>9. ASSUME NEW i \in 1..k PROVE EpochVerifies(pack, pack.epochs[i].head, Gates)
    <2> DEFINE j == a + i - 1
               h == epochs[j].head
    <2>1. pack.epochs[i] = epochs[j] /\ j \in DOMAIN epochs /\ j \in a..b
      BY <1>1, <1>6
    <2> HIDE DEF j
    <2>2. HeadSigned(h)
      BY <2>1 DEF ExportInv, HeadsSigned
    <2>3. h.first <= h.last /\ h.first >= lo /\ h.last <= top /\ h.entriesHead = entries[h.last + 1].hash
      BY <1>1, <1>8, <2>1 DEF LedgerInv, EpochsPartition
    <2>4. h.first \in Nat /\ h.last \in Nat
      BY <2>1, EpochsOrdered DEF TypeOK, LedgerInv
    <2> HIDE DEF h
    <2>5. \A q \in h.first..h.last : q - lo + 1 \in 1..n /\ lo + (q - lo + 1) - 1 = q
      <3> TAKE q \in h.first..h.last
      <3>1. q \in Nat /\ lo <= q /\ q <= top
        BY <2>3, <2>4
      <3> QED BY <3>1
    <2>6. h.first..h.last \subseteq SeqsOf(pack)
      <3>1. ASSUME NEW q \in h.first..h.last PROVE q \in SeqsOf(pack)
        <4>1. q - lo + 1 \in DOMAIN pack.entries /\ pack.entries[q - lo + 1].seq = q
          BY <1>2, <2>5
        <4> QED BY <4>1 DEF SeqsOf
      <3> QED BY <3>1
    <2>7. \E x \in DOMAIN pack.entries : pack.entries[x].seq = h.last /\ pack.entries[x].hash = h.entriesHead
      <3> DEFINE x == h.last - lo + 1
      <3>1. x \in 1..n /\ lo + x - 1 = h.last /\ lo + x = h.last + 1
        <4>1. h.last \in h.first..h.last
          BY <2>3, <2>4
        <4>2. x \in 1..n /\ lo + x - 1 = h.last
          BY <2>5, <4>1
        <4> QED BY <2>4, <4>2
      <3> HIDE DEF x
      <3>2. pack.entries[x].seq = h.last /\ pack.entries[x] = entries[h.last + 1]
        BY <1>1, <1>2, <3>1
      <3> QED BY <1>2, <2>3, <3>1, <3>2
    <2>8. pack.epochs[i].head = h
      BY <2>1 DEF h
    <2> QED BY <2>2, <2>3, <2>6, <2>7, <2>8 DEF EpochVerifies, HeadSigned
  <1>10. Checked(pack, Gates) = pack.epochs
    <2> DEFINE I == {i \in DOMAIN pack.epochs : EpochVerifies(pack, pack.epochs[i].head, Gates)}
               es == pack.epochs
    <2>1. IsRun(I, Len(es), 1, k)
      BY <1>1, <1>6, <1>9 DEF IsRun
    <2>2. es \in Seq(StoredEpoch)
      BY <1>1
    <2>3. Checked(pack, Gates) = Filtered(es, I)
      BY DEF Checked
    <2> HIDE DEF I, es
    <2>4. Filtered(es, I) \in Seq(StoredEpoch) /\ IsCut(Filtered(es, I), es, 1, k)
      BY <2>1, <2>2, FilteredRun
    <2>5. Len(Filtered(es, I)) = k /\ \A i \in 1..k : Filtered(es, I)[i] = es[i]
      <3>1. k - 1 + 1 = k /\ \A i \in 1..k : 1 + i - 1 = i
        BY <1>6
      <3> HIDE DEF k
      <3> QED BY <2>4, <3>1 DEF IsCut
    <2>6. Len(es) = k
      BY <1>1 DEF es
    <2>7. Filtered(es, I) = es
      BY <2>2, <2>4, <2>5, <2>6, SeqEqual
    <2> QED BY <2>3, <2>7 DEF es
  \* What the neighbours in the pack, and its first epoch, are in the table.
  <1>11. ASSUME NEW i \in 2..Len(pack.epochs)
         PROVE  LET p == pack.epochs[i - 1].head
                    h == pack.epochs[i].head
                IN h.epoch = p.epoch + 1 /\ h.prev = p.hash /\ h.first = p.last + 1
    <2> DEFINE j == a + i - 1
    <2>1. i \in 1..k /\ i - 1 \in 1..k /\ a + (i - 1) - 1 = j - 1 /\ j # 1
      BY <1>1, <1>6
    <2>2. pack.epochs[i] = epochs[j] /\ pack.epochs[i - 1] = epochs[j - 1] /\ j \in DOMAIN epochs /\ j - 1 \in DOMAIN epochs
      BY <1>1, <1>6, <2>1
    <2>3. j \in Nat
      BY <1>1
    <2> HIDE DEF j
    <2>4. /\ epochs[j].head.epoch = j - 1 /\ epochs[j - 1].head.epoch = (j - 1) - 1
          /\ epochs[j].head.first = epochs[j - 1].head.last + 1
          /\ epochs[j].head.prev = epochs[j - 1].head.hash
      BY <2>1, <2>2 DEF LedgerInv, EpochsPartition
    <2> QED BY <2>2, <2>3, <2>4
  <1>12. ASSUME pack.epochs # <<>>
         PROVE  ~NoStart(pack.epochs[1].head) /\ pack.epochs[1].head.first <= lo
    <2>1. 1 \in 1..k /\ a + 1 - 1 = a /\ a <= b
      BY <1>1, <1>6, <1>12
    <2>2. pack.epochs[1] = epochs[a] /\ a \in DOMAIN epochs
      BY <1>1, <1>6, <2>1
    <2>3. epochs[a].head.epoch = a - 1
      BY <2>2 DEF LedgerInv, EpochsPartition
    <2>4. a = 1 => epochs[a].head.first = 0 /\ epochs[a].head.prev = Genesis
      BY <2>2 DEF LedgerInv, EpochsPartition
    <2> QED BY <1>1, <2>1, <2>2, <2>3, <2>4 DEF NoStart
  <1>13. \A i \in DOMAIN pack.epochs : AnchorsName(pack.epochs[i])
    BY <1>1, <1>6 DEF LedgerInv, ReceiptsSound
  <1>14. \A i \in 2..Len(pack.epochs) : i - 1 \in 1..k /\ pack.epochs[i - 1].head.last \in Nat /\ i \in 1..k
    <2> TAKE i \in 2..Len(pack.epochs)
    <2>1. i - 1 \in 1..k /\ i \in 1..k
      BY <1>1, <1>6
    <2>2. pack.epochs[i - 1] = epochs[a + (i - 1) - 1] /\ a + (i - 1) - 1 \in DOMAIN epochs
      BY <1>1, <1>6, <2>1
    <2> QED BY <2>1, <2>2, HeadType DEF TypeOK
  <1>15. \A i \in 2..Len(pack.epochs) : ~Misfit(pack.epochs[i - 1].head, pack.epochs[i].head)
    <2> TAKE i \in 2..Len(pack.epochs)
    <2>1. /\ pack.epochs[i].head.prev = pack.epochs[i - 1].head.hash
          /\ pack.epochs[i].head.first = pack.epochs[i - 1].head.last + 1
          /\ pack.epochs[i - 1].head.last \in Nat
      BY <1>11, <1>14
    <2> QED BY <2>1 DEF Misfit
  <1>16. ~PackFails(pack, Gates)
    BY <1>5, <1>10, <1>12, <1>13, <1>15 DEF PackFails
  <1>17. ~PackGaps(pack, Gates)
    <2>1. ~(pack.epochs # <<>> /\ FirstSeq(pack) < pack.epochs[1].head.first)
      <3> SUFFICES ASSUME pack.epochs # <<>> PROVE ~(lo < pack.epochs[1].head.first)
        BY <1>3
      <3>1. pack.epochs[1].head.first <= lo
        BY <1>12
      <3>2. pack.epochs[1] = epochs[a] /\ a \in DOMAIN epochs
        <4>1. 1 \in 1..k /\ a + 1 - 1 = a
          BY <1>1, <1>6
        <4> QED BY <1>1, <1>6, <4>1
      <3>3. pack.epochs[1].head.first \in Nat
        BY <3>2, EpochsOrdered DEF TypeOK, LedgerInv
      <3> QED BY <3>1, <3>3
    <2>2. ASSUME NEW i \in 2..Len(pack.epochs)
          PROVE  ~(\/ pack.epochs[i].head.epoch # pack.epochs[i - 1].head.epoch + 1
                   \/ pack.epochs[i].head.first > pack.epochs[i - 1].head.last + 1)
      BY <1>11, <1>14, <2>2
    <2> QED BY <1>10, <2>1, <2>2 DEF PackGaps
  <1> QED BY <1>16, <1>17

\* The invariants together.
LEMMA ExportInvariant == Spec => [](TypeOK /\ LedgerInv /\ ExportInv)
BY InvInit, InvStep, ExportInvInit, ExportInvStep, PTL DEF Spec

\* Every pack an export writes is a run of the ledger that verifies without
\* failures or gaps, whatever range was asked for and whatever was appended,
\* sealed or anchored meanwhile, unless it read the two tables around a seal.
THEOREM PacksVerify == Spec => []PackVerifies
BY ExportInvariant, PackIsSound, PTL
===============================================================================
