----------------------------- MODULE LedgerStore -----------------------------
(***************************************************************************)
(* The decision ledger of crates/cloakpipe-ledger: the `decisions` and     *)
(* `epochs` tables of store.rs with the formats of decision.rs and         *)
(* epoch.rs.  Every operation here is one SQLite write transaction.        *)
(*                                                                         *)
(* SHA-256 is taken as collision free: the hash of an entry is the list of *)
(* what it covers, namely the hash in prev_hash followed by the entry's    *)
(* own content.  Genesis (64 zeros) is the empty list.  A signature is the *)
(* pair of the key and what it signed.  Each process that writes the       *)
(* ledger (a gate with its anchoring thread, `operations reconcile`) is    *)
(* named by its gate key.  Of an entry's payload only ts is kept, the one  *)
(* member exports select by; sealed_at is left out.                        *)
(***************************************************************************)
EXTENDS Integers, Sequences

CONSTANTS
    Gates,        \* gate keys, one per process that writes the ledger
    Kinds,        \* the anchor kinds: rfc3161, rekor
    Times         \* entry times, a set of integers

ASSUME LedgerAssumption == Gates # {} /\ Times \subseteq Int

VARIABLES
    entries,      \* the decisions table in seq order; row i has seq i - 1
    epochs        \* the epochs table in order; row i is epoch i - 1

ledgerVars == <<entries, epochs>>

(***************************************************************************)
(* Formats.                                                                *)
(***************************************************************************)
Genesis == <<>>
EntryContent == [seq : Nat, ts : Times, signer : Gates]
EntryHashes == Seq(EntryContent)
Covered(e) == [seq |-> e.seq, ts |-> e.ts, signer |-> e.signer]
EntryHash(e) == Append(e.prev, Covered(e))
Sign(k, digest) == [key |-> k, over |-> digest]

HeadContent == [epoch : Nat, first : Nat, last : Nat, entriesHead : EntryHashes, signer : Gates]
HeadHashes == Seq(HeadContent)
CoveredHead(h) == [epoch |-> h.epoch, first |-> h.first, last |-> h.last,
                   entriesHead |-> h.entriesHead, signer |-> h.signer]
EpochHash(h) == Append(h.prev, CoveredHead(h))

DecisionEntry ==
    [seq : Nat, ts : Times, signer : Gates, prev : EntryHashes,
     hash : EntryHashes, sig : [key : Gates, over : EntryHashes]]
EpochHead ==
    [epoch : Nat, first : Nat, last : Nat, entriesHead : EntryHashes, signer : Gates,
     prev : HeadHashes, hash : HeadHashes, sig : [key : Gates, over : HeadHashes]]
\* An external receipt: of which authority, for which artifact, who asked.
Receipt == [kind : Kinds, subject : HeadHashes, asked : Gates]
StoredEpoch == [head : EpochHead, anchors : SUBSET Receipt, failed : BOOLEAN]

LedgerInit == entries = <<>> /\ epochs = <<>>

LedgerTypeOK ==
    /\ entries \in Seq(DecisionEntry)
    /\ epochs \in Seq(StoredEpoch)

(***************************************************************************)
(* append_decision: chain, sign and insert in one immediate transaction.   *)
(***************************************************************************)
NextSeq == IF entries = <<>> THEN 0 ELSE entries[Len(entries)].seq + 1
\* Mutant: the first row instead of the last (ORDER BY seq without DESC).
ChainHead_First == IF entries = <<>> THEN Genesis ELSE entries[1].hash
ChainHead == IF entries = <<>> THEN Genesis ELSE entries[Len(entries)].hash

Link(seq, prev, t, k) ==
    LET c == [seq |-> seq, ts |-> t, signer |-> k]
        h == Append(prev, c)
    IN [seq |-> seq, ts |-> t, signer |-> k, prev |-> prev, hash |-> h, sig |-> Sign(k, h)]

AppendDecision(k, t) ==
    /\ entries' = Append(entries, Link(NextSeq, ChainHead, t, k))
    /\ UNCHANGED epochs

(***************************************************************************)
(* seal_epoch: the entries no epoch covers become the next epoch.          *)
(***************************************************************************)
HeadSeq == NextSeq - 1
NextEpoch == IF epochs = <<>> THEN 0 ELSE epochs[Len(epochs)].head.epoch + 1
\* Mutant: the last sealed entry again.
NextUnsealedSeq_Overlap == IF epochs = <<>> THEN 0 ELSE epochs[Len(epochs)].head.last
NextUnsealedSeq == IF epochs = <<>> THEN 0 ELSE epochs[Len(epochs)].head.last + 1
EpochChainHead == IF epochs = <<>> THEN Genesis ELSE epochs[Len(epochs)].head.hash

SignedHead(n, first, last, entriesHead, prev, k) ==
    LET c == [epoch |-> n, first |-> first, last |-> last, entriesHead |-> entriesHead, signer |-> k]
        h == Append(prev, c)
    IN [epoch |-> n, first |-> first, last |-> last, entriesHead |-> entriesHead, signer |-> k,
        prev |-> prev, hash |-> h, sig |-> Sign(k, h)]

SealEpoch(k) ==
    /\ HeadSeq >= NextUnsealedSeq
    /\ epochs' = Append(epochs,
           [head    |-> SignedHead(NextEpoch, NextUnsealedSeq, HeadSeq, ChainHead, EpochChainHead, k),
            anchors |-> {}, failed |-> FALSE])
    /\ UNCHANGED entries

(* `None`: nothing new. *)
SealNothing == HeadSeq < NextUnsealedSeq /\ UNCHANGED ledgerVars

(***************************************************************************)
(* add_epoch_anchors: a receipt of a kind the epoch already holds is       *)
(* dropped; last_error is the outcome of this attempt.  `i` is the row of  *)
(* an epoch the caller has read, so NoEpoch cannot happen.                 *)
(***************************************************************************)
Holds(ep, kind) == \E r \in ep.anchors : r.kind = kind

\* Mutants: add without looking; store the receipts of this attempt only.
AddEpochAnchors_Blind(i, receipts, failed) ==
    /\ epochs' = [epochs EXCEPT ![i].anchors = @ \cup receipts, ![i].failed = failed]
    /\ UNCHANGED entries
AddEpochAnchors_Replace(i, receipts, failed) ==
    /\ epochs' = [epochs EXCEPT ![i].anchors = receipts, ![i].failed = failed]
    /\ UNCHANGED entries
AddEpochAnchors(i, receipts, failed) ==
    /\ epochs' = [epochs EXCEPT
           ![i].anchors = @ \cup {r \in receipts : ~Holds(epochs[i], r.kind)},
           ![i].failed = failed]
    /\ UNCHANGED entries
===============================================================================
