------------------------------ MODULE AuditPack ------------------------------
(***************************************************************************)
(* `cloakpipe ledger export` (ledger/audit_pack.rs, export_pack) and the   *)
(* offline verifier of what it writes (verify/gate_pack.rs, verify_pack,   *)
(* and verify/decisions.rs, verify_decisions), as operators: neither keeps *)
(* state.  An export reads the two tables one after the other, so it is    *)
(* given two values that need not belong to one state of the ledger.       *)
(*                                                                         *)
(* A pack travels unaltered, so the digests of its files and its own       *)
(* signature hold; the checks that compare an anchor's time with ts and    *)
(* sealed_at are left out.                                                 *)
(***************************************************************************)
EXTENDS LedgerStore, FiniteSets, FiniteSetsExt

\* The rows of `s` in the positions `kept`, in order: an iterator's filter.
Filtered(s, kept) ==
    LET upTo[i \in 0..Len(s)] ==
            IF i = 0 THEN <<>> ELSE IF i \in kept THEN Append(upTo[i - 1], s[i]) ELSE upTo[i - 1]
    IN upTo[Len(s)]

(***************************************************************************)
(* export_pack.  Epochs are disjoint and in order, so widening the range   *)
(* by one epoch never makes it meet another: one pass is the same as       *)
(* widening by every epoch the selected range meets.                       *)
(***************************************************************************)
Overlaps(ep, lo, hi) == ep.head.first <= hi /\ ep.head.last >= lo

\* Mutant: the range asked for, not widened to whole epochs.
ExportPack_Narrow(all, eps, since, until) ==
    LET selected == {all[i].seq : i \in {j \in DOMAIN all : all[j].ts >= since /\ all[j].ts <= until}}
    IN [entries |-> SelectSeq(all, LAMBDA e : e.seq >= Min(selected) /\ e.seq <= Max(selected)),
        epochs  |-> SelectSeq(eps, LAMBDA ep : Overlaps(ep, Min(selected), Max(selected)))]
ExportPack(all, eps, since, until) ==
    LET selected == {all[i].seq : i \in {j \in DOMAIN all : all[j].ts >= since /\ all[j].ts <= until}}
        lo0      == Min(selected)
        hi0      == Max(selected)
        met      == {i \in DOMAIN eps : Overlaps(eps[i], lo0, hi0)}
        lo       == Min({lo0} \cup {eps[i].head.first : i \in met})
        hi       == Max({hi0} \cup {eps[i].head.last : i \in met})
        within   == Filtered(all, {i \in DOMAIN all : all[i].seq >= lo /\ all[i].seq <= hi})
        included == Filtered(eps, {i \in DOMAIN eps : Overlaps(eps[i], lo, hi)})
    IN [entries |-> within, epochs |-> included]

\* There is something to export (else ExportError::Empty, or an empty pack).
InRange(all, since, until) == \E i \in DOMAIN all : all[i].ts >= since /\ all[i].ts <= until

(***************************************************************************)
(* verify_decisions: the entries link up from genesis, or from the first   *)
(* one's prev_hash, and each is signed by a trusted key.                   *)
(***************************************************************************)
EntrySigned(e, trusted) == e.hash = EntryHash(e) /\ e.signer \in trusted /\ e.sig = Sign(e.signer, e.hash)
Linked(p, e) == e.seq = p.seq + 1 /\ e.prev = p.hash
DecisionsVerify(es, trusted) ==
    /\ trusted # {}
    /\ \A i \in DOMAIN es :
          /\ EntrySigned(es[i], trusted)
          /\ IF i = 1 THEN es[1].seq = 0 => es[1].prev = Genesis
                      ELSE Linked(es[i - 1], es[i])

(***************************************************************************)
(* verify_pack.                                                            *)
(***************************************************************************)
SeqsOf(pack) == {pack.entries[i].seq : i \in DOMAIN pack.entries}
FirstSeq(pack) == pack.entries[1].seq
LastSeq(pack) == pack.entries[Len(pack.entries)].seq

\* check_epoch: signed, all its entries in the pack, sealing the last one.
EpochVerifies(pack, h, trusted) ==
    /\ h.first <= h.last
    /\ h.hash = EpochHash(h)
    /\ h.signer \in trusted /\ h.sig = Sign(h.signer, h.hash)
    /\ h.first..h.last \subseteq SeqsOf(pack)
    /\ \E i \in DOMAIN pack.entries : pack.entries[i].seq = h.last /\ pack.entries[i].hash = h.entriesHead

\* The epochs later checks go on with: one that fails is skipped.
Checked(pack, trusted) ==
    Filtered(pack.epochs, {i \in DOMAIN pack.epochs : EpochVerifies(pack, pack.epochs[i].head, trusted)})

\* check_anchors: a receipt must be for this very head.
AnchorsName(ep) == \A r \in ep.anchors : r.subject = ep.head.hash

\* The pairs of epochs that follow each other in the pack, and the first one.
Misfit(p, h) == \/ h.epoch = p.epoch + 1 /\ h.prev # p.hash
                \/ h.first < p.last + 1
NoStart(h) == h.epoch = 0 /\ (h.first # 0 \/ h.prev # Genesis)

PackFails(pack, trusted) ==
    LET eps == Checked(pack, trusted)
    IN \/ ~DecisionsVerify(pack.entries, trusted)
       \/ Len(eps) # Len(pack.epochs)
       \/ eps # <<>> /\ NoStart(eps[1].head)
       \/ \E i \in DOMAIN eps : ~AnchorsName(eps[i])
       \/ \E i \in 2..Len(eps) : Misfit(eps[i - 1].head, eps[i].head)

\* Gaps other than an epoch that has no anchor yet.
PackGaps(pack, trusted) ==
    LET eps == Checked(pack, trusted)
    IN \/ eps # <<>> /\ FirstSeq(pack) < eps[1].head.first
       \/ \E i \in 2..Len(eps) : \/ eps[i].head.epoch # eps[i - 1].head.epoch + 1
                                 \/ eps[i].head.first > eps[i - 1].head.last + 1
Unanchored(pack, trusted) ==
    LET eps == Checked(pack, trusted) IN \E i \in DOMAIN eps : eps[i].anchors = {}
UnanchoredTail(pack, trusted) ==
    LET eps == Checked(pack, trusted)
    IN IF eps = <<>> THEN TRUE ELSE eps[Len(eps)].head.last + 1 <= LastSeq(pack)

\* PackReport::ok
PackOK(pack, trusted, requireAnchors) ==
    /\ ~PackFails(pack, trusted)
    /\ ~PackGaps(pack, trusted)
    /\ ~Unanchored(pack, trusted)
    /\ ~(requireAnchors /\ UnanchoredTail(pack, trusted))
===============================================================================
