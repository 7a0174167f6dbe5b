--------------------------- MODULE EvidenceBundle ---------------------------
(***************************************************************************)
(* Evidence bundles: the hop ledger of one tenant (ledger/store.rs append, *)
(* chain.rs, record.rs), its export, sealing and anchoring                 *)
(* (ledger/export.rs), and the standalone verifier (verify/verify.rs,      *)
(* verify/anchor.rs, verify/main.rs).  Operators only: EvidenceFlow runs   *)
(* them.                                                                   *)
(*                                                                         *)
(* The canonical bytes of a record are the record of the fields they       *)
(* spell; hex that does not decode is not modelled.  Sequences start at 1, *)
(* the code's seq at 0.                                                    *)
(***************************************************************************)
EXTENDS AnchorTokens, FiniteSetsExt

GenesisHash == <<"genesis">>
HashRecordBytes(canonical) == <<"sha", canonical>>
None == <<>>
NoLogKey == "no log key"
BundleVersion == 4
Operator == "default"

(***************************************************************************)
(* The hop ledger.                                                         *)
(***************************************************************************)
Canonical(seq, ts, hop, release, pack, prev) ==
    [seq |-> seq, ts |-> ts, hop |-> hop, release |-> release, pack |-> pack, prev |-> prev]
\* record_to_bundle_record: the wire form, hash and link beside the bytes.
WireRecord(canonical) ==
    [seq |-> canonical.seq, canonical |-> canonical, hash |-> HashRecordBytes(canonical), prev |-> canonical.prev]
TipOf(records) == IF records = <<>> THEN GenesisHash ELSE Last(records).hash

\* LedgerStore::append: refused unless the caller's seq is the next one.
NextSeq(store) == Len(store)
AppendRecord(store, ts, hop, release, pack) ==
    Append(store, WireRecord(Canonical(NextSeq(store), ts, hop, release, pack, TipOf(store))))

(***************************************************************************)
(* The manifest: build_manifest signs everything but the signature.        *)
(***************************************************************************)
FirstSeqOf(records) == IF records = <<>> THEN 0 ELSE records[1].seq
LastSeqOf(records) == IF records = <<>> THEN 0 ELSE Last(records).seq

\* Mutant: the last sequence number is the number of records.
UnsignedManifest_CountIsLast(b, id) ==
    [id |-> id, count |-> Len(b.records), first |-> FirstSeqOf(b.records), last |-> Len(b.records),
     heads |-> [i \in DOMAIN b.heads |-> b.heads[i].batch],
     anchors |-> [i \in DOMAIN b.receipts |-> <<b.receipts[i].kind, b.receipts[i].batch>>],
     operator |-> Operator, tip |-> TipOf(b.records)]
UnsignedManifest(b, id) ==
    [id |-> id, count |-> Len(b.records), first |-> FirstSeqOf(b.records), last |-> LastSeqOf(b.records),
     heads |-> [i \in DOMAIN b.heads |-> b.heads[i].batch],
     anchors |-> [i \in DOMAIN b.receipts |-> <<b.receipts[i].kind, b.receipts[i].batch>>],
     operator |-> Operator, tip |-> TipOf(b.records)]
BuildManifest(b, id, key) ==
    LET m == UnsignedManifest(b, id) IN [body |-> m, keyid |-> Operator, sig |-> Signed(key, m)]

\* The entries of `s` in the positions `kept`, in order: an iterator's filter.
Filtered(s, kept) ==
    LET upTo[i \in 0..Len(s)] ==
            IF i = 0 THEN <<>> ELSE IF i \in kept THEN Append(upTo[i - 1], s[i]) ELSE upTo[i - 1]
    IN upTo[Len(s)]

\* export_bundle, and export_range with its half-open range of times.
ExportBundle(records, id, key) ==
    LET b == [version |-> BundleVersion, records |-> records, proofs |-> <<>>, heads |-> <<>>,
              keys |-> [k \in {Operator} |-> key], receipts |-> <<>>, packs |-> {}, manifest |-> None]
    IN [b EXCEPT !.manifest = BuildManifest(b, id, key)]
ExportRange(records, from, until, id, key) ==
    ExportBundle(Filtered(records, {i \in DOMAIN records : records[i].canonical.ts >= from /\ records[i].canonical.ts < until}),
                 id, key)

\* check_operator
CheckOperator(b, key) == b.manifest # None /\ b.keys[b.manifest.body.operator] = key

(***************************************************************************)
(* seal_batch: one head over every record, a proof for each.               *)
(***************************************************************************)
UnsignedHead(h) == [batch |-> h.batch, first |-> h.first, last |-> h.last, root |-> h.root, time |-> h.time]
HeadBytes(h) == <<"head", h>>
SubjectHash(h) == <<"sha", HeadBytes(h)>>
MayBeSealed(b, key, time) ==
    /\ CheckOperator(b, key)
    /\ b.heads = <<>> /\ b.receipts = <<>> /\ b.records # <<>>
    /\ \A i \in DOMAIN b.records :
          b.records[i].seq = b.records[1].seq + i - 1 /\ b.records[i].canonical.ts <= time

SealBatch(b, key, batch, time) ==
    LET tree   == FromHashedLeaves([i \in DOMAIN b.records |-> b.records[i].hash])
        head   == [batch |-> batch, first |-> FirstSeqOf(b.records), last |-> LastSeqOf(b.records),
                   root |-> Root(tree), time |-> time]
        signed == [batch |-> batch, first |-> head.first, last |-> head.last, root |-> head.root, time |-> time,
                   keyid |-> b.manifest.body.operator, sig |-> Signed(key, head)]
        proofs == [i \in DOMAIN b.records |-> [batch |-> batch, index |-> i - 1, steps |-> InclusionProof(tree, i - 1)]]
        sealed == [b EXCEPT !.heads = <<signed>>, !.proofs = proofs]
    IN [sealed EXCEPT !.manifest = BuildManifest(sealed, b.manifest.body.id, key)]

\* attach_receipts: receipts of heads the bundle has, and the manifest again.
MayBeAttached(b, receipts, key) ==
    /\ CheckOperator(b, key)
    /\ \A i \in DOMAIN receipts : \E j \in DOMAIN b.heads : b.heads[j].batch = receipts[i].batch
AttachReceipts(b, receipts, key) ==
    LET with == [b EXCEPT !.receipts = @ \o receipts]
    IN [with EXCEPT !.manifest = BuildManifest(with, b.manifest.body.id, key)]

\* cloakpipe anchor, seal_time: `now` backed off by the skew, but never before
\* the newest record and never after `now`.
NewestRecord(b) == Max({b.records[i].canonical.ts : i \in DOMAIN b.records})
SealTime(b, now, skew) ==
    IF b.records # <<>> /\ NewestRecord(b) > now - skew
    THEN Min({NewestRecord(b), now}) ELSE now - skew

(***************************************************************************)
(* The verifier: verify_all.                                               *)
(***************************************************************************)
VerifyChain(b) ==
    \A i \in DOMAIN b.records :
        LET r == b.records[i]
        IN /\ r.seq = i - 1
           /\ r.hash = HashRecordBytes(r.canonical)
           /\ r.prev = IF i = 1 THEN GenesisHash ELSE b.records[i - 1].hash
VerifySigs(b) ==
    \A i \in DOMAIN b.heads :
        LET h == b.heads[i]
        IN h.keyid \in DOMAIN b.keys /\ h.sig = Signed(b.keys[h.keyid], UnsignedHead(h))
VerifyAll(b) == b.version \in 1..BundleVersion /\ VerifyChain(b) /\ VerifySigs(b)

(***************************************************************************)
(* verify_anchors_with_trust.  trust is [tsa, rekor]: a list of root       *)
(* certificates and the key of the log, None and NoLogKey when not given.  *)
(***************************************************************************)
\* check_head_structure
CheckHeads(b) ==
    \A i \in DOMAIN b.heads :
        /\ b.heads[i].first <= b.heads[i].last
        /\ \A j \in DOMAIN b.heads \ {i} :
              /\ b.heads[i].batch # b.heads[j].batch
              /\ b.heads[i].last < b.heads[j].first \/ b.heads[j].last < b.heads[i].first
\* Where the heads of a batch and those over a position are: the first counts.
HeadsOf(b, batch) == {i \in DOMAIN b.heads : b.heads[i].batch = batch}
HeadsOver(b, seq) == {i \in DOMAIN b.heads : b.heads[i].first <= seq /\ seq <= b.heads[i].last}

\* check_anchor_time: nothing under the head is stamped after the anchor.
CheckAnchorTime(b, head, time) ==
    /\ head.time <= time
    /\ \A i \in DOMAIN b.records :
          head.first <= b.records[i].seq /\ b.records[i].seq <= head.last => b.records[i].canonical.ts <= time

\* Older receipts, by an in-process authority or log whose key they carry.
LocalReceiptVerifies(b, r, head) ==
    /\ r.subject = SubjectHash(head)
    /\ \/ r.kind = "tsa" /\ r.token.sig = Signed(r.key, r.token.body)
       \/ /\ r.kind = "log" /\ r.token.sig = Signed(r.key, r.token.body)
          /\ VerifyLogInclusion(SubjectHash(head), r.token.steps, r.token.body.root)
    /\ head.time <= r.time
\* External receipts: only under the verifier's own trust inputs.
Rfc3161Verifies(b, r, head, trust) ==
    /\ trust.tsa # None
    /\ r.subject = SubjectHash(head)
    /\ VerifyTimestampResponse(r.token, SubjectHash(head), r.nonce, trust.tsa)
    /\ CheckAnchorTime(b, head, r.token.tst.time)
RekorVerifies(b, r, head, trust) ==
    /\ trust.rekor # NoLogKey
    /\ r.subject = SubjectHash(head)
    /\ head.keyid \in DOMAIN b.keys
    /\ VerifyRekorEntry(r.token.uuid, r.token, trust.rekor, HeadBytes(head), b.keys[head.keyid])
    /\ CheckAnchorTime(b, head, r.token.time)
ReceiptVerifies(b, r, trust) ==
    LET heads == HeadsOf(b, r.batch)
        head  == b.heads[Min(heads)]
    IN /\ heads # {}
       /\ CASE r.kind = "rfc3161" -> Rfc3161Verifies(b, r, head, trust)
            [] r.kind = "rekor"   -> RekorVerifies(b, r, head, trust)
            [] OTHER              -> LocalReceiptVerifies(b, r, head)

\* check_coverage: every head has an anchor of every external kind in play,
\* and every record is under a head, by its own proof.
\* Mutant: the proofs of the records are left to verify_inclusion_proofs.
CheckCoverage_NoProofs(b, kinds) ==
    /\ b.heads # <<>>
    /\ \A i \in DOMAIN b.heads, k \in kinds :
          \E j \in DOMAIN b.receipts : b.receipts[j].batch = b.heads[i].batch /\ b.receipts[j].kind = k
    /\ \A i \in DOMAIN b.records : HeadsOver(b, b.records[i].seq) # {}
CheckCoverage(b, kinds) ==
    /\ b.heads # <<>>
    /\ \A i \in DOMAIN b.heads, k \in kinds :
          \E j \in DOMAIN b.receipts : b.receipts[j].batch = b.heads[i].batch /\ b.receipts[j].kind = k
    /\ \A i \in DOMAIN b.records :
          LET r == b.records[i]
              over == HeadsOver(b, r.seq)
              head == b.heads[Min(over)]
          IN /\ over # {} /\ i \in DOMAIN b.proofs
             /\ b.proofs[i].batch = head.batch /\ b.proofs[i].index = r.seq - head.first
             /\ VerifyMerkleProof(r.hash, b.proofs[i].steps, head.root)

Kinds(b) == {b.receipts[i].kind : i \in DOMAIN b.receipts}
ExternalKinds(b, trust) ==
    (Kinds(b) \cap {"rfc3161", "rekor"})
      \cup (IF trust.tsa # None THEN {"rfc3161"} ELSE {}) \cup (IF trust.rekor # NoLogKey THEN {"rekor"} ELSE {})
VerifyAnchors(b, trust) ==
    \/ b.version < 2 /\ b.receipts = <<>> /\ trust.tsa = None /\ trust.rekor = NoLogKey
    \/ /\ CheckHeads(b)
       /\ \A i \in DOMAIN b.receipts : ReceiptVerifies(b, b.receipts[i], trust)
       /\ ExternalKinds(b, trust) # {} => CheckCoverage(b, ExternalKinds(b, trust))

\* verify_inclusion_proofs: each proof against the head over its position.
\* Indexing past the records panics: more proofs than records never passes.
VerifyInclusionProofs(b) ==
    \/ b.version < 2
    \/ /\ CheckHeads(b)
       /\ \A i \in DOMAIN b.proofs :
             LET over == HeadsOver(b, i - 1)
                 head == b.heads[Min(over)]
             IN /\ over # {} /\ head.batch = b.proofs[i].batch
                /\ i \in DOMAIN b.records
                /\ VerifyMerkleProof(b.records[i].hash, b.proofs[i].steps, head.root)

(***************************************************************************)
(* verify_manifest and check_trusted_signer.                               *)
(***************************************************************************)
VerifyManifest(b) ==
    \/ b.version < 3
    \/ /\ b.manifest # None
       /\ b.manifest.keyid \in DOMAIN b.keys
       /\ b.manifest.sig = Signed(b.keys[b.manifest.keyid], b.manifest.body)
       /\ LET m == b.manifest.body
          IN /\ m.count = Len(b.records)
             /\ m.first = FirstSeqOf(b.records) /\ m.last = LastSeqOf(b.records)
             /\ b.version >= 4 => m.tip = TipOf(b.records)
             /\ \A i \in DOMAIN m.heads : HeadsOf(b, m.heads[i]) # {}
             /\ \A i \in DOMAIN m.anchors :
                   \E j \in DOMAIN b.receipts : <<b.receipts[j].kind, b.receipts[j].batch>> = m.anchors[i]
             /\ b.packs # {} => \A i \in DOMAIN b.records : b.records[i].canonical.pack \in b.packs
CheckTrustedSigner(b, pinned) ==
    /\ b.manifest # None
    /\ b.manifest.keyid \in DOMAIN pinned /\ b.manifest.keyid \in DOMAIN b.keys
    /\ b.keys[b.manifest.keyid] = pinned[b.manifest.keyid]

(***************************************************************************)
(* cloakpipe-verify all: "trusted", "unpinned", "unsigned" or "fail".      *)
(***************************************************************************)
RunAllV2(b, trust) ==
    VerifyAll(b) /\ VerifyAnchors(b, trust) /\ VerifyInclusionProofs(b) /\ VerifyManifest(b)
SignerStatus(b, pinned) ==
    CASE b.manifest = None                             -> "unsigned"
      [] b.manifest # None /\ DOMAIN pinned = {}       -> "unpinned"
      [] CheckTrustedSigner(b, pinned)                 -> "trusted"
      [] OTHER                                         -> "fail"
All(b, trust, pinned) ==
    IF b.version >= 2 \/ trust.tsa # None \/ trust.rekor # NoLogKey \/ b.receipts # <<>>
    THEN IF RunAllV2(b, trust) THEN SignerStatus(b, pinned) ELSE "fail"
    ELSE IF VerifyAll(b) THEN "unsigned" ELSE "fail"

\* The self-check of `cloakpipe anchor`, before it writes the bundle.
SelfCheck(b, trust) == VerifyAll(b) /\ VerifyManifest(b) /\ VerifyAnchors(b, trust)
=============================================================================
