---------------------------- MODULE EvidenceFlow ----------------------------
(***************************************************************************)
(* The life of an evidence bundle.  A host records hops, exports bundles   *)
(* and anchors them (`cloakpipe anchor`, cli/anchor.rs), asking a          *)
(* time-stamp authority and a Rekor log that answer late, twice, with an   *)
(* old answer or not at all.  The host may be restored from a backup, so   *)
(* two exports may tell two histories.  An auditor then gets the files:    *)
(* one of them, one that lost something, or one put together from parts of *)
(* two, and runs `cloakpipe-verify all`.                                   *)
(***************************************************************************)
EXTENDS EvidenceBundle, TLC

CONSTANTS
    Hops,           \* what a record may be about
    MaxRecords, MaxClock, MaxBundles, MaxRequests, MaxAhead, MaxRestores,
    Asked,          \* the sets of services a command may ask (--no-tsa, --no-rekor)
    Batches,        \* --batch-id; the default holds the time and is never shared by two histories
    Skew,           \* --clock-skew-secs
    OperatorKey, LogKey,
    TsaCert, TsaPool, TsaRoots    \* the authority's certificate, what it sends, the roots trusted

ASSUME FlowAssumption ==
    /\ {MaxRecords, MaxClock, MaxBundles, MaxRequests, MaxAhead, MaxRestores, Skew} \subseteq Nat /\ MaxClock >= 1
    /\ Asked \subseteq SUBSET {"rfc3161", "rekor"}
    /\ TsaRoots # None /\ LogKey # NoLogKey      \* no certificate at all is no trust input (from_pem)

VARIABLES
    store,          \* the hop ledger
    restores,       \* how often it was put back from a backup
    clock,          \* the clock of the anchoring services
    ahead,          \* how far the host's clock runs ahead of it
    archive,        \* the bundles written, in order
    job,            \* the running `cloakpipe anchor`, or NoJob
    requests,       \* anchor requests made (nonces are never reused)
    replies,        \* what the authority answered so far
    log,            \* the Rekor log: bodies and the times they were integrated
    anchored,       \* history: what was under each head a service anchored, and when
    refused,        \* how a self-check of `cloakpipe anchor` last failed
    audit           \* the host is gone and the auditor has its files

flowVars == <<store, restores, clock, ahead, archive, job, requests, replies, log, anchored, refused, audit>>

NoJob == [on |-> FALSE]
NotRefused == [chain |-> FALSE, ahead |-> 0, late |-> FALSE]
Host == clock + ahead
Kinds2 == {"rfc3161", "rekor"}
TrustFor(kinds) == [tsa   |-> IF "rfc3161" \in kinds THEN TsaRoots ELSE None,
                    rekor |-> IF "rekor" \in kinds THEN LogKey ELSE NoLogKey]

FlowInit ==
    /\ store = <<>> /\ restores = 0 /\ clock = 1 /\ ahead \in 0..MaxAhead
    /\ archive = <<>> /\ job = NoJob /\ requests = 0 /\ replies = {} /\ log = <<>>
    /\ anchored = {} /\ refused = NotRefused /\ audit = FALSE

(***************************************************************************)
(* The host.  `cloakpipe anchor` has read its input before it asks anyone, *)
(* so that only the clock matters to it and what else the host does is     *)
(* taken as done before or after.                                          *)
(***************************************************************************)
RecordHop(hop) ==
    /\ ~audit /\ ~job.on /\ Len(store) < MaxRecords
    /\ store' = AppendRecord(store, Host, hop, "release", "pack")
    /\ UNCHANGED <<restores, clock, ahead, archive, job, requests, replies, log, anchored, refused, audit>>

ClockTicks ==
    /\ ~audit /\ clock < MaxClock
    /\ clock' = clock + 1
    /\ UNCHANGED <<store, restores, ahead, archive, job, requests, replies, log, anchored, refused, audit>>

\* The database file is put back from a copy made earlier.
RestoresBackup(k) ==
    /\ ~audit /\ ~job.on /\ restores < MaxRestores
    /\ store' = SubSeq(store, 1, k) /\ restores' = restores + 1
    /\ UNCHANGED <<clock, ahead, archive, job, requests, replies, log, anchored, refused, audit>>

Exports(from) ==
    /\ ~audit /\ ~job.on /\ Len(archive) < MaxBundles
    /\ archive' = Append(archive, IF from = 0 THEN ExportBundle(store, Len(archive), OperatorKey)
                                  ELSE ExportRange(store, from, MaxClock + MaxAhead + 1, Len(archive), OperatorKey))
    /\ UNCHANGED <<store, restores, clock, ahead, job, requests, replies, log, anchored, refused, audit>>

(***************************************************************************)
(* cloakpipe anchor: seal, ask each service, attach, check, write.         *)
(***************************************************************************)
Refuses == job' = NoJob /\ UNCHANGED refused

StartsAnchor(i, kinds, batch) ==
    /\ ~audit /\ ~job.on /\ requests < MaxRequests
    /\ requests' = requests + 1
    /\ LET b    == archive[i]
           time == SealTime(b, Host, Skew)
       IN IF MayBeSealed(b, OperatorKey, time)
          THEN /\ job' = [on |-> TRUE, bundle |-> SealBatch(b, OperatorKey, batch, time), kinds |-> kinds,
                          receipts |-> <<>>, nonce |-> requests', since |-> clock, file |-> i]
               /\ UNCHANGED refused
          ELSE Refuses
    /\ UNCHANGED <<store, restores, clock, ahead, archive, replies, log, anchored, audit>>

\* The kinds are asked one after the other: the authority, then the log.
Asks(kind) == job.on /\ kind \in job.kinds
              /\ Len(job.receipts) = (IF kind = "rekor" /\ "rfc3161" \in job.kinds THEN 1 ELSE 0)
JobHead == job.bundle.heads[1]
Witness(kind, time) == [kind |-> kind, records |-> job.bundle.records, time |-> time, since |-> job.since]

\* The authority's answer, this time's or one it gave before.
TsaAnswers(tsr) ==
    /\ Asks("rfc3161")
    /\ replies' = replies \cup {tsr}
    /\ IF VerifyTimestampResponse(tsr, SubjectHash(JobHead), job.nonce, TsaRoots)
       THEN /\ job' = [job EXCEPT !.receipts = Append(@, TsaReceipt(JobHead.batch, SubjectHash(JobHead), job.nonce, tsr))]
            /\ anchored' = anchored \cup {Witness("rfc3161", tsr.tst.time)}
            /\ UNCHANGED refused
       ELSE Refuses /\ UNCHANGED anchored
    /\ UNCHANGED <<store, restores, clock, ahead, archive, requests, log, audit>>
TsaReplies ==
    job.on /\ \E tsr \in replies \cup {TimestampResponse(TsaCert, TsaPool, SubjectHash(JobHead), job.nonce, clock)} : TsaAnswers(tsr)

\* The log integrates the entry, or answers 409 and the one it has.
RekorAnswers ==
    /\ Asks("rekor")
    /\ LET body   == EntryBody(HeadBytes(JobHead), OperatorKey)
           had    == {i \in DOMAIN log : log[i].body = body}
           grown  == IF had = {} THEN Append(log, [body |-> body, time |-> clock]) ELSE log
           i      == IF had = {} THEN Len(grown) ELSE Min(had)
           entry  == RekorEntry(LogKey, [j \in DOMAIN grown |-> grown[j].body], i, grown[i].time)
       IN /\ log' = grown
          /\ IF VerifyRekorEntry(entry.uuid, entry, LogKey, HeadBytes(JobHead), OperatorKey)
             THEN /\ job' = [job EXCEPT !.receipts = Append(@, RekorReceipt(JobHead.batch, SubjectHash(JobHead), entry))]
                  /\ anchored' = anchored \cup {Witness("rekor", entry.time)}
                  /\ UNCHANGED refused
             ELSE Refuses /\ UNCHANGED anchored
    /\ UNCHANGED <<store, restores, clock, ahead, archive, requests, replies, audit>>

\* No answer in time, a failing one, or the command is killed.  The log may
\* have integrated the entry all the same.
AnchorFails ==
    /\ job.on
    /\ Refuses
    /\ UNCHANGED <<store, restores, clock, ahead, archive, requests, replies, log, anchored, audit>>

\* Here --out is the file that was read.
AnchorTimes(receipts) == {IF receipts[i].kind = "rekor" THEN receipts[i].token.time ELSE receipts[i].token.tst.time
                            : i \in DOMAIN receipts}
FinishesAnchor ==
    /\ job.on /\ Len(job.receipts) = Cardinality(job.kinds)
    /\ LET b == AttachReceipts(job.bundle, job.receipts, OperatorKey)
       IN IF MayBeAttached(job.bundle, job.receipts, OperatorKey) /\ SelfCheck(b, TrustFor(job.kinds))
          THEN archive' = [archive EXCEPT ![job.file] = b] /\ job' = NoJob /\ UNCHANGED refused
          ELSE /\ job' = NoJob
               /\ refused' = [chain |-> VerifyAll(b) /\ VerifyManifest(b), ahead |-> ahead,
                              late |-> NewestRecord(b) > Min(AnchorTimes(b.receipts))]
               /\ UNCHANGED archive
    /\ UNCHANGED <<store, restores, clock, ahead, requests, replies, log, anchored, audit>>

(***************************************************************************)
(* The auditor.  Only the files are there: the host is gone.               *)
(***************************************************************************)
Parts == {"records", "proofs", "heads", "receipts", "manifest"}
Assembled(a, b, parts) == [p \in DOMAIN a |-> IF p \in parts THEN b[p] ELSE a[p]]
Losses(b) ==
    {b} \cup {[b EXCEPT !.records = Front(@)], [b EXCEPT !.records = Tail(@)], [b EXCEPT !.receipts = <<>>],
              [b EXCEPT !.receipts = Filtered(@, {i \in DOMAIN @ : @[i].kind = "rekor"})],
              [b EXCEPT !.proofs = <<>>], [b EXCEPT !.manifest = None], [b EXCEPT !.version = 3]}
\* P holds of whatever he may be handed.
ForAllHandedOver(P(_)) ==
    /\ \A i, j \in DOMAIN archive : i <= j => \A parts \in SUBSET Parts : P(Assembled(archive[i], archive[j], parts))
    /\ \A i \in DOMAIN archive : archive[i].records # <<>> => \A b \in Losses(archive[i]) : P(b)
Pins(pinned) == [k \in (IF pinned THEN {Operator} ELSE {}) |-> OperatorKey]
Verdict(b, kinds, pinned) == All(b, TrustFor(kinds), Pins(pinned))
Audits ==
    /\ ~audit /\ ~job.on /\ audit' = TRUE
    /\ store' = <<>> /\ restores' = 0 /\ clock' = MaxClock /\ log' = <<>> /\ replies' = {}
    /\ requests' = MaxRequests /\ refused' = NotRefused /\ ahead' = 0
    /\ UNCHANGED <<archive, job, anchored>>

FlowNext ==
    \/ \E hop \in Hops : RecordHop(hop)
    \/ ClockTicks
    \/ \E k \in 0..(Len(store) - 1) : RestoresBackup(k)
    \/ \E from \in {0, 2} : Exports(from)
    \/ \E i \in DOMAIN archive, kinds \in Asked, batch \in Batches :
          StartsAnchor(i, kinds, batch)
    \/ TsaReplies \/ RekorAnswers \/ AnchorFails \/ FinishesAnchor
    \/ Audits

FlowSpec == FlowInit /\ [][FlowNext]_flowVars

(***************************************************************************)
(* Properties.                                                             *)
(***************************************************************************)
\* One record of the store for each seq, each linked to the one before, also
\* after the database was put back.
FlowTypeOK ==
    /\ clock \in 1..MaxClock /\ ahead \in 0..MaxAhead /\ requests \in 0..MaxRequests
    /\ Len(archive) <= MaxBundles
    /\ VerifyChain([records |-> store])
    /\ job.on => Len(job.receipts) <= Cardinality(job.kinds)

\* What is written verifies: a bundle as `cloakpipe anchor` wrote it, checked
\* with the trust it was anchored under and the operator's key, is trusted by
\* `cloakpipe-verify all`, though that runs checks the self-check does not; and
\* so is a whole export that was never anchored.
WrittenVerifies ==
    audit => \A b \in Range(archive) :
        \/ Verdict(b, Kinds(b), TRUE) = "trusted"
        \/ b.receipts = <<>> /\ FirstSeqOf(b.records) # 0

\* A trusted v4 bundle tells one history: whatever was lost or put together,
\* its records are exactly those the operator signed in the manifest it carries.
OneHistory ==
    audit => ForAllHandedOver(LAMBDA b :
        \/ \E i \in DOMAIN archive : archive[i].manifest = b.manifest /\ archive[i].records = b.records
        \/ b.version < BundleVersion
        \/ \A kinds \in SUBSET Kinds2 : Verdict(b, kinds, TRUE) # "trusted")

\* A bundle that verifies under a trust input was there in time: for each kind
\* of anchor asked for, the service anchored a head over these very records, and
\* none of them is stamped after it.
WasThere(b, kind) ==
    \E w \in anchored : /\ w.kind = kind /\ Range(b.records) \subseteq Range(w.records)
                        /\ \A r \in Range(b.records) : r.canonical.ts <= w.time
AnchoredInTime ==
    audit => ForAllHandedOver(LAMBDA b :
        \A kinds \in SUBSET Kinds2, pinned \in BOOLEAN :
            (\A kind \in kinds : WasThere(b, kind)) \/ Verdict(b, kinds, pinned) = "fail")

\* A time-stamp is of this request: an answer the authority gave earlier, even
\* for the same head, is not taken for one given now.
TimestampsAreFresh == \A w \in anchored : w.kind = "rfc3161" => w.time >= w.since

\* An honest host is not refused for its clock: if it runs ahead by no more than
\* the skew, and no record is stamped after the anchor, the self-check passes.
SkewIsTolerated ==
    refused.chain => refused.ahead > Skew \/ refused.late

\* An honest host is believed: its store is one chain, its clock is forgiven
\* the skew, and what `cloakpipe anchor` wrote verifies (anchor.rs seal,
\* attach_receipts; verify chain, anchors and manifest).
HonestHostIsTrusted == FlowTypeOK /\ WrittenVerifies /\ SkewIsTolerated

\* What is trusted is true: one history, anchored when the trust input says so
\* by answers given for it and not replayed (verify_bundle, check_coverage,
\* verify_timestamp_response).
TrustedIsTrue == OneHistory /\ AnchoredInTime /\ TimestampsAreFresh
=============================================================================
