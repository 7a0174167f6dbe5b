---------------------------- MODULE ReleasePack ----------------------------
(***************************************************************************)
(* The release audit pack (cloakpipe-verify/pack): the builder and the     *)
(* verifier.  A pack holds a release's runs, certifications, governance    *)
(* events and ledger exports, and is signed by its exporter.               *)
(*                                                                         *)
(* Instants are counted in fractions of a second; rfc3339 writes whole     *)
(* seconds.  The verifier goes on after a failure: Failures is the set of  *)
(* what is wrong.                                                          *)
(***************************************************************************)
EXTENDS Certification, EvidenceBundle, Checks

CONSTANT TicksPerSecond
ASSUME TicksAssumption == TicksPerSecond \in Nat \ {0}

Rfc3339(t) == t - (t % TicksPerSecond)

CertifiedEnvironment == "production"
KnownEnvironments == {"draft", "candidate", "staging", "production", "rollback"}
Keyid(key) == <<"ed25519", key>>

(***************************************************************************)
(* Governance events.                                                      *)
(***************************************************************************)
ReleaseRegistered(at, agent) == [kind |-> "registered", at |-> at, agent |-> agent]
ReleasePromoted(at, env, from, glass) ==
    [kind |-> "promoted", at |-> at, environment |-> env, from |-> from, breakGlass |-> glass, reason |-> glass]
ReleaseSuperseded(at, env, to) == [kind |-> "superseded", at |-> at, environment |-> env, to |-> to]
CertificationRevoked(at, digest) == [kind |-> "revoked", at |-> at, digest |-> digest]
SentinelBreach(at, env, action) ==
    [kind |-> "breach", at |-> at, environment |-> env, op |-> "gt", threshold |-> 1, value |-> 2, calls |-> 1, action |-> action]
OfKind(events, kind) == {i \in DOMAIN events : events[i].kind = kind}

(***************************************************************************)
(* Ledger exports: the release a hop is bound to is in its signed bytes.   *)
(***************************************************************************)
ReleaseHops(b, release) == {i \in DOMAIN b.records : b.records[i].canonical.release = release}
Positions(b) == {b.records[i].seq : i \in DOMAIN b.records}
Overlap(exports, i) == \E j \in 1..(i - 1) : Positions(exports[i]) \cap Positions(exports[j]) # {}

(***************************************************************************)
(* The builder: the first problem is reported; events are sorted by time,  *)
(* equal times in their order.                                             *)
(***************************************************************************)
Bad(seq, Test(_)) == \E i \in DOMAIN seq : Test(seq[i])
BuildProblem(in) ==
    LET release == in.manifest.hash
    IN FirstFailure(<<
         <<~in.manifest.certifiable, "InvalidManifest">>,
         <<Bad(in.runs, LAMBDA r : r.release # release), "RunNotForRelease">>,
         <<Bad(in.runs, LAMBDA r : ~ValidRun(r)), "InvalidRun">>,
         <<Bad(in.certs, LAMBDA e : ~Decodes(e) \/ e.payload.subject # release), "CertificationNotForRelease">>,
         <<Bad(in.events, LAMBDA e : e.at > in.created), "BadTimestamp">>,
         <<Bad(in.exports, LAMBDA b : ReleaseHops(b, release) = {}), "Ledger">>,
         <<\E i \in DOMAIN in.exports : Overlap(in.exports, i), "Ledger">>,
         <<OfKind(in.events, "registered") = {}, "MissingRegistration">> >>)

SortEvents(events) ==
    LET first(i) == Cardinality({j \in DOMAIN events :
                        events[j].at < events[i].at \/ (events[j].at = events[i].at /\ j < i)}) + 1
    IN [k \in DOMAIN events |-> events[CHOOSE i \in DOMAIN events : first(i) = k]]
Build(in, key) ==
    LET spec == [in EXCEPT !.events = SortEvents(in.events)] IN [spec |-> spec, keyid |-> Keyid(key), sig |-> Signed(key, spec)]

(***************************************************************************)
(* The verifier.  opts holds the trusted keys of each role and `now`.      *)
(***************************************************************************)
\* Mutant: a key may be trusted for two roles.
CheckRoles_Any(opts) == {}
CheckRoles(opts) ==
    When(\E r, s \in {"exporter", "ledger", "issuer"} : r # s /\ opts.keys[r] \cap opts.keys[s] # {}, "trust")
CheckPackSignature(pack, opts) ==
    When(~ \E k \in opts.keys["exporter"] : Keyid(k) = pack.keyid /\ pack.sig = Signed(k, pack.spec), "signature")
CheckManifest(spec) == When(~spec.manifest.certifiable, "manifest")
CheckRuns(spec) ==
    When(Bad(spec.runs, LAMBDA r : ~ValidRun(r) \/ r.release # spec.manifest.hash), "run")
      \cup When(\E i, j \in DOMAIN spec.runs : i # j /\ spec.runs[i].hash = spec.runs[j].hash, "duplicate run")

EventIsSound(e, release, agent) ==
    CASE e.kind = "registered" -> e.agent = agent
      [] e.kind = "promoted"   -> /\ e.environment \in KnownEnvironments
                                  /\ e.breakGlass => e.reason
                                  /\ e.from # release
      [] e.kind = "superseded" -> e.environment \in KnownEnvironments /\ e.to # release
      [] e.kind = "revoked"    -> TRUE
      [] e.kind = "breach"     -> /\ e.environment \in KnownEnvironments /\ e.calls > 0
                                  /\ IF e.op = "gt" THEN e.value > e.threshold ELSE e.value < e.threshold
CheckEvents(spec, opts) ==
    LET es == spec.events
    IN When(\E i \in DOMAIN es : \E j \in 1..(i - 1) : es[i].at < es[j].at, "out of order")
         \cup When(Bad(es, LAMBDA e : e.at > opts.now \/ e.at > spec.created), "event in the future")
         \cup When(OfKind(es, "registered") # {1}, "registration")
         \cup When(Bad(es, LAMBDA e : ~EventIsSound(e, spec.manifest.hash, spec.manifest.agent)), "event")
         \cup When(\E i, j \in OfKind(es, "revoked") : i # j /\ es[i].digest = es[j].digest, "revoked twice")

\* The revocations with their times; of two of one statement, the later one.
Revocations(spec) ==
    LET es == spec.events
    IN {<<es[i].digest, es[i].at>> : i \in {j \in OfKind(es, "revoked") :
            \A k \in OfKind(es, "revoked") : k > j => es[k].digest # es[j].digest}}
RevokedBy(spec, at) == {r[1] : r \in {x \in Revocations(spec) : x[2] <= at}}
AllRevoked(spec) == {r[1] : r \in Revocations(spec)}

\* cert_context: the verifier's own issuers; no key is known to be revoked.
CertContext(opts, at, release, revoked) ==
    [trusted |-> {TrustedKey(Keyid(k), k) : k \in opts.keys["issuer"]}, revoked |-> revoked, revokedKeys |-> {},
     now |-> Rfc3339(at), expected |-> release, required |-> {}]

CheckCertifications(spec, opts) ==
    LET ctx == CertContext(opts, opts.now, spec.manifest.hash, AllRevoked(spec))
        cs  == spec.certs
        hashes == {spec.runs[i].hash : i \in DOMAIN spec.runs}
    IN When(Bad(cs, LAMBDA e : StatementStatus(e, ctx) = Invalid), "invalid certification")
         \cup When(\E i, j \in DOMAIN cs : i # j /\ StatementDigest(cs[i]) = StatementDigest(cs[j]), "duplicate statement")
         \cup When(Bad(cs, LAMBDA e : \E r \in Revocations(spec) :
                        r[1] = StatementDigest(e) /\ r[2] < e.payload.certification.issued), "revoked before it was issued")
         \cup When(Bad(cs, LAMBDA e : ~ (e.payload.certification.decision.runs \subseteq hashes)), "cited run missing")
         \cup When(~ (AllRevoked(spec) \subseteq {StatementDigest(cs[i]) : i \in DOMAIN cs}), "revocation of another statement")

\* Mutant: revocations of any time count.
CertifiedAt_AnyRevocation(spec, opts, env, at) ==
    LET ctx == CertContext(opts, at, spec.manifest.hash, AllRevoked(spec))
    IN \E i \in DOMAIN spec.certs :
          spec.certs[i].payload.certification.environment = env /\ IsCertified(spec.certs[i], ctx)
CertifiedAt(spec, opts, env, at) ==
    LET ctx == CertContext(opts, at, spec.manifest.hash, RevokedBy(spec, at))
    IN \E i \in DOMAIN spec.certs :
          spec.certs[i].payload.certification.environment = env /\ IsCertified(spec.certs[i], ctx)

(***************************************************************************)
(* check_promotions: what each promotion stands on, and where the release  *)
(* is deployed as far as the events say.                                   *)
(***************************************************************************)
Basis(spec, opts, e) ==
    IF e.environment = CertifiedEnvironment /\ CertifiedAt(spec, opts, e.environment, e.at) THEN "certified"
    ELSE IF e.breakGlass THEN "break_glass"
    ELSE IF e.environment = CertifiedEnvironment THEN "uncertified" ELSE "not_required"
Moves(spec, env) ==
    {i \in OfKind(spec.events, "promoted") \cup OfKind(spec.events, "superseded") : spec.events[i].environment = env}
IsLive(spec, env) == Moves(spec, env) # {} /\ spec.events[Max(Moves(spec, env))].kind = "promoted"
CheckPromotions(spec, opts) ==
    When(\E i \in OfKind(spec.events, "promoted") : Basis(spec, opts, spec.events[i]) = "uncertified", "uncertified promotion")

\* Mutant: certified_now looks at the time of the last promotion.
CertifiedNow_AtPromotion(spec, opts, env) == CertifiedAt(spec, opts, env, spec.events[Max(Moves(spec, env))].at)
CertifiedNow(spec, opts, env) == CertifiedAt(spec, opts, env, opts.now)
Warnings(spec, opts) ==
    When(\E i \in OfKind(spec.events, "promoted") :
            /\ Basis(spec, opts, spec.events[i]) = "break_glass"
            /\ spec.events[i].environment = CertifiedEnvironment, "break-glass promotion")
      \cup When(IsLive(spec, CertifiedEnvironment) /\ ~CertifiedNow(spec, opts, CertifiedEnvironment), "live, not certified now")

\* check_sentinels: a breach that revokes revoked every certification for its
\* environment that was valid then.
\* Mutant: the certifications valid now are looked at.
CheckSentinels_ValidNow(spec, opts) ==
    LET ctx == CertContext(opts, opts.now, spec.manifest.hash, {})
    IN When(\E i \in OfKind(spec.events, "breach"), j \in DOMAIN spec.certs :
               /\ spec.events[i].action = "revoke"
               /\ spec.certs[j].payload.certification.environment = spec.events[i].environment
               /\ IsCertified(spec.certs[j], ctx)
               /\ StatementDigest(spec.certs[j]) \notin AllRevoked(spec), "sentinel")
CheckSentinels(spec, opts) ==
    When(\E i \in OfKind(spec.events, "breach"), j \in DOMAIN spec.certs :
            /\ spec.events[i].action = "revoke"
            /\ spec.certs[j].payload.certification.environment = spec.events[i].environment
            /\ IsCertified(spec.certs[j], CertContext(opts, spec.events[i].at, spec.manifest.hash, {}))
            /\ StatementDigest(spec.certs[j]) \notin AllRevoked(spec), "sentinel")

\* check_ledger: the bundle checks with no trust in any anchoring service.
NoTrust == [tsa |-> None, rekor |-> NoLogKey]
LedgerSound(b, opts, release) ==
    /\ b.version >= 4
    /\ VerifyAll(b) /\ VerifyAnchors(b, NoTrust) /\ VerifyInclusionProofs(b) /\ VerifyManifest(b)
    /\ b.manifest # None => b.manifest.keyid \in DOMAIN b.keys /\ b.keys[b.manifest.keyid] \in opts.keys["ledger"]
    /\ ReleaseHops(b, release) # {}
CheckLedger(spec, opts) ==
    When(\E i \in DOMAIN spec.exports : Overlap(spec.exports, i), "overlap")
      \cup When(Bad(spec.exports, LAMBDA b : ~LedgerSound(b, opts, spec.manifest.hash)), "ledger")

Failures(pack, opts) ==
    LET spec == pack.spec
    IN CheckRoles(opts) \cup CheckPackSignature(pack, opts)
         \cup When(spec.created > opts.now, "created in the future")
         \cup CheckManifest(spec) \cup CheckRuns(spec) \cup CheckEvents(spec, opts)
         \cup CheckCertifications(spec, opts) \cup CheckPromotions(spec, opts)
         \cup CheckSentinels(spec, opts) \cup CheckLedger(spec, opts)
=============================================================================
