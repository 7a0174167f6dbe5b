---------------------------- MODULE ReleaseFlow ----------------------------
(***************************************************************************)
(* The life of a release: evaluation runs are certified or not             *)
(* (`cloakpipe release certify`), the control plane registers, promotes,   *)
(* supersedes and revokes, sentinels breach, and at some instant an audit  *)
(* pack is exported (`cloakpipe release audit-pack`).  An auditor verifies *)
(* it then or later.  The control plane is not part of the repository: its *)
(* rules are those that the events of the pack state.                      *)
(*                                                                         *)
(* The exporter writes the history as it is, oldest or newest first, or    *)
(* leaves out or invents one thing, and may sign certifications itself.    *)
(***************************************************************************)
EXTENDS ReleasePack

CONSTANTS MaxInstant, MaxEvents, MaxCertifications, DayTicks,
          Deployable,       \* the environments a release may be deployed to, one in each behaviour
          IssuerKey, ExporterKey, LedgerSignerKey

ASSUME ReleaseAssumption ==
    /\ {MaxInstant, MaxEvents, MaxCertifications, DayTicks} \subseteq Nat
    /\ Deployable \subseteq KnownEnvironments
    /\ DayTicks > 0 /\ DayTicks % TicksPerSecond = 0    \* a day is a number of whole seconds
\* Each role has a key of its own: check_roles refuses anything else.
ASSUME RolesAssumption == IssuerKey # ExporterKey /\ IssuerKey # LedgerSignerKey /\ ExporterKey # LedgerSignerKey

VARIABLES
    instant,    \* the time, in ticks
    history,    \* the control plane's events
    issued,     \* the certifications signed, by whomever
    pointer,    \* the release each environment points to
    file        \* the pack exported, and how it differs from the history

releaseVars == <<instant, history, issued, pointer, file>>

NoFile == [way |-> <<"none", 0>>]
Environments == DOMAIN pointer
Exported == file # NoFile
This == "release"

(***************************************************************************)
(* Certification: two runs, of which one fails half of its cases.          *)
(***************************************************************************)
RunOf(hash, status) ==
    [id |-> hash, suite |-> 1, hash |-> hash, release |-> This, covers |-> {1},
     cases |-> {[id |-> "a", status |-> "pass", critical |-> FALSE, expect |-> "none", metric |-> NoMetric],
                [id |-> "b", status |-> status, critical |-> FALSE, expect |-> "none", metric |-> NoMetric]}]
Evaluations == <<RunOf(1, "pass"), RunOf(2, "fail")>>
Policy ==
    [minCoverage |-> 100, minPassRate |-> 75, maxRegression |-> NoRule, maxNewCritical |-> 0, blockPersisting |-> TRUE,
     metrics |-> {}, boundary |-> [on |-> FALSE], days |-> 1]

\* The certifications asked for; at most one has anything amiss for production.
Plain == <<CertifiedEnvironment, 1, IssuerKey>>
Amiss == {<<"staging", 1, IssuerKey>>, <<CertifiedEnvironment, 2, IssuerKey>>, <<CertifiedEnvironment, 1, ExporterKey>>}
IsPlain(envelope) ==
    LET c == envelope.payload.certification
    IN c.environment = CertifiedEnvironment /\ c.decision.outcome = "certified" /\ Keyid(IssuerKey) \in {s.keyid : s \in envelope.sigs}
Certifiable == {Plain} \cup (IF \A i \in DOMAIN issued : IsPlain(issued[i]) THEN Amiss ELSE {})

\* certify_inner: the decision, signed whatever it is; times are whole seconds.
CertificationOf(env, run, at, until) ==
    [id |-> Len(issued) + 1, release |-> This, environment |-> env,
     decision |-> Decide([release |-> This, required |-> {1}, runs |-> <<Evaluations[run]>>,
                          baselines |-> <<>>, policy |-> Policy]),
     issued |-> at, until |-> until, limited |-> TRUE]
Issue(c, key) ==
    /\ ~Exported /\ Len(issued) < MaxCertifications
    /\ issued' = Append(issued, Sign(StatementOf(c), key, Keyid(key)))
    /\ UNCHANGED <<instant, history, pointer, file>>
Certify(env, run, key) ==
    Issue(CertificationOf(env, run, Rfc3339(instant), Rfc3339(instant + Policy.days * DayTicks)), key)

(***************************************************************************)
(* The control plane.  It promotes into the certified environment only on  *)
(* a certification that is valid at that instant, or by break-glass.       *)
(***************************************************************************)
TrustedIssuers == {TrustedKey(Keyid(IssuerKey), IssuerKey)}
RevokedSoFar == {history[i].digest : i \in OfKind(history, "revoked")}
CurrentlyValid(env) ==
    {i \in DOMAIN issued :
        /\ issued[i].payload.certification.environment = env
        /\ IsCertified(issued[i], [trusted |-> TrustedIssuers, revoked |-> RevokedSoFar, revokedKeys |-> {},
                                   now |-> instant, expected |-> This, required |-> {}])}
Record(events) ==
    /\ ~Exported /\ Len(history \o events) <= MaxEvents
    /\ history' = history \o events
    /\ UNCHANGED <<instant, issued, file>>

Register == history = <<>> /\ Record(<<ReleaseRegistered(instant, "agent")>>) /\ UNCHANGED pointer
Promote(env, glass) ==
    /\ history # <<>> /\ pointer[env] # This
    /\ env = CertifiedEnvironment => glass \/ CurrentlyValid(env) # {}
    /\ Record(<<ReleasePromoted(instant, env, pointer[env], glass)>>)
    /\ pointer' = [pointer EXCEPT ![env] = This]
Supersede(env) ==
    /\ pointer[env] = This
    /\ Record(<<ReleaseSuperseded(instant, env, "other")>>)
    /\ pointer' = [pointer EXCEPT ![env] = "other"]
Revoke(i) ==
    /\ history # <<>> /\ StatementDigest(issued[i]) \notin RevokedSoFar
    /\ Record(<<CertificationRevoked(instant, StatementDigest(issued[i]))>>) /\ UNCHANGED pointer
\* A sentinel that revokes does so before it records the breach.
Breach(env, action) ==
    LET valid == IF action = "revoke" THEN SetToSeq(CurrentlyValid(env)) ELSE <<>>
    IN /\ pointer[env] = This
       /\ Record([k \in DOMAIN valid |-> CertificationRevoked(instant, StatementDigest(issued[valid[k]]))]
                   \o <<SentinelBreach(instant, env, action)>>)
       /\ UNCHANGED pointer

(***************************************************************************)
(* The export.                                                             *)
(***************************************************************************)
Ledger == AppendRecord(AppendRecord(<<>>, 0, "llm_prompt", "other", "pack"), 0, "llm_reply", This, "pack")
LedgerExport == ExportBundle(Ledger, "bundle", LedgerSignerKey)
SealedExport == SealBatch(LedgerExport, LedgerSignerKey, "batch", 0)
Faithful == {"complete", "newest first", "with a ledger"}
\* Exports do not depend on the rest of the pack: they are tried with the shortest one.
LedgerWays ==
    IF Len(history) = 1 /\ issued = <<>>
    THEN {"with a ledger", "a ledger twice", "a ledger of another release", "a ledger of another key"} ELSE {}
Ways ==
    {<<w, 0>> : w \in {"complete", "newest first", "no runs"} \cup LedgerWays}
      \cup {<<"no event", i>> : i \in DOMAIN history} \cup {<<"no certification", i>> : i \in DOMAIN issued}
      \cup {<<"a promotion more", t>> : t \in 0..instant}
InputOf(way) ==
    LET full == [manifest |-> [hash |-> This, agent |-> "agent", certifiable |-> TRUE], created |-> Rfc3339(instant),
                 runs |-> Evaluations, certs |-> issued, events |-> history, exports |-> <<>>]
    IN CASE way[1] = "complete"                    -> full
         [] way[1] = "newest first"                -> [full EXCEPT !.events = Reverse(@)]
         [] way[1] = "with a ledger"               -> [full EXCEPT !.exports = <<SealedExport>>]
         [] way[1] = "no runs"                     -> [full EXCEPT !.runs = <<>>]
         [] way[1] = "a ledger twice"              -> [full EXCEPT !.exports = <<LedgerExport, SealedExport>>]
         [] way[1] = "a ledger of another release" -> [full EXCEPT !.exports = <<ExportBundle(SubSeq(Ledger, 1, 1), "bundle", LedgerSignerKey)>>]
         [] way[1] = "a ledger of another key"     -> [full EXCEPT !.exports = <<ExportBundle(Ledger, "bundle", ExporterKey)>>]
         [] way[1] = "no event"                    -> [full EXCEPT !.events = RemoveAt(@, way[2])]
         [] way[1] = "no certification"            -> [full EXCEPT !.certs = RemoveAt(@, way[2])]
         [] way[1] = "a promotion more"            -> [full EXCEPT !.events = Append(@, ReleasePromoted(way[2], CertifiedEnvironment, "none", FALSE))]
Export(way) ==
    /\ ~Exported /\ BuildProblem(InputOf(way)) = "ok"
    /\ file' = [way |-> way, pack |-> Build(InputOf(way), ExporterKey)]
    /\ UNCHANGED <<instant, history, issued, pointer>>

\* Time is counted from the instant of the registration.
Tick == history # <<>> /\ instant < MaxInstant /\ instant' = instant + 1 /\ UNCHANGED <<history, issued, pointer, file>>

ReleaseInit ==
    /\ instant = 0 /\ history = <<>> /\ issued = <<>> /\ file = NoFile
    /\ \E env \in Deployable : pointer = [e \in {env} |-> "none"]
ReleaseNext ==
    \/ \E c \in Certifiable : Certify(c[1], c[2], c[3])
    \/ Register
    \/ \E env \in Environments, glass \in BOOLEAN : Promote(env, glass)
    \/ \E env \in Environments : Supersede(env)
    \/ \E i \in DOMAIN issued : Revoke(i)
    \/ \E env \in Environments, action \in {"alert", "revoke"} : Breach(env, action)
    \/ \E way \in Ways : Export(way)
    \/ Tick
ReleaseSpec == ReleaseInit /\ [][ReleaseNext]_releaseVars

(***************************************************************************)
(* The auditor, who may trust the exporter for certifications as well.     *)
(***************************************************************************)
OptionsWith(issuers) ==
    [keys |-> [exporter |-> {ExporterKey}, ledger |-> {LedgerSignerKey}, issuer |-> issuers], now |-> instant]
Proper == OptionsWith({IssuerKey})
Passes(opts) == Failures(file.pack, opts) = {}
Told == file.pack.spec

\* The pieces are well formed; a certification is dated in whole seconds and
\* not after it was issued, for exactly the days of its policy (cert.rs
\* certify_inner).
ReleaseTypeOK ==
    /\ instant \in 0..MaxInstant
    /\ \E env \in Deployable : pointer \in [{env} -> {"none", This, "other"}]
    /\ Len(history) <= MaxEvents /\ \A i \in DOMAIN history : history[i].at \in 0..instant
    /\ Len(issued) <= MaxCertifications
    /\ \A i \in DOMAIN issued :
          LET c == issued[i].payload.certification
          IN c.issued \in 0..instant /\ c.issued = Rfc3339(c.issued) /\ c.until = Rfc3339(c.issued + Policy.days * DayTicks)

\* Two events of one instant: their order is only the order of the file.
Tied == \E i, j \in DOMAIN history : i # j /\ history[i].at = history[j].at
\* A revocation of the instant of a promotion counts against it.
RevokedAtPromotion ==
    \E i \in OfKind(history, "promoted"), j \in OfKind(history, "revoked") : i < j /\ history[i].at = history[j].at
\* A certification of the second of a breach looks as if the breach had to revoke it.
IssuedAtBreach ==
    \E i \in OfKind(history, "breach"), j \in DOMAIN issued :
        /\ history[i].action = "revoke"
        /\ issued[j].payload.certification.issued = Rfc3339(history[i].at)
ToldInOrder == file.way[1] \in Faithful /\ (file.way[1] = "newest first" => ~Tied)
AllByIssuer == \A i \in DOMAIN issued : Keyid(IssuerKey) \in {s.keyid : s \in issued[i].sigs}

\* A pack that tells the whole history of a control plane that keeps its rules
\* passes, whenever it is verified: later revocations and expiry do not count
\* against earlier promotions (check.rs certified_at).  The exceptions are
\* exactly a revocation of the same instant as a promotion before it, and a
\* certification issued in the same second as a breach.
HonestPackPasses ==
    Exported /\ ToldInOrder /\ AllByIssuer /\ ~RevokedAtPromotion /\ ~IssuedAtBreach => Passes(Proper)

\* Whatever the exporter leaves out, invents or signs itself, and whomever the
\* auditor trusts to certify: in a pack that passes, every promotion to
\* production was by break-glass, or a certification of the issuer for
\* production, of a certified decision, was valid at that very instant and not
\* revoked by then (check.rs check_promotions, check_roles).
PromotionsJustified ==
    Exported =>
    \A issuers \in {{IssuerKey}, {IssuerKey, ExporterKey}} :
        Passes(OptionsWith(issuers)) =>
        \A i \in OfKind(Told.events, "promoted") :
            LET e == Told.events[i]
            IN e.environment = CertifiedEnvironment /\ ~e.breakGlass =>
               \E j \in DOMAIN issued :
                  LET c == issued[j].payload.certification
                  IN /\ Keyid(IssuerKey) \in {s.keyid : s \in issued[j].sigs}
                     /\ c.environment = CertifiedEnvironment /\ c.decision.outcome = "certified"
                     /\ c.issued <= e.at /\ e.at < c.until
                     /\ ~ \E k \in OfKind(Told.events, "revoked") :
                             Told.events[k].digest = StatementDigest(issued[j]) /\ Told.events[k].at <= e.at

\* What the report says is live is what the control plane's pointers said when
\* the pack was made, through promotions, supersessions and promotions again
\* (check.rs check_promotions).
LiveAsDeployed ==
    Exported /\ ToldInOrder => \A env \in Environments : IsLive(Told, env) <=> pointer[env] = This

\* A pack of the whole history that passes without a warning and has the
\* release live in production was not only certified once: a certification of
\* it is valid at the time of the verification, and no event revokes it
\* (check.rs check_promotions, certified_now).
QuietMeansCertified ==
    Exported /\ ToldInOrder /\ CertifiedEnvironment \in Environments /\ pointer[CertifiedEnvironment] = This /\ Passes(Proper) /\ Warnings(Told, Proper) = {} =>
    \E i \in DOMAIN issued :
        LET c == issued[i].payload.certification
        IN /\ c.environment = CertifiedEnvironment /\ c.decision.outcome = "certified"
           /\ c.issued <= instant /\ instant < c.until
           /\ StatementDigest(issued[i]) \notin RevokedSoFar

\* What a pack refers to cannot be left out of it: the runs that certifications
\* cite, a certification that is revoked, and the revocations that a breach
\* made, also once the certification has expired (check.rs
\* check_certifications, check_sentinels).  Nor does a ledger export pass that
\* another key signed.
MadeByBreach(r, b) ==
    /\ history[b].action = "revoke" /\ b > r /\ history[b].at = history[r].at
    /\ \A k \in r..(b - 1) : history[k].kind = "revoked"
    /\ \E j \in DOMAIN issued :
          LET c == issued[j].payload.certification
          IN /\ StatementDigest(issued[j]) = history[r].digest
             /\ c.environment = history[b].environment /\ c.decision.outcome = "certified"
             /\ Keyid(IssuerKey) \in {s.keyid : s \in issued[j].sigs}
             /\ history[b].at < c.until
OmissionsAreFound ==
    Exported /\ Passes(Proper) =>
    /\ file.way[1] # "a ledger of another key"
    /\ file.way[1] = "no runs" => issued = <<>>
    /\ file.way[1] = "no certification" => StatementDigest(issued[file.way[2]]) \notin RevokedSoFar
    /\ file.way[1] = "no event" /\ history[file.way[2]].kind = "revoked" =>
          ~ \E b \in OfKind(history, "breach") : MadeByBreach(file.way[2], b)

\* An honest release is believed and told as it is: the pieces are well formed,
\* the pack passes, and what the report calls live is what was deployed
\* (cert.rs certify_inner, check.rs certified_at, check_promotions).
HonestReleaseIsTold == ReleaseTypeOK /\ HonestPackPasses /\ LiveAsDeployed
=============================================================================
