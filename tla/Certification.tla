--------------------------- MODULE Certification ---------------------------
(***************************************************************************)
(* Certification of a release (cloakpipe-cert): the decision over the      *)
(* evaluation runs (policy.rs, model.rs) and the signed statement of it    *)
(* (statement.rs).  Operators only.                                        *)
(*                                                                         *)
(* A run is [id, suite, hash, release, covers, cases]; names and hashes    *)
(* are numbers, for their order.  The cases are a set of                   *)
(* [id, status, critical, expect, metric], which abstracts the canonical   *)
(* sort of the cases.  Rates and thresholds are exact fractions (per       *)
(* cent): what f64 computes as long as the rates are binary fractions.     *)
(***************************************************************************)
EXTENDS Dsse, Integers, SequencesExt

KnownSuites == 1..3
NoRule == -1
NoMetric == -1

(***************************************************************************)
(* model.rs: what makes a run or a policy unusable.                        *)
(***************************************************************************)
ReleaseHashes == {"release", "other"}
ValidRun(run) ==
    /\ run.release \in ReleaseHashes
    /\ run.covers # {} /\ run.covers \subseteq KnownSuites
    /\ \A c, d \in run.cases : c.id = d.id => c = d
InUnit(v) == v \in 0..100
ValidPolicy(p) ==
    /\ p.minPassRate = NoRule \/ InUnit(p.minPassRate)
    /\ p.maxRegression = NoRule \/ InUnit(p.maxRegression)
    /\ InUnit(p.minCoverage)
    /\ p.boundary.on =>
          /\ p.boundary.suites # <<>> /\ ToSet(p.boundary.suites) \subseteq KnownSuites
          /\ Cardinality(ToSet(p.boundary.suites)) = Len(p.boundary.suites)
          /\ InUnit(p.boundary.deny) /\ InUnit(p.boundary.allow)
    /\ p.days >= 1

(***************************************************************************)
(* The canonical order of runs: (suite, runId, hash).                      *)
(***************************************************************************)
Before(a, b) ==
    \/ a.suite < b.suite
    \/ a.suite = b.suite /\ a.id < b.id
    \/ a.suite = b.suite /\ a.id = b.id /\ a.hash < b.hash
Indexed(runs) == SortSeq(runs, Before)
ValidRuns(runs) == SelectSeq(Indexed(runs), ValidRun)

(***************************************************************************)
(* Rates as fractions; a rate over nothing is 0.                           *)
(***************************************************************************)
CountOf(run, status) == Cardinality({c \in run.cases : c.status = status})
Executed(run) == Cardinality(run.cases) - CountOf(run, "skipped")
Ratio(n, d) == [n |-> IF d = 0 THEN 0 ELSE n, d |-> IF d = 0 THEN 1 ELSE d]
PassRate(run) == Ratio(CountOf(run, "pass"), Executed(run))
Coverage(run) == Ratio(Executed(run), Cardinality(run.cases))
AtLeast(x, min) == x.n * 100 >= min * x.d
AtMost(x, max) == x.n * 100 <= max * x.d
Minus(x, y) == [n |-> x.n * y.d - y.n * x.d, d |-> x.d * y.d]

(***************************************************************************)
(* Reasons to block.  A message names its run.                             *)
(***************************************************************************)
Reason(code, suite, run, case) == [code |-> code, suite |-> suite, run |-> run, case |-> case]
About(code, run) == Reason(code, run.suite, run.id, "-")
NoSuite == 0
When(condition, reason) == IF condition THEN {reason} ELSE {}

\* The baseline of a suite is its first valid baseline run in canonical order.
BaselineOf(baselines, suite) ==
    LET same == SelectSeq(baselines, LAMBDA b : b.suite = suite)
    IN IF same = <<>> THEN {} ELSE {same[1]}

Failure(case) == case.status \in {"fail", "error"}
CriticalFailures(run) == {c \in run.cases : c.critical /\ Failure(c)}
Persisting(case, baseline) == \E b \in baseline : \E bc \in b.cases : bc.id = case.id /\ Failure(bc)

CheckRun(run, baseline, p) ==
    When(Executed(run) = 0, About("NoCases", run))
      \cup When(~AtLeast(Coverage(run), p.minCoverage), About("CoverageBelowMinimum", run))
      \cup When(p.minPassRate # NoRule /\ ~AtLeast(PassRate(run), p.minPassRate), About("PassRateBelowMinimum", run))
      \cup When(p.maxRegression # NoRule
                  /\ \E b \in baseline : ~AtMost(Minus(PassRate(b), PassRate(run)), p.maxRegression),
                About("PassRateRegression", run))
      \cup {Reason("PersistingCriticalFailure", run.suite, run.id, c.id) :
               c \in {x \in CriticalFailures(run) : p.blockPersisting /\ Persisting(x, baseline)}}

\* New critical failures are counted over all runs, and reported all or none.
NewCritical(runs, baselines) ==
    UNION {{<<i, c.id>> : c \in {x \in CriticalFailures(runs[i]) : ~Persisting(x, BaselineOf(baselines, runs[i].suite))}}
           : i \in DOMAIN runs}
CheckCritical(runs, baselines, p) ==
    LET new == NewCritical(runs, baselines)
    IN IF Cardinality(new) > p.maxNewCritical
       THEN {Reason("NewCriticalFailure", runs[n[1]].suite, runs[n[1]].id, n[2]) : n \in new} ELSE {}

(***************************************************************************)
(* Metrics: pooled over the matching runs.                                 *)
(***************************************************************************)
NearestRank(n, pct) == Max({(pct * n + 99) \div 100, 1})
MetricValues(rule, runs) ==
    SortSeq(FlattenSeq([i \in DOMAIN runs |->
                IF rule.suite \in {NoSuite, runs[i].suite}
                THEN LET cs == {c \in runs[i].cases : c.status # "skipped" /\ c.metric # NoMetric}
                     IN [j \in 1..Cardinality(cs) |-> SetToSeq(cs)[j].metric]
                ELSE <<>>]), <)
SumOf(values) == FoldLeft(LAMBDA a, b : a + b, 0, values)
Aggregate(values, how) ==
    CASE how = "mean" -> [n |-> SumOf(values), d |-> Len(values)]
      [] how = "p50"  -> [n |-> values[NearestRank(Len(values), 50)], d |-> 1]
      [] how = "p95"  -> [n |-> values[NearestRank(Len(values), 95)], d |-> 1]
      [] how = "min"  -> [n |-> values[1], d |-> 1]
      [] how = "max"  -> [n |-> values[Len(values)], d |-> 1]
CheckMetric(rule, runs) ==
    LET values == MetricValues(rule, runs)
        observed == Aggregate(values, rule.how)
        holds == IF rule.op = "lte" THEN observed.n <= rule.value * observed.d ELSE observed.n >= rule.value * observed.d
    IN When(values # <<>> /\ ~holds, Reason("MetricThreshold", rule.suite, 0, "-"))

(***************************************************************************)
(* The boundary, two ways: each covering run by its own labelled cases.    *)
(***************************************************************************)
Labelled(run, label) == {c \in run.cases : c.expect = label}
PassedOf(cases) == Cardinality({c \in cases : c.status = "pass"})
CheckRunBoundary(rule, suite, run) ==
    LET deny  == Labelled(run, "deny")
        allow == Labelled(run, "allow")
        said(code, side) == Reason(code, suite, run.id, side)
    IN IF deny \cup allow = {} THEN {said("BoundaryIncomplete", "labels")}
       ELSE When(deny = {}, said("BoundaryIncomplete", "deny"))
              \cup When(allow = {}, said("BoundaryIncomplete", "allow"))
              \cup When(deny # {} /\ ~AtLeast(Ratio(PassedOf(deny), Cardinality(deny)), rule.deny), said("UnderBlocking", "deny"))
              \cup When(allow # {} /\ ~AtLeast(Ratio(PassedOf(allow), Cardinality(allow)), rule.allow), said("OverRefusal", "allow"))

Covering(runs, suite) == {i \in DOMAIN runs : suite \in runs[i].covers}
\* Mutant: the cases of all covering runs are pooled.
CheckBoundary_Pooled(rule, runs, required) ==
    UNION {LET covering == Covering(runs, s)
           IN IF covering = {} THEN When(s \notin required, Reason("BoundaryIncomplete", s, 0, "uncovered"))
              ELSE CheckRunBoundary(rule, s, [runs[Min(covering)] EXCEPT !.cases = UNION {runs[i].cases : i \in covering}])
           : s \in ToSet(rule.suites)}
CheckBoundary(rule, runs, required) ==
    UNION {LET covering == Covering(runs, s)
           IN IF covering = {} THEN When(s \notin required, Reason("BoundaryIncomplete", s, 0, "uncovered"))
              ELSE UNION {CheckRunBoundary(rule, s, runs[i]) : i \in covering}
           : s \in ToSet(rule.suites)}

(***************************************************************************)
(* decide: all checks are made; any reason blocks.                         *)
(***************************************************************************)
InvalidInputs(runs) == {About("InvalidInput", runs[i]) : i \in {j \in DOMAIN runs : ~ValidRun(runs[j])}}
Reasons(in) ==
    LET p          == in.policy
        baselines  == ValidRuns(in.baselines)
        valid      == ValidRuns(in.runs)
        candidates == SelectSeq(valid, LAMBDA r : r.release = in.release)
        covered    == UNION {candidates[i].covers : i \in DOMAIN candidates}
    IN When(~ValidPolicy(p), Reason("InvalidInput", NoSuite, 0, "-"))
         \cup InvalidInputs(in.runs) \cup InvalidInputs(in.baselines)
         \cup {About("ReleaseMismatch", valid[i]) : i \in {j \in DOMAIN valid : valid[j].release # in.release}}
         \cup When(candidates = <<>>, Reason("NoEvidence", NoSuite, 0, "-"))
         \cup {Reason("MissingSuite", s, 0, "-") : s \in in.required \ covered}
         \cup UNION {CheckRun(candidates[i], BaselineOf(baselines, candidates[i].suite), p) : i \in DOMAIN candidates}
         \cup CheckCritical(candidates, baselines, p)
         \cup UNION {CheckMetric(rule, candidates) : rule \in p.metrics}
         \cup (IF p.boundary.on THEN CheckBoundary(p.boundary, candidates, in.required) ELSE {})
Decide(in) ==
    [outcome |-> IF Reasons(in) = {} THEN "certified" ELSE "blocked", release |-> in.release,
     runs |-> {in.runs[i].hash : i \in DOMAIN in.runs}]

(***************************************************************************)
(* The statement.  A certification is [id, release, environment, decision, *)
(* issued, until, limited].                                                *)
(***************************************************************************)
CertificationTypes == {"cloakpipe.co", "cloakpipe.dev"}
StatementOf(c) ==
    [json |-> TRUE, type |-> StatementV1, predicate |-> "cloakpipe.co", subject |-> c.release, certification |-> c]
StatementDigest(envelope) == <<"sha", envelope.payload>>

\* Statuses by severity: the worst finding is the status.
Valid == 0
ValidWithLimitations == 1
Incomplete == 2
Expired == 3
Revoked == 4
Invalid == 5

CheckSignatures(envelope, ctx) ==
    LET verified == VerifiedKeyids(envelope, ctx.trusted)
    IN When(verified = {}, Invalid) \cup When(verified \cap ctx.revokedKeys # {}, Revoked)
CheckValidityWindow(c, ctx) ==
    When(c.until <= c.issued, Invalid) \cup When(ctx.now < c.issued, Invalid) \cup When(ctx.now >= c.until, Expired)
CheckCertification(c, subject, ctx) ==
    When(c.release \notin ReleaseHashes \/ subject # c.release \/ c.decision.release # c.release, Invalid)
      \cup CheckValidityWindow(c, ctx)
      \cup When(~ (ctx.required \subseteq c.decision.runs), Incomplete)
      \cup When(c.limited, ValidWithLimitations)
CheckStatement(st, ctx) ==
    When(st.type # StatementV1 \/ st.predicate \notin CertificationTypes \/ st.subject # ctx.expected, Invalid)
      \cup CheckCertification(st.certification, st.subject, ctx)
Findings(envelope, ctx) ==
    When(envelope.type # InToto, Invalid)
      \cup CheckSignatures(envelope, ctx)
      \cup When(StatementDigest(envelope) \in ctx.revoked, Revoked)
      \cup (IF Decodes(envelope) THEN CheckStatement(envelope.payload, ctx) ELSE {Invalid})
StatementStatus(envelope, ctx) == Max(Findings(envelope, ctx) \cup {Valid})
IsCertified(envelope, ctx) ==
    /\ StatementStatus(envelope, ctx) <= ValidWithLimitations
    /\ Decodes(envelope) /\ envelope.payload.certification.decision.outcome = "certified"
=============================================================================
