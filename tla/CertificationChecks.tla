------------------------ MODULE CertificationChecks ------------------------
(***************************************************************************)
(* The certification decision over every small pair of runs, and what it   *)
(* asks for over every small change.  A trial is two runs of the release   *)
(* under one policy, the size of a sample, or two manifests.               *)
(***************************************************************************)
EXTENDS Certification, ReleaseDiff

CONSTANT MaxSample

VARIABLE trial

NoTrial == [kind |-> "none"]

\* Up to two cases: "a" is critical; a failure takes longer than a pass.
TrialCase(id, status, expect) ==
    [id |-> id, status |-> status, critical |-> id = "a", expect |-> expect,
     metric |-> CASE status = "pass" -> 1 [] status = "fail" -> 3 [] OTHER -> NoMetric]
CasesOf(id) == {{}} \cup {{TrialCase(id, s, e)} : s \in {"pass", "fail", "skipped"}, e \in {"allow", "deny"}}
TrialRun(id, suite, hash, covers, cases) ==
    [id |-> id, suite |-> suite, hash |-> hash, release |-> "release", covers |-> covers, cases |-> cases]

StrictPolicy ==
    [minCoverage |-> 50, minPassRate |-> 50, maxRegression |-> 0, maxNewCritical |-> 0, blockPersisting |-> TRUE,
     metrics |-> {[suite |-> NoSuite, how |-> "mean", op |-> "lte", value |-> 2],
                  [suite |-> 1, how |-> "p95", op |-> "lte", value |-> 2]},
     boundary |-> [on |-> TRUE, suites |-> <<1, 2>>, deny |-> 50, allow |-> 50], days |-> 1]
LaxPolicy == [StrictPolicy EXCEPT !.minPassRate = NoRule, !.maxRegression = 50, !.maxNewCritical = 1,
                                  !.blockPersisting = FALSE, !.metrics = {}, !.boundary.suites = <<1>>]

\* Manifests that differ from one another in a section or two: lists in any
\* order, with versions, duplicates and nothing; names spelled in two ways.
TrialManifest ==
    [api |-> "co", agent |-> "agent", version |-> 1, repository |-> 1, commit |-> 1, model |-> 1, retrieval |-> -1,
     image |-> 1, region |-> 1, prompts |-> <<<<1, 1>>>>, tools |-> <<<<1, 1>>>>, mcpServers |-> <<>>, policies |-> <<>>,
     parameters |-> <<>>, featureFlags |-> <<>>, dependencies |-> <<>>]
RefLists == {<<>>, <<<<1, 1>>>>, <<<<1, 2>>>>, <<<<1, 1>>, <<2, 1>>>>, <<<<2, 1>>, <<1, 1>>>>, <<<<1, 1>>, <<1, 2>>>>}
DependencyLists == {<<>>} \cup UNION {[1..n -> {1, 2} \X {0, Composed} \X {1, 2}] : n \in 1..2}
Assignments == UNION {[keys -> {Null, 1, 2}] : keys \in SUBSET {<<1, 0>>, <<1, Composed>>, <<2, Composed>>}}
Variants(s) ==
    CASE s \in Scalars -> {0, 1, 2}
      [] s \in Maps -> Assignments
      [] s = "dependencies" -> DependencyLists
      [] OTHER -> RefLists
TrialManifests(s) == {[TrialManifest EXCEPT ![s] = v] : v \in Variants(s)}

TrialInit ==
    \/ \E s \in Sections : \E base, cand \in TrialManifests(s) : trial = [kind |-> "change", base |-> base, cand |-> cand]
    \/ \E s, t \in Sections : \E base \in {TrialManifest} \cup TrialManifests(s), cand \in TrialManifests(t) :
          s # t /\ {s, t} \cap (Maps \cup {"dependencies"}) = {} /\ trial = [kind |-> "change", base |-> base, cand |-> [cand EXCEPT !.version = 2]]
    \/ \E n \in 1..MaxSample : trial = [kind |-> "sample", n |-> n]
    \/ \E a1 \in CasesOf("a"), b1 \in CasesOf("b"), a2 \in CasesOf("a"), b2 \in CasesOf("b"),
          suite \in 1..2, covers \in {{1}, {2}}, policy \in {StrictPolicy, LaxPolicy} :
          trial = [kind |-> "runs", policy |-> policy,
                   one |-> TrialRun(1, 1, 1, {1}, a1 \cup b1), two |-> TrialRun(2, suite, 2, covers, a2 \cup b2)]

Baseline(run) == [run EXCEPT !.release = "other"]
ReasonsFor(runs, baselines) ==
    Reasons([release |-> "release", required |-> {2}, runs |-> runs, baselines |-> baselines, policy |-> trial.policy])

\* The reasons do not depend on the order in which runs and baselines are
\* given, although of two baselines of a suite only one counts (policy.rs
\* decide: "the result does not depend on the order of runs").
OrderDoesNotMatter ==
    trial.kind = "runs" =>
    LET bases == <<Baseline(trial.one), Baseline(trial.two)>>
    IN \A runs \in {<<trial.one, trial.two>>, <<trial.two, trial.one>>} :
          ReasonsFor(runs, bases) = ReasonsFor(<<trial.one, trial.two>>, Reverse(bases))

\* A further run, however clean, takes no reason to block away but those that
\* say that evidence is missing and the thresholds on pooled metrics
\* (policy.rs: "a clean run cannot dilute a failing one").
OfAbsence(r) == r.code \in {"NoEvidence", "MissingSuite", "MetricThreshold"} \/ r.case = "uncovered"
CleanRunDilutesNothing ==
    trial.kind = "runs" =>
    \A r \in ReasonsFor(<<trial.one>>, <<Baseline(trial.two)>>) :
        OfAbsence(r) \/ r \in ReasonsFor(<<trial.one, trial.two>>, <<Baseline(trial.two)>>)

\* The nearest rank is the least one with at least the given share of the
\* sample at or below it, for samples of every size (policy.rs nearest_rank).
RankIsLeast ==
    trial.kind = "sample" =>
    \A pct \in {50, 95} :
        LET rank == NearestRank(trial.n, pct)
        IN rank \in 1..trial.n /\ rank * 100 >= pct * trial.n /\ (rank - 1) * 100 < pct * trial.n

\* No change escapes its assurance: of two valid manifests whose canonical
\* views, and so hashes, differ in a section, the certification asks for every
\* suite of that section and for an approval if it is about authority; equal
\* hashes ask for nothing.  The exceptions are exactly a parameter or flag that
\* is null, and dependencies whose names are one only after normalisation
\* (diff.rs, canonical.rs, validate.rs).
OneName(deps) == \E i, j \in DOMAIN deps : i # j /\ deps[i][1] = deps[j][1]
ChangesAreAssured ==
    trial.kind = "change" /\ Validate(trial.base) /\ Validate(trial.cand) =>
    LET a == CanonicalView(trial.base)
        b == CanonicalView(trial.cand)
        d == Diff(trial.base, trial.cand)
    IN /\ \A s \in Sections : a[s] # b[s] =>
            \/ RequiredSuites(Component(s)) \subseteq RequiredFor({}, trial.base, trial.cand)
               /\ (s \in RefSets => d.approval)
            \/ s \in Maps /\ \E m \in {a[s], b[s]} : \E k \in DOMAIN m : m[k] = Null
            \/ s = "dependencies" /\ (OneName(a[s]) \/ OneName(b[s]))
       /\ d.sameHash => d.changed = {} /\ d.required = {}

\* The decision cannot be had by arranging the evidence: not by its order, not
\* by adding a clean run, not by a percentile off by one, and not by a change
\* that asks for none (policy.rs decide, nearest_rank; diff.rs diff).
DecisionIsSound == OrderDoesNotMatter /\ CleanRunDilutesNothing /\ RankIsLeast /\ ChangesAreAssured
=============================================================================
