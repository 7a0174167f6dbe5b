----------------------------- MODULE ReleaseDiff -----------------------------
(***************************************************************************)
(* From two release manifests to the assurance a certification asks for    *)
(* (cloakpipe-release: validate.rs, canonical.rs, diff.rs; cert.rs).       *)
(* Operators only.                                                         *)
(*                                                                         *)
(* A manifest is a record of its sections.  A reference is                 *)
(* <<name, version>>, a dependency <<name, spelling, version>>, where two  *)
(* spellings of a name are one after NFC; the key of a parameter or flag   *)
(* is <<name, spelling>>.  Names and versions are numbers, for their       *)
(* order; 0 is a version, image, commit or text that validate refuses, and *)
(* Null the null of JSON.                                                  *)
(***************************************************************************)
EXTENDS Integers, SequencesExt

Null == 0
Composed == 1

Scalars == {"repository", "commit", "model", "retrieval", "image", "region"}
RefSets == {"tools", "mcpServers", "policies"}
Maps == {"parameters", "featureFlags"}
Sections == Scalars \cup RefSets \cup Maps \cup {"prompts", "dependencies"}

(***************************************************************************)
(* AgentRelease::validate: `hash` and the candidate of `certify` need it.  *)
(***************************************************************************)
Pinned(refs) == \A i \in DOMAIN refs : refs[i][2] # 0
OncePerName(refs) == \A i, j \in DOMAIN refs : refs[i][1] = refs[j][1] => i = j
NoCollision(map) == \A k, l \in DOMAIN map : k[1] = l[1] => k = l
Validate(m) ==
    /\ m.api \in {"co", "dev"}
    /\ \A s \in Scalars : m[s] # 0
    /\ m.prompts # <<>> /\ Pinned(m.prompts)
    /\ \A s \in RefSets : Pinned(m[s]) /\ OncePerName(m[s])
    /\ \A s \in Maps : NoCollision(m[s])
    /\ \A i, j \in DOMAIN m.dependencies :
          /\ m.dependencies[i][3] # 0
          /\ Front(m.dependencies[i]) = Front(m.dependencies[j]) => i = j

(***************************************************************************)
(* canonical_view: what the hash covers.  Sorting comes before NFC; of two *)
(* keys that NFC makes one, the later in the old order stays.              *)
(***************************************************************************)
LexLess(a, b) == \E i \in DOMAIN a : a[i] < b[i] /\ \A j \in 1..(i - 1) : a[j] = b[j]
SortedRefs(refs) == SortSeq(refs, LexLess)
NfcDependencies(deps) == [i \in DOMAIN deps |-> [deps[i] EXCEPT ![2] = Composed]]
NfcMap(map) ==
    [n \in {<<k[1], Composed>> : k \in DOMAIN map} |->
        map[CHOOSE k \in DOMAIN map : k[1] = n[1] /\ \A l \in DOMAIN map : l[1] = n[1] => l[2] <= k[2]]]
CanonicalView(m) ==
    [m EXCEPT !.version = 0, !.tools = SortedRefs(@), !.mcpServers = SortedRefs(@), !.policies = SortedRefs(@),
              !.dependencies = NfcDependencies(SortedRefs(@)), !.parameters = NfcMap(@), !.featureFlags = NfcMap(@)]
\* The hash domain follows from the apiVersion, which is in the view.
ManifestHash(m) == CanonicalView(m)

(***************************************************************************)
(* diff, over the canonical views: lists by name, of which the last entry  *)
(* counts; maps with a missing value read as null; prompts in order.       *)
(***************************************************************************)
Index(list) ==
    [k \in {Front(list[i]) : i \in DOMAIN list} |-> list[Max({i \in DOMAIN list : Front(list[i]) = k})]]
NonNull(map) == Restrict(map, {k \in DOMAIN map : map[k] # Null})
SectionChanged(s, a, b) ==
    CASE s \in RefSets \cup {"dependencies"} -> Index(a) # Index(b)
      [] s = "prompts" -> Index(a) # Index(b) \/ a # b
      [] s \in Maps -> NonNull(a) # NonNull(b)
      [] OTHER -> a # b
Component(s) ==
    CASE s \in {"repository", "commit"} -> "code"
      [] s \in {"image", "region"} -> "runtime"
      [] OTHER -> s
RequiredSuites(c) ==
    CASE c = "prompts" -> {"prompt_contract", "functional", "safety", "privacy", "regression"}
      [] c = "model" -> {"functional", "tool_use", "safety", "privacy", "regression", "performance", "cost"}
      [] c = "parameters" -> {"functional", "regression", "performance", "cost"}
      [] c = "tools" -> {"trajectory", "authorization", "side_effect", "regression"}
      [] c = "mcpServers" -> {"publisher_trust", "capability_diff", "authorization", "adversarial", "regression"}
      [] c = "retrieval" -> {"grounding", "access_control", "freshness", "representative"}
      [] c = "policies" -> {"policy_static_analysis", "decision_replay"}
      [] OTHER -> {"functional", "regression"}
Diff(baseline, candidate) ==
    LET a       == CanonicalView(baseline)
        b       == CanonicalView(candidate)
        changed == {Component(s) : s \in {t \in Sections : SectionChanged(t, a[t], b[t])}}
    IN [changed |-> changed, required |-> UNION {RequiredSuites(c) : c \in changed},
        approval |-> changed \cap {"tools", "mcpServers", "policies"} # {}, sameHash |-> a = b]

\* certify_inner: the suites named on the command line, and those of the diff
\* with a baseline that is parsed and not validated.
RequiredFor(named, baseline, candidate) == named \cup Diff(baseline, candidate).required
=============================================================================
