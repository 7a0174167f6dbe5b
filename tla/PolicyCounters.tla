--------------------------- MODULE PolicyCounters ---------------------------
(***************************************************************************)
(* The Cedar policy of a manifest and the call counters it reads           *)
(* (cloakpipe-policy, lib.rs and counters.rs).                             *)
(*                                                                         *)
(* A policy is a record: its id (0: no @id), its effect, whether it has an *)
(* @approval, the tool it is about, the counts in the last hour and day    *)
(* from which its condition holds, and whether evaluating it is an error.  *)
(* How Cedar evaluates an expression is external.                          *)
(***************************************************************************)
EXTENDS Integers, FiniteSets, Checks

CONSTANTS Hour, Day     \* the two windows

ASSUME WindowAssumption == Hour \in Nat /\ Day \in Nat /\ Hour <= Day

\* PolicyEngine::parse; a policy without @id gets an id of its own.
ParsePolicies(source) ==
    FirstFailure(<<
        <<~source.syntax, "parse">>,
        <<source.templates, "templates">>,
        <<\E p \in source.policies : p.id = "", "empty_id">>,
        <<\E p, q \in source.policies : p # q /\ p.id = q.id, "duplicate_id">> >>)

Holds(p, tool, window) == p.tool = tool /\ window.lastHour >= p.hourFrom /\ window.lastDay >= p.dayFrom

\* PolicyEngine::evaluate: any error refuses; a forbid beats every permit; a
\* plain permit beats those with @approval.
Evaluate(policies, tool, window) ==
    LET satisfied == {p \in policies : Holds(p, tool, window)}
        permits == {p \in satisfied : p.effect = "permit"}
    IN  FirstFailure(<<
            <<\E p \in policies : p.tool = tool /\ p.errs, "error">>,
            <<\E p \in satisfied : p.effect = "forbid", "deny">>,
            <<permits = {}, "deny">>,
            <<\A p \in permits : p.approval, "require_approval">> >>)

(***************************************************************************)
(* Counters: the table gate_calls as a set of rows.                        *)
(***************************************************************************)
NextId(lastId) == lastId + 1

\* Counters::record prunes what no window can see any more.
CountersRecord(rows, id, tool, at) == {r \in rows : r.at > at - Day} \cup {[id |-> id, tool |-> tool, at |-> at]}

CountersForget(rows, id) == {r \in rows : r.id # id}

\* Counters::snapshot for one tool.
Snapshot(rows, tool, now) ==
    LET seen == {r \in rows : r.tool = tool /\ r.at > now - Day /\ r.at <= now}
    IN  [lastHour |-> Cardinality({r \in seen : r.at > now - Hour}), lastDay |-> Cardinality(seen)]
===============================================================================
