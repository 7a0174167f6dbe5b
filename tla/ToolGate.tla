------------------------------ MODULE ToolGate ------------------------------
(***************************************************************************)
(* The release gate (cloakpipe-mcp gate.rs) and the command line that      *)
(* builds it (cloakpipe-cli gate.rs): whether a gate starts on the given   *)
(* flags, and what it decides about one call.                              *)
(*                                                                         *)
(* A configuration `conf` is what the flags and the manifest say:          *)
(*   manifest    "v1", "legacy" or "none"; gateFlags: some other gate flag *)
(*   tools       the tools the release declares                            *)
(*   rules       tool -> rule (v1); contracts, bound: the legacy contracts *)
(*               supplied and those the release binds                      *)
(*   task        "none", "other" (not an object), "object" or "taskId"     *)
(*   approvals   the --approvals directory is given; approvers: its keys   *)
(*   operations  the operations database: "none", "free" or "held"         *)
(*   policy      the Cedar source, or NoPolicy; certified: "off", or what  *)
(*               verifying the certification says now                      *)
(*                                                                         *)
(* A rule: what its contract says of each argument value (check), for      *)
(* which values it wants an approval, the approval's ttl (0: none),        *)
(* sideEffect, and its idempotency_key template ("none", "renders" or      *)
(* "fails").  A call is [tool, args]; it is its own fingerprint.           *)
(***************************************************************************)
EXTENDS ApprovalReceipt, PolicyCounters

NoPolicy == [syntax |-> TRUE, templates |-> FALSE, policies |-> {}, given |-> FALSE]

Denial ==
    {"undeclared_tool", "uncertified", "not_certified", "wrong_environment", "contract_missing",
     "argument_missing", "undeclared_argument", "argument_invalid", "scope_mismatch",
     "task_context_missing", "approval_required", "approval_invalid", "approval_expired",
     "approval_denied", "operation_conflict", "reconcile_before_retry", "operations_unavailable",
     "request_id_missing", "request_id_in_use", "policy_denied", "fail_closed", "tool_drift",
     "tool_unavailable"}

\* is_upstream: about the servers rather than the release; holds in shadow mode.
IsUpstream(denial) == denial \in {"tool_drift", "tool_unavailable"}

HasTaskId(conf) == conf.task = "taskId"

(***************************************************************************)
(* Starting.                                                               *)
(***************************************************************************)
EarlierTools(contracts, i) == UNION {DOMAIN contracts[j].rules : j \in 1..(i - 1)}

\* with_contracts: exactly the contracts the release binds, and no tool twice.
WithContracts(conf) ==
    LET cs == conf.contracts
        perContract(i) == << <<cs[i].ref \notin conf.bound, "not_in_release">>,
                             <<DOMAIN cs[i].rules \cap EarlierTools(cs, i) # {}, "ambiguous_tool">> >>
        loop[i \in 0..Len(cs)] == IF i = 0 THEN <<>> ELSE loop[i - 1] \o perContract(i)
    IN  FirstFailure(<< <<conf.task = "other", "task_context_not_object">> >>
                     \o loop[Len(cs)]
                     \o << <<conf.bound \ {cs[i].ref : i \in DOMAIN cs} # {}, "not_supplied">> >>)

\* The rules a started gate holds.
GateRules(conf) ==
    IF conf.manifest = "v1" THEN conf.rules
    ELSE [t \in UNION {DOMAIN conf.contracts[i].rules : i \in DOMAIN conf.contracts} |->
            conf.contracts[CHOOSE i \in DOMAIN conf.contracts : t \in DOMAIN conf.contracts[i].rules].rules[t]]

\* --approvals with its --approver-key: both or neither.
ApprovalFlags(conf) ==
    FirstFailure(<< <<~conf.approvals /\ conf.approvers # {}, "usage">>,
                    <<conf.approvals /\ conf.approvers = {}, "usage">> >>)

\* ready: a side-effect tool needs its operations store.
Ready(conf) ==
    IF conf.operations = "none" /\ \E t \in DOMAIN GateRules(conf) : GateRules(conf)[t].sideEffect
    THEN "operations_required" ELSE "ok"

\* gate_from_args: "ungated" without a manifest, "ok", or why it does not start.
GateFromArgs(conf) ==
    IF conf.manifest = "none" THEN IF conf.gateFlags THEN "usage" ELSE "ungated"
    ELSE FirstFailure(<<
        <<conf.manifest = "v1" /\ conf.contracts # <<>>, "usage">>,
        <<conf.task = "other", "task_context_not_object">>,
        <<conf.manifest = "legacy" /\ WithContracts(conf) # "ok", WithContracts(conf)>>,
        <<ApprovalFlags(conf) # "ok", "usage">>,
        <<conf.operations = "held", "operations_store">>,
        <<conf.policy.given /\ ParsePolicies(conf.policy) # "ok", "policy">>,
        <<Ready(conf) # "ok", Ready(conf)>> >>)

\* approvals::attach: an approval broker needs receipts and a task to sign for.
AttachBroker(conf) ==
    IF GateFromArgs(conf) # "ok" \/ ~conf.approvals \/ ~HasTaskId(conf) THEN "usage" ELSE "ok"

(***************************************************************************)
(* Deciding.                                                               *)
(***************************************************************************)
\* evaluate_policy.
PolicyVerdict(conf, call, window) == IF conf.policy.given THEN Evaluate(conf.policy.policies, call.tool, window) ELSE "ok"

\* approval_needed: the manifest's rule or Cedar's @approval.
ApprovalNeeded(rule, call, verdict) == call.args \in rule.approveWhen \/ verdict = "require_approval"

\* check_certification.
CheckCertification(conf) ==
    FirstFailure(<< <<conf.certified = "none", "uncertified">>,
                    <<conf.certified = "other_environment", "wrong_environment">>,
                    <<conf.certified \notin {"off", "ok"}, "not_certified">> >>)

\* authorize, up to the approval: the first refusal, "approve" when a receipt
\* is needed, else "ok".
BeforeApproval(conf, call, window) ==
    IF call.tool \notin conf.tools THEN "undeclared_tool"
    ELSE IF CheckCertification(conf) # "ok" THEN CheckCertification(conf)
    ELSE IF call.tool \notin DOMAIN GateRules(conf) THEN "ok"
    ELSE LET rule == GateRules(conf)[call.tool]
             verdict == PolicyVerdict(conf, call, window)
         IN  FirstFailure(<<
                <<rule.check[call.args] # "ok", rule.check[call.args]>>,
                <<verdict = "error", "fail_closed">>,
                <<verdict = "deny", "policy_denied">>,
                <<ApprovalNeeded(rule, call, verdict), "approve">> >>)

\* approve, once no denial holds: the receipt file as it was read ("none",
\* "unreadable" or an envelope).
ReadReceipt(conf, rule, call, file, now) ==
    LET check == [fingerprint |-> call, release |-> "release", tool |-> call.tool, taskId |-> "taskId",
                  approvers |-> conf.approvers, now |-> now]
        result == VerifyApproval(file.envelope, check)
    IN  IF file.kind = "none" THEN "approval_required"
        ELSE IF file.kind = "unreadable" THEN "approval_invalid"
        ELSE IF ~HasTaskId(conf) THEN "task_context_missing"
        ELSE FirstFailure(<< <<result = "invalid", "approval_invalid">>,
                             <<result = "expired", "approval_expired">>,
                             <<result = "ok" /\ ~WithinTtl(rule.ttl, file.envelope.payload.predicate), "approval_invalid">> >>)

\* operation_key: the receipt's id, else the rendered template, else derived
\* from the task and the call; a failure is the refusal's code.
OperationKey(conf, rule, call, receipt) ==
    IF receipt # 0 THEN <<"receipt", receipt>>
    ELSE IF rule.idempotency = "fails" THEN <<"refused", "task_context_missing">>
    ELSE IF rule.idempotency = "renders"
         THEN IF conf.operations = "none" THEN <<"refused", "operations_unavailable">> ELSE <<"template", call>>
    ELSE IF ~HasTaskId(conf) THEN <<"refused", "task_context_missing">>
    ELSE IF conf.operations = "none" THEN <<"refused", "operations_unavailable">>
    ELSE <<"derived", call>>
===============================================================================
