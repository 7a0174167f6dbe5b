----------------------------- MODULE MCApprovals -----------------------------
(* ApprovalBroker for TLC: a payment tool limited to one call an hour whose    *)
(* large payment needs an approval and whose small one needs none; receipts    *)
(* as long as the tool allows, and longer.                                     *)
EXTENDS ApprovalBroker

Approver == TrustedKey("k1", "approver")

Rule(check, when, ttl, effect) ==
    [check |-> check, approveWhen |-> when, ttl |-> ttl, sideEffect |-> effect, idempotency |-> "none"]
Limit(id, tool, effect, hour, day) ==
    [id |-> id, effect |-> effect, approval |-> FALSE, tool |-> tool, hourFrom |-> hour, dayFrom |-> day, errs |-> FALSE]

MCConf ==
    [manifest |-> "v1", gateFlags |-> TRUE, tools |-> {"pay"}, contracts |-> <<>>, bound |-> {},
     rules |-> [t \in {"pay"} |-> Rule(<<"ok", "ok">>, {1}, 2, TRUE)],
     task |-> "taskId", approvals |-> TRUE, approvers |-> {Approver}, operations |-> "free", certified |-> "off",
     policy |-> [syntax |-> TRUE, templates |-> FALSE, given |-> TRUE,
                 policies |-> {Limit("a", "pay", "permit", 0, 0), Limit("b", "pay", "forbid", 1, 0)}]]
MCCalls == {[tool |-> "pay", args |-> 1], [tool |-> "pay", args |-> 2]}
MCSignings == {<<2, "taskId", Approver>>, <<3, "taskId", Approver>>}
===============================================================================
