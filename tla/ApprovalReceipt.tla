--------------------------- MODULE ApprovalReceipt ---------------------------
(***************************************************************************)
(* Approval receipts (cloakpipe-receipt, approval.rs): what an approver    *)
(* signs about one exact call, and when the gate takes it.  Times are in   *)
(* ticks; a field that cannot be read as a time, or an operation id that   *)
(* is not valid, is 0.                                                     *)
(***************************************************************************)
EXTENDS Dsse, Checks

CONSTANT Skew      \* CLOCK_SKEW_SECS: how far ahead of us an approver's clock may be

ASSUME SkewAssumption == Skew \in Nat

ApprovalPredicate == "approval/v1"

\* approval_statement: the predicate about the call with this fingerprint.
ApprovalStatement(fingerprint, approval) ==
    [json |-> TRUE, type |-> StatementV1, predicateType |-> ApprovalPredicate,
     subject |-> {fingerprint}, predicate |-> approval]

SignApproval(fingerprint, approval, key, keyid) == Sign(ApprovalStatement(fingerprint, approval), key, keyid)

\* verify_approval: "ok", "invalid" or "expired"; expired only when that is
\* the receipt's one fault.
VerifyApproval(envelope, check) ==
    LET st == envelope.payload
        a == st.predicate
        signers == VerifiedKeyids(envelope, check.approvers)
    IN  IF ~Decodes(envelope) \/ envelope.type # InToto \/ signers = {} THEN "invalid"
        ELSE FirstFailure(<<
            <<st.type # StatementV1, "invalid">>,
            <<st.predicateType # ApprovalPredicate, "invalid">>,
            <<st.subject # {check.fingerprint}, "invalid">>,
            <<a.approver \notin signers, "invalid">>,
            <<a.release # check.release, "invalid">>,
            <<a.tool # check.tool, "invalid">>,
            <<a.taskId # check.taskId, "invalid">>,
            <<a.operationId = 0, "invalid">>,
            <<a.approvedAt = 0 \/ a.notAfter = 0, "invalid">>,
            <<a.notAfter <= a.approvedAt, "invalid">>,
            <<a.approvedAt > check.now + Skew, "invalid">>,
            <<check.now >= a.notAfter, "expired">> >>)

\* within_ttl, and the same test in the broker client: 0 bounds nothing.
WithinTtl(ttl, a) == ttl = 0 \/ a.notAfter - a.approvedAt <= ttl
===============================================================================
