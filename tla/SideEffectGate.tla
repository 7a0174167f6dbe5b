--------------------------- MODULE SideEffectGate ---------------------------
(***************************************************************************)
(* The exactly-once bookkeeping of the MCP gate                            *)
(* (crates/cloakpipe-mcp/src/proxy.rs over operations.rs): agent requests  *)
(* are decided one at a time per gate, a side-effecting call is an         *)
(* operation of the store, replies are matched by JSON-RPC request id, and *)
(* gate crashes, lost replies, failing stores and operators interleave     *)
(* with all of it.                                                         *)
(*                                                                         *)
(* An attempt is one agent request.  Each lock region of the code is one   *)
(* step: `pending` is never held across the store, so check, begin and     *)
(* register are three steps of the agent side, and take, settle and record *)
(* three steps of a reply.                                                 *)
(*                                                                         *)
(* The ledger is abstracted to the set of things its entries say of an     *)
(* operation (and of the attempt they are about).  A refusal leaves        *)
(* nothing behind but an entry of its own, which no later step reads: the  *)
(* refused request is forgotten.                                           *)
(***************************************************************************)
EXTENDS OperationStore

CONSTANTS
    Attempts, NoAttempt,  \* agent requests
    Requests, NoRequest,  \* JSON-RPC request ids
    NoOperation,          \* the operation of a request without side effect
    Pii,                  \* the gates started with `--transform pii`
    Forcing,              \* operators may pass --force
    Linger,               \* a stopped gate's threads may outlive its lock
    Faults                \* which writes may fail: "store", "ledger"

ASSUME GateAssumption ==
    /\ NoAttempt \notin Attempts
    /\ NoRequest \notin Requests
    /\ NoOperation \notin Operations
    /\ Pii \subseteq Gates
    /\ Forcing \in BOOLEAN
    /\ Linger \in BOOLEAN
    /\ Faults \subseteq {"store", "ledger"}

VARIABLES
    mode,         \* mode[g]: the life of gate process g
    recovered,    \* recovered[g]: operations swept at start-up, not yet recorded
    byRequest,    \* PendingOps.by_request
    outstanding,  \* PendingOps.outstanding: the requests its counters count
    info,         \* info[a]: what attempt a asks, of which gate
    pc,           \* pc[a]: where decide_agent is with attempt a
    up,           \* up[a]: the call as its tool sees it
    fate,         \* fate[a]: what became of the reply to a
    verdict,      \* verdict[a]: the outcome being settled for a
    answer,       \* answer[a]: what the agent was told
    ledger        \* what the decision ledger says

gateVars == <<mode, recovered, byRequest, outstanding, info, pc, up, fate,
              verdict, answer, ledger>>
vars == <<rows, gateLock, mode, recovered, byRequest, outstanding, info, pc,
          up, fate, verdict, answer, ledger>>

-----------------------------------------------------------------------------
Modes == {"down", "recovering", "serving", "closing", "lingering"}
Phases == {"idle", "checked", "begun", "registered", "unsent", "unrecorded",
           "unstarted", "decided"}
Upstream == {"none", "queued", "sent", "committed", "rejected", "gone"}
Fates == {"none", "taken", "abandoned", "settled", "over"}
Outcomes == {"none", "committed", "failed", "unknown"}
Answers == {"none", "replayed", "tokens", "result", "error",
            "unknown", "reconciled", "unavailable", "dead"}
Entry == [op   : Operations \cup {NoOperation},   \* operation_id, optional
          kind : {"call", "replay", "committed", "failed", "unknown",
                  "reconciled_done", "reconciled_not_applied"},
          of   : Attempts \cup {NoAttempt}]
Info == [gate : Gates \cup {NoGate},
         req  : Requests \cup {NoRequest},
         op   : Operations \cup {NoOperation},
         call : Calls \cup {NoCall}]
NoInfo == [gate |-> NoGate, req |-> NoRequest, op |-> NoOperation, call |-> NoCall]

(***************************************************************************)
(* Every variable holds what the code's types allow; a call being settled  *)
(* carries its outcome.                                                    *)
(***************************************************************************)
TypeOK ==
    /\ StoreTypeOK
    /\ mode \in [Gates -> Modes]
    /\ recovered \in [Gates -> SUBSET Operations]
    /\ byRequest \in [Gates -> [Requests -> Attempts \cup {NoAttempt}]]
    /\ outstanding \in [Gates -> [Requests -> SUBSET Attempts]]
    /\ info \in [Attempts -> Info]
    /\ pc \in [Attempts -> Phases]
    /\ up \in [Attempts -> Upstream]
    /\ fate \in [Attempts -> Fates]
    /\ verdict \in [Attempts -> Outcomes]
    /\ answer \in [Attempts -> Answers]
    /\ ledger \subseteq Entry
    /\ \A a \in Attempts : fate[a] \in {"taken", "abandoned", "settled"} => verdict[a] # "none"

NobodyPending == [r \in Requests |-> NoAttempt]
NothingOutstanding == [r \in Requests |-> {}]

Init ==
    /\ StoreInit
    /\ mode = [g \in Gates |-> "down"]
    /\ recovered = [g \in Gates |-> {}]
    /\ byRequest = [g \in Gates |-> NobodyPending]
    /\ outstanding = [g \in Gates |-> NothingOutstanding]
    /\ info = [a \in Attempts |-> NoInfo]
    /\ pc = [a \in Attempts |-> "idle"]
    /\ up = [a \in Attempts |-> "none"]
    /\ fate = [a \in Attempts |-> "none"]
    /\ verdict = [a \in Attempts |-> "none"]
    /\ answer = [a \in Attempts |-> "none"]
    /\ ledger = {}

-----------------------------------------------------------------------------
Of(g) == {a \in Attempts : info[a].gate = g}
OfOp(o) == {a \in Attempts : info[a].op = o}
IsOperation(a) == info[a].op \in Operations

Accepting(g) == mode[g] \in {"serving", "closing", "lingering"}
Closed(g) == mode[g] \in {"closing", "lingering"}
Deciding(a) == pc[a] \notin {"idle", "decided"}
\* Mutant: only the side-effecting calls reserve their request id.
InUse_ByRequestOnly(g, r) == byRequest[g][r] # NoAttempt

InUse(g, r) == byRequest[g][r] # NoAttempt \/ outstanding[g][r] # {}

\* The first answer is the one the agent takes.
Tell(a, what) == answer' = [answer EXCEPT ![a] = IF @ = "none" THEN what ELSE @]
Goto(a, p) == pc' = [pc EXCEPT ![a] = p]
\* A refused request is answered on the spot and forgotten.
Refuse(a) ==
    /\ Goto(a, "idle")
    /\ info' = [info EXCEPT ![a] = NoInfo]
Record(o, kind, a) == ledger' = ledger \cup {[op |-> o, kind |-> kind, of |-> a]}

-----------------------------------------------------------------------------
(***************************************************************************)
(* Start-up: `recover` commits the sweep, then `build` checks for masked   *)
(* results and records one unknown outcome per swept operation before it   *)
(* serves.  Either may stop the gate.                                      *)
(***************************************************************************)
Start(g) ==
    /\ mode[g] = "down"
    /\ Recover(g)
    /\ recovered' = [recovered EXCEPT ![g] = LeftInFlight]
    /\ mode' = [mode EXCEPT ![g] = "recovering"]
    /\ UNCHANGED <<byRequest, outstanding, info, pc, up, fate, verdict, answer, ledger>>

StartRefused(g) == g \notin Pii /\ MaskedResults # {}

RecordRecovered(g, o) ==
    /\ mode[g] = "recovering"
    /\ ~StartRefused(g)
    /\ o \in recovered[g]
    /\ Record(o, "unknown", NoAttempt)
    /\ recovered' = [recovered EXCEPT ![g] = @ \ {o}]
    /\ UNCHANGED <<rows, gateLock, mode, byRequest, outstanding, info, pc, up, fate, verdict, answer>>

StartFails(g) ==
    /\ mode[g] = "recovering"
    /\ StartRefused(g) \/ ("ledger" \in Faults /\ recovered[g] # {})
    /\ mode' = [mode EXCEPT ![g] = "down"]
    /\ recovered' = [recovered EXCEPT ![g] = {}]
    /\ ReleaseGate(g)
    /\ UNCHANGED <<rows, byRequest, outstanding, info, pc, up, fate, verdict, answer, ledger>>

Serve(g) ==
    /\ mode[g] = "recovering"
    /\ ~StartRefused(g)
    /\ recovered[g] = {}
    /\ mode' = [mode EXCEPT ![g] = "serving"]
    /\ UNCHANGED <<rows, gateLock, recovered, byRequest, outstanding, info, pc, up, fate, verdict, answer, ledger>>

-----------------------------------------------------------------------------
(***************************************************************************)
(* The agent side: decide_agent, under the gate mutex.                     *)
(***************************************************************************)
Arrives(g, a, r, o, c) ==
    /\ Accepting(g)
    /\ \A b \in Of(g) : ~Deciding(b)
    /\ pc[a] = "idle"
    /\ info' = [info EXCEPT ![a] = [gate |-> g, req |-> r, op |-> o, call |-> c]]

\* A request without side effect: outstanding until it is answered.  One
\* reusing the id of a side-effecting call in flight is refused.
ForwardPlain(g, a, r) ==
    /\ Arrives(g, a, r, NoOperation, NoCall)
    /\ byRequest[g][r] = NoAttempt
    /\ outstanding' = [outstanding EXCEPT ![g][r] = @ \cup {a}]
    /\ Goto(a, "decided")
    /\ up' = [up EXCEPT ![a] = IF Closed(g) THEN "gone" ELSE "queued"]
    /\ UNCHANGED <<rows, gateLock, mode, recovered, byRequest, fate, verdict, answer, ledger>>

\* A side-effecting call the release gate lets through, and coordinate's
\* first lock region: closed, or a request id in use, is refused.
CheckCall(g, a, r, o, c) ==
    /\ Arrives(g, a, r, o, c)
    /\ ~Closed(g)
    /\ ~InUse(g, r)
    /\ Goto(a, "checked")
    /\ UNCHANGED <<rows, gateLock, mode, recovered, byRequest, outstanding, up, fate, verdict, answer, ledger>>

\* coordinate, the store transaction.
BeginForward(a) ==
    /\ pc[a] = "checked"
    /\ Begin(info[a].op, info[a].call)
    /\ Goto(a, "begun")
    /\ UNCHANGED <<gateLock, mode, recovered, byRequest, outstanding, info, up, fate, verdict, answer, ledger>>

ReplayRefused(a) == rows[info[a].op].masked /\ info[a].gate \notin Pii

BeginRefused(a) ==
    /\ pc[a] = "checked"
    /\ \/ Conflict(info[a].op, info[a].call)
       \/ MustReconcile(info[a].op, info[a].call)
       \/ Replayable(info[a].op, info[a].call) /\ ReplayRefused(a)
       \/ "store" \in Faults
    /\ Refuse(a)
    /\ UNCHANGED <<rows, gateLock, mode, recovered, byRequest, outstanding, up, fate, verdict, answer, ledger>>

\* A done operation is answered from its row, a masked result through the
\* vault.  Unrecorded, the replay is refused (fail_closed).
Replayed(a) ==
    IF rows[info[a].op].result = "tokens" /\ ~rows[info[a].op].masked
    THEN "tokens" ELSE "replayed"

Replay(a) ==
    /\ pc[a] = "checked"
    /\ Replayable(info[a].op, info[a].call)
    /\ ~ReplayRefused(a)
    /\ \/ /\ Record(info[a].op, "replay", a)
          /\ Goto(a, "decided")
          /\ Tell(a, Replayed(a))
          /\ UNCHANGED info
       \/ /\ "ledger" \in Faults
          /\ Refuse(a)
          /\ UNCHANGED <<answer, ledger>>
    /\ UNCHANGED <<rows, gateLock, mode, recovered, byRequest, outstanding, up, fate, verdict>>

\* coordinate, second lock region: the exit sweep may have closed the gate.
Register(a) ==
    LET g == info[a].gate IN
    /\ pc[a] = "begun"
    /\ IF Closed(g)
       THEN Goto(a, "unsent") /\ UNCHANGED byRequest
       ELSE Goto(a, "registered") /\ byRequest' = [byRequest EXCEPT ![g][info[a].req] = a]
    /\ UNCHANGED <<rows, gateLock, mode, recovered, outstanding, info, up, fate, verdict, answer, ledger>>

\* A call that will not be sent gives its operation back as failed.
GiveBack(a) ==
    /\ \/ Settle(info[a].op, "failed", "null", FALSE)
       \/ "store" \in Faults /\ UNCHANGED rows
    /\ Refuse(a)
    /\ UNCHANGED <<gateLock, mode, recovered, byRequest, outstanding, up, fate, verdict, answer, ledger>>

ReleaseUnsent(a) == pc[a] = "unsent" /\ GiveBack(a)

\* No record, no call: the entry is written before the call is handed on.
RecordForwarded(a) ==
    /\ pc[a] = "registered"
    /\ Record(info[a].op, "call", a)
    /\ Goto(a, "decided")
    /\ up' = [up EXCEPT ![a] = IF Closed(info[a].gate) THEN "gone" ELSE "queued"]
    /\ UNCHANGED <<rows, gateLock, mode, recovered, byRequest, outstanding, info, fate, verdict, answer>>

\* Mutant: a lost record is only warned about.
RecordFails_ForwardAnyway(a) ==
    /\ pc[a] = "registered"
    /\ "ledger" \in Faults
    /\ Goto(a, "decided")
    /\ up' = [up EXCEPT ![a] = IF Closed(info[a].gate) THEN "gone" ELSE "queued"]
    /\ UNCHANGED <<rows, gateLock, mode, recovered, byRequest, outstanding, info, fate, verdict, answer, ledger>>

RecordFails(a) ==
    /\ pc[a] = "registered"
    /\ "ledger" \in Faults
    /\ Goto(a, "unrecorded")
    /\ UNCHANGED <<rows, gateLock, mode, recovered, byRequest, outstanding, info, up, fate, verdict, answer, ledger>>

\* Mutant: a call that was not sent stays in by_request.
UnstartRemove_LeftBehind(a) ==
    /\ pc[a] = "unrecorded"
    /\ Goto(a, "unstarted")
    /\ UNCHANGED <<rows, gateLock, mode, recovered, byRequest, outstanding, info, up, fate, verdict, answer, ledger>>

\* unstart: take the call out of by_request (the exit sweep may have), then
\* give the operation back.
UnstartRemove(a) ==
    LET g == info[a].gate IN
    /\ pc[a] = "unrecorded"
    /\ IF byRequest[g][info[a].req] = a
       THEN /\ Goto(a, "unstarted")
            /\ byRequest' = [byRequest EXCEPT ![g][info[a].req] = NoAttempt]
       ELSE Goto(a, "decided") /\ UNCHANGED byRequest
    /\ UNCHANGED <<rows, gateLock, mode, recovered, outstanding, info, up, fate, verdict, answer, ledger>>

UnstartSettle(a) == pc[a] = "unstarted" /\ GiveBack(a)

-----------------------------------------------------------------------------
(***************************************************************************)
(* The tool, external: it gets the call, then acts or refuses to act, at   *)
(* any time, whether or not the gate still waits.  An error reply means    *)
(* the tool did not act.                                                   *)
(***************************************************************************)
Send(a) ==
    /\ up[a] = "queued"
    /\ up' = [up EXCEPT ![a] = "sent"]
    /\ UNCHANGED <<rows, gateLock, mode, recovered, byRequest, outstanding, info, pc, fate, verdict, answer, ledger>>

Execute(a) ==
    /\ up[a] = "sent"
    /\ \E result \in {"committed", "rejected"} : up' = [up EXCEPT ![a] = result]
    /\ UNCHANGED <<rows, gateLock, mode, recovered, byRequest, outstanding, info, pc, fate, verdict, answer, ledger>>

-----------------------------------------------------------------------------
(***************************************************************************)
(* The reply side.  A reply, or a transport error, names a request id; the *)
(* gate looks it up in by_request, else in outstanding.                    *)
(***************************************************************************)
Waiting(a) ==
    /\ pc[a] = "decided"
    /\ fate[a] = "none"
    /\ mode[info[a].gate] = "serving"

\* Take request `info[a].req` out of by_request, towards `next`, or out of
\* outstanding, whose agent is told `what`.
TakeRequest(a, next, outcome, what) ==
    LET g == info[a].gate
        r == info[a].req
        b == byRequest[g][r]
    IN IF b # NoAttempt
       THEN /\ byRequest' = [byRequest EXCEPT ![g][r] = NoAttempt]
            /\ fate' = [fate EXCEPT ![b] = next]
            /\ verdict' = [verdict EXCEPT ![b] = outcome]
            /\ UNCHANGED <<outstanding, answer>>
       ELSE /\ outstanding' = [outstanding EXCEPT ![g][r] = @ \ {a}]
            /\ fate' = [fate EXCEPT ![a] = "over"]
            /\ Tell(a, what)
            /\ UNCHANGED <<byRequest, verdict>>

\* Mutant: an error reply settles like a result.
Reply_IgnoreIsError(a) ==
    /\ Waiting(a)
    /\ up[a] \in {"committed", "rejected"}
    /\ TakeRequest(a, "taken", "committed", "result")
    /\ UNCHANGED <<rows, gateLock, mode, recovered, info, pc, up, ledger>>

\* settle_reply, up to the release of `pending`.
Reply(a) ==
    /\ Waiting(a)
    /\ \/ up[a] = "committed" /\ TakeRequest(a, "taken", "committed", "result")
       \/ up[a] = "rejected" /\ TakeRequest(a, "taken", "failed", "error")
    /\ UNCHANGED <<rows, gateLock, mode, recovered, info, pc, up, ledger>>

\* Mutant: a transport error counts as the tool's own error.
OnUpstreamError_Failed(a) ==
    /\ Waiting(a)
    /\ up[a] \in {"queued", "sent", "committed", "rejected"}
    /\ TakeRequest(a, "taken", "failed", "unavailable")
    /\ up' = [up EXCEPT ![a] = IF @ = "queued" THEN "gone" ELSE @]
    /\ UNCHANGED <<rows, gateLock, mode, recovered, info, pc, ledger>>

\* on_upstream_error: the call may or may not have been delivered.
OnUpstreamError(a) ==
    /\ Waiting(a)
    /\ up[a] \in {"queued", "sent", "committed", "rejected"}
    /\ TakeRequest(a, "abandoned", "unknown", "unavailable")
    /\ up' = [up EXCEPT ![a] = IF @ = "queued" THEN "gone" ELSE @]
    /\ UNCHANGED <<rows, gateLock, mode, recovered, info, pc, ledger>>

\* settle_reply, the store write.  Without a row it changed, or on a store
\* error, the reply is relayed and nothing is recorded.
ReplyAnswer(a) == IF verdict[a] = "committed" THEN "result" ELSE "error"

SettleReply(a) ==
    LET o == info[a].op
        masked == info[a].gate \in Pii
    IN
    /\ fate[a] = "taken"
    /\ \/ /\ Settles(o)
          /\ IF verdict[a] = "committed"
             THEN Settle(o, "done", IF masked THEN "tokens" ELSE "raw", masked)
             ELSE Settle(o, "failed", "null", masked)
          /\ fate' = [fate EXCEPT ![a] = "settled"]
          /\ UNCHANGED answer
       \/ /\ ~Settles(o) \/ "store" \in Faults
          /\ fate' = [fate EXCEPT ![a] = "over"]
          /\ Tell(a, ReplyAnswer(a))
          /\ UNCHANGED rows
    /\ UNCHANGED <<gateLock, mode, recovered, byRequest, outstanding, info, pc, up, verdict, ledger>>

\* Mutant: an operation reconciled meanwhile is left without a notice.
Abandon_SilentIfReconciled(a) ==
    LET o == info[a].op IN
    /\ fate[a] = "abandoned"
    /\ IF Settles(o)
       THEN /\ Settle(o, "unknown", "null", FALSE)
            /\ fate' = [fate EXCEPT ![a] = "settled"]
       ELSE /\ fate' = [fate EXCEPT ![a] = "over"]
            /\ UNCHANGED rows
    /\ UNCHANGED <<gateLock, mode, recovered, byRequest, outstanding, info, pc, up, verdict, answer, ledger>>

\* abandon, the store write: an operation reconciled meanwhile keeps its
\* state.
Abandon(a) ==
    LET o == info[a].op IN
    /\ fate[a] = "abandoned"
    /\ \/ /\ Settles(o)
          /\ Settle(o, "unknown", "null", FALSE)
          /\ fate' = [fate EXCEPT ![a] = "settled"]
          /\ UNCHANGED answer
       \/ /\ ~Settles(o)
          /\ fate' = [fate EXCEPT ![a] = "over"]
          /\ Tell(a, "reconciled")
          /\ UNCHANGED rows
       \/ /\ "store" \in Faults
          /\ fate' = [fate EXCEPT ![a] = "over"]
          /\ Tell(a, "unknown")
          /\ UNCHANGED rows
    /\ UNCHANGED <<gateLock, mode, recovered, byRequest, outstanding, info, pc, up, verdict, ledger>>

\* relay and abandon, after a settlement: its outcome is recorded (a lost
\* record is only warned about) and the agent answered.
RecordOutcome(a) ==
    /\ fate[a] = "settled"
    /\ \/ Record(info[a].op, verdict[a], a)
       \/ "ledger" \in Faults /\ UNCHANGED ledger
    /\ fate' = [fate EXCEPT ![a] = "over"]
    /\ Tell(a, IF verdict[a] = "unknown" THEN "unknown" ELSE ReplyAnswer(a))
    /\ UNCHANGED <<rows, gateLock, mode, recovered, byRequest, outstanding, info, pc, up, verdict>>

-----------------------------------------------------------------------------
(***************************************************************************)
(* The end of a gate.                                                      *)
(***************************************************************************)
\* finish, first lock region, once the reply threads have ended: close
\* `pending` and drain by_request.
Finish(g) ==
    LET drained == {a \in Attempts : \E r \in Requests : byRequest[g][r] = a} IN
    /\ mode[g] = "serving"
    /\ \A a \in Of(g) : fate[a] # "taken" /\ ~(fate[a] = "settled" /\ verdict[a] # "unknown")
    /\ mode' = [mode EXCEPT ![g] = "closing"]
    /\ byRequest' = [byRequest EXCEPT ![g] = NobodyPending]
    /\ fate' = [a \in Attempts |-> IF a \in drained THEN "abandoned" ELSE fate[a]]
    /\ verdict' = [a \in Attempts |-> IF a \in drained THEN "unknown" ELSE verdict[a]]
    /\ up' = [a \in Attempts |->
                IF info[a].gate = g /\ up[a] = "queued" THEN "gone" ELSE up[a]]
    /\ UNCHANGED <<rows, gateLock, recovered, outstanding, info, pc, answer, ledger>>

\* The process is gone: its threads, its tables and its unsent messages.
Dies(g) ==
    /\ mode' = [mode EXCEPT ![g] = "down"]
    /\ recovered' = [recovered EXCEPT ![g] = {}]
    /\ byRequest' = [byRequest EXCEPT ![g] = NobodyPending]
    /\ outstanding' = [outstanding EXCEPT ![g] = NothingOutstanding]
    /\ pc' = [a \in Attempts |-> IF info[a].gate = g THEN "decided" ELSE pc[a]]
    /\ fate' = [a \in Attempts |-> IF info[a].gate = g THEN "over" ELSE fate[a]]
    /\ answer' = [a \in Attempts |->
                    IF info[a].gate = g /\ answer[a] = "none" THEN "dead" ELSE answer[a]]
    /\ up' = [a \in Attempts |->
                IF info[a].gate = g /\ up[a] = "queued" THEN "gone" ELSE up[a]]
    /\ ReleaseGate(g)
    /\ UNCHANGED <<rows, info, verdict, ledger>>

\* finish, the end: the lock is given up; the process exits now, or later.
Release(g) ==
    /\ mode[g] = "closing"
    /\ \A a \in Of(g) : fate[a] \notin {"abandoned", "settled"}
    /\ IF Linger
       THEN /\ mode' = [mode EXCEPT ![g] = "lingering"]
            /\ ReleaseGate(g)
            /\ UNCHANGED <<rows, recovered, byRequest, outstanding, info, pc, up, fate, verdict, answer, ledger>>
       ELSE Dies(g)

Exit(g) == mode[g] = "lingering" /\ Dies(g)

Crash(g) == mode[g] # "down" /\ Dies(g)

-----------------------------------------------------------------------------
(***************************************************************************)
(* The operator, external, checks the system of record first: the verdict  *)
(* is what the tool did, given once nothing can change that any more.      *)
(***************************************************************************)
Applied(o) == \E a \in OfOp(o) : up[a] = "committed"
\* The call may yet reach the tool, or be acted on.
Coming(a) ==
    \/ up[a] \in {"queued", "sent"}
    \/ pc[a] \in {"begun", "registered"} /\ ~Closed(info[a].gate)
Final(o) == \A a \in OfOp(o) : ~Coming(a)
Truth(o) == IF Applied(o) THEN "done" ELSE "not_applied"

\* reconcile_operation: the entry is written inside the store transaction,
\* which may still be lost (the ledger is another database).
ReconcileEntry(o) ==
    Record(o, IF Truth(o) = "done" THEN "reconciled_done" ELSE "reconciled_not_applied", NoAttempt)

Reconcile(o) ==
    /\ Reconcilable(o, Forcing)
    /\ Final(o)
    /\ ReconcileEntry(o)
    /\ SetVerdict(o, Truth(o))
    /\ UNCHANGED <<gateLock, mode, recovered, byRequest, outstanding, info, pc, up, fate, verdict, answer>>

ReconcileLost(o) ==
    /\ Reconcilable(o, Forcing)
    /\ Final(o)
    /\ "store" \in Faults
    /\ ReconcileEntry(o)
    /\ UNCHANGED <<rows, gateLock, mode, recovered, byRequest, outstanding, info, pc, up, fate, verdict, answer>>

-----------------------------------------------------------------------------
GateStep(g) ==
    \/ Start(g) \/ StartFails(g) \/ Serve(g)
    \/ \E o \in Operations : RecordRecovered(g, o)
    \/ Finish(g) \/ Release(g) \/ Exit(g) \/ Crash(g)

AgentStep(g, a) ==
    \E r \in Requests :
        \/ ForwardPlain(g, a, r)
        \/ \E o \in Operations, c \in Calls : CheckCall(g, a, r, o, c)

DecideStep(a) ==
    \/ BeginForward(a) \/ BeginRefused(a) \/ Replay(a)
    \/ Register(a) \/ ReleaseUnsent(a)
    \/ RecordForwarded(a) \/ RecordFails(a)
    \/ UnstartRemove(a) \/ UnstartSettle(a)

ToolStep(a) == Send(a) \/ Execute(a)

ReplyStep(a) ==
    \/ Reply(a) \/ OnUpstreamError(a)
    \/ SettleReply(a) \/ Abandon(a) \/ RecordOutcome(a)

OperatorStep(o) == Reconcile(o) \/ ReconcileLost(o)

Next ==
    \/ \E g \in Gates : GateStep(g)
    \/ \E g \in Gates, a \in Attempts : AgentStep(g, a)
    \/ \E a \in Attempts : DecideStep(a) \/ ToolStep(a) \/ ReplyStep(a)
    \/ \E o \in Operations : OperatorStep(o)

Spec == Init /\ [][Next]_vars

-----------------------------------------------------------------------------
(***************************************************************************)
(* Safety.                                                                 *)
(***************************************************************************)
\* What the coordinator is for: whatever is retried, lost, crashed or
\* reconciled, the tool acts at most once for an operation.
AtMostOneEffect ==
    \A a, b \in Attempts :
        /\ IsOperation(a) /\ info[a].op = info[b].op
        /\ up[a] = "committed" /\ up[b] = "committed"
        => a = b

\* A row that lets a retry run (absent, failed, not_applied) is one whose
\* effect did not happen and cannot happen any more.
RetryableNotApplied ==
    \A o \in Operations :
        rows[o].state \in {"absent", "failed", "not_applied"} =>
            \A a \in OfOp(o) : up[a] \notin {"queued", "sent", "committed"}

\* A done row, which answers every retry, stands for an effect that did
\* happen: no reply is taken for another request's.
DoneIsApplied ==
    \A o \in Operations : rows[o].state = "done" => Applied(o)

\* A call a gate still waits for has its row in flight: no start-up sweep,
\* settlement or verdict takes it away from under the gate.
LiveNotDemoted ==
    \A g \in Gates, r \in Requests :
        byRequest[g][r] # NoAttempt =>
            /\ rows[info[byRequest[g][r]].op].state = "in_flight"
            /\ gateLock = g

\* The ledger never claims an effect that did not happen.
LedgerTruthful ==
    \A e \in ledger :
        e.kind \in {"committed", "replay", "reconciled_done"} => Applied(e.op)

\* No record, no call: every call handed to the tool has its own entry,
\* retries of the same operation included.
NothingUnrecorded ==
    \A a \in Attempts :
        IsOperation(a) /\ up[a] \notin {"none", "gone"} =>
            [op |-> info[a].op, kind |-> "call", of |-> a] \in ledger

\* The agent never gets pseudonym tokens for a stored result, whatever mix
\* of gates with and without the PII transform ran on the database.
NoTokensReplayed == \A a \in Attempts : answer[a] # "tokens"

\* A completed operation is never run, demoted or rewritten again.
DoneIsFinal ==
    [][\A o \in Operations : rows[o].state = "done" => rows'[o] = rows[o]]_vars

-----------------------------------------------------------------------------
(***************************************************************************)
(* The inductive invariant behind AtMostOneEffect, for operators who never *)
(* force (~Forcing) and gates that exit with their lock (~Linger).         *)
(***************************************************************************)
Running(g) == mode[g] \in {"serving", "closing"}
Registered(a) == byRequest[info[a].gate][info[a].req] = a

\* The attempt began its operation and has yet to settle it.
Holds(a) ==
    \/ pc[a] \in {"begun", "unsent", "unstarted"}
    \/ pc[a] \in {"registered", "unrecorded", "decided"} /\ Registered(a)
    \/ fate[a] \in {"taken", "abandoned"}

\* The tool acted for the attempt, or may yet.
MayAct(a) ==
    \/ up[a] \in {"queued", "sent", "committed"}
    \/ pc[a] = "begun"
    \/ pc[a] = "registered" /\ fate[a] = "none"

\* A gate that runs holds the lock.
LockInv ==
    \A g \in Gates :
        /\ mode[g] # "lingering"
        /\ mode[g] # "down" => gateLock = g

\* An unused attempt is blank; one being decided or settled is an operation
\* of a running gate.
AttemptInv ==
    \A a \in Attempts :
        /\ pc[a] = "idle" =>
              info[a] = NoInfo /\ up[a] = "none" /\ fate[a] = "none"
        /\ pc[a] # "idle" => info[a].gate \in Gates /\ info[a].req \in Requests
        /\ Deciding(a) \/ fate[a] \in {"taken", "abandoned", "settled"} =>
              IsOperation(a) /\ Running(info[a].gate)
        /\ up[a] # "none" => pc[a] = "decided"
        /\ pc[a] \in {"checked", "begun", "unsent", "unstarted"} => fate[a] = "none"
        /\ pc[a] \in {"registered", "unrecorded"} =>
              \/ fate[a] = "none" /\ Registered(a)
              \/ fate[a] # "none" /\ mode[info[a].gate] = "closing"

\* The gate mutex: one request is decided at a time, so the request id that
\* was free at the check still is when the call is registered.
MutexInv ==
    \A a \in Attempts :
        /\ \A b \in Attempts :
              Deciding(a) /\ Deciding(b) /\ info[a].gate = info[b].gate => a = b
        /\ pc[a] \in {"checked", "begun"} => ~InUse(info[a].gate, info[a].req)

\* by_request holds exactly the side-effecting calls a serving gate waits
\* for, and shares no id with outstanding.
PendingInv ==
    /\ \A g \in Gates, r \in Requests :
          byRequest[g][r] # NoAttempt =>
              LET a == byRequest[g][r] IN
              /\ info[a].gate = g /\ info[a].req = r /\ IsOperation(a)
              /\ pc[a] \in {"registered", "unrecorded", "decided"}
              /\ fate[a] = "none"
              /\ mode[g] = "serving"
              /\ outstanding[g][r] = {}
    /\ \A a \in Attempts :
          /\ up[a] # "none" /\ fate[a] = "none" /\ IsOperation(a) =>
                mode[info[a].gate] = "serving" /\ Registered(a)
          /\ up[a] # "none" /\ fate[a] = "none" /\ ~IsOperation(a) =>
                a \in outstanding[info[a].gate][info[a].req]

\* A reply taken says what the tool did; an unsent message is waited for.
ReplyInv ==
    \A a \in Attempts :
        /\ fate[a] = "taken" =>
              \/ verdict[a] = "committed" /\ up[a] = "committed"
              \/ verdict[a] = "failed" /\ up[a] = "rejected"
        /\ up[a] = "queued" => fate[a] = "none"

\* The row of an operation somebody holds is in flight, and nobody else
\* holds the operation or may act for it.
HolderInv ==
    \A a \in Attempts : Holds(a) =>
        /\ rows[info[a].op].state = "in_flight"
        /\ \A b \in Attempts \ {a} : info[b].op = info[a].op => ~Holds(b) /\ ~MayAct(b)

\* A row that lets a retry run has nobody left who may act, and no row has
\* two.
EffectInv ==
    \A o \in Operations :
        /\ rows[o].state \in {"absent", "failed", "not_applied"} =>
              \A a \in OfOp(o) : ~MayAct(a)
        /\ \A a, b \in OfOp(o) : MayAct(a) /\ MayAct(b) => a = b
        /\ rows[o].state = "done" => Applied(o)

\* Who holds what, who may act, and what the rows then say: inductive, and
\* strong enough for AtMostOneEffect, RetryableNotApplied, DoneIsApplied and
\* LiveNotDemoted.
CoordinationInv ==
    /\ LockInv
    /\ AttemptInv
    /\ MutexInv
    /\ PendingInv
    /\ ReplyInv
    /\ HolderInv
    /\ EffectInv

-----------------------------------------------------------------------------
(***************************************************************************)
(* Liveness.  The gate's threads are never blocked for good, a process     *)
(* that gave up its lock exits, the tool acts on what it is sent, and a    *)
(* reply comes back or the transport reports that it will not.  Nothing is *)
(* assumed of agents, operators and crashes.                               *)
(***************************************************************************)
Fairness ==
    /\ \A a \in Attempts :
        /\ WF_vars(DecideStep(a))
        /\ WF_vars(ToolStep(a))
        /\ WF_vars(Reply(a) \/ OnUpstreamError(a))
        /\ WF_vars(SettleReply(a) \/ Abandon(a) \/ RecordOutcome(a))
    /\ \A g \in Gates : WF_vars(Release(g)) /\ WF_vars(Exit(g))

FairSpec == Spec /\ Fairness

\* A request is never left unanswered: the agent gets a reply, a refusal or
\* a notice, or sees its gate's connection close.
EveryRequestAnswered ==
    \A a \in Attempts : pc[a] # "idle" ~> pc[a] = "idle" \/ answer[a] # "none"
=============================================================================
