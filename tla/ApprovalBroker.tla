--------------------------- MODULE ApprovalBroker ---------------------------
(***************************************************************************)
(* A gate with an approval broker (cloakpipe-mcp broker.rs, gate.rs and    *)
(* the tools/call path of proxy.rs).                                       *)
(*                                                                         *)
(* Three threads of the gate share the client's state (one mutex) and the  *)
(* approvals directory (no lock):                                          *)
(*   - the agent's messages, decided one at a time: denial in memory,      *)
(*     denial marker, receipt file, call counter, ledger entry; a call     *)
(*     refused as approval_required is filed with the broker;              *)
(*   - the delivery queue's worker, which posts filings in order and may   *)
(*     fail after the broker has taken the request;                        *)
(*   - the poller, which fetches what the broker has decided and handles   *)
(*     each record in turn: a receipt is verified, then written, the       *)
(*     denial marker removed, then the memory; a denial is taken into      *)
(*     memory first, then written as a marker.                             *)
(*                                                                         *)
(* Around them: the broker, which answers filed requests in any way and    *)
(* keeps its answers; approvers' signatures; time; and crashes, which lose *)
(* the memory (the poll cursor included) and keep the files.               *)
(***************************************************************************)
EXTENDS ToolGate

CONSTANTS
    Conf,         \* the configuration (ToolGate)
    Calls,        \* the calls the agent makes
    Signings,     \* how a receipt may be signed: <<validity, task, trusted key>>
    DefaultTtl,   \* DEFAULT_REQUEST_TTL_SECS
    MaxRequest,   \* MAX_REQUEST_SECS
    MaxTime,      \* bound on the clock
    MaxLog,       \* bound on the broker's answers
    MaxFilings,   \* bound on the requests filed
    MaxForwards,  \* bound on the calls counted
    MaxCrashes    \* bound on the crashes

ASSUME BrokerAssumption ==
    /\ AttachBroker(Conf) = "ok"
    /\ {DefaultTtl, MaxRequest, MaxTime} \subseteq Nat \ {0}
    /\ {MaxLog, MaxFilings, MaxForwards, MaxCrashes} \subseteq Nat
    /\ \A s \in Signings : s[1] \in Nat
    /\ \A p \in Conf.policy.policies : p.hourFrom \in Nat /\ p.dayFrom \in Nat

VARIABLES
    clock,        \* the time
    open,         \* State::open: open[c], or NotOpen
    denied,       \* State::denied: denied[c] until when, 0 for none
    cursor,       \* State::cursor, as the number of records seen
    filings,      \* the delivery queue
    files,        \* files[c]: <hex>.approval.json
    markers,      \* markers[c]: notAfter of <hex>.denied.json, 0 for none
    rows,         \* the counters table
    lastId,       \* its AUTOINCREMENT
    log,          \* the broker's answers, in order
    asked,        \* requests filed so far
    poller,       \* what the poller is doing
    agent,        \* the call being decided
    forwarded,    \* history: the calls forwarded
    ruling,       \* history: ruling[c], the denial the gate has learned of
    crashes

vars == <<clock, open, denied, cursor, filings, files, markers, rows, lastId, log, asked, poller, agent, forwarded, ruling, crashes>>
memory == <<open, denied, cursor, filings>>
disk == <<files, markers, rows, lastId>>
world == <<clock, log, asked, forwarded, crashes>>

NotOpen == [accepted |-> FALSE, expires |-> 0, ttl |-> 0]
NoFile == [kind |-> "none"]
Idle == [pc |-> "idle"]
NoRuling == [until |-> 0, answer |-> 0, lifted |-> 0]
Least(a, b) == IF a <= b THEN a ELSE b

\* ToolGate::approval_ttls.
RuleOf(c) == GateRules(Conf)[c.tool]
Ttl(c) == RuleOf(c).ttl
RequestTtl(c) == IF Ttl(c) = 0 THEN DefaultTtl ELSE Ttl(c)

\* The calls are of tools with a rule, which refuses arguments with a denial.
ASSUME CallAssumption ==
    \A c \in Calls : /\ c.tool \in DOMAIN GateRules(Conf)
                      /\ Ttl(c) \in Nat
                      /\ RuleOf(c).check[c.args] \in Denial \cup {"ok"}

StartedEmpty ==
    /\ open' = [c \in Calls |-> NotOpen] /\ denied' = [c \in Calls |-> 0]
    /\ cursor' = 0 /\ filings' = <<>>
    /\ poller' = Idle /\ agent' = Idle

Init ==
    /\ clock = 1
    /\ open = [c \in Calls |-> NotOpen] /\ denied = [c \in Calls |-> 0]
    /\ cursor = 0 /\ filings = <<>>
    /\ files = [c \in Calls |-> NoFile] /\ markers = [c \in Calls |-> 0]
    /\ rows = {} /\ lastId = 0
    /\ log = <<>> /\ asked = 0
    /\ poller = Idle /\ agent = Idle
    /\ forwarded = {} /\ crashes = 0
    /\ ruling = [c \in Calls |-> NoRuling]

(***************************************************************************)
(* The agent's thread: one call from its arrival to its answer.            *)
(***************************************************************************)
Refused == agent' = Idle
AgentOnly == UNCHANGED <<memory, files, markers, poller, ruling, clock, log, asked, crashes>>

\* decide_agent takes one `now` for the whole decision.
Arrives(c) ==
    /\ agent = Idle
    /\ lastId < MaxForwards
    /\ LET before == BeforeApproval(Conf, c, Snapshot(rows, c.tool, clock))
           go(pc) == agent' = [pc |-> pc, call |-> c, now |-> clock, ruled |-> ruling[c]]
       IN  \/ before = "approve" /\ go("memory")
           \/ before = "ok" /\ go("forward")
           \/ before \in Denial /\ Refused
    /\ UNCHANGED <<rows, lastId, forwarded>> /\ AgentOnly

\* approve: a denial in memory (is_denied) ...
ChecksMemory ==
    /\ agent.pc = "memory"
    /\ agent' = IF denied[agent.call] > agent.now THEN Idle ELSE [agent EXCEPT !.pc = "marker"]
    /\ UNCHANGED <<rows, lastId, forwarded>> /\ AgentOnly

\* ... or on disk (denial_in_force) holds over any receipt.
\* Mutant: only the memory is asked.
ChecksMarker_Never ==
    /\ agent.pc = "marker"
    /\ agent' = [agent EXCEPT !.pc = "receipt"]
    /\ UNCHANGED <<rows, lastId, forwarded>> /\ AgentOnly
ChecksMarker ==
    /\ agent.pc = "marker"
    /\ agent' = IF markers[agent.call] > agent.now THEN Idle ELSE [agent EXCEPT !.pc = "receipt"]
    /\ UNCHANGED <<rows, lastId, forwarded>> /\ AgentOnly

\* The receipt file, which may be unreadable for a moment.
ChecksReceipt ==
    /\ agent.pc = "receipt"
    /\ \E file \in {files[agent.call], [kind |-> "unreadable"]} :
         LET code == ReadReceipt(Conf, RuleOf(agent.call), agent.call, file, agent.now)
         IN  agent' = CASE code = "ok" -> [agent EXCEPT !.pc = "forward"]
                        [] code = "approval_required" -> [agent EXCEPT !.pc = "request"]
                        [] OTHER -> Idle
    /\ UNCHANGED <<rows, lastId, forwarded>> /\ AgentOnly

\* What the call being decided goes against: a denial in force since before it
\* arrived, replaced by none that is over, lifted by nothing or by an approval
\* that is older than it.
Against ==
    IF agent.ruled.until <= agent.now THEN "nothing"
    ELSE IF agent.ruled.lifted = 0 THEN "denial"
    ELSE IF agent.ruled.lifted < agent.ruled.answer THEN "replay" ELSE "nothing"

\* record_forwarded: counted before it is forwarded, or refused.  Then the
\* operation is begun and the entry recorded, and the call is forwarded; or it
\* is answered from the operations store, refused by it, or its entry cannot be
\* written, and forget_forwarded withdraws the count, which may fail.
\* Nobody else reads or writes the counters, so all of it is one step (a crash
\* in the middle leaves what a failed withdrawal leaves).
\* Mutant: a call is withdrawn whenever its operation was tracked before.
Forwards_Uncounted ==
    /\ agent.pc = "forward"
    /\ lastId' = NextId(lastId)
    /\ rows' \in {CountersRecord(rows, lastId', agent.call.tool, agent.now), rows}
    /\ forwarded' = forwarded \cup {[id |-> lastId', tool |-> agent.call.tool, at |-> agent.now, against |-> Against]}
    /\ Refused
    /\ AgentOnly
Forwards ==
    /\ agent.pc = "forward"
    /\ lastId' = NextId(lastId)
    /\ rows' = CountersRecord(rows, lastId', agent.call.tool, agent.now)
    /\ forwarded' = forwarded \cup {[id |-> lastId', tool |-> agent.call.tool, at |-> agent.now, against |-> Against]}
    /\ Refused
    /\ AgentOnly

NotForwarded ==
    /\ agent.pc = "forward"
    /\ LET counted == CountersRecord(rows, NextId(lastId), agent.call.tool, agent.now)
       IN  \/ UNCHANGED <<rows, lastId>>
           \/ lastId' = NextId(lastId) /\ rows' \in {counted, CountersForget(counted, lastId')}
    /\ Refused
    /\ UNCHANGED forwarded /\ AgentOnly

(***************************************************************************)
(* request_approval and submit.                                            *)
(***************************************************************************)
IsOpen(c) == open[c].expires > clock

\* approval_request decides again, at a new `now`; then one look under the lock.
Submits ==
    /\ agent.pc = "request"
    /\ LET c == agent.call
       IN  IF BeforeApproval(Conf, c, Snapshot(rows, c.tool, clock)) # "approve" \/ denied[c] > clock \/ IsOpen(c)
           THEN Refused /\ UNCHANGED open
           ELSE /\ open' = [open EXCEPT ![c] = [accepted |-> FALSE, ttl |-> RequestTtl(c),
                                                expires |-> clock + Least(RequestTtl(c), MaxRequest)]]
                /\ agent' = [agent EXCEPT !.pc = "push"]
    /\ UNCHANGED <<denied, cursor, filings, disk, poller, ruling, world>>

\* Queue::push, after the lock is released; refused when the queue is full or
\* closed, and then the entry is taken back.
Pushes ==
    /\ agent.pc = "push"
    /\ \/ /\ asked < MaxFilings
          /\ filings' = Append(filings, agent.call)
          /\ asked' = asked + 1
          /\ UNCHANGED open
       \/ open' = [open EXCEPT ![agent.call] = NotOpen] /\ UNCHANGED <<filings, asked>>
    /\ Refused
    /\ UNCHANGED <<denied, cursor, disk, poller, ruling, clock, log, forwarded, crashes>>

(***************************************************************************)
(* The queue's worker: file and post_with_retry.                           *)
(***************************************************************************)
WorkerOnly == UNCHANGED <<denied, cursor, disk, poller, agent, ruling, world>>

\* A 2xx: the request is pending, if it is still open.
Filed ==
    /\ filings # <<>>
    /\ LET c == Head(filings)
       IN  open' = IF open[c] = NotOpen THEN open ELSE [open EXCEPT ![c].accepted = TRUE]
    /\ filings' = Tail(filings)
    /\ WorkerOnly

\* Every try failed, whether or not one arrived: the next retry files again.
\* Mutant: the entry is left as it is.
FilingFails_Stuck ==
    /\ filings # <<>>
    /\ filings' = Tail(filings)
    /\ UNCHANGED open /\ WorkerOnly
FilingFails ==
    /\ filings # <<>>
    /\ open' = [open EXCEPT ![Head(filings)] = NotOpen]
    /\ filings' = Tail(filings)
    /\ WorkerOnly

(***************************************************************************)
(* The broker's answers, and how a client reads one.                       *)
(***************************************************************************)
Record(c, status, task, until, envelope) ==
    [call |-> c, status |-> status, task |-> task, until |-> until, envelope |-> envelope]
NoEnvelope == [type |-> "none", payload |-> Undecodable, sigs |-> {}]

Receipt(c, signing, at) ==
    SignApproval(c, [release |-> "release", tool |-> c.tool, taskId |-> signing[2], operationId |-> 1,
                     approver |-> signing[3].keyid, approvedAt |-> at, notAfter |-> at + signing[1]],
                 signing[3].key, signing[3].keyid)

\* The broker answers: a receipt, a denial (with or without not_after), or
\* nobody decided in time.
Answers(c) ==
    /\ c.args \in RuleOf(c).approveWhen
    /\ asked > 0 /\ Len(log) < MaxLog
    /\ \E r \in {Record(c, "approved", "taskId", 0, Receipt(c, s, clock)) : s \in Signings}
              \cup {Record(c, "denied", "taskId", u, NoEnvelope) : u \in {0, clock + 2 * MaxRequest}}
              \cup {Record(c, "denied", "another", 0, NoEnvelope), Record(c, "expired", "taskId", 0, NoEnvelope)} :
         log' = Append(log, r)
    /\ UNCHANGED <<memory, disk, poller, agent, ruling, clock, asked, forwarded, crashes>>

\* Verifier::verify: for the open request's tool, else for any declared one.
\* Mutant: any validity.
VerifyRecord_AnyWindow(r, now) ==
    VerifyApproval(r.envelope, [fingerprint |-> r.call, release |-> "release", tool |-> r.call.tool, taskId |-> "taskId",
                                approvers |-> Conf.approvers, now |-> now])
VerifyRecord(r, now) ==
    LET tools == IF open[r.call] # NotOpen THEN {r.call.tool} ELSE Conf.tools \cap DOMAIN GateRules(Conf)
        result(t) == VerifyApproval(r.envelope, [fingerprint |-> r.call, release |-> "release", tool |-> t, taskId |-> "taskId",
                                                 approvers |-> Conf.approvers, now |-> now])
    IN  IF \E t \in tools : result(t) = "expired" THEN "expired"
        ELSE IF \E t \in tools : result(t) = "ok" /\ WithinTtl(GateRules(Conf)[t].ttl, r.envelope.payload.predicate) THEN "ok"
        ELSE "invalid"

\* Until when a denial holds: at most MaxRequest from now.
DeniedUntil(r, now) ==
    LET ttl == IF open[r.call] = NotOpen THEN DefaultTtl ELSE open[r.call].ttl
    IN  Least(IF r.until # 0 THEN r.until ELSE now + Least(ttl, MaxRequest), now + MaxRequest)

(***************************************************************************)
(* The poller: poll, and handle step by step.  One `now` for a whole poll; *)
(* the cursor moves when every record has been handled.                    *)
(***************************************************************************)
Current == Head(poller.batch)
Answered == poller.next - Len(poller.batch) + 1     \* its place in the log
NextRecord == poller' = [poller EXCEPT !.pc = "record", !.batch = Tail(@)]
PollerOnly == UNCHANGED <<filings, rows, lastId, agent, world>>

Polls ==
    /\ poller = Idle
    /\ cursor < Len(log)
    /\ poller' = [pc |-> "record", batch |-> SubSeq(log, cursor + 1, Len(log)), now |-> clock, next |-> Len(log)]
    /\ UNCHANGED <<open, denied, cursor, files, markers, ruling>> /\ PollerOnly

\* A record of another task is about another gate's call.
SkipsRecord ==
    /\ poller.pc = "record" /\ poller.batch # <<>>
    /\ Current.task # "taskId"
    /\ NextRecord
    /\ UNCHANGED <<open, denied, cursor, files, markers, ruling>> /\ PollerOnly

Handles(status) ==
    /\ poller.pc = "record" /\ poller.batch # <<>>
    /\ Current.task = "taskId" /\ Current.status = status

\* approved: only what verifies is written, atomically; a failed write leaves
\* the request open.
HandlesApproved ==
    /\ Handles("approved")
    /\ LET c == Current.call
           result == VerifyRecord(Current, poller.now)
       IN  \/ /\ result = "ok"
              /\ files' = [files EXCEPT ![c] = [kind |-> "receipt", envelope |-> Current.envelope]]
              /\ ruling' = [ruling EXCEPT ![c].lifted = Answered]
              /\ agent' = IF agent # Idle /\ agent.call = c THEN [agent EXCEPT !.ruled.lifted = Answered] ELSE agent
              /\ poller' = [poller EXCEPT !.pc = "unmark"]
              /\ UNCHANGED open
           \/ result \in {"ok", "invalid"} /\ NextRecord /\ UNCHANGED <<open, files, ruling, agent>>
           \/ /\ result = "expired"
              /\ open' = [open EXCEPT ![c] = NotOpen]
              /\ NextRecord /\ UNCHANGED <<files, ruling, agent>>
    /\ UNCHANGED <<denied, cursor, markers, filings, rows, lastId, world>>

RemovesMarker ==
    /\ poller.pc = "unmark"
    /\ markers' = [markers EXCEPT ![Current.call] = 0]
    /\ poller' = [poller EXCEPT !.pc = "forget"]
    /\ UNCHANGED <<open, denied, cursor, files, ruling>> /\ PollerOnly

ForgetsDenial ==
    /\ poller.pc = "forget"
    /\ open' = [open EXCEPT ![Current.call] = NotOpen]
    /\ denied' = [denied EXCEPT ![Current.call] = 0]
    /\ NextRecord
    /\ UNCHANGED <<cursor, files, markers, ruling>> /\ PollerOnly

\* denied: in memory first, in place of an earlier denial though that may last
\* longer; a denial already over is only taken off the table.
HandlesDenied ==
    /\ Handles("denied")
    /\ LET c == Current.call
           until == DeniedUntil(Current, poller.now)
       IN  /\ open' = [open EXCEPT ![c] = NotOpen]
           /\ IF until <= poller.now THEN NextRecord /\ UNCHANGED <<denied, ruling, agent>>
              ELSE /\ denied' = [denied EXCEPT ![c] = until]
                   /\ ruling' = [ruling EXCEPT ![c] = [until |-> until, answer |-> Answered, lifted |-> 0]]
                   /\ agent' = IF agent # Idle /\ agent.call = c THEN [agent EXCEPT !.ruled.until = Least(@, until)] ELSE agent
                   /\ poller' = [poller EXCEPT !.pc = "mark"]
    /\ UNCHANGED <<cursor, files, markers, filings, rows, lastId, world>>

\* The marker; when it cannot be written the denial holds in memory.
WritesMarker ==
    /\ poller.pc = "mark"
    /\ markers' \in {markers, [markers EXCEPT ![Current.call] = denied[Current.call]]}
    /\ NextRecord
    /\ UNCHANGED <<open, denied, cursor, files, ruling>> /\ PollerOnly

HandlesExpired ==
    /\ Handles("expired")
    /\ open' = [open EXCEPT ![Current.call] = NotOpen]
    /\ NextRecord
    /\ UNCHANGED <<denied, cursor, files, markers, ruling>> /\ PollerOnly

PollEnds ==
    /\ poller.pc = "record" /\ poller.batch = <<>>
    /\ cursor' = poller.next
    /\ poller' = Idle
    /\ UNCHANGED <<open, denied, files, markers, ruling>> /\ PollerOnly

(***************************************************************************)
(* Time, and a gate that dies and is started again.                        *)
(***************************************************************************)
Tick ==
    /\ clock < MaxTime
    /\ clock' = clock + 1
    /\ UNCHANGED <<memory, disk, log, asked, poller, agent, forwarded, ruling, crashes>>

\* What the gate still knows of a denial after a restart is the marker.
Crash ==
    /\ crashes < MaxCrashes
    /\ crashes' = crashes + 1
    /\ StartedEmpty
    /\ ruling' = [c \in Calls |-> IF markers[c] = ruling[c].until THEN ruling[c] ELSE NoRuling]
    /\ UNCHANGED <<disk, clock, log, asked, forwarded>>

AgentStep == ChecksMemory \/ ChecksMarker \/ ChecksReceipt \/ Forwards \/ NotForwarded \/ Submits \/ Pushes
WorkerStep == Filed \/ FilingFails
PollerStep == Polls \/ SkipsRecord \/ HandlesApproved \/ RemovesMarker \/ ForgetsDenial \/ HandlesDenied
              \/ WritesMarker \/ HandlesExpired \/ PollEnds

Next ==
    \/ \E c \in Calls : Arrives(c) \/ Answers(c)
    \/ AgentStep \/ WorkerStep \/ PollerStep
    \/ Tick \/ Crash

Spec == Init /\ [][Next]_vars

(***************************************************************************)
(* Properties.                                                             *)
(***************************************************************************)
\* The client's tables, the directory, the counters and the threads hold
\* values of their types; what a window no longer sees is pruned.
TypeOK ==
    /\ clock \in 1..MaxTime
    /\ \A c \in Calls : /\ open[c].accepted \in BOOLEAN /\ open[c].expires \in 0..(MaxTime + MaxRequest)
                        /\ denied[c] \in 0..(clock + MaxRequest) /\ markers[c] \in 0..(clock + MaxRequest)
                        /\ files[c].kind \in {"none", "receipt"}
    /\ cursor \in 0..Len(log)
    /\ \A f \in DOMAIN filings : filings[f] \in Calls
    /\ rows \subseteq [id : 1..MaxForwards, tool : {c.tool : c \in Calls}, at : 1..MaxTime]
    /\ poller.pc \in {"idle", "record", "unmark", "forget", "mark"}
    /\ agent.pc \in {"idle", "memory", "marker", "receipt", "forward", "request", "push"}

\* A call an approver denied is not forwarded while the denial holds, whatever
\* receipt lies in the directory, unless an approval made after the denial was
\* taken in, or another denial has taken its place and is over; a restart keeps
\* the denials it had written.  Only after a restart,
\* when the broker sends its records again, may an approval made before the
\* denial lift it (broker.rs handle).
DenialHolds ==
    \A f \in forwarded : f.against # "denial" /\ (f.against = "replay" => crashes > 0)

\* A rate limit of the policy holds over every window, across restarts, calls
\* that were counted and not forwarded, and failing withdrawals.
RateLimit ==
    \A p \in Conf.policy.policies : Conf.policy.given /\ p.effect = "forbid" =>
        \A t \in 1..MaxTime :
            /\ Cardinality({f \in forwarded : f.tool = p.tool /\ t - Hour < f.at /\ f.at <= t}) <= p.hourFrom \/ p.dayFrom > 0
            /\ Cardinality({f \in forwarded : f.tool = p.tool /\ t - Day < f.at /\ f.at <= t}) <= p.dayFrom \/ p.hourFrom > 0

\* What the poller writes, the gate takes: every receipt in the directory lets
\* its call through at any later time, or has expired.
WrittenIsAccepted ==
    \A c \in Calls : files[c].kind = "receipt" =>
        ReadReceipt(Conf, RuleOf(c), c, files[c], clock) \in {"ok", "approval_expired"}

\* A request the broker does not have yet is still on its way to it: an entry
\* whose filing is gone would answer every retry and never be filed.
HalfFiledIsQueued ==
    \A c \in Calls : open[c] # NotOpen /\ ~open[c].accepted =>
        \/ agent # Idle /\ agent.pc = "push" /\ agent.call = c
        \/ \E i \in DOMAIN filings : filings[i] = c

\* The broker client's books are in order: denials no longer than their cap
\* from now, and no entry that answers every retry without its request being
\* on its way (submit, file, handle).
BrokerInv == TypeOK /\ HalfFiledIsQueued
===============================================================================
