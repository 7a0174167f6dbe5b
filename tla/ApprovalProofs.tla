--------------------------- MODULE ApprovalProofs ---------------------------
(***************************************************************************)
(* Proofs about ApprovalBroker, for every configuration of the gate, any   *)
(* calls and signings, and any number of answers, crashes and ticks.       *)
(***************************************************************************)
EXTENDS ApprovalBroker, FiniteSetTheorems, WellFoundedInduction, TLAPS

-----------------------------------------------------------------------------
(* Types in full. *)

Opening == [accepted : BOOLEAN, expires : 0..(MaxTime + MaxRequest), ttl : Nat]
Ruling == [until : Nat, answer : Nat, lifted : Nat]
Deciding == [pc : {"memory", "marker", "receipt", "forward", "request", "push"},
             call : Calls, now : 1..MaxTime, ruled : Ruling]

Needing == {c \in Calls : c.args \in RuleOf(c).approveWhen}
Receipts == {Record(c, "approved", "taskId", 0, Receipt(c, s, t)) : c \in Needing, s \in Signings, t \in 1..MaxTime}
Rulings == {Record(c, st, k, u, NoEnvelope) : c \in Needing, st \in {"denied", "expired"}, k \in {"taskId", "another"}, u \in Nat}
Records == Receipts \cup Rulings
Polling == [pc : {"record", "unmark", "forget", "mark"}, batch : Seq(Records), now : 1..MaxTime, next : Nat]

Types ==
    /\ clock \in 1..MaxTime
    /\ open \in [Calls -> Opening]
    /\ denied \in [Calls -> Nat] /\ markers \in [Calls -> Nat]
    /\ cursor \in Nat /\ cursor <= Len(log)
    /\ filings \in Seq(Calls)
    /\ DOMAIN files = Calls
    /\ lastId \in 0..MaxForwards
    /\ log \in Seq(Records)
    /\ ruling \in [Calls -> Ruling]
    /\ crashes \in Nat
    /\ agent = Idle \/ agent \in Deciding
    /\ poller = Idle \/ poller \in Polling

\* The threads work with a time that has been, on what there is to do.
Threads ==
    /\ agent # Idle => agent.now <= clock /\ lastId < MaxForwards
    /\ poller # Idle => /\ poller.now <= clock
                        /\ Len(poller.batch) <= poller.next /\ poller.next <= Len(log)
                        /\ poller.pc # "record" => poller.batch # <<>>

\* Denials are no longer than their cap from now; counted calls are numbered.
Bounded ==
    /\ \A c \in Calls : denied[c] <= clock + MaxRequest /\ markers[c] <= clock + MaxRequest
    /\ rows \subseteq [id : 1..lastId, tool : {c.tool : c \in Calls}, at : 1..MaxTime]

-----------------------------------------------------------------------------
(* Denials. *)

\* A denial that nothing has lifted is in memory or on disk; it is of a call
\* that needs an approval.
RulingKnown ==
    \A c \in Calls : ruling[c].until # 0 =>
        /\ c \in Needing
        /\ ruling[c].lifted = 0 => ruling[c].until \in {denied[c], markers[c]}

\* What the poller is in the middle of.
PollerKnows ==
    /\ poller.pc \in {"unmark", "forget"} =>
          /\ ruling[Current.call].lifted # 0
          /\ agent # Idle /\ agent.call = Current.call => agent.ruled.lifted # 0
    /\ poller.pc = "mark" =>
          /\ ruling[Current.call].until = denied[Current.call]
          /\ agent # Idle /\ agent.call = Current.call /\ agent.ruled.lifted = 0 =>
                agent.ruled.until <= denied[Current.call]

\* What the agent's thread has still to meet, of the denial it was told of.
AgentKnows ==
    agent # Idle /\ agent.ruled.lifted = 0 =>
        /\ agent.pc = "memory" /\ agent.ruled.until # 0 =>
              agent.ruled.until <= denied[agent.call] \/ agent.ruled.until <= markers[agent.call]
        /\ agent.pc = "marker" /\ agent.ruled.until > agent.now => agent.ruled.until <= markers[agent.call]
        /\ agent.pc \in {"receipt", "forward"} => agent.ruled.until <= agent.now

\* How much of the log has been handled.
Handled == IF poller = Idle THEN cursor
           ELSE poller.next - Len(poller.batch) + (IF poller.pc = "record" THEN 0 ELSE 1)
InSequence(r) == r.answer <= Handled /\ r.lifted <= Handled /\ (r.lifted # 0 => r.answer < r.lifted)

\* Until a crash the answers are taken in in the order they were made.
Ordered ==
    crashes = 0 => /\ \A c \in Calls : InSequence(ruling[c])
                   /\ agent # Idle => InSequence(agent.ruled)

DenialInv == RulingKnown /\ PollerKnows /\ AgentKnows /\ Ordered /\ DenialHolds

-----------------------------------------------------------------------------
(* Receipts. *)

CheckFor(c, now) ==
    [fingerprint |-> c, release |-> "release", tool |-> c.tool, taskId |-> "taskId",
     approvers |-> Conf.approvers, now |-> now]

\* A receipt on disk verified at some time before, under its own tool's rule.
FilesVerified ==
    \A c \in Calls :
        \/ files[c] = NoFile
        \/ /\ files[c].kind = "receipt"
           /\ {files[c].envelope.payload.predicate.approvedAt, files[c].envelope.payload.predicate.notAfter} \subseteq Nat
           /\ \E n \in 1..clock : VerifyApproval(files[c].envelope, CheckFor(c, n)) = "ok"
           /\ WithinTtl(RuleOf(c).ttl, files[c].envelope.payload.predicate)

-----------------------------------------------------------------------------
(* Rates. *)

RowOf(f) == [id |-> f.id, tool |-> f.tool, at |-> f.at]
Horizon == IF agent = Idle THEN clock ELSE agent.now

\* Every call forwarded is counted, under a number of its own, until no window
\* that is still to come can see it.
EachCounted ==
    /\ IsFiniteSet(rows) /\ IsFiniteSet(forwarded)
    /\ \A f \in forwarded : /\ f.id \in 1..lastId /\ f.at \in 1..Horizon
                            /\ RowOf(f) \in rows \/ f.at <= Horizon - Day
    /\ \A f, g \in forwarded : f.id = g.id => f = g

\* The counters still say what the call was let through by.
StillAllowed ==
    agent # Idle => BeforeApproval(Conf, agent.call, Snapshot(rows, agent.call.tool, agent.now)) \in {"approve", "ok"}

RateInv == EachCounted /\ StillAllowed /\ RateLimit

ApprovalInv == Types /\ Threads /\ Bounded /\ HalfFiledIsQueued /\ DenialInv /\ FilesVerified /\ RateInv

-----------------------------------------------------------------------------
(* Operators. *)

\* A call being decided stays one when a step moves it on ...
LEMMA AgentMoves ==
    ASSUME NEW a \in Deciding, NEW p \in {"memory", "marker", "receipt", "forward", "request", "push"}
    PROVE  /\ [a EXCEPT !.pc = p] \in Deciding
           /\ [a EXCEPT !.pc = p].pc = p /\ [a EXCEPT !.pc = p].call = a.call
           /\ [a EXCEPT !.pc = p].now = a.now /\ [a EXCEPT !.pc = p].ruled = a.ruled
           /\ [a EXCEPT !.pc = p] # Idle
BY DEF Deciding, Idle

\* ... and when the poller tells it of an approval or a denial.
LEMMA AgentTold ==
    ASSUME NEW a \in Deciding, NEW r \in Ruling, NEW b, b = [a EXCEPT !.ruled = r]
    PROVE  /\ b \in Deciding /\ b # Idle
           /\ b.pc = a.pc /\ b.call = a.call /\ b.now = a.now /\ b.ruled = r
BY DEF Deciding, Idle

LEMMA LeastOf == \A a, b \in Nat : Least(a, b) \in Nat /\ Least(a, b) <= a /\ Least(a, b) <= b /\ Least(a, b) \in {a, b}
BY DEF Least

LEMMA IdleIsNoCall == Idle \notin Deciding /\ Idle \notin Polling /\ Idle.pc = "idle"
BY DEF Idle, Deciding, Polling

\* What the poller holds is in the log's shape.
LEMMA CurrentIsRecord ==
    ASSUME NEW p \in Polling, p.batch # <<>>
    PROVE  /\ Head(p.batch) \in Records /\ Tail(p.batch) \in Seq(Records)
           /\ Len(Tail(p.batch)) = Len(p.batch) - 1 /\ Len(p.batch) \in Nat \ {0}
BY DEF Polling

LEMMA PollerMoves ==
    ASSUME NEW p \in Polling, NEW l \in {"record", "unmark", "forget", "mark"}, NEW q, q = [p EXCEPT !.pc = l]
    PROVE  q \in Polling /\ q # Idle /\ q.pc = l /\ q.batch = p.batch /\ q.now = p.now /\ q.next = p.next
BY DEF Polling, Idle

LEMMA PollerGoesOn ==
    ASSUME NEW p \in Polling, p.batch # <<>>, NEW q, q = [p EXCEPT !.pc = "record", !.batch = Tail(@)]
    PROVE  q \in Polling /\ q # Idle /\ q.pc = "record" /\ q.batch = Tail(p.batch) /\ q.now = p.now /\ q.next = p.next
BY CurrentIsRecord DEF Polling, Idle

LEMMA BoundsAreNat == MaxRequest \in Nat /\ DefaultTtl \in Nat /\ MaxTime \in Nat /\ MaxForwards \in Nat
BY BrokerAssumption

LEMMA ClosedIsOpening == NotOpen \in Opening
BY BoundsAreNat DEF NotOpen, Opening

\* The fields of an answer.
LEMMA RecordFields ==
    ASSUME NEW r \in Records
    PROVE  /\ r.call \in Needing /\ r.call \in Calls /\ r.until \in Nat
           /\ r.status = "approved" => r \in Receipts
BY DEF Records, Receipts, Rulings, Record, Needing

LEMMA ReceiptFields ==
    ASSUME NEW r \in Receipts
    PROVE  /\ r.envelope.payload.predicate.tool = r.call.tool
           /\ r.envelope.payload.predicate.approvedAt \in Nat
           /\ r.envelope.payload.predicate.notAfter \in Nat
<1>1. PICK c \in Needing, s \in Signings, t \in 1..MaxTime : r = Record(c, "approved", "taskId", 0, Receipt(c, s, t))
    BY DEF Receipts
<1>2. r.call = c /\ r.envelope = Receipt(c, s, t)
    BY <1>1 DEF Record
<1>3. /\ r.envelope.payload.predicate.tool = c.tool
      /\ r.envelope.payload.predicate.approvedAt = t
      /\ r.envelope.payload.predicate.notAfter = t + s[1]
    BY <1>2 DEF Receipt, SignApproval, Sign, ApprovalStatement
<1> QED BY <1>2, <1>3, BoundsAreNat, BrokerAssumption

-----------------------------------------------------------------------------
(* Types. *)

LEMMA TypesInit == Init => Types
<1> SUFFICES ASSUME Init PROVE Types
    OBVIOUS
<1>1. NoRuling \in Ruling
    BY DEF NoRuling, Ruling
<1>2. 1 \in 1..MaxTime /\ 0 \in 0..MaxForwards
    BY BrokerAssumption
<1> QED BY <1>1, <1>2, ClosedIsOpening DEF Init, Types

\* The place in the log of the record the poller is at.
LEMMA AnsweredInLog ==
    ASSUME Types, Threads, poller \in Polling, poller.batch # <<>>
    PROVE  Answered \in Nat \ {0} /\ Answered <= Len(log)
<1>1. Len(poller.batch) \in Nat \ {0} /\ poller.next \in Nat /\ Len(log) \in Nat
    BY CurrentIsRecord DEF Types, Polling
<1>2. Len(poller.batch) <= poller.next /\ poller.next <= Len(log)
    BY IdleIsNoCall DEF Threads
<1> QED BY <1>1, <1>2 DEF Answered

LEMMA UntilIsNat ==
    ASSUME Types, poller \in Polling, poller.batch # <<>>
    PROVE  /\ DeniedUntil(Current, poller.now) \in Nat
           /\ DeniedUntil(Current, poller.now) <= poller.now + MaxRequest
<1>1. Current.call \in Calls /\ Current.until \in Nat
    BY CurrentIsRecord, RecordFields DEF Current
<1>2. poller.now \in Nat /\ open[Current.call].ttl \in Nat
    BY <1>1 DEF Types, Polling, Opening
<1> DEFINE ttl == IF open[Current.call] = NotOpen THEN DefaultTtl ELSE open[Current.call].ttl
           end == IF Current.until # 0 THEN Current.until ELSE poller.now + Least(ttl, MaxRequest)
<1>3. ttl \in Nat /\ MaxRequest \in Nat
    BY <1>2, BoundsAreNat
<1>4. Least(ttl, MaxRequest) \in Nat
    BY <1>3, LeastOf
<1> HIDE DEF ttl
<1>5. end \in Nat
    BY <1>1, <1>2, <1>4
<1> HIDE DEF end
<1>6. Least(end, poller.now + MaxRequest) \in Nat /\ Least(end, poller.now + MaxRequest) <= poller.now + MaxRequest
    <2>1. poller.now + MaxRequest \in Nat
        BY <1>2, <1>3
    <2> QED BY <2>1, <1>5, LeastOf
<1>7. DeniedUntil(Current, poller.now) = Least(end, poller.now + MaxRequest)
    BY DEF DeniedUntil, end, ttl
<1> QED BY <1>6, <1>7

LEMMA PollerWorks ==
    ASSUME Types, Threads, poller.pc # "idle"
    PROVE  poller \in Polling /\ poller # Idle /\ (poller.pc # "record" => poller.batch # <<>>)
BY IdleIsNoCall DEF Types, Threads

LEMMA AgentWorks ==
    ASSUME Types, agent.pc # "idle"
    PROVE  agent \in Deciding /\ agent # Idle
BY IdleIsNoCall DEF Types

LEMMA AnswerLogged ==
    ASSUME NEW c \in Calls, Types, Answers(c)
    PROVE  \E r \in Records : log' = Append(log, r)
<1>1. c \in Needing
    BY DEF Answers, Needing
<1>2. PICK r \in {Record(c, "approved", "taskId", 0, Receipt(c, s, clock)) : s \in Signings}
              \cup {Record(c, "denied", "taskId", u, NoEnvelope) : u \in {0, clock + 2 * MaxRequest}}
              \cup {Record(c, "denied", "another", 0, NoEnvelope), Record(c, "expired", "taskId", 0, NoEnvelope)} :
          log' = Append(log, r)
    BY DEF Answers
<1>3. ASSUME NEW s \in Signings PROVE Record(c, "approved", "taskId", 0, Receipt(c, s, clock)) \in Records
    BY <1>1 DEF Records, Receipts, Types
<1>4. ASSUME NEW u \in Nat, NEW st \in {"denied", "expired"}, NEW k \in {"taskId", "another"}
      PROVE  Record(c, st, k, u, NoEnvelope) \in Records
    BY <1>1 DEF Records, Rulings
<1>5. clock + 2 * MaxRequest \in Nat
    <2>1. clock \in Nat
        BY BoundsAreNat DEF Types
    <2> QED BY <2>1, BoundsAreNat
<1>6. r \in Records
    BY <1>2, <1>3, <1>4, <1>5
<1> QED BY <1>2, <1>6

LEMMA TypesNext ==
    ASSUME Types, Threads, [Next]_vars
    PROVE  Types'
<1> USE DEF AgentOnly, WorkerOnly, PollerOnly, memory, disk, world, Refused
<1>1. ASSUME NEW c \in Calls, Arrives(c) PROVE Types'
    <2>1. agent' = Idle \/ \E p \in {"memory", "forward"} : agent' = [pc |-> p, call |-> c, now |-> clock, ruled |-> ruling[c]]
        BY <1>1 DEF Arrives
    <2>2. agent' = Idle \/ agent' \in Deciding
        BY <2>1 DEF Types, Deciding
    <2> QED BY <1>1, <2>2 DEF Arrives, Types
<1>2. ASSUME NEW c \in Calls, Answers(c) PROVE Types'
    <2>1. PICK r \in Records : log' = Append(log, r)
        BY <1>2, AnswerLogged
    <2>2. log' \in Seq(Records) /\ cursor <= Len(log')
        BY <2>1 DEF Types
    <2> QED BY <1>2, <2>2 DEF Answers, Types
<1>3. CASE ChecksMemory
    BY <1>3, AgentWorks, AgentMoves DEF ChecksMemory, Types
<1>4. CASE ChecksMarker
    BY <1>4, AgentWorks, AgentMoves DEF ChecksMarker, Types
<1>5. CASE ChecksReceipt
    <2>1. agent' \in {Idle, [agent EXCEPT !.pc = "forward"], [agent EXCEPT !.pc = "request"]}
        BY <1>5 DEF ChecksReceipt
    <2>2. agent' = Idle \/ agent' \in Deciding
        <3>1. agent \in Deciding
            BY <1>5, AgentWorks DEF ChecksReceipt
        <3>2. [agent EXCEPT !.pc = "forward"] \in Deciding /\ [agent EXCEPT !.pc = "request"] \in Deciding
            BY <3>1, AgentMoves
        <3> QED BY <2>1, <3>2
    <2> QED BY <1>5, <2>2 DEF ChecksReceipt, Types
<1>6. CASE Forwards
    <2>1. lastId < MaxForwards
        BY <1>6, AgentWorks DEF Forwards, Threads
    <2>2. lastId' \in 0..MaxForwards
        BY <1>6, <2>1, BoundsAreNat DEF Forwards, NextId, Types
    <2> QED BY <1>6, <2>2 DEF Forwards, Types
<1>7. CASE NotForwarded
    <2>1. lastId < MaxForwards
        BY <1>7, AgentWorks DEF NotForwarded, Threads
    <2>2. lastId' \in 0..MaxForwards
        BY <1>7, <2>1, BoundsAreNat DEF NotForwarded, NextId, Types
    <2> QED BY <1>7, <2>2 DEF NotForwarded, Types
<1>8. CASE Submits
    <2>1. agent \in Deciding /\ agent.call \in Calls
        BY <1>8, AgentWorks DEF Submits, Deciding
    <2>2. RequestTtl(agent.call) \in Nat
        BY <2>1, BoundsAreNat, CallAssumption DEF RequestTtl
    <2>3. Least(RequestTtl(agent.call), MaxRequest) \in 0..MaxRequest
        BY <2>2, LeastOf, BoundsAreNat
    <2>4. [accepted |-> FALSE, ttl |-> RequestTtl(agent.call),
           expires |-> clock + Least(RequestTtl(agent.call), MaxRequest)] \in Opening
        BY <2>2, <2>3, BoundsAreNat DEF Opening, Types
    <2>5. open' \in [Calls -> Opening]
        BY <1>8, <2>1, <2>4 DEF Submits, Types
    <2>6. agent' = Idle \/ agent' \in Deciding
        <3>1. [agent EXCEPT !.pc = "push"] \in Deciding
            BY <2>1, AgentMoves
        <3>2. agent' = Idle \/ agent' = [agent EXCEPT !.pc = "push"]
            BY <1>8 DEF Submits
        <3> QED BY <3>1, <3>2
    <2> QED BY <1>8, <2>5, <2>6 DEF Submits, Types
<1>9. CASE Pushes
    <2>1. agent \in Deciding /\ agent.call \in Calls
        BY <1>9, AgentWorks DEF Pushes, Deciding
    <2>2. open' \in [Calls -> Opening]
        BY <1>9, <2>1, ClosedIsOpening DEF Pushes, Types
    <2>3. filings' \in Seq(Calls)
        <3>1. filings' = filings \/ filings' = Append(filings, agent.call)
            BY <1>9 DEF Pushes
        <3>2. filings \in Seq(Calls) /\ Append(filings, agent.call) \in Seq(Calls)
            BY <2>1 DEF Types
        <3> QED BY <3>1, <3>2
    <2> QED BY <1>9, <2>2, <2>3 DEF Pushes, Types
<1>10. CASE Filed
    <2>1. Head(filings) \in Calls /\ filings' \in Seq(Calls)
        BY <1>10 DEF Filed, Types
    <2>2. [open[Head(filings)] EXCEPT !.accepted = TRUE] \in Opening
        BY <2>1 DEF Types, Opening
    <2>3. open' \in [Calls -> Opening]
        BY <1>10, <2>1, <2>2 DEF Filed, Types
    <2> QED BY <1>10, <2>1, <2>3 DEF Filed, Types
<1>11. CASE FilingFails
    <2>1. Head(filings) \in Calls /\ filings' \in Seq(Calls)
        BY <1>11 DEF FilingFails, Types
    <2>2. open' \in [Calls -> Opening]
        BY <1>11, <2>1, ClosedIsOpening DEF FilingFails, Types
    <2> QED BY <1>11, <2>1, <2>2 DEF FilingFails, Types
<1>12. CASE Polls
    <2>1. SubSeq(log, cursor + 1, Len(log)) \in Seq(Records)
        BY DEF Types
    <2>2. poller' \in Polling
        BY <1>12, <2>1 DEF Polls, Types, Polling
    <2> QED BY <1>12, <2>2 DEF Polls, Types
<1>13. CASE SkipsRecord
    <2>1. poller' \in Polling
        BY <1>13, PollerWorks, PollerGoesOn DEF SkipsRecord, NextRecord
    <2> QED BY <1>13, <2>1 DEF SkipsRecord, Types
<1>14. CASE HandlesApproved
    <2>1. poller \in Polling /\ poller.batch # <<>> /\ Current.call \in Calls
        BY <1>14, PollerWorks, CurrentIsRecord, RecordFields DEF HandlesApproved, Handles, Current
    <2>2. poller' \in Polling
        BY <1>14, <2>1, PollerGoesOn, PollerMoves DEF HandlesApproved, NextRecord
    <2>3. open' \in [Calls -> Opening]
        BY <1>14, <2>1, ClosedIsOpening DEF HandlesApproved, Types
    <2>4. Answered \in Nat
        BY <2>1, AnsweredInLog
    <2>5. [ruling[Current.call] EXCEPT !.lifted = Answered] \in Ruling
        BY <2>1, <2>4 DEF Types, Ruling
    <2>6. ruling' \in [Calls -> Ruling]
        BY <1>14, <2>1, <2>5 DEF HandlesApproved, Types
    <2>7. agent' = Idle \/ agent' \in Deciding
        <3>1. CASE agent' = agent
            BY <3>1 DEF Types
        <3>2. CASE agent' # agent
            <4>1. agent \in Deciding /\ agent' = [agent EXCEPT !.ruled.lifted = Answered]
                BY <1>14, <3>2 DEF HandlesApproved, Types
            <4>2. [agent.ruled EXCEPT !.lifted = Answered] \in Ruling
                BY <4>1, <2>4 DEF Deciding, Ruling
            <4>3. agent' = [agent EXCEPT !.ruled = [agent.ruled EXCEPT !.lifted = Answered]]
                BY <4>1 DEF Deciding
            <4> QED BY <4>1, <4>2, <4>3, AgentTold
        <3> QED BY <3>1, <3>2
    <2>8. DOMAIN files' = Calls
        BY <1>14, <2>1 DEF HandlesApproved, Types
    <2> QED BY <1>14, <2>2, <2>3, <2>6, <2>7, <2>8 DEF HandlesApproved, Types
<1>15. CASE RemovesMarker
    <2>1. poller \in Polling /\ poller.batch # <<>> /\ Current.call \in Calls
        BY <1>15, PollerWorks, CurrentIsRecord, RecordFields DEF RemovesMarker, Current
    <2>2. poller' \in Polling
        BY <1>15, <2>1, PollerMoves DEF RemovesMarker
    <2>3. markers' \in [Calls -> Nat]
        BY <1>15, <2>1 DEF RemovesMarker, Types
    <2> QED BY <1>15, <2>2, <2>3 DEF RemovesMarker, Types
<1>16. CASE ForgetsDenial
    <2>1. poller \in Polling /\ poller.batch # <<>> /\ Current.call \in Calls
        BY <1>16, PollerWorks, CurrentIsRecord, RecordFields DEF ForgetsDenial, Current
    <2>2. poller' \in Polling
        BY <1>16, <2>1, PollerGoesOn DEF ForgetsDenial, NextRecord
    <2>3. denied' \in [Calls -> Nat]
        BY <1>16, <2>1 DEF ForgetsDenial, Types
    <2>4. open' \in [Calls -> Opening]
        BY <1>16, <2>1, ClosedIsOpening DEF ForgetsDenial, Types
    <2> QED BY <1>16, <2>2, <2>3, <2>4 DEF ForgetsDenial, Types
<1>17. CASE HandlesDenied
    <2> DEFINE until == DeniedUntil(Current, poller.now)
    <2>1. poller \in Polling /\ poller.batch # <<>> /\ Current.call \in Calls
        BY <1>17, PollerWorks, CurrentIsRecord, RecordFields DEF HandlesDenied, Handles, Current
    <2>2. poller' \in Polling
        BY <1>17, <2>1, PollerGoesOn, PollerMoves DEF HandlesDenied, NextRecord
    <2>3. open' \in [Calls -> Opening]
        BY <1>17, <2>1, ClosedIsOpening DEF HandlesDenied, Types
    <2>4. Answered \in Nat /\ until \in Nat
        BY <2>1, AnsweredInLog, UntilIsNat
    <2> HIDE DEF until
    <2>5. ruling' \in [Calls -> Ruling] /\ denied' \in [Calls -> Nat]
        <3>1. [until |-> until, answer |-> Answered, lifted |-> 0] \in Ruling
            BY <2>4 DEF Ruling
        <3> QED BY <1>17, <2>1, <2>4, <3>1 DEF HandlesDenied, Types, until
    <2>7. agent' = Idle \/ agent' \in Deciding
        <3>1. CASE agent' = agent
            BY <3>1 DEF Types
        <3>2. CASE agent' # agent
            <4>1. agent \in Deciding /\ agent' = [agent EXCEPT !.ruled.until = Least(@, until)]
                BY <1>17, <3>2 DEF HandlesDenied, Types, until
            <4>2. Least(agent.ruled.until, until) \in Nat
                BY <4>1, <2>4, LeastOf DEF Deciding, Ruling
            <4>3. [agent.ruled EXCEPT !.until = Least(agent.ruled.until, until)] \in Ruling
                BY <4>1, <4>2 DEF Deciding, Ruling
            <4>4. agent' = [agent EXCEPT !.ruled = [agent.ruled EXCEPT !.until = Least(agent.ruled.until, until)]]
                BY <4>1 DEF Deciding, Ruling
            <4> QED BY <4>1, <4>3, <4>4, AgentTold
        <3> QED BY <3>1, <3>2
    <2> QED BY <1>17, <2>2, <2>3, <2>5, <2>7 DEF HandlesDenied, Types
<1>18. CASE WritesMarker
    <2>1. poller \in Polling /\ poller.batch # <<>> /\ Current.call \in Calls
        BY <1>18, PollerWorks, CurrentIsRecord, RecordFields DEF WritesMarker, Current
    <2>2. poller' \in Polling
        BY <1>18, <2>1, PollerGoesOn DEF WritesMarker, NextRecord
    <2>3. markers' \in [Calls -> Nat]
        BY <1>18, <2>1 DEF WritesMarker, Types
    <2> QED BY <1>18, <2>2, <2>3 DEF WritesMarker, Types
<1>19. CASE HandlesExpired
    <2>1. poller \in Polling /\ poller.batch # <<>> /\ Current.call \in Calls
        BY <1>19, PollerWorks, CurrentIsRecord, RecordFields DEF HandlesExpired, Handles, Current
    <2>2. poller' \in Polling
        BY <1>19, <2>1, PollerGoesOn DEF HandlesExpired, NextRecord
    <2>3. open' \in [Calls -> Opening]
        BY <1>19, <2>1, ClosedIsOpening DEF HandlesExpired, Types
    <2> QED BY <1>19, <2>2, <2>3 DEF HandlesExpired, Types
<1>20. CASE PollEnds
    <2>1. poller \in Polling /\ cursor' = poller.next
        BY <1>20, PollerWorks DEF PollEnds
    <2>2. cursor' \in Nat /\ cursor' <= Len(log')
        BY <1>20, <2>1, IdleIsNoCall DEF PollEnds, Threads, Polling
    <2> QED BY <1>20, <2>2 DEF PollEnds, Types
<1>21. CASE Tick
    BY <1>21, BoundsAreNat DEF Tick, Types
<1>22. CASE Crash
    <2>1. ruling' \in [Calls -> Ruling]
        BY <1>22 DEF Crash, Types, NoRuling, Ruling
    <2>2. open' \in [Calls -> Opening] /\ denied' \in [Calls -> Nat]
        BY <1>22, ClosedIsOpening DEF Crash, StartedEmpty
    <2> QED BY <1>22, <2>1, <2>2 DEF Crash, StartedEmpty, Types
<1>23. CASE UNCHANGED vars
    BY <1>23 DEF vars, Types
<1> QED BY <1>1, <1>2, <1>3, <1>4, <1>5, <1>6, <1>7, <1>8, <1>9, <1>10, <1>11, <1>12, <1>13, <1>14, <1>15,
           <1>16, <1>17, <1>18, <1>19, <1>20, <1>21, <1>22, <1>23 DEF Next, AgentStep, WorkerStep, PollerStep

-----------------------------------------------------------------------------
(* Who changes what. *)

Arriving == \E c \in Calls : Arrives(c)
Answering == \E c \in Calls : Answers(c)

\* Each variable is written by the steps named here and by no other.
OnlyWriters ==
    /\ clock' = clock \/ Tick
    /\ crashes' = crashes \/ Crash
    /\ log' = log \/ Answering
    /\ cursor' = cursor \/ PollEnds \/ Crash
    /\ files' = files \/ HandlesApproved
    /\ UNCHANGED <<rows, lastId, forwarded>> \/ Forwards \/ NotForwarded
    /\ UNCHANGED <<open, filings>> \/ Submits \/ Pushes \/ Filed \/ FilingFails \/ HandlesApproved
                                  \/ ForgetsDenial \/ HandlesDenied \/ HandlesExpired \/ Crash
    /\ denied' = denied \/ ForgetsDenial \/ HandlesDenied \/ Crash
    /\ markers' = markers \/ RemovesMarker \/ WritesMarker
    /\ ruling' = ruling \/ HandlesApproved \/ HandlesDenied \/ Crash
    /\ poller' = poller \/ PollerStep \/ Crash
    /\ agent' = agent \/ Arriving \/ AgentStep \/ HandlesApproved \/ HandlesDenied \/ Crash

LEMMA Writers == [Next]_vars => OnlyWriters
<1> SUFFICES ASSUME [Next]_vars PROVE OnlyWriters
    OBVIOUS
<1> USE DEF AgentOnly, WorkerOnly, PollerOnly, memory, disk, world, OnlyWriters, AgentStep, PollerStep
<1>1. CASE Arriving
    BY <1>1 DEF Arriving, Arrives
<1>2. CASE Answering
    BY <1>2 DEF Answering, Answers
<1>3. CASE ChecksMemory
    BY <1>3 DEF ChecksMemory
<1>4. CASE ChecksMarker
    BY <1>4 DEF ChecksMarker
<1>5. CASE ChecksReceipt
    BY <1>5 DEF ChecksReceipt
<1>6. CASE Forwards
    BY <1>6 DEF Forwards
<1>7. CASE NotForwarded
    BY <1>7 DEF NotForwarded
<1>8. CASE Submits
    BY <1>8 DEF Submits
<1>9. CASE Pushes
    BY <1>9 DEF Pushes
<1>10. CASE Filed
    BY <1>10 DEF Filed
<1>11. CASE FilingFails
    BY <1>11 DEF FilingFails
<1>12. CASE Polls
    BY <1>12 DEF Polls
<1>13. CASE SkipsRecord
    BY <1>13 DEF SkipsRecord
<1>14. CASE HandlesApproved
    BY <1>14 DEF HandlesApproved
<1>15. CASE RemovesMarker
    BY <1>15 DEF RemovesMarker
<1>16. CASE ForgetsDenial
    BY <1>16 DEF ForgetsDenial
<1>17. CASE HandlesDenied
    BY <1>17 DEF HandlesDenied
<1>18. CASE WritesMarker
    BY <1>18 DEF WritesMarker
<1>19. CASE HandlesExpired
    BY <1>19 DEF HandlesExpired
<1>20. CASE PollEnds
    BY <1>20 DEF PollEnds
<1>21. CASE Tick
    BY <1>21 DEF Tick
<1>22. CASE Crash
    BY <1>22 DEF Crash, StartedEmpty
<1>23. CASE UNCHANGED vars
    BY <1>23 DEF vars
<1> QED BY <1>1, <1>2, <1>3, <1>4, <1>5, <1>6, <1>7, <1>8, <1>9, <1>10, <1>11, <1>12, <1>13, <1>14, <1>15, <1>16, <1>17, <1>18, <1>19, <1>20, <1>21, <1>22, <1>23
    DEF Next, AgentStep, WorkerStep, PollerStep, Arriving, Answering

-----------------------------------------------------------------------------
(* The threads, and the bounds. *)

LEMMA TimePasses ==
    ASSUME Types, [Next]_vars
    PROVE  clock \in Nat /\ clock' \in Nat /\ clock <= clock'
<1>1. clock \in Nat
    BY BoundsAreNat DEF Types
<1>2. clock' = clock \/ clock' = clock + 1
    BY Writers DEF OnlyWriters, Tick
<1> QED BY <1>1, <1>2

\* A call that is being decided after a step has just arrived, or was being
\* decided before it, and the counters are as they were.
LEMMA AgentKept ==
    ASSUME Types, Threads, [Next]_vars, agent' # Idle
    PROVE  \/ \E c \in Calls : /\ Arrives(c)
                               /\ \E p \in {"memory", "forward"} :
                                    agent' = [pc |-> p, call |-> c, now |-> clock, ruled |-> ruling[c]]
           \/ /\ agent \in Deciding /\ agent # Idle
              /\ agent'.call = agent.call /\ agent'.now = agent.now
              /\ UNCHANGED <<rows, lastId, forwarded>>
<1> DEFINE Q == /\ agent \in Deciding /\ agent # Idle
                /\ agent'.call = agent.call /\ agent'.now = agent.now
                /\ UNCHANGED <<rows, lastId, forwarded>>
<1>0. ~Crash /\ ~Forwards /\ ~NotForwarded /\ ~Pushes
    BY DEF Crash, StartedEmpty, Forwards, NotForwarded, Pushes, Refused
<1>u. UNCHANGED <<rows, lastId, forwarded>>
    BY <1>0, Writers DEF OnlyWriters
<1>1. CASE Arriving
    <2>1. PICK c \in Calls : Arrives(c)
        BY <1>1 DEF Arriving
    <2>2. \E p \in {"memory", "forward"} : agent' = [pc |-> p, call |-> c, now |-> clock, ruled |-> ruling[c]]
        BY <2>1 DEF Arrives, Refused
    <2> QED BY <2>1, <2>2
<1>2. CASE agent' = agent
    BY <1>2, <1>u DEF Types
<1>3. CASE ChecksMemory \/ ChecksMarker \/ ChecksReceipt \/ Submits
    <2>1. agent \in Deciding /\ agent # Idle
        BY <1>3, AgentWorks DEF ChecksMemory, ChecksMarker, ChecksReceipt, Submits
    <2>2. \E p \in {"marker", "receipt", "forward", "request", "push"} : agent' = [agent EXCEPT !.pc = p]
        <3>1. CASE ChecksMemory
            BY <3>1 DEF ChecksMemory
        <3>2. CASE ChecksMarker
            BY <3>2 DEF ChecksMarker
        <3>3. CASE ChecksReceipt
            BY <3>3 DEF ChecksReceipt
        <3>4. CASE Submits
            BY <3>4 DEF Submits, Refused
        <3> QED BY <1>3, <3>1, <3>2, <3>3, <3>4
    <2>3. agent'.call = agent.call /\ agent'.now = agent.now
        BY <2>1, <2>2, AgentMoves
    <2> QED BY <2>1, <2>3, <1>u
<1>4. CASE (HandlesApproved \/ HandlesDenied) /\ agent' # agent
    <2>1. agent \in Deciding /\ agent # Idle
        BY <1>4 DEF HandlesApproved, HandlesDenied, Types
    <2>2. agent' = [agent EXCEPT !.ruled.lifted = Answered]
          \/ agent' = [agent EXCEPT !.ruled.until = Least(@, DeniedUntil(Current, poller.now))]
        BY <1>4 DEF HandlesApproved, HandlesDenied
    <2>3. agent'.call = agent.call /\ agent'.now = agent.now
        BY <2>1, <2>2 DEF Deciding
    <2> QED BY <2>1, <2>3, <1>u
<1> QED BY <1>0, <1>1, <1>2, <1>3, <1>4, Writers DEF OnlyWriters, AgentStep

\* A poll that goes on after a step was started by it or has lost at most its
\* first record.
LEMMA PollerKept ==
    ASSUME Types, Threads, [Next]_vars, poller' # Idle
    PROVE  \/ Polls
           \/ UNCHANGED poller
           \/ /\ poller \in Polling /\ poller # Idle /\ poller.batch # <<>>
              /\ poller'.now = poller.now /\ poller'.next = poller.next
              /\ \/ \E l \in {"unmark", "forget", "mark"} : poller' = [poller EXCEPT !.pc = l]
                 \/ NextRecord
<1>0. ~Crash /\ ~PollEnds
    BY DEF Crash, StartedEmpty, PollEnds
<1>1. CASE SkipsRecord \/ HandlesApproved \/ RemovesMarker \/ ForgetsDenial \/ HandlesDenied \/ WritesMarker \/ HandlesExpired
    <2>1. poller \in Polling /\ poller # Idle /\ poller.batch # <<>>
        BY <1>1, PollerWorks DEF SkipsRecord, HandlesApproved, RemovesMarker, ForgetsDenial, HandlesDenied,
                                 WritesMarker, HandlesExpired, Handles
    <2>2. \/ \E l \in {"unmark", "forget", "mark"} : poller' = [poller EXCEPT !.pc = l]
          \/ NextRecord
        <3>1. CASE HandlesApproved \/ RemovesMarker
            BY <3>1 DEF HandlesApproved, RemovesMarker
        <3>2. CASE HandlesDenied
            BY <3>2 DEF HandlesDenied
        <3>3. CASE SkipsRecord \/ ForgetsDenial \/ WritesMarker \/ HandlesExpired
            BY <3>3 DEF SkipsRecord, ForgetsDenial, WritesMarker, HandlesExpired
        <3> QED BY <1>1, <3>1, <3>2, <3>3
    <2>3. poller'.now = poller.now /\ poller'.next = poller.next
        <3>1. CASE \E l \in {"unmark", "forget", "mark"} : poller' = [poller EXCEPT !.pc = l]
            BY <2>1, <3>1, PollerMoves
        <3>2. CASE NextRecord
            BY <2>1, <3>2, PollerGoesOn DEF NextRecord
        <3> QED BY <2>2, <3>1, <3>2
    <2> QED BY <2>1, <2>2, <2>3
<1> QED BY <1>0, <1>1, Writers DEF OnlyWriters, PollerStep

LEMMA LogGrows ==
    ASSUME Types, [Next]_vars
    PROVE  Len(log) \in Nat /\ Len(log') \in Nat /\ Len(log) <= Len(log')
<1>1. Len(log) \in Nat /\ log \in Seq(Records)
    BY DEF Types
<1>2. CASE log' = log
    BY <1>1, <1>2
<1>3. CASE log' # log
    <2>1. PICK c \in Calls : Answers(c)
        BY <1>3, Writers DEF OnlyWriters, Answering
    <2>2. PICK r \in Records : log' = Append(log, r)
        BY <2>1, AnswerLogged
    <2> QED BY <1>1, <2>2
<1> QED BY <1>2, <1>3

LEMMA ThreadsNext ==
    ASSUME Types, Threads, [Next]_vars
    PROVE  Threads'
<1>1. ASSUME agent' # Idle PROVE agent'.now <= clock' /\ lastId' < MaxForwards
    <2>1. CASE agent \in Deciding /\ agent # Idle /\ agent'.now = agent.now /\ lastId' = lastId
        <3>1. agent.now \in Nat /\ agent.now <= clock /\ lastId < MaxForwards
            BY <2>1, BoundsAreNat DEF Threads, Deciding
        <3> QED BY <2>1, <3>1, TimePasses
    <2>2. ASSUME NEW c \in Calls, Arrives(c), agent'.now = clock PROVE agent'.now <= clock' /\ lastId' < MaxForwards
        BY <2>2, TimePasses DEF Arrives, AgentOnly
    <2> QED BY <1>1, <2>1, <2>2, AgentKept
<1>2. ASSUME poller' # Idle
      PROVE  /\ poller'.now <= clock'
             /\ Len(poller'.batch) <= poller'.next /\ poller'.next <= Len(log')
             /\ poller'.pc # "record" => poller'.batch # <<>>
    <2>1. CASE Polls
        <3>1. poller' = [pc |-> "record", batch |-> SubSeq(log, cursor + 1, Len(log)), now |-> clock, next |-> Len(log)]
            BY <2>1 DEF Polls
        <3>2. Len(SubSeq(log, cursor + 1, Len(log))) <= Len(log)
            BY DEF Types
        <3> QED BY <3>1, <3>2, TimePasses, LogGrows
    <2>2. CASE poller \in Polling /\ poller # Idle /\ poller' \in Polling /\ poller'.now = poller.now /\ poller'.next = poller.next
               /\ Len(poller'.batch) <= Len(poller.batch) /\ (poller'.pc # "record" => poller'.batch # <<>>)
        <3>1. poller.now \in Nat /\ poller.next \in Nat /\ Len(poller.batch) \in Nat /\ Len(poller'.batch) \in Nat
            BY <2>2, BoundsAreNat DEF Polling
        <3>2. poller.now <= clock /\ Len(poller.batch) <= poller.next /\ poller.next <= Len(log)
            BY <2>2 DEF Threads
        <3>3. poller'.now <= clock'
            BY <2>2, <3>1, <3>2, TimePasses
        <3>4. Len(poller'.batch) <= poller'.next /\ poller'.next <= Len(log')
            BY <2>2, <3>1, <3>2, LogGrows
        <3> QED BY <2>2, <3>3, <3>4
    <2>3. CASE UNCHANGED poller
        <3>1. poller \in Polling /\ Len(poller.batch) \in Nat
            BY <1>2, <2>3 DEF Types, Polling
        <3> QED BY <1>2, <2>2, <2>3, <3>1 DEF Threads
    <2>4. CASE /\ poller \in Polling /\ poller # Idle /\ poller.batch # <<>>
               /\ poller'.now = poller.now /\ poller'.next = poller.next
               /\ \E l \in {"unmark", "forget", "mark"} : poller' = [poller EXCEPT !.pc = l]
        <3>1. Len(poller.batch) \in Nat
            BY <2>4, CurrentIsRecord
        <3> QED BY <2>2, <2>4, <3>1, PollerMoves
    <2>5. CASE /\ poller \in Polling /\ poller # Idle /\ poller.batch # <<>>
               /\ poller'.now = poller.now /\ poller'.next = poller.next
               /\ NextRecord
        <3>1. poller' \in Polling /\ poller'.pc = "record" /\ poller'.batch = Tail(poller.batch)
            BY <2>5, PollerGoesOn DEF NextRecord
        <3>2. Len(poller'.batch) <= Len(poller.batch)
            BY <2>5, <3>1, CurrentIsRecord
        <3> QED BY <2>2, <2>5, <3>1, <3>2
    <2> QED BY <1>2, <2>1, <2>3, <2>4, <2>5, PollerKept
<1> QED BY <1>1, <1>2 DEF Threads

LEMMA BoundedNext ==
    ASSUME Types, Threads, Bounded, [Next]_vars
    PROVE  Bounded'
<1>0. clock \in Nat /\ clock' \in Nat /\ clock <= clock' /\ MaxRequest \in Nat
    BY TimePasses, BoundsAreNat
<1>1. ASSUME NEW c \in Calls PROVE denied'[c] <= clock' + MaxRequest
    <2>1. denied[c] \in Nat /\ denied[c] <= clock + MaxRequest
        BY DEF Types, Bounded
    <2>2. CASE denied'[c] = denied[c] \/ denied'[c] = 0
        BY <2>1, <2>2, <1>0
    <2>3. CASE Crash
        BY <2>2, <2>3 DEF Crash, StartedEmpty
    <2>4. CASE ForgetsDenial
        BY <2>2, <2>4 DEF ForgetsDenial, Types
    <2>5. CASE HandlesDenied
        <3>1. poller \in Polling /\ poller.batch # <<>> /\ poller # Idle
            BY <2>5, PollerWorks DEF HandlesDenied, Handles
        <3>2. poller.now \in Nat /\ poller.now <= clock
            BY <3>1, BoundsAreNat DEF Threads, Polling
        <3>3. DeniedUntil(Current, poller.now) \in Nat /\ DeniedUntil(Current, poller.now) <= poller.now + MaxRequest
            BY <3>1, UntilIsNat
        <3>4. denied'[c] = denied[c] \/ denied'[c] = DeniedUntil(Current, poller.now)
            BY <2>5 DEF HandlesDenied, Types
        <3> QED BY <2>2, <3>2, <3>3, <3>4, <1>0
    <2> QED BY <2>2, <2>3, <2>4, <2>5, Writers DEF OnlyWriters
<1>2. ASSUME NEW c \in Calls PROVE markers'[c] <= clock' + MaxRequest
    <2>1. markers[c] \in Nat /\ markers[c] <= clock + MaxRequest /\ denied[c] \in Nat /\ denied[c] <= clock + MaxRequest
        BY DEF Types, Bounded
    <2>2. markers'[c] \in {markers[c], 0, denied[c]}
        <3>1. CASE RemovesMarker
            BY <3>1 DEF RemovesMarker, Types
        <3>2. CASE WritesMarker
            BY <3>2 DEF WritesMarker, Types
        <3> QED BY <3>1, <3>2, Writers DEF OnlyWriters
    <2> QED BY <2>1, <2>2, <1>0
<1>3. rows' \subseteq [id : 1..lastId', tool : {c.tool : c \in Calls}, at : 1..MaxTime]
    <2> DEFINE Row(n) == [id : 1..n, tool : {c.tool : c \in Calls}, at : 1..MaxTime]
    <2>1. rows \subseteq Row(lastId)
        BY DEF Bounded
    <2>2. CASE UNCHANGED <<rows, lastId>>
        BY <2>1, <2>2
    <2>3. CASE lastId' = lastId + 1
        <3>1. Row(lastId) \subseteq Row(lastId')
            BY <2>3 DEF Types
        <3>2. Forwards \/ NotForwarded
            BY <2>3, Writers DEF OnlyWriters, Types
        <3>3. agent \in Deciding
            BY <3>2, AgentWorks DEF Forwards, NotForwarded
        <3>4. [id |-> lastId', tool |-> agent.call.tool, at |-> agent.now] \in Row(lastId')
            <4>1. agent.call \in Calls /\ agent.now \in 1..MaxTime
                BY <3>3 DEF Deciding
            <4>2. agent.call.tool \in {c.tool : c \in Calls}
                BY <4>1
            <4>3. lastId' \in 1..lastId'
                BY <2>3 DEF Types
            <4> QED BY <4>1, <4>2, <4>3
        <3>5. rows' \subseteq rows \cup {[id |-> lastId', tool |-> agent.call.tool, at |-> agent.now]}
            BY <3>2, <2>3 DEF Forwards, NotForwarded, CountersRecord, CountersForget, NextId
        <3> QED BY <2>1, <3>1, <3>4, <3>5
    <2> QED BY <2>2, <2>3, Writers DEF OnlyWriters, Forwards, NotForwarded, NextId
<1> QED BY <1>1, <1>2, <1>3 DEF Bounded

-----------------------------------------------------------------------------
(* Requests on their way. *)

OnItsWay(c) == \/ agent # Idle /\ agent.pc = "push" /\ agent.call = c
               \/ \E i \in DOMAIN filings : filings[i] = c

\* What is open and not accepted after a step was so before it, or has just
\* been submitted.
LEMMA HalfFiledBefore ==
    ASSUME Types, Threads, [Next]_vars, NEW c \in Calls, open'[c] # NotOpen, ~open'[c].accepted
    PROVE  \/ Submits /\ agent.call = c /\ agent' = [agent EXCEPT !.pc = "push"]
           \/ open'[c] = open[c]
<1>1. CASE Submits
    BY <1>1 DEF Submits, Types
<1>2. CASE Filed
    <2>1. Head(filings) \in Calls
        BY <1>2 DEF Filed, Types
    <2>2. open[Head(filings)] \in Opening
        BY <2>1 DEF Types
    <2>3. [open[Head(filings)] EXCEPT !.accepted = TRUE].accepted
        BY <2>2 DEF Opening
    <2> QED BY <1>2, <2>1, <2>3 DEF Filed, Types
<1>3. CASE Crash
    BY <1>3 DEF Crash, StartedEmpty
<1>4. CASE Pushes \/ FilingFails \/ ForgetsDenial \/ HandlesDenied \/ HandlesExpired \/ HandlesApproved
    <2>1. open' = open \/ \E d : open' = [open EXCEPT ![d] = NotOpen]
        BY <1>4 DEF Pushes, FilingFails, ForgetsDenial, HandlesDenied, HandlesExpired, HandlesApproved
    <2> QED BY <2>1 DEF Types
<1> QED BY <1>1, <1>2, <1>3, <1>4, Writers DEF OnlyWriters

LEMMA PushKept ==
    ASSUME Types, Threads, [Next]_vars, agent # Idle, agent.pc = "push", ~Pushes, ~Crash
    PROVE  agent' # Idle /\ agent'.pc = "push" /\ agent'.call = agent.call
<1>1. agent \in Deciding
    BY DEF Types
<1>2. ~Arriving /\ ~ChecksMemory /\ ~ChecksMarker /\ ~ChecksReceipt /\ ~Forwards /\ ~NotForwarded /\ ~Submits
    BY DEF Arriving, Arrives, ChecksMemory, ChecksMarker, ChecksReceipt, Forwards, NotForwarded, Submits
<1>3. CASE agent' = agent
    BY <1>3
<1>4. CASE (HandlesApproved \/ HandlesDenied) /\ agent' # agent
    <2>1. agent' = [agent EXCEPT !.ruled.lifted = Answered]
          \/ agent' = [agent EXCEPT !.ruled.until = Least(@, DeniedUntil(Current, poller.now))]
        BY <1>4 DEF HandlesApproved, HandlesDenied
    <2> QED BY <1>1, <2>1 DEF Deciding, Idle
<1> QED BY <1>2, <1>3, <1>4, Writers DEF OnlyWriters, AgentStep

LEMMA HalfFiledNext ==
    ASSUME Types, Threads, HalfFiledIsQueued, [Next]_vars
    PROVE  HalfFiledIsQueued'
<1> SUFFICES ASSUME NEW c \in Calls, open'[c] # NotOpen, ~open'[c].accepted
             PROVE  OnItsWay(c)'
    BY DEF HalfFiledIsQueued, OnItsWay
<1>1. CASE Submits /\ agent.call = c /\ agent' = [agent EXCEPT !.pc = "push"]
    <2>1. agent \in Deciding
        BY <1>1, AgentWorks DEF Submits
    <2> QED BY <1>1, <2>1, AgentMoves DEF OnItsWay
<1>2. CASE open'[c] = open[c]
    <2>1. OnItsWay(c)
        BY <1>2 DEF HalfFiledIsQueued, OnItsWay
    <2>2. ~Crash
        BY DEF Crash, StartedEmpty
    <2>3. CASE agent # Idle /\ agent.pc = "push" /\ agent.call = c
        <3>1. CASE Pushes
            <4>1. filings' = Append(filings, c)
                BY <2>3, <3>1 DEF Pushes, Types
            <4>2. Len(filings') \in DOMAIN filings' /\ filings'[Len(filings')] = c
                BY <4>1 DEF Types
            <4> QED BY <4>2 DEF OnItsWay
        <3>2. CASE ~Pushes
            BY <2>2, <2>3, <3>2, PushKept DEF OnItsWay
        <3> QED BY <3>1, <3>2
    <2>4. ASSUME NEW i \in DOMAIN filings, filings[i] = c PROVE OnItsWay(c)'
        <3>1. filings \in Seq(Calls)
            BY DEF Types
        <3>2. CASE filings' = filings
            BY <2>4, <3>2 DEF OnItsWay
        <3>3. CASE filings' = Append(filings, agent.call)
            <4>1. i \in DOMAIN filings' /\ filings'[i] = c
                BY <2>4, <3>1, <3>3
            <4> QED BY <4>1 DEF OnItsWay
        <3>4. CASE (Filed \/ FilingFails) /\ filings' = Tail(filings)
            <4>1. i # 1
                <5>1. ASSUME i = 1 PROVE FALSE
                    <6>1. c = Head(filings)
                        BY <2>4, <3>1, <5>1
                    <6>2. CASE FilingFails
                        BY <6>1, <6>2 DEF FilingFails, Types
                    <6>3. CASE Filed
                        <7>1. open[c] \in Opening
                            BY DEF Types
                        <7>2. [open[c] EXCEPT !.accepted = TRUE].accepted
                            BY <7>1 DEF Opening
                        <7> QED BY <6>1, <6>3, <7>2, <1>2 DEF Filed, Types
                    <6> QED BY <3>4, <6>2, <6>3
                <5> QED BY <5>1
            <4>2. i - 1 \in DOMAIN Tail(filings) /\ Tail(filings)[i - 1] = c
                BY <2>4, <3>1, <4>1
            <4> QED BY <3>4, <4>2 DEF OnItsWay
        <3>5. filings' = filings \/ filings' = Append(filings, agent.call) \/ ((Filed \/ FilingFails) /\ filings' = Tail(filings))
            <4>1. CASE Submits \/ Pushes
                BY <4>1 DEF Submits, Pushes
            <4>2. CASE Filed \/ FilingFails
                BY <4>2 DEF Filed, FilingFails
            <4>3. CASE HandlesApproved \/ ForgetsDenial \/ HandlesDenied \/ HandlesExpired
                BY <4>3 DEF HandlesApproved, ForgetsDenial, HandlesDenied, HandlesExpired, PollerOnly
            <4> QED BY <2>2, <4>1, <4>2, <4>3, Writers DEF OnlyWriters
        <3> QED BY <3>2, <3>3, <3>4, <3>5
    <2> QED BY <2>1, <2>3, <2>4 DEF OnItsWay
<1> QED BY <1>1, <1>2, HalfFiledBefore

-----------------------------------------------------------------------------
(* Chains of checks. *)

Below == {ss \in Nat \X Nat : ss[1] < ss[2]}

\* A set of numbers that is not empty has a least one.
LEMMA LeastElement ==
    ASSUME NEW T \in SUBSET Nat, T # {}
    PROVE  \E x \in T : \A y \in T : x <= y
<1>1. IsWellFoundedOn(Below, Nat)
    BY NatLessThanWellFounded DEF OpToRel, Below
<1>2. \A a, b \in Nat : a < b => <<a, b>> \in Below
    BY DEF Below
<1>3. PICK x \in T : \A y \in T : ~(<<y, x>> \in Below)
    BY <1>1, WFMin
<1>4. \A y \in T : y \in Nat /\ x \in Nat
    OBVIOUS
<1>5. \A y \in T : ~(y < x)
    BY <1>2, <1>3, <1>4
<1> QED BY <1>4, <1>5

\* FirstFailure reports the first check that fails, if there is one.
LEMMA FirstIsReported ==
    ASSUME NEW chain, DOMAIN chain \subseteq Nat
    PROVE  \/ Failing(chain) = {} /\ FirstFailure(chain) = "ok"
           \/ \E i \in Failing(chain) : FirstFailure(chain) = chain[i][2] /\ \A j \in Failing(chain) : i <= j
<1>1. CASE Failing(chain) = {}
    BY <1>1 DEF FirstFailure
<1>2. CASE Failing(chain) # {}
    <2>1. Failing(chain) \in SUBSET Nat
        BY DEF Failing
    <2>2. \E i \in Failing(chain) : \A j \in Failing(chain) : i <= j
        BY <1>2, <2>1, LeastElement
    <2> DEFINE first == CHOOSE i \in Failing(chain) : \A j \in Failing(chain) : i <= j
    <2>3. first \in Failing(chain) /\ \A j \in Failing(chain) : first <= j
        BY <2>2
    <2>4. FirstFailure(chain) = chain[first][2]
        BY <1>2 DEF FirstFailure
    <2> QED BY <2>3, <2>4
<1> QED BY <1>1, <1>2

-----------------------------------------------------------------------------
(* What authorize lets through. *)

DecisionChain(c, window) ==
    LET verdict == PolicyVerdict(Conf, c, window)
    IN  << <<RuleOf(c).check[c.args] # "ok", RuleOf(c).check[c.args]>>,
           <<verdict = "error", "fail_closed">>,
           <<verdict = "deny", "policy_denied">>,
           <<ApprovalNeeded(RuleOf(c), c, verdict), "approve">> >>

LEMMA AllowedBy ==
    ASSUME NEW c \in Calls, NEW window, BeforeApproval(Conf, c, window) \in {"approve", "ok"}
    PROVE  /\ PolicyVerdict(Conf, c, window) \notin {"error", "deny"}
           /\ BeforeApproval(Conf, c, window) = "ok" => c \notin Needing
<1> DEFINE chain == DecisionChain(c, window)
           verdict == PolicyVerdict(Conf, c, window)
           refused == RuleOf(c).check[c.args]
<1>1. CheckCertification(Conf) \in {"ok", "uncertified", "wrong_environment", "not_certified"}
    <2> DEFINE checks == << <<Conf.certified = "none", "uncertified">>,
                            <<Conf.certified = "other_environment", "wrong_environment">>,
                            <<Conf.certified \notin {"off", "ok"}, "not_certified">> >>
    <2>1. DOMAIN checks = 1..3
        OBVIOUS
    <2>2. \A i \in 1..3 : checks[i][2] \in {"uncertified", "wrong_environment", "not_certified"}
        OBVIOUS
    <2>3. FirstFailure(checks) = "ok" \/ \E i \in 1..3 : FirstFailure(checks) = checks[i][2]
        <3> HIDE DEF checks
        <3> QED BY <2>1, FirstIsReported DEF Failing
    <2>4. CheckCertification(Conf) = FirstFailure(checks)
        BY DEF CheckCertification
    <2> QED BY <2>2, <2>3, <2>4
<1>2. BeforeApproval(Conf, c, window) = FirstFailure(chain)
    BY <1>1, CallAssumption DEF BeforeApproval, DecisionChain, RuleOf
<1>3. DOMAIN chain = 1..4
    BY DEF DecisionChain
<1>4. /\ chain[1][1] = (refused # "ok") /\ chain[1][2] = refused
      /\ chain[2][1] = (verdict = "error") /\ chain[2][2] = "fail_closed"
      /\ chain[3][1] = (verdict = "deny") /\ chain[3][2] = "policy_denied"
      /\ chain[4][1] = ApprovalNeeded(RuleOf(c), c, verdict) /\ chain[4][2] = "approve"
    BY DEF DecisionChain
<1>5. refused \in Denial \cup {"ok"}
    BY CallAssumption
<1> HIDE DEF chain, verdict, refused
<1>6. refused # "approve"
    BY <1>5 DEF Denial
<1>7. \/ Failing(chain) = {} /\ FirstFailure(chain) = "ok"
      \/ \E i \in Failing(chain) : FirstFailure(chain) = chain[i][2] /\ \A j \in Failing(chain) : i <= j
    BY <1>3, FirstIsReported
<1>8. CASE Failing(chain) = {}
    <2>1. ~chain[2][1] /\ ~chain[3][1] /\ ~chain[4][1]
        BY <1>3, <1>8 DEF Failing
    <2> QED BY <1>4, <2>1 DEF ApprovalNeeded, Needing, verdict
<1>9. ASSUME NEW i \in Failing(chain), FirstFailure(chain) = chain[i][2], \A j \in Failing(chain) : i <= j
      PROVE  /\ verdict \notin {"error", "deny"}
             /\ BeforeApproval(Conf, c, window) = "ok" => c \notin Needing
    <2>1. i \in 1..4 /\ chain[i][1]
        BY <1>3 DEF Failing
    <2>2. i # 1 /\ i # 2 /\ i # 3
        BY <1>2, <1>4, <1>6, <1>9, <2>1
    <2>3. i = 4
        BY <2>1, <2>2
    <2>4. ~chain[2][1] /\ ~chain[3][1]
        BY <1>3, <1>9, <2>3 DEF Failing
    <2> QED BY <1>2, <1>4, <1>9, <2>3, <2>4
<1> QED BY <1>7, <1>8, <1>9 DEF verdict

-----------------------------------------------------------------------------
(* Denials. *)

\* What a step leaves of the denial the call being decided was told of.
LEMMA AgentRuled ==
    ASSUME Types, Threads, [Next]_vars, agent' # Idle, ~Arriving
    PROVE  /\ agent \in Deciding /\ agent # Idle
           /\ agent'.call = agent.call /\ agent'.now = agent.now
           /\ \/ agent' = agent
              \/ (ChecksMemory \/ ChecksMarker \/ ChecksReceipt \/ Submits) /\ agent'.ruled = agent.ruled
              \/ HandlesApproved /\ agent.call = Current.call /\ agent'.ruled = [agent.ruled EXCEPT !.lifted = Answered]
                                 /\ agent'.pc = agent.pc
              \/ HandlesDenied /\ agent.call = Current.call
                               /\ agent'.ruled = [agent.ruled EXCEPT !.until = Least(@, DeniedUntil(Current, poller.now))]
                               /\ agent'.pc = agent.pc
<1>1. /\ agent \in Deciding /\ agent # Idle
      /\ agent'.call = agent.call /\ agent'.now = agent.now
    BY AgentKept DEF Arriving
<1>2. CASE agent' = agent
    BY <1>1, <1>2
<1>3. CASE ChecksMemory \/ ChecksMarker \/ ChecksReceipt \/ Submits
    <2>2. \E p \in {"marker", "receipt", "forward", "request", "push"} : agent' = [agent EXCEPT !.pc = p]
        <3>1. CASE ChecksMemory
            BY <3>1 DEF ChecksMemory
        <3>2. CASE ChecksMarker
            BY <3>2 DEF ChecksMarker
        <3>3. CASE ChecksReceipt
            BY <3>3 DEF ChecksReceipt
        <3>4. CASE Submits
            BY <3>4 DEF Submits, Refused
        <3> QED BY <1>3, <3>1, <3>2, <3>3, <3>4
    <2>3. agent'.ruled = agent.ruled
        BY <1>1, <2>2, AgentMoves
    <2> QED BY <1>1, <1>3, <2>3
<1>4. CASE HandlesApproved /\ agent' # agent
    <2>1. agent.call = Current.call /\ agent' = [agent EXCEPT !.ruled.lifted = Answered]
        BY <1>4 DEF HandlesApproved
    <2>2. agent'.ruled = [agent.ruled EXCEPT !.lifted = Answered] /\ agent'.pc = agent.pc
        BY <1>1, <2>1 DEF Deciding
    <2> QED BY <1>1, <1>4, <2>1, <2>2
<1>5. CASE HandlesDenied /\ agent' # agent
    <2>1. agent.call = Current.call /\ agent' = [agent EXCEPT !.ruled.until = Least(@, DeniedUntil(Current, poller.now))]
        BY <1>5 DEF HandlesDenied
    <2>2. agent'.ruled = [agent.ruled EXCEPT !.until = Least(@, DeniedUntil(Current, poller.now))] /\ agent'.pc = agent.pc
        BY <1>1, <2>1 DEF Deciding, Ruling
    <2> QED BY <1>1, <1>5, <2>1, <2>2
<1>6. ~Crash /\ ~Forwards /\ ~NotForwarded /\ ~Pushes
    BY DEF Crash, StartedEmpty, Forwards, NotForwarded, Pushes, Refused
<1> QED BY <1>2, <1>3, <1>4, <1>5, <1>6, Writers DEF OnlyWriters, AgentStep

\* The fields of what the agent's thread was told.
LEMMA RuledIsRuling ==
    ASSUME Types
    PROVE  /\ \A c \in Calls : ruling[c] \in Ruling /\ denied[c] \in Nat /\ markers[c] \in Nat
           /\ agent # Idle => agent.ruled \in Ruling /\ agent.call \in Calls /\ agent.now \in Nat
BY BoundsAreNat DEF Types, Deciding

LEMMA CurrentCall ==
    ASSUME Types, Threads, poller.pc \in {"unmark", "forget", "mark"} \/ \E s : Handles(s)
    PROVE  /\ poller \in Polling /\ poller # Idle /\ poller.batch # <<>>
           /\ Current \in Records /\ Current.call \in Calls /\ Current.call \in Needing
<1>1. poller \in Polling /\ poller # Idle /\ poller.batch # <<>>
    BY PollerWorks DEF Handles
<1> QED BY <1>1, CurrentIsRecord, RecordFields DEF Current

LEMMA RulingKnownNext ==
    ASSUME Types, Threads, RulingKnown, PollerKnows, [Next]_vars
    PROVE  RulingKnown'
<1> SUFFICES ASSUME NEW c \in Calls, ruling'[c].until # 0
             PROVE  /\ c \in Needing
                    /\ ruling'[c].lifted = 0 => ruling'[c].until \in {denied'[c], markers'[c]}
    BY DEF RulingKnown, Needing
<1>0. ruling[c] \in Ruling /\ denied[c] \in Nat /\ markers[c] \in Nat
    BY RuledIsRuling
<1>1. CASE UNCHANGED <<ruling, denied, markers>>
    BY <1>1 DEF RulingKnown
<1>2. CASE HandlesApproved
    <2>1. Current.call \in Calls /\ Answered # 0
        BY <1>2, CurrentCall, AnsweredInLog DEF HandlesApproved
    <2>2. UNCHANGED <<denied, markers>>
        BY <1>2 DEF HandlesApproved
    <2>3. ruling'[c] = ruling[c] \/ ruling'[c] = [ruling[c] EXCEPT !.lifted = Answered]
        BY <1>2 DEF HandlesApproved, Types
    <2>4. ruling'[c] = ruling[c] \/ (ruling'[c].lifted # 0 /\ ruling'[c].until = ruling[c].until)
        BY <1>0, <2>1, <2>3 DEF Ruling
    <2> QED BY <2>2, <2>4 DEF RulingKnown
<1>3. CASE HandlesDenied
    <2>1. Current.call \in Calls /\ Current.call \in Needing
        BY <1>3, CurrentCall DEF HandlesDenied
    <2>2. markers' = markers
        BY <1>3 DEF HandlesDenied
    <2>3. \/ ruling'[c] = ruling[c] /\ denied'[c] = denied[c]
          \/ c = Current.call /\ ruling'[c].until = denied'[c]
        <3> DEFINE until == DeniedUntil(Current, poller.now)
        <3>1. \/ UNCHANGED <<denied, ruling>>
              \/ /\ denied' = [denied EXCEPT ![Current.call] = until]
                 /\ ruling' = [ruling EXCEPT ![Current.call] = [until |-> until, answer |-> Answered, lifted |-> 0]]
            BY <1>3 DEF HandlesDenied
        <3> HIDE DEF until
        <3>2. CASE UNCHANGED <<denied, ruling>>
            BY <3>2
        <3>3. CASE /\ denied' = [denied EXCEPT ![Current.call] = until]
                   /\ ruling' = [ruling EXCEPT ![Current.call] = [until |-> until, answer |-> Answered, lifted |-> 0]]
            <4>1. c # Current.call => ruling'[c] = ruling[c] /\ denied'[c] = denied[c]
                BY <3>3 DEF Types
            <4>2. c = Current.call => ruling'[c] = [until |-> until, answer |-> Answered, lifted |-> 0] /\ denied'[c] = until
                BY <3>3 DEF Types
            <4> QED BY <4>1, <4>2
        <3> QED BY <3>1, <3>2, <3>3
    <2> QED BY <2>1, <2>2, <2>3 DEF RulingKnown
<1>4. CASE Crash
    <2>1. markers' = markers /\ ruling'[c] = IF markers[c] = ruling[c].until THEN ruling[c] ELSE NoRuling
        BY <1>4 DEF Crash, disk
    <2>2. ruling'[c] = ruling[c] /\ markers[c] = ruling[c].until
        BY <2>1 DEF NoRuling
    <2> QED BY <2>1, <2>2 DEF RulingKnown
<1>5. CASE RemovesMarker \/ ForgetsDenial
    <2>1. poller.pc \in {"unmark", "forget"} /\ ruling' = ruling
        BY <1>5 DEF RemovesMarker, ForgetsDenial
    <2>2. ruling[Current.call].lifted # 0
        BY <2>1 DEF PollerKnows
    <2>3. c # Current.call => denied'[c] = denied[c] /\ markers'[c] = markers[c]
        BY <1>5 DEF RemovesMarker, ForgetsDenial, Types
    <2> QED BY <2>1, <2>2, <2>3 DEF RulingKnown
<1>6. CASE WritesMarker
    <2>1. ruling' = ruling /\ denied' = denied /\ poller.pc = "mark"
        BY <1>6 DEF WritesMarker
    <2>2. ruling[Current.call].until = denied[Current.call]
        BY <2>1 DEF PollerKnows
    <2>3. c # Current.call => markers'[c] = markers[c]
        BY <1>6 DEF WritesMarker, Types
    <2> QED BY <2>1, <2>2, <2>3 DEF RulingKnown
<1> QED BY <1>1, <1>2, <1>3, <1>4, <1>5, <1>6, Writers DEF OnlyWriters

LEMMA PollerKnowsNext ==
    ASSUME Types, Threads, RulingKnown, PollerKnows, [Next]_vars
    PROVE  PollerKnows'
<1>0. CASE poller' = Idle \/ poller'.pc = "record"
    BY <1>0 DEF PollerKnows, Idle
<1>1. CASE poller' = poller /\ poller.pc \in {"unmark", "forget", "mark"} /\ UNCHANGED <<ruling, denied>>
    <2> DEFINE d == Current.call
    <2>0. Current' = Current /\ d \in Calls /\ d' = d
        BY <1>1, CurrentCall DEF Current
    <2>1. ~HandlesApproved /\ ~HandlesDenied
        BY <1>1 DEF HandlesApproved, HandlesDenied, Handles
    <2>2. ASSUME agent' # Idle, agent'.call = d
          PROVE  agent'.ruled = ruling[d] \/ (agent # Idle /\ agent.call = d /\ agent'.ruled = agent.ruled)
        <3>1. CASE Arriving
            <4>1. PICK c \in Calls : Arrives(c)
                BY <3>1 DEF Arriving
            <4>2. \E p : agent' = [pc |-> p, call |-> c, now |-> clock, ruled |-> ruling[c]]
                BY <2>2, <4>1 DEF Arrives, Refused
            <4> QED BY <2>2, <4>2
        <3>2. CASE ~Arriving
            BY <2>1, <2>2, <3>2, AgentRuled
        <3> QED BY <3>1, <3>2
    <2>3. ASSUME poller.pc \in {"unmark", "forget"}
          PROVE  /\ ruling'[d].lifted # 0
                 /\ agent' # Idle /\ agent'.call = d => agent'.ruled.lifted # 0
        BY <1>1, <2>2, <2>3 DEF PollerKnows
    <2>4. ASSUME poller.pc = "mark"
          PROVE  /\ ruling'[d].until = denied'[d]
                 /\ agent' # Idle /\ agent'.call = d /\ agent'.ruled.lifted = 0 => agent'.ruled.until <= denied'[d]
        <3>1. ruling[d].until = denied[d] /\ denied[d] \in Nat
            BY <2>0, <2>4, RuledIsRuling DEF PollerKnows
        <3> QED BY <1>1, <2>2, <2>4, <3>1 DEF PollerKnows
    <2> QED BY <1>1, <2>0, <2>3, <2>4 DEF PollerKnows
<1>2. CASE HandlesApproved /\ poller' = [poller EXCEPT !.pc = "unmark"]
    <2> DEFINE d == Current.call
    <2>1. poller \in Polling /\ d \in Calls /\ Answered # 0
        BY <1>2, CurrentCall, AnsweredInLog DEF HandlesApproved
    <2>2. poller'.pc = "unmark" /\ Current' = Current /\ d' = d
        BY <1>2, <2>1, PollerMoves DEF Current
    <2>3. /\ ruling' = [ruling EXCEPT ![d].lifted = Answered]
          /\ agent' = IF agent # Idle /\ agent.call = d THEN [agent EXCEPT !.ruled.lifted = Answered] ELSE agent
        <3>1. ~NextRecord
            <4>1. poller.batch # <<>> /\ poller'.batch = poller.batch
                BY <1>2, <2>1, PollerMoves DEF HandlesApproved, Handles
            <4>2. NextRecord => poller'.pc = "record"
                BY <2>1, <4>1, PollerGoesOn DEF NextRecord
            <4> QED BY <2>2, <4>2
        <3> QED BY <1>2, <3>1 DEF HandlesApproved
    <2>4. ruling'[d].lifted = Answered
        BY <2>1, <2>3 DEF Types, Ruling
    <2>5. agent' # Idle /\ agent'.call = d => agent'.ruled.lifted = Answered
        <3>1. CASE agent # Idle /\ agent.call = d
            BY <2>3, <3>1 DEF Types, Deciding, Ruling
        <3> QED BY <2>3, <3>1
    <2> QED BY <2>1, <2>2, <2>4, <2>5 DEF PollerKnows
<1>3. CASE RemovesMarker
    <2> DEFINE d == Current.call
    <2>1. poller \in Polling /\ poller.pc = "unmark"
        BY <1>3, CurrentCall DEF RemovesMarker
    <2>2. poller'.pc = "forget" /\ d' = d
        BY <1>3, <2>1, PollerMoves DEF RemovesMarker, Current
    <2>3. UNCHANGED <<ruling, agent>>
        BY <1>3 DEF RemovesMarker, PollerOnly
    <2> QED BY <2>1, <2>2, <2>3 DEF PollerKnows
<1>4. CASE HandlesDenied /\ poller' = [poller EXCEPT !.pc = "mark"]
    <2> DEFINE d == Current.call
               until == DeniedUntil(Current, poller.now)
    <2>1. poller \in Polling /\ d \in Calls /\ poller.batch # <<>>
        BY <1>4, CurrentCall DEF HandlesDenied
    <2>2. poller'.pc = "mark" /\ d' = d
        BY <1>4, <2>1, PollerMoves DEF Current
    <2>3. until \in Nat
        BY <2>1, UntilIsNat
    <2> HIDE DEF until
    <2>4. /\ denied' = [denied EXCEPT ![d] = until]
          /\ ruling' = [ruling EXCEPT ![d] = [until |-> until, answer |-> Answered, lifted |-> 0]]
          /\ agent' = IF agent # Idle /\ agent.call = d THEN [agent EXCEPT !.ruled.until = Least(@, until)] ELSE agent
        <3>1. ~NextRecord
            <4>1. NextRecord => poller'.pc = "record"
                BY <2>1, PollerGoesOn DEF NextRecord
            <4> QED BY <2>2, <4>1
        <3> QED BY <1>4, <3>1 DEF HandlesDenied, until
    <2>5. ruling'[d].until = until /\ denied'[d] = until
        BY <2>1, <2>4 DEF Types
    <2>6. agent' # Idle /\ agent'.call = d => agent'.ruled.until <= until
        <3>1. CASE agent # Idle /\ agent.call = d
            <4>1. agent.ruled.until \in Nat
                BY <3>1, RuledIsRuling DEF Ruling
            <4>2. agent'.ruled.until = Least(agent.ruled.until, until)
                BY <2>4, <3>1 DEF Types, Deciding, Ruling
            <4> QED BY <2>3, <4>1, <4>2, LeastOf
        <3> QED BY <2>4, <3>1
    <2> QED BY <2>2, <2>5, <2>6 DEF PollerKnows
<1>5. ASSUME poller' # Idle, poller'.pc # "record", poller' # poller
      PROVE  \/ HandlesApproved /\ poller' = [poller EXCEPT !.pc = "unmark"]
             \/ RemovesMarker
             \/ HandlesDenied /\ poller' = [poller EXCEPT !.pc = "mark"]
    <2>1. ~Crash /\ ~PollEnds /\ ~Polls
        BY <1>5 DEF Crash, StartedEmpty, PollEnds, Polls
    <2>2. ASSUME poller.pc \in {"unmark", "forget", "mark"} \/ (\E s : Handles(s)) \/ SkipsRecord PROVE ~NextRecord
        <3>1. poller \in Polling /\ poller.batch # <<>>
            BY <2>2, CurrentCall, PollerWorks DEF SkipsRecord
        <3> QED BY <3>1, <1>5, PollerGoesOn DEF NextRecord
    <2>3. ~SkipsRecord /\ ~ForgetsDenial /\ ~WritesMarker /\ ~HandlesExpired
        BY <2>2 DEF SkipsRecord, ForgetsDenial, WritesMarker, HandlesExpired
    <2>4. HandlesApproved => poller' = [poller EXCEPT !.pc = "unmark"]
        BY <2>2 DEF HandlesApproved
    <2>5. HandlesDenied => poller' = [poller EXCEPT !.pc = "mark"]
        BY <2>2 DEF HandlesDenied
    <2> QED BY <1>5, <2>1, <2>3, <2>4, <2>5, Writers DEF OnlyWriters, PollerStep
<1>6. ASSUME poller' = poller, poller # Idle, poller.pc # "record"
      PROVE  poller.pc \in {"unmark", "forget", "mark"} /\ UNCHANGED <<ruling, denied>>
    <2>1. poller \in Polling /\ poller.pc \in {"unmark", "forget", "mark"} /\ poller.batch # <<>>
        BY <1>6, CurrentCall DEF Types, Polling, Threads
    <2>2. ~HandlesApproved /\ ~HandlesDenied
        BY <1>6 DEF HandlesApproved, HandlesDenied, Handles
    <2>3. ~Crash
        BY <1>6 DEF Crash, StartedEmpty
    <2>4. ~ForgetsDenial
        BY <2>1, <1>6, PollerGoesOn DEF ForgetsDenial, NextRecord
    <2> QED BY <2>1, <2>2, <2>3, <2>4, Writers DEF OnlyWriters
<1> QED BY <1>0, <1>1, <1>2, <1>3, <1>4, <1>5, <1>6

LEMMA AgentKnowsNext ==
    ASSUME Types, Threads, RulingKnown, PollerKnows, AgentKnows, [Next]_vars
    PROVE  AgentKnows'
<1> SUFFICES ASSUME agent' # Idle, agent'.ruled.lifted = 0
             PROVE  /\ agent'.pc = "memory" /\ agent'.ruled.until # 0 =>
                          agent'.ruled.until <= denied'[agent'.call] \/ agent'.ruled.until <= markers'[agent'.call]
                    /\ agent'.pc = "marker" /\ agent'.ruled.until > agent'.now => agent'.ruled.until <= markers'[agent'.call]
                    /\ agent'.pc \in {"receipt", "forward"} => agent'.ruled.until <= agent'.now
    BY DEF AgentKnows
<1>1. CASE Arriving
    <2>1. PICK c \in Calls : Arrives(c)
        BY <1>1 DEF Arriving
    <2> DEFINE before == BeforeApproval(Conf, c, Snapshot(rows, c.tool, clock))
    <2>2. /\ agent'.call = c /\ agent'.now = clock /\ agent'.ruled = ruling[c]
          /\ agent'.pc \in {"memory", "forward"} /\ (agent'.pc = "forward" => before = "ok")
        BY <2>1 DEF Arrives, Refused
    <2>3. UNCHANGED <<denied, markers>>
        BY <2>1 DEF Arrives, AgentOnly, memory
    <2>4. ruling[c].until \in Nat /\ denied[c] \in Nat /\ markers[c] \in Nat /\ clock \in Nat
        BY RuledIsRuling, TimePasses DEF Ruling
    <2>5. agent'.pc = "forward" => ruling[c].until = 0
        BY <2>2, AllowedBy DEF RulingKnown
    <2> QED BY <2>2, <2>3, <2>4, <2>5 DEF RulingKnown
<1>2. CASE ~Arriving
    <2> DEFINE c == agent.call
               u == agent.ruled.until
    <2>1. /\ agent \in Deciding /\ agent # Idle
          /\ agent'.call = c /\ agent'.now = agent.now
        BY <1>2, AgentRuled
    <2>2. c \in Calls /\ agent.now \in Nat /\ denied[c] \in Nat /\ markers[c] \in Nat /\ u \in Nat
        BY <2>1, RuledIsRuling DEF Ruling
    <2>3. ASSUME agent.ruled.lifted = 0
          PROVE  /\ agent.pc = "memory" /\ u # 0 => u <= denied[c] \/ u <= markers[c]
                 /\ agent.pc = "marker" /\ u > agent.now => u <= markers[c]
                 /\ agent.pc \in {"receipt", "forward"} => u <= agent.now
        BY <2>1, <2>3 DEF AgentKnows
    <2> HIDE DEF c, u
    <2>4. CASE (ChecksMemory \/ ChecksMarker \/ ChecksReceipt \/ Submits) /\ agent'.ruled = agent.ruled
        <3>1. UNCHANGED <<denied, markers>>
            BY <2>4 DEF ChecksMemory, ChecksMarker, ChecksReceipt, Submits, AgentOnly, memory, disk
        <3>2. CASE ChecksMemory
            <4>1. agent.pc = "memory" /\ ~(denied[c] > agent.now) /\ agent' = [agent EXCEPT !.pc = "marker"]
                BY <3>2 DEF ChecksMemory, c
            <4>2. agent'.pc = "marker"
                BY <2>1, <4>1, AgentMoves
            <4> QED BY <2>1, <2>2, <2>3, <2>4, <3>1, <4>1, <4>2 DEF u
        <3>3. CASE ChecksMarker
            <4>1. agent.pc = "marker" /\ ~(markers[c] > agent.now) /\ agent' = [agent EXCEPT !.pc = "receipt"]
                BY <3>3 DEF ChecksMarker, c
            <4>2. agent'.pc = "receipt"
                BY <2>1, <4>1, AgentMoves
            <4> QED BY <2>1, <2>2, <2>3, <2>4, <3>1, <4>1, <4>2 DEF u
        <3>4. CASE ChecksReceipt
            <4>1. agent.pc = "receipt" /\ \E p \in {"forward", "request"} : agent' = [agent EXCEPT !.pc = p]
                BY <3>4 DEF ChecksReceipt
            <4>2. agent'.pc \in {"forward", "request"}
                BY <2>1, <4>1, AgentMoves
            <4> QED BY <2>1, <2>2, <2>3, <2>4, <3>1, <4>1, <4>2 DEF u
        <3>5. CASE Submits
            <4>1. agent' = [agent EXCEPT !.pc = "push"]
                BY <3>5 DEF Submits, Refused
            <4>2. agent'.pc = "push"
                BY <2>1, <4>1, AgentMoves
            <4> QED BY <4>2
        <3> QED BY <2>4, <3>2, <3>3, <3>4, <3>5
    <2>5. CASE HandlesApproved /\ c = Current.call /\ agent'.ruled = [agent.ruled EXCEPT !.lifted = Answered]
        <3>1. Answered # 0
            BY <2>5, CurrentCall, AnsweredInLog DEF HandlesApproved
        <3>2. agent'.ruled.lifted = Answered
            BY <2>1, <2>5 DEF Deciding, Ruling
        <3> QED BY <3>1, <3>2
    <2>6. CASE HandlesDenied /\ c = Current.call /\ ~(DeniedUntil(Current, poller.now) <= poller.now)
        <3> DEFINE until == DeniedUntil(Current, poller.now)
        <3>1. until \in Nat
            BY <2>6, CurrentCall, UntilIsNat DEF HandlesDenied
        <3>2. /\ denied' = [denied EXCEPT ![c] = until] /\ markers' = markers
              /\ agent' = [agent EXCEPT !.ruled.until = Least(@, until)]
            BY <2>1, <2>6 DEF HandlesDenied, c
        <3> HIDE DEF until
        <3>3. agent'.ruled.until = Least(u, until) /\ agent.ruled.lifted = 0 /\ agent'.pc = agent.pc
            BY <2>1, <3>2 DEF Deciding, Ruling, u
        <3>4. denied'[c] = until
            BY <2>2, <3>2 DEF Types
        <3>5. Least(u, until) \in Nat /\ Least(u, until) <= u /\ Least(u, until) <= until
            BY <2>2, <3>1, LeastOf
        <3> QED BY <2>1, <2>2, <2>3, <3>1, <3>2, <3>3, <3>4, <3>5
    <2>7. CASE agent' = agent /\ denied'[c] = denied[c] /\ markers'[c] = markers[c]
        BY <2>1, <2>2, <2>3, <2>7 DEF u
    <2>8. CASE HandlesDenied /\ ~(c = Current.call /\ ~(DeniedUntil(Current, poller.now) <= poller.now))
        <3>1. agent' = agent /\ denied'[c] = denied[c] /\ markers' = markers
            BY <2>2, <2>8 DEF HandlesDenied, Types, c
        <3> QED BY <2>7, <3>1
    <2>9. CASE RemovesMarker \/ ForgetsDenial
        <3>1. agent' = agent /\ poller.pc \in {"unmark", "forget"}
            BY <2>9 DEF RemovesMarker, ForgetsDenial, PollerOnly
        <3>2. c # Current.call
            BY <2>1, <3>1 DEF PollerKnows, c
        <3>3. denied'[c] = denied[c] /\ markers'[c] = markers[c]
            BY <2>2, <2>9, <3>2 DEF RemovesMarker, ForgetsDenial, Types
        <3> QED BY <2>7, <3>1, <3>3
    <2>10. CASE WritesMarker
        <3>1. agent' = agent /\ denied' = denied /\ poller.pc = "mark"
            BY <2>10 DEF WritesMarker, PollerOnly
        <3>2. markers'[c] = markers[c] \/ (c = Current.call /\ markers'[c] = denied[c])
            BY <2>2, <2>10 DEF WritesMarker, Types
        <3>3. c = Current.call => u <= denied[c]
            BY <2>1, <3>1 DEF PollerKnows, c, u
        <3> QED BY <2>1, <2>2, <2>3, <2>7, <3>1, <3>2, <3>3 DEF u
    <2>11. CASE HandlesApproved /\ agent' = agent
        BY <2>7, <2>11 DEF HandlesApproved
    <2>12. ~Crash
        BY DEF Crash, StartedEmpty
    <2>13. CASE UNCHANGED <<denied, markers>> /\ agent' = agent
        BY <2>7, <2>13
    <2>14. (ChecksMemory \/ ChecksMarker \/ ChecksReceipt \/ Submits) \/ HandlesApproved \/ HandlesDenied \/ agent' = agent
        BY <1>2, AgentRuled
    <2>15. denied' = denied \/ ForgetsDenial \/ HandlesDenied
        BY <2>12, Writers DEF OnlyWriters
    <2>16. markers' = markers \/ RemovesMarker \/ WritesMarker
        BY Writers DEF OnlyWriters
    <2>17. CASE agent' # agent
        BY <1>2, <2>4, <2>5, <2>6, <2>8, <2>17, AgentRuled DEF c
    <2> QED BY <2>6, <2>8, <2>9, <2>10, <2>13, <2>15, <2>16, <2>17
<1> QED BY <1>1, <1>2

\* The poller never goes back in the log, but for a crash.
LEMMA HandledGrows ==
    ASSUME Types, Threads, [Next]_vars, ~Crash
    PROVE  Handled \in Int /\ Handled' \in Int /\ Handled <= Handled'
<1>0. cursor \in Nat /\ cursor <= Len(log) /\ Len(log) \in Nat
    BY DEF Types
<1>1. ASSUME poller \in Polling PROVE poller.next \in Nat /\ Len(poller.batch) \in Nat /\ poller # Idle
    BY <1>1, IdleIsNoCall DEF Polling
<1>2. Handled \in Int
    BY <1>0, <1>1 DEF Handled, Types
<1>3. CASE Polls
    <2>1. poller = Idle /\ cursor < Len(log)
          /\ poller' = [pc |-> "record", batch |-> SubSeq(log, cursor + 1, Len(log)), now |-> clock, next |-> Len(log)]
        BY <1>3 DEF Polls
    <2>2. Len(SubSeq(log, cursor + 1, Len(log))) = Len(log) - cursor
        BY <1>0, <2>1 DEF Types
    <2>3. poller' # Idle /\ poller'.pc = "record" /\ poller'.next = Len(log) /\ Len(poller'.batch) = Len(log) - cursor
        BY <2>1, <2>2 DEF Idle
    <2>4. Handled' = cursor /\ Handled = cursor
        BY <2>1, <2>3, <1>0 DEF Handled
    <2> QED BY <2>4, <1>0
<1>4. CASE PollEnds
    <2>1. poller \in Polling /\ poller # Idle /\ poller.pc = "record" /\ poller.batch = <<>>
        BY <1>4, PollerWorks DEF PollEnds
    <2>2. Handled = poller.next
        BY <2>1, <1>1 DEF Handled
    <2>3. Handled' = poller.next
        BY <1>4 DEF PollEnds, Handled
    <2> QED BY <1>2, <2>2, <2>3
<1>5. CASE UNCHANGED <<poller, cursor>>
    BY <1>2, <1>5 DEF Handled
<1>6. ASSUME poller \in Polling, poller # Idle, poller.batch # <<>>,
             NEW l \in {"unmark", "forget", "mark"}, poller' = [poller EXCEPT !.pc = l]
      PROVE  Handled' \in Int /\ Handled <= Handled'
    <2>1. poller' # Idle /\ poller'.pc = l /\ poller'.batch = poller.batch /\ poller'.next = poller.next
        BY <1>6, PollerMoves
    <2>2. Handled' = poller.next - Len(poller.batch) + 1
        BY <2>1 DEF Handled
    <2> QED BY <1>1, <1>6, <2>2 DEF Handled
<1>7. ASSUME poller \in Polling, poller # Idle, poller.batch # <<>>, NextRecord
      PROVE  Handled' \in Int /\ Handled <= Handled'
    <2>1. poller' # Idle /\ poller'.pc = "record" /\ poller'.batch = Tail(poller.batch) /\ poller'.next = poller.next
        BY <1>7, PollerGoesOn DEF NextRecord
    <2>2. Len(poller'.batch) = Len(poller.batch) - 1 /\ Len(poller.batch) \in Nat
        BY <1>7, <2>1, CurrentIsRecord
    <2>3. Handled' = poller.next - (Len(poller.batch) - 1)
        BY <2>1, <2>2, <1>1, <1>7 DEF Handled
    <2> QED BY <1>1, <1>7, <2>2, <2>3 DEF Handled
<1>8. CASE poller' = Idle /\ ~PollEnds
    <2>1. ~Polls
        BY <1>8 DEF Polls, Idle
    <2>2. ~SkipsRecord /\ ~HandlesApproved /\ ~RemovesMarker /\ ~ForgetsDenial /\ ~HandlesDenied /\ ~WritesMarker /\ ~HandlesExpired
        <3>1. ASSUME poller \in Polling, poller.batch # <<>>
              PROVE  ~NextRecord /\ \A l \in {"unmark", "forget", "mark"} : poller' # [poller EXCEPT !.pc = l]
            <4>1. ~NextRecord
                BY <1>8, <3>1, PollerGoesOn DEF NextRecord
            <4>2. ASSUME NEW l \in {"unmark", "forget", "mark"} PROVE poller' # [poller EXCEPT !.pc = l]
                BY <1>8, <3>1, PollerMoves
            <4> QED BY <4>1, <4>2
        <3> QED BY <3>1, PollerWorks DEF SkipsRecord, HandlesApproved, RemovesMarker, ForgetsDenial, HandlesDenied,
                                 WritesMarker, HandlesExpired, Handles
    <2>3. UNCHANGED <<poller, cursor>>
        BY <1>8, <2>1, <2>2, Writers DEF OnlyWriters, PollerStep
    <2> QED BY <1>5, <2>3
<1>9. CASE poller' # Idle
    <2>1. cursor' = cursor
        BY <1>9, Writers DEF OnlyWriters, PollEnds
    <2> QED BY <1>2, <1>3, <1>5, <1>6, <1>7, <1>9, <2>1, PollerKept
<1> QED BY <1>4, <1>8, <1>9

\* The record the poller takes on is the next of the log.
LEMMA PlaceOfCurrent ==
    ASSUME Types, Threads, NEW st, Handles(st), NEW l \in {"unmark", "mark"}, poller' = [poller EXCEPT !.pc = l]
    PROVE  Handled = Answered - 1 /\ Handled' = Answered
<1>1. poller \in Polling /\ poller # Idle /\ poller.batch # <<>> /\ poller.pc = "record"
    BY CurrentCall DEF Handles
<1>2. Len(poller.batch) \in Nat /\ poller.next \in Nat
    BY <1>1 DEF Polling
<1>3. poller' # Idle /\ poller'.pc = l /\ poller'.batch = poller.batch /\ poller'.next = poller.next
    BY <1>1, PollerMoves
<1> QED BY <1>1, <1>2, <1>3 DEF Handled, Answered

LEMMA OrderedNext ==
    ASSUME Types, Threads, Ordered, [Next]_vars
    PROVE  Ordered'
<1> SUFFICES ASSUME crashes' = 0
             PROVE  /\ \A c \in Calls : InSequence(ruling[c])'
                    /\ agent' # Idle => InSequence(agent.ruled)'
    BY DEF Ordered
<1>1. ~Crash /\ crashes = 0
    BY Writers DEF OnlyWriters, Crash, Types
<1>2. Handled \in Int /\ Handled' \in Int /\ Handled <= Handled'
    BY <1>1, HandledGrows
<1>3. ASSUME NEW r \in Ruling, InSequence(r)
      PROVE  r.answer <= Handled' /\ r.lifted <= Handled' /\ (r.lifted # 0 => r.answer < r.lifted)
    BY <1>2, <1>3 DEF InSequence, Ruling
<1>4. \A c \in Calls : ruling[c] \in Ruling /\ InSequence(ruling[c])
    BY <1>1, RuledIsRuling DEF Ordered
<1>5. agent # Idle => agent.ruled \in Ruling /\ InSequence(agent.ruled)
    BY <1>1, RuledIsRuling DEF Ordered
<1>6. ASSUME HandlesApproved, poller' = [poller EXCEPT !.pc = "unmark"], NEW r \in Ruling, InSequence(r),
             NEW q, q = [r EXCEPT !.lifted = Answered]
      PROVE  q.answer <= Handled' /\ q.lifted <= Handled' /\ (q.lifted # 0 => q.answer < q.lifted)
    <2>1. Handled = Answered - 1 /\ Handled' = Answered
        BY <1>6, PlaceOfCurrent DEF HandlesApproved
    <2>2. Answered \in Nat \ {0}
        BY <1>6, CurrentCall, AnsweredInLog DEF HandlesApproved
    <2> QED BY <1>6, <2>1, <2>2 DEF InSequence, Ruling
<1>7. ASSUME NEW c \in Calls PROVE InSequence(ruling[c])'
    <2>1. CASE ruling'[c] = ruling[c]
        BY <1>3, <1>4, <2>1 DEF InSequence
    <2>2. CASE HandlesApproved /\ ruling'[c] # ruling[c]
        <3>1. poller' = [poller EXCEPT !.pc = "unmark"] /\ ruling'[c] = [ruling[c] EXCEPT !.lifted = Answered]
            BY <2>2 DEF HandlesApproved, Types
        <3> QED BY <1>4, <1>6, <2>2, <3>1 DEF InSequence
    <2>3. CASE HandlesDenied /\ ruling'[c] # ruling[c]
        <3>1. /\ poller' = [poller EXCEPT !.pc = "mark"]
              /\ ruling'[c] = [until |-> DeniedUntil(Current, poller.now), answer |-> Answered, lifted |-> 0]
            BY <2>3 DEF HandlesDenied, Types
        <3>2. Handled' = Answered
            BY <2>3, <3>1, PlaceOfCurrent DEF HandlesDenied
        <3>3. Answered \in Nat \ {0}
            BY <2>3, CurrentCall, AnsweredInLog DEF HandlesDenied
        <3> QED BY <3>1, <3>2, <3>3 DEF InSequence
    <2> QED BY <1>1, <2>1, <2>2, <2>3, Writers DEF OnlyWriters
<1>8. ASSUME agent' # Idle PROVE InSequence(agent.ruled)'
    <2>1. CASE Arriving
        <3>1. PICK c \in Calls : Arrives(c)
            BY <2>1 DEF Arriving
        <3>2. agent'.ruled = ruling[c]
            BY <1>8, <3>1 DEF Arrives, Refused
        <3> QED BY <1>3, <1>4, <3>2 DEF InSequence
    <2>2. CASE agent # Idle /\ agent'.ruled = agent.ruled
        BY <1>3, <1>5, <2>2 DEF InSequence
    <2>3. CASE HandlesApproved /\ agent' # agent
        <3>1. agent \in Deciding /\ agent # Idle /\ agent' = [agent EXCEPT !.ruled.lifted = Answered]
              /\ poller' = [poller EXCEPT !.pc = "unmark"]
            BY <2>3 DEF HandlesApproved, Types
        <3>2. agent'.ruled = [agent.ruled EXCEPT !.lifted = Answered]
            BY <3>1 DEF Deciding
        <3> QED BY <1>5, <1>6, <2>3, <3>1, <3>2 DEF InSequence
    <2>4. CASE HandlesDenied /\ agent' # agent
        <3>1. agent \in Deciding /\ agent # Idle
              /\ agent' = [agent EXCEPT !.ruled.until = Least(@, DeniedUntil(Current, poller.now))]
            BY <2>4 DEF HandlesDenied, Types
        <3>2. agent'.ruled.answer = agent.ruled.answer /\ agent'.ruled.lifted = agent.ruled.lifted
            BY <3>1 DEF Deciding, Ruling
        <3> QED BY <1>3, <1>5, <3>1, <3>2 DEF InSequence
    <2> QED BY <1>8, <2>1, <2>2, <2>3, <2>4, AgentRuled
<1> QED BY <1>7, <1>8

LEMMA DenialHoldsNext ==
    ASSUME Types, AgentKnows, Ordered, DenialHolds, [Next]_vars
    PROVE  DenialHolds'
<1>1. crashes \in Nat /\ crashes' \in Nat /\ crashes <= crashes'
    BY Writers DEF OnlyWriters, Crash, Types
<1>2. forwarded' = forwarded \/ Forwards
    BY Writers DEF OnlyWriters, NotForwarded
<1>3. CASE forwarded' = forwarded
    BY <1>1, <1>3 DEF DenialHolds
<1>4. CASE Forwards
    <2>1. agent \in Deciding /\ agent # Idle /\ agent.pc = "forward"
        BY <1>4, AgentWorks DEF Forwards
    <2>2. agent.ruled \in Ruling /\ agent.now \in Nat
        BY <2>1, RuledIsRuling
    <2>3. agent.ruled.lifted = 0 => agent.ruled.until <= agent.now
        BY <2>1 DEF AgentKnows
    <2>4. crashes = 0 => (agent.ruled.lifted # 0 => agent.ruled.answer < agent.ruled.lifted)
        BY <2>1 DEF Ordered, InSequence
    <2>5. Against # "denial"
        BY <2>3 DEF Against
    <2>6. Against = "replay" => crashes # 0
        BY <2>2, <2>4 DEF Against, Ruling
    <2>7. \A f \in forwarded' : f \in forwarded \/ f.against = Against
        BY <1>4 DEF Forwards
    <2> QED BY <1>1, <2>5, <2>6, <2>7 DEF DenialHolds
<1> QED BY <1>2, <1>3, <1>4

LEMMA DenialInvInit == Init => DenialInv
<1> SUFFICES ASSUME Init PROVE DenialInv
    OBVIOUS
<1>1. poller = Idle /\ agent = Idle /\ poller.pc = "idle" /\ cursor = 0 /\ forwarded = {}
    BY DEF Init, Idle
<1>2. \A c \in Calls : ruling[c].until = 0 /\ ruling[c].answer = 0 /\ ruling[c].lifted = 0
    BY DEF Init, NoRuling
<1>3. RulingKnown
    BY <1>2 DEF RulingKnown
<1>4. PollerKnows /\ AgentKnows /\ DenialHolds
    BY <1>1 DEF PollerKnows, AgentKnows, DenialHolds
<1>5. Ordered
    BY <1>1, <1>2 DEF Ordered, InSequence, Handled
<1> QED BY <1>3, <1>4, <1>5 DEF DenialInv

LEMMA DenialInvNext ==
    ASSUME Types, Threads, DenialInv, [Next]_vars
    PROVE  DenialInv'
BY RulingKnownNext, PollerKnowsNext, AgentKnowsNext, OrderedNext, DenialHoldsNext DEF DenialInv

-----------------------------------------------------------------------------
(* Receipts. *)

\* verify_approval's chain of checks, once the envelope's signature is.
ReceiptChain(e, check) ==
    LET st == e.payload
        a == st.predicate
        signers == VerifiedKeyids(e, check.approvers)
    IN  << <<st.type # StatementV1, "invalid">>,
           <<st.predicateType # ApprovalPredicate, "invalid">>,
           <<st.subject # {check.fingerprint}, "invalid">>,
           <<a.approver \notin signers, "invalid">>,
           <<a.release # check.release, "invalid">>,
           <<a.tool # check.tool, "invalid">>,
           <<a.taskId # check.taskId, "invalid">>,
           <<a.operationId = 0, "invalid">>,
           <<a.approvedAt = 0 \/ a.notAfter = 0, "invalid">>,
           <<a.notAfter <= a.approvedAt, "invalid">>,
           <<a.approvedAt > check.now + Skew, "invalid">>,
           <<check.now >= a.notAfter, "expired">> >>

LEMMA ReceiptCodes ==
    ASSUME NEW e, NEW check
    PROVE  /\ DOMAIN ReceiptChain(e, check) = 1..12
           /\ \A i \in 1..11 : ReceiptChain(e, check)[i][2] = "invalid"
           /\ ReceiptChain(e, check)[12][2] = "expired"
<1>1. DOMAIN ReceiptChain(e, check) = 1..12
    BY DEF ReceiptChain
<1>2. /\ ReceiptChain(e, check)[1][2] = "invalid" /\ ReceiptChain(e, check)[2][2] = "invalid"
      /\ ReceiptChain(e, check)[3][2] = "invalid" /\ ReceiptChain(e, check)[4][2] = "invalid"
      /\ ReceiptChain(e, check)[5][2] = "invalid" /\ ReceiptChain(e, check)[6][2] = "invalid"
      /\ ReceiptChain(e, check)[7][2] = "invalid" /\ ReceiptChain(e, check)[8][2] = "invalid"
      /\ ReceiptChain(e, check)[9][2] = "invalid" /\ ReceiptChain(e, check)[10][2] = "invalid"
      /\ ReceiptChain(e, check)[11][2] = "invalid" /\ ReceiptChain(e, check)[12][2] = "expired"
    BY DEF ReceiptChain
<1>3. \A i \in 1..11 : i = 1 \/ i = 2 \/ i = 3 \/ i = 4 \/ i = 5 \/ i = 6 \/ i = 7 \/ i = 8 \/ i = 9 \/ i = 10 \/ i = 11
    OBVIOUS
<1> QED BY <1>1, <1>2, <1>3

\* A receipt verifies when its envelope decodes, a trusted key signed it and
\* every check passes.
LEMMA VerifiedMeans ==
    ASSUME NEW e, NEW check
    PROVE  VerifyApproval(e, check) = "ok" <=>
             /\ Decodes(e) /\ e.type = InToto /\ VerifiedKeyids(e, check.approvers) # {}
             /\ \A i \in 1..12 : ~ReceiptChain(e, check)[i][1]
<1> DEFINE chain == ReceiptChain(e, check)
           sound == Decodes(e) /\ e.type = InToto /\ VerifiedKeyids(e, check.approvers) # {}
<1>1. DOMAIN chain = 1..12 /\ \A i \in 1..12 : chain[i][2] \in {"invalid", "expired"}
    <2>1. \A i \in 1..12 : i \in 1..11 \/ i = 12
        OBVIOUS
    <2> QED BY <2>1, ReceiptCodes
<1>2. VerifyApproval(e, check) = IF ~sound THEN "invalid" ELSE FirstFailure(chain)
    BY DEF VerifyApproval, ReceiptChain
<1> HIDE DEF chain, sound
<1>3. FirstFailure(chain) = "ok" <=> Failing(chain) = {}
    <2>1. \A i \in Failing(chain) : chain[i][2] # "ok"
        BY <1>1 DEF Failing
    <2> QED BY <1>1, <2>1, FirstIsReported
<1>4. Failing(chain) = {} <=> \A i \in 1..12 : ~chain[i][1]
    BY <1>1 DEF Failing
<1> QED BY <1>2, <1>3, <1>4 DEF chain, sound

\* A receipt that verified once stays valid until it expires.
LEMMA VerifiedLater ==
    ASSUME NEW e, NEW c, NEW n \in Nat, NEW m \in Nat, n <= m,
           e.payload.predicate.approvedAt \in Nat, e.payload.predicate.notAfter \in Nat,
           VerifyApproval(e, CheckFor(c, n)) = "ok"
    PROVE  VerifyApproval(e, CheckFor(c, m)) \in {"ok", "expired"}
<1> DEFINE before == ReceiptChain(e, CheckFor(c, n))
           after == ReceiptChain(e, CheckFor(c, m))
<1>1. /\ Decodes(e) /\ e.type = InToto /\ VerifiedKeyids(e, Conf.approvers) # {}
      /\ \A i \in 1..12 : ~before[i][1]
    BY VerifiedMeans DEF CheckFor
<1>2. VerifyApproval(e, CheckFor(c, m)) = FirstFailure(after)
    BY <1>1 DEF VerifyApproval, ReceiptChain, CheckFor
<1>3. /\ after[1][1] = before[1][1] /\ after[2][1] = before[2][1] /\ after[3][1] = before[3][1]
      /\ after[4][1] = before[4][1] /\ after[5][1] = before[5][1] /\ after[6][1] = before[6][1]
      /\ after[7][1] = before[7][1] /\ after[8][1] = before[8][1] /\ after[9][1] = before[9][1]
      /\ after[10][1] = before[10][1]
    BY DEF ReceiptChain, CheckFor
<1>4. ~(e.payload.predicate.approvedAt > n + Skew)
    <2>1. before[11][1] <=> (e.payload.predicate.approvedAt > n + Skew)
        BY DEF ReceiptChain, CheckFor
    <2>2. ~before[11][1]
        BY <1>1
    <2> QED BY <2>1, <2>2
<1>5. ~after[11][1]
    <2>1. after[11][1] <=> (e.payload.predicate.approvedAt > m + Skew)
        BY DEF ReceiptChain, CheckFor
    <2>2. Skew \in Nat
        BY SkewAssumption
    <2>3. ~(e.payload.predicate.approvedAt > m + Skew)
        BY <1>4, <2>2
    <2> QED BY <2>1, <2>3
<1>6. DOMAIN after = 1..12 /\ after[12][2] = "expired"
    BY ReceiptCodes
<1> HIDE DEF before, after
<1>7. \A i \in 1..11 : ~after[i][1]
    <2>1. \A i \in 1..11 : i = 1 \/ i = 2 \/ i = 3 \/ i = 4 \/ i = 5 \/ i = 6 \/ i = 7 \/ i = 8 \/ i = 9 \/ i = 10 \/ i = 11
        OBVIOUS
    <2> QED BY <1>1, <1>3, <1>5, <2>1
<1>8. \A i \in Failing(after) : i = 12
    BY <1>6, <1>7 DEF Failing
<1> QED BY <1>2, <1>6, <1>8, FirstIsReported

\* What the poller takes for valid is valid for the call's own tool.
LEMMA RecordVerified ==
    ASSUME NEW r \in Receipts, NEW now, VerifyRecord(r, now) = "ok"
    PROVE  /\ VerifyApproval(r.envelope, CheckFor(r.call, now)) = "ok"
           /\ WithinTtl(RuleOf(r.call).ttl, r.envelope.payload.predicate)
<1> DEFINE check(t) == [fingerprint |-> r.call, release |-> "release", tool |-> t, taskId |-> "taskId",
                        approvers |-> Conf.approvers, now |-> now]
<1>1. PICK t : /\ VerifyApproval(r.envelope, check(t)) = "ok"
               /\ WithinTtl(GateRules(Conf)[t].ttl, r.envelope.payload.predicate)
    BY DEF VerifyRecord
<1>2. ReceiptChain(r.envelope, check(t))[6][1] = (r.envelope.payload.predicate.tool # t)
    BY DEF ReceiptChain
<1>3. ~ReceiptChain(r.envelope, check(t))[6][1]
    BY <1>1, VerifiedMeans
<1>4. t = r.call.tool
    BY <1>2, <1>3, ReceiptFields
<1>5. check(t) = CheckFor(r.call, now)
    BY <1>4 DEF CheckFor
<1> QED BY <1>1, <1>4, <1>5 DEF RuleOf

LEMMA FilesVerifiedNext ==
    ASSUME Types, Threads, FilesVerified, [Next]_vars
    PROVE  FilesVerified'
<1> DEFINE Good(f, c, m) ==
           \/ f = NoFile
           \/ /\ f.kind = "receipt"
              /\ {f.envelope.payload.predicate.approvedAt, f.envelope.payload.predicate.notAfter} \subseteq Nat
              /\ \E n \in 1..m : VerifyApproval(f.envelope, CheckFor(c, n)) = "ok"
              /\ WithinTtl(RuleOf(c).ttl, f.envelope.payload.predicate)
<1> SUFFICES ASSUME NEW c \in Calls PROVE Good(files'[c], c, clock')
    BY DEF FilesVerified
<1>1. Good(files[c], c, clock)
    BY DEF FilesVerified
<1>2. 1..clock \subseteq 1..clock'
    BY TimePasses
<1>3. CASE files'[c] = files[c]
    BY <1>1, <1>2, <1>3
<1>4. CASE HandlesApproved /\ files'[c] # files[c]
    <2>1. poller \in Polling /\ poller # Idle /\ Current \in Records
        BY <1>4, CurrentCall DEF HandlesApproved
    <2>2. /\ c = Current.call /\ files'[c] = [kind |-> "receipt", envelope |-> Current.envelope]
          /\ VerifyRecord(Current, poller.now) = "ok" /\ Current.status = "approved"
        BY <1>4 DEF HandlesApproved, Handles, Types
    <2>3. Current \in Receipts
        BY <2>1, <2>2, RecordFields
    <2>4. poller.now \in 1..clock'
        BY <2>1, TimePasses, BoundsAreNat DEF Threads, Polling
    <2>5. /\ VerifyApproval(Current.envelope, CheckFor(c, poller.now)) = "ok"
          /\ WithinTtl(RuleOf(c).ttl, Current.envelope.payload.predicate)
        BY <2>2, <2>3, RecordVerified
    <2>6. {Current.envelope.payload.predicate.approvedAt, Current.envelope.payload.predicate.notAfter} \subseteq Nat
        BY <2>3, ReceiptFields
    <2> QED BY <2>2, <2>4, <2>5, <2>6
<1> QED BY <1>3, <1>4, Writers DEF OnlyWriters

LEMMA FilesAccepted ==
    ASSUME Types, FilesVerified
    PROVE  WrittenIsAccepted
<1> SUFFICES ASSUME NEW c \in Calls, files[c].kind = "receipt"
             PROVE  ReadReceipt(Conf, RuleOf(c), c, files[c], clock) \in {"ok", "approval_expired"}
    BY DEF WrittenIsAccepted
<1> DEFINE e == files[c].envelope
           result == VerifyApproval(e, CheckFor(c, clock))
           fits == WithinTtl(RuleOf(c).ttl, e.payload.predicate)
           chain == << <<result = "invalid", "approval_invalid">>,
                       <<result = "expired", "approval_expired">>,
                       <<result = "ok" /\ ~fits, "approval_invalid">> >>
<1>1. /\ e.payload.predicate.approvedAt \in Nat /\ e.payload.predicate.notAfter \in Nat
      /\ \E n \in 1..clock : VerifyApproval(e, CheckFor(c, n)) = "ok"
      /\ fits
    BY DEF FilesVerified, NoFile
<1>2. clock \in Nat
    BY BoundsAreNat DEF Types
<1>3. result \in {"ok", "expired"}
    BY <1>1, <1>2, VerifiedLater
<1>4. HasTaskId(Conf)
    BY BrokerAssumption DEF AttachBroker
<1>5. ReadReceipt(Conf, RuleOf(c), c, files[c], clock) = FirstFailure(chain)
    BY <1>4 DEF ReadReceipt, CheckFor
<1>6. DOMAIN chain = 1..3
    OBVIOUS
<1>7. (chain[1][1] <=> result = "invalid") /\ chain[2][2] = "approval_expired" /\ (chain[3][1] <=> result = "ok" /\ ~fits)
    OBVIOUS
<1> HIDE DEF chain, result, fits
<1>8. \A i \in Failing(chain) : i = 2
    BY <1>1, <1>3, <1>6, <1>7 DEF Failing
<1> QED BY <1>5, <1>6, <1>7, <1>8, FirstIsReported

-----------------------------------------------------------------------------
(* Rates. *)

\* No forbid of a policy that let a call through is satisfied.
LEMMA NoForbidHolds ==
    ASSUME NEW c \in Calls, NEW window, PolicyVerdict(Conf, c, window) \notin {"error", "deny"}, Conf.policy.given,
           NEW p \in Conf.policy.policies, p.effect = "forbid"
    PROVE  ~Holds(p, c.tool, window)
<1> DEFINE satisfied == {q \in Conf.policy.policies : Holds(q, c.tool, window)}
           permits == {q \in satisfied : q.effect = "permit"}
           chain == << <<\E q \in Conf.policy.policies : q.tool = c.tool /\ q.errs, "error">>,
                       <<\E q \in satisfied : q.effect = "forbid", "deny">>,
                       <<permits = {}, "deny">>,
                       <<\A q \in permits : q.approval, "require_approval">> >>
<1>1. FirstFailure(chain) \notin {"error", "deny"}
    BY DEF PolicyVerdict, Evaluate
<1>2. DOMAIN chain = 1..4
    OBVIOUS
<1>3. chain[1][2] = "error" /\ chain[2][2] = "deny" /\ chain[3][2] = "deny"
    OBVIOUS
<1>4. chain[2][1] <=> \E q \in satisfied : q.effect = "forbid"
    OBVIOUS
<1> HIDE DEF chain
<1>5. ~chain[2][1]
    <2> SUFFICES ASSUME chain[2][1] PROVE FALSE
        OBVIOUS
    <2>1. 2 \in Failing(chain)
        BY <1>2 DEF Failing
    <2>2. PICK i \in Failing(chain) : FirstFailure(chain) = chain[i][2] /\ i <= 2
        BY <1>2, <2>1, FirstIsReported
    <2>3. i = 1 \/ i = 2
        BY <1>2, <2>2 DEF Failing
    <2> QED BY <1>1, <1>3, <2>2, <2>3
<1> QED BY <1>4, <1>5

LEMMA HorizonGrows ==
    ASSUME Types, Threads, [Next]_vars
    PROVE  Horizon \in Nat /\ Horizon' \in Nat /\ Horizon <= Horizon'
<1>1. agent # Idle => agent.now \in Nat /\ agent.now <= clock
    BY RuledIsRuling DEF Threads
<1>2. clock \in Nat /\ clock' \in Nat /\ clock <= clock'
    BY TimePasses
<1>3. CASE agent' = Idle
    BY <1>1, <1>2, <1>3 DEF Horizon
<1>4. CASE agent' # Idle
    <2>1. (agent = Idle /\ agent'.now = clock) \/ (agent # Idle /\ agent'.now = agent.now)
        BY <1>4, AgentKept DEF Arrives
    <2> QED BY <1>1, <1>2, <1>4, <2>1 DEF Horizon
<1> QED BY <1>3, <1>4

LEMMA StillAllowedNext ==
    ASSUME Types, Threads, StillAllowed, [Next]_vars
    PROVE  StillAllowed'
<1> SUFFICES ASSUME agent' # Idle
             PROVE  BeforeApproval(Conf, agent'.call, Snapshot(rows', agent'.call.tool, agent'.now)) \in {"approve", "ok"}
    BY DEF StillAllowed
<1>1. CASE agent # Idle /\ agent'.call = agent.call /\ agent'.now = agent.now /\ rows' = rows
    BY <1>1 DEF StillAllowed
<1>2. ASSUME NEW c \in Calls, Arrives(c) PROVE BeforeApproval(Conf, agent'.call, Snapshot(rows', agent'.call.tool, agent'.now)) \in {"approve", "ok"}
    <2>1. rows' = rows /\ agent'.call = c /\ agent'.now = clock
        BY <1>2 DEF Arrives, Refused
    <2>2. BeforeApproval(Conf, c, Snapshot(rows, c.tool, clock)) \in {"approve", "ok"}
        BY <1>2 DEF Arrives, Refused
    <2> QED BY <2>1, <2>2
<1> QED BY <1>1, <1>2, AgentKept

LEMMA EachCountedNext ==
    ASSUME Types, Threads, EachCounted, [Next]_vars
    PROVE  EachCounted'
<1>h. Horizon \in Nat /\ Horizon' \in Nat /\ Horizon <= Horizon'
    BY HorizonGrows
<1>n. lastId \in Nat /\ Day \in Nat
    BY BoundsAreNat, WindowAssumption DEF Types
<1>f. /\ IsFiniteSet(rows) /\ IsFiniteSet(forwarded)
      /\ \A f \in forwarded : f.id \in 1..lastId /\ f.at \in 1..Horizon /\ (RowOf(f) \in rows \/ f.at <= Horizon - Day)
      /\ \A f, g \in forwarded : f.id = g.id => f = g
    BY DEF EachCounted
<1>1. CASE UNCHANGED <<rows, lastId, forwarded>>
    <2>1. \A f \in forwarded : f.at \in 1..Horizon' /\ (RowOf(f) \in rows \/ f.at <= Horizon' - Day)
        BY <1>h, <1>n, <1>f
    <2> QED BY <1>1, <1>f, <2>1 DEF EachCounted, RowOf
<1>2. CASE Forwards \/ (NotForwarded /\ lastId' = lastId + 1)
    <2> DEFINE new == [id |-> lastId', tool |-> agent.call.tool, at |-> agent.now]
               call == [id |-> lastId', tool |-> agent.call.tool, at |-> agent.now, against |-> Against]
               kept == {r \in rows : r.at > agent.now - Day}
    <2>1. agent \in Deciding /\ agent # Idle /\ agent.now \in Nat /\ agent.now # 0
        BY <1>2, AgentWorks DEF Forwards, NotForwarded, Deciding
    <2>2. Horizon = agent.now /\ lastId' = lastId + 1
        BY <1>2, <2>1 DEF Horizon, Forwards, NextId
    <2>3. /\ rows' \subseteq rows \cup {new}
          /\ \A r \in kept : r.id # lastId' => r \in rows'
          /\ forwarded' = forwarded \/ (forwarded' = forwarded \cup {call} /\ new \in rows')
        BY <1>2, <2>2 DEF Forwards, NotForwarded, CountersRecord, CountersForget, NextId
    <2>4. IsFiniteSet(rows') /\ IsFiniteSet(forwarded')
        <3>1. IsFiniteSet(rows \cup {new}) /\ IsFiniteSet(forwarded \cup {call})
            BY <1>f, FS_AddElement
        <3> QED BY <1>f, <2>3, <3>1, FS_Subset
    <2>5. ASSUME NEW f \in forwarded
          PROVE  /\ f.id \in 1..lastId' /\ f.at \in 1..Horizon' /\ f.id # lastId'
                 /\ RowOf(f) \in rows' \/ f.at <= Horizon' - Day
        <3>1. f.id \in 1..lastId' /\ f.at \in 1..Horizon' /\ f.id # lastId'
            BY <1>f, <1>h, <1>n, <2>2
        <3>2. CASE f.at <= Horizon - Day
            <4>1. f.at \in Nat
                BY <1>f
            <4> QED BY <1>h, <1>n, <3>1, <3>2, <4>1
        <3>3. CASE RowOf(f) \in rows /\ ~(f.at <= Horizon - Day)
            <4>0. f.at \in Nat
                BY <1>f
            <4>1. RowOf(f).at = f.at /\ RowOf(f).id = f.id /\ f.at \in Nat
                BY <4>0 DEF RowOf
            <4>2. f.at > agent.now - Day
                BY <1>n, <2>1, <2>2, <3>3, <4>1
            <4>3. RowOf(f) \in kept
                BY <3>3, <4>1, <4>2
            <4> QED BY <2>3, <3>1, <4>1, <4>3
        <3> QED BY <1>f, <3>1, <3>2, <3>3
    <2>6. /\ call.id \in 1..lastId' /\ call.at \in 1..Horizon' /\ RowOf(call) = new /\ call.id = lastId'
        BY <1>h, <1>n, <2>1, <2>2 DEF RowOf
    <2> HIDE DEF new, call, kept
    <2>7. CASE forwarded' = forwarded
        BY <1>f, <2>4, <2>5, <2>7 DEF EachCounted, RowOf
    <2>8. CASE forwarded' = forwarded \cup {call} /\ new \in rows'
        <3>1. \A f \in forwarded' : f.id \in 1..lastId' /\ f.at \in 1..Horizon' /\ (RowOf(f) \in rows' \/ f.at <= Horizon' - Day)
            BY <2>5, <2>6, <2>8
        <3>2. \A f, g \in forwarded' : f.id = g.id => f = g
            BY <1>f, <2>5, <2>6, <2>8
        <3> QED BY <2>4, <3>1, <3>2 DEF EachCounted, RowOf
    <2> QED BY <2>3, <2>7, <2>8
<1> QED BY <1>1, <1>2, Writers DEF OnlyWriters, NotForwarded, NextId

Forwarded(tool, W, t) == {f \in forwarded : f.tool = tool /\ t - W < f.at /\ f.at <= t}
Seen(tool, W, t) == {r \in rows : r.tool = tool /\ r.at > t - Day /\ r.at <= t /\ r.at > t - W}

\* The counters see every call forwarded in a window that ends now.
LEMMA WindowIsCounted ==
    ASSUME Types, EachCounted, agent # Idle, NEW W \in Nat, W <= Day, NEW tool
    PROVE  /\ Cardinality(Forwarded(tool, W, agent.now)) <= Cardinality(Seen(tool, W, agent.now))
           /\ Cardinality(Forwarded(tool, W, agent.now)) \in Nat /\ Cardinality(Seen(tool, W, agent.now)) \in Nat
<1> DEFINE F == Forwarded(tool, W, agent.now)
           S == Seen(tool, W, agent.now)
           row == [f \in F |-> RowOf(f)]
<1>1. agent.now \in Nat /\ Day \in Nat /\ Horizon = agent.now
    BY RuledIsRuling, WindowAssumption DEF Horizon
<1>2. ASSUME NEW f \in F PROVE RowOf(f) \in S
    <2>1. f \in forwarded /\ f.tool = tool /\ agent.now - W < f.at /\ f.at <= agent.now
        BY DEF Forwarded
    <2>2. f.at \in Nat /\ (RowOf(f) \in rows \/ f.at <= agent.now - Day)
        BY <1>1, <2>1 DEF EachCounted
    <2>3. f.at > agent.now - Day
        BY <1>1, <2>1, <2>2
    <2>4. RowOf(f) \in rows
        BY <1>1, <2>2, <2>3
    <2>5. RowOf(f).tool = f.tool /\ RowOf(f).at = f.at
        BY DEF RowOf
    <2> QED BY <1>1, <2>1, <2>2, <2>3, <2>4, <2>5 DEF Seen
<1>3. IsFiniteSet(S) /\ IsFiniteSet(F)
    <2>1. S \in SUBSET rows /\ F \in SUBSET forwarded
        BY DEF Seen, Forwarded
    <2> QED BY <2>1, FS_Subset DEF EachCounted
<1>4. row \in Injection(F, S)
    <2>1. row \in [F -> S]
        BY <1>2
    <2>2. ASSUME NEW f \in F, NEW g \in F, row[f] = row[g] PROVE f = g
        <3>1. RowOf(f).id = RowOf(g).id
            BY <2>2
        <3>2. f.id = g.id /\ f \in forwarded /\ g \in forwarded
            BY <3>1 DEF RowOf, Forwarded
        <3> QED BY <3>2 DEF EachCounted
    <2> QED BY <2>1, <2>2 DEF Injection, IsInjective
<1> HIDE DEF F, S, row
<1>5. Cardinality(F) <= Cardinality(S) /\ Cardinality(F) \in Nat /\ Cardinality(S) \in Nat
    BY <1>3, <1>4, FS_Injection, FS_CardinalityType
<1> QED BY <1>5 DEF F, S

LEMMA RateLimitNext ==
    ASSUME Types, Threads, EachCounted, StillAllowed, RateLimit, [Next]_vars
    PROVE  RateLimit'
<1>1. forwarded' = forwarded \/ Forwards
    BY Writers DEF OnlyWriters, NotForwarded
<1>2. CASE forwarded' = forwarded
    BY <1>2 DEF RateLimit
<1>3. CASE Forwards
    <2> DEFINE c == agent.call
               now == agent.now
               new == [id |-> lastId', tool |-> c.tool, at |-> now, against |-> Against]
               window == Snapshot(rows, c.tool, now)
    <2>1. agent \in Deciding /\ agent # Idle /\ c \in Calls /\ now \in Nat
        BY <1>3, AgentWorks, RuledIsRuling DEF Forwards
    <2>2. forwarded' = forwarded \cup {new}
        BY <1>3 DEF Forwards
    <2>3. IsFiniteSet(forwarded) /\ \A f \in forwarded : f.at \in Nat /\ f.at <= now
        BY <2>1 DEF EachCounted, Horizon
    <2>4. Hour \in Nat /\ Day \in Nat /\ Hour <= Day
        BY WindowAssumption
    <2>5. window.lastHour = Cardinality(Seen(c.tool, Hour, now)) /\ window.lastDay = Cardinality(Seen(c.tool, Day, now))
        <3>1. /\ window.lastHour = Cardinality({r \in {q \in rows : q.tool = c.tool /\ q.at > now - Day /\ q.at <= now} : r.at > now - Hour})
              /\ window.lastDay = Cardinality({q \in rows : q.tool = c.tool /\ q.at > now - Day /\ q.at <= now})
            BY DEF Snapshot
        <3>2. /\ {r \in {q \in rows : q.tool = c.tool /\ q.at > now - Day /\ q.at <= now} : r.at > now - Hour} = Seen(c.tool, Hour, now)
              /\ {q \in rows : q.tool = c.tool /\ q.at > now - Day /\ q.at <= now} = Seen(c.tool, Day, now)
            BY DEF Seen
        <3> QED BY <3>1, <3>2
    <2>6. /\ Cardinality(Forwarded(c.tool, Hour, now)) <= window.lastHour
          /\ Cardinality(Forwarded(c.tool, Day, now)) <= window.lastDay
          /\ window.lastHour \in Nat /\ window.lastDay \in Nat
          /\ Cardinality(Forwarded(c.tool, Hour, now)) \in Nat /\ Cardinality(Forwarded(c.tool, Day, now)) \in Nat
        BY <2>1, <2>4, <2>5, WindowIsCounted
    <2>7. PolicyVerdict(Conf, c, window) \notin {"error", "deny"}
        BY <2>1, AllowedBy DEF StillAllowed
    \* One more call in a window that has room for it.
    <2>8. ASSUME NEW tool, NEW W \in Nat, NEW t \in Nat, NEW n \in Nat,
                 Cardinality(Forwarded(tool, W, t)) <= n,
                 tool = c.tool => Cardinality(Forwarded(tool, W, now)) \in Nat /\ Cardinality(Forwarded(tool, W, now)) < n
          PROVE  Cardinality({f \in forwarded' : f.tool = tool /\ t - W < f.at /\ f.at <= t}) <= n
        <3> DEFINE after == {f \in forwarded' : f.tool = tool /\ t - W < f.at /\ f.at <= t}
        <3>1. new.tool = c.tool /\ new.at = now
            OBVIOUS
        <3> HIDE DEF new, c, now
        <3>2. CASE tool = c.tool /\ t - W < now /\ now <= t
            <4> DEFINE F == Forwarded(tool, W, now)
            <4>1. after \subseteq F \cup {new}
                <5> SUFFICES ASSUME NEW f \in after, f # new PROVE f \in F
                    OBVIOUS
                <5>1. f \in forwarded /\ f.tool = tool /\ t - W < f.at
                    BY <2>2
                <5>2. f.at \in Nat /\ f.at <= now
                    BY <2>3, <5>1
                <5>3. now - W < f.at
                    BY <2>1, <2>8, <3>2, <5>1, <5>2
                <5> QED BY <5>1, <5>2, <5>3 DEF Forwarded
            <4>2. IsFiniteSet(F)
                <5>1. F \in SUBSET forwarded
                    BY DEF Forwarded
                <5> QED BY <2>3, <5>1, FS_Subset
            <4> HIDE DEF F, after
            <4>3. IsFiniteSet(F \cup {new}) /\ Cardinality(F \cup {new}) \in Nat /\ Cardinality(F \cup {new}) <= Cardinality(F) + 1
                <5>1. Cardinality(F) \in Nat
                    BY <4>2, FS_CardinalityType
                <5>2. /\ IsFiniteSet(F \cup {new})
                      /\ Cardinality(F \cup {new}) = IF new \in F THEN Cardinality(F) ELSE Cardinality(F) + 1
                    BY <4>2, FS_AddElement
                <5> QED BY <5>1, <5>2
            <4>4. Cardinality(after) \in Nat /\ Cardinality(after) <= Cardinality(F \cup {new})
                BY <4>1, <4>3, FS_Subset, FS_CardinalityType
            <4>5. Cardinality(F) \in Nat /\ Cardinality(F) < n
                BY <2>8, <3>2 DEF F
            <4> QED BY <2>8, <4>3, <4>4, <4>5 DEF after
        <3>3. CASE ~(tool = c.tool /\ t - W < now /\ now <= t)
            <4>1. after = Forwarded(tool, W, t)
                BY <2>2, <3>1, <3>3 DEF Forwarded
            <4> QED BY <2>8, <4>1
        <3> QED BY <3>2, <3>3
    <2> HIDE DEF window, new
    <2>9. ASSUME NEW p \in Conf.policy.policies, Conf.policy.given, p.effect = "forbid", NEW t \in 1..MaxTime
          PROVE  /\ Cardinality({f \in forwarded' : f.tool = p.tool /\ t - Hour < f.at /\ f.at <= t}) <= p.hourFrom \/ p.dayFrom > 0
                 /\ Cardinality({f \in forwarded' : f.tool = p.tool /\ t - Day < f.at /\ f.at <= t}) <= p.dayFrom \/ p.hourFrom > 0
        <3>1. p.hourFrom \in Nat /\ p.dayFrom \in Nat /\ t \in Nat
            BY BoundsAreNat, BrokerAssumption
        <3>2. /\ Cardinality(Forwarded(p.tool, Hour, t)) <= p.hourFrom \/ p.dayFrom > 0
              /\ Cardinality(Forwarded(p.tool, Day, t)) <= p.dayFrom \/ p.hourFrom > 0
            BY <2>9 DEF RateLimit, Forwarded
        <3>3. p.tool = c.tool => ~(window.lastHour >= p.hourFrom /\ window.lastDay >= p.dayFrom)
            <4>1. ~Holds(p, c.tool, window)
                BY <2>1, <2>7, <2>9, NoForbidHolds
            <4> QED BY <4>1 DEF Holds
        <3>4. CASE p.dayFrom = 0
            <4>1. p.tool = c.tool => Cardinality(Forwarded(p.tool, Hour, now)) \in Nat /\ Cardinality(Forwarded(p.tool, Hour, now)) < p.hourFrom
                BY <2>6, <3>1, <3>3, <3>4
            <4>2. Cardinality({f \in forwarded' : f.tool = p.tool /\ t - Hour < f.at /\ f.at <= t}) <= p.hourFrom
                BY <2>4, <2>8, <3>1, <3>2, <3>4, <4>1
            <4>3. p.hourFrom = 0 => p.tool # c.tool
                BY <2>6, <3>1, <3>3, <3>4
            <4>4. p.hourFrom = 0 => Cardinality({f \in forwarded' : f.tool = p.tool /\ t - Day < f.at /\ f.at <= t}) <= p.dayFrom
                BY <2>4, <2>8, <3>1, <3>2, <4>3
            <4> QED BY <3>1, <4>2, <4>4
        <3>5. CASE p.dayFrom > 0
            <4>1. CASE p.hourFrom > 0
                BY <3>5, <4>1
            <4>2. CASE p.hourFrom = 0
                <5>1. p.tool = c.tool => Cardinality(Forwarded(p.tool, Day, now)) \in Nat /\ Cardinality(Forwarded(p.tool, Day, now)) < p.dayFrom
                    BY <2>6, <3>1, <3>3, <4>2
                <5>2. Cardinality({f \in forwarded' : f.tool = p.tool /\ t - Day < f.at /\ f.at <= t}) <= p.dayFrom
                    BY <2>4, <2>8, <3>1, <3>2, <4>2, <5>1
                <5> QED BY <3>5, <5>2
            <4> QED BY <3>1, <4>1, <4>2
        <3> QED BY <3>1, <3>4, <3>5
    <2> QED BY <2>9 DEF RateLimit
<1> QED BY <1>1, <1>2, <1>3

-----------------------------------------------------------------------------
(* The theorems. *)

LEMMA ApprovalInit == Init => ApprovalInv
<1> SUFFICES ASSUME Init PROVE ApprovalInv
    OBVIOUS
<1>1. agent = Idle /\ poller = Idle /\ rows = {} /\ forwarded = {} /\ clock = 1
    BY DEF Init
<1>2. Threads
    BY <1>1 DEF Threads
<1>3. Bounded
    <2>1. \A c \in Calls : denied[c] = 0 /\ markers[c] = 0
        BY DEF Init
    <2> QED BY <1>1, <2>1, BoundsAreNat DEF Bounded
<1>4. HalfFiledIsQueued
    BY DEF Init, HalfFiledIsQueued
<1>5. FilesVerified
    BY DEF Init, FilesVerified
<1>6. EachCounted /\ StillAllowed
    BY <1>1, FS_EmptySet DEF EachCounted, StillAllowed
<1>7. RateLimit
    <2>1. \A p \in Conf.policy.policies : 0 <= p.hourFrom /\ 0 <= p.dayFrom
        BY BrokerAssumption
    <2>2. ASSUME NEW p \in Conf.policy.policies, NEW t \in 1..MaxTime
          PROVE  /\ Cardinality({f \in forwarded : f.tool = p.tool /\ t - Hour < f.at /\ f.at <= t}) <= p.hourFrom
                 /\ Cardinality({f \in forwarded : f.tool = p.tool /\ t - Day < f.at /\ f.at <= t}) <= p.dayFrom
        <3>1. /\ {f \in forwarded : f.tool = p.tool /\ t - Hour < f.at /\ f.at <= t} = {}
              /\ {f \in forwarded : f.tool = p.tool /\ t - Day < f.at /\ f.at <= t} = {}
            BY <1>1
        <3> QED BY <2>1, <3>1, FS_EmptySet
    <2> QED BY <2>2 DEF RateLimit
<1> QED BY <1>2, <1>3, <1>4, <1>5, <1>6, <1>7, TypesInit, DenialInvInit DEF ApprovalInv, RateInv

LEMMA ApprovalNext == ApprovalInv /\ [Next]_vars => ApprovalInv'
<1> SUFFICES ASSUME ApprovalInv, [Next]_vars PROVE ApprovalInv'
    OBVIOUS
<1>1. Types /\ Threads /\ Bounded /\ HalfFiledIsQueued /\ DenialInv /\ FilesVerified
    BY DEF ApprovalInv
<1>2. EachCounted /\ StillAllowed /\ RateLimit
    BY DEF ApprovalInv, RateInv
<1>3. Types' /\ Threads' /\ Bounded'
    BY <1>1, TypesNext, ThreadsNext, BoundedNext
<1>4. HalfFiledIsQueued' /\ DenialInv' /\ FilesVerified'
    BY <1>1, HalfFiledNext, DenialInvNext, FilesVerifiedNext
<1>5. RateInv'
    BY <1>1, <1>2, EachCountedNext, StillAllowedNext, RateLimitNext DEF RateInv
<1> QED BY <1>3, <1>4, <1>5 DEF ApprovalInv

LEMMA ApprovalAlways == Spec => []ApprovalInv
BY ApprovalInit, ApprovalNext, PTL DEF Spec

LEMMA BooksInOrder == ApprovalInv => BrokerInv
<1> SUFFICES ASSUME ApprovalInv PROVE BrokerInv
    OBVIOUS
<1>1. Types /\ Bounded /\ HalfFiledIsQueued /\ FilesVerified
    BY DEF ApprovalInv
<1>2. \A c \in Calls : /\ open[c].accepted \in BOOLEAN /\ open[c].expires \in 0..(MaxTime + MaxRequest)
                       /\ denied[c] \in 0..(clock + MaxRequest) /\ markers[c] \in 0..(clock + MaxRequest)
    <2>1. \A c \in Calls : open[c] \in Opening /\ denied[c] \in Nat /\ markers[c] \in Nat
        BY <1>1 DEF Types
    <2>2. clock \in Nat /\ MaxRequest \in Nat
        BY <1>1, BoundsAreNat DEF Types
    <2>3. \A c \in Calls : denied[c] <= clock + MaxRequest /\ markers[c] <= clock + MaxRequest
        BY <1>1 DEF Bounded
    <2>4. \A c \in Calls : open[c].accepted \in BOOLEAN /\ open[c].expires \in 0..(MaxTime + MaxRequest)
        BY <2>1 DEF Opening
    <2> QED BY <2>1, <2>2, <2>3, <2>4
<1>3. \A c \in Calls : files[c].kind \in {"none", "receipt"}
    BY <1>1 DEF FilesVerified, NoFile
<1>4. cursor \in 0..Len(log) /\ \A f \in DOMAIN filings : filings[f] \in Calls
    BY <1>1 DEF Types
<1>5. rows \subseteq [id : 1..MaxForwards, tool : {c.tool : c \in Calls}, at : 1..MaxTime]
    <2>1. 1..lastId \subseteq 1..MaxForwards
        BY <1>1, BoundsAreNat DEF Types
    <2> QED BY <1>1, <2>1 DEF Bounded
<1>6. /\ poller.pc \in {"idle", "record", "unmark", "forget", "mark"}
      /\ agent.pc \in {"idle", "memory", "marker", "receipt", "forward", "request", "push"}
    BY <1>1 DEF Types, Idle, Polling, Deciding
<1>7. clock \in 1..MaxTime
    BY <1>1 DEF Types
<1> QED BY <1>1, <1>2, <1>3, <1>4, <1>5, <1>6, <1>7 DEF BrokerInv, TypeOK

\* The broker client's tables, the directory and the threads hold values of
\* their types, denials are capped, and a request that is not accepted is on
\* its way to the broker (broker.rs submit, file and handle).
THEOREM BrokerBooks == Spec => []BrokerInv
BY ApprovalAlways, BooksInOrder, PTL

\* No call goes against a denial in force that was taken in before it arrived,
\* and only after a restart can an older approval lift one (broker.rs handle,
\* gate.rs approve).
THEOREM DenialsHold == Spec => []DenialHolds
<1>1. ApprovalInv => DenialHolds
    BY DEF ApprovalInv, DenialInv
<1> QED BY <1>1, ApprovalAlways, PTL

\* The policy's rate limits hold over every hour and every day (counters.rs,
\* policy lib.rs evaluate, and the gate's record_forwarded).
THEOREM RatesHold == Spec => []RateLimit
<1>1. ApprovalInv => RateLimit
    BY DEF ApprovalInv, RateInv
<1> QED BY <1>1, ApprovalAlways, PTL

\* A receipt the poller has written lets its call through until it expires
\* (broker.rs Verifier::verify against gate.rs approve).
THEOREM ReceiptsWork == Spec => []WrittenIsAccepted
<1>1. ApprovalInv => WrittenIsAccepted
    BY FilesAccepted DEF ApprovalInv
<1> QED BY <1>1, ApprovalAlways, PTL
=============================================================================
