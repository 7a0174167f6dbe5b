-------------------------- MODULE SideEffectProofs --------------------------
(***************************************************************************)
(* Proofs about SideEffectGate, for any number of operations, gates,       *)
(* attempts and request ids: types, the records' agreement with the        *)
(* attempts, then that the coordinator keeps its promise (AtMostOnce) and  *)
(* that what it records and replays is true.                               *)
(***************************************************************************)
EXTENDS SideEffectRefinement, TLAPS

USE StoreAssumption, GateAssumption

-----------------------------------------------------------------------------
(* Type correctness. *)

\* The initial state is well typed.
LEMMA TypeInit == Init => TypeOK
  BY DEF Init, TypeOK, StoreInit, StoreTypeOK, NoRow, Row, Results, OperationState,
         Modes, NobodyPending, NothingOutstanding, NoInfo, Info, Phases, Upstream,
         Fates, Outcomes, Answers

\* The store's transactions write well-typed rows.
LEMMA BeginType ==
  ASSUME StoreTypeOK, NEW o, NEW c \in Calls, Begin(o, c)
  PROVE  rows' \in [Operations -> Row]
  BY DEF StoreTypeOK, Begin, Row, Results, OperationState

\* settle, whatever it is told.
LEMMA SettleType ==
  ASSUME StoreTypeOK, NEW o, NEW s \in OperationState, NEW r \in Results,
         NEW m \in BOOLEAN, Settle(o, s, r, m)
  PROVE  rows' \in [Operations -> Row]
<1>1. CASE ~Settles(o)
  BY <1>1 DEF StoreTypeOK, Settle
<1>2. CASE Settles(o)
  <2>1. o \in Operations => rows[o].call \in Calls \cup {NoCall}
    BY DEF StoreTypeOK, Row
  <2>2. (m /\ r # "null") \in BOOLEAN
    OBVIOUS
  <2>3. o \in Operations =>
          [state |-> s, call |-> rows[o].call, result |-> r, masked |-> m /\ r # "null"] \in Row
    BY <2>1, <2>2 DEF Row
  <2> QED
    BY <1>2, <2>3 DEF StoreTypeOK, Settle
<1> QED
  BY <1>1, <1>2

\* reconcile.
LEMMA VerdictType ==
  ASSUME StoreTypeOK, NEW o, NEW s \in OperationState, SetVerdict(o, s)
  PROVE  rows' \in [Operations -> Row]
  BY DEF StoreTypeOK, SetVerdict, Row, Results

\* recover.
LEMMA RecoverType ==
  ASSUME StoreTypeOK, NEW g \in Gates, Recover(g)
  PROVE  StoreTypeOK'
  BY DEF StoreTypeOK, Recover, Row, Results, OperationState

\* The values the actions write.
LEMMA Constants ==
  /\ {"in_flight", "done", "failed", "unknown", "not_applied"} \subseteq OperationState
  /\ {"null", "raw", "tokens"} \subseteq Results
  BY DEF OperationState, Results

\* The forgotten request is well typed.
LEMMA BlankInfo == NoInfo \in Info
  BY DEF NoInfo, Info

\* A call that is not sent gives its operation back.
LEMMA GiveBackType ==
  ASSUME TypeOK, NEW a \in Attempts, GiveBack(a)
  PROVE  TypeOK'
<1>1. rows' \in [Operations -> Row]
  <2>1. CASE Settle(info[a].op, "failed", "null", FALSE)
    BY <2>1, SettleType, Constants DEF TypeOK
  <2>2. CASE UNCHANGED rows
    BY <2>2 DEF TypeOK, StoreTypeOK
  <2> QED
    BY <2>1, <2>2 DEF GiveBack
<1> QED
  BY <1>1, BlankInfo DEF TypeOK, StoreTypeOK, GiveBack, Refuse, Goto, Phases

\* The end of a gate process.
LEMMA DiesType ==
  ASSUME TypeOK, NEW g \in Gates, Dies(g)
  PROVE  TypeOK'
  BY DEF TypeOK, StoreTypeOK, Dies, ReleaseGate, Modes, NobodyPending, NothingOutstanding,
         Phases, Fates, Answers, Upstream

\* by_request and outstanding are tables of tables.
LEMMA ByRequestType ==
  ASSUME TypeOK, NEW g, NEW r, NEW x \in Attempts \cup {NoAttempt},
         byRequest' = [byRequest EXCEPT ![g][r] = x]
  PROVE  byRequest' \in [Gates -> [Requests -> Attempts \cup {NoAttempt}]]
  BY DEF TypeOK

\* An answered request leaves outstanding.
LEMMA OutstandingType ==
  ASSUME TypeOK, NEW g, NEW r, NEW x,
         outstanding' = [outstanding EXCEPT ![g][r] = @ \ {x}]
  PROVE  outstanding' \in [Gates -> [Requests -> SUBSET Attempts]]
<1>1. \A S \in SUBSET Attempts : S \ {x} \in SUBSET Attempts
  OBVIOUS
<1>2. CASE g \in Gates
  <2> DEFINE T == [outstanding[g] EXCEPT ![r] = @ \ {x}]
  <2>1. outstanding[g] \in [Requests -> SUBSET Attempts]
    BY <1>2 DEF TypeOK
  <2>2. T \in [Requests -> SUBSET Attempts]
    BY <1>1, <2>1
  <2>3. outstanding' = [outstanding EXCEPT ![g] = T]
    OBVIOUS
  <2> HIDE DEF T
  <2> QED
    BY <2>2, <2>3 DEF TypeOK
<1>3. CASE g \notin Gates
  BY <1>3 DEF TypeOK
<1> QED
  BY <1>2, <1>3

\* A reply or a transport error.
LEMMA TakeRequestType ==
  ASSUME TypeOK, NEW a \in Attempts, NEW n \in Fates, NEW v \in Outcomes \ {"none"},
         NEW w \in Answers, TakeRequest(a, n, v, w)
  PROVE  /\ byRequest' \in [Gates -> [Requests -> Attempts \cup {NoAttempt}]]
         /\ outstanding' \in [Gates -> [Requests -> SUBSET Attempts]]
         /\ fate' \in [Attempts -> Fates]
         /\ verdict' \in [Attempts -> Outcomes]
         /\ answer' \in [Attempts -> Answers]
         /\ \A b \in Attempts : fate'[b] \in {"taken", "abandoned", "settled"} => verdict'[b] # "none"
<1> DEFINE g == info[a].gate
           r == info[a].req
           b == byRequest[g][r]
<1>1. CASE b # NoAttempt
  <2>1. byRequest' \in [Gates -> [Requests -> Attempts \cup {NoAttempt}]]
    BY <1>1, ByRequestType DEF TakeRequest
  <2>2. fate' = [fate EXCEPT ![b] = n] /\ verdict' = [verdict EXCEPT ![b] = v]
    BY <1>1 DEF TakeRequest
  <2>3. UNCHANGED <<outstanding, answer>>
    BY <1>1 DEF TakeRequest
  <2> HIDE DEF b
  <2> QED
    BY <2>1, <2>2, <2>3 DEF TypeOK
<1>2. CASE b = NoAttempt
  <2>1. outstanding' \in [Gates -> [Requests -> SUBSET Attempts]]
    BY <1>2, OutstandingType DEF TakeRequest
  <2>2. fate' = [fate EXCEPT ![a] = "over"] /\ Tell(a, w) /\ UNCHANGED <<byRequest, verdict>>
    BY <1>2 DEF TakeRequest
  <2> QED
    BY <2>1, <2>2 DEF TypeOK, Tell, Fates
<1> QED
  BY <1>1, <1>2

\* Every step keeps the state well typed.
LEMMA TypeNext == TypeOK /\ [Next]_vars => TypeOK'
<1> SUFFICES ASSUME TypeOK, [Next]_vars PROVE TypeOK'
  OBVIOUS
<1>1. ASSUME NEW g \in Gates, GateStep(g) PROVE TypeOK'
  <2>1. CASE Start(g)
    <3>1. StoreTypeOK'
      BY <2>1, RecoverType DEF TypeOK, Start
    <3> QED
      BY <2>1, <3>1 DEF TypeOK, Start, LeftInFlight, Modes
  <2>2. CASE StartFails(g)
    BY <2>2 DEF TypeOK, StoreTypeOK, StartFails, ReleaseGate, Modes
  <2>3. CASE Serve(g)
    BY <2>3 DEF TypeOK, StoreTypeOK, Serve, Modes
  <2>4. CASE \E o \in Operations : RecordRecovered(g, o)
    BY <2>4 DEF TypeOK, StoreTypeOK, RecordRecovered, Record, Entry
  <2>5. CASE Finish(g)
    BY <2>5 DEF TypeOK, StoreTypeOK, Finish, NobodyPending, Modes, Fates, Outcomes, Upstream
  <2>6. CASE Release(g)
    <3>1. CASE Linger
      BY <2>6, <3>1 DEF TypeOK, StoreTypeOK, Release, ReleaseGate, Modes
    <3>2. CASE ~Linger
      BY <2>6, <3>2, DiesType DEF Release
    <3> QED
      BY <3>1, <3>2
  <2>7. CASE Exit(g) \/ Crash(g)
    BY <2>7, DiesType DEF Exit, Crash
  <2> QED
    BY <1>1, <2>1, <2>2, <2>3, <2>4, <2>5, <2>6, <2>7 DEF GateStep
<1>2. ASSUME NEW g \in Gates, NEW a \in Attempts, AgentStep(g, a) PROVE TypeOK'
  <2>1. ASSUME NEW r \in Requests, ForwardPlain(g, a, r) PROVE TypeOK'
    BY <2>1 DEF TypeOK, StoreTypeOK, ForwardPlain, Arrives, Info, Goto, Phases, Upstream
  <2>2. ASSUME NEW r \in Requests, NEW o \in Operations, NEW c \in Calls, CheckCall(g, a, r, o, c)
        PROVE  TypeOK'
    BY <2>2 DEF TypeOK, StoreTypeOK, CheckCall, Arrives, Info, Goto, Phases
  <2> QED
    BY <1>2, <2>1, <2>2 DEF AgentStep
<1>3. ASSUME NEW a \in Attempts, DecideStep(a) PROVE TypeOK'
  <2>1. CASE BeginForward(a)
    <3>1. rows' \in [Operations -> Row]
      BY <2>1 DEF TypeOK, StoreTypeOK, BeginForward, Begin, Row, Results, OperationState, Info
    <3> QED
      BY <2>1, <3>1 DEF TypeOK, StoreTypeOK, BeginForward, Goto, Phases
  <2>2. CASE BeginRefused(a)
    BY <2>2, BlankInfo DEF TypeOK, StoreTypeOK, BeginRefused, Refuse, Goto, Phases
  <2>3. CASE Replay(a)
    <3>1. Replayed(a) \in Answers
      BY DEF Replayed, Answers
    <3>2. [op |-> info[a].op, kind |-> "replay", of |-> a] \in Entry
      BY DEF TypeOK, Info, Entry
    <3>3. /\ UNCHANGED <<rows, gateLock, mode, recovered, byRequest, outstanding, up, fate, verdict>>
          /\ ledger' \subseteq Entry
          /\ answer' \in [Attempts -> Answers]
      BY <2>3, <3>1, <3>2 DEF TypeOK, Replay, Record, Tell
    <3>4. info' = info \/ info' = [info EXCEPT ![a] = NoInfo]
      BY <2>3 DEF Replay, Refuse
    <3>5. pc' = [pc EXCEPT ![a] = "decided"] \/ pc' = [pc EXCEPT ![a] = "idle"]
      BY <2>3 DEF Replay, Refuse, Goto
    <3>6. info' \in [Attempts -> Info]
      BY <3>4, BlankInfo DEF TypeOK
    <3>7. pc' \in [Attempts -> Phases]
      BY <3>5 DEF TypeOK, Phases
    <3> QED
      BY <3>3, <3>6, <3>7 DEF TypeOK, StoreTypeOK
  <2>4. CASE Register(a)
    <3>1. byRequest' \in [Gates -> [Requests -> Attempts \cup {NoAttempt}]]
      BY <2>4, ByRequestType DEF Register, TypeOK
    <3> QED
      BY <2>4, <3>1 DEF TypeOK, StoreTypeOK, Register, Goto, Phases
  <2>5. CASE ReleaseUnsent(a) \/ UnstartSettle(a)
    BY <2>5, GiveBackType DEF ReleaseUnsent, UnstartSettle
  <2>6. CASE RecordForwarded(a)
    <3>1. [op |-> info[a].op, kind |-> "call", of |-> a] \in Entry
      BY DEF TypeOK, Info, Entry
    <3> QED
      BY <2>6, <3>1 DEF TypeOK, StoreTypeOK, RecordForwarded, Record, Goto, Phases, Upstream
  <2>7. CASE RecordFails(a)
    BY <2>7 DEF TypeOK, StoreTypeOK, RecordFails, Goto, Phases
  <2>8. CASE UnstartRemove(a)
    <3>1. byRequest' \in [Gates -> [Requests -> Attempts \cup {NoAttempt}]]
      BY <2>8, ByRequestType DEF UnstartRemove, TypeOK
    <3> QED
      BY <2>8, <3>1 DEF TypeOK, StoreTypeOK, UnstartRemove, Goto, Phases
  <2> QED
    BY <1>3, <2>1, <2>2, <2>3, <2>4, <2>5, <2>6, <2>7, <2>8 DEF DecideStep
<1>4. ASSUME NEW a \in Attempts, ToolStep(a) PROVE TypeOK'
  BY <1>4 DEF TypeOK, StoreTypeOK, ToolStep, Send, Execute, Upstream
<1>5. ASSUME NEW a \in Attempts, ReplyStep(a) PROVE TypeOK'
  <2>1. CASE Reply(a)
    <3>1. CASE TakeRequest(a, "taken", "committed", "result")
      BY <2>1, <3>1, TakeRequestType DEF TypeOK, StoreTypeOK, Reply, Fates, Outcomes, Answers
    <3>2. CASE TakeRequest(a, "taken", "failed", "error")
      BY <2>1, <3>2, TakeRequestType DEF TypeOK, StoreTypeOK, Reply, Fates, Outcomes, Answers
    <3> QED
      BY <2>1, <3>1, <3>2 DEF Reply
  <2>2. CASE OnUpstreamError(a)
    BY <2>2, TakeRequestType DEF TypeOK, StoreTypeOK, OnUpstreamError, Fates, Outcomes, Answers, Upstream
  <2>3. CASE SettleReply(a)
    <3>1. rows' \in [Operations -> Row]
      <4> DEFINE m == info[a].gate \in Pii
      <4> m \in BOOLEAN
        OBVIOUS
      <4> HIDE DEF m
      <4>1. CASE Settle(info[a].op, "done", IF m THEN "tokens" ELSE "raw", m)
        BY <4>1, SettleType, Constants DEF TypeOK
      <4>2. CASE Settle(info[a].op, "failed", "null", m)
        BY <4>2, SettleType, Constants DEF TypeOK
      <4>3. CASE UNCHANGED rows
        BY <4>3 DEF TypeOK, StoreTypeOK
      <4> QED
        BY <2>3, <4>1, <4>2, <4>3 DEF SettleReply, m
    <3> QED
      BY <2>3, <3>1 DEF TypeOK, StoreTypeOK, SettleReply, Fates, Tell, ReplyAnswer, Answers
  <2>4. CASE Abandon(a)
    <3>1. rows' \in [Operations -> Row]
      BY <2>4, SettleType, Constants DEF TypeOK, StoreTypeOK, Abandon
    <3> QED
      BY <2>4, <3>1 DEF TypeOK, StoreTypeOK, Abandon, Fates, Tell, Answers
  <2>5. CASE RecordOutcome(a)
    <3>1. [op |-> info[a].op, kind |-> verdict[a], of |-> a] \in Entry
      BY <2>5 DEF TypeOK, RecordOutcome, Info, Entry, Outcomes
    <3> QED
      BY <2>5, <3>1 DEF TypeOK, StoreTypeOK, RecordOutcome, Record, Fates, Tell, ReplyAnswer, Answers
  <2> QED
    BY <1>5, <2>1, <2>2, <2>3, <2>4, <2>5 DEF ReplyStep
<1>6. ASSUME NEW o \in Operations, OperatorStep(o) PROVE TypeOK'
  <2>1. Truth(o) \in OperationState
    BY DEF Truth, OperationState
  <2>2. CASE Reconcile(o)
    <3>1. rows' \in [Operations -> Row]
      BY <2>1, <2>2, VerdictType DEF TypeOK, Reconcile
    <3> QED
      BY <2>2, <3>1 DEF TypeOK, StoreTypeOK, Reconcile, ReconcileEntry, Record, Entry
  <2>3. CASE ReconcileLost(o)
    BY <2>3 DEF TypeOK, StoreTypeOK, ReconcileLost, ReconcileEntry, Record, Entry
  <2> QED
    BY <1>6, <2>2, <2>3 DEF OperatorStep
<1>7. CASE UNCHANGED vars
  BY <1>7 DEF vars, TypeOK, StoreTypeOK
<1> QED
  BY <1>1, <1>2, <1>3, <1>4, <1>5, <1>6, <1>7 DEF Next

\* The state is well typed in every reachable state, for all constants.
THEOREM TypeCorrect == Spec => []TypeOK
  BY TypeInit, TypeNext, PTL DEF Spec

-----------------------------------------------------------------------------
(* The coordination invariant.  It reads these variables only. *)
coordVars == <<rows, gateLock, mode, byRequest, outstanding, info, pc, up, fate, verdict>>

\* What else changes cannot disturb it.
LEMMA CoordinationFrame == CoordinationInv /\ UNCHANGED coordVars => CoordinationInv'
  BY DEF coordVars, CoordinationInv, LockInv, AttemptInv, MutexInv, PendingInv, ReplyInv,
         HolderInv, EffectInv, Deciding, IsOperation, Running, Registered, InUse, Holds, MayAct,
         OfOp, Applied

\* Nobody gains a hold or a chance to act, and no held row is settled.
LEMMA HolderFrame ==
  ASSUME HolderInv,
         \A b \in Attempts : Holds(b)' => Holds(b) /\ rows'[info'[b].op].state = "in_flight",
         \A b \in Attempts : Holds(b)' \/ MayAct(b)' =>
                                (Holds(b) \/ MayAct(b)) /\ info'[b].op = info[b].op
  PROVE  HolderInv'
<1> SUFFICES ASSUME NEW a \in Attempts, Holds(a)', NEW b \in Attempts \ {a},
                    info'[b].op = info'[a].op
             PROVE  ~Holds(b)' /\ ~MayAct(b)'
  BY DEF HolderInv
<1> QED
  BY DEF HolderInv

\* A reply or an error is applied to the request it is about: ids in
\* by_request and in outstanding are not shared.
LEMMA TakeCases ==
  ASSUME TypeOK, CoordinationInv, NEW a \in Attempts, NEW n, NEW v, NEW w,
         Waiting(a), up[a] # "none", TakeRequest(a, n, v, w)
  PROVE  /\ info[a].gate \in Gates /\ info[a].req \in Requests
         /\ \/ /\ IsOperation(a) /\ Registered(a)
               /\ byRequest' = [byRequest EXCEPT ![info[a].gate][info[a].req] = NoAttempt]
               /\ fate' = [fate EXCEPT ![a] = n]
               /\ verdict' = [verdict EXCEPT ![a] = v]
               /\ UNCHANGED outstanding
            \/ /\ ~IsOperation(a)
               /\ outstanding' = [outstanding EXCEPT ![info[a].gate][info[a].req] = @ \ {a}]
               /\ fate' = [fate EXCEPT ![a] = "over"]
               /\ UNCHANGED <<byRequest, verdict>>
<1> DEFINE g == info[a].gate
           r == info[a].req
<1>1. g \in Gates /\ r \in Requests
  BY DEF CoordinationInv, AttemptInv, Waiting
<1>2. CASE IsOperation(a)
  <2>1. byRequest[g][r] = a /\ a # NoAttempt
    BY <1>2 DEF CoordinationInv, PendingInv, Waiting, Registered
  <2> QED
    BY <1>1, <1>2, <2>1 DEF TakeRequest, Registered
<1>3. CASE ~IsOperation(a)
  <2>1. a \in outstanding[g][r]
    BY <1>3 DEF CoordinationInv, PendingInv, Waiting
  <2>2. byRequest[g][r] = NoAttempt
    BY <1>1, <2>1 DEF CoordinationInv, PendingInv
  <2> QED
    BY <1>1, <1>3, <2>2 DEF TakeRequest
<1> QED
  BY <1>2, <1>3

\* Start-up takes a free lock, so no gate runs and nobody holds what is swept.
LEMMA StartKeeps ==
  ASSUME ~Forcing, ~Linger, TypeOK, TypeOK', CoordinationInv, NEW g \in Gates, Start(g)
  PROVE  CoordinationInv'
<1>1. MutexInv' /\ ReplyInv'
  BY DEF CoordinationInv, MutexInv, Deciding, InUse, ReplyInv, Start
<1>2. LockInv'
  BY DEF TypeOK, CoordinationInv, LockInv, Start, Recover, LeftInFlight
<1>3. AttemptInv'
  BY DEF TypeOK, Info, CoordinationInv, AttemptInv, Deciding, IsOperation, Running, Registered,
       NoInfo, Start, Recover, LeftInFlight
<1>4. PendingInv'
  BY DEF TypeOK, Info, CoordinationInv, PendingInv, IsOperation, Registered, Start, Recover,
       LeftInFlight
<1>5. HolderInv'
  <2>1. \A h \in Gates : mode[h] = "down"
    BY DEF CoordinationInv, LockInv, Start, Recover
  <2>2. \A b \in Attempts : ~Holds(b)
    <3> SUFFICES ASSUME NEW b \in Attempts PROVE ~Holds(b)
      OBVIOUS
    <3>1. ~Deciding(b) /\ fate[b] \notin {"taken", "abandoned"}
      BY <2>1 DEF CoordinationInv, AttemptInv, Deciding, Running
    <3>2. pc[b] = "decided" => ~Registered(b)
      BY <2>1 DEF CoordinationInv, AttemptInv, PendingInv, Registered
    <3> QED
      BY <3>1, <3>2 DEF Holds, Deciding
  <2>3. \A b \in Attempts : Holds(b)' <=> Holds(b)
    BY DEF Start, Holds, Registered
  <2> QED
    BY <2>2, <2>3 DEF HolderInv
<1>6. EffectInv'
  BY DEF TypeOK, StoreTypeOK, Row, Info, CoordinationInv, EffectInv, OfOp, MayAct, Applied,
       Start, Recover, LeftInFlight
<1> QED
  BY <1>1, <1>2, <1>3, <1>4, <1>5, <1>6 DEF CoordinationInv

\* A gate that does not start gives the lock back.
LEMMA StartFailsKeeps ==
  ASSUME ~Forcing, ~Linger, TypeOK, TypeOK', CoordinationInv, NEW g \in Gates, StartFails(g)
  PROVE  CoordinationInv'
<1>1. MutexInv' /\ ReplyInv' /\ HolderInv' /\ EffectInv'
  BY DEF CoordinationInv, MutexInv, Deciding, InUse, ReplyInv, HolderInv, Holds, MayAct,
       Registered, EffectInv, OfOp, Applied, StartFails
<1>2. LockInv'
  BY DEF TypeOK, CoordinationInv, LockInv, StartFails, ReleaseGate
<1>3. AttemptInv'
  BY DEF TypeOK, Info, CoordinationInv, AttemptInv, Deciding, IsOperation, Running, Registered,
       NoInfo, StartFails, ReleaseGate
<1>4. PendingInv'
  BY DEF TypeOK, Info, CoordinationInv, PendingInv, IsOperation, Registered, StartFails,
       ReleaseGate
<1> QED
  BY <1>1, <1>2, <1>3, <1>4 DEF CoordinationInv

\* A gate that serves holds the lock.
LEMMA ServeKeeps ==
  ASSUME ~Forcing, ~Linger, TypeOK, TypeOK', CoordinationInv, NEW g \in Gates, Serve(g)
  PROVE  CoordinationInv'
<1>1. MutexInv' /\ ReplyInv' /\ HolderInv' /\ EffectInv'
  BY DEF CoordinationInv, MutexInv, Deciding, InUse, ReplyInv, HolderInv, Holds, MayAct,
       Registered, EffectInv, OfOp, Applied, Serve
<1>2. LockInv'
  BY DEF TypeOK, CoordinationInv, LockInv, Serve
<1>3. AttemptInv'
  BY DEF TypeOK, Info, CoordinationInv, AttemptInv, Deciding, IsOperation, Running, Registered,
       NoInfo, Serve
<1>4. PendingInv'
  BY DEF TypeOK, Info, CoordinationInv, PendingInv, IsOperation, Registered, Serve
<1> QED
  BY <1>1, <1>2, <1>3, <1>4 DEF CoordinationInv

\* The exit sweep: what was waited for is now to be abandoned.
LEMMA FinishKeeps ==
  ASSUME ~Forcing, ~Linger, TypeOK, TypeOK', CoordinationInv, NEW g \in Gates, Finish(g)
  PROVE  CoordinationInv'
<1>1. LockInv'
  BY DEF TypeOK, CoordinationInv, LockInv, Finish, NobodyPending
<1>2. AttemptInv'
  BY DEF TypeOK, Info, CoordinationInv, AttemptInv, PendingInv, Deciding, IsOperation, Running,
       Registered, NoInfo, Finish, NobodyPending
<1>3. MutexInv'
  BY DEF TypeOK, Info, CoordinationInv, MutexInv, AttemptInv, Deciding, InUse, IsOperation,
       Running, Registered, NoInfo, Finish, NobodyPending
<1>4. PendingInv'
  BY DEF TypeOK, Info, CoordinationInv, PendingInv, AttemptInv, IsOperation, Registered,
       Deciding, Running, NoInfo, Finish, NobodyPending
<1>5. ReplyInv'
  BY DEF TypeOK, Info, CoordinationInv, ReplyInv, PendingInv, IsOperation, Registered, Finish,
       NobodyPending
<1>6. HolderInv'
  BY DEF TypeOK, StoreTypeOK, Row, Info, CoordinationInv, HolderInv, AttemptInv, PendingInv,
       Holds, MayAct, Registered, Deciding, IsOperation, Running, NoInfo, Finish, NobodyPending
<1>7. EffectInv'
  BY DEF TypeOK, StoreTypeOK, Row, Info, CoordinationInv, EffectInv, OfOp, MayAct, Applied,
       Finish, NobodyPending
<1> QED
  BY <1>1, <1>2, <1>3, <1>4, <1>5, <1>6, <1>7 DEF CoordinationInv

\* The end of a process: nobody is left who holds or decides on its behalf.
LEMMA DiesKeeps ==
  ASSUME ~Forcing, ~Linger, TypeOK, TypeOK', CoordinationInv,
         NEW g \in Gates, mode[g] # "down", Dies(g)
  PROVE  CoordinationInv'
<1>1. LockInv'
  BY DEF TypeOK, CoordinationInv, LockInv, Dies, ReleaseGate, NobodyPending, NothingOutstanding
<1>2. AttemptInv'
  BY DEF TypeOK, Info, CoordinationInv, AttemptInv, Deciding, IsOperation, Running, Registered,
       NoInfo, Dies, ReleaseGate, NobodyPending, NothingOutstanding
<1>3. MutexInv'
  BY DEF TypeOK, Info, CoordinationInv, MutexInv, AttemptInv, Deciding, InUse, IsOperation,
       Running, Registered, NoInfo, Dies, ReleaseGate, NobodyPending, NothingOutstanding
<1>4. PendingInv'
  BY DEF TypeOK, Info, CoordinationInv, PendingInv, IsOperation, Registered, Dies, ReleaseGate,
       NobodyPending, NothingOutstanding
<1>5. ReplyInv'
  BY DEF TypeOK, CoordinationInv, ReplyInv, Dies, ReleaseGate, NobodyPending, NothingOutstanding
<1>6. HolderInv'
  BY DEF TypeOK, StoreTypeOK, Row, Info, CoordinationInv, HolderInv, AttemptInv, Holds, MayAct,
       Registered, Deciding, IsOperation, Running, NoInfo, Dies, ReleaseGate, NobodyPending,
       NothingOutstanding
<1>7. EffectInv'
  BY DEF TypeOK, StoreTypeOK, Row, Info, CoordinationInv, EffectInv, OfOp, MayAct, Applied,
       Dies, ReleaseGate, NobodyPending, NothingOutstanding
<1> QED
  BY <1>1, <1>2, <1>3, <1>4, <1>5, <1>6, <1>7 DEF CoordinationInv

\* A request without side effect is outstanding under an id of its own.
LEMMA ForwardPlainKeeps ==
  ASSUME ~Forcing, ~Linger, TypeOK, TypeOK', CoordinationInv,
         NEW g \in Gates, NEW a \in Attempts, NEW r \in Requests, ForwardPlain(g, a, r)
  PROVE  CoordinationInv'
<1>1. LockInv'
  BY DEF CoordinationInv, LockInv, ForwardPlain
<1>2. AttemptInv'
  BY DEF TypeOK, Info, CoordinationInv, AttemptInv, Deciding, IsOperation, Running, Registered,
       NoInfo, ForwardPlain, Arrives, Goto, Closed, Accepting, Of
<1>3. MutexInv'
  BY DEF TypeOK, Info, CoordinationInv, MutexInv, AttemptInv, Deciding, InUse, IsOperation,
       Running, Registered, NoInfo, ForwardPlain, Arrives, Goto, Closed, Accepting, Of
<1>4. PendingInv'
  BY DEF TypeOK, Info, CoordinationInv, PendingInv, IsOperation, Registered, ForwardPlain,
       Arrives, Goto, Closed, Accepting, Of
<1>5. ReplyInv'
  BY DEF TypeOK, Info, CoordinationInv, ReplyInv, AttemptInv, Deciding, IsOperation, Running,
       Registered, NoInfo, ForwardPlain, Arrives, Goto, Closed, Accepting, Of
<1>6. HolderInv'
  BY DEF TypeOK, StoreTypeOK, Row, Info, CoordinationInv, HolderInv, AttemptInv, PendingInv,
       Holds, MayAct, Registered, Deciding, IsOperation, Running, NoInfo, ForwardPlain, Arrives,
       Goto, Closed, Accepting, Of
<1>7. EffectInv'
  BY DEF TypeOK, StoreTypeOK, Row, Info, CoordinationInv, EffectInv, AttemptInv, OfOp, MayAct,
       Applied, Deciding, IsOperation, Running, Registered, NoInfo, ForwardPlain, Arrives, Goto,
       Closed, Accepting, Of
<1> QED
  BY <1>1, <1>2, <1>3, <1>4, <1>5, <1>6, <1>7 DEF CoordinationInv

\* A side-effecting call is checked under a free request id.
LEMMA CheckCallKeeps ==
  ASSUME ~Forcing, ~Linger, TypeOK, TypeOK', CoordinationInv,
         NEW g \in Gates, NEW a \in Attempts, NEW r \in Requests, NEW o \in Operations, NEW c \in Calls, CheckCall(g, a, r, o, c)
  PROVE  CoordinationInv'
<1>1. LockInv' /\ ReplyInv'
  BY DEF CoordinationInv, LockInv, ReplyInv, CheckCall
<1>2. AttemptInv'
  BY DEF TypeOK, Info, CoordinationInv, AttemptInv, Deciding, IsOperation, Running, Registered,
       NoInfo, CheckCall, Arrives, Goto, Closed, Accepting, Of, InUse
<1>3. MutexInv'
  BY DEF TypeOK, Info, CoordinationInv, MutexInv, Deciding, InUse, CheckCall, Arrives, Goto,
       Closed, Accepting, Of
<1>4. PendingInv'
  BY DEF TypeOK, Info, CoordinationInv, PendingInv, AttemptInv, IsOperation, Registered,
       Deciding, Running, NoInfo, CheckCall, Arrives, Goto, Closed, Accepting, Of, InUse
<1>5. HolderInv'
  BY DEF TypeOK, StoreTypeOK, Row, Info, CoordinationInv, HolderInv, AttemptInv, Holds, MayAct,
       Registered, Deciding, IsOperation, Running, NoInfo, CheckCall, Arrives, Goto, Closed,
       Accepting, Of, InUse
<1>6. EffectInv'
  BY DEF TypeOK, StoreTypeOK, Row, Info, CoordinationInv, EffectInv, AttemptInv, OfOp, MayAct,
       Applied, Deciding, IsOperation, Running, Registered, NoInfo, CheckCall, Arrives, Goto,
       Closed, Accepting, Of, InUse
<1> QED
  BY <1>1, <1>2, <1>3, <1>4, <1>5, <1>6 DEF CoordinationInv

\* begin makes the attempt the one holder of a row nobody may act for.
LEMMA BeginForwardKeeps ==
  ASSUME ~Forcing, ~Linger, TypeOK, TypeOK', CoordinationInv,
         NEW a \in Attempts, BeginForward(a)
  PROVE  CoordinationInv'
<1>1. LockInv' /\ ReplyInv'
  BY DEF CoordinationInv, LockInv, ReplyInv, BeginForward
<1>2. AttemptInv'
  BY DEF TypeOK, Info, CoordinationInv, AttemptInv, Deciding, IsOperation, Running, Registered,
       NoInfo, BeginForward, Begin, Runnable, Goto
<1>3. MutexInv'
  BY DEF TypeOK, Info, CoordinationInv, MutexInv, Deciding, InUse, BeginForward, Begin,
       Runnable, Goto
<1>4. PendingInv'
  BY DEF TypeOK, Info, CoordinationInv, PendingInv, IsOperation, Registered, BeginForward,
       Begin, Runnable, Goto
<1>5. HolderInv'
  <2> DEFINE o == info[a].op
  <2>1. o \in Operations /\ rows[o].state \in {"absent", "failed", "not_applied"}
    BY DEF CoordinationInv, AttemptInv, Deciding, IsOperation, BeginForward, Begin, Runnable
  <2>2. \A b \in Attempts : info[b].op = o => ~Holds(b) /\ ~MayAct(b)
    BY <2>1 DEF CoordinationInv, HolderInv, EffectInv, OfOp
  <2>3. \A b \in Attempts \ {a} : (Holds(b)' <=> Holds(b)) /\ (MayAct(b)' <=> MayAct(b))
    BY DEF TypeOK, BeginForward, Goto, Holds, MayAct, Registered
  <2>4. /\ rows'[o].state = "in_flight"
        /\ \A p \in Operations \ {o} : rows'[p] = rows[p]
    BY <2>1 DEF TypeOK, StoreTypeOK, BeginForward, Begin
  <2>5. \A b \in Attempts : Holds(b) => info[b].op \in Operations
    BY DEF CoordinationInv, AttemptInv, PendingInv, Holds, Deciding, IsOperation, Registered
  <2>6. info' = info
    BY DEF BeginForward
  <2> QED
    BY <2>1, <2>2, <2>3, <2>4, <2>5, <2>6 DEF CoordinationInv, HolderInv
<1>6. EffectInv'
  BY DEF TypeOK, StoreTypeOK, Row, Info, CoordinationInv, EffectInv, OfOp, MayAct, Applied,
       BeginForward, Begin, Runnable, Goto
<1> QED
  BY <1>1, <1>2, <1>3, <1>4, <1>5, <1>6 DEF CoordinationInv

\* A refused call leaves nothing behind.
LEMMA BeginRefusedKeeps ==
  ASSUME ~Forcing, ~Linger, TypeOK, TypeOK', CoordinationInv,
         NEW a \in Attempts, BeginRefused(a)
  PROVE  CoordinationInv'
<1>1. LockInv' /\ ReplyInv'
  BY DEF CoordinationInv, LockInv, ReplyInv, BeginRefused
<1>2. AttemptInv'
  BY DEF TypeOK, Info, CoordinationInv, AttemptInv, Deciding, IsOperation, Running, Registered,
       NoInfo, BeginRefused, Refuse, Goto
<1>3. MutexInv'
  BY DEF TypeOK, Info, CoordinationInv, MutexInv, Deciding, InUse, BeginRefused, Refuse, Goto
<1>4. PendingInv'
  BY DEF TypeOK, Info, CoordinationInv, PendingInv, AttemptInv, IsOperation, Registered,
       Deciding, Running, NoInfo, BeginRefused, Refuse, Goto
<1>5. HolderInv'
  BY DEF TypeOK, StoreTypeOK, Row, Info, CoordinationInv, HolderInv, AttemptInv, Holds, MayAct,
       Registered, Deciding, IsOperation, Running, NoInfo, BeginRefused, Refuse, Goto
<1>6. EffectInv'
  <2>1. UNCHANGED <<rows, up, fate>> /\ pc[a] = "checked" /\ up[a] = "none"
    BY DEF BeginRefused, CoordinationInv, AttemptInv
  <2>2. pc' = [pc EXCEPT ![a] = "idle"] /\ info' = [info EXCEPT ![a] = NoInfo]
    BY DEF BeginRefused, Refuse, Goto
  <2>3. \A b \in Attempts \ {a} : info'[b] = info[b] /\ pc'[b] = pc[b]
    BY <2>2 DEF TypeOK
  <2>4. ~MayAct(a)' /\ \A b \in Attempts \ {a} : MayAct(b)' <=> MayAct(b)
    BY <2>1, <2>2, <2>3 DEF TypeOK, MayAct
  <2>5. \A o \in Operations : Applied(o) => Applied(o)'
    BY <2>1, <2>3 DEF Applied, OfOp
  <2> QED
    BY <2>1, <2>3, <2>4, <2>5 DEF CoordinationInv, EffectInv, OfOp
<1> QED
  BY <1>1, <1>2, <1>3, <1>4, <1>5, <1>6 DEF CoordinationInv

\* A replay, or its refusal, leaves the row alone.
LEMMA ReplayKeeps ==
  ASSUME ~Forcing, ~Linger, TypeOK, TypeOK', CoordinationInv, NEW a \in Attempts, Replay(a)
  PROVE  CoordinationInv'
<1>1. LockInv' /\ ReplyInv'
  BY DEF CoordinationInv, LockInv, ReplyInv, Replay
<1>2. AttemptInv'
  BY DEF TypeOK, Info, CoordinationInv, AttemptInv, Deciding, IsOperation, Running, Registered,
       NoInfo, Replay, Refuse, Goto, Record, Tell
<1>3. MutexInv'
  BY SMTT(30) DEF TypeOK, Info, CoordinationInv, MutexInv, AttemptInv, Deciding, InUse, IsOperation,
       Running, Registered, NoInfo, Replay, Refuse, Goto, Record, Tell
<1>4. PendingInv'
  <2>1. UNCHANGED <<rows, mode, byRequest, outstanding, up, fate>>
    BY DEF Replay
  <2>2. \/ pc' = [pc EXCEPT ![a] = "decided"] /\ info' = info
        \/ pc' = [pc EXCEPT ![a] = "idle"] /\ info' = [info EXCEPT ![a] = NoInfo]
    BY DEF Replay, Refuse, Goto
  <2>3. pc[a] = "checked" /\ up[a] = "none" /\ fate[a] = "none"
    BY DEF CoordinationInv, AttemptInv, Replay
  <2>4. \A h \in Gates, q \in Requests : byRequest[h][q] # a
    BY <2>3 DEF CoordinationInv, PendingInv
  <2>5. \A b \in Attempts \ {a} : info'[b] = info[b] /\ pc'[b] = pc[b]
    BY <2>2 DEF TypeOK
  <2>6. \A h \in Gates, q \in Requests :
           byRequest[h][q] # NoAttempt => byRequest[h][q] \in Attempts \ {a}
    BY <2>4 DEF TypeOK
  <2>7. \A b \in Attempts \ {a} : (IsOperation(b)' <=> IsOperation(b)) /\ (Registered(b)' <=> Registered(b))
    BY <2>1, <2>5 DEF IsOperation, Registered
  <2> QED
    BY <2>1, <2>3, <2>5, <2>6, <2>7 DEF CoordinationInv, PendingInv
<1>5. HolderInv'
  BY DEF TypeOK, StoreTypeOK, Row, Info, CoordinationInv, HolderInv, AttemptInv, PendingInv,
       Holds, MayAct, Registered, Deciding, IsOperation, Running, NoInfo, Replay, Refuse, Goto,
       Record, Tell
<1>6. EffectInv'
  <2>1. UNCHANGED <<rows, mode, byRequest, outstanding, up, fate>>
    BY DEF Replay
  <2>2. \/ pc' = [pc EXCEPT ![a] = "decided"] /\ info' = info
        \/ pc' = [pc EXCEPT ![a] = "idle"] /\ info' = [info EXCEPT ![a] = NoInfo]
    BY DEF Replay, Refuse, Goto
  <2>3. pc[a] = "checked" /\ up[a] = "none" /\ fate[a] = "none"
    BY DEF CoordinationInv, AttemptInv, Replay
  <2>4. \A b \in Attempts \ {a} : info'[b] = info[b] /\ pc'[b] = pc[b]
    BY <2>2 DEF TypeOK
  <2>5. pc'[a] \in {"decided", "idle"}
    BY <2>2 DEF TypeOK
  <2>6. ~MayAct(a)' /\ \A b \in Attempts \ {a} : MayAct(b)' <=> MayAct(b)
    BY <2>1, <2>3, <2>4, <2>5 DEF MayAct
  <2>7. \A o \in Operations : Applied(o) => Applied(o)'
    BY <2>1, <2>3, <2>4 DEF Applied, OfOp
  <2> QED
    BY <2>1, <2>4, <2>6, <2>7 DEF CoordinationInv, EffectInv, OfOp
<1> QED
  BY <1>1, <1>2, <1>3, <1>4, <1>5, <1>6 DEF CoordinationInv

\* The call enters by_request under the id that was checked.
LEMMA RegisterKeeps ==
  ASSUME ~Forcing, ~Linger, TypeOK, TypeOK', CoordinationInv, NEW a \in Attempts, Register(a)
  PROVE  CoordinationInv'
<1>1. LockInv' /\ ReplyInv'
  BY DEF CoordinationInv, LockInv, ReplyInv, Register
<1>2. AttemptInv'
  BY DEF TypeOK, Info, CoordinationInv, AttemptInv, MutexInv, Deciding, IsOperation, Running,
       Registered, NoInfo, InUse, Register, Goto, Closed
<1>3. MutexInv'
  <2> DEFINE g == info[a].gate
             r == info[a].req
  <2>1. /\ g \in Gates /\ r \in Requests
        /\ pc[a] = "begun" /\ fate[a] = "none" /\ up[a] = "none" /\ IsOperation(a)
        /\ byRequest[g][r] = NoAttempt /\ outstanding[g][r] = {}
    BY DEF CoordinationInv, AttemptInv, MutexInv, InUse, Deciding, Register
  <2>2. UNCHANGED <<rows, mode, outstanding, info, up, fate>>
    BY DEF Register
  <2>3. CASE Closed(g)
    <3>1. pc' = [pc EXCEPT ![a] = "unsent"] /\ byRequest' = byRequest
      BY <2>3 DEF Register, Goto
    <3> QED
      BY <2>1, <2>2, <3>1 DEF TypeOK, CoordinationInv, MutexInv, Deciding, InUse
  <2>4. CASE ~Closed(g)
    <3>1. pc' = [pc EXCEPT ![a] = "registered"] /\ byRequest' = [byRequest EXCEPT ![g][r] = a]
      BY <2>4 DEF Register, Goto
    <3>2. mode[g] = "serving"
      BY <2>1, <2>4 DEF CoordinationInv, AttemptInv, Deciding, Running, Closed
    <3>3. \A h \in Gates, q \in Requests :
             byRequest'[h][q] = IF h = g /\ q = r THEN a ELSE byRequest[h][q]
      BY <2>1, <3>1 DEF TypeOK
    <3> QED
      <4>1. \A b \in Attempts : pc'[b] \in {"checked", "begun"} =>
               pc[b] = pc'[b] /\ b # a /\ info[b].gate # g
        BY <2>1, <3>1 DEF TypeOK, CoordinationInv, MutexInv, Deciding
      <4>2. \A b \in Attempts : Deciding(b)' => Deciding(b)
        BY <2>1, <3>1 DEF TypeOK, Deciding
      <4>3. \A b \in Attempts : pc'[b] \in {"checked", "begun"} => ~InUse(info[b].gate, info[b].req)'
        BY <2>2, <3>3, <4>1 DEF CoordinationInv, AttemptInv, MutexInv, InUse
      <4> QED
        BY <2>2, <4>2, <4>3 DEF CoordinationInv, MutexInv
  <2> QED
    BY <2>3, <2>4
<1>4. PendingInv'
  <2> DEFINE g == info[a].gate
             r == info[a].req
  <2>1. /\ g \in Gates /\ r \in Requests
        /\ pc[a] = "begun" /\ fate[a] = "none" /\ up[a] = "none" /\ IsOperation(a)
        /\ byRequest[g][r] = NoAttempt /\ outstanding[g][r] = {}
    BY DEF CoordinationInv, AttemptInv, MutexInv, InUse, Deciding, Register
  <2>2. UNCHANGED <<rows, mode, outstanding, info, up, fate>>
    BY DEF Register
  <2>3. CASE Closed(g)
    <3>1. pc' = [pc EXCEPT ![a] = "unsent"] /\ byRequest' = byRequest
      BY <2>3 DEF Register, Goto
    <3> QED
      BY <2>1, <2>2, <3>1 DEF TypeOK, CoordinationInv, AttemptInv, PendingInv, IsOperation, Registered
  <2>4. CASE ~Closed(g)
    <3>1. pc' = [pc EXCEPT ![a] = "registered"] /\ byRequest' = [byRequest EXCEPT ![g][r] = a]
      BY <2>4 DEF Register, Goto
    <3>2. mode[g] = "serving"
      BY <2>1, <2>4 DEF CoordinationInv, AttemptInv, Deciding, Running, Closed
    <3>3. \A h \in Gates, q \in Requests :
             byRequest'[h][q] = IF h = g /\ q = r THEN a ELSE byRequest[h][q]
      BY <2>1, <3>1 DEF TypeOK
    <3> QED
      BY <2>1, <2>2, <3>1, <3>2, <3>3, SMTT(30) DEF TypeOK, CoordinationInv, AttemptInv, PendingInv, IsOperation, Registered
  <2> QED
    BY <2>3, <2>4
<1>5. HolderInv'
  <2> DEFINE g == info[a].gate
             r == info[a].req
  <2>1. /\ g \in Gates /\ r \in Requests
        /\ pc[a] = "begun" /\ fate[a] = "none" /\ up[a] = "none" /\ IsOperation(a)
        /\ byRequest[g][r] = NoAttempt /\ outstanding[g][r] = {}
    BY DEF CoordinationInv, AttemptInv, MutexInv, InUse, Deciding, Register
  <2>2. UNCHANGED <<rows, mode, outstanding, info, up, fate>>
    BY DEF Register
  <2>3. CASE Closed(g)
    <3>1. pc' = [pc EXCEPT ![a] = "unsent"] /\ byRequest' = byRequest
      BY <2>3 DEF Register, Goto
    <3>2. \A b \in Attempts : (Holds(b)' => Holds(b)) /\ (MayAct(b)' => MayAct(b))
      BY <2>1, <2>2, <3>1 DEF TypeOK, Holds, MayAct, Registered
    <3> QED
      BY <2>2, <3>2, HolderFrame DEF CoordinationInv, HolderInv
  <2>4. CASE ~Closed(g)
    <3>1. pc' = [pc EXCEPT ![a] = "registered"] /\ byRequest' = [byRequest EXCEPT ![g][r] = a]
      BY <2>4 DEF Register, Goto
    <3>2. mode[g] = "serving"
      BY <2>1, <2>4 DEF CoordinationInv, AttemptInv, Deciding, Running, Closed
    <3>3. \A h \in Gates, q \in Requests :
             byRequest'[h][q] = IF h = g /\ q = r THEN a ELSE byRequest[h][q]
      BY <2>1, <3>1 DEF TypeOK
    <3>4. \A b \in Attempts : pc[b] # "idle" => info[b].gate \in Gates /\ info[b].req \in Requests
      BY DEF CoordinationInv, AttemptInv
    <3>5. \A b \in Attempts : (Holds(b)' => Holds(b)) /\ (MayAct(b)' => MayAct(b))
      BY <2>1, <2>2, <3>1, <3>3, <3>4 DEF TypeOK, Holds, MayAct, Registered
    <3> QED
      BY <2>2, <3>5, HolderFrame DEF CoordinationInv, HolderInv
  <2> QED
    BY <2>3, <2>4
<1>6. EffectInv'
  BY DEF TypeOK, StoreTypeOK, Row, Info, CoordinationInv, EffectInv, OfOp, MayAct, Applied,
       Register, Goto, Closed
<1> QED
  BY <1>1, <1>2, <1>3, <1>4, <1>5, <1>6 DEF CoordinationInv

\* A call that was not sent has no effect, and nobody else may act for its
\* operation: giving the row back as failed is safe.
LEMMA GiveBackEffect ==
  ASSUME TypeOK, CoordinationInv, NEW a \in Attempts, pc[a] \in {"unsent", "unstarted"}, GiveBack(a)
  PROVE  EffectInv'
<1> DEFINE o == info[a].op
<1>1. o \in Operations /\ Holds(a) /\ up[a] = "none"
  BY DEF CoordinationInv, AttemptInv, Deciding, IsOperation, Holds
<1>2. \A b \in Attempts \ {a} : info[b].op = o => ~MayAct(b)
  BY <1>1 DEF CoordinationInv, HolderInv
<1>3. /\ UNCHANGED <<up, fate>> /\ pc'[a] = "idle"
      /\ \A b \in Attempts \ {a} : info'[b] = info[b] /\ pc'[b] = pc[b]
  BY DEF TypeOK, GiveBack, Refuse, Goto
<1>4. ~MayAct(a)' /\ \A b \in Attempts \ {a} : MayAct(b)' <=> MayAct(b)
  BY <1>1, <1>3 DEF MayAct
<1>5. \A p \in Operations : Applied(p) => Applied(p)'
  BY <1>1, <1>3 DEF Applied, OfOp
<1>6. /\ \A p \in Operations \ {o} : rows'[p] = rows[p]
      /\ rows'[o] = rows[o] \/ rows'[o].state = "failed"
  BY <1>1 DEF TypeOK, StoreTypeOK, GiveBack, Settle
<1> QED
  BY <1>1, <1>2, <1>3, <1>4, <1>5, <1>6 DEF CoordinationInv, EffectInv, OfOp

\* The call was not sent: its row goes back to failed.
LEMMA ReleaseUnsentKeeps ==
  ASSUME ~Forcing, ~Linger, TypeOK, TypeOK', CoordinationInv,
         NEW a \in Attempts, ReleaseUnsent(a)
  PROVE  CoordinationInv'
<1>1. LockInv' /\ ReplyInv'
  BY DEF CoordinationInv, LockInv, ReplyInv, ReleaseUnsent, GiveBack
<1>2. AttemptInv'
  BY DEF TypeOK, Info, CoordinationInv, AttemptInv, Deciding, IsOperation, Running, Registered,
       NoInfo, ReleaseUnsent, GiveBack, Settle, Settles, Refuse, Goto
<1>3. MutexInv'
  BY DEF TypeOK, Info, CoordinationInv, MutexInv, Deciding, InUse, ReleaseUnsent, GiveBack,
       Settle, Settles, Refuse, Goto
<1>4. PendingInv'
  BY DEF TypeOK, Info, CoordinationInv, PendingInv, AttemptInv, IsOperation, Registered,
       Deciding, Running, NoInfo, ReleaseUnsent, GiveBack, Settle, Settles, Refuse, Goto
<1>5. HolderInv'
  BY DEF TypeOK, StoreTypeOK, Row, Info, CoordinationInv, HolderInv, AttemptInv, MutexInv,
       PendingInv, Holds, MayAct, Registered, Deciding, IsOperation, Running, NoInfo, InUse,
       ReleaseUnsent, GiveBack, Settle, Settles, Refuse, Goto
<1>6. EffectInv'
  BY GiveBackEffect DEF ReleaseUnsent
<1> QED
  BY <1>1, <1>2, <1>3, <1>4, <1>5, <1>6 DEF CoordinationInv

\* The recorded call is handed on.
LEMMA RecordForwardedKeeps ==
  ASSUME ~Forcing, ~Linger, TypeOK, TypeOK', CoordinationInv,
         NEW a \in Attempts, RecordForwarded(a)
  PROVE  CoordinationInv'
<1>1. LockInv'
  BY DEF CoordinationInv, LockInv, RecordForwarded
<1>2. AttemptInv'
  BY DEF TypeOK, Info, CoordinationInv, AttemptInv, Deciding, IsOperation, Running, Registered,
       NoInfo, RecordForwarded, Goto, Closed, Record
<1>3. MutexInv'
  BY DEF TypeOK, Info, CoordinationInv, MutexInv, Deciding, InUse, RecordForwarded, Goto,
       Closed, Record
<1>4. PendingInv'
  BY DEF TypeOK, Info, CoordinationInv, PendingInv, AttemptInv, IsOperation, Registered,
       Deciding, Running, NoInfo, RecordForwarded, Goto, Closed, Record
<1>5. ReplyInv'
  BY DEF TypeOK, Info, CoordinationInv, ReplyInv, AttemptInv, PendingInv, Deciding, IsOperation,
       Running, Registered, NoInfo, RecordForwarded, Goto, Closed, Record
<1>6. HolderInv'
  BY DEF TypeOK, StoreTypeOK, Row, Info, CoordinationInv, HolderInv, AttemptInv, Holds, MayAct,
       Registered, Deciding, IsOperation, Running, NoInfo, RecordForwarded, Goto, Closed, Record
<1>7. EffectInv'
  <2>1. UNCHANGED <<rows, info>> /\ up[a] = "none"
    BY DEF RecordForwarded, CoordinationInv, AttemptInv
  <2>2. MayAct(a)' => MayAct(a)
    BY DEF TypeOK, CoordinationInv, AttemptInv, RecordForwarded, Goto, Closed, MayAct
  <2>3. \A b \in Attempts \ {a} : up'[b] = up[b] /\ (MayAct(b)' => MayAct(b))
    BY DEF TypeOK, RecordForwarded, Goto, MayAct
  <2>4. \A o : Applied(o) => Applied(o)'
    BY <2>1, <2>3 DEF Applied, OfOp
  <2> QED
    BY <2>1, <2>2, <2>3, <2>4 DEF CoordinationInv, EffectInv, OfOp
<1> QED
  BY <1>1, <1>2, <1>3, <1>4, <1>5, <1>6, <1>7 DEF CoordinationInv

\* The unrecorded call is not.
LEMMA RecordFailsKeeps ==
  ASSUME ~Forcing, ~Linger, TypeOK, TypeOK', CoordinationInv,
         NEW a \in Attempts, RecordFails(a)
  PROVE  CoordinationInv'
<1>1. LockInv' /\ ReplyInv'
  BY DEF CoordinationInv, LockInv, ReplyInv, RecordFails
<1>2. AttemptInv'
  BY DEF TypeOK, Info, CoordinationInv, AttemptInv, Deciding, IsOperation, Running, Registered,
       NoInfo, RecordFails, Goto
<1>3. MutexInv'
  BY DEF TypeOK, Info, CoordinationInv, MutexInv, AttemptInv, Deciding, InUse, IsOperation,
       Running, Registered, NoInfo, RecordFails, Goto
<1>4. PendingInv'
  BY DEF TypeOK, Info, CoordinationInv, PendingInv, IsOperation, Registered, RecordFails, Goto
<1>5. HolderInv'
  BY DEF TypeOK, StoreTypeOK, Row, Info, CoordinationInv, HolderInv, Holds, MayAct, Registered,
       RecordFails, Goto
<1>6. EffectInv'
  BY DEF TypeOK, StoreTypeOK, Row, Info, CoordinationInv, EffectInv, OfOp, MayAct, Applied,
       RecordFails, Goto
<1> QED
  BY <1>1, <1>2, <1>3, <1>4, <1>5, <1>6 DEF CoordinationInv

\* unstart takes the call out of by_request, unless the exit sweep did.
LEMMA UnstartRemoveKeeps ==
  ASSUME ~Forcing, ~Linger, TypeOK, TypeOK', CoordinationInv,
         NEW a \in Attempts, UnstartRemove(a)
  PROVE  CoordinationInv'
<1>1. LockInv' /\ ReplyInv'
  BY DEF CoordinationInv, LockInv, ReplyInv, UnstartRemove
<1>2. AttemptInv'
  BY DEF TypeOK, Info, CoordinationInv, AttemptInv, PendingInv, Deciding, IsOperation, Running,
       Registered, NoInfo, UnstartRemove, Goto
<1>3. MutexInv'
  BY DEF TypeOK, Info, CoordinationInv, MutexInv, AttemptInv, Deciding, InUse, IsOperation,
       Running, Registered, NoInfo, UnstartRemove, Goto
<1>4. PendingInv'
  <2> DEFINE g == info[a].gate
             r == info[a].req
  <2>1. g \in Gates /\ r \in Requests /\ pc[a] = "unrecorded" /\ up[a] = "none"
    BY DEF CoordinationInv, AttemptInv, UnstartRemove
  <2>2. UNCHANGED <<rows, mode, outstanding, info, up, fate>>
    BY DEF UnstartRemove
  <2>3. CASE byRequest[g][r] = a
    <3>1. pc' = [pc EXCEPT ![a] = "unstarted"] /\ byRequest' = [byRequest EXCEPT ![g][r] = NoAttempt]
      BY <2>3 DEF UnstartRemove, Goto
    <3>2. \A h \in Gates, q \in Requests :
             byRequest'[h][q] = IF h = g /\ q = r THEN NoAttempt ELSE byRequest[h][q]
      BY <2>1, <3>1 DEF TypeOK
    <3> QED
      BY <2>1, <2>2, <2>3, <3>1, <3>2, SMTT(30)
      DEF TypeOK, CoordinationInv, AttemptInv, PendingInv, IsOperation, Registered
  <2>4. CASE byRequest[g][r] # a
    <3>1. pc' = [pc EXCEPT ![a] = "decided"] /\ byRequest' = byRequest
      BY <2>4 DEF UnstartRemove, Goto
    <3> QED
      BY <2>1, <2>2, <2>4, <3>1 DEF TypeOK, CoordinationInv, PendingInv, IsOperation, Registered
  <2> QED
    BY <2>3, <2>4
<1>5. HolderInv'
  <2> DEFINE g == info[a].gate
             r == info[a].req
  <2>1. g \in Gates /\ r \in Requests /\ pc[a] = "unrecorded" /\ up[a] = "none"
    BY DEF CoordinationInv, AttemptInv, UnstartRemove
  <2>2. UNCHANGED <<rows, mode, outstanding, info, up, fate>>
    BY DEF UnstartRemove
  <2>3. CASE byRequest[g][r] = a
    <3>1. pc' = [pc EXCEPT ![a] = "unstarted"] /\ byRequest' = [byRequest EXCEPT ![g][r] = NoAttempt]
      BY <2>3 DEF UnstartRemove, Goto
    <3>2. \A h \in Gates, q \in Requests :
             byRequest'[h][q] = IF h = g /\ q = r THEN NoAttempt ELSE byRequest[h][q]
      BY <2>1, <3>1 DEF TypeOK
    <3>3. \A b \in Attempts : pc[b] # "idle" => info[b].gate \in Gates /\ info[b].req \in Requests
      BY DEF CoordinationInv, AttemptInv
    <3>4. \A b \in Attempts : (Holds(b)' => Holds(b)) /\ (MayAct(b)' => MayAct(b))
      BY <2>1, <2>2, <2>3, <3>1, <3>2, <3>3 DEF TypeOK, Holds, MayAct, Registered
    <3> QED
      BY <2>2, <3>4, HolderFrame DEF CoordinationInv, HolderInv
  <2>4. CASE byRequest[g][r] # a
    <3>1. pc' = [pc EXCEPT ![a] = "decided"] /\ byRequest' = byRequest
      BY <2>4 DEF UnstartRemove, Goto
    <3>2. \A b \in Attempts : (Holds(b)' => Holds(b)) /\ (MayAct(b)' => MayAct(b))
      BY <2>1, <2>2, <2>4, <3>1 DEF TypeOK, Holds, MayAct, Registered
    <3> QED
      BY <2>2, <3>2, HolderFrame DEF CoordinationInv, HolderInv
  <2> QED
    BY <2>3, <2>4
<1>6. EffectInv'
  <2>1. UNCHANGED <<rows, info, up>>
    BY DEF UnstartRemove
  <2>2. \A b \in Attempts : MayAct(b)' => MayAct(b)
    BY DEF TypeOK, UnstartRemove, Goto, MayAct
  <2> QED
    BY <2>1, <2>2 DEF CoordinationInv, EffectInv, OfOp, Applied
<1> QED
  BY <1>1, <1>2, <1>3, <1>4, <1>5, <1>6 DEF CoordinationInv

\* The call was not sent: its row goes back to failed.
LEMMA UnstartSettleKeeps ==
  ASSUME ~Forcing, ~Linger, TypeOK, TypeOK', CoordinationInv,
         NEW a \in Attempts, UnstartSettle(a)
  PROVE  CoordinationInv'
<1>1. LockInv' /\ ReplyInv'
  BY DEF CoordinationInv, LockInv, ReplyInv, UnstartSettle, GiveBack
<1>2. AttemptInv'
  BY DEF TypeOK, Info, CoordinationInv, AttemptInv, Deciding, IsOperation, Running, Registered,
       NoInfo, UnstartSettle, GiveBack, Settle, Settles, Refuse, Goto
<1>3. MutexInv'
  BY DEF TypeOK, Info, CoordinationInv, MutexInv, Deciding, InUse, UnstartSettle, GiveBack,
       Settle, Settles, Refuse, Goto
<1>4. PendingInv'
  BY DEF TypeOK, Info, CoordinationInv, PendingInv, AttemptInv, IsOperation, Registered,
       Deciding, Running, NoInfo, UnstartSettle, GiveBack, Settle, Settles, Refuse, Goto
<1>5. HolderInv'
  BY DEF TypeOK, StoreTypeOK, Row, Info, CoordinationInv, HolderInv, AttemptInv, MutexInv,
       PendingInv, Holds, MayAct, Registered, Deciding, IsOperation, Running, NoInfo, InUse,
       UnstartSettle, GiveBack, Settle, Settles, Refuse, Goto
<1>6. EffectInv'
  BY GiveBackEffect DEF UnstartSettle
<1> QED
  BY <1>1, <1>2, <1>3, <1>4, <1>5, <1>6 DEF CoordinationInv

\* The tool gets the call.
LEMMA SendKeeps ==
  ASSUME ~Forcing, ~Linger, TypeOK, TypeOK', CoordinationInv, NEW a \in Attempts, Send(a)
  PROVE  CoordinationInv'
<1>1. LockInv' /\ MutexInv'
  BY DEF CoordinationInv, LockInv, MutexInv, Deciding, InUse, Send
<1>2. AttemptInv'
  BY DEF TypeOK, Info, CoordinationInv, AttemptInv, Deciding, IsOperation, Running, Registered,
       NoInfo, Send
<1>3. PendingInv'
  BY DEF TypeOK, Info, CoordinationInv, PendingInv, IsOperation, Registered, Send
<1>4. ReplyInv'
  BY DEF TypeOK, CoordinationInv, ReplyInv, Send
<1>5. HolderInv'
  BY DEF TypeOK, StoreTypeOK, Row, Info, CoordinationInv, HolderInv, AttemptInv, Holds, MayAct,
       Registered, Deciding, IsOperation, Running, NoInfo, Send
<1>6. EffectInv'
  BY DEF TypeOK, StoreTypeOK, Row, Info, CoordinationInv, EffectInv, OfOp, MayAct, Applied, Send
<1> QED
  BY <1>1, <1>2, <1>3, <1>4, <1>5, <1>6 DEF CoordinationInv

\* The tool acts, or refuses to.
LEMMA ExecuteKeeps ==
  ASSUME ~Forcing, ~Linger, TypeOK, TypeOK', CoordinationInv, NEW a \in Attempts, Execute(a)
  PROVE  CoordinationInv'
<1>1. LockInv' /\ MutexInv'
  BY DEF CoordinationInv, LockInv, MutexInv, Deciding, InUse, Execute
<1>2. AttemptInv'
  BY DEF TypeOK, Info, CoordinationInv, AttemptInv, Deciding, IsOperation, Running, Registered,
       NoInfo, Execute
<1>3. PendingInv'
  BY DEF TypeOK, Info, CoordinationInv, PendingInv, IsOperation, Registered, Execute
<1>4. ReplyInv'
  BY DEF TypeOK, CoordinationInv, ReplyInv, Execute
<1>5. HolderInv'
  <2>1. \A b \in Attempts : (Holds(b)' => Holds(b)) /\ (MayAct(b)' => MayAct(b))
    BY DEF TypeOK, Execute, Holds, MayAct, Registered
  <2>2. UNCHANGED <<rows, info>>
    BY DEF Execute
  <2> QED
    BY <2>1, <2>2, HolderFrame DEF CoordinationInv, HolderInv
<1>6. EffectInv'
  BY DEF TypeOK, StoreTypeOK, Row, Info, CoordinationInv, EffectInv, OfOp, MayAct, Applied,
       Execute
<1> QED
  BY <1>1, <1>2, <1>3, <1>4, <1>5, <1>6 DEF CoordinationInv

\* The reply of the one holder settles its row.
LEMMA SettleReplyKeeps ==
  ASSUME ~Forcing, ~Linger, TypeOK, TypeOK', CoordinationInv,
         NEW a \in Attempts, SettleReply(a)
  PROVE  CoordinationInv'
<1>1. LockInv' /\ MutexInv'
  BY DEF CoordinationInv, LockInv, MutexInv, Deciding, InUse, SettleReply
<1>2. AttemptInv'
  BY DEF TypeOK, Info, CoordinationInv, AttemptInv, Deciding, IsOperation, Running, Registered,
       NoInfo, SettleReply, Settle, Settles, Tell
<1>3. PendingInv'
  BY DEF TypeOK, Info, CoordinationInv, PendingInv, IsOperation, Registered, SettleReply,
       Settle, Settles, Tell
<1>4. ReplyInv'
  BY DEF TypeOK, CoordinationInv, ReplyInv, SettleReply, Settle, Settles, Tell
<1>5. HolderInv'
  <2> DEFINE o == info[a].op
  <2>1. o \in Operations /\ Holds(a)
    BY DEF CoordinationInv, AttemptInv, IsOperation, SettleReply, Holds
  <2>2. UNCHANGED <<byRequest, info, pc, up>>
    BY DEF SettleReply
  <2>3. \/ fate' = [fate EXCEPT ![a] = "settled"]
        \/ fate' = [fate EXCEPT ![a] = "over"]
    BY DEF SettleReply
  <2>4. \A p \in Operations \ {o} : rows'[p] = rows[p]
    BY DEF TypeOK, StoreTypeOK, SettleReply, Settle
  <2>5. ~Holds(a)'
    BY <2>2, <2>3, SMTT(30) DEF TypeOK, CoordinationInv, AttemptInv, PendingInv, SettleReply, Holds, Registered
  <2>6. \A b \in Attempts \ {a} : (Holds(b)' <=> Holds(b)) /\ (MayAct(b)' <=> MayAct(b))
    BY <2>2, <2>3 DEF TypeOK, Holds, MayAct, Registered
  <2>7. \A b \in Attempts : Holds(b) => info[b].op \in Operations
    BY DEF CoordinationInv, AttemptInv, PendingInv, Holds, Deciding, IsOperation, Registered
  <2> QED
    BY <2>1, <2>2, <2>4, <2>5, <2>6, <2>7 DEF CoordinationInv, HolderInv
<1>6. EffectInv'
  <2> DEFINE o == info[a].op
  <2>1. o \in Operations /\ Holds(a)
    BY DEF CoordinationInv, AttemptInv, IsOperation, SettleReply, Holds
  <2>2. UNCHANGED <<info, pc, up>>
    BY DEF SettleReply
  <2>3. \A p \in Operations \ {o} : rows'[p] = rows[p]
    BY DEF TypeOK, StoreTypeOK, SettleReply, Settle
  <2>4. \A b \in Attempts : MayAct(b)' => MayAct(b)
    BY <2>2 DEF TypeOK, MayAct, SettleReply
  <2>5. \A p : Applied(p)' <=> Applied(p)
    BY <2>2 DEF Applied, OfOp
  <2>6. \A b \in Attempts \ {a} : info[b].op = o => ~MayAct(b)
    BY <2>1 DEF CoordinationInv, HolderInv
  <2>7. CASE UNCHANGED rows
    BY <2>2, <2>4, <2>5, <2>7 DEF CoordinationInv, EffectInv, OfOp
  <2>8. CASE verdict[a] = "committed" /\ rows'[o].state = "done"
    <3>1. Applied(o)
      BY <2>8 DEF CoordinationInv, ReplyInv, SettleReply, Applied, OfOp
    <3> QED
      BY <2>2, <2>3, <2>4, <2>5, <2>8, <3>1 DEF CoordinationInv, EffectInv, OfOp
  <2>9. CASE verdict[a] # "committed" /\ rows'[o].state = "failed"
    <3>1. ~MayAct(a)
      BY <2>9 DEF CoordinationInv, ReplyInv, AttemptInv, SettleReply, MayAct
    <3> QED
      BY <2>2, <2>3, <2>4, <2>5, <2>6, <2>9, <3>1 DEF CoordinationInv, EffectInv, OfOp
  <2> QED
    BY <2>1, <2>7, <2>8, <2>9 DEF TypeOK, StoreTypeOK, SettleReply, Settle, Settles
<1> QED
  BY <1>1, <1>2, <1>3, <1>4, <1>5, <1>6 DEF CoordinationInv

\* The lost reply of the one holder makes its row unknown.
LEMMA AbandonKeeps ==
  ASSUME ~Forcing, ~Linger, TypeOK, TypeOK', CoordinationInv, NEW a \in Attempts, Abandon(a)
  PROVE  CoordinationInv'
<1>1. LockInv' /\ MutexInv'
  BY DEF CoordinationInv, LockInv, MutexInv, Deciding, InUse, Abandon
<1>2. AttemptInv'
  BY DEF TypeOK, Info, CoordinationInv, AttemptInv, Deciding, IsOperation, Running, Registered,
       NoInfo, Abandon, Settle, Settles, Tell
<1>3. PendingInv'
  BY DEF TypeOK, Info, CoordinationInv, PendingInv, IsOperation, Registered, Abandon, Settle,
       Settles, Tell
<1>4. ReplyInv'
  BY DEF TypeOK, CoordinationInv, ReplyInv, Abandon, Settle, Settles, Tell
<1>5. HolderInv'
  <2> DEFINE o == info[a].op
  <2>1. o \in Operations /\ Holds(a)
    BY DEF CoordinationInv, AttemptInv, IsOperation, Abandon, Holds
  <2>2. UNCHANGED <<byRequest, info, pc, up>>
    BY DEF Abandon
  <2>3. \/ fate' = [fate EXCEPT ![a] = "settled"]
        \/ fate' = [fate EXCEPT ![a] = "over"]
    BY DEF Abandon
  <2>4. \A p \in Operations \ {o} : rows'[p] = rows[p]
    BY DEF TypeOK, StoreTypeOK, Abandon, Settle
  <2>5. ~Holds(a)'
    BY <2>2, <2>3 DEF TypeOK, CoordinationInv, AttemptInv, PendingInv, Abandon, Holds, Registered
  <2>6. \A b \in Attempts \ {a} : (Holds(b)' <=> Holds(b)) /\ (MayAct(b)' <=> MayAct(b))
    BY <2>2, <2>3 DEF TypeOK, Holds, MayAct, Registered
  <2>7. \A b \in Attempts : Holds(b) => info[b].op \in Operations
    BY DEF CoordinationInv, AttemptInv, PendingInv, Holds, Deciding, IsOperation, Registered
  <2> QED
    BY <2>1, <2>2, <2>4, <2>5, <2>6, <2>7 DEF CoordinationInv, HolderInv
<1>6. EffectInv'
  BY DEF TypeOK, StoreTypeOK, Row, Info, CoordinationInv, EffectInv, AttemptInv, PendingInv,
       OfOp, MayAct, Applied, Deciding, IsOperation, Running, Registered, NoInfo, Abandon,
       Settle, Settles, Tell
<1> QED
  BY <1>1, <1>2, <1>3, <1>4, <1>5, <1>6 DEF CoordinationInv

\* The outcome of a settled call is recorded.
LEMMA RecordOutcomeKeeps ==
  ASSUME ~Forcing, ~Linger, TypeOK, TypeOK', CoordinationInv,
         NEW a \in Attempts, RecordOutcome(a)
  PROVE  CoordinationInv'
<1>1. LockInv' /\ MutexInv'
  BY DEF CoordinationInv, LockInv, MutexInv, Deciding, InUse, RecordOutcome
<1>2. AttemptInv'
  BY DEF TypeOK, Info, CoordinationInv, AttemptInv, Deciding, IsOperation, Running, Registered,
       NoInfo, RecordOutcome, Record, Tell
<1>3. PendingInv'
  BY DEF TypeOK, Info, CoordinationInv, PendingInv, IsOperation, Registered, RecordOutcome,
       Record, Tell
<1>4. ReplyInv'
  BY DEF TypeOK, CoordinationInv, ReplyInv, RecordOutcome, Record, Tell
<1>5. HolderInv'
  BY DEF TypeOK, StoreTypeOK, Row, Info, CoordinationInv, HolderInv, Holds, MayAct, Registered,
       RecordOutcome, Record, Tell
<1>6. EffectInv'
  BY DEF TypeOK, StoreTypeOK, Row, Info, CoordinationInv, EffectInv, OfOp, MayAct, Applied,
       RecordOutcome, Record, Tell
<1> QED
  BY <1>1, <1>2, <1>3, <1>4, <1>5, <1>6 DEF CoordinationInv

\* An unforced verdict finds a row nobody holds, and says what the tool did.
LEMMA ReconcileKeeps ==
  ASSUME ~Forcing, ~Linger, TypeOK, TypeOK', CoordinationInv,
         NEW o \in Operations, Reconcile(o)
  PROVE  CoordinationInv'
<1>1. LockInv' /\ AttemptInv' /\ MutexInv' /\ PendingInv' /\ ReplyInv'
  BY DEF CoordinationInv, LockInv, AttemptInv, Deciding, IsOperation, Running, Registered,
       NoInfo, MutexInv, InUse, PendingInv, ReplyInv, Reconcile
<1>2. HolderInv'
  <2>1. UNCHANGED <<byRequest, info, pc, up, fate>>
    BY DEF Reconcile
  <2>2. \A b \in Attempts : Holds(b) => info[b].op # o
    BY DEF CoordinationInv, HolderInv, Reconcile, Reconcilable
  <2>3. \A p \in Operations \ {o} : rows'[p] = rows[p]
    BY DEF TypeOK, StoreTypeOK, Reconcile, SetVerdict
  <2>4. \A b \in Attempts : (Holds(b)' <=> Holds(b)) /\ (MayAct(b)' <=> MayAct(b))
    BY <2>1 DEF Holds, MayAct, Registered
  <2>5. \A b \in Attempts : Holds(b) => info[b].op \in Operations
    BY DEF CoordinationInv, AttemptInv, PendingInv, Holds, Deciding, IsOperation, Registered
  <2> QED
    BY <2>1, <2>2, <2>3, <2>4, <2>5 DEF CoordinationInv, HolderInv
<1>3. EffectInv'
  BY DEF TypeOK, StoreTypeOK, Row, Info, CoordinationInv, EffectInv, AttemptInv, HolderInv,
       OfOp, MayAct, Applied, Deciding, IsOperation, Running, Registered, NoInfo, Holds,
       Reconcile, Reconcilable, SetVerdict, ReconcileEntry, Record, Final, Coming, Truth, Closed
<1> QED
  BY <1>1, <1>2, <1>3 DEF CoordinationInv

\* A reply, or a transport error, takes its request out of the gate's tables.
LEMMA TakeKeeps ==
  ASSUME TypeOK, TypeOK', CoordinationInv, NEW a \in Attempts,
         NEW n \in {"taken", "abandoned"}, NEW v, NEW w,
         Waiting(a), up[a] \in {"queued", "sent", "committed", "rejected"},
         TakeRequest(a, n, v, w),
         n = "taken" => \/ v = "committed" /\ up[a] = "committed"
                        \/ v = "failed" /\ up[a] = "rejected",
         up' = [up EXCEPT ![a] = IF @ = "queued" THEN "gone" ELSE @],
         UNCHANGED <<rows, gateLock, mode, info, pc>>
  PROVE  CoordinationInv'
<1> DEFINE g == info[a].gate
           r == info[a].req
<1>1. /\ g \in Gates /\ r \in Requests
      /\ pc[a] = "decided" /\ fate[a] = "none" /\ mode[g] = "serving"
  BY TakeCases DEF Waiting
<1>2. /\ up'[a] \notin {"none", "queued"}
      /\ up[a] \in {"sent", "committed", "rejected"} => up'[a] = up[a]
      /\ up[a] = "queued" => up'[a] = "gone"
      /\ \A b \in Attempts \ {a} : up'[b] = up[b]
  BY DEF TypeOK
<1>3. LockInv'
  BY DEF CoordinationInv, LockInv
<1>4. \A b \in Attempts : pc[b] # "idle" => info[b].gate \in Gates /\ info[b].req \in Requests
  BY DEF CoordinationInv, AttemptInv
<1>5. CASE IsOperation(a)
  <2>1. /\ byRequest[g][r] = a
        /\ byRequest' = [byRequest EXCEPT ![g][r] = NoAttempt]
        /\ fate' = [fate EXCEPT ![a] = n]
        /\ verdict' = [verdict EXCEPT ![a] = v]
        /\ outstanding' = outstanding
    BY <1>5, TakeCases DEF Registered
  <2>2. \A h \in Gates, q \in Requests :
           byRequest'[h][q] = IF h = g /\ q = r THEN NoAttempt ELSE byRequest[h][q]
    BY <1>1, <2>1 DEF TypeOK
  <2>3. \A b \in Attempts \ {a} : fate'[b] = fate[b] /\ verdict'[b] = verdict[b]
    BY <2>1 DEF TypeOK
  <2>4. fate'[a] = n /\ verdict'[a] = v
    BY <2>1 DEF TypeOK
  <2>5. \A b \in Attempts \ {a} : pc[b] # "idle" => (Registered(b)' <=> Registered(b))
    BY <1>4, <2>1, <2>2 DEF Registered
  <2>6. AttemptInv'
    BY <1>1, <1>2, <1>5, <2>3, <2>4, <2>5
    DEF CoordinationInv, AttemptInv, Deciding, IsOperation, Running
  <2>7. MutexInv'
    BY <1>4, <2>1, <2>2 DEF CoordinationInv, MutexInv, Deciding, InUse
  <2>8. PendingInv'
    <3>1. \A h \in Gates, q \in Requests :
             byRequest'[h][q] # NoAttempt => byRequest'[h][q] = byRequest[h][q] /\ byRequest[h][q] # a
      BY <1>1, <2>2 DEF CoordinationInv, PendingInv
    <3>2. \A h \in Gates, q \in Requests : byRequest[h][q] \in Attempts \cup {NoAttempt}
      BY DEF TypeOK
    <3>3. \A b \in Attempts : up'[b] # "none" /\ fate'[b] = "none" =>
                                 b # a /\ up[b] # "none" /\ fate[b] = "none" /\ pc[b] # "idle"
      BY <1>2, <2>3, <2>4 DEF CoordinationInv, AttemptInv
    <3> QED
      BY <2>1, <2>3, <2>5, <3>1, <3>2, <3>3, SMTT(30) DEF CoordinationInv, PendingInv, IsOperation
  <2>9. ReplyInv'
    BY <1>2, <2>3, <2>4 DEF CoordinationInv, ReplyInv
  <2>10. \A b \in Attempts : (Holds(b)' => Holds(b)) /\ (MayAct(b)' => MayAct(b))
    <3>1. Holds(a) /\ (MayAct(a)' => MayAct(a))
      BY <1>1, <1>2, <2>1 DEF Holds, MayAct, Registered
    <3>2. \A b \in Attempts \ {a} : (Holds(b)' => Holds(b)) /\ (MayAct(b)' => MayAct(b))
      BY <1>2, <2>3, <2>5 DEF Holds, MayAct
    <3> QED
      BY <3>1, <3>2
  <2>11. HolderInv'
    BY <2>10, HolderFrame DEF CoordinationInv, HolderInv
  <2>12. EffectInv'
    <3>1. \A o : Applied(o) => Applied(o)'
      BY <1>2 DEF Applied, OfOp
    <3> QED
      BY <2>10, <3>1 DEF CoordinationInv, EffectInv, OfOp
  <2> QED
    BY <1>3, <2>6, <2>7, <2>8, <2>9, <2>11, <2>12 DEF CoordinationInv
<1>6. CASE ~IsOperation(a)
  <2>1. /\ outstanding' = [outstanding EXCEPT ![g][r] = @ \ {a}]
        /\ fate' = [fate EXCEPT ![a] = "over"]
        /\ UNCHANGED <<byRequest, verdict>>
    BY <1>6, TakeCases
  <2>2. \A h \in Gates, q \in Requests :
           outstanding'[h][q] = IF h = g /\ q = r THEN outstanding[h][q] \ {a} ELSE outstanding[h][q]
    BY <1>1, <2>1 DEF TypeOK
  <2>3. fate'[a] = "over" /\ \A b \in Attempts \ {a} : fate'[b] = fate[b]
    BY <2>1 DEF TypeOK
  <2>4. \A b \in Attempts : Registered(b)' <=> Registered(b)
    BY <2>1 DEF Registered
  <2>5. AttemptInv'
    BY <1>1, <1>2, <2>3, <2>4 DEF CoordinationInv, AttemptInv, Deciding, IsOperation, Running
  <2>6. MutexInv'
    BY <1>4, <2>1, <2>2 DEF CoordinationInv, MutexInv, Deciding, InUse
  <2>7. PendingInv'
    <3>1. \A h \in Gates, q \in Requests : byRequest[h][q] # a
      BY <1>6 DEF CoordinationInv, PendingInv
    <3>4. \A h \in Gates, q \in Requests : outstanding[h][q] = {} => outstanding'[h][q] = {}
      BY <2>2
    <3>2. \A h \in Gates, q \in Requests : byRequest[h][q] \in Attempts \cup {NoAttempt}
      BY DEF TypeOK
    <3>3. \A b \in Attempts : up'[b] # "none" /\ fate'[b] = "none" =>
                                 b # a /\ up[b] # "none" /\ fate[b] = "none" /\ pc[b] # "idle"
      BY <1>2, <2>3 DEF CoordinationInv, AttemptInv
    <3> QED
      BY <1>4, <2>1, <2>2, <2>3, <2>4, <3>1, <3>2, <3>3, <3>4 DEF CoordinationInv, PendingInv, IsOperation
  <2>8. ReplyInv'
    BY <1>2, <2>1, <2>3 DEF CoordinationInv, ReplyInv
  <2>9. \A b \in Attempts : (Holds(b)' => Holds(b)) /\ (MayAct(b)' => MayAct(b))
    BY <1>1, <1>2, <2>3, <2>4 DEF Holds, MayAct
  <2>10. HolderInv'
    BY <2>9, HolderFrame DEF CoordinationInv, HolderInv
  <2>11. EffectInv'
    <3>1. \A o : Applied(o) => Applied(o)'
      BY <1>2 DEF Applied, OfOp
    <3> QED
      BY <2>9, <3>1 DEF CoordinationInv, EffectInv, OfOp
  <2> QED
    BY <1>3, <2>5, <2>6, <2>7, <2>8, <2>10, <2>11 DEF CoordinationInv
<1> QED
  BY <1>5, <1>6

\* A reply is taken with the outcome the tool had.
LEMMA ReplyKeeps ==
  ASSUME TypeOK, TypeOK', CoordinationInv, NEW a \in Attempts, Reply(a)
  PROVE  CoordinationInv'
<1>1. Waiting(a) /\ UNCHANGED <<rows, gateLock, mode, info, pc, up>>
  BY DEF Reply
<1>2. up[a] # "queued" => up' = [up EXCEPT ![a] = IF @ = "queued" THEN "gone" ELSE @]
  BY <1>1 DEF TypeOK
<1>3. CASE up[a] = "committed" /\ TakeRequest(a, "taken", "committed", "result")
  BY <1>1, <1>2, <1>3, TakeKeeps
<1>4. CASE up[a] = "rejected" /\ TakeRequest(a, "taken", "failed", "error")
  BY <1>1, <1>2, <1>4, TakeKeeps
<1> QED
  BY <1>3, <1>4 DEF Reply

\* A transport error is taken as an unknown outcome.
LEMMA OnUpstreamErrorKeeps ==
  ASSUME TypeOK, TypeOK', CoordinationInv, NEW a \in Attempts, OnUpstreamError(a)
  PROVE  CoordinationInv'
  BY TakeKeeps DEF OnUpstreamError

-----------------------------------------------------------------------------
\* The initial state: nobody runs, holds or acted.
LEMMA CoordinationInit == Init => CoordinationInv
  BY DEF Init, StoreInit, NobodyPending, NothingOutstanding, NoInfo, NoRow, CoordinationInv,
         LockInv, AttemptInv, MutexInv, PendingInv, ReplyInv, HolderInv, EffectInv, Deciding,
         IsOperation, Registered, InUse, Holds, MayAct, OfOp, Applied

\* Every step keeps the invariant.
LEMMA CoordinationNext ==
  ASSUME ~Forcing, ~Linger
  PROVE  TypeOK /\ CoordinationInv /\ [Next]_vars => CoordinationInv'
<1> SUFFICES ASSUME TypeOK, CoordinationInv, [Next]_vars PROVE CoordinationInv'
  OBVIOUS
<1>0. TypeOK'
  BY TypeNext
<1>1. ASSUME NEW g \in Gates, GateStep(g) PROVE CoordinationInv'
  <2>1. CASE Start(g)
    BY <1>0, <2>1, StartKeeps
  <2>2. CASE StartFails(g)
    BY <1>0, <2>2, StartFailsKeeps
  <2>3. CASE Serve(g)
    BY <1>0, <2>3, ServeKeeps
  <2>4. CASE \E o \in Operations : RecordRecovered(g, o)
    BY <2>4, CoordinationFrame DEF RecordRecovered, coordVars
  <2>5. CASE Finish(g)
    BY <1>0, <2>5, FinishKeeps
  <2>6. CASE mode[g] # "down" /\ Dies(g)
    BY <1>0, <2>6, DiesKeeps
  <2>7. Release(g) \/ Exit(g) \/ Crash(g) => mode[g] # "down" /\ Dies(g)
    BY DEF Release, Exit, Crash
  <2> QED
    BY <1>1, <2>1, <2>2, <2>3, <2>4, <2>5, <2>6, <2>7 DEF GateStep
<1>2. ASSUME NEW g \in Gates, NEW a \in Attempts, AgentStep(g, a) PROVE CoordinationInv'
  BY <1>0, <1>2, ForwardPlainKeeps, CheckCallKeeps DEF AgentStep
<1>3. ASSUME NEW a \in Attempts, DecideStep(a) PROVE CoordinationInv'
  BY <1>0, <1>3, BeginForwardKeeps, BeginRefusedKeeps, ReplayKeeps, RegisterKeeps,
     ReleaseUnsentKeeps, RecordForwardedKeeps, RecordFailsKeeps, UnstartRemoveKeeps,
     UnstartSettleKeeps DEF DecideStep
<1>4. ASSUME NEW a \in Attempts, ToolStep(a) PROVE CoordinationInv'
  BY <1>0, <1>4, SendKeeps, ExecuteKeeps DEF ToolStep
<1>5. ASSUME NEW a \in Attempts, ReplyStep(a) PROVE CoordinationInv'
  BY <1>0, <1>5, ReplyKeeps, OnUpstreamErrorKeeps, SettleReplyKeeps, AbandonKeeps,
     RecordOutcomeKeeps DEF ReplyStep
<1>6. ASSUME NEW o \in Operations, OperatorStep(o) PROVE CoordinationInv'
  <2>1. CASE Reconcile(o)
    BY <1>0, <2>1, ReconcileKeeps
  <2>2. CASE ReconcileLost(o)
    BY <2>2, CoordinationFrame DEF ReconcileLost, coordVars
  <2> QED
    BY <1>6, <2>1, <2>2 DEF OperatorStep
<1>7. CASE UNCHANGED vars
  BY <1>7, CoordinationFrame DEF vars, coordVars
<1> QED
  BY <1>1, <1>2, <1>3, <1>4, <1>5, <1>6, <1>7 DEF Next

\* With operators who never force and gates that exit with their lock, the
\* coordination invariant holds in every reachable state.
THEOREM Coordination ==
  ASSUME ~Forcing, ~Linger
  PROVE  Spec => [](TypeOK /\ CoordinationInv)
<1>1. Init => TypeOK /\ CoordinationInv
  BY TypeInit, CoordinationInit
<1>2. TypeOK /\ CoordinationInv /\ [Next]_vars => (TypeOK /\ CoordinationInv)'
  BY TypeNext, CoordinationNext
<1> QED
  BY <1>1, <1>2, PTL DEF Spec

\* The tool acts at most once for an operation, however many gates, agents,
\* retries, crashes, lost replies and verdicts there are.
THEOREM EffectAtMostOnce ==
  ASSUME ~Forcing, ~Linger
  PROVE  Spec => []AtMostOneEffect
<1>1. TypeOK /\ CoordinationInv => AtMostOneEffect
  BY DEF CoordinationInv, EffectInv, AtMostOneEffect, OfOp, MayAct, IsOperation
<1> QED
  BY <1>1, Coordination, PTL

\* A row that begin would run again stands for an operation whose effect did
\* not happen and will not.
THEOREM RetryIsSafe ==
  ASSUME ~Forcing, ~Linger
  PROVE  Spec => []RetryableNotApplied
<1>1. TypeOK /\ CoordinationInv => RetryableNotApplied
  BY DEF CoordinationInv, EffectInv, RetryableNotApplied, OfOp, MayAct
<1> QED
  BY <1>1, Coordination, PTL

\* A row that answers retries stands for an effect that did happen.
THEOREM ReplayIsSafe ==
  ASSUME ~Forcing, ~Linger
  PROVE  Spec => []DoneIsApplied
<1>1. TypeOK /\ CoordinationInv => DoneIsApplied
  BY DEF CoordinationInv, EffectInv, DoneIsApplied
<1> QED
  BY <1>1, Coordination, PTL

\* No gate's start-up sweep demotes a call another gate waits for.
THEOREM SweepIsSafe ==
  ASSUME ~Forcing, ~Linger
  PROVE  Spec => []LiveNotDemoted
<1>1. TypeOK /\ CoordinationInv => LiveNotDemoted
  <2> SUFFICES ASSUME TypeOK, CoordinationInv, NEW g \in Gates, NEW r \in Requests,
                      byRequest[g][r] # NoAttempt
               PROVE  /\ rows[info[byRequest[g][r]].op].state = "in_flight"
                      /\ gateLock = g
    BY DEF LiveNotDemoted
  <2> DEFINE a == byRequest[g][r]
  <2>1. a \in Attempts
    BY DEF TypeOK
  <2>2. Holds(a) /\ mode[g] = "serving"
    BY <2>1 DEF CoordinationInv, PendingInv, Holds, Registered
  <2> QED
    BY <2>1, <2>2 DEF CoordinationInv, HolderInv, LockInv
<1> QED
  BY <1>1, Coordination, PTL

\* A completed operation is never run, demoted or rewritten again: this one
\* needs no assumption on operators or processes.
THEOREM DoneStays == Spec => DoneIsFinal
<1>1. TypeOK /\ [Next]_vars =>
         [\A o \in Operations : rows[o].state = "done" => rows'[o] = rows[o]]_vars
  <2> SUFFICES ASSUME TypeOK, [Next]_vars, NEW o \in Operations, rows[o].state = "done"
               PROVE  rows'[o] = rows[o]
    OBVIOUS
  <2> rows \in [Operations -> Row]
    BY DEF TypeOK, StoreTypeOK
  <2>1. ASSUME NEW p, NEW s, NEW x, NEW m, Settle(p, s, x, m) PROVE rows'[o] = rows[o]
    BY <2>1 DEF Settle, Settles
  <2>2. ASSUME NEW p, NEW c, Begin(p, c) PROVE rows'[o] = rows[o]
    BY <2>2 DEF Begin, Runnable
  <2>3. ASSUME NEW g, Recover(g) PROVE rows'[o] = rows[o]
    BY <2>3 DEF Recover, LeftInFlight
  <2>4. ASSUME NEW p \in Operations, NEW s, Reconcilable(p, Forcing), SetVerdict(p, s)
        PROVE  rows'[o] = rows[o]
    BY <2>4 DEF Reconcilable, SetVerdict
  <2>5. ASSUME NEW g \in Gates, GateStep(g) PROVE rows'[o] = rows[o]
    BY <2>3, <2>5 DEF GateStep, Start, StartFails, Serve, RecordRecovered, Finish, Release, Exit,
                      Crash, Dies
  <2>6. ASSUME NEW g \in Gates, NEW a \in Attempts, AgentStep(g, a) PROVE rows'[o] = rows[o]
    BY <2>6 DEF AgentStep, ForwardPlain, CheckCall
  <2>7. ASSUME NEW a \in Attempts, DecideStep(a) PROVE rows'[o] = rows[o]
    BY <2>1, <2>2, <2>7 DEF DecideStep, BeginForward, BeginRefused, Replay, Register, ReleaseUnsent,
       RecordForwarded, RecordFails, UnstartRemove, UnstartSettle, GiveBack
  <2>8. ASSUME NEW a \in Attempts, ToolStep(a) \/ ReplyStep(a) PROVE rows'[o] = rows[o]
    BY <2>1, <2>8 DEF ToolStep, Send, Execute, ReplyStep, Reply, OnUpstreamError, SettleReply,
       Abandon, RecordOutcome
  <2>9. ASSUME NEW p \in Operations, OperatorStep(p) PROVE rows'[o] = rows[o]
    BY <2>4, <2>9 DEF OperatorStep, Reconcile, ReconcileLost
  <2>10. CASE UNCHANGED vars
    BY <2>10 DEF vars
  <2> QED
    BY <2>5, <2>6, <2>7, <2>8, <2>9, <2>10 DEF Next
<1> QED
  BY <1>1, TypeCorrect, PTL DEF Spec, DoneIsFinal

-----------------------------------------------------------------------------
(* The refinement mapping. *)

\* The attempts that acted are the same when nobody's act, or operation,
\* changes.
LEMMA ActedFrame ==
  ASSUME \A b \in Attempts :
            \/ info'[b].op = info[b].op /\ (up'[b] = "committed" <=> up[b] = "committed")
            \/ up[b] # "committed" /\ up'[b] # "committed"
  PROVE  actedBar' = actedBar
  BY DEF actedBar

\* One row written is one operation moved.
LEMMA StandingMoves ==
  ASSUME TypeOK, NEW o \in Operations, NEW r, rows' = [rows EXCEPT ![o] = r]
  PROVE  standingBar' = [standingBar EXCEPT ![o] = standingOf(r.state)]
  BY DEF TypeOK, StoreTypeOK, standingBar

\* An operation for which no attempt committed has not been acted for.
LEMMA NobodyActed ==
  ASSUME NEW o \in Operations,
         \A a \in OfOp(o) : up[a] # "committed"
  PROVE  actedBar[o] = {}
  BY DEF actedBar, OfOp

\* One whose effect happened has.
LEMMA SomebodyActed ==
  ASSUME NEW o \in Operations, Applied(o)
  PROVE  actedBar[o] # {}
  BY DEF actedBar, Applied, OfOp

\* The promise starts with every operation free and nothing done.
LEMMA PromiseInit == Init => Promise!AbsInit
  BY DEF Init, StoreInit, NoRow, Promise!AbsInit, standingBar, standingOf, actedBar

\* A gate's start-up loses the outcome of every call left in flight.
LEMMA StartLoses ==
  ASSUME TypeOK, NEW g \in Gates, Start(g)
  PROVE  Promise!AbsNext
<1>1. actedBar' = actedBar
  BY ActedFrame DEF Start
<1>2. \A o \in LeftInFlight : standingBar[o] = "running"
  BY DEF LeftInFlight, standingBar, standingOf
<1>3. standingBar' = [o \in Operations |-> IF o \in LeftInFlight THEN "held" ELSE standingBar[o]]
  BY DEF Start, Recover, LeftInFlight, standingBar, standingOf
<1>4. Promise!Lose(LeftInFlight)
  BY <1>1, <1>2, <1>3 DEF Promise!Lose
<1>5. LeftInFlight \in SUBSET Operations
  BY DEF LeftInFlight
<1> QED
  BY <1>4, <1>5 DEF Promise!AbsNext

\* A call that begins finds its operation free.
LEMMA BeginRuns ==
  ASSUME TypeOK, CoordinationInv, NEW a \in Attempts, BeginForward(a)
  PROVE  Promise!AbsNext
<1> DEFINE o == info[a].op
<1>1. o \in Operations
  BY DEF BeginForward, CoordinationInv, AttemptInv, Deciding, IsOperation
<1>2. actedBar' = actedBar
  BY ActedFrame DEF BeginForward
<1>3. standingBar[o] = "free"
  BY <1>1 DEF BeginForward, Begin, Runnable, standingBar, standingOf
<1>4. standingBar' = [standingBar EXCEPT ![o] = "running"]
  <2>1. \E r : r.state = "in_flight" /\ rows' = [rows EXCEPT ![o] = r]
    BY DEF BeginForward, Begin
  <2> QED
    BY <1>1, <2>1, StandingMoves DEF standingOf
<1> QED
  BY <1>1, <1>2, <1>3, <1>4 DEF Promise!AbsNext, Promise!Run, Promise!Move

\* The tool acts for the one attempt that may, while its row is in flight
\* or unknown.  A request without side effect is nobody's operation.
LEMMA ExecuteActs ==
  ASSUME TypeOK, CoordinationInv, NEW a \in Attempts, Execute(a)
  PROVE  Promise!AbsNext \/ UNCHANGED <<standingBar, actedBar>>
<1> DEFINE o == info[a].op
<1>1. standingBar' = standingBar /\ info' = info
  BY DEF Execute, standingBar
<1>2. up' = [up EXCEPT ![a] = "committed"] \/ up' = [up EXCEPT ![a] = "rejected"]
  BY DEF Execute
<1>3. up[a] = "sent" /\ up \in [Attempts -> Upstream]
  BY DEF Execute, TypeOK
<1>4. CASE up'[a] = "rejected"
  <2>1. actedBar' = actedBar
    BY <1>1, <1>2, <1>3, <1>4, ActedFrame
  <2> QED
    BY <1>1, <2>1
<1>5. CASE up'[a] = "committed" /\ ~IsOperation(a)
  <2>1. actedBar' = actedBar
    BY <1>1, <1>2, <1>3, <1>5 DEF actedBar, IsOperation
  <2> QED
    BY <1>1, <2>1
<1>6. CASE up'[a] = "committed" /\ IsOperation(a)
  <2>1. o \in Operations /\ a \in OfOp(o) /\ MayAct(a)
    BY <1>3, <1>6 DEF IsOperation, OfOp, MayAct
  <2>2. \A b \in OfOp(o) : MayAct(b) => b = a
    BY <2>1 DEF CoordinationInv, EffectInv
  <2>3. \A b \in OfOp(o) : up[b] # "committed"
    BY <1>3, <2>2 DEF MayAct
  <2>4. actedBar[o] = {}
    BY <2>1, <2>3, NobodyActed
  <2>5. rows[o].state \in {"in_flight", "unknown", "done"}
    BY <2>1 DEF CoordinationInv, EffectInv, TypeOK, StoreTypeOK, Row, OperationState
  <2>6. rows[o].state # "done"
    BY <2>1, <2>3 DEF CoordinationInv, EffectInv, Applied
  <2>7. standingBar[o] \in {"running", "held"}
    BY <2>1, <2>5, <2>6 DEF standingBar, standingOf
  <2>8. actedBar' = [actedBar EXCEPT ![o] = {a}]
    <3>1. \A b \in Attempts \ {a} : up'[b] = up[b]
      BY <1>2, <1>3
    <3>2. actedBar'[o] = {a}
      BY <1>1, <1>6, <2>1, <2>3, <3>1 DEF actedBar, OfOp
    <3>3. \A p \in Operations \ {o} : actedBar'[p] = actedBar[p]
      BY <1>1, <3>1 DEF actedBar
    <3> QED
      BY <2>1, <3>2, <3>3 DEF actedBar
  <2>9. Promise!Act(o, a)
    BY <1>1, <2>4, <2>7, <2>8 DEF Promise!Act
  <2> QED
    BY <2>1, <2>9 DEF Promise!AbsNext
<1> QED
  BY <1>2, <1>3, <1>4, <1>5, <1>6

\* A reply settles the row of the attempt the tool answered: done if it
\* acted, free again if it did not and nobody else did.
LEMMA SettleReplyEnds ==
  ASSUME TypeOK, CoordinationInv, NEW a \in Attempts, SettleReply(a)
  PROVE  Promise!AbsNext \/ UNCHANGED <<standingBar, actedBar>>
<1> DEFINE o == info[a].op
<1>1. fate[a] = "taken" /\ Holds(a) /\ o \in Operations /\ a \in OfOp(o)
  BY DEF SettleReply, Holds, CoordinationInv, AttemptInv, IsOperation, OfOp
<1>2. actedBar' = actedBar
  BY ActedFrame DEF SettleReply
<1>3. CASE UNCHANGED rows
  BY <1>2, <1>3 DEF standingBar
<1>4. CASE Settles(o) /\ verdict[a] = "committed" /\ rows' # rows
  <2>1. \E r : r.state = "done" /\ rows' = [rows EXCEPT ![o] = r]
    BY <1>4 DEF SettleReply, Settle
  <2>2. standingBar' = [standingBar EXCEPT ![o] = "done"]
    BY <1>1, <2>1, StandingMoves DEF standingOf
  <2>3. Applied(o)
    BY <1>1, <1>4 DEF CoordinationInv, ReplyInv, Applied
  <2>4. standingBar[o] = "running" /\ actedBar[o] # {}
    BY <1>1, <1>4, <2>3, SomebodyActed DEF Settles, standingBar, standingOf
  <2> QED
    BY <1>1, <1>2, <2>2, <2>4 DEF Promise!AbsNext, Promise!Complete, Promise!Move
<1>5. CASE Settles(o) /\ verdict[a] # "committed" /\ rows' # rows
  <2>1. \E r : r.state = "failed" /\ rows' = [rows EXCEPT ![o] = r]
    BY <1>5 DEF SettleReply, Settle
  <2>2. standingBar' = [standingBar EXCEPT ![o] = "free"]
    BY <1>1, <2>1, StandingMoves DEF standingOf
  <2>3. \A b \in OfOp(o) : up[b] # "committed"
    BY <1>1, <1>5 DEF CoordinationInv, ReplyInv, HolderInv, MayAct, OfOp
  <2>4. standingBar[o] = "running" /\ actedBar[o] = {}
    BY <1>1, <1>5, <2>3, NobodyActed DEF Settles, standingBar, standingOf
  <2> QED
    BY <1>1, <1>2, <2>2, <2>4 DEF Promise!AbsNext, Promise!GiveUp, Promise!Move
<1> QED
  BY <1>3, <1>4, <1>5 DEF SettleReply

\* A call that was not sent gives its operation up, unacted.
LEMMA GiveBackGivesUp ==
  ASSUME TypeOK, CoordinationInv, NEW a \in Attempts,
         pc[a] \in {"unsent", "unstarted"}, GiveBack(a)
  PROVE  Promise!AbsNext \/ UNCHANGED <<standingBar, actedBar>>
<1> DEFINE o == info[a].op
<1>1. o \in Operations /\ Holds(a) /\ up[a] = "none" /\ a \in OfOp(o)
  BY DEF CoordinationInv, AttemptInv, Deciding, IsOperation, Holds, OfOp
<1>2. actedBar' = actedBar
  <2>1. up' = up /\ \A b \in Attempts \ {a} : info'[b] = info[b]
    BY DEF GiveBack, Refuse, TypeOK
  <2> QED
    BY <1>1, <2>1, ActedFrame
<1>3. CASE UNCHANGED rows
  BY <1>2, <1>3 DEF standingBar
<1>4. CASE rows' # rows
  <2>1. Settles(o) /\ \E r : r.state = "failed" /\ rows' = [rows EXCEPT ![o] = r]
    BY <1>4 DEF GiveBack, Settle
  <2>2. standingBar' = [standingBar EXCEPT ![o] = "free"]
    BY <1>1, <2>1, StandingMoves DEF standingOf
  <2>3. \A b \in OfOp(o) : up[b] # "committed"
    BY <1>1 DEF CoordinationInv, HolderInv, MayAct, OfOp
  <2>4. standingBar[o] = "running" /\ actedBar[o] = {}
    BY <1>1, <2>1, <2>3, NobodyActed DEF Settles, standingBar, standingOf
  <2> QED
    BY <1>1, <1>2, <2>2, <2>4 DEF Promise!AbsNext, Promise!GiveUp, Promise!Move
<1> QED
  BY <1>3, <1>4

\* An abandoned call loses its outcome.
LEMMA AbandonLoses ==
  ASSUME TypeOK, CoordinationInv, NEW a \in Attempts, Abandon(a)
  PROVE  Promise!AbsNext \/ UNCHANGED <<standingBar, actedBar>>
<1> DEFINE o == info[a].op
<1>1. o \in Operations
  BY DEF Abandon, CoordinationInv, AttemptInv, IsOperation
<1>2. actedBar' = actedBar
  BY ActedFrame DEF Abandon
<1>3. CASE UNCHANGED rows
  BY <1>2, <1>3 DEF standingBar
<1>4. CASE rows' # rows
  <2>1. Settles(o) /\ \E r : r.state = "unknown" /\ rows' = [rows EXCEPT ![o] = r]
    BY <1>4 DEF Abandon, Settle
  <2>2. standingBar' = [standingBar EXCEPT ![o] = "held"]
    BY <1>1, <2>1, StandingMoves DEF standingOf
  <2>3. standingBar[o] = "running"
    BY <1>1, <2>1 DEF Settles, standingBar, standingOf
  <2>4. Promise!Lose({o})
    BY <1>1, <1>2, <2>2, <2>3 DEF Promise!Lose, standingBar
  <2>5. {o} \in SUBSET Operations
    BY <1>1
  <2> QED
    BY <2>4, <2>5 DEF Promise!AbsNext
<1> QED
  BY <1>3, <1>4

\* An operator's verdict ends a held operation the way its effect went.
LEMMA ReconcileResolves ==
  ASSUME ~Forcing, TypeOK, CoordinationInv, NEW o \in Operations, Reconcile(o)
  PROVE  Promise!AbsNext
<1>1. actedBar' = actedBar
  BY ActedFrame DEF Reconcile
<1>2. standingBar[o] = "held"
  BY DEF Reconcile, Reconcilable, standingBar, standingOf
<1>3. standingBar' = [standingBar EXCEPT ![o] = standingOf(Truth(o))]
  <2>1. PICK r : r.state = Truth(o) /\ rows' = [rows EXCEPT ![o] = r]
    BY DEF Reconcile, SetVerdict
  <2>2. standingBar' = [standingBar EXCEPT ![o] = standingOf(r.state)]
    BY <2>1, StandingMoves
  <2> QED
    BY <2>1, <2>2
<1>4. standingOf(Truth(o)) = IF actedBar[o] = {} THEN "free" ELSE "done"
  <2>1. CASE Applied(o)
    BY <2>1, SomebodyActed DEF Truth, standingOf
  <2>2. CASE ~Applied(o)
    BY <2>2, NobodyActed DEF Truth, standingOf, Applied
  <2> QED
    BY <2>1, <2>2
<1> QED
  BY <1>1, <1>2, <1>3, <1>4 DEF Promise!AbsNext, Promise!Resolve, Promise!Move

\* The steps that write no row and act for nobody.
LEMMA QuietSteps ==
  ASSUME TypeOK, CoordinationInv, UNCHANGED rows,
         \A b \in Attempts :
            \/ info'[b].op = info[b].op /\ (up'[b] = "committed" <=> up[b] = "committed")
            \/ up[b] # "committed" /\ up'[b] # "committed"
  PROVE  UNCHANGED <<standingBar, actedBar>>
  BY ActedFrame DEF standingBar

\* Every step is a step of the promise, or changes nothing it speaks of.
LEMMA PromiseNext ==
  ASSUME ~Forcing, TypeOK, CoordinationInv, [Next]_vars
  PROVE  Promise!AbsNext \/ UNCHANGED <<standingBar, actedBar>>
<1> USE DEF TypeOK
<1>1. ASSUME NEW g \in Gates, GateStep(g)
      PROVE  Promise!AbsNext \/ UNCHANGED <<standingBar, actedBar>>
  <2>1. CASE Start(g)
    BY <2>1, StartLoses
  <2>2. CASE StartFails(g) \/ Serve(g) \/ \E o \in Operations : RecordRecovered(g, o)
    BY <2>2, QuietSteps DEF StartFails, Serve, RecordRecovered
  <2>3. CASE Finish(g) \/ Release(g) \/ Exit(g) \/ Crash(g)
    BY <2>3, QuietSteps DEF Finish, Release, Exit, Crash, Dies
  <2> QED
    BY <1>1, <2>1, <2>2, <2>3 DEF GateStep
<1>2. ASSUME NEW g \in Gates, NEW a \in Attempts, AgentStep(g, a)
      PROVE  UNCHANGED <<standingBar, actedBar>>
  <2>1. up[a] = "none"
    BY <1>2 DEF AgentStep, ForwardPlain, CheckCall, Arrives, CoordinationInv, AttemptInv
  <2>2. UNCHANGED rows /\ up'[a] # "committed"
        /\ \A b \in Attempts \ {a} : info'[b] = info[b] /\ up'[b] = up[b]
    BY <1>2, <2>1 DEF AgentStep, ForwardPlain, CheckCall, Arrives
  <2> QED
    BY <2>1, <2>2, QuietSteps
<1>3. ASSUME NEW a \in Attempts, DecideStep(a)
      PROVE  Promise!AbsNext \/ UNCHANGED <<standingBar, actedBar>>
  <2>1. CASE BeginForward(a)
    BY <2>1, BeginRuns
  <2>2. CASE ReleaseUnsent(a) \/ UnstartSettle(a)
    BY <2>2, GiveBackGivesUp DEF ReleaseUnsent, UnstartSettle
  <2>3. CASE BeginRefused(a) \/ Replay(a)
    <3>1. up[a] = "none"
      BY <2>3 DEF BeginRefused, Replay, CoordinationInv, AttemptInv
    <3>2. UNCHANGED <<rows, up>> /\ \A b \in Attempts \ {a} : info'[b] = info[b]
      BY <2>3 DEF BeginRefused, Replay, Refuse
    <3> QED
      BY <3>1, <3>2, QuietSteps
  <2>4. CASE Register(a) \/ RecordFails(a) \/ UnstartRemove(a)
    BY <2>4, QuietSteps DEF Register, RecordFails, UnstartRemove
  <2>5. CASE RecordForwarded(a)
    <3>1. up[a] = "none"
      BY <2>5 DEF RecordForwarded, CoordinationInv, AttemptInv
    <3>2. UNCHANGED <<rows, info>> /\ up'[a] # "committed"
          /\ \A b \in Attempts \ {a} : up'[b] = up[b]
      BY <2>5 DEF RecordForwarded
    <3> QED
      BY <3>1, <3>2, QuietSteps
  <2> QED
    BY <1>3, <2>1, <2>2, <2>3, <2>4, <2>5 DEF DecideStep
<1>4. ASSUME NEW a \in Attempts, ToolStep(a)
      PROVE  Promise!AbsNext \/ UNCHANGED <<standingBar, actedBar>>
  <2>1. CASE Send(a)
    BY <2>1, QuietSteps DEF Send
  <2> QED
    BY <1>4, <2>1, ExecuteActs DEF ToolStep
<1>5. ASSUME NEW a \in Attempts, ReplyStep(a)
      PROVE  Promise!AbsNext \/ UNCHANGED <<standingBar, actedBar>>
  <2>1. CASE Reply(a) \/ RecordOutcome(a)
    BY <2>1, QuietSteps DEF Reply, RecordOutcome
  <2>2. CASE OnUpstreamError(a)
    BY <2>2, QuietSteps DEF OnUpstreamError
  <2> QED
    BY <1>5, <2>1, <2>2, SettleReplyEnds, AbandonLoses DEF ReplyStep
<1>6. ASSUME NEW o \in Operations, OperatorStep(o)
      PROVE  Promise!AbsNext \/ UNCHANGED <<standingBar, actedBar>>
  <2>1. CASE ReconcileLost(o)
    BY <2>1, QuietSteps DEF ReconcileLost
  <2> QED
    BY <1>6, <2>1, ReconcileResolves DEF OperatorStep
<1>7. CASE UNCHANGED vars
  BY <1>7, QuietSteps DEF vars
<1> QED
  BY <1>1, <1>2, <1>3, <1>4, <1>5, <1>6, <1>7 DEF Next

\* With operators who never force and gates that exit with their lock, the
\* gates, their agents, the tools and the operators implement AtMostOnce:
\* an operation runs one attempt at a time, acts at most once, and is free
\* to run again only if it did not act.
THEOREM PromiseKept ==
  ASSUME ~Forcing, ~Linger
  PROVE  Spec => ImplementsAtMostOnce
<1>1. TypeOK /\ CoordinationInv /\ [Next]_vars =>
         [Promise!AbsNext]_(Promise!absVars)
  BY PromiseNext DEF Promise!absVars
<1> QED
  BY <1>1, PromiseInit, Coordination, PTL DEF Spec, ImplementsAtMostOnce, Promise!AbsSpec

-----------------------------------------------------------------------------
(* What is recorded of a call.  None of this needs an assumption on         *)
(* operators or processes.                                                  *)

\* A call is handed on last, when its request is decided, and what takes
\* more than one step to decide is an operation.
DecidedFirst ==
    \A a \in Attempts :
        /\ up[a] # "none" => pc[a] = "decided"
        /\ Deciding(a) => IsOperation(a)

\* The entry the gate writes before it hands the call on.
CallEntry(a) == [op |-> info[a].op, kind |-> "call", of |-> a]

\* The gate forgets nothing it has handed on.
Kept(a) ==
    up[a] # "none" =>
        /\ info'[a] = info[a] /\ pc'[a] = "decided" /\ up'[a] # "none"
        /\ up[a] = "gone" => up'[a] = "gone"
        /\ up[a] = "committed" => up'[a] = "committed"

\* What it hands on was decided, and is no operation, is not sent, or has its
\* entry.
HandedOn(a) ==
    up[a] = "none" /\ up'[a] # "none" =>
        /\ pc'[a] = "decided"
        /\ info'[a].op \in Operations /\ up'[a] # "gone" => CallEntry(a)' \in ledger'

\* Both hold of every attempt, and the ledger only grows.
LEMMA StepOfAttempts ==
  ASSUME TypeOK, DecidedFirst, [Next]_vars
  PROVE  /\ \A b \in Attempts : Kept(b) /\ HandedOn(b) /\ (Deciding(b)' => IsOperation(b)')
         /\ ledger \subseteq ledger'
<1> DEFINE Good(b) == Kept(b) /\ HandedOn(b) /\ (Deciding(b)' => IsOperation(b)')
           Goal == (\A b \in Attempts : Good(b)) /\ ledger \subseteq ledger'
           Same(b) == info'[b] = info[b] /\ pc'[b] = pc[b] /\ up'[b] = up[b]
<1> USE DEF TypeOK
<1>0. \A b \in Attempts : Same(b) => Good(b)
  BY DEF Kept, HandedOn, DecidedFirst, Deciding, IsOperation
<1>1. ASSUME NEW g \in Gates, GateStep(g) PROVE Goal
  <2>1. CASE Start(g) \/ StartFails(g) \/ Serve(g)
    BY <1>0, <2>1 DEF Start, StartFails, Serve
  <2>2. CASE \E o \in Operations : RecordRecovered(g, o)
    BY <1>0, <2>2 DEF RecordRecovered, Record
  <2>3. CASE Finish(g)
    BY <2>3 DEF Finish, Kept, HandedOn, DecidedFirst, Deciding, IsOperation
  <2>4. CASE Dies(g)
    BY <2>4 DEF Dies, Kept, HandedOn, DecidedFirst, Deciding, IsOperation
  <2>5. CASE Release(g) \/ Exit(g) \/ Crash(g)
    BY <1>0, <2>4, <2>5 DEF Release, Exit, Crash
  <2> QED
    BY <1>1, <2>1, <2>2, <2>3, <2>5 DEF GateStep
<1>2. ASSUME NEW g \in Gates, NEW a \in Attempts, AgentStep(g, a) PROVE Goal
  <2>1. pc[a] = "idle" /\ up[a] = "none" /\ UNCHANGED ledger
        /\ \A b \in Attempts \ {a} : Same(b)
    BY <1>2 DEF AgentStep, ForwardPlain, CheckCall, Arrives, Goto, DecidedFirst
  <2>2. up'[a] # "none" => pc'[a] = "decided" /\ info'[a].op = NoOperation
    BY <1>2, <2>1 DEF AgentStep, ForwardPlain, CheckCall, Arrives, Goto
  <2>3. up'[a] = "none" => info'[a].op \in Operations
    BY <1>2, <2>1 DEF AgentStep, ForwardPlain, CheckCall, Arrives
  <2>4. Good(a)
    BY <2>1, <2>2, <2>3, GateAssumption DEF Kept, HandedOn, Deciding, IsOperation
  <2> QED
    BY <1>0, <2>1, <2>4
<1>3. ASSUME NEW a \in Attempts, DecideStep(a) PROVE Goal
  <2>1. pc[a] # "decided" /\ up[a] = "none"
    BY <1>3 DEF DecideStep, BeginForward, BeginRefused, Replay, Register, ReleaseUnsent,
       RecordForwarded, RecordFails, UnstartRemove, UnstartSettle, DecidedFirst
  <2>2. \A b \in Attempts \ {a} : Same(b)
    <3>1. CASE BeginForward(a) \/ BeginRefused(a) \/ Replay(a)
      BY <3>1 DEF BeginForward, BeginRefused, Replay, Refuse, Goto
    <3>2. CASE Register(a) \/ RecordForwarded(a) \/ RecordFails(a) \/ UnstartRemove(a)
      BY <3>2 DEF Register, RecordForwarded, RecordFails, UnstartRemove, Goto
    <3>3. CASE ReleaseUnsent(a) \/ UnstartSettle(a)
      BY <3>3 DEF ReleaseUnsent, UnstartSettle, GiveBack, Refuse, Goto
    <3> QED
      BY <1>3, <3>1, <3>2, <3>3 DEF DecideStep
  <2>3. HandedOn(a) /\ ledger \subseteq ledger'
    <3>1. CASE RecordForwarded(a)
      <4>1. pc'[a] = "decided" /\ UNCHANGED info
        BY <3>1 DEF RecordForwarded, Goto
      <4>2. CallEntry(a)' \in ledger' /\ ledger \subseteq ledger'
        BY <3>1 DEF RecordForwarded, Record, CallEntry
      <4> QED
        BY <4>1, <4>2 DEF HandedOn
    <3>2. CASE UNCHANGED up
      <4>1. ledger \subseteq ledger'
        BY <1>3 DEF DecideStep, BeginForward, BeginRefused, Replay, Register, ReleaseUnsent,
           RecordForwarded, RecordFails, UnstartRemove, UnstartSettle, GiveBack, Record
      <4> QED
        BY <2>1, <3>2, <4>1 DEF HandedOn
    <3> QED
      BY <1>3, <3>1, <3>2 DEF DecideStep, BeginForward, BeginRefused, Replay, Register,
         ReleaseUnsent, RecordFails, UnstartRemove, UnstartSettle, GiveBack
  <2>4. Deciding(a)' => IsOperation(a)'
    <3>1. info'[a] = info[a] \/ pc'[a] = "idle"
      BY <1>3 DEF DecideStep, BeginForward, BeginRefused, Replay, Register, ReleaseUnsent,
         RecordForwarded, RecordFails, UnstartRemove, UnstartSettle, GiveBack, Refuse, Goto
    <3>2. Deciding(a)
      BY <1>3 DEF DecideStep, BeginForward, BeginRefused, Replay, Register, ReleaseUnsent,
         RecordForwarded, RecordFails, UnstartRemove, UnstartSettle, Deciding
    <3> QED
      BY <3>1, <3>2 DEF Deciding, IsOperation, DecidedFirst
  <2> QED
    BY <1>0, <2>1, <2>2, <2>3, <2>4 DEF Kept
<1>4. ASSUME NEW a \in Attempts, ToolStep(a) PROVE Goal
  <2>1. UNCHANGED <<info, pc, ledger>> /\ up[a] \in {"queued", "sent"} /\ up'[a] \notin {"none", "gone"}
        /\ \A b \in Attempts \ {a} : Same(b)
    BY <1>4 DEF ToolStep, Send, Execute
  <2> QED
    BY <1>0, <2>1 DEF Kept, HandedOn, DecidedFirst, Deciding, IsOperation
<1>5. ASSUME NEW a \in Attempts, ReplyStep(a) PROVE Goal
  <2>1. UNCHANGED <<info, pc>> /\ ledger \subseteq ledger'
    BY <1>5 DEF ReplyStep, Reply, OnUpstreamError, SettleReply, Abandon, RecordOutcome, Record
  <2>2. /\ \A b \in Attempts \ {a} : up'[b] = up[b]
        /\ up'[a] = up[a] \/ (up[a] = "queued" /\ up'[a] = "gone")
    BY <1>5 DEF ReplyStep, Reply, OnUpstreamError, SettleReply, Abandon, RecordOutcome
  <2> QED
    BY <2>1, <2>2 DEF Kept, HandedOn, DecidedFirst, Deciding, IsOperation
<1>6. ASSUME NEW o \in Operations, OperatorStep(o) PROVE Goal
  <2>1. ledger \subseteq ledger' /\ \A b \in Attempts : Same(b)
    BY <1>6 DEF OperatorStep, Reconcile, ReconcileLost, ReconcileEntry, Record
  <2> QED
    BY <1>0, <2>1
<1>7. CASE UNCHANGED vars
  BY <1>0, <1>7 DEF vars
<1> QED
  BY <1>1, <1>2, <1>3, <1>4, <1>5, <1>6, <1>7 DEF Next

\* Decided first, and recorded, is kept by every step.
LEMMA RecordedNext ==
  ASSUME TypeOK, DecidedFirst, NothingUnrecorded, [Next]_vars
  PROVE  DecidedFirst' /\ NothingUnrecorded'
<1>1. /\ \A b \in Attempts : Kept(b) /\ HandedOn(b) /\ (Deciding(b)' => IsOperation(b)')
      /\ ledger \subseteq ledger'
  BY StepOfAttempts
<1>2. DecidedFirst'
  BY <1>1 DEF DecidedFirst, Kept, HandedOn
<1>3. ASSUME NEW a \in Attempts, info'[a].op \in Operations, up'[a] \notin {"none", "gone"}
      PROVE  CallEntry(a)' \in ledger'
  <2>1. CASE up[a] = "none"
    BY <1>1, <1>3, <2>1 DEF HandedOn
  <2>2. CASE up[a] # "none"
    BY <1>1, <1>3, <2>2 DEF Kept, NothingUnrecorded, IsOperation, CallEntry
  <2> QED
    BY <2>1, <2>2
<1> QED
  BY <1>2, <1>3 DEF NothingUnrecorded, IsOperation, CallEntry

\* No record, no call: whatever the ledger's failures, the operators and the
\* crashes, a call the tool was handed has its own entry.
THEOREM NoRecordNoCall == Spec => []NothingUnrecorded
<1>1. Init => DecidedFirst /\ NothingUnrecorded
  BY DEF Init, DecidedFirst, NothingUnrecorded, Deciding
<1>2. TypeOK /\ DecidedFirst /\ NothingUnrecorded /\ [Next]_vars
        => DecidedFirst' /\ NothingUnrecorded'
  BY RecordedNext
<1> QED
  BY <1>1, <1>2, TypeCorrect, PTL DEF Spec

-----------------------------------------------------------------------------
(* The stored results. *)

\* A result made of pseudonym tokens is flagged as masked.
TokensFlagged == \A o \in Operations : rows[o].result = "tokens" => rows[o].masked

\* A row is written by one of the store's transactions, whose results are
\* flagged.
LEMMA TokensNext ==
  ASSUME TypeOK, DecidedFirst, TokensFlagged, NoTokensReplayed, [Next]_vars
  PROVE  TokensFlagged' /\ NoTokensReplayed'
<1> USE DEF TypeOK, StoreTypeOK
<1>1. ASSUME NEW p, NEW s, NEW m \in BOOLEAN, NEW x \in Results, x = "tokens" => m,
             Settle(p, s, x, m)
      PROVE  TokensFlagged'
  BY <1>1 DEF Settle, Settles, TokensFlagged
<1>2. ASSUME NEW p, NEW c, Begin(p, c) PROVE TokensFlagged'
  BY <1>2 DEF Begin, TokensFlagged
<1>3. ASSUME NEW g, Recover(g) PROVE TokensFlagged'
  BY <1>3 DEF Recover, TokensFlagged
<1>4. ASSUME NEW p, NEW s, SetVerdict(p, s) PROVE TokensFlagged'
  BY <1>4 DEF SetVerdict, TokensFlagged
<1>5. ASSUME UNCHANGED rows PROVE TokensFlagged'
  BY <1>5 DEF TokensFlagged
<1>6. TokensFlagged'
  <2>1. ASSUME NEW g \in Gates, GateStep(g) PROVE TokensFlagged'
    BY <1>3, <1>5, <2>1 DEF GateStep, Start, StartFails, Serve, RecordRecovered, Finish, Release,
                            Exit, Crash, Dies
  <2>2. ASSUME NEW g \in Gates, NEW a \in Attempts, AgentStep(g, a) PROVE TokensFlagged'
    BY <1>5, <2>2 DEF AgentStep, ForwardPlain, CheckCall
  <2>3. ASSUME NEW a \in Attempts, GiveBack(a) PROVE TokensFlagged'
    BY <1>1, <1>5, <2>3 DEF GiveBack, Results
  <2>4. ASSUME NEW a \in Attempts, DecideStep(a) PROVE TokensFlagged'
    BY <1>2, <1>5, <2>3, <2>4 DEF DecideStep, BeginForward, BeginRefused, Replay, Register,
       ReleaseUnsent, RecordForwarded, RecordFails, UnstartRemove, UnstartSettle
  <2>5. ASSUME NEW a \in Attempts, SettleReply(a) PROVE TokensFlagged'
    <3> DEFINE m == info[a].gate \in Pii
    <3>1. CASE Settle(info[a].op, "done", IF m THEN "tokens" ELSE "raw", m)
      BY <3>1 DEF Settle, Settles, TokensFlagged
    <3>2. CASE Settle(info[a].op, "failed", "null", m)
      BY <3>2 DEF Settle, Settles, TokensFlagged
    <3> QED
      BY <1>5, <2>5, <3>1, <3>2 DEF SettleReply
  <2>6. ASSUME NEW a \in Attempts, Abandon(a) PROVE TokensFlagged'
    BY <1>1, <1>5, <2>6 DEF Abandon, Results
  <2>7. ASSUME NEW a \in Attempts, ToolStep(a) \/ ReplyStep(a) PROVE TokensFlagged'
    BY <1>5, <2>5, <2>6, <2>7 DEF ToolStep, Send, Execute, ReplyStep, Reply, OnUpstreamError,
       RecordOutcome
  <2>8. ASSUME NEW o \in Operations, OperatorStep(o) PROVE TokensFlagged'
    BY <1>4, <1>5, <2>8 DEF OperatorStep, Reconcile, ReconcileLost
  <2>9. CASE UNCHANGED vars
    BY <1>5, <2>9 DEF vars
  <2> QED
    BY <2>1, <2>2, <2>4, <2>7, <2>8, <2>9 DEF Next
<1>7. NoTokensReplayed'
  <2>1. ASSUME NEW a, NEW w, w # "tokens", Tell(a, w) PROVE NoTokensReplayed'
    BY <2>1 DEF Tell, NoTokensReplayed
  <2>2. ASSUME UNCHANGED answer PROVE NoTokensReplayed'
    BY <2>2 DEF NoTokensReplayed
  <2>3. ASSUME NEW a \in Attempts, Replay(a) PROVE NoTokensReplayed'
    <3>1. Replayed(a) # "tokens"
      BY <2>3 DEF Replay, DecidedFirst, Deciding, IsOperation, Replayed, TokensFlagged
    <3> QED
      BY <2>1, <2>2, <2>3, <3>1 DEF Replay
  <2>4. ASSUME NEW g \in Gates, GateStep(g) PROVE NoTokensReplayed'
    <3>1. CASE Dies(g)
      BY <3>1 DEF Dies, NoTokensReplayed
    <3> QED
      BY <2>2, <2>4, <3>1 DEF GateStep, Start, StartFails, Serve, RecordRecovered, Finish, Release,
         Exit, Crash
  <2>5. ASSUME NEW g \in Gates, NEW a \in Attempts, AgentStep(g, a) PROVE NoTokensReplayed'
    BY <2>2, <2>5 DEF AgentStep, ForwardPlain, CheckCall
  <2>6. ASSUME NEW a \in Attempts, DecideStep(a) PROVE NoTokensReplayed'
    BY <2>2, <2>3, <2>6 DEF DecideStep, BeginForward, BeginRefused, Register, ReleaseUnsent,
       RecordForwarded, RecordFails, UnstartRemove, UnstartSettle, GiveBack
  <2>7. ASSUME NEW a \in Attempts, ToolStep(a) \/ ReplyStep(a) PROVE NoTokensReplayed'
    <3>1. CASE Reply(a)
      BY <2>1, <2>2, <3>1 DEF Reply, TakeRequest
    <3>2. CASE OnUpstreamError(a)
      BY <2>1, <2>2, <3>2 DEF OnUpstreamError, TakeRequest
    <3>3. CASE SettleReply(a)
      BY <2>1, <2>2, <3>3 DEF SettleReply, ReplyAnswer
    <3>4. CASE Abandon(a)
      BY <2>1, <2>2, <3>4 DEF Abandon
    <3>5. CASE RecordOutcome(a)
      BY <2>1, <2>2, <3>5 DEF RecordOutcome, ReplyAnswer
    <3> QED
      BY <2>2, <2>7, <3>1, <3>2, <3>3, <3>4, <3>5 DEF ToolStep, Send, Execute, ReplyStep
  <2>8. ASSUME NEW o \in Operations, OperatorStep(o) PROVE NoTokensReplayed'
    BY <2>2, <2>8 DEF OperatorStep, Reconcile, ReconcileLost
  <2>9. CASE UNCHANGED vars
    BY <2>2, <2>9 DEF vars
  <2> QED
    BY <2>4, <2>5, <2>6, <2>7, <2>8, <2>9 DEF Next
<1> QED
  BY <1>6, <1>7

\* Whatever mix of gates with and without the PII transform ran on the
\* database, no agent is answered with the pseudonym tokens of a stored result.
THEOREM ReplaysAreReadable == Spec => []NoTokensReplayed
<1> DEFINE Inv == DecidedFirst /\ NothingUnrecorded /\ TokensFlagged /\ NoTokensReplayed
<1>1. Init => Inv
  BY DEF Init, StoreInit, NoRow, DecidedFirst, Deciding, NothingUnrecorded, TokensFlagged,
         NoTokensReplayed
<1>2. TypeOK /\ Inv /\ [Next]_vars => Inv'
  BY RecordedNext, TokensNext
<1>3. Inv => NoTokensReplayed
  OBVIOUS
<1> QED
  BY <1>1, <1>2, <1>3, TypeCorrect, PTL DEF Spec

-----------------------------------------------------------------------------
(* What the ledger claims. *)

\* An outcome about to be recorded as committed is one the tool produced,
\* and an abandoned call's is unknown.
SettledTrue ==
    \A a \in Attempts :
        /\ fate[a] = "settled" /\ verdict[a] = "committed" => up[a] = "committed"
        /\ fate[a] = "abandoned" => verdict[a] = "unknown"

\* An effect is never undone.
LEMMA AppliedStays ==
  ASSUME TypeOK, CoordinationInv, [Next]_vars
  PROVE  \A o : Applied(o) => Applied(o)'
<1>1. DecidedFirst
  BY DEF DecidedFirst, CoordinationInv, AttemptInv
<1>2. \A b \in Attempts : Kept(b)
  BY <1>1, StepOfAttempts
<1> QED
  BY <1>2 DEF Kept, Applied, OfOp

\* Only settle_reply settles a call as committed, and it waits for a reply
\* that says so.
LEMMA SettledNext ==
  ASSUME TypeOK, CoordinationInv, SettledTrue, [Next]_vars
  PROVE  SettledTrue'
<1> USE DEF TypeOK
<1>1. DecidedFirst
  BY DEF DecidedFirst, CoordinationInv, AttemptInv
<1>2. \A b \in Attempts : up[b] = "committed" => up'[b] = "committed"
  BY <1>1, StepOfAttempts DEF Kept
<1>3. ASSUME UNCHANGED <<fate, verdict>> PROVE SettledTrue'
  BY <1>2, <1>3 DEF SettledTrue
<1>4. ASSUME NEW g \in Gates, GateStep(g) PROVE SettledTrue'
  <2>1. CASE Finish(g)
    BY <1>2, <2>1 DEF Finish, SettledTrue
  <2>2. CASE Dies(g)
    BY <1>2, <2>2 DEF Dies, SettledTrue
  <2> QED
    BY <1>3, <1>4, <2>1, <2>2 DEF GateStep, Start, StartFails, Serve, RecordRecovered, Release,
       Exit, Crash
<1>5. ASSUME NEW g \in Gates, NEW a \in Attempts, AgentStep(g, a) PROVE SettledTrue'
  BY <1>3, <1>5 DEF AgentStep, ForwardPlain, CheckCall
<1>6. ASSUME NEW a \in Attempts, DecideStep(a) \/ ToolStep(a) PROVE SettledTrue'
  BY <1>3, <1>6 DEF DecideStep, BeginForward, BeginRefused, Replay, Register, ReleaseUnsent,
     RecordForwarded, RecordFails, UnstartRemove, UnstartSettle, GiveBack, ToolStep, Send, Execute
<1>7. ASSUME NEW a \in Attempts, ReplyStep(a) PROVE SettledTrue'
  <2>1. ASSUME NEW n \in {"taken", "abandoned"}, NEW v, NEW w,
               n = "abandoned" => v = "unknown", TakeRequest(a, n, v, w)
        PROVE  SettledTrue'
    BY <1>2, <2>1 DEF TakeRequest, SettledTrue
  <2>2. CASE SettleReply(a)
    <3>1. UNCHANGED verdict /\ fate'[a] # "abandoned" /\ \A b \in Attempts \ {a} : fate'[b] = fate[b]
      BY <2>2 DEF SettleReply
    <3>2. verdict[a] = "committed" => up[a] = "committed"
      BY <2>2 DEF SettleReply, CoordinationInv, ReplyInv
    <3> QED
      BY <1>2, <3>1, <3>2 DEF SettledTrue
  <2>3. CASE Abandon(a)
    <3>1. UNCHANGED verdict /\ \A b \in Attempts \ {a} : fate'[b] = fate[b]
      BY <2>3 DEF Abandon
    <3>2. verdict[a] = "unknown"
      BY <2>3 DEF Abandon, SettledTrue
    <3> QED
      BY <1>2, <3>1, <3>2 DEF SettledTrue
  <2>4. CASE RecordOutcome(a)
    BY <1>2, <2>4 DEF RecordOutcome, SettledTrue
  <2> QED
    BY <1>7, <2>1, <2>2, <2>3, <2>4 DEF ReplyStep, Reply, OnUpstreamError
<1>8. ASSUME NEW o \in Operations, OperatorStep(o) PROVE SettledTrue'
  BY <1>3, <1>8 DEF OperatorStep, Reconcile, ReconcileLost
<1>9. CASE UNCHANGED vars
  BY <1>3, <1>9 DEF vars
<1> QED
  BY <1>4, <1>5, <1>6, <1>7, <1>8, <1>9 DEF Next

\* What a step adds to the ledger is true.
LEMMA TruthfulNext ==
  ASSUME ~Forcing, ~Linger, TypeOK, CoordinationInv, SettledTrue, LedgerTruthful, [Next]_vars
  PROVE  LedgerTruthful'
<1> DEFINE Claims == {"committed", "replay", "reconciled_done"}
<1>1. \A o : Applied(o) => Applied(o)'
  BY AppliedStays
<1>2. ASSUME UNCHANGED ledger PROVE LedgerTruthful'
  BY <1>1, <1>2 DEF LedgerTruthful
<1>3. ASSUME NEW o, NEW k, NEW a, Record(o, k, a), k \in Claims => Applied(o)
      PROVE  LedgerTruthful'
  <2> SUFFICES ASSUME NEW e \in ledger', e.kind \in Claims PROVE Applied(e.op)'
    BY DEF LedgerTruthful
  <2>1. CASE e \in ledger
    BY <1>1, <2>1 DEF LedgerTruthful
  <2>2. CASE e = [op |-> o, kind |-> k, of |-> a]
    BY <1>1, <1>3, <2>2
  <2> QED
    BY <1>3, <2>1, <2>2 DEF Record
<1>4. ASSUME NEW g \in Gates, GateStep(g) PROVE LedgerTruthful'
  <2>1. CASE \E o \in Operations : RecordRecovered(g, o)
    BY <1>3, <2>1 DEF RecordRecovered
  <2> QED
    BY <1>2, <1>4, <2>1 DEF GateStep, Start, StartFails, Serve, Finish, Release, Exit, Crash, Dies
<1>5. ASSUME NEW g \in Gates, NEW a \in Attempts, AgentStep(g, a) PROVE LedgerTruthful'
  BY <1>2, <1>5 DEF AgentStep, ForwardPlain, CheckCall
<1>6. ASSUME NEW a \in Attempts, DecideStep(a) PROVE LedgerTruthful'
  <2>1. CASE Replay(a)
    <3>1. info[a].op \in Operations
      BY <2>1 DEF Replay, CoordinationInv, AttemptInv, Deciding, IsOperation
    <3>2. Applied(info[a].op)
      BY <2>1, <3>1 DEF Replay, Replayable, CoordinationInv, EffectInv
    <3> QED
      BY <1>2, <1>3, <2>1, <3>2 DEF Replay
  <2>2. CASE RecordForwarded(a)
    BY <1>3, <2>2 DEF RecordForwarded
  <2> QED
    BY <1>2, <1>6, <2>1, <2>2 DEF DecideStep, BeginForward, BeginRefused, Register, ReleaseUnsent,
       RecordFails, UnstartRemove, UnstartSettle, GiveBack
<1>7. ASSUME NEW a \in Attempts, ToolStep(a) \/ ReplyStep(a) PROVE LedgerTruthful'
  <2>1. CASE RecordOutcome(a)
    <3>1. verdict[a] \in Claims => Applied(info[a].op)
      BY <2>1 DEF RecordOutcome, SettledTrue, TypeOK, Outcomes, Applied, OfOp
    <3> QED
      BY <1>2, <1>3, <2>1, <3>1 DEF RecordOutcome
  <2> QED
    BY <1>2, <1>7, <2>1 DEF ToolStep, Send, Execute, ReplyStep, Reply, OnUpstreamError, SettleReply,
       Abandon
<1>8. ASSUME NEW o \in Operations, OperatorStep(o) PROVE LedgerTruthful'
  <2>1. CASE Truth(o) = "done"
    <3>1. Applied(o)
      BY <2>1 DEF Truth
    <3>2. Record(o, "reconciled_done", NoAttempt)
      BY <1>8, <2>1 DEF OperatorStep, Reconcile, ReconcileLost, ReconcileEntry
    <3> QED
      BY <1>3, <3>1, <3>2
  <2>2. CASE Truth(o) # "done"
    <3>1. Record(o, "reconciled_not_applied", NoAttempt)
      BY <1>8, <2>2 DEF OperatorStep, Reconcile, ReconcileLost, ReconcileEntry
    <3> QED
      BY <1>3, <3>1
  <2> QED
    BY <2>1, <2>2
<1>9. CASE UNCHANGED vars
  BY <1>2, <1>9 DEF vars
<1> QED
  BY <1>4, <1>5, <1>6, <1>7, <1>8, <1>9 DEF Next

\* The ledger never claims an effect that did not happen, in a settlement, a
\* replay or an operator's verdict.
THEOREM ClaimsAreTrue ==
  ASSUME ~Forcing, ~Linger
  PROVE  Spec => []LedgerTruthful
<1> DEFINE Inv == SettledTrue /\ LedgerTruthful
<1>1. Init => Inv
  BY DEF Init, SettledTrue, LedgerTruthful
<1>2. TypeOK /\ CoordinationInv /\ Inv /\ [Next]_vars => Inv'
  BY SettledNext, TruthfulNext
<1>3. Inv => LedgerTruthful
  OBVIOUS
<1> QED
  BY <1>1, <1>2, <1>3, Coordination, PTL DEF Spec
=============================================================================
