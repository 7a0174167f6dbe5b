--------------------------- MODULE OperationStore ---------------------------
(***************************************************************************)
(* The operations table of crates/cloakpipe-mcp/src/operations.rs: one row *)
(* per side-effecting operation, each method one SQLite transaction, and   *)
(* the exclusive `<db>.lock` a gate holds while it runs.                   *)
(*                                                                         *)
(* A row's call stands for its tool and call_digest together (begin        *)
(* compares both).  A result is "null", "raw", or "tokens" (pseudonym      *)
(* tokens, stored under the PII transform); masked is the result_masked    *)
(* flag.  updated_at is never read by the code and is left out.            *)
(***************************************************************************)
CONSTANTS
    Operations,   \* operation ids
    Calls,        \* tool + call_digest pairs
    NoCall,       \* the call of an absent row
    Gates,        \* processes that may run as a gate on this database
    NoGate        \* nobody holds the lock

ASSUME StoreAssumption ==
    /\ NoCall \notin Calls
    /\ NoGate \notin Gates

VARIABLES
    rows,         \* rows[o]: the row of operation o
    gateLock      \* who holds <db>.lock

storeVars == <<rows, gateLock>>

OperationState == {"in_flight", "done", "failed", "unknown", "not_applied"}
Results == {"null", "raw", "tokens"}
Row == [state  : OperationState \cup {"absent"},
        call   : Calls \cup {NoCall},
        result : Results,
        masked : BOOLEAN]
NoRow == [state |-> "absent", call |-> NoCall, result |-> "null", masked |-> FALSE]

StoreInit ==
    /\ rows = [o \in Operations |-> NoRow]
    /\ gateLock = NoGate

StoreTypeOK ==
    /\ rows \in [Operations -> Row]
    /\ gateLock \in Gates \cup {NoGate}

(***************************************************************************)
(* begin: what the row of `o` says about running call `c`.                 *)
(***************************************************************************)
Conflict(o, c) == rows[o].state # "absent" /\ rows[o].call # c
\* Mutant: an unknown outcome may be retried.
Runnable_RetryUnknown(o, c) ==
    \/ rows[o].state = "absent"
    \/ rows[o].call = c /\ rows[o].state \in {"failed", "not_applied", "unknown"}
Runnable(o, c) ==
    \/ rows[o].state = "absent"
    \/ rows[o].call = c /\ rows[o].state \in {"failed", "not_applied"}
Replayable(o, c) == rows[o].call = c /\ rows[o].state = "done"
MustReconcile(o, c) == rows[o].call = c /\ rows[o].state \in {"in_flight", "unknown"}

Begin(o, c) ==
    /\ Runnable(o, c)
    /\ rows' = [rows EXCEPT ![o] =
                  [state |-> "in_flight", call |-> c, result |-> "null", masked |-> FALSE]]

(***************************************************************************)
(* settle_with: only the row of an in_flight operation changes.  The row   *)
(* is found by operation id alone, whichever attempt put it in flight.     *)
(***************************************************************************)
Settles(o) == rows[o].state = "in_flight"

\* Mutant: result_masked is not written.
Settle_FlagLost(o, s, result, masked) ==
    rows' = IF Settles(o)
            THEN [rows EXCEPT ![o] =
                    [state |-> s, call |-> rows[o].call, result |-> result, masked |-> FALSE]]
            ELSE rows

Settle(o, s, result, masked) ==
    rows' = IF Settles(o)
            THEN [rows EXCEPT ![o] =
                    [state |-> s, call |-> rows[o].call, result |-> result,
                     masked |-> masked /\ result # "null"]]
            ELSE rows

(***************************************************************************)
(* reconcile: an operator's verdict on an unknown (or, forced, in_flight)  *)
(* operation.                                                              *)
(***************************************************************************)
Reconcilable(o, force) ==
    \/ rows[o].state = "unknown"
    \/ force /\ rows[o].state = "in_flight"

SetVerdict(o, s) ==
    rows' = [rows EXCEPT ![o] =
               [state |-> s, call |-> rows[o].call, result |-> "null", masked |-> FALSE]]

(***************************************************************************)
(* recover: take the lock, then every in_flight row becomes unknown.       *)
(***************************************************************************)
\* Mutant: the sweep has lost its WHERE clause.
LeftInFlight_All == {o \in Operations : rows[o].state # "absent"}
LeftInFlight == {o \in Operations : rows[o].state = "in_flight"}

\* Mutant: the gate starts whether or not it got the lock.
Recover_NoLock(g) ==
    /\ gateLock' = g
    /\ rows' = [o \in Operations |->
                  IF o \in LeftInFlight
                  THEN [state |-> "unknown", call |-> rows[o].call,
                        result |-> rows[o].result, masked |-> rows[o].masked]
                  ELSE rows[o]]

Recover(g) ==
    /\ gateLock = NoGate
    /\ gateLock' = g
    /\ rows' = [o \in Operations |->
                  IF o \in LeftInFlight
                  THEN [state |-> "unknown", call |-> rows[o].call,
                        result |-> rows[o].result, masked |-> rows[o].masked]
                  ELSE rows[o]]

ReleaseGate(g) == gateLock' = IF gateLock = g THEN NoGate ELSE gateLock

MaskedResults == {o \in Operations : rows[o].state = "done" /\ rows[o].masked}
=============================================================================
