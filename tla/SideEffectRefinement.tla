------------------------ MODULE SideEffectRefinement ------------------------
(* SideEffectGate implements AtMostOnce: the rows and the tool's acts alone *)
(* show the promise, whatever gates, agents and operators do.               *)
EXTENDS SideEffectGate

standingOf(state) ==
    CASE state = "in_flight" -> "running"
      [] state = "unknown"   -> "held"
      [] state = "done"      -> "done"
      [] OTHER               -> "free"

standingBar == [o \in Operations |-> standingOf(rows[o].state)]
actedBar == [o \in Operations |-> {a \in Attempts : info[a].op = o /\ up[a] = "committed"}]

Promise == INSTANCE AtMostOnce WITH standing <- standingBar, acted <- actedBar

\* Every step of the gates, their agents, the tools and the operators is a
\* step of the promise, or changes nothing it speaks of: an operation whose
\* row is retryable has had no effect, and its effect happens at most once.
ImplementsAtMostOnce == Promise!AbsSpec
=============================================================================
