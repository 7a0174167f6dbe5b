----------------------------- MODULE AtMostOnce -----------------------------
(***************************************************************************)
(* What the side-effect coordinator promises, without gates, requests,     *)
(* replies or crashes: an operation runs one attempt at a time, its effect *)
(* happens only while it runs or is held for an operator, at most once,    *)
(* and it is free to run again only if the effect did not happen.          *)
(***************************************************************************)
CONSTANTS Operations, Attempts

VARIABLES
    standing,   \* standing[o]: may o run, is it running, held, or done
    acted       \* acted[o]: the attempts whose effect happened

absVars == <<standing, acted>>

Standings == {"free", "running", "held", "done"}

AbsInit ==
    /\ standing = [o \in Operations |-> "free"]
    /\ acted = [o \in Operations |-> {}]

Move(o, from, to) ==
    /\ standing[o] = from
    /\ standing' = [standing EXCEPT ![o] = to]
    /\ UNCHANGED acted

Run(o) == Move(o, "free", "running")

Act(o, a) ==
    /\ standing[o] \in {"running", "held"}
    /\ acted[o] = {}
    /\ acted' = [acted EXCEPT ![o] = {a}]
    /\ UNCHANGED standing

Complete(o) == acted[o] # {} /\ Move(o, "running", "done")

GiveUp(o) == acted[o] = {} /\ Move(o, "running", "free")

\* The outcome is lost: of one operation, or of every running one at once.
Lose(S) ==
    /\ \A o \in S : standing[o] = "running"
    /\ standing' = [o \in Operations |-> IF o \in S THEN "held" ELSE standing[o]]
    /\ UNCHANGED acted

Resolve(o) == Move(o, "held", IF acted[o] = {} THEN "free" ELSE "done")

AbsNext ==
    \/ \E o \in Operations :
          \/ Run(o) \/ Complete(o) \/ GiveUp(o) \/ Resolve(o)
          \/ \E a \in Attempts : Act(o, a)
    \/ \E S \in SUBSET Operations : Lose(S)

AbsSpec == AbsInit /\ [][AbsNext]_absVars
=============================================================================
