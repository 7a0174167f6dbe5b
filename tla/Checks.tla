------------------------------- MODULE Checks -------------------------------
(***************************************************************************)
(* Chains of checks with early returns.  A chain is a sequence of pairs    *)
(* <<failed, code>> in the order in which the code makes the checks: the   *)
(* first that fails is the one reported.                                   *)
(***************************************************************************)
EXTENDS Naturals, Sequences

Failing(chain) == {i \in DOMAIN chain : chain[i][1]}

\* The code of the first failing check, "ok" when all of them pass.
FirstFailure(chain) ==
    IF Failing(chain) = {} THEN "ok"
    ELSE chain[CHOOSE i \in Failing(chain) : \A j \in Failing(chain) : i <= j][2]

\* The codes of all failing checks, for code that goes on and collects them.
AllFailures(chain) == {chain[i][2] : i \in Failing(chain)}
===============================================================================
