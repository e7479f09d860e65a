---------------------------- MODULE MCWorkEngine ----------------------------
(***************************************************************************)
(* Two work items that share one sandbox slot, and three tasks: two        *)
(* engine cycles with a call that spends an approval, or one cycle with    *)
(* two such calls, which may overlap.  The product of "fix" answers for    *)
(* its action with either contract; that of "audit" never answers, so its  *)
(* dispatches are refused after they took their resources.  An answer may  *)
(* cost twice its estimate, and the day's limit is two estimates.          *)
(***************************************************************************)
EXTENDS WorkEngine

CONSTANTS suite, mandate   \* model values

MCCovered == [x \in Scopes |-> IF x = suite THEN Items ELSE {"fix"}]
MCContracts == [i \in Items |-> IF i = "fix" THEN {"gated", "automatic"} ELSE {}]
MCRateLimits == {{[limit |-> 2, remaining |-> 2]}, {}}
MCOwnerStates == {{[cooling |-> FALSE, open |-> 0, limit |-> 1]}}
MCSmokeStates == {Tiers, {"first_stack"}}
=============================================================================
