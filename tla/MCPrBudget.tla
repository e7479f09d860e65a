----------------------------- MODULE MCPrBudget -----------------------------
(***************************************************************************)
(* A small ledger for TLC in which each layer of the budget is the one     *)
(* that refuses: r1 and r2 share an owner that allows one pull request, r1 *)
(* and r3 share a product whose limit the operator lowers from two to one, *)
(* and the suite ceiling drops from two to one.                            *)
(***************************************************************************)
EXTENDS PrBudget

MCReservations == {"r1", "r2", "r3"}
MCProducts == {"reaper", "scout"}
MCOwners == {"acme", "zeta"}
MCRuns == {"run1", "run2"}
MCNames == {"acme/app", "Acme/App", "zeta/lib"}
MCUrls == {"app/1"}

MCLower == [n \in MCNames |-> IF n = "Acme/App" THEN "acme/app" ELSE n]
MCOwnerOf == [n \in MCNames |-> IF n = "zeta/lib" THEN "zeta" ELSE "acme"]
MCUrlRepo == [u \in MCUrls |-> "acme/app"]
MCProductOf == [r \in MCReservations |-> IF r = "r2" THEN "scout" ELSE "reaper"]
MCRepoOf == [r \in MCReservations |-> IF r = "r3" THEN "zeta/lib" ELSE "acme/app"]
MCRunOf == [r \in MCReservations |-> IF r = "r2" THEN "run2" ELSE "run1"]

MCDefaultLimits == [p \in MCProducts |-> IF p = "reaper" THEN 2 ELSE 1]
MCLimitTables == {[p \in MCProducts |-> 1]}
MCPolicyStates == {{"acme/app"}}
=============================================================================
