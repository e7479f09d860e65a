-------------------------- MODULE MCPrPublication --------------------------
(***************************************************************************)
(* Up to two issues of one RepoReaper run in one repository of one owner.  *)
(* GitHub returns a URL with the repository in its own spelling, while a   *)
(* reservation holds it normalized: Mixed names the pull requests for      *)
(* which the two differ.                                                   *)
(***************************************************************************)
EXTENDS PrPublication

CONSTANTS
  Mixed,               \* URLs that spell the repository with capitals
  r1, r2, url1, url2   \* model values

MCProducts == {"reaper"}
MCNames == {"acme/app", "Acme/App"}
MCUrls == {url1, url2}
MCLower == [n \in MCNames |-> "acme/app"]
MCOwnerOf == [n \in MCNames |-> "acme"]
MCUrlRepo == [u \in MCUrls |-> IF u \in Mixed THEN "Acme/App" ELSE "acme/app"]
MCProductOf == [r \in Reservations |-> "reaper"]
MCRepoOf == [r \in Reservations |-> "acme/app"]
MCRunOf == [r \in Reservations |-> "run1"]
MCPrOf == [r \in Reservations |-> IF r = r1 THEN url1 ELSE url2]
MCDefaultLimits == [p \in MCProducts |-> 2]
MCLimitTables == {[p \in MCProducts |-> 1]}
MCPolicyStates == {{"acme/app"}}
=============================================================================
