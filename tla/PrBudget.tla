------------------------------ MODULE PrBudget ------------------------------
(***************************************************************************)
(* HiveCore's pull-request budget: the reservation rows of                 *)
(* pr_budget_reservations, the limits that govern them, the handlers of    *)
(* /pr-budgets, and the background sweep that reconciles committed rows    *)
(* with GitHub.                                                            *)
(*                                                                         *)
(* The callers are left open: any client may call any handler on any       *)
(* reservation in any order.  PrPublication closes the module with the     *)
(* one client that writes pull requests.                                   *)
(*                                                                         *)
(* Every database operation is one immediate SQLite transaction, hence one *)
(* action.  A handler that runs two transactions, or reads authority       *)
(* before it opens one, is two actions joined by an entry of calls.        *)
(*                                                                         *)
(* Time is abstracted to two facts: lapsed, the active rows whose lease    *)
(* has run out but which no transaction has swept yet, and cooling, the    *)
(* owners whose last recorded closed_unmerged outcome is younger than the  *)
(* cooldown.                                                               *)
(***************************************************************************)
EXTENDS Naturals, FiniteSets

CONSTANTS
  Reservations,    \* fresh reservation identifiers, one per client request
  Products,        \* product slugs
  Owners,          \* repository owners
  Runs,            \* product run identifiers
  Names,           \* repository names in the spellings GitHub and clients use
  Urls,            \* pull-request URLs
  NoUrl,           \* the empty pr_url of a row that was never committed
  Lower,           \* [Names -> Names]: to_ascii_lowercase
  OwnerOf,         \* [Names -> Owners]: the segment before the slash
  UrlRepo,         \* [Urls -> Names]: the repository segments of a URL
  ProductOf,       \* [Reservations -> Products]
  RepoOf,          \* [Reservations -> Names]: the requested repository, normalized
  RunOf,           \* [Reservations -> Runs]
  OwnerLimits,     \* per_owner_open_prs of the mandates, and 1 for direct runs
  MaxOwnerLimit,   \* the largest of OwnerLimits
  SuiteLimits,     \* the suite ceilings an operator saves
  LimitTables,     \* the product-limit tables an operator saves
  DefaultSuiteLimit,
  DefaultLimits,   \* [Products -> Nat]: default_product_pr_limit
  Callers,         \* the client tasks that commit: the writer and its retry loop
  ClientReasons,   \* the reasons clients give when they release one row
  PolicyStates,    \* the sets of repositories that authority refuses
  MaxCalls         \* bound on handlers in flight at one time

ASSUME ConstantTypes ==
  /\ IsFiniteSet(Reservations)
  /\ NoUrl \notin Urls
  /\ Lower \in [Names -> Names]
  /\ OwnerOf \in [Names -> Owners]
  /\ UrlRepo \in [Urls -> Names]
  /\ ProductOf \in [Reservations -> Products]
  /\ RepoOf \in [Reservations -> Names]
  /\ RunOf \in [Reservations -> Runs]
  /\ SuiteLimits \subseteq Nat
  /\ LimitTables \subseteq [Products -> Nat]
  /\ DefaultSuiteLimit \in Nat
  /\ DefaultLimits \in [Products -> Nat]
  /\ ClientReasons \subseteq {"dropped", "creation_failed", "operator"}
  /\ PolicyStates \subseteq SUBSET Names
  /\ MaxCalls \in Nat

\* A limit is an unsigned integer, and MaxOwnerLimit bounds those in use.
ASSUME OwnerLimitBound ==
  /\ OwnerLimits \subseteq Nat
  /\ MaxOwnerLimit \in Nat
  /\ \A n \in OwnerLimits : n <= MaxOwnerLimit

\* normalize_repo_name ran before the row was built.
ASSUME RequestsAreNormalized == \A r \in Reservations : Lower[RepoOf[r]] = RepoOf[r]

VARIABLES
  status,        \* the status column; "absent" before the row exists
  prUrl,         \* the pr_url column
  reason,        \* why a released row was released
  lapsed,        \* active rows with expires_at <= now
  suiteLimit,
  productLimit,
  refused,       \* repositories that pause, mandate or repository policy refuses
  cooling,       \* owners inside the cooldown of a recorded closure
  outcomes,      \* rows of hive_core_work_outcomes, as (url, kind)
  calls,         \* handlers between two of their transactions
  queue,         \* the sweep's snapshot of committed rows still to visit
  observed,      \* a closed pull request GitHub returned to the sweep
  freed          \* its row is released, its outcome not yet recorded

rowVars == <<status, prUrl, reason, lapsed>>
limitVars == <<suiteLimit, productLimit>>
sweepVars == <<queue, observed, freed>>
ledgerVars == <<rowVars, limitVars, refused, cooling, outcomes, calls, sweepVars>>

Active == {"reserved", "publishing", "committed"}
Freed == {"released", "expired"}
Statuses == {"absent"} \cup Active \cup Freed
Kinds == {"merged", "closed_unmerged"}
Answers == Kinds \cup {"open", "unavailable"}

\* Who releases a row: the dropped guard, the failed POST, the run release,
\* an operator, the reconciliation sweep.
Releasers == {"dropped", "creation_failed", "run", "operator", "reconciled"}

Findings == [res : Reservations, url : Urls, kind : Kinds]

Calls == [op : {"reserve"}, res : Reservations, limit : OwnerLimits]
           \cup [op : {"begin"}, res : Reservations]
           \cup [op : {"commit"}, res : Reservations, url : Urls, by : Callers]

\* Rows, URLs and memory hold values of the kinds the schema and code allow.
TypeOK ==
  /\ status \in [Reservations -> Statuses]
  /\ prUrl \in [Reservations -> Urls \cup {NoUrl}]
  /\ reason \in [Reservations -> Releasers \cup {"none"}]
  /\ lapsed \in SUBSET Reservations
  /\ suiteLimit \in Nat
  /\ productLimit \in [Products -> Nat]
  /\ refused \in SUBSET Names
  /\ cooling \in SUBSET Owners
  /\ outcomes \in SUBSET (Urls \X Kinds)
  /\ calls \in SUBSET Calls
  /\ queue \in SUBSET (Reservations \X Urls)
  /\ observed \in SUBSET Findings
  /\ freed \in SUBSET Findings

Init ==
  /\ status = [r \in Reservations |-> "absent"]
  /\ prUrl = [r \in Reservations |-> NoUrl]
  /\ reason = [r \in Reservations |-> "none"]
  /\ lapsed = {}
  /\ suiteLimit = DefaultSuiteLimit
  /\ productLimit = DefaultLimits
  /\ refused = {}
  /\ cooling = {}
  /\ outcomes = {}
  /\ calls = {}
  /\ queue = {}
  /\ observed = {}
  /\ freed = {}

-----------------------------------------------------------------------------
(* Leases and usage *)

\* The status column after expire_pr_reservations_in_transaction.
Swept ==
  [r \in Reservations |->
     IF status[r] \in Active /\ r \in lapsed THEN "expired" ELSE status[r]]

\* The reservations of a group that count against its limit.
Holders(st, group) == {r \in group : st[r] \in Active}

OfProduct(p) == {r \in Reservations : ProductOf[r] = p}
OfOwner(o) == {r \in Reservations : OwnerOf[RepoOf[r]] = o}

\* Faults: a ceiling that admits one too many, and a forgotten owner limit.
GrantableAtCeiling(st, r, ownerLimit) ==
  /\ OwnerOf[RepoOf[r]] \notin cooling
  /\ Cardinality(Holders(st, OfOwner(OwnerOf[RepoOf[r]]))) < ownerLimit
  /\ Cardinality(Holders(st, OfProduct(ProductOf[r]))) < productLimit[ProductOf[r]]
  /\ Cardinality(Holders(st, Reservations)) <= suiteLimit

GrantableToAnyOwner(st, r, ownerLimit) ==
  /\ OwnerOf[RepoOf[r]] \notin cooling
  /\ Cardinality(Holders(st, OfProduct(ProductOf[r]))) < productLimit[ProductOf[r]]
  /\ Cardinality(Holders(st, Reservations)) < suiteLimit

\* The transaction of reserve_pr_slot denies at the first of: cooldown, owner
\* limit, product limit, suite limit.  A limit of zero denies by comparison.
Grantable(st, r, ownerLimit) ==
  /\ OwnerOf[RepoOf[r]] \notin cooling
  /\ Cardinality(Holders(st, OfOwner(OwnerOf[RepoOf[r]]))) < ownerLimit
  /\ Cardinality(Holders(st, OfProduct(ProductOf[r]))) < productLimit[ProductOf[r]]
  /\ Cardinality(Holders(st, Reservations)) < suiteLimit

\* github_pull_request_url_matches_repository compares the URL's own spelling,
\* byte for byte, with the normalized repository of the row.
UrlMatches(r, u) == UrlRepo[u] = RepoOf[r]

\* Any operation that reads the budget sweeps it first.
SweepRows ==
  /\ status' = Swept
  /\ lapsed' = {}
  /\ UNCHANGED <<prUrl, reason>>

-----------------------------------------------------------------------------
(* Reserving *)

\* reserve_pr_budget reads pauses, the mandate and repository policy, each in
\* a connection of its own, before the row's transaction opens.
ReserveCheck(r, ownerLimit) ==
  /\ status[r] = "absent"
  /\ \A c \in calls : ~(c.op = "reserve" /\ c.res = r)
  /\ Cardinality(calls) < MaxCalls
  /\ RepoOf[r] \notin refused
  /\ calls' = calls \cup {[op |-> "reserve", res |-> r, limit |-> ownerLimit]}
  /\ UNCHANGED <<rowVars, limitVars, refused, cooling, outcomes, sweepVars>>

\* reserve_pr_slot: expiry, limits, cooldown and insert in one transaction.  A
\* denied request leaves no row.
ReserveDecide(r, ownerLimit) ==
  LET c == [op |-> "reserve", res |-> r, limit |-> ownerLimit]
  IN  /\ c \in calls
      /\ calls' = calls \ {c}
      /\ status' = IF Grantable(Swept, r, ownerLimit)
                   THEN [Swept EXCEPT ![r] = "reserved"]
                   ELSE Swept
      /\ lapsed' = {}
      /\ UNCHANGED <<prUrl, reason, limitVars, refused, cooling, outcomes, sweepVars>>

-----------------------------------------------------------------------------
(* Publishing and committing *)

\* begin_pr_budget_publication: the expiry transaction...
BeginSweep(r) ==
  /\ status[r] # "absent"
  /\ Cardinality(calls) < MaxCalls
  /\ calls' = calls \cup {[op |-> "begin", res |-> r]}
  /\ SweepRows
  /\ UNCHANGED <<limitVars, refused, cooling, outcomes, sweepVars>>

\* A fault: the update forgets that the row must still be reserved.
BeginApplyUnchecked(r) ==
  LET c == [op |-> "begin", res |-> r]
  IN  /\ c \in calls
      /\ calls' = calls \ {c}
      /\ status' = [status EXCEPT ![r] = "publishing"]
      /\ lapsed' = lapsed \ {r}
      /\ UNCHANGED <<prUrl, reason, limitVars, refused, cooling, outcomes, sweepVars>>

\* ... and the update, which renews the lease of a row that is still reserved.
BeginApply(r) ==
  LET c == [op |-> "begin", res |-> r]
  IN  /\ c \in calls
      /\ calls' = calls \ {c}
      /\ IF status[r] = "reserved"
         THEN /\ status' = [status EXCEPT ![r] = "publishing"]
              /\ lapsed' = lapsed \ {r}
         ELSE UNCHANGED <<status, lapsed>>
      /\ UNCHANGED <<prUrl, reason, limitVars, refused, cooling, outcomes, sweepVars>>

\* commit_pr_budget_reservation checks the URL, then sweeps...
CommitSweep(r, u, by) ==
  /\ status[r] # "absent"
  /\ UrlMatches(r, u)
  /\ Cardinality(calls) < MaxCalls
  /\ calls' = calls \cup {[op |-> "commit", res |-> r, url |-> u, by |-> by]}
  /\ SweepRows
  /\ UNCHANGED <<limitVars, refused, cooling, outcomes, sweepVars>>

\* ... and attaches the URL to a row that is still publishing.
CommitApply(r, u, by) ==
  LET c == [op |-> "commit", res |-> r, url |-> u, by |-> by]
  IN  /\ c \in calls
      /\ calls' = calls \ {c}
      /\ IF status[r] = "publishing"
         THEN /\ status' = [status EXCEPT ![r] = "committed"]
              /\ prUrl' = [prUrl EXCEPT ![r] = u]
              /\ lapsed' = lapsed \ {r}
         ELSE UNCHANGED <<status, prUrl, lapsed>>
      /\ UNCHANGED <<reason, limitVars, refused, cooling, outcomes, sweepVars>>

-----------------------------------------------------------------------------
(* Releasing *)

\* The rows of gone leave the budget; nothing is swept first.
FreeRows(gone, why) ==
  /\ status' = [r \in Reservations |-> IF r \in gone THEN "released" ELSE status[r]]
  /\ reason' = [r \in Reservations |-> IF r \in gone THEN why ELSE reason[r]]
  /\ lapsed' = lapsed \ gone
  /\ UNCHANGED prUrl

\* release_pr_reservation, for the write path and for the operator.
Release(r, why) ==
  /\ status[r] \in Active
  /\ why \in ClientReasons
  /\ FreeRows({r}, why)
  /\ UNCHANGED <<limitVars, refused, cooling, outcomes, calls, sweepVars>>

\* release_pr_reservations_for_run: every active row of the run at once.
ReleaseForRun(p, run) ==
  LET rows == {r \in OfProduct(p) : RunOf[r] = run /\ status[r] \in Active}
  IN  /\ rows # {}
      /\ FreeRows(rows, "run")
      /\ UNCHANGED <<limitVars, refused, cooling, outcomes, calls, sweepVars>>

-----------------------------------------------------------------------------
(* The reconciliation sweep *)

\* committed_pr_reservations: the snapshot the sweep walks.
ReconcileStart ==
  /\ queue = {} /\ observed = {} /\ freed = {}
  /\ SweepRows
  /\ queue' = {<<r, prUrl[r]>> : r \in {x \in Reservations : Swept[x] = "committed"}}
  /\ UNCHANGED <<limitVars, refused, cooling, outcomes, calls, observed, freed>>

\* A fault: every answer about the right repository counts as a closure.
ReconcileFetchTrusting(r, u, answer) ==
  /\ observed = {} /\ freed = {}
  /\ <<r, u>> \in queue
  /\ queue' = queue \ {<<r, u>>}
  /\ observed' = IF Lower[UrlRepo[u]] = RepoOf[r]
                 THEN {[res |-> r, url |-> u, kind |-> answer]}
                 ELSE {}
  /\ UNCHANGED <<rowVars, limitVars, refused, cooling, outcomes, calls, freed>>

\* reconcile_reservation asks GitHub about one row of the snapshot.  Open and
\* unavailable answers, and a URL of another repository, keep the row.
ReconcileFetch(r, u, answer) ==
  /\ observed = {} /\ freed = {}
  /\ <<r, u>> \in queue
  /\ queue' = queue \ {<<r, u>>}
  /\ observed' = IF answer \in Kinds /\ Lower[UrlRepo[u]] = RepoOf[r]
                 THEN {[res |-> r, url |-> u, kind |-> answer]}
                 ELSE {}
  /\ UNCHANGED <<rowVars, limitVars, refused, cooling, outcomes, calls, freed>>

\* Faults: an outcome goes on although the row had changed, and a closure that
\* merged nothing frees nothing.
ReconcileReleaseUnchecked(f) ==
  /\ f \in observed
  /\ observed' = {}
  /\ freed' = {f}
  /\ IF status[f.res] = "committed" /\ prUrl[f.res] = f.url
     THEN FreeRows({f.res}, "reconciled")
     ELSE UNCHANGED rowVars
  /\ UNCHANGED <<limitVars, refused, cooling, outcomes, calls, queue>>

ReconcileReleaseMergedOnly(f) ==
  /\ f \in observed
  /\ observed' = {}
  /\ IF status[f.res] = "committed" /\ prUrl[f.res] = f.url /\ f.kind = "merged"
     THEN FreeRows({f.res}, "reconciled") /\ freed' = {f}
     ELSE UNCHANGED <<rowVars, freed>>
  /\ UNCHANGED <<limitVars, refused, cooling, outcomes, calls, queue>>

\* release_reconciled_pr_reservation: only the committed row with that URL.
ReconcileRelease(f) ==
  /\ f \in observed
  /\ observed' = {}
  /\ IF status[f.res] = "committed" /\ prUrl[f.res] = f.url
     THEN FreeRows({f.res}, "reconciled") /\ freed' = {f}
     ELSE UNCHANGED <<rowVars, freed>>
  /\ UNCHANGED <<limitVars, refused, cooling, outcomes, calls, queue>>

\* record_reconciled_pr_outcome, a second transaction.  A closure that was not
\* recorded before starts the owner's cooldown.
ReconcileRecord(f) ==
  /\ f \in freed
  /\ freed' = {}
  /\ outcomes' = outcomes \cup {<<f.url, f.kind>>}
  /\ cooling' = IF f.kind = "closed_unmerged" /\ <<f.url, f.kind>> \notin outcomes
                THEN cooling \cup {OwnerOf[RepoOf[f.res]]}
                ELSE cooling
  /\ UNCHANGED <<rowVars, limitVars, refused, calls, queue, observed>>

\* The second transaction fails: the sweep counts a failure and moves on.
ReconcileRecordFails(f) ==
  /\ f \in freed
  /\ freed' = {}
  /\ UNCHANGED <<rowVars, limitVars, refused, cooling, outcomes, calls, queue, observed>>

-----------------------------------------------------------------------------
(* Settings, time and failure *)

\* save_pr_budget_settings replaces the ceiling and the whole product table.
SaveSettings(suite, table) ==
  /\ <<suite, table>> # <<suiteLimit, productLimit>>
  /\ suiteLimit' = suite
  /\ productLimit' = table
  /\ UNCHANGED <<rowVars, refused, cooling, outcomes, calls, sweepVars>>

\* A pause, an opt-out, a denial or a mandate change is recorded elsewhere.
ChangePolicy(names) ==
  /\ names # refused
  /\ refused' = names
  /\ UNCHANGED <<rowVars, limitVars, cooling, outcomes, calls, sweepVars>>

\* Any read of the budget sweeps it.
ReadBudget ==
  /\ lapsed # {}
  /\ SweepRows
  /\ UNCHANGED <<limitVars, refused, cooling, outcomes, calls, sweepVars>>

LeaseLapses(r) ==
  /\ status[r] \in Active
  /\ r \notin lapsed
  /\ lapsed' = lapsed \cup {r}
  /\ UNCHANGED <<status, prUrl, reason, limitVars, refused, cooling, outcomes, calls, sweepVars>>

CooldownEnds(o) ==
  /\ o \in cooling
  /\ cooling' = cooling \ {o}
  /\ UNCHANGED <<rowVars, limitVars, refused, outcomes, calls, sweepVars>>

\* HiveCore stops and starts again: what was in memory is gone.
HiveCoreRestarts ==
  /\ calls # {} \/ queue # {} \/ observed # {} \/ freed # {}
  /\ calls' = {}
  /\ queue' = {}
  /\ observed' = {}
  /\ freed' = {}
  /\ UNCHANGED <<rowVars, limitVars, refused, cooling, outcomes>>

-----------------------------------------------------------------------------

Requests ==
  \E r \in Reservations :
    \/ \E n \in OwnerLimits : ReserveCheck(r, n) \/ ReserveDecide(r, n)
    \/ BeginSweep(r)
    \/ BeginApply(r)
    \/ \E u \in Urls, by \in Callers : CommitSweep(r, u, by) \/ CommitApply(r, u, by)
    \/ \E why \in ClientReasons : Release(r, why)
    \/ LeaseLapses(r)

Reconciliation ==
  \/ ReconcileStart
  \/ \E r \in Reservations, u \in Urls, a \in Answers : ReconcileFetch(r, u, a)
  \/ \E f \in observed : ReconcileRelease(f)
  \/ \E f \in freed : ReconcileRecord(f) \/ ReconcileRecordFails(f)

Surroundings ==
  \/ \E p \in Products, run \in Runs : ReleaseForRun(p, run)
  \/ \E n \in SuiteLimits, t \in LimitTables : SaveSettings(n, t)
  \/ \E names \in PolicyStates : ChangePolicy(names)
  \/ ReadBudget
  \/ \E o \in Owners : CooldownEnds(o)
  \/ HiveCoreRestarts

Next == Requests \/ Reconciliation \/ Surroundings

Spec == Init /\ [][Next]_ledgerVars

-----------------------------------------------------------------------------
(* Properties *)

\* Every row of the ledger against the suite ceiling...
Suite == INSTANCE CapacityPool WITH
  Slots <- Reservations,
  held <- Holders(status, Reservations),
  spent <- {r \in Reservations : status[r] \in Freed},
  limit <- suiteLimit

\* ... and the rows of one product or owner against theirs.
Pool(group, ceiling) == INSTANCE CapacityPool WITH
  Slots <- group,
  held <- Holders(status, group),
  spent <- {r \in group : status[r] \in Freed},
  limit <- ceiling

(***************************************************************************)
(* The suite ceiling behaves as a capacity pool: across expiry sweeps,     *)
(* late commits, run-wide releases and lowered limits, no reservation ever *)
(* counts twice, comes back after it was freed, or is granted beyond the   *)
(* ceiling in force at that moment (reserve_pr_slot_with_connection).      *)
(***************************************************************************)
SuitePool == Suite!PoolSpec

(***************************************************************************)
(* The min(product remaining, suite remaining) rule and owner politeness:  *)
(* every product's rows and every owner's rows are capacity pools as well, *)
(* at the same time as the suite's.                                        *)
(***************************************************************************)
LayerPools ==
  [][/\ \A p \in Products :
          Pool(OfProduct(p), productLimit[p])!PoolNext
            \/ UNCHANGED Pool(OfProduct(p), productLimit[p])!poolVars
     /\ \A o \in Owners :
          Pool(OfOwner(o), MaxOwnerLimit)!Turnover
            \/ UNCHANGED Pool(OfOwner(o), MaxOwnerLimit)!poolVars]_ledgerVars

(***************************************************************************)
(* The row and its URL stay together through every lifecycle: a committed  *)
(* row has a URL of its own repository, a row that has not reached commit  *)
(* has none, and a freed row keeps the one it had.  decode_pr_reservation  *)
(* maps any other combination to Unknown evidence.                         *)
(***************************************************************************)
RowsDecode ==
  \A r \in Reservations :
    /\ status[r] \in {"absent", "reserved", "publishing"} => prUrl[r] = NoUrl
    /\ status[r] = "committed" => prUrl[r] # NoUrl
    /\ prUrl[r] # NoUrl => UrlRepo[prUrl[r]] = RepoOf[r]
    /\ reason[r] # "none" <=> status[r] = "released"

(***************************************************************************)
(* Nothing reaches the outcome ledger, and so no owner is put in cooldown, *)
(* for a pull request whose exact row the sweep did not release itself:    *)
(* stale snapshots, late commits and restarts never fabricate an outcome.  *)
(***************************************************************************)
OutcomesFollowReconciledRows ==
  /\ \A x \in outcomes :
       \E r \in Reservations :
         prUrl[r] = x[1] /\ status[r] = "released" /\ reason[r] = "reconciled"
  /\ \A f \in freed :
       prUrl[f.res] = f.url /\ status[f.res] = "released" /\ reason[f.res] = "reconciled"

(***************************************************************************)
(* "Every reconciled PR resolves to merged or closed-unmerged and is       *)
(* written to the unified outcome ledger": a row the sweep released has an *)
(* outcome as soon as the sweep is no longer working on it.                *)
(***************************************************************************)
ReconciledOutcomesRecorded ==
  \A r \in Reservations :
    reason[r] = "reconciled" /\ (\A f \in freed : f.res # r)
      => \E k \in Kinds : <<prUrl[r], k>> \in outcomes
=============================================================================
