--------------------------- MODULE PrPublication ---------------------------
(***************************************************************************)
(* The life of an autonomous pull request: RepoReaper's write path and its *)
(* background loops as the clients of HiveCore's budget, and GitHub as the *)
(* place where the pull request really is.                                 *)
(*                                                                         *)
(* One worker per reservation walks publish_pull_request and the guard     *)
(* that holds the slot.  A request HiveCore serves and an answer RepoReaper *)
(* receives are one step; a caller that stops waiting takes a step of its  *)
(* own, before or after HiveCore has served it, so a lost request, a lost  *)
(* answer and a late handler are all behaviours.  Either process restarts  *)
(* at any time, at most MaxRestarts times in all.                          *)
(***************************************************************************)
EXTENDS PrBudget

CONSTANTS
  PrOf,         \* [Reservations -> Urls]: the html_url GitHub would return
  MaxRestarts   \* bound on the restarts of the two processes

\* Every worker posts to the repository it reserved for, and GitHub never
\* returns one URL twice.  Two tasks commit a row: the worker and the retry loop.
ASSUME PullRequestsAreDistinct ==
  /\ PrOf \in [Reservations -> Urls]
  /\ MaxRestarts \in Nat
  /\ {"writer", "retry"} \subseteq Callers
  /\ \A r \in Reservations : Lower[UrlRepo[PrOf[r]]] = RepoOf[r]
  /\ \A r, s \in Reservations : PrOf[r] = PrOf[s] => r = s

VARIABLES
  github,       \* the state of the pull request, "none" until it exists
  worker,       \* where the write path of the reservation is
  commitState,  \* repo_reaper_pr_reservation_commits, with the last error
  tracking,     \* repo_reaper_pr_tracking
  polled,       \* the closed pull request whose run release is being sent
  retrying,     \* the row the retry loop waits on
  restarts

reaperVars == <<worker, commitState, tracking, polled, retrying>>
vars == <<ledgerVars, github, reaperVars, restarts>>

WorkerSteps ==
  {"idle", "requesting", "reserved", "beginning", "dropping", "publishing",
   "post_failed", "opened", "recorded", "committing", "settled", "done"}

\* The pending states differ in the last error they carry.
Pending == {"pending", "refused_url", "refused_state"}

\* Process memory and the two RepoReaper tables hold values they may hold.
PublicationTypeOK ==
  /\ TypeOK
  /\ github \in [Reservations -> {"none", "open"} \cup Kinds]
  /\ worker \in [Reservations -> WorkerSteps]
  /\ commitState \in [Reservations -> {"none", "committed"} \cup Pending]
  /\ tracking \in [Reservations -> {"none", "open", "closed"}]
  /\ polled \in SUBSET Reservations
  /\ retrying \in SUBSET Reservations
  /\ restarts \in 0..MaxRestarts

PublicationInit ==
  /\ Init
  /\ github = [r \in Reservations |-> "none"]
  /\ worker = [r \in Reservations |-> "idle"]
  /\ commitState = [r \in Reservations |-> "none"]
  /\ tracking = [r \in Reservations |-> "none"]
  /\ polled = {}
  /\ retrying = {}
  /\ restarts = 0

\* The worker moves on and nothing else in RepoReaper changes.
WorkerGoes(r, from, to) ==
  /\ worker[r] = from
  /\ worker' = [worker EXCEPT ![r] = to]
  /\ UNCHANGED <<commitState, tracking, polled, retrying, restarts>>

-----------------------------------------------------------------------------
(* Reserving: request_pr_budget *)

RequestBudget(r, ownerLimit) ==
  /\ ReserveCheck(r, ownerLimit)
  /\ WorkerGoes(r, "idle", "requesting")
  /\ UNCHANGED github

\* A granted answer makes a guard; a denied attempt ends, to be made again by
\* a later run.  The answer to a caller that has gone away is dropped.
ReserveAnswered(r, ownerLimit) ==
  /\ ReserveDecide(r, ownerLimit)
  /\ worker' = IF worker[r] = "requesting"
               THEN [worker EXCEPT ![r] =
                       IF status'[r] = "reserved" THEN "reserved" ELSE "idle"]
               ELSE worker
  /\ UNCHANGED <<github, commitState, tracking, polled, retrying, restarts>>

\* A transport failure is an error, never a grant.
RequestFails(r) ==
  /\ WorkerGoes(r, "requesting", "done")
  /\ UNCHANGED <<ledgerVars, github>>

-----------------------------------------------------------------------------
(* Publishing: publish_pull_request and PrBudgetGuard *)

BeginPublication(r) ==
  /\ BeginSweep(r)
  /\ WorkerGoes(r, "reserved", "beginning")
  /\ UNCHANGED github

\* The guard advances only on an acknowledged publishing row; any other answer
\* drops it while it still believes the row is reserved.
BeginAnswered(r) ==
  /\ BeginApply(r)
  /\ worker' = IF worker[r] = "beginning"
               THEN [worker EXCEPT ![r] =
                       IF status'[r] = "publishing" THEN "publishing" ELSE "dropping"]
               ELSE worker
  /\ UNCHANGED <<github, commitState, tracking, polled, retrying, restarts>>

\* A fault: no acknowledgement is taken for one.
BeginFailsOpen(r) ==
  /\ WorkerGoes(r, "beginning", "publishing")
  /\ UNCHANGED <<ledgerVars, github>>

BeginFails(r) ==
  /\ WorkerGoes(r, "beginning", "dropping")
  /\ UNCHANGED <<ledgerVars, github>>

\* A guard dropped in the reserved state releases the row on a detached task.
DropReleases(r) ==
  /\ Release(r, "dropped")
  /\ WorkerGoes(r, "dropping", "done")
  /\ UNCHANGED github

DropReleaseFails(r) ==
  /\ WorkerGoes(r, "dropping", "done")
  /\ UNCHANGED <<ledgerVars, github>>

\* git_commit_push fails: a guard dropped while publishing retains the row.
PushFails(r) ==
  /\ WorkerGoes(r, "publishing", "done")
  /\ UNCHANGED <<ledgerVars, github>>

\* POST /repos/{repo}/pulls.  The pull request may exist although the worker
\* reads an error, and an answer without a URL drops the publishing guard.
PostPullRequest(r) ==
  /\ \/ /\ github' = [github EXCEPT ![r] = "open"]
        /\ \E next \in {"opened", "post_failed", "done"} : WorkerGoes(r, "publishing", next)
     \/ /\ WorkerGoes(r, "publishing", "post_failed")
        /\ UNCHANGED github
  /\ UNCHANGED ledgerVars

\* guard.release("GitHub PR creation failed.")
PostFailureReleases(r) ==
  /\ Release(r, "creation_failed")
  /\ WorkerGoes(r, "post_failed", "done")
  /\ UNCHANGED github

PostFailureReleaseFails(r) ==
  /\ WorkerGoes(r, "post_failed", "done")
  /\ UNCHANGED <<ledgerVars, github>>

-----------------------------------------------------------------------------
(* Committing: the exact URL, first recorded durably *)

\* record_pr_reservation_commit_pending; its failure does not stop the commit.
RecordPending(r) ==
  /\ worker[r] = "opened"
  /\ worker' = [worker EXCEPT ![r] = "recorded"]
  /\ \E durable \in BOOLEAN :
       commitState' = IF durable THEN [commitState EXCEPT ![r] = "pending"] ELSE commitState
  /\ UNCHANGED <<ledgerVars, github, tracking, polled, retrying, restarts>>

\* record_pr_reservation_commit_failure, where a pending record was made.
FailureRecorded(r, error) ==
  IF commitState[r] = "none" THEN commitState ELSE [commitState EXCEPT ![r] = error]

CommitCalled(r) ==
  /\ CommitSweep(r, PrOf[r], "writer")
  /\ WorkerGoes(r, "recorded", "committing")
  /\ UNCHANGED github

\* The handler refuses a URL outside the reserved repository.
CommitRefusedUrl(r) ==
  /\ worker[r] = "recorded"
  /\ ~UrlMatches(r, PrOf[r])
  /\ worker' = [worker EXCEPT ![r] = "settled"]
  /\ commitState' = FailureRecorded(r, "refused_url")
  /\ UNCHANGED <<ledgerVars, github, tracking, polled, retrying, restarts>>

\* HiveCore compares the URL before it commits the row.
Commit(r) == IF UrlMatches(r, PrOf[r]) THEN CommitCalled(r) ELSE CommitRefusedUrl(r)

\* record_pr_reservation_committed, which may fail: the row is committed and
\* the local record stays what it was.
AcknowledgementRecorded(r) ==
  commitState' \in {commitState, [commitState EXCEPT ![r] = "committed"]}

\* The commit succeeded when the row now holds exactly this URL.
CommitAnswered(r) ==
  /\ CommitApply(r, PrOf[r], "writer")
  /\ IF worker[r] = "committing"
     THEN /\ worker' = [worker EXCEPT ![r] = "settled"]
          /\ IF status'[r] = "committed" /\ prUrl'[r] = PrOf[r]
             THEN AcknowledgementRecorded(r)
             ELSE commitState' = FailureRecorded(r, "refused_state")
     ELSE UNCHANGED <<worker, commitState>>
  /\ UNCHANGED <<github, tracking, polled, retrying, restarts>>

CommitFails(r) ==
  /\ worker[r] \in {"recorded", "committing"}
  /\ worker' = [worker EXCEPT ![r] = "settled"]
  /\ commitState' = FailureRecorded(r, "pending")
  /\ UNCHANGED <<ledgerVars, github, tracking, polled, retrying, restarts>>

\* track_pr, whose failure is ignored.
TrackPr(r) ==
  /\ worker[r] = "settled"
  /\ worker' = [worker EXCEPT ![r] = "done"]
  /\ \E stored \in BOOLEAN :
       tracking' = IF stored THEN [tracking EXCEPT ![r] = "open"] ELSE tracking
  /\ UNCHANGED <<ledgerVars, github, commitState, polled, retrying, restarts>>

-----------------------------------------------------------------------------
(* RepoReaper's loops: commit retries and the pull-request poll *)

\* pr_reservation_commit_retry_loop awaits one row before it takes the next.
RetryCalled(r) ==
  /\ commitState[r] \in Pending
  /\ retrying = {}
  /\ CommitSweep(r, PrOf[r], "retry")
  /\ retrying' = {r}
  /\ UNCHANGED <<github, worker, commitState, tracking, polled, restarts>>

RetryRefusedUrl(r) ==
  /\ commitState[r] \in Pending
  /\ retrying = {}
  /\ ~UrlMatches(r, PrOf[r])
  /\ commitState' = [commitState EXCEPT ![r] = "refused_url"]
  /\ UNCHANGED <<ledgerVars, github, worker, tracking, polled, retrying, restarts>>

Retry(r) == IF UrlMatches(r, PrOf[r]) THEN RetryCalled(r) ELSE RetryRefusedUrl(r)

\* A fault: any answer settles the pending commit.
RetryAnsweredTrusting(r) ==
  /\ CommitApply(r, PrOf[r], "retry")
  /\ IF r \in retrying
     THEN /\ retrying' = retrying \ {r}
          /\ commitState' = [commitState EXCEPT ![r] = "committed"]
     ELSE UNCHANGED <<retrying, commitState>>
  /\ UNCHANGED <<github, worker, tracking, polled, restarts>>

\* Unlike the worker, the loop accepts any committed row.
RetryAnswered(r) ==
  /\ CommitApply(r, PrOf[r], "retry")
  /\ IF r \in retrying
     THEN /\ retrying' = retrying \ {r}
          /\ IF status'[r] = "committed"
             THEN AcknowledgementRecorded(r)
             ELSE commitState' = [commitState EXCEPT ![r] = "refused_state"]
     ELSE UNCHANGED <<retrying, commitState>>
  /\ UNCHANGED <<github, worker, tracking, polled, restarts>>

\* A fault: a failed retry forgets the pending commit.
RetryFailsForgets(r) ==
  /\ r \in retrying
  /\ retrying' = retrying \ {r}
  /\ commitState' = [commitState EXCEPT ![r] = "none"]
  /\ UNCHANGED <<ledgerVars, github, worker, tracking, polled, restarts>>

RetryFails(r) ==
  /\ r \in retrying
  /\ retrying' = retrying \ {r}
  /\ commitState' = [commitState EXCEPT ![r] = "pending"]
  /\ UNCHANGED <<ledgerVars, github, worker, tracking, polled, restarts>>

\* A fault: the poll stores how the pull request ended instead of its state.
PollObservesEnd(r) ==
  /\ polled = {}
  /\ tracking[r] = "open"
  /\ github[r] \in Kinds
  /\ tracking' = [tracking EXCEPT ![r] = github[r]]
  /\ polled' = {r}
  /\ UNCHANGED <<ledgerVars, github, worker, commitState, retrying, restarts>>

\* poll_all_prs, one pull request at a time, notes the closure first, if the
\* write succeeds.  A row whose read failed is stored as unknown and polled
\* again, like an open one...
PollObserves(r) ==
  /\ polled = {}
  /\ tracking[r] = "open"
  /\ github[r] \in Kinds
  /\ \E stored \in BOOLEAN :
       tracking' = IF stored THEN [tracking EXCEPT ![r] = "closed"] ELSE tracking
  /\ polled' = {r}
  /\ UNCHANGED <<ledgerVars, github, worker, commitState, retrying, restarts>>

\* ... and then asks once for every slot of the run.
PollReleasesRun(r) ==
  /\ r \in polled
  /\ polled' = polled \ {r}
  /\ \/ ReleaseForRun(ProductOf[r], RunOf[r])
     \/ UNCHANGED ledgerVars
  /\ UNCHANGED <<github, worker, commitState, tracking, retrying, restarts>>

-----------------------------------------------------------------------------
(* The world *)

MaintainerCloses(r) ==
  /\ github[r] = "open"
  /\ \E k \in Kinds : github' = [github EXCEPT ![r] = k]
  /\ UNCHANGED <<ledgerVars, reaperVars, restarts>>

\* RepoReaper stops: workers and loops are gone, its tables are not.
ReaperRestarts ==
  /\ restarts < MaxRestarts
  /\ restarts' = restarts + 1
  /\ worker' = [r \in Reservations |-> IF worker[r] = "idle" THEN "idle" ELSE "done"]
  /\ polled' = {}
  /\ retrying' = {}
  /\ UNCHANGED <<ledgerVars, github, commitState, tracking>>

HiveCoreStops ==
  /\ restarts < MaxRestarts
  /\ restarts' = restarts + 1
  /\ HiveCoreRestarts
  /\ UNCHANGED <<github, reaperVars>>

\* The sweep reads GitHub's state, or fails to.
SweepAsks(r) == ReconcileFetch(r, PrOf[r], github[r]) /\ UNCHANGED <<github, reaperVars, restarts>>
SweepMisses(r) == ReconcileFetch(r, PrOf[r], "unavailable") /\ UNCHANGED <<github, reaperVars, restarts>>
SweepStarts == ReconcileStart /\ UNCHANGED <<github, reaperVars, restarts>>

SweepSettles ==
  /\ \/ \E f \in observed : ReconcileRelease(f)
     \/ \E f \in freed : ReconcileRecord(f) \/ ReconcileRecordFails(f)
  /\ UNCHANGED <<github, reaperVars, restarts>>

HiveCoreElsewhere ==
  /\ \/ \E r \in Reservations : LeaseLapses(r) \/ ("operator" \in ClientReasons /\ Release(r, "operator"))
     \/ \E o \in Owners : CooldownEnds(o)
     \/ \E names \in PolicyStates : ChangePolicy(names)
     \/ \E n \in SuiteLimits, t \in LimitTables : SaveSettings(n, t)
     \/ ReadBudget
  /\ UNCHANGED <<github, reaperVars, restarts>>

WorkerStep(r) ==
  \/ \E n \in OwnerLimits : RequestBudget(r, n) \/ ReserveAnswered(r, n)
  \/ RequestFails(r)
  \/ BeginPublication(r) \/ BeginAnswered(r) \/ BeginFails(r)
  \/ DropReleases(r) \/ DropReleaseFails(r)
  \/ PushFails(r) \/ PostPullRequest(r)
  \/ PostFailureReleases(r) \/ PostFailureReleaseFails(r)
  \/ RecordPending(r) \/ Commit(r)
  \/ CommitAnswered(r) \/ CommitFails(r) \/ TrackPr(r)

LoopStep(r) ==
  \/ Retry(r) \/ RetryAnswered(r) \/ RetryFails(r)
  \/ PollObserves(r) \/ PollReleasesRun(r)

SweepStep ==
  \/ SweepStarts
  \/ \E r \in Reservations : SweepAsks(r) \/ SweepMisses(r)
  \/ SweepSettles

PublicationNext ==
  \/ \E r \in Reservations : WorkerStep(r) \/ LoopStep(r) \/ MaintainerCloses(r)
  \/ SweepStep
  \/ HiveCoreElsewhere
  \/ ReaperRestarts
  \/ HiveCoreStops

PublicationSpec == PublicationInit /\ [][PublicationNext]_vars

(***************************************************************************)
(* The loops run for ever: reconcile and pr_reservation_commit_retry_loop  *)
(* are spawned once and repeat on a timer, and HiveCore serves the request *)
(* it has accepted.  A request that is never answered ends in a timeout.   *)
(* Strong fairness of an answer says the network and GitHub do not fail    *)
(* one particular row every time it is asked about; of RetryCalled, that   *)
(* the loop, which takes the least recently updated rows first, comes to   *)
(* every one.  Workers, maintainers and operators owe nothing.             *)
(***************************************************************************)
Fairness ==
  /\ WF_vars(SweepStarts)
  /\ WF_vars(SweepSettles)
  /\ \A r \in Reservations :
       /\ WF_vars(SweepAsks(r) \/ SweepMisses(r))
       /\ SF_vars(SweepAsks(r))
       /\ SF_vars(RetryCalled(r))
       /\ WF_vars(RetryFails(r))
       /\ SF_vars(RetryAnswered(r) /\ r \in retrying)

FairPublication == PublicationSpec /\ Fairness

-----------------------------------------------------------------------------
(* Properties *)

(***************************************************************************)
(* "A PR must never be created without this acknowledgement": a pull       *)
(* request that exists has a row that went through publishing, and the     *)
(* guard's drop, which assumes nothing was published, never frees it.      *)
(***************************************************************************)
PrsAreAccountedFor ==
  \A r \in Reservations :
    github[r] # "none" => status[r] \notin {"absent", "reserved"} /\ reason[r] # "dropped"

(***************************************************************************)
(* Reconciliation believes GitHub and nothing else: a slot it freed, and   *)
(* an outcome it recorded, belong to a pull request that is closed, in     *)
(* just that way, whatever the worker, the retry loop or the poll did      *)
(* between the snapshot, the answer and the two transactions.              *)
(***************************************************************************)
OutcomesAreTrue ==
  \A r \in Reservations :
    /\ reason[r] = "reconciled" => github[r] \in Kinds
    /\ \A k \in Kinds : <<PrOf[r], k>> \in outcomes => github[r] = k

(***************************************************************************)
(* What RepoReaper records as acknowledged, HiveCore's row really holds:   *)
(* it stops retrying only once the row carries the exact URL, although     *)
(* the writer and the retry loop commit the same row concurrently.         *)
(***************************************************************************)
AcknowledgementsAreReal ==
  \A r \in Reservations : commitState[r] = "committed" => prUrl[r] = PrOf[r]

(***************************************************************************)
(* "RepoReaper retries the exact PR URL from durable state": a pull        *)
(* request recorded as pending does not leave its slot publishing for      *)
(* ever, across lost answers and restarts of either process.               *)
(***************************************************************************)
PendingCommitsSettle ==
  \A r \in Reservations :
    commitState[r] \in Pending /\ status[r] = "publishing" ~> status[r] # "publishing"

(***************************************************************************)
(* The slot of a pull request that GitHub has closed comes back, even if   *)
(* RepoReaper's own run release is lost: the sweep finds it.               *)
(***************************************************************************)
ClosedSlotsReturn ==
  \A r \in Reservations :
    status[r] = "committed" /\ github[r] \in Kinds ~> status[r] # "committed"

(***************************************************************************)
(* "releases only the exact reservation whose GitHub PR is positively      *)
(* observed closed or merged": the poll, which is what releases by run,    *)
(* never frees the slot of a pull request that is open.                    *)
(***************************************************************************)
OpenPrsKeepTheirSlots ==
  \A r \in Reservations : github[r] = "open" => reason[r] # "run"

(***************************************************************************)
(* The URL GitHub returns for a pull request in the reserved repository is *)
(* one HiveCore accepts: "Committed reservations require a GitHub          *)
(* pull-request URL for the reserved repository."                          *)
(***************************************************************************)
OwnUrlIsAccepted ==
  \A r \in Reservations : commitState[r] # "refused_url"
=============================================================================
