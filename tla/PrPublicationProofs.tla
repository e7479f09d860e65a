------------------------ MODULE PrPublicationProofs ------------------------
(***************************************************************************)
(* Theorems about the life of a pull request, for any number of            *)
(* reservations, workers and restarts.                                     *)
(*                                                                         *)
(* RepoReaper and GitHub only ever drive the ledger through its own        *)
(* actions, so every behaviour of PrPublication is one of PrBudget and     *)
(* inherits its invariant.  What is added relates the three parties:       *)
(* where a worker may be once its pull request exists, and what the sweep  *)
(* holds in its hands between GitHub's answer and the outcome.             *)
(***************************************************************************)
EXTENDS PrPublication, PrBudgetProofs

\* The steps a worker takes only once its row was acknowledged as publishing,
\* and those it may be at when its pull request exists.
Acknowledged == {"publishing", "post_failed", "opened", "recorded", "committing", "settled"}
Posted == {"post_failed", "opened", "recorded", "committing", "settled", "done"}

\* A row that may have a pull request.
Beyond(r) == status[r] \notin {"absent", "reserved"} /\ reason[r] # "dropped"

\* A worker past the acknowledgement, and a pull request, have such a row.
AcknowledgedRows ==
  \A r \in Reservations : worker[r] \in Acknowledged \/ github[r] # "none" => Beyond(r)

\* A pull request exists only once its worker posted it.
PostedFirst == \A r \in Reservations : github[r] # "none" => worker[r] \in Posted

\* What the sweep works on is what GitHub said, which does not change.
FindingsAreTrue ==
  \A f \in observed \cup freed : f.url = PrOf[f.res] /\ github[f.res] = f.kind

\* A row names its own pull request or none.
UrlsAreOwn == \A r \in Reservations : prUrl[r] \in {NoUrl, PrOf[r]}

PInv ==
  /\ IInv
  /\ PublicationTypeOK
  /\ AcknowledgedRows
  /\ PostedFirst
  /\ FindingsAreTrue
  /\ OutcomesAreTrue
  /\ UrlsAreOwn
  /\ AcknowledgementsAreReal

-----------------------------------------------------------------------------
(* What the ledger's actions do to the rows *)

\* Rows keep their reasons and URLs, and none goes back before publishing.
RowsKeep ==
  /\ \A r \in Reservations :
       status[r] \notin {"absent", "reserved"} => status'[r] \notin {"absent", "reserved"}
  /\ reason' = reason
  /\ prUrl' = prUrl

\* The sweep's findings and the outcomes stay as they are.
SweepKeeps == UNCHANGED <<observed, freed, outcomes>>

\* Checks, sweeps, grants and begins leave reasons, URLs and findings alone.
LEMMA QuietSteps ==
  ASSUME IInv, NEW r \in Reservations,
         \/ \E n \in OwnerLimits : ReserveCheck(r, n) \/ ReserveDecide(r, n)
         \/ BeginSweep(r) \/ BeginApply(r)
         \/ \E u \in Urls, by \in Callers : CommitSweep(r, u, by)
         \/ ReadBudget
         \/ \E n \in SuiteLimits, t \in LimitTables : SaveSettings(n, t)
         \/ \E names \in PolicyStates : ChangePolicy(names)
         \/ LeaseLapses(r)
         \/ \E o \in Owners : CooldownEnds(o)
  PROVE  RowsKeep /\ SweepKeeps
<1>1. ASSUME NEW n \in OwnerLimits, ReserveDecide(r, n)  PROVE  RowsKeep /\ SweepKeeps
  <2>1. status[r] = "absent"
    BY <1>1 DEF ReserveDecide, IInv, CallsKnowTheirRows
  <2> QED BY <1>1, <2>1, SweptType DEF ReserveDecide, RowsKeep, SweepKeeps, IInv, TypeOK, sweepVars
<1>2. ASSUME SweepRows, UNCHANGED <<outcomes, sweepVars>>  PROVE  RowsKeep /\ SweepKeeps
  BY <1>2, SweptType DEF SweepRows, RowsKeep, SweepKeeps, IInv, sweepVars
<1>3. CASE BeginApply(r)
  BY <1>3 DEF BeginApply, RowsKeep, SweepKeeps, IInv, TypeOK, sweepVars
<1>4. CASE BeginSweep(r) \/ ReadBudget \/ \E u \in Urls, by \in Callers : CommitSweep(r, u, by)
  BY <1>4, <1>2 DEF BeginSweep, CommitSweep, ReadBudget
<1>5. CASE \/ \E n \in OwnerLimits : ReserveCheck(r, n)
           \/ \E n \in SuiteLimits, t \in LimitTables : SaveSettings(n, t)
           \/ \E names \in PolicyStates : ChangePolicy(names)
           \/ LeaseLapses(r)
           \/ \E o \in Owners : CooldownEnds(o)
  BY <1>5 DEF ReserveCheck, SaveSettings, ChangePolicy, LeaseLapses, CooldownEnds, RowsKeep,
              SweepKeeps, rowVars, sweepVars
<1> QED BY <1>1, <1>3, <1>4, <1>5

\* A release names its reason on rows that were active.
LEMMA ReleasesName ==
  ASSUME IInv, NEW gone \in SUBSET Reservations, NEW why, FreeRows(gone, why)
  PROVE  /\ \A r \in gone : status'[r] = "released" /\ reason'[r] = why
         /\ \A r \in Reservations \ gone : status'[r] = status[r] /\ reason'[r] = reason[r]
         /\ prUrl' = prUrl
BY DEF FreeRows, IInv, TypeOK

-----------------------------------------------------------------------------
(* Every step of the publication is a step of the ledger or leaves it alone *)

\* Whatever RepoReaper, GitHub or the sweep does, HiveCore serves it as one of
\* its own actions.
LEMMA LedgerStep ==
  ASSUME PublicationTypeOK, [PublicationNext]_vars
  PROVE  [Next]_ledgerVars
<1>1. ASSUME NEW r \in Reservations, WorkerStep(r)  PROVE  [Next]_ledgerVars
  <2>1. PrOf[r] \in Urls /\ {"writer", "retry"} \subseteq Callers
    BY PullRequestsAreDistinct
  <2>2. CASE \E n \in OwnerLimits : RequestBudget(r, n) \/ ReserveAnswered(r, n)
    BY <2>2 DEF RequestBudget, ReserveAnswered, Next, Requests
  <2>3. CASE BeginPublication(r) \/ BeginAnswered(r)
    BY <2>3 DEF BeginPublication, BeginAnswered, Next, Requests
  <2>4. CASE DropReleases(r) \/ PostFailureReleases(r)
    BY <2>4 DEF DropReleases, PostFailureReleases, Release, Next, Requests
  <2>5. CASE CommitCalled(r) \/ CommitAnswered(r)
    BY <2>1, <2>5 DEF CommitCalled, CommitAnswered, Next, Requests
  <2>6. CASE \/ RequestFails(r) \/ BeginFails(r) \/ DropReleaseFails(r) \/ PushFails(r)
             \/ PostPullRequest(r) \/ PostFailureReleaseFails(r) \/ RecordPending(r)
             \/ CommitRefusedUrl(r) \/ CommitFails(r) \/ TrackPr(r)
    BY <2>6 DEF RequestFails, BeginFails, DropReleaseFails, PushFails, PostPullRequest,
                PostFailureReleaseFails, RecordPending, CommitRefusedUrl, CommitFails, TrackPr
  <2> QED BY <1>1, <2>2, <2>3, <2>4, <2>5, <2>6 DEF WorkerStep, Commit
<1>2. ASSUME NEW r \in Reservations, LoopStep(r) \/ MaintainerCloses(r)
      PROVE  [Next]_ledgerVars
  <2>1. PrOf[r] \in Urls /\ {"writer", "retry"} \subseteq Callers
    BY PullRequestsAreDistinct
  <2>2. CASE RetryCalled(r) \/ RetryAnswered(r)
    BY <2>1, <2>2 DEF RetryCalled, RetryAnswered, Next, Requests
  <2>3. CASE PollReleasesRun(r)
    BY <2>3, ConstantTypes DEF PollReleasesRun, Next, Surroundings
  <2>4. CASE \/ RetryRefusedUrl(r) \/ RetryFails(r) \/ PollObserves(r) \/ MaintainerCloses(r)
    BY <2>4 DEF RetryRefusedUrl, RetryFails, PollObserves, MaintainerCloses
  <2> QED BY <1>2, <2>2, <2>3, <2>4 DEF LoopStep, Retry
<1>3. CASE SweepStep
  <2>1. ASSUME NEW r \in Reservations, SweepAsks(r)  PROVE  Next
    <3>1. PrOf[r] \in Urls
      BY PullRequestsAreDistinct
    <3>2. \E a \in Answers : ReconcileFetch(r, PrOf[r], a)
      <4>1. CASE github[r] \in Answers
        BY <2>1, <4>1 DEF SweepAsks
      <4>2. CASE github[r] \notin Answers
        <5>1. ReconcileFetch(r, PrOf[r], "unavailable")
          BY <2>1, <4>2 DEF SweepAsks, ReconcileFetch, Answers, Kinds
        <5> QED BY <5>1 DEF Answers
      <4> QED BY <4>1, <4>2
    <3> QED BY <3>1, <3>2 DEF Next, Reconciliation
  <2>2. ASSUME NEW r \in Reservations, SweepMisses(r)  PROVE  Next
    <3>1. PrOf[r] \in Urls /\ "unavailable" \in Answers
      BY PullRequestsAreDistinct DEF Answers
    <3> QED BY <2>2, <3>1 DEF SweepMisses, Next, Reconciliation
  <2>3. CASE SweepStarts \/ SweepSettles
    BY <2>3 DEF SweepStarts, SweepSettles, Next, Reconciliation
  <2> QED BY <1>3, <2>1, <2>2, <2>3 DEF SweepStep
<1>4. CASE HiveCoreElsewhere
  BY <1>4 DEF HiveCoreElsewhere, Next, Requests, Surroundings
<1>5. CASE ReaperRestarts \/ HiveCoreStops
  BY <1>5 DEF ReaperRestarts, HiveCoreStops, Next, Surroundings
<1>6. CASE UNCHANGED vars
  BY <1>6 DEF vars
<1> QED BY <1>1, <1>2, <1>3, <1>4, <1>5, <1>6 DEF PublicationNext

-----------------------------------------------------------------------------
(* Types *)

\* Every initial state satisfies the invariant.
LEMMA InitPInv == PublicationInit => PInv
<1> SUFFICES ASSUME PublicationInit  PROVE  PInv
  OBVIOUS
<1>1. IInv
  BY InitIInv DEF PublicationInit
<1>2. PublicationTypeOK
  BY <1>1, PullRequestsAreDistinct DEF PublicationInit, PublicationTypeOK, IInv, WorkerSteps, Pending
<1>3. AcknowledgedRows /\ PostedFirst /\ AcknowledgementsAreReal
  BY DEF PublicationInit, AcknowledgedRows, PostedFirst, AcknowledgementsAreReal, Acknowledged
<1>4. FindingsAreTrue /\ OutcomesAreTrue /\ UrlsAreOwn
  BY DEF PublicationInit, Init, FindingsAreTrue, OutcomesAreTrue, UrlsAreOwn
<1> QED BY <1>1, <1>2, <1>3, <1>4 DEF PInv

\* RepoReaper's memory, its tables and GitHub keep their kinds.
LEMMA PublicationTypes ==
  ASSUME PublicationTypeOK, TypeOK', [PublicationNext]_vars
  PROVE  PublicationTypeOK'
<1> USE DEF PublicationTypeOK, WorkerSteps, Pending, WorkerGoes, reaperVars
<1>1. ASSUME NEW r \in Reservations, WorkerStep(r)  PROVE  PublicationTypeOK'
  <2>1. CASE \/ \E n \in OwnerLimits : RequestBudget(r, n) \/ ReserveAnswered(r, n)
             \/ RequestFails(r) \/ BeginPublication(r) \/ BeginAnswered(r) \/ BeginFails(r)
             \/ DropReleases(r) \/ DropReleaseFails(r) \/ PushFails(r)
    BY <2>1 DEF RequestBudget, ReserveAnswered, RequestFails, BeginPublication, BeginAnswered,
                BeginFails, DropReleases, DropReleaseFails, PushFails
  <2>2. CASE PostPullRequest(r) \/ PostFailureReleases(r) \/ PostFailureReleaseFails(r)
    BY <2>2 DEF PostPullRequest, PostFailureReleases, PostFailureReleaseFails
  <2>3. CASE RecordPending(r) \/ CommitCalled(r) \/ CommitRefusedUrl(r)
    BY <2>3 DEF RecordPending, CommitCalled, CommitRefusedUrl, FailureRecorded
  <2>4. CASE CommitAnswered(r) \/ CommitFails(r) \/ TrackPr(r)
    BY <2>4 DEF CommitAnswered, CommitFails, TrackPr, FailureRecorded, AcknowledgementRecorded
  <2> QED BY <1>1, <2>1, <2>2, <2>3, <2>4 DEF WorkerStep, Commit
<1>2. ASSUME NEW r \in Reservations, LoopStep(r) \/ MaintainerCloses(r)
      PROVE  PublicationTypeOK'
  BY <1>2 DEF LoopStep, Retry, RetryCalled, RetryRefusedUrl, RetryAnswered, RetryFails, PollObserves,
              PollReleasesRun, MaintainerCloses, AcknowledgementRecorded
<1>3. CASE SweepStep \/ HiveCoreElsewhere
  BY <1>3 DEF SweepStep, SweepStarts, SweepAsks, SweepMisses, SweepSettles, HiveCoreElsewhere
<1>4. CASE ReaperRestarts \/ HiveCoreStops
  BY <1>4, PullRequestsAreDistinct DEF ReaperRestarts, HiveCoreStops
<1>5. CASE UNCHANGED vars
  BY <1>5 DEF vars
<1> QED BY <1>1, <1>2, <1>3, <1>4, <1>5 DEF PublicationNext

-----------------------------------------------------------------------------
(* Steps that neither release a row nor touch GitHub or the sweep *)

\* What relates the ledger, RepoReaper and GitHub.
Related ==
  /\ AcknowledgedRows /\ PostedFirst /\ FindingsAreTrue
  /\ OutcomesAreTrue /\ UrlsAreOwn /\ AcknowledgementsAreReal

\* A worker may move on where its row allows it; an acknowledgement needs the URL.
LEMMA QuietlyRelated ==
  ASSUME PInv, IInv', RowsKeep, SweepKeeps, UNCHANGED github,
         \A r \in Reservations :
           /\ worker'[r] \in Acknowledged =>
                worker[r] \in Acknowledged \/ status'[r] \notin {"absent", "reserved", "released"}
           /\ worker[r] \in Posted => worker'[r] \in Posted
           /\ commitState'[r] = "committed" => commitState[r] = "committed" \/ prUrl[r] = PrOf[r]
  PROVE  Related'
<1> USE DEF PInv, RowsKeep, SweepKeeps
<1>1. AcknowledgedRows'
  <2>1. ASSUME NEW r \in Reservations, status'[r] \notin {"absent", "reserved", "released"}
        PROVE  Beyond(r)'
    BY <2>1 DEF Beyond, IInv, RowsDecode
  <2>2. ASSUME NEW r \in Reservations, Beyond(r)  PROVE  Beyond(r)'
    BY <2>2 DEF Beyond
  <2> QED BY <2>1, <2>2 DEF AcknowledgedRows
<1>2. PostedFirst'
  BY DEF PostedFirst
<1>3. FindingsAreTrue' /\ OutcomesAreTrue'
  BY DEF FindingsAreTrue, OutcomesAreTrue
<1>4. UrlsAreOwn' /\ AcknowledgementsAreReal'
  BY DEF UrlsAreOwn, AcknowledgementsAreReal
<1> QED BY <1>1, <1>2, <1>3, <1>4 DEF Related

\* The worker's steps of this kind, with the handlers they call.
LEMMA WorkerQuiet ==
  ASSUME PInv, IInv', NEW r \in Reservations,
         \/ \E n \in OwnerLimits : RequestBudget(r, n) \/ ReserveAnswered(r, n)
         \/ RequestFails(r) \/ BeginPublication(r) \/ BeginAnswered(r) \/ BeginFails(r)
         \/ DropReleaseFails(r) \/ PushFails(r) \/ PostFailureReleaseFails(r)
         \/ RecordPending(r) \/ CommitCalled(r) \/ CommitRefusedUrl(r) \/ CommitFails(r)
         \/ TrackPr(r)
  PROVE  Related'
<1> USE DEF PInv, PublicationTypeOK, WorkerGoes
<1>1. RowsKeep /\ SweepKeeps
  <2>1. PrOf[r] \in Urls /\ "writer" \in Callers
    BY PullRequestsAreDistinct
  <2>2. CASE UNCHANGED ledgerVars
    BY <2>2 DEF ledgerVars, rowVars, sweepVars, RowsKeep, SweepKeeps
  <2>3. CASE \/ \E n \in OwnerLimits : ReserveCheck(r, n) \/ ReserveDecide(r, n)
             \/ BeginSweep(r) \/ BeginApply(r)
             \/ \E u \in Urls, by \in Callers : CommitSweep(r, u, by)
    BY <2>3, QuietSteps
  <2> QED BY <2>1, <2>2, <2>3
      DEF RequestBudget, ReserveAnswered, RequestFails, BeginPublication, BeginAnswered, BeginFails,
          DropReleaseFails, PushFails, PostFailureReleaseFails, RecordPending, CommitCalled,
          CommitRefusedUrl, CommitFails, TrackPr
<1>2. UNCHANGED github
  BY DEF RequestBudget, ReserveAnswered, RequestFails, BeginPublication, BeginAnswered, BeginFails,
         DropReleaseFails, PushFails, PostFailureReleaseFails, RecordPending, CommitCalled,
         CommitRefusedUrl, CommitFails, TrackPr
<1>3. \A x \in Reservations :
        /\ worker'[x] \in Acknowledged =>
             worker[x] \in Acknowledged \/ status'[x] \notin {"absent", "reserved", "released"}
        /\ worker[x] \in Posted => worker'[x] \in Posted
        /\ commitState'[x] = "committed" => commitState[x] = "committed"
  <2>1. CASE (\E n \in OwnerLimits : RequestBudget(r, n) \/ ReserveAnswered(r, n)) \/ RequestFails(r)
    BY <2>1 DEF RequestBudget, ReserveAnswered, RequestFails, Acknowledged, Posted
  <2>2. CASE BeginPublication(r) \/ BeginAnswered(r) \/ BeginFails(r)
    BY <2>2 DEF BeginPublication, BeginAnswered, BeginFails, Acknowledged, Posted
  <2>3. CASE DropReleaseFails(r) \/ PushFails(r) \/ PostFailureReleaseFails(r) \/ CommitCalled(r)
    BY <2>3 DEF DropReleaseFails, PushFails, PostFailureReleaseFails, CommitCalled,
                Acknowledged, Posted
  <2>4. CASE RecordPending(r) \/ CommitRefusedUrl(r) \/ CommitFails(r) \/ TrackPr(r)
    BY <2>4 DEF RecordPending, CommitRefusedUrl, CommitFails, TrackPr, FailureRecorded,
                Acknowledged, Posted
  <2> QED BY <2>1, <2>2, <2>3, <2>4
<1> QED BY <1>1, <1>2, <1>3, QuietlyRelated

\* The loops' steps of this kind, and what HiveCore does on its own.
LEMMA LoopsQuiet ==
  ASSUME PInv, IInv',
         \/ \E r \in Reservations :
              RetryCalled(r) \/ RetryRefusedUrl(r) \/ RetryFails(r) \/ PollObserves(r)
         \/ ReaperRestarts
         \/ UNCHANGED vars
  PROVE  Related'
<1> USE DEF PInv, PublicationTypeOK
<1>1. RowsKeep /\ SweepKeeps
  <2>1. "retry" \in Callers /\ \A r \in Reservations : PrOf[r] \in Urls
    BY PullRequestsAreDistinct
  <2>2. CASE UNCHANGED ledgerVars
    BY <2>2 DEF ledgerVars, rowVars, sweepVars, RowsKeep, SweepKeeps
  <2>3. ASSUME NEW r \in Reservations, RetryCalled(r)  PROVE  RowsKeep /\ SweepKeeps
    <3>1. \E u \in Urls, by \in Callers : CommitSweep(r, u, by)
      BY <2>1, <2>3 DEF RetryCalled
    <3> QED BY <3>1, QuietSteps
  <2> QED BY <2>2, <2>3 DEF RetryRefusedUrl, RetryFails, PollObserves, ReaperRestarts, vars
<1>2. UNCHANGED github
  BY DEF RetryCalled, RetryRefusedUrl, RetryFails, PollObserves, ReaperRestarts, vars
<1>3. \A x \in Reservations :
        /\ worker'[x] \in Acknowledged => worker[x] \in Acknowledged
        /\ worker[x] \in Posted => worker'[x] \in Posted
        /\ commitState'[x] = "committed" => commitState[x] = "committed"
  BY DEF RetryCalled, RetryRefusedUrl, RetryFails, PollObserves, ReaperRestarts, vars, reaperVars,
         Acknowledged, Posted
<1> QED BY <1>1, <1>2, <1>3, QuietlyRelated

\* Time, settings, policy and reads of the budget.
LEMMA ElsewhereQuiet ==
  ASSUME PInv, IInv', UNCHANGED <<github, reaperVars>>,
         \/ \E r \in Reservations : LeaseLapses(r)
         \/ \E o \in Owners : CooldownEnds(o)
         \/ \E names \in PolicyStates : ChangePolicy(names)
         \/ \E n \in SuiteLimits, t \in LimitTables : SaveSettings(n, t)
         \/ ReadBudget
  PROVE  Related'
<1>1. CASE Reservations = {}
  BY <1>1 DEF Related, AcknowledgedRows, PostedFirst, FindingsAreTrue, OutcomesAreTrue, UrlsAreOwn,
              AcknowledgementsAreReal, IInv, TypeOK, Findings
<1>2. ASSUME NEW r \in Reservations  PROVE  Related'
  <2>1. RowsKeep /\ SweepKeeps
    BY QuietSteps DEF PInv
  <2> QED BY <2>1, QuietlyRelated DEF reaperVars
<1> QED BY <1>1, <1>2

-----------------------------------------------------------------------------
(* Releases *)

\* Rows are freed for a reason; only a worker that posted nothing drops its row,
\* and only the sweep calls a row reconciled.
LEMMA ReleasesRelated ==
  ASSUME PInv, NEW gone \in SUBSET Reservations, NEW why, FreeRows(gone, why),
         why # "reconciled",
         why = "dropped" =>
           \A r \in gone : github[r] = "none" /\ worker'[r] \notin Acknowledged,
         SweepKeeps, UNCHANGED <<github, commitState>>,
         \A r \in Reservations :
           /\ worker'[r] \in Acknowledged => worker[r] \in Acknowledged
           /\ worker[r] \in Posted => worker'[r] \in Posted
  PROVE  Related'
<1>1. /\ \A r \in gone : status'[r] = "released" /\ reason'[r] = why
      /\ \A r \in Reservations \ gone : status'[r] = status[r] /\ reason'[r] = reason[r]
      /\ prUrl' = prUrl
  BY ReleasesName DEF PInv
<1>2. AcknowledgedRows'
  <2> SUFFICES ASSUME NEW r \in Reservations, worker'[r] \in Acknowledged \/ github'[r] # "none"
               PROVE  Beyond(r)'
    BY DEF AcknowledgedRows
  <2>1. Beyond(r)
    BY DEF PInv, AcknowledgedRows
  <2>2. CASE r \in gone
    BY <1>1, <2>2 DEF Beyond
  <2>3. CASE r \notin gone
    BY <1>1, <2>1, <2>3 DEF Beyond
  <2> QED BY <2>2, <2>3
<1>3. PostedFirst'
  BY DEF PInv, PostedFirst
<1>4. FindingsAreTrue'
  BY DEF PInv, FindingsAreTrue, SweepKeeps
<1>5. OutcomesAreTrue'
  BY <1>1 DEF PInv, OutcomesAreTrue, SweepKeeps
<1>6. UrlsAreOwn' /\ AcknowledgementsAreReal'
  BY <1>1 DEF PInv, UrlsAreOwn, AcknowledgementsAreReal
<1> QED BY <1>2, <1>3, <1>4, <1>5, <1>6 DEF Related

\* The worker's two releases.
LEMMA WorkerReleases ==
  ASSUME PInv, NEW r \in Reservations, DropReleases(r) \/ PostFailureReleases(r)
  PROVE  Related'
<1> USE DEF PInv, PublicationTypeOK, WorkerGoes
<1>1. PICK why \in {"dropped", "creation_failed"} :
         /\ FreeRows({r}, why)
         /\ why = "dropped" => DropReleases(r)
  BY DEF DropReleases, PostFailureReleases, Release
<1>2. SweepKeeps /\ UNCHANGED <<github, commitState>>
  BY DEF DropReleases, PostFailureReleases, Release, SweepKeeps, sweepVars
<1>3. \A x \in Reservations :
        /\ worker'[x] \in Acknowledged => worker[x] \in Acknowledged
        /\ worker[x] \in Posted => worker'[x] \in Posted
  BY DEF DropReleases, PostFailureReleases, Acknowledged, Posted
<1>4. DropReleases(r) => github[r] = "none" /\ worker'[r] \notin Acknowledged
  BY DEF DropReleases, PostedFirst, Posted, Acknowledged
<1> QED BY <1>1, <1>2, <1>3, <1>4, ReleasesRelated

\* The run release of the poll, and an operator's release.
LEMMA OthersRelease ==
  ASSUME PInv, IInv',
         \/ \E r \in Reservations : PollReleasesRun(r)
         \/ /\ \E r \in Reservations : "operator" \in ClientReasons /\ Release(r, "operator")
            /\ UNCHANGED <<github, reaperVars>>
  PROVE  Related'
<1>1. UNCHANGED <<github, worker, commitState>>
  BY DEF PollReleasesRun, reaperVars
<1>2. CASE UNCHANGED ledgerVars
  <2>1. RowsKeep /\ SweepKeeps
    BY <1>2 DEF ledgerVars, rowVars, sweepVars, RowsKeep, SweepKeeps
  <2> QED BY <1>1, <2>1, QuietlyRelated
<1>3. ASSUME NEW gone \in SUBSET Reservations, NEW why \in {"run", "operator"},
             FreeRows(gone, why), SweepKeeps
      PROVE  Related'
  BY <1>1, <1>3, ReleasesRelated
<1>4. ASSUME NEW p \in Products, NEW run \in Runs, ReleaseForRun(p, run)
      PROVE  Related'
  <2> DEFINE rows == {r \in OfProduct(p) : RunOf[r] = run /\ status[r] \in Active}
  <2>1. rows \in SUBSET Reservations /\ FreeRows(rows, "run") /\ SweepKeeps
    BY <1>4 DEF ReleaseForRun, OfProduct, SweepKeeps, sweepVars
  <2> HIDE DEF rows
  <2> QED BY <2>1, <1>3
<1>5. ASSUME NEW r \in Reservations, Release(r, "operator")
      PROVE  Related'
  <2>1. {r} \in SUBSET Reservations /\ FreeRows({r}, "operator") /\ SweepKeeps
    BY <1>5 DEF Release, SweepKeeps, sweepVars
  <2> QED BY <2>1, <1>3
<1> QED BY <1>2, <1>4, <1>5, ConstantTypes DEF PollReleasesRun

-----------------------------------------------------------------------------
(* Commits *)

\* A commit gives a publishing row the URL of its own pull request, and only
\* such an answer is recorded as an acknowledgement.
LEMMA CommitsRelated ==
  ASSUME PInv, IInv', NEW r \in Reservations, CommitAnswered(r) \/ RetryAnswered(r)
  PROVE  Related'
<1> USE DEF PInv, PublicationTypeOK
<1>1. PICK by \in Callers : CommitApply(r, PrOf[r], by)
  BY PullRequestsAreDistinct DEF CommitAnswered, RetryAnswered
<1>2. /\ \A x \in Reservations :
           \/ status'[x] = status[x] /\ prUrl'[x] = prUrl[x]
           \/ /\ x = r /\ status[x] = "publishing"
              /\ status'[x] = "committed" /\ prUrl'[x] = PrOf[r]
      /\ reason' = reason /\ SweepKeeps
  BY <1>1 DEF CommitApply, SweepKeeps, sweepVars, TypeOK
<1>3. github' = github
  BY DEF CommitAnswered, RetryAnswered
<1>4. /\ \A x \in Reservations : worker'[x] \in Acknowledged => worker[x] \in Acknowledged
      /\ \A x \in Reservations : worker[x] \in Posted => worker'[x] \in Posted
  BY DEF CommitAnswered, RetryAnswered, Acknowledged, Posted
<1>5. \A x \in Reservations : commitState'[x] = "committed" =>
        commitState[x] = "committed" \/ (x = r /\ status'[x] = "committed")
  BY DEF CommitAnswered, RetryAnswered, AcknowledgementRecorded, FailureRecorded
<1>6. UrlsAreOwn'
  BY <1>2 DEF UrlsAreOwn
<1>7. AcknowledgementsAreReal'
  <2>1. \A x \in Reservations : status'[x] = "committed" => prUrl'[x] = PrOf[x]
    BY <1>6 DEF UrlsAreOwn, IInv, RowsDecode
  <2>2. \A x \in Reservations : prUrl[x] = PrOf[x] => prUrl'[x] = PrOf[x]
    BY <1>2
  <2> QED BY <1>5, <2>1, <2>2 DEF AcknowledgementsAreReal
<1>8. AcknowledgedRows' /\ PostedFirst'
  BY <1>2, <1>3, <1>4 DEF AcknowledgedRows, PostedFirst, Beyond
<1>9. FindingsAreTrue' /\ OutcomesAreTrue'
  BY <1>2, <1>3 DEF FindingsAreTrue, OutcomesAreTrue, SweepKeeps
<1> QED BY <1>6, <1>7, <1>8, <1>9 DEF Related

-----------------------------------------------------------------------------
(* GitHub *)

\* A pull request comes into being once and ends once.
LEMMA GitHubRelated ==
  ASSUME PInv, NEW r \in Reservations, PostPullRequest(r) \/ MaintainerCloses(r)
  PROVE  Related'
<1> USE DEF PInv, PublicationTypeOK, WorkerGoes
<1>1. UNCHANGED <<status, prUrl, reason, outcomes, observed, freed, commitState>>
  BY DEF PostPullRequest, MaintainerCloses, ledgerVars, rowVars, sweepVars, reaperVars
<1>2. \A x \in Reservations :
        \/ github'[x] = github[x]
        \/ x = r /\ github[x] \in {"none", "open"} /\ github'[x] # "none"
  <2>1. CASE PostPullRequest(r)
    <3>1. worker[r] = "publishing" /\ github[r] = "none"
      BY <2>1 DEF PostPullRequest, PostedFirst, Posted
    <3> QED BY <2>1, <3>1 DEF PostPullRequest
  <2>2. CASE MaintainerCloses(r)
    BY <2>2 DEF MaintainerCloses, Kinds
  <2> QED BY <2>1, <2>2
<1>3. /\ worker'[r] \in Acknowledged \/ github'[r] # "none" =>
           worker[r] \in Acknowledged \/ github[r] # "none"
      /\ github'[r] # "none" => worker'[r] \in Posted
      /\ \A x \in Reservations \ {r} : worker'[x] = worker[x] /\ github'[x] = github[x]
  BY DEF PostPullRequest, MaintainerCloses, PostedFirst, Posted, Acknowledged, reaperVars
<1>4. AcknowledgedRows' /\ PostedFirst'
  BY <1>1, <1>3 DEF AcknowledgedRows, PostedFirst, Beyond
<1>5. FindingsAreTrue' /\ OutcomesAreTrue'
  BY <1>1, <1>2 DEF FindingsAreTrue, OutcomesAreTrue, Kinds, Findings, IInv, TypeOK
<1>6. UrlsAreOwn' /\ AcknowledgementsAreReal'
  BY <1>1 DEF UrlsAreOwn, AcknowledgementsAreReal
<1> QED BY <1>4, <1>5, <1>6 DEF Related

-----------------------------------------------------------------------------
(* The sweep *)

\* The sweep asks, GitHub answers, and what is settled is what GitHub said.
LEMMA SweepRelated ==
  ASSUME PInv, IInv', SweepStep
  PROVE  Related'
<1> USE DEF PInv, PublicationTypeOK
<1>1. UNCHANGED <<github, worker, commitState>>
  BY DEF SweepStep, SweepStarts, SweepAsks, SweepMisses, SweepSettles, reaperVars
<1>2. CASE SweepStarts
  <2>1. RowsKeep /\ SweepKeeps
    BY <1>2, SweptType DEF SweepStarts, ReconcileStart, SweepRows, RowsKeep, SweepKeeps, IInv
  <2> QED BY <1>1, <2>1, QuietlyRelated
<1>3. ASSUME UNCHANGED <<status, prUrl, reason, outcomes>>, FindingsAreTrue'
      PROVE  Related'
  BY <1>1, <1>3 DEF Related, AcknowledgedRows, PostedFirst, Beyond, OutcomesAreTrue, UrlsAreOwn,
                    AcknowledgementsAreReal
<1>4. ASSUME NEW r \in Reservations, SweepAsks(r) \/ SweepMisses(r)
      PROVE  Related'
  <2>1. PICK a \in {github[r], "unavailable"} : ReconcileFetch(r, PrOf[r], a)
    BY <1>4 DEF SweepAsks, SweepMisses
  <2>2. UNCHANGED <<status, prUrl, reason, outcomes>> /\ freed' = {}
    BY <2>1 DEF ReconcileFetch, rowVars
  <2>3. \A f \in observed' : f.res = r /\ f.url = PrOf[r] /\ f.kind = github[r]
    BY <2>1 DEF ReconcileFetch, Kinds
  <2>4. FindingsAreTrue'
    BY <1>1, <2>2, <2>3 DEF FindingsAreTrue
  <2> QED BY <1>3, <2>2, <2>4
<1>5. ASSUME NEW f \in observed, ReconcileRelease(f)  PROVE  Related'
  <2>1. f.res \in Reservations /\ f.url = PrOf[f.res] /\ github[f.res] \in Kinds
    BY DEF IInv, TypeOK, Findings, FindingsAreTrue
  <2>2. FindingsAreTrue'
    BY <1>1, <1>5 DEF ReconcileRelease, FindingsAreTrue
  <2>3. CASE UNCHANGED rowVars
    BY <1>3, <1>5, <2>2, <2>3 DEF ReconcileRelease, rowVars
  <2>4. CASE FreeRows({f.res}, "reconciled")
    <3>1. /\ status'[f.res] = "released" /\ reason'[f.res] = "reconciled"
          /\ \A r \in Reservations \ {f.res} : status'[r] = status[r] /\ reason'[r] = reason[r]
          /\ prUrl' = prUrl
      <4>1. {f.res} \in SUBSET Reservations /\ IInv
        BY <2>1
      <4> QED BY <2>4, <4>1, ReleasesName
    <3>2. outcomes' = outcomes
      BY <1>5 DEF ReconcileRelease
    <3>3. AcknowledgedRows'
      <4> SUFFICES ASSUME NEW r \in Reservations, worker[r] \in Acknowledged \/ github[r] # "none"
                   PROVE  Beyond(r)'
        BY <1>1 DEF AcknowledgedRows
      <4>1. Beyond(r)
        BY DEF AcknowledgedRows
      <4>2. CASE r = f.res
        BY <3>1, <4>2 DEF Beyond
      <4>3. CASE r # f.res
        BY <3>1, <4>1, <4>3 DEF Beyond
      <4> QED BY <4>2, <4>3
    <3>4. OutcomesAreTrue'
      BY <1>1, <2>1, <3>1, <3>2 DEF OutcomesAreTrue
    <3>5. PostedFirst' /\ UrlsAreOwn' /\ AcknowledgementsAreReal'
      BY <1>1, <3>1 DEF PostedFirst, UrlsAreOwn, AcknowledgementsAreReal
    <3> QED BY <2>2, <3>3, <3>4, <3>5 DEF Related
  <2> QED BY <1>5, <2>3, <2>4 DEF ReconcileRelease
<1>6. ASSUME NEW f \in freed, ReconcileRecord(f) \/ ReconcileRecordFails(f)  PROVE  Related'
  <2>1. f.res \in Reservations /\ f.url = PrOf[f.res] /\ github[f.res] = f.kind
    BY DEF IInv, TypeOK, Findings, FindingsAreTrue
  <2>2. UNCHANGED <<status, prUrl, reason, observed>> /\ freed' = {}
    BY <1>6 DEF ReconcileRecord, ReconcileRecordFails, rowVars
  <2>3. outcomes' \in {outcomes, outcomes \cup {<<f.url, f.kind>>}}
    BY <1>6 DEF ReconcileRecord, ReconcileRecordFails
  <2>4. FindingsAreTrue'
    BY <1>1, <2>2 DEF FindingsAreTrue
  <2>5. OutcomesAreTrue'
    BY <1>1, <2>1, <2>2, <2>3, PullRequestsAreDistinct DEF OutcomesAreTrue
  <2>6. AcknowledgedRows' /\ PostedFirst' /\ UrlsAreOwn' /\ AcknowledgementsAreReal'
    BY <1>1, <2>2 DEF AcknowledgedRows, Beyond, PostedFirst, UrlsAreOwn, AcknowledgementsAreReal
  <2> QED BY <2>4, <2>5, <2>6 DEF Related
<1> QED BY <1>2, <1>4, <1>5, <1>6 DEF SweepStep, SweepSettles

\* A stop of HiveCore loses what the sweep held and nothing else of this.
LEMMA StopRelated ==
  ASSUME PInv, HiveCoreStops
  PROVE  Related'
<1>1. /\ UNCHANGED <<github, worker, commitState, status, prUrl, reason, outcomes>>
      /\ observed' = {} /\ freed' = {}
  BY DEF HiveCoreStops, HiveCoreRestarts, rowVars, reaperVars
<1> QED BY <1>1 DEF PInv, Related, AcknowledgedRows, Beyond, PostedFirst, FindingsAreTrue,
                    OutcomesAreTrue, UrlsAreOwn, AcknowledgementsAreReal

-----------------------------------------------------------------------------
(* The invariant of the publication *)

\* Every step preserves the invariant.
LEMMA NextPInv == PInv /\ [PublicationNext]_vars => PInv'
<1> SUFFICES ASSUME PInv, [PublicationNext]_vars  PROVE  PInv'
  OBVIOUS
<1>1. IInv'
  BY LedgerStep, NextIInv DEF PInv
<1>2. PublicationTypeOK'
  BY <1>1, PublicationTypes DEF PInv, IInv
<1>3. Related'
  <2>1. ASSUME NEW r \in Reservations, WorkerStep(r)  PROVE  Related'
    BY <1>1, <2>1, WorkerQuiet, WorkerReleases, CommitsRelated, GitHubRelated DEF WorkerStep, Commit
  <2>2. ASSUME NEW r \in Reservations, LoopStep(r) \/ MaintainerCloses(r)  PROVE  Related'
    BY <1>1, <2>2, LoopsQuiet, OthersRelease, CommitsRelated, GitHubRelated DEF LoopStep, Retry
  <2>3. CASE HiveCoreElsewhere
    BY <1>1, <2>3, ElsewhereQuiet, OthersRelease DEF HiveCoreElsewhere
  <2>4. CASE SweepStep \/ HiveCoreStops \/ ReaperRestarts \/ UNCHANGED vars
    BY <1>1, <2>4, SweepRelated, StopRelated, LoopsQuiet
  <2> QED BY <2>1, <2>2, <2>3, <2>4 DEF PublicationNext
<1> QED BY <1>1, <1>2, <1>3 DEF PInv, Related

(***************************************************************************)
(* The invariant that relates the ledger, RepoReaper and GitHub holds in   *)
(* every reachable state, for any number of reservations and restarts.     *)
(***************************************************************************)
THEOREM PublicationInvariance == PublicationSpec => []PInv
BY InitPInv, NextPInv, PTL DEF PublicationSpec

(***************************************************************************)
(* RepoReaper, GitHub and the sweep together drive the ledger as its       *)
(* specification allows: what is proved of PrBudget holds of them.         *)
(***************************************************************************)
THEOREM PublicationIsALedger == PublicationSpec => Spec
<1>1. PublicationInit => Init
  BY DEF PublicationInit
<1>2. PublicationTypeOK /\ [PublicationNext]_vars => [Next]_ledgerVars
  BY LedgerStep
<1>3. PInv => PublicationTypeOK
  BY DEF PInv
<1> QED BY <1>1, <1>2, <1>3, PublicationInvariance, PTL DEF PublicationSpec, Spec

(***************************************************************************)
(* Both processes' memory and tables have values of their kinds.           *)
(***************************************************************************)
THEOREM PublicationTypeCorrect == PublicationSpec => []PublicationTypeOK
<1>1. PInv => PublicationTypeOK
  BY DEF PInv
<1> QED BY <1>1, PublicationInvariance, PTL

(***************************************************************************)
(* No pull request without a row that was acknowledged as publishing.      *)
(***************************************************************************)
THEOREM PrsAlwaysAccountedFor == PublicationSpec => []PrsAreAccountedFor
<1>1. PInv => PrsAreAccountedFor
  BY DEF PInv, AcknowledgedRows, Beyond, PrsAreAccountedFor
<1> QED BY <1>1, PublicationInvariance, PTL

(***************************************************************************)
(* Reconciled slots and recorded outcomes say what GitHub says.            *)
(***************************************************************************)
THEOREM OutcomesAlwaysTrue == PublicationSpec => []OutcomesAreTrue
<1>1. PInv => OutcomesAreTrue
  BY DEF PInv
<1> QED BY <1>1, PublicationInvariance, PTL

(***************************************************************************)
(* A commit RepoReaper stopped retrying is in HiveCore's row.              *)
(***************************************************************************)
THEOREM AcknowledgementsAlwaysReal == PublicationSpec => []AcknowledgementsAreReal
<1>1. PInv => AcknowledgementsAreReal
  BY DEF PInv
<1> QED BY <1>1, PublicationInvariance, PTL
-----------------------------------------------------------------------------
(* Where the two findings end *)

\* The reservations one run release frees together.
Siblings(r) == {s \in Reservations : ProductOf[s] = ProductOf[r] /\ RunOf[s] = RunOf[r]}

\* A slot is freed by run only after GitHub closed a pull request of that run,
\* which the poll has seen.
RunReleasesFollowClosures ==
  /\ \A r \in polled : github[r] \in Kinds
  /\ \A r \in Reservations :
       reason[r] = "run" => \E s \in Siblings(r) : github[s] \in Kinds

\* Only a URL that is spelled differently is refused.
RefusalsAreSpellings ==
  \A r \in Reservations : commitState[r] = "refused_url" => ~UrlMatches(r, PrOf[r])

\* A closed pull request stays as it ended, and the poll takes up only closed ones.
LEMMA ClosuresStay ==
  ASSUME PInv, [PublicationNext]_vars, \A r \in polled : github[r] \in Kinds
  PROVE  /\ \A r \in Reservations : github[r] \in Kinds => github'[r] = github[r]
         /\ \A r \in polled' : github'[r] \in Kinds
<1> USE DEF PInv, PublicationTypeOK, WorkerGoes, reaperVars
<1>1. ASSUME UNCHANGED <<github, polled>>
      PROVE  /\ \A r \in Reservations : github[r] \in Kinds => github'[r] = github[r]
             /\ \A r \in polled' : github'[r] \in Kinds
  BY <1>1
<1>2. ASSUME NEW r \in Reservations, PostPullRequest(r) \/ MaintainerCloses(r)
      PROVE  /\ \A x \in Reservations : github[x] \in Kinds => github'[x] = github[x]
             /\ \A x \in polled' : github'[x] \in Kinds
  <2>1. github[r] \notin Kinds
    BY <1>2 DEF PostPullRequest, MaintainerCloses, PostedFirst, Posted, Kinds
  <2>2. polled' = polled /\ \A x \in Reservations \ {r} : github'[x] = github[x]
    BY <1>2 DEF PostPullRequest, MaintainerCloses
  <2> QED BY <2>1, <2>2
<1>3. ASSUME NEW r \in Reservations, WorkerStep(r), ~PostPullRequest(r)
      PROVE  UNCHANGED <<github, polled>>
  <2>1. CASE \/ \E n \in OwnerLimits : RequestBudget(r, n) \/ ReserveAnswered(r, n)
             \/ RequestFails(r) \/ BeginPublication(r) \/ BeginAnswered(r) \/ BeginFails(r)
             \/ DropReleases(r) \/ DropReleaseFails(r) \/ PushFails(r)
    BY <2>1 DEF RequestBudget, ReserveAnswered, RequestFails, BeginPublication, BeginAnswered,
                BeginFails, DropReleases, DropReleaseFails, PushFails
  <2>2. CASE \/ PostFailureReleases(r) \/ PostFailureReleaseFails(r) \/ RecordPending(r)
             \/ CommitCalled(r) \/ CommitRefusedUrl(r) \/ CommitAnswered(r) \/ CommitFails(r)
             \/ TrackPr(r)
    BY <2>2 DEF PostFailureReleases, PostFailureReleaseFails, RecordPending, CommitCalled,
                CommitRefusedUrl, CommitAnswered, CommitFails, TrackPr
  <2> QED BY <1>3, <2>1, <2>2 DEF WorkerStep, Commit
<1>4. ASSUME NEW r \in Reservations, LoopStep(r)
      PROVE  github' = github /\ polled' \subseteq polled \cup {x \in {r} : github[x] \in Kinds}
  BY <1>4 DEF LoopStep, Retry, RetryCalled, RetryRefusedUrl, RetryAnswered, RetryFails,
              PollObserves, PollReleasesRun
<1>5. CASE SweepStep \/ HiveCoreElsewhere \/ HiveCoreStops \/ UNCHANGED vars
  BY <1>1, <1>5 DEF SweepStep, SweepStarts, SweepAsks, SweepMisses, SweepSettles, HiveCoreElsewhere,
                    HiveCoreStops, vars
<1>6. CASE ReaperRestarts
  BY <1>6 DEF ReaperRestarts
<1> QED BY <1>1, <1>2, <1>3, <1>4, <1>5, <1>6 DEF PublicationNext

\* The ledger's own actions give a row another reason than the run's.
LEMMA OtherReasons ==
  ASSUME PInv, [PublicationNext]_vars, NEW x \in Reservations,
         reason'[x] = "run", reason[x] # "run"
  PROVE  \E r \in polled : x \in Siblings(r)
<1> USE DEF PInv, PublicationTypeOK
<1>1. ASSUME NEW gone \in SUBSET Reservations, NEW why \in Releasers \ {"run"},
             FreeRows(gone, why)
      PROVE  FALSE
  BY <1>1, ReleasesName DEF Releasers
<1>2. ASSUME UNCHANGED reason  PROVE  FALSE
  BY <1>2
<1>3. ASSUME NEW r \in Reservations, PollReleasesRun(r)
      PROVE  r \in polled /\ x \in Siblings(r)
  <2> DEFINE rows == {y \in OfProduct(ProductOf[r]) : RunOf[y] = RunOf[r] /\ status[y] \in Active}
  <2>1. r \in polled /\ rows \in SUBSET Reservations /\ rows \subseteq Siblings(r)
    BY <1>3 DEF PollReleasesRun, OfProduct, Siblings
  <2>2. FreeRows(rows, "run")
    BY <1>2, <1>3 DEF PollReleasesRun, ReleaseForRun, ledgerVars, rowVars
  <2> HIDE DEF rows
  <2>3. x \in rows
    BY <2>1, <2>2, ReleasesName
  <2> QED BY <2>1, <2>3
<1>4. ASSUME NEW r \in Reservations, WorkerStep(r)  PROVE  FALSE
  <2>1. CASE DropReleases(r) \/ PostFailureReleases(r)
    <3>1. PICK why \in {"dropped", "creation_failed"} : FreeRows({r}, why)
      BY <2>1 DEF DropReleases, PostFailureReleases, Release
    <3> QED BY <1>1, <3>1 DEF Releasers
  <2>2. CASE \/ \E n \in OwnerLimits : RequestBudget(r, n) \/ ReserveAnswered(r, n)
             \/ BeginPublication(r) \/ BeginAnswered(r) \/ CommitCalled(r) \/ CommitAnswered(r)
    BY <1>2, <2>2 DEF RequestBudget, ReserveCheck, rowVars, ReserveAnswered, ReserveDecide,
         BeginPublication, BeginSweep, SweepRows, BeginAnswered, BeginApply, CommitCalled, CommitSweep,
         CommitAnswered, CommitApply
  <2>3. CASE \/ RequestFails(r) \/ BeginFails(r) \/ DropReleaseFails(r) \/ PushFails(r)
             \/ PostPullRequest(r) \/ PostFailureReleaseFails(r) \/ RecordPending(r)
             \/ CommitRefusedUrl(r) \/ CommitFails(r) \/ TrackPr(r)
    BY <1>2, <2>3 DEF RequestFails, BeginFails, DropReleaseFails, PushFails, PostPullRequest,
         PostFailureReleaseFails, RecordPending, CommitRefusedUrl, CommitFails, TrackPr, ledgerVars, rowVars
  <2> QED BY <1>4, <2>1, <2>2, <2>3 DEF WorkerStep, Commit
<1>5. ASSUME NEW r \in Reservations, LoopStep(r) \/ MaintainerCloses(r)
      PROVE  PollReleasesRun(r)
  BY <1>2, <1>5 DEF LoopStep, Retry, RetryCalled, CommitSweep, SweepRows, RetryRefusedUrl,
       RetryAnswered, CommitApply, RetryFails, PollObserves, MaintainerCloses, ledgerVars, rowVars
<1>6. CASE SweepStep
  <2>1. ASSUME NEW f \in observed, ReconcileRelease(f)  PROVE  FALSE
    <3>1. FreeRows({f.res}, "reconciled") /\ f.res \in Reservations
      BY <1>2, <2>1 DEF ReconcileRelease, rowVars, IInv, TypeOK, Findings
    <3> QED BY <1>1, <3>1 DEF Releasers
  <2>2. CASE SweepStarts \/ \E r \in Reservations : SweepAsks(r) \/ SweepMisses(r)
    BY <1>2, <2>2 DEF SweepStarts, ReconcileStart, SweepRows, SweepAsks, SweepMisses, ReconcileFetch,
                      rowVars
  <2>3. CASE \E f \in freed : ReconcileRecord(f) \/ ReconcileRecordFails(f)
    BY <1>2, <2>3 DEF ReconcileRecord, ReconcileRecordFails, rowVars
  <2> QED BY <1>6, <2>1, <2>2, <2>3 DEF SweepStep, SweepSettles
<1>7. CASE HiveCoreElsewhere
  <2>1. ASSUME NEW r \in Reservations, Release(r, "operator")  PROVE  FALSE
    <3>1. FreeRows({r}, "operator")
      BY <2>1 DEF Release
    <3> QED BY <1>1, <3>1 DEF Releasers
  <2>2. CASE \/ \E r \in Reservations : LeaseLapses(r)
             \/ \E o \in Owners : CooldownEnds(o)
             \/ \E names \in PolicyStates : ChangePolicy(names)
             \/ \E n \in SuiteLimits, t \in LimitTables : SaveSettings(n, t)
             \/ ReadBudget
    BY <1>2, <2>2 DEF LeaseLapses, CooldownEnds, ChangePolicy, SaveSettings, ReadBudget, SweepRows,
                      rowVars
  <2> QED BY <1>7, <2>1, <2>2 DEF HiveCoreElsewhere
<1>8. CASE ReaperRestarts \/ HiveCoreStops \/ UNCHANGED vars
  BY <1>2, <1>8 DEF ReaperRestarts, HiveCoreStops, HiveCoreRestarts, vars, ledgerVars, rowVars
<1> QED BY <1>3, <1>4, <1>5, <1>6, <1>7, <1>8 DEF PublicationNext

(***************************************************************************)
(* The run release never runs ahead of GitHub: a slot it freed belongs to  *)
(* a run of which GitHub has closed a pull request, though not always this *)
(* one (poll_all_prs and release_pr_reservations_for_run).                 *)
(***************************************************************************)
THEOREM RunReleasesAlwaysFollowClosures == PublicationSpec => []RunReleasesFollowClosures
<1>1. PublicationInit => RunReleasesFollowClosures
  BY DEF PublicationInit, Init, RunReleasesFollowClosures
<1>2. PInv /\ RunReleasesFollowClosures /\ [PublicationNext]_vars => RunReleasesFollowClosures'
  <2> SUFFICES ASSUME PInv, RunReleasesFollowClosures, [PublicationNext]_vars
               PROVE  RunReleasesFollowClosures'
    OBVIOUS
  <2>1. /\ \A r \in Reservations : github[r] \in Kinds => github'[r] = github[r]
        /\ \A r \in polled' : github'[r] \in Kinds
    BY ClosuresStay DEF RunReleasesFollowClosures
  <2>2. ASSUME NEW r \in Reservations, reason'[r] = "run"
        PROVE  \E s \in Siblings(r) : github[s] \in Kinds
    <3>1. CASE reason[r] = "run"
      BY <3>1 DEF RunReleasesFollowClosures
    <3>2. CASE reason[r] # "run"
      <4>1. PICK s \in polled : r \in Siblings(s)
        BY <2>2, <3>2, OtherReasons
      <4>2. s \in Siblings(r) /\ github[s] \in Kinds
        BY <4>1 DEF Siblings, RunReleasesFollowClosures, PInv, PublicationTypeOK
      <4> QED BY <4>2
    <3> QED BY <3>1, <3>2
  <2>3. \A r \in Reservations : Siblings(r) \subseteq Reservations
    BY DEF Siblings
  <2>4. \A r \in Reservations :
          reason'[r] = "run" => \E s \in Siblings(r) : github'[s] \in Kinds
    BY <2>1, <2>2, <2>3
  <2> QED BY <2>1, <2>4 DEF RunReleasesFollowClosures, Siblings
<1> QED BY <1>1, <1>2, PublicationInvariance, PTL DEF PublicationSpec

(***************************************************************************)
(* The finding about run releases is exact: where every run holds one      *)
(* reservation of a product, no open pull request loses its slot.          *)
(***************************************************************************)
THEOREM LoneReservationsKeepTheirSlots ==
  ASSUME \A r \in Reservations : Siblings(r) = {r}
  PROVE  PublicationSpec => []OpenPrsKeepTheirSlots
<1>1. RunReleasesFollowClosures => OpenPrsKeepTheirSlots
  BY DEF RunReleasesFollowClosures, OpenPrsKeepTheirSlots, Kinds
<1> QED BY <1>1, RunReleasesAlwaysFollowClosures, PTL

\* Every step that records a refused URL has compared it.
LEMMA SpellingStep ==
  ASSUME PInv, RefusalsAreSpellings, [PublicationNext]_vars
  PROVE  RefusalsAreSpellings'
<1> USE DEF PInv, PublicationTypeOK, WorkerGoes, reaperVars, UrlMatches
<1>1. ASSUME NEW r \in Reservations, WorkerStep(r)
      PROVE  \A x \in Reservations : commitState'[x] = "refused_url" =>
               commitState[x] = "refused_url" \/ ~UrlMatches(x, PrOf[x])
  <2>1. CASE \/ \E n \in OwnerLimits : RequestBudget(r, n) \/ ReserveAnswered(r, n)
             \/ RequestFails(r) \/ BeginPublication(r) \/ BeginAnswered(r) \/ BeginFails(r)
             \/ DropReleases(r) \/ DropReleaseFails(r) \/ PushFails(r) \/ PostPullRequest(r)
             \/ PostFailureReleases(r) \/ PostFailureReleaseFails(r) \/ CommitCalled(r)
             \/ TrackPr(r)
    BY <2>1 DEF RequestBudget, ReserveAnswered, RequestFails, BeginPublication, BeginAnswered,
                BeginFails, DropReleases, DropReleaseFails, PushFails, PostPullRequest,
                PostFailureReleases, PostFailureReleaseFails, CommitCalled, TrackPr
  <2>2. CASE RecordPending(r) \/ CommitRefusedUrl(r) \/ CommitAnswered(r) \/ CommitFails(r)
    BY <2>2 DEF RecordPending, CommitRefusedUrl, CommitAnswered, CommitFails, FailureRecorded,
                AcknowledgementRecorded
  <2> QED BY <1>1, <2>1, <2>2 DEF WorkerStep, Commit
<1>2. ASSUME NEW r \in Reservations, LoopStep(r) \/ MaintainerCloses(r)
      PROVE  \A x \in Reservations : commitState'[x] = "refused_url" =>
               commitState[x] = "refused_url" \/ ~UrlMatches(x, PrOf[x])
  BY <1>2 DEF LoopStep, Retry, RetryCalled, RetryRefusedUrl, RetryAnswered, RetryFails,
              PollObserves, PollReleasesRun, MaintainerCloses, AcknowledgementRecorded
<1>3. CASE SweepStep \/ HiveCoreElsewhere \/ ReaperRestarts \/ HiveCoreStops \/ UNCHANGED vars
  <2>1. commitState' = commitState
    BY <1>3 DEF SweepStep, SweepStarts, SweepAsks, SweepMisses, SweepSettles, HiveCoreElsewhere,
                ReaperRestarts, HiveCoreStops, vars
  <2> QED BY <2>1 DEF RefusalsAreSpellings
<1> QED BY <1>1, <1>2, <1>3 DEF PublicationNext, RefusalsAreSpellings

(***************************************************************************)
(* The finding about URLs is exact: HiveCore refuses a pull request's own  *)
(* URL only for its spelling, so where GitHub spells every repository as   *)
(* normalize_repo_name does, none is refused.                              *)
(***************************************************************************)
THEOREM NormalizedUrlsAreAccepted ==
  ASSUME \A r \in Reservations : UrlRepo[PrOf[r]] = RepoOf[r]
  PROVE  PublicationSpec => []OwnUrlIsAccepted
<1>1. PublicationInit => RefusalsAreSpellings
  BY DEF PublicationInit, RefusalsAreSpellings
<1>2. PInv /\ RefusalsAreSpellings /\ [PublicationNext]_vars => RefusalsAreSpellings'
  BY SpellingStep
<1>3. RefusalsAreSpellings => OwnUrlIsAccepted
  BY DEF RefusalsAreSpellings, OwnUrlIsAccepted, UrlMatches
<1> QED BY <1>1, <1>2, <1>3, PublicationInvariance, PTL DEF PublicationSpec

\* A row whose pull request is spelled differently carries no URL and no
\* acknowledgement.
SpellingsStrandCommits ==
  \A r \in Reservations :
    ~UrlMatches(r, PrOf[r]) =>
      status[r] # "committed" /\ prUrl[r] = NoUrl /\ commitState[r] # "committed"

(***************************************************************************)
(* What the refusal costs: a pull request in a repository GitHub spells    *)
(* with capitals is never committed by the worker or by any retry, so the  *)
(* sweep, which only visits committed rows, never sees its row.             *)
(***************************************************************************)
THEOREM SpellingsAlwaysStrandCommits == PublicationSpec => []SpellingsStrandCommits
<1>1. PInv => SpellingsStrandCommits
  <2> SUFFICES ASSUME PInv, NEW r \in Reservations, UrlRepo[PrOf[r]] # RepoOf[r]
               PROVE  status[r] # "committed" /\ prUrl[r] = NoUrl /\ commitState[r] # "committed"
    BY DEF SpellingsStrandCommits, UrlMatches
  <2>1. prUrl[r] = NoUrl
    <3>1. NoUrl = PrOf[r] \/ prUrl[r] # PrOf[r]
      BY DEF PInv, IInv, RowsDecode
    <3> QED BY <3>1 DEF PInv, UrlsAreOwn
  <2>2. NoUrl # PrOf[r]
    BY PullRequestsAreDistinct, ConstantTypes
  <2> QED BY <2>1, <2>2 DEF PInv, IInv, RowsDecode, AcknowledgementsAreReal
<1> QED BY <1>1, PublicationInvariance, PTL
=============================================================================
