# PatchHive in TLA+

A TLA+ model of the parts of PatchHive in which several actors share durable
state: HiveCore's pull-request budget with RepoReaper's write path as its
client; approvals and the dispatches that spend them; the work engine with its
resources and pauses; suite runs, fleet launches and the suite's pause;
RepoReaper's runs from an issue to a pull request; and what maintainers' answers
to that pull request lead to. Every definition is translated from the Rust
sources; the map in `PROJECT.json` names the lines it stands for. TLC checks the
models on small instances (twelve runs), and TLAPS proves their safety
properties, and what the findings need and cost, for every value of the constants
(sixty listed theorems).

Paths are relative to the repository root, with `HC` for
`products/hive-core/backend/src`, `RR` for `products/repo-reaper/backend/src`
and `core` for `crates/patchhive-product-core/src`.

## The system

PatchHive is a suite of maintenance products around one control plane.

| Part | State it keeps | Operations | Talks to |
| --- | --- | --- | --- |
| PR budget (`HC/db.rs`, `HC/pipeline/policy.rs`) | reservation rows, suite and product limits, outcome rows that start owner cooldowns | reserve, begin, commit, release, release for a run, save settings, expire | products (HTTP), reconciliation (same database) |
| Reconciliation (`HC/pr_reconciliation.rs`) | the snapshot it walks, in memory | one sweep every five minutes: ask GitHub about each committed row, release, record the outcome | GitHub, the budget |
| Write authorization (`core/write_authorization.rs`, `core/hivecore_policy.rs`) | a guard in the product's memory | request, begin, commit, release, drop | the budget (HTTP) |
| RepoReaper publication (`RR/fix_worker/patch.rs`, `RR/lib.rs`, `RR/startup.rs`) | pending commits and tracked pull requests, in its own database | publish, commit retry loop, pull-request poll | GitHub, the budget |
| RepoReaper runs (`RR/fix_worker/orchestrate.rs`, `RR/pipeline.rs`, `RR/agents.rs`) | the lock of the one active run, runs and attempts, a clone per issue, a ledger of model costs | hunt, webhook fix, patch, review, test, retry, judge, publish, cancel, recover | AI, sandbox, TrustGate, publication |
| Maintainer engagements (`HC/engagements.rs`, `RR/fix_worker/follow_up.rs`, `RR/routes/engagement.rs`) | owned artifacts, engagements; RepoReaper's tracked pull requests and exclusions | webhook, decide, pause; follow up, reply, exclude | GitHub, work engine, pauses |
| Approvals (`HC/pipeline/approvals.rs`, `core/approvals.rs`) | approval rows and their events | create or get, grant, deny, revoke, expire, claim, consume | operator, dispatch |
| Dispatch (`HC/pipeline/dispatch.rs`) | action events | check contract, safety and approval, send, record | products (HTTP), approvals |
| Work engine (`HC/work_engine.rs`, `HC/pipeline/work_ledger.rs`) | work items with claims and leases | claim, execute, heartbeat, settle, recover | dispatch, resources, pauses |
| Work resources (`HC/db.rs`, `core/hivecore_kernel.rs`) | AI budget reservations, sandbox leases | admit, renew, settle, expire | work engine, approvals |
| Conductor and mandates (`HC/conductor.rs`, `HC/pipeline/mandates.rs`) | mandates, facts, proposals | tick | work ledger |
| Pause authority (`HC/pipeline/governance.rs`) | pauses and their drain | pause, drain, resume | work engine, budget |
| Fleet launches and suite runs (`HC/pipeline/setup.rs`, `HC/pipeline/suite_runs.rs`) | launch jobs with leases, suite run records | queue, progress, recover; start, execute steps, record an approved step | launcher, dispatch |
| Analysis products, services, surfaces | their own reports and configuration | fetch, score, store, serve | GitHub, HiveCore |

HiveCore's durable state is one SQLite file. Every operation that writes the
tables modelled here opens an immediate transaction, and SQLite serializes
those, so the grain of the models is the transaction. What makes the system
hard is everything above that grain: handlers made of two transactions, reads
made before the transaction that relies on them, awaits between a check and the
act, guards that are dropped, HTTP answers that do not come, two loops and a
worker that all settle the same row, and restarts of either process.

What must be right, by component:

- **Budget.** No layer (suite, product, owner) is ever granted beyond the limit
  in force; a reservation is held once; a freed one never comes back; the row
  stays decodable; nothing is granted to a repository that is refused.
- **Reconciliation.** It believes GitHub only; a row is released for the URL
  that was asked about; an outcome belongs to a row it released, and every such
  row gets one.
- **Publication.** No pull request without an acknowledged publishing row; an
  acknowledgement that is recorded is real; a pending commit settles; the slot
  of a closed pull request returns; the slot of an open one stays.
- **Approvals and dispatch.** What is sent was granted, for exactly this
  subject, and once; a restart does not send it again; a dispatch that is
  reported as such survives a restart.
- **Work engine.** An item's request is sent once, whatever leases lapse and
  whoever dispatches it, unless two approved calls claim its approval together;
  after that it is not open again and what it came to
  stays; every claim ends; the sandbox slots in use never exceed the limit; a
  dispatch that begins under a pause sends nothing.
- **Suite runs, launches, pause.** A record says of each step what the product
  said; a step is sent by the run or by the operator's call, and by two calls
  only where they claim its approval together; a halted run or a paused suite
  sends nothing; a drain ends; one launch is active.
- **RepoReaper runs.** What a pull request holds was judged by TrustGate as one
  diff and, but for files the tests wrote, approved by Smith; it is ready only
  for patches that passed the tests; an issue gets one; what calls cost is in the
  ledger, and the ledger within its budget, but for what a call costs beyond its
  reservation; a run's report is true and every run gives the lock back.
- **Engagements.** The inbox says what was done; only a trusted request becomes
  work; a follow-up's commit sits on what it was judged on; attempts stay within
  the cap.

## Modules

`CapacityPool` is what a budget layer promises, independently of rows: held
slots, spent slots, a limit; a step gives back any number of slots and takes at
most one, which must never have been held and must fit the limit. Lowering the
limit evicts nobody.

`PrBudget` is HiveCore's ledger. `status`, `prUrl` and `reason` are the columns
of `pr_budget_reservations`; `suiteLimit` and `productLimit` the settings;
`outcomes` the rows of `hive_core_work_outcomes`; `queue`, `observed` and
`freed` the memory of the reconciliation sweep. A handler that runs two
transactions (begin, commit), or reads authority before it opens one (reserve),
is two actions joined by an entry of `calls`, which a restart forgets:
`ReserveCheck`/`ReserveDecide`, `BeginSweep`/`BeginApply`,
`CommitSweep`/`CommitApply`. The clients are left open in `Next`: any call on
any reservation in any order. The ledger is shown to implement `CapacityPool`
for the suite (`SuitePool`) and for every product and owner (`LayerPools`).

`PrPublication` extends `PrBudget` with its real clients and GitHub. `worker[r]`
walks `publish_pull_request`, with the guard's three ends (commit, release,
drop); `commitState` and `tracking` are RepoReaper's two tables; `retrying` and
`polled` are its two loops, each of which awaits one row at a time. Serving a
request and receiving the answer are one step; a caller that gives up takes a
step of its own (`RequestFails`, `BeginFails`, `CommitFails`, `RetryFails`)
before or after HiveCore has served it, so a lost request, a lost answer and a
handler that runs after its caller is gone all occur. The POST to GitHub may
open the pull request and still look like a failure.

`Approvals` is the approval rows, the operator's handlers and
`dispatch_with_approval`. Each call is a task of its own; `step[t]` is the await
or transaction it has reached, `seen[t]` the contract it fetched, `remote[t]`
what it learned from the product, `received` and `events` the ghosts of what
the product got and what was stored.

`Kernel` is the admission rule of `core/hivecore_kernel.rs` as operators:
from evidence of GitHub's rate, the owner's state, smoke tests and resources to
the layers that limit a dispatch, and the autonomy an action has earned.

`SubjectApproval` is what approval means for one subject, independently of rows
and tasks: it is asked about, granted, and once its grant is being consumed
nobody takes it back; only the consumption ends it. Every module that has
approvals is shown to implement it.

`WorkEngine` is work items and the tasks that may dispatch them: claims of
engine cycles and calls of `dispatch_approved`. An item has a `state`, a
`holder` (claim identity), may be `overdue` (its lease has passed) or `cooling`,
and may have an `approval`; `ai`, `sandbox` and `lapsed` are the tasks'
reservations and leases, `aiSpent` and `earlier` the day's charges and the
reservations of days before, `slots` and `aiLimit` the saved policy, `pause` and
`watched` the pauses and the dispatches that began under them, `sent` the
requests products received. `shared` remembers the items of which two calls stood
between the check and the claim of the approval at once. `execute_claim` and
`dispatch_approved` are walked step by step, from the pause and mandate checks
through admission and the dispatch to both settlements. Its sandbox leases are
shown to implement `CapacityPool` (`SandboxSlotsAreAPool`). Its AI budget is no
pool, since answers report costs of their own and operators lower the limit.

`SuiteOperations` composes suite runs, the approved step that another request
records later, fleet launches and the suite's pause with its drain. A run has a
`row` and `stored` record in the database and `phase`, `position`, `local` in
the request that executes it; `asked`, `approval` and, for each of the calls that
may dispatch it, `call` and `result` follow its approved step, `shared` is as in
`WorkEngine`; `job`, `stale` and `worker` are the launches; `counted` is the
number in flight that a pause read before it stored its record.

`ReaperRuns` is a run of RepoReaper: `active`, `started`, `phase`, `queue`,
`cancel` of the run's task, the ledger of model costs (`used`, `exhausted`; what
calls really cost is `spent`, what they were charged beyond their reservations
`overrun`, what nobody charged `unbilled`), one `job` per issue, one `tree` per
work directory, and `branch`, `prs` and `late` on GitHub; `run`, `taken` and
`attempt` are what is stored.
`fix_one` is walked from the queue to the recorded attempt with all its early
ends. `Fault` stands for a git reset, or an access to the process's own
database, whose failure the code ignores.

`Engagements` is HiveCore's inbox (`inbox`, `delivery`, `decision`, `queued`,
`pause`, `halted`) and RepoReaper's side of it (`tracked`, `count`, `excluded`,
`job`, `base`), with the pull request and its `branch` on GitHub. Webhook calls
and decisions are calls with a step per transaction; a dispatched item is a job
that is let in, counted, checked out, judged and pushed, or replies.

`MC...` modules give the instances for TLC; a `...Proofs` module holds the
theorems about the module it is named after.

How they compose: `PrPublication` extends `PrBudget`, so clients and ledger step
together. `WorkEngine` uses `Kernel` and instantiates `CapacityPool`, as does
`PrBudget`. Elsewhere a component meets its neighbour at an interface that the
neighbour's module justifies: `ReaperRuns` sees the budget as an answer
(`PrPublication` has what follows), `WorkEngine` and `SuiteOperations` keep one
approval per item or step, with the two claims of it that may both succeed
(`Approvals` has the rows; all three implement `SubjectApproval`, so the short
form does nothing that the rows could not), and `Engagements` sees a dispatch as
happening at most once: its follow-ups and replies are proposed as items of their
own, and `WorkIsSentOnce` says when one could be requested twice.

### Abstractions

- *Time.* A lease that has run out but was not swept yet is a member of
  `lapsed` (`overdue` for approvals), an owner inside its cooldown a member of
  `cooling`. Leases and cooldowns of any length are covered, since a row may
  lapse at any moment after it was written. What is lost is the order between
  deadlines.
- *Authority.* Pauses, mandates and repository rules are one set, `refused`,
  that changes at any moment. Per-mandate owner limits are the argument of the
  reservation.
- *Names.* Spelling matters in one place only, so names are model values with
  `Lower` and `UrlRepo`; the two comparisons of a URL with a repository (exact
  in the commit handler, normalized in the sweep) differ as they do in the code.
- *RepoReaper's runs.* Every call reserves one unit. It is charged any amount
  (estimates count a token as four characters, OpenRouter's cost is its own, or 0
  where it reports none), and may cost more than that: `openai_call` asks twice
  when the first completion is empty, and settles one cost or none
  (`RR/agents.rs:446`). The cancel flag is read in the step it guards. A tree's
  content is the set of patches in it, and `Litter`, which stands for whatever
  the tests of one issue wrote to the clone (mounted for writing,
  `RR/git_ops.rs:635`); a test that timed out may go on writing until the diff is
  staged. That tests change the clone's git data is left out, as are dry runs,
  which only hold the lock. Clones left over by a stop are dropped at the
  restart, since `git_clone` removes a directory before it uses it. Pull requests
  are not closed here.
- *Engagements.* A message is a request or question of a trusted maintainer, an
  acknowledgement, a trusted stop (opt-outs and security reports too), or unfit;
  the classification of text into those is not modelled. A call that fails, is
  dropped or loses its process ends in the same way, so restarts have no action
  of their own. Issues cannot become work and are left out.
- *Work items.* Amounts are counted in estimates of one dispatch; an answer
  reports any cost of `Costs`, or none, which charges the estimate. A reservation
  or lease that was released, expired or replaced is `over`. Identity,
  fingerprint and evidence of an item are the item.
- *Audit events*, formatting and response bodies are left out. So is the
  reopening of a pull request, which neither loop looks for once it has acted.
- *Faults.* A few operators, commented as faults, are altered copies of the
  operator that follows them: the mutant checks substitute them to show that a
  property does notice such a change. No specification uses them.

## Runs

| Run | Instance | Shows |
| --- | --- | --- |
| `pr_budget` | 3 reservations over 2 products and 2 owners, suite limit 2 to 1, product limit 2 to 1, owner limit 1, two handlers in flight | the ledger is a pool in every layer; rows decode |
| `pr_liveness` | 1 pull request, every failure, operator releases, policy and limit changes, 2 restarts | pull requests are accounted for, outcomes true, acknowledgements real; pending commits settle; slots of closed pull requests return |
| `approvals` | 2 approvals, 2 concurrent dispatches, three contracts of which two are gated, 1 restart | authorization, one live approval, no replay after a restart, durable dispatches |
| `work_engine` | 2 items, one of which is always refused; 3 tasks out of 2 engine cycles and 2 approved calls, one sandbox slot, an AI limit of 2 estimates with answers that cost 1 or 2, a suite pause, a restart or a midnight | requests are sent once but by calls that claim together, sent work is not open, outcomes are final, pauses stop dispatches, slots are a pool, claims end |
| `suite_operations` | 1 run of 2 steps, 2 calls, 2 launches, of which 3 begin in one behaviour; a suite pause, 1 restart | records are true, steps have one sender but for calls that claim together, one launch is active, halted and paused runs are silent, drains end |
| `reaper_runs` | 2 issues in one run, whose calls may cost one unit unforeseen, or 1 issue in two runs, or 1 issue and a fault, or 1 issue whose tests write to its clone; 2 workers and 2 permits, 1 retry, 2 calls' worth of budget, 1 restart | published work is reviewed, ready pull requests passed, both but for what tests wrote; one per issue, spending is covered, reports are true, runs end |
| `engagements` | 2 messages, the first a request, the second of any kind; 2 deliveries, 2 decisions, 4 possible items, a cap of 1, one commit of others, one uncounted attempt | the inbox is true, the branch is reviewed, attempts are bounded |
| `outcome_lost`, `run_release`, `url_spelling`, `approval_reuse`, `work_mandate_pause` | the instances above, with two pull requests for `run_release` and one mandate for `work_mandate_pause` | disagreements between code and documents, below |

Bounds: `MaxCalls` limits handlers between two of their transactions, over all
clients; two suffice for one handler to act inside another's gap, and where it
is 8 it exceeds what the instance can reach. `MaxRestarts` counts restarts of
both processes. Three reservations are the least with which a product and an
owner overlap without coinciding, so that each layer is in turn the one that
refuses; two tasks and two approvals are the least with which approvals and
dispatches can be confused. Row counts beyond that repeat the same situations,
and where the theorems state a property they remove the bound.

Three tasks on two items are the least with which a claim lapses while another
task takes the item and a third waits for the slot, or an engine's task asks for
an approval that two calls then see granted. `MaxTasks` and `MaxWork` bound how
many of the named tasks, calls, runs and launches begin in one behaviour, and
`MaxUpsets` the restarts and midnights of it; which ones begin is open. With the
bound at 3 a run and both calls of its step meet, or a run, a launch and a late
worker of the launch before. A suite run of two steps has a step before, at and
after its position.

In `reaper_runs` two workers share the ledger and the process's permits, two runs
of one issue meet at its branch and its pull request, one fault leaves a patch in
a tree, and tests write to a clone that retries reset and patch again. The four
are separate worlds of one run, since a fault or a test in one worker touches
nothing of another's and together they only multiply the states. Each issue has a
work directory of its own there. Two deliveries and two decisions are the least
with which each can come between another's check and its write, and a cap of one
is reached by the first follow-up, so that the second either overlaps it or is
refused.

Deadlock is not checked: requests are finite, and once all identifiers are used
up and everything has settled nothing is left to do.

### Fairness

Four runs assume any.

`pr_liveness`: `reconcile` and `pr_reservation_commit_retry_loop` are spawned
once and repeat on a timer for as long as the process runs, so the sweep starts,
asks and settles (weak fairness), and every request ends at the latest in the
client's timeout (`RetryFails`). Strong fairness says two things more:
HiveCore's and GitHub's answers about one row do not fail every single time
(`SweepAsks`, `RetryAnswered`), and the retry loop, which takes the least
recently updated rows first, comes to each row (`RetryCalled`). Workers,
maintainers, operators, the poll and restarts are assumed nothing of; restarts
are finite by `MaxRestarts`.

`work_engine`: a task that runs goes on (its calls answer or time out), leases
pass with time, and the background loop starts cycles. Operators and products'
answers are not fair.

`suite_operations`: the request that executes a run and a launch's worker go on,
and a claim ends. `ReconcilePauseDrains` is called by the background loop when
its own cycle has settled its claims and by every read of the governance status,
so it is not missed for ever each time it could act (strong fairness). Nobody has to pause, resume, approve or retry.

`reaper_runs`: the run's task and each worker go on; models, GitHub and git
answer or time out, and somebody reads the event stream, whose channel is
bounded.

## Findings

| Run | Code | Against |
| --- | --- | --- |
| `outcome_lost` | `HC/pr_reconciliation.rs:144`: release and outcome are two transactions, and a row whose second one failed is in no later snapshot | `docs/hivecore-architecture.md:360` |
| `run_release` | `RR/startup.rs:230`: one closed pull request releases the slots of all of its run | `docs/hivecore-architecture.md:121` |
| `url_spelling` | `HC/pipeline/policy.rs:447`: the URL of a repository with capitals is refused on every retry, and the row is only freed by its lease | `docs/hivecore-architecture.md:73`, the message at `policy.rs:383` |
| `approval_reuse` | `HC/pipeline/dispatch.rs:324`: a second claim takes another task's consuming row for its own success | `docs/hivecore-architecture.md:106` and `:236` |
| `work_mandate_pause` | `HC/pipeline/dispatch.rs:221`: the check at a dispatch is told no mandate, so an approved dispatch of a paused mandate's item is sent | `docs/autonomous-maintenance-loop.md:340`, `docs/hivecore-architecture.md:444` |

### Other observations

What follows was met while modelling and has no run, because no document speaks
of the behaviour, because the model leaves out the detail that shows it, or
because stating it again would add nothing to the models.

- *Reservations.* Pauses, mandate and repository policy are read before the
  reservation's transaction opens (`HC/pipeline/policy.rs:320` and `:349`), while
  `docs/autonomous-maintenance-loop.md:152` has them repeated inside it: a
  refusal recorded in between does not stop the grant. `ReserveCheck` and
  `ReserveDecide` are two steps for this reason, and `RefusalsAlwaysHold` bounds
  what slips through. A POST that fails without an
  answer releases the slot of a pull request that may exist.
- *Approvals.* A row left consuming by a stop keeps its subject from ever being
  approved again (`StopsStrandApprovals`). A work item whose approval is denied,
  revoked or expires waits for ever (`ItemsWaitInVain`).
- *Suite runs.* A run whose request was dropped, or whose last save failed, stays
  running for ever, and a suite pause then never drains
  (`InterruptedRunsAlwaysHoldDrains`).
- *Work directories* are named by the repository's short name and the issue
  (`RR/fix_worker/types.rs:121`). With one directory for two issues of one hunt
  one's patch is staged with the other's, so `PublishedWorkIsReviewed` and
  `ReadyPrsPassedTests` say nothing of issues that share one, and `IssuesGetOnePr`
  assumes that none do; `docs/suite-runs-and-fix-capabilities.md:26` speaks of isolated
  clones.
- *Tests* run in the clone with write access, and staging takes all that differs
  (`git add -A`, `RR/git_ops.rs:197`): what they generate is judged by TrustGate
  and published, in ready pull requests too, without Smith having seen it and
  without having been there when the tests began.
- *Model costs.* A call that turns out dearer than its reservation takes the
  ledger over the budget (`RR/agents.rs:92`), and an empty completion that was
  paid for is charged to nobody. In HiveCore's work engine the reported cost is
  committed whatever the limit (`HC/work_engine.rs:235`).
- *Overlapping calls.* What `approval_reuse` shows of an approval holds of what
  it authorizes: two calls of `dispatch_approved` that stand between check and
  claim together both send the work item's or the suite step's request, and the
  later of two answers is what the suite run then says of the step.
- *RepoReaper's runs.* After a reset whose failure is ignored, a patch that
  Smith rejected is staged and published as a draft. Smith's improvement of the
  first patch is recorded and not applied.
- *Follow-ups.* The cap is read, policy is asked over HTTP, and then the attempt
  is counted (`RR/fix_worker/follow_up.rs:172` and `:214`), so overlapping
  follow-ups exceed it together, against `products/repo-reaper/README.md:131`; a
  count that fails is ignored. Follow-ups do not take the worker semaphore that
  README:129 names. The return to draft of README:132 cannot happen, since a
  pull request that is not a draft is refused first.
- *Engagements.* `update_lifecycle` writes whatever is stored by then
  (`HC/engagements.rs:256`), so of two operators' decisions the later one stands:
  a paused engagement can become one with a work item, against
  `docs/maintainer-engagement-loop.md:80`. That takes two decisions that overlap
  (`OverwritesNeedOverlappingDecisions`). A stop does not reach a follow-up that
  was let in, and whether the pull request is still an open draft is not asked
  again before the push. Messages on a pull request whose reservation was freed
  before anything recorded its owner are ignored.

## Proofs

The proof modules of state machines follow one course: the inductive invariant,
a lemma per action or group of actions, the invariance theorem, and the theorems
that name the properties of the runs or say more than a run checks. They assume
what the modules' `ASSUME`s state about the constants, which TLC evaluates in the
runs: above all that the bounds are naturals and that what is counted
(reservations, items, slots) is finite. Nothing else is bounded.

Some theorems have a hypothesis of their own, written into their statement.
`DistinctPaths` (no two issues share a work directory) is true of most hunts;
`IssuesGetOnePr` alone needs it, and the other theorems about pull requests speak
of the issues that have a directory of their own, whatever the others share.
`AiBudgetIsKeptAtEstimates`, a corollary, supposes that no answer costs more than
its estimate and that the limit is not lowered.
The others belong to theorems which say that a finding is *exact*: the code
breaks its document in this way and no other. On constants they are that every
run holds one reservation of a product, or that GitHub spells every repository as
the normalized name; on behaviours that no two dispatches of one approval, work item
or run stand between check and claim together, that no two decisions on one
message overlap, or that no recording transaction fails.
None of them is vacuous: under each the component still does all of its work.

**PrBudgetProofs.** `RowsDecode` and `OutcomesFollowReconciledRows` are not
inductive alone: a commit call is checked against the row's repository in its
first transaction and stored in its second. The invariant adds
`CallsKnowTheirRows`: a pending reservation is the only one for its row, which
does not exist yet, and a pending commit carries a URL that was matched with its
row. For the refinement, `StepKinds` says that every step only frees rows,
or grants one row and otherwise only frees, or changes one limit;
`GroupFrees` and `GroupGrants` restrict such a step to a group of rows, and
`GrantFits` counts it. `LedgerIsSuitePool` and `LayersArePools` follow for any
group and any limits. The same kinds of step give what no step may undo
(`RowsAlwaysKeepTheirHistory`). `OutcomesAreOnlyDropped` needs that the sweep
works on one row at a time: a row it released is the one it records next, or it
dropped the outcome. `RefusalsAlwaysHold` follows the calls that passed the
checks before a refusal was stored: the set shrinks, and only its members are
still granted a row.

**ApprovalsProofs.** `NoReplayAfterRestart` speaks of requests that were
received; what keeps it true is who may still send one. A *holder* is a task
that went through the claim, or whose request arrived. The invariant says that
holders' rows are consuming or consumed, with the contract the holder saw
(`HoldersAreAuthorized`), that two holders of one row share a life of HiveCore
(`HoldersShareALife`) and, which makes that inductive, that a task about to
claim shares it too (`CheckedTasksAreCurrent`): it saw the grant in this life,
so nobody had claimed before. `ConsumedRowsNameTheirTask` does the same for
durability. These hold although a grant may be spent twice within one life,
which is what `approval_reuse` exhibits; `ReuseNeedsOverlappingChecks` shows
that this takes two tasks between check and claim, since otherwise a row has one
holder (`HoldersAreSingle`). `SubjectsHaveOneLife` maps the rows of a subject to
one stage, that of its live row: uniqueness of live rows makes the map a
function, and every handler, sweep included, one abstract step.
`EndedRowsAreAlwaysKept` and `StopsStrandApprovals` say what stays: ended rows as
they ended, and rows that a stop found consuming as they are, with no other live
row of their subject.

**PrPublicationProofs.** The publication keeps the ledger's invariant, since each
of its steps takes ledger steps or leaves the ledger alone
(`PublicationIsALedger`). On top: a worker that was told of a publishing row has
one, or the row was freed meanwhile (`AcknowledgedRows`); a pull request was
posted by a worker that had begun (`PostedFirst`); what the sweep found about a
URL is so on GitHub and stays so (`FindingsAreTrue`); the URLs in worker,
pending commit and row are the pull request's own (`UrlsAreOwn`).
`RunReleasesAlwaysFollowClosures` adds that the poll knows only closed pull
requests: a slot freed by a run release has a closed sibling, which is the row
itself where a run has one. For URLs, a refused commit compared spellings
(`RefusalsAreSpellings`), and with `UrlsAreOwn` and `RowsDecode` a row whose
spelling differs is never committed (`SpellingsAlwaysStrandCommits`).

**WorkEngineProofs.** The question behind `WorkIsSentOnce` is who may still send
an item's request. `LedgerInv` answers it: nobody while the item is open, the
task its claim names while it is dispatching, and after that a call that found
the approval granted. Such *contenders* are one, or calls that stood there
together (`OneContender`), since whoever claims leaves no grant for a later call
to find; an engine's task contends only while there is no approval
(`ApprovalsDecide`). A lapsed lease changes the item and never the answer.
`SharingTakesTwo` says what puts an item into `shared`, from which
`WorkSentOnceByCallsApart` follows. `SandboxIsAPool` is the refinement: a step
takes one slot at most, in the transaction that counted them. For AI money
`BudgetSteps` sorts the steps into those that only free, those that reserve one
estimate and those that turn a reservation into its charge; the load they count
grows within the limit in force, or by what an answer reports beyond its estimate
(`AiLoadIsAlwaysGoverned`). `ItemsWaitInVain` is an invariant of
single items: while the approval is closed, or in a claim of no living task, no
step touches the item.

**KernelProofs** is about operators, with no state. `AdmissionIsCautious` and
`AutonomyIsEarned` say in which direction admission and autonomy depend on their
arguments: unknown evidence denies, more demand never helps, less evidence never
raises.

**SuiteOperationsProofs.** A run's memory says more than its record
(`RunsAdvance`): every step before its position has ended, none that would stop
it, and it asked for nothing ahead. A run that asks for an approval halts
(`ApprovalsHalt`), so the run and the approved calls never meet at one step, and
only the calls still write into the stored record (`RecordsStand`). Two calls that
both went through the claim put the run into `shared`, by the argument of
`WorkEngineProofs`. An
interrupted run has no request that would end it, and its record says running
and nothing else (`RunningIsBare`), so whoever counts the runs in flight counts
it for ever (`InterruptedRunsAlwaysHoldDrains`).

**EngagementsProofs.** Work and pauses are stored before the engagement is, so a
call about to write has done what it will claim (`DeliveriesAct`,
`DecisionsAct`), whatever was stored since its check; and a message that is no
request is never awaiting a decision, so its calls can only resolve it. A commit
on the branch is that of a job that pushed it and checks nothing out any more
(`BranchInv`). While no two follow-ups overlapped, one that is let in is alone
and has an attempt left (`CapInv`). While no two decisions on a message overlap,
what a decision was checked against still allows it when it is written
(`StillAllowed`): a delivery stores an engagement only where there is none yet,
and no decision is at work there.

**ReaperRunsProofs.** Which patches a tree may hold depends on where its worker
is: approved ones, the one in hand while it is reviewed, and what tests wrote, until a
reset has failed (`Keeps`); from staging on, what passed the tests is what is
staged, judged and pushed, again but for what tests wrote (`Written`). `Counted` says how many patches and retries a worker has had
at each step and that nothing has passed its tests before it is staged, so a
retry never carries an old result. A branch is pushed once, only a pushed branch
is posted, and who posts has no pull request yet (`PrInv`). All of this is said of
an issue with a work directory of its own: no other worker's step touches its
tree (`WorkerKeepsOwn`), also while those others share theirs. The types, the
ledger and the reports (`RowsInv`) need not even that. In the ledger an open call
is worth its reservation, and a settlement replaces it by the charge and records
what it leaves out (`Charged`). In the reports a fixed attempt's issue was
scheduled, so equal counts are equal sets. `WavesOnlyGoForward` is the part of `RunsEnd` that is no liveness:
`Rank` measures what a worker still has to do (the steps ahead of it, a full
round for every retry it has left, and a half-step for an open model call), and
every step of a wave lowers the `Standing` of one issue and raises none.

**Only model-checked:** all liveness (`PendingCommitsSettle`, `ClosedSlotsReturn`,
`ClaimsEnd`, `DrainsEnd`, `RunsEnd`), since fairness and `ENABLED` are beyond the
prover.

## Not modelled, and why

`PROJECT.json` lists each component with its reason.

- *Conductor and mandates.* A tick asks a product for findings, ingests them and
  runs one engine cycle; the last two are actions of `WorkEngine`, the first is
  an answer. Mandates are settings; whether one is active is an input.
- *Repository policy and the public opt-out.* Pure rules over a table of
  refusals. The models take the verdict and let it change at any moment.
- *Scheduling.* One timer per product that starts a run and shares nothing.
- *Authentication, secrets, rate limits, contracts.* Guards in front of the
  handlers, with no protocol between parts.
- *Provisioning and the launcher service.* What a launch's worker asks of the
  host is an exchange whose answers end in the job's steps.
- *Analysis products, surfaces, API clients, services.* They fetch, score,
  format, store a report of their own and serve it; none opens a pull request.
  They are most of the repository's lines, which is why the map covers a small
  share of them.
- *Dry runs* of RepoReaper, which publish nothing, and the *comments and status
  messages* that go with the modelled steps.

## What is left

The rules of repository policy as operators against a reference definition;
mandate limits in the instances of `WorkEngine`; work directories that two issues
share, with the steps inside `git_commit_push`; and a pull request that is
reopened or closed in `ReaperRuns`.
