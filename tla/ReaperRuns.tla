----------------------------- MODULE ReaperRuns -----------------------------
(***************************************************************************)
(* A RepoReaper run: a hunt over several issues or the fix of one issue a  *)
(* webhook reported.  One run is active at a time.  A hunt spawns one      *)
(* worker per issue, at most Concurrency at once; each worker clones the   *)
(* issue's repository into its work path, asks models for a patch and      *)
(* Smith for a review, tests the tree, retries a failing patch, has the    *)
(* staged diff judged and publishes it.  Tests run in the clone and may    *)
(* write to it.  Models are paid from a ledger the workers share.  The     *)
(* process may stop at any point; pull requests whose POST was under way   *)
(* may still appear.                                                       *)
(*                                                                         *)
(* HiveCore's budget and the commit of a reservation are in PrPublication; *)
(* here the budget is one of the answers that hold a diff back.            *)
(***************************************************************************)
EXTENDS Naturals, FiniteSets

CONSTANTS
  Issues,           \* issues a hunt may find
  Paths,            \* work directories
  WorkPath,         \* the work directory of each issue
  MaxRuns,          \* bound on the runs started
  Worlds,           \* per behaviour: the issues each run may find, a bound on the
                    \* local failures the code ignores, whether tests write to the
                    \* clone, and a bound on what a run's calls cost unforeseen
  Concurrency,      \* workers of one hunt at a time
  Permits,          \* workers of the process at a time
  MaxRetries,       \* retries of a failing test
  AiLimit,          \* model calls the cost budget admits at once, 0 for no budget
  MaxRestarts       \* bound on the restarts of the process

ASSUME ReaperConstants ==
  /\ IsFiniteSet(Issues)
  /\ WorkPath \in [Issues -> Paths]
  /\ Worlds \subseteq [finds : [1..MaxRuns -> SUBSET Issues], faults : Nat,
                       litter : BOOLEAN, excess : Nat]
  /\ {MaxRuns, Concurrency, Permits, MaxRetries, AiLimit, MaxRestarts} \subseteq Nat
  /\ Concurrency > 0 /\ Permits > 0

VARIABLES
  world,      \* the bounds this behaviour keeps to
  active,     \* run_active, the lock of a run
  started,    \* how many runs have claimed it: the last one's number
  phase,      \* where the run's task is
  queue,      \* fixable issues not scheduled yet
  cancel,     \* cancel_requested
  exhausted,  \* the ledger has refused a reservation
  used,       \* what the ledger holds reserved or spent
  spent,      \* what the calls of the run have really cost
  overrun,    \* what settled calls were charged beyond their reservations
  unbilled,   \* what calls cost that nobody charged
  job,        \* the worker of each issue
  tree,       \* the clone in each work directory
  branch,     \* what is pushed to the issue's branch of the fork
  prs,        \* pull requests
  late,       \* pull requests whose POST was under way when the process stopped
  run,        \* source and stored status of each run
  taken,      \* the issues each run scheduled
  attempt,    \* the stored attempt of each run at each issue
  faults,     \* how many resets, reads and writes of the process have failed
  restarts

ledger == <<exhausted, used, spent, overrun, unbilled>>
wave == <<world, active, started, phase, queue, cancel, taken>>
github == <<branch, prs, late>>
bounds == <<faults, restarts>>
vars == <<wave, ledger, job, tree, github, run, attempt, bounds>>

Runs == 1..MaxRuns
Drafts == 0..(2 + 2 * MaxRetries)
Patches == Issues \X Drafts

\* What the tests of an issue's patches wrote counts as a draft no model made.
Litter(i) == <<i, 0>>

\* What a worker remembers: its step, whether a model call is open, the
\* number of patches it was given and the one in hand, the last test result,
\* the retries made and the staged diff.  The other fields record what
\* happened to it: the patches Smith approved, the content that passed the
\* tests, the diff found safe, and whether a reset of its tree has failed.
NoJob == [at |-> "none", call |-> FALSE, drafts |-> 0, test |-> "none", retry |-> 0,
          diff |-> {}, approved |-> {}, passed |-> {}, judged |-> {}, unclean |-> FALSE]

\* A clone: whose it is, what differs from its commit, and whether a test that
\* timed out still writes to it.
NoTree == [owner |-> "none", content |-> {}, writer |-> FALSE]

Live == {i \in Issues : job[i].at \notin {"none", "joined"}}
Working == {i \in Issues : job[i].at \notin {"none", "queued", "ended", "joined"}}
Calling == {i \in Issues : job[i].call}

\* A git reset or an access to the process's own database fails; the code
\* goes on as if it had not.
Fault == faults < world.faults /\ faults' = faults + 1

Patch(i) == <<i, job[i].drafts>>
Tree(i) == tree[WorkPath[i]]
PutTree(i, content) == [tree EXCEPT ![WorkPath[i]].content = content]

-----------------------------------------------------------------------------
(* The ledger of model calls *)

Admits == AiLimit = 0 \/ used < AiLimit

\* Every call reserves one unit.
Beyond(charge) == IF charge > 1 THEN charge - 1 ELSE 0

\* The ledger holds the charge in the place of the reservation, also when it is
\* higher; the call may have cost more than it is charged.
Charge(charge, missed) ==
  /\ used' = used - 1 + charge
  /\ spent' = spent + charge + missed
  /\ overrun' = overrun + Beyond(charge)
  /\ unbilled' = unbilled + missed
  /\ overrun' + unbilled' <= world.excess
  /\ UNCHANGED exhausted

\* An answer is charged what it is estimated or reported to cost, which leaves
\* out an empty completion that came before it.
Settle == \E charge \in 0..(1 + world.excess), missed \in 0..world.excess : Charge(charge, missed)

\* A call without an answer keeps its reservation, whatever its requests cost.
KeepReservation == \E missed \in 0..world.excess : Charge(1, missed)

\* Steps before which the worker looks at the cancel flag.
CancelPoints == {"selecting", "drafting", "reviewing", "testing", "staging"}
Stopped(i) == cancel /\ job[i].at \in CancelPoints

AskingSteps == {"selecting", "drafting", "healing", "reviewing", "redrafting", "rereviewing"}

OpenCall(i) ==
  /\ job[i].at \in AskingSteps /\ ~job[i].call /\ ~Stopped(i)
  /\ Admits
  /\ used' = used + 1
  /\ job' = [job EXCEPT ![i].call = TRUE]
  /\ UNCHANGED <<wave, exhausted, spent, overrun, unbilled, tree, github, run, attempt, bounds>>

Refused == ~Admits /\ exhausted' = TRUE /\ UNCHANGED <<used, spent, overrun, unbilled>>

\* A fault: a failed call gives its reservation back, though it was paid.
CallFailsRefunded(i) ==
  \/ ~job[i].call /\ ~Stopped(i) /\ UNCHANGED ledger
  \/ ~job[i].call /\ ~Stopped(i) /\ Refused
  \/ /\ job[i].call /\ spent' = spent + 1 /\ used' = used - 1
     /\ UNCHANGED <<exhausted, overrun, unbilled>>
  \/ job[i].call /\ Settle

\* A call fails: the provider is cooling down, the ledger refuses it, its
\* transport fails or its completions are empty, or its answer does not decode.
CallFails(i) ==
  \/ ~job[i].call /\ ~Stopped(i) /\ UNCHANGED ledger
  \/ ~job[i].call /\ ~Stopped(i) /\ Refused
  \/ job[i].call /\ KeepReservation
  \/ job[i].call /\ Settle

CallAnswers(i) == job[i].call /\ Settle

-----------------------------------------------------------------------------
(* The run's task *)

\* A fault: a run that ends before its wave keeps the lock.
CloseOfWave == active' = (phase = "scoring") /\ phase' = "idle"

Close == active' = FALSE /\ phase' = "idle"

NewLedger == exhausted' = FALSE /\ used' = 0 /\ spent' = 0 /\ overrun' = 0 /\ unbilled' = 0

StartRun(webhook) ==
  /\ ~active /\ started < MaxRuns
  /\ active' = TRUE
  /\ started' = started + 1
  /\ phase' = "scoring"
  /\ cancel' = FALSE /\ NewLedger
  /\ job' = [i \in Issues |-> NoJob]
  /\ \/ run' = [run EXCEPT ![started + 1] =
                   [webhook |-> webhook, status |-> IF webhook THEN "absent" ELSE "running"]]
        /\ UNCHANGED faults
     \/ /\ ~webhook /\ Fault
        /\ UNCHANGED run
  /\ UNCHANGED <<world, queue, taken, tree, github, attempt, restarts>>

\* The update of a run that has no row changes nothing.
StoreRun(status) ==
  \/ /\ run' = [run EXCEPT ![started].status = IF @ = "absent" THEN @ ELSE status]
     /\ UNCHANGED faults
  \/ Fault /\ UNCHANGED run

\* The scout's call scores what discovery found: it may be refused nothing,
\* for it is the first one, but it may fail, and then nothing is eligible.
Score == \E charge \in 0..(1 + world.excess), missed \in 0..world.excess, found \in SUBSET Issues :
  /\ phase = "scoring"
  /\ found \subseteq world.finds[started]
  /\ used' = charge /\ spent' = charge + missed
  /\ overrun' = Beyond(charge) /\ unbilled' = missed /\ overrun' + unbilled' <= world.excess
  /\ IF run[started].webhook
     THEN \/ /\ Cardinality(found) = 1 /\ (AiLimit = 0 \/ charge < AiLimit)
             /\ phase' = "wave" /\ queue' = found
             /\ \/ run' = [run EXCEPT ![started].status = "running"] /\ UNCHANGED faults
                \/ Fault /\ UNCHANGED run
             /\ UNCHANGED active
          \/ found = {} /\ Close /\ UNCHANGED <<queue, run, faults>>
     ELSE \/ found # {} /\ phase' = "wave" /\ queue' = found /\ UNCHANGED <<active, run, faults>>
          \/ found = {} /\ Close /\ StoreRun("done") /\ UNCHANGED queue
  /\ UNCHANGED <<world, started, cancel, taken, exhausted, job, tree, github, attempt, restarts>>

MayTake ==
  /\ phase = "wave" /\ queue # {}
  /\ \/ run[started].webhook
     \/ Cardinality(Live) < Concurrency /\ ~cancel /\ ~exhausted

Schedule(i) ==
  /\ MayTake /\ i \in queue
  /\ queue' = queue \ {i}
  /\ taken' = [taken EXCEPT ![started] = @ \cup {i}]
  /\ job' = [job EXCEPT ![i].at = "queued"]
  /\ UNCHANGED <<world, active, started, phase, cancel, ledger, tree, github, run, attempt, bounds>>

\* A worker is joined when no other can be scheduled; the wave then looks at
\* what the run has used.  A webhook's worker is awaited without that look.
Join(i) ==
  /\ phase = "wave" /\ ~MayTake
  /\ job[i].at = "ended"
  /\ job' = [job EXCEPT ![i].at = "joined"]
  /\ cancel' = (cancel \/ (~run[started].webhook /\ (exhausted \/ (AiLimit > 0 /\ used >= AiLimit))))
  /\ UNCHANGED <<world, active, started, phase, queue, taken, ledger, tree, github, run, attempt, bounds>>

Fixed == {i \in Issues : attempt[started][i] = "fixed"}

\* A fault: the attempts stored as fixed are compared with the stored attempts.
WaveStatusOfRows(fixed) ==
  IF taken[started] = {} THEN "skipped"
  ELSE IF fixed = Cardinality({i \in Issues : attempt[started][i] # "absent"}) THEN "done"
  ELSE IF fixed > 0 THEN "partial" ELSE "failed"

\* The status of a hunt compares the attempts stored as fixed, none if they
\* cannot be read, with the number of issues scheduled.
WaveStatus(fixed) ==
  IF taken[started] = {} THEN "skipped"
  ELSE IF fixed = Cardinality(taken[started]) THEN "done"
  ELSE IF fixed > 0 THEN "partial" ELSE "failed"

FinishRun ==
  /\ phase = "wave" /\ ~MayTake /\ Live = {}
  /\ Close
  /\ queue' = {}
  /\ IF run[started].webhook
     THEN StoreRun("done")
     ELSE \/ StoreRun(WaveStatus(Cardinality(Fixed)))
          \/ Fault /\ run' = [run EXCEPT ![started].status = IF @ = "absent" THEN @ ELSE WaveStatus(0)]
  /\ UNCHANGED <<world, started, cancel, taken, ledger, job, tree, github, attempt, restarts>>

-----------------------------------------------------------------------------
(* A worker: admission and checks *)

StoreAttempt(i, status) ==
  \/ /\ attempt' = [attempt EXCEPT ![started][i] = IF @ = "absent" THEN @ ELSE status]
     /\ UNCHANGED faults
  \/ Fault /\ UNCHANGED attempt

Ends(i) == job' = [job EXCEPT ![i] = [NoJob EXCEPT !.at = "ended"]]

\* The finishers store the attempt and remove the work directory.
End(i, status) ==
  /\ StoreAttempt(i, status)
  /\ Ends(i)
  /\ tree' = [tree EXCEPT ![WorkPath[i]] = NoTree]

\* A cancelled hunt, or a role without an agent, ends the worker at once.
Begin(i) ==
  /\ job[i].at = "queued" /\ Cardinality(Working) < Permits
  /\ Ends(i) \/ (~cancel /\ job' = [job EXCEPT ![i].at = "checking"])
  /\ UNCHANGED <<wave, ledger, tree, github, run, attempt, bounds>>

\* A branch of the same name, looked for in the fork that the repository's
\* name gives.
HasBranch(i) == \E k \in Issues : WorkPath[k] = WorkPath[i] /\ branch[k] # {}

\* Policy, linked pull requests and duplicates are read in this order.  The
\* first two end the attempt also when they cannot be read, with a row that
\* is started and finished at once; only the first page of an issue's events
\* is looked at for a pull request.  A duplicate leaves no row and is missed
\* when GitHub cannot be read.
Check(i) ==
  /\ job[i].at = "checking"
  /\ \/ /\ \/ attempt' = [attempt EXCEPT ![started][i] = "skipped"] /\ UNCHANGED faults
           \/ \E status \in {"absent", "running"} :
                Fault /\ attempt' = [attempt EXCEPT ![started][i] = status]
        /\ Ends(i)
        /\ tree' = [tree EXCEPT ![WorkPath[i]] = NoTree]
     \/ HasBranch(i) /\ Ends(i) /\ UNCHANGED <<tree, attempt, faults>>
     \/ /\ \/ attempt' = [attempt EXCEPT ![started][i] = "running"] /\ UNCHANGED faults
           \/ Fault /\ UNCHANGED attempt
        /\ job' = [job EXCEPT ![i].at = "cloning"]
        /\ UNCHANGED tree
  /\ UNCHANGED <<wave, ledger, github, run, restarts>>

Clone(i) ==
  /\ job[i].at = "cloning"
  /\ \/ /\ tree' = [tree EXCEPT ![WorkPath[i]] = [owner |-> i, content |-> {}, writer |-> FALSE]]
        /\ job' = [job EXCEPT ![i].at = "selecting"]
        /\ UNCHANGED <<attempt, faults>>
     \/ End(i, "error")
  /\ UNCHANGED <<wave, ledger, github, run, restarts>>

Cancel(i) ==
  /\ Stopped(i) /\ ~job[i].call
  /\ End(i, "skipped")
  /\ UNCHANGED <<wave, ledger, github, run, restarts>>

-----------------------------------------------------------------------------
(* A worker: the patch and its review *)

\* The worker goes on as next says.
Goes(i, next) == job' = [job EXCEPT ![i] = next]
To(i, at) == [job[i] EXCEPT !.at = at, !.call = FALSE]
Drafted(i, at) == [To(i, at) EXCEPT !.drafts = @ + 1]

\* A fault: one retry too many.
RetriesOnce(known) == known.test = "failed" /\ known.retry <= MaxRetries

\* After a test, or a retry that changed nothing: another retry or the end.
Retries(known) == known.test = "failed" /\ known.retry < MaxRetries
Tested(known) == [known EXCEPT !.at = IF Retries(known) THEN "retrying" ELSE "staging", !.call = FALSE]

\* git reset --hard and git clean.  One that fails leaves the tree as it was,
\* or with parts of the patch that was being applied.
Resets(i, next) ==
  \/ Goes(i, next) /\ tree' = PutTree(i, {}) /\ UNCHANGED faults
  \/ /\ Fault /\ Tree(i) # NoTree
     /\ Goes(i, [next EXCEPT !.unclean = TRUE])
     /\ \E content \in {Tree(i).content, Tree(i).content \cup {Patch(i)}} : tree' = PutTree(i, content)

Applies(i) ==
  /\ Tree(i) # NoTree
  /\ tree' = PutTree(i, Tree(i).content \cup {Patch(i)})
  /\ UNCHANGED faults

\* The files to read are selected by a model, or without one if it fails.
Select(i) ==
  /\ job[i].at = "selecting"
  /\ CallFails(i) \/ CallAnswers(i)
  /\ Goes(i, To(i, "drafting"))
  /\ UNCHANGED <<wave, tree, github, run, attempt, bounds>>

\* The first patch, and the one asked for when it does not apply.
Draft(i) ==
  /\ job[i].at \in {"drafting", "healing"}
  /\ \/ CallFails(i) /\ End(i, "skipped")
     \/ CallAnswers(i) /\ End(i, "skipped")
     \/ CallAnswers(i) /\ Goes(i, Drafted(i, "applying")) /\ UNCHANGED <<tree, attempt, faults>>
  /\ UNCHANGED <<wave, github, run, restarts>>

\* A patch that does not apply resets the tree; one that does must have
\* changed a file.
Apply(i) ==
  /\ job[i].at = "applying"
  /\ \/ Applies(i) /\ Goes(i, To(i, "reviewing")) /\ UNCHANGED attempt
     \/ job[i].drafts = 1 /\ Resets(i, To(i, "healing")) /\ UNCHANGED attempt
     \/ \E status \in {"skipped", "error"} : End(i, status)
  /\ UNCHANGED <<wave, ledger, github, run, restarts>>

Approved(i, patches) == [To(i, "testing") EXCEPT !.approved = @ \cup patches]

Review(i) ==
  /\ job[i].at = "reviewing"
  /\ \/ CallFails(i) /\ End(i, "skipped")
     \/ CallAnswers(i) /\ End(i, "skipped")
     \/ /\ CallAnswers(i)
        /\ Goes(i, Approved(i, {Patch(i)}))
        /\ UNCHANGED <<tree, attempt, faults>>
  /\ UNCHANGED <<wave, github, run, restarts>>

-----------------------------------------------------------------------------
(* A worker: tests and retries *)

Results == {"passed", "failed", "unverified"}

Littered(i) == {Tree(i).content, Tree(i).content \cup {Litter(i)}}

\* A test command has the clone to write to.  One that times out is given up,
\* but what it started may go on; a test that is skipped runs nothing.
Leaves(i, result) ==
  \/ UNCHANGED tree
  \/ /\ world.litter /\ Tree(i) # NoTree /\ result # "unverified"
     /\ \E content \in Littered(i), writer \in BOOLEAN :
          /\ Tree(i).writer => writer
          /\ writer => Tree(i).writer \/ result = "failed"
          /\ tree' = [tree EXCEPT ![WorkPath[i]] =
                        [owner |-> Tree(i).owner, content |-> content, writer |-> writer]]

\* The cancel flag is not looked at before the tests of a retry.
Test(i) ==
  /\ job[i].at \in {"testing", "retesting"} /\ ~Stopped(i)
  /\ \E result \in Results :
       /\ Goes(i, Tested([job[i] EXCEPT
                    !.test = result, !.passed = IF result = "passed" THEN Tree(i).content ELSE {}]))
       /\ Leaves(i, result)
  /\ UNCHANGED <<wave, ledger, github, run, attempt, bounds>>

Retry(i) ==
  /\ job[i].at = "retrying"
  /\ Resets(i, [To(i, "redrafting") EXCEPT !.retry = @ + 1])
  /\ UNCHANGED <<wave, ledger, github, run, attempt, restarts>>

\* A retry that brings no patch is followed by the next one, if any is left.
Redraft(i) ==
  /\ job[i].at = "redrafting"
  /\ \/ (CallFails(i) \/ CallAnswers(i)) /\ Goes(i, Tested(job[i]))
     \/ CallAnswers(i) /\ Goes(i, Drafted(i, "reapplying"))
  /\ UNCHANGED <<wave, tree, github, run, attempt, bounds>>

Reapply(i) ==
  /\ job[i].at = "reapplying"
  /\ \/ Applies(i) /\ Goes(i, To(i, "rereviewing"))
     \/ Resets(i, Tested(job[i]))
  /\ UNCHANGED <<wave, ledger, github, run, attempt, restarts>>

Reapproved(i, patches) == [Approved(i, patches) EXCEPT !.at = "retesting"]

\* Smith's own patch takes the place of the one it reviewed.
Improves(i) ==
  LET new == <<i, job[i].drafts + 1>>
      next == [Reapproved(i, {Patch(i), new}) EXCEPT !.drafts = @ + 1]
  IN  /\ Tree(i) # NoTree
      /\ \/ Goes(i, next) /\ tree' = PutTree(i, {new}) /\ UNCHANGED faults
         \/ /\ Fault
            /\ Goes(i, [next EXCEPT !.unclean = TRUE])
            /\ tree' = PutTree(i, Tree(i).content \cup {new})

\* A fault: the tree of a patch that is not approved is not reset.
RereviewKeeps(i) ==
  /\ job[i].at = "rereviewing"
  /\ \/ (CallFails(i) \/ CallAnswers(i)) /\ Goes(i, To(i, "staging")) /\ UNCHANGED <<tree, faults>>
     \/ CallAnswers(i) /\ Improves(i)
     \/ CallAnswers(i) /\ Goes(i, Reapproved(i, {Patch(i)})) /\ UNCHANGED <<tree, faults>>
  /\ UNCHANGED <<wave, github, run, attempt, restarts>>

\* A patch that is not approved, or an improvement that does not apply,
\* resets the tree and ends the retries; the failed test result stays.
Rereview(i) ==
  /\ job[i].at = "rereviewing"
  /\ \/ (CallFails(i) \/ CallAnswers(i)) /\ Resets(i, To(i, "staging"))
     \/ CallAnswers(i) /\ Improves(i)
     \/ CallAnswers(i) /\ Goes(i, Reapproved(i, {Patch(i)})) /\ UNCHANGED <<tree, faults>>
  /\ UNCHANGED <<wave, github, run, attempt, restarts>>

-----------------------------------------------------------------------------
(* A worker: publication *)

\* Everything that differs is staged, what tests wrote too, and what a test
\* still writes until then.  The content is that of the index from here on.
Stage(i) ==
  /\ job[i].at = "staging" /\ ~Stopped(i)
  /\ \/ \E content \in IF Tree(i).writer THEN Littered(i) ELSE {Tree(i).content} :
           /\ content # {}
           /\ Goes(i, [To(i, "judging") EXCEPT !.diff = content])
           /\ tree' = PutTree(i, content)
           /\ UNCHANGED <<attempt, faults>>
     \/ \E status \in {"skipped", "error"} : End(i, status)
  /\ UNCHANGED <<wave, ledger, github, run, restarts>>

\* TrustGate must find the diff safe and HiveCore must not refuse the budget.
Judge(i) ==
  /\ job[i].at = "judging"
  /\ \/ /\ Goes(i, [To(i, "pushing") EXCEPT !.judged = job[i].diff])
        /\ UNCHANGED <<tree, attempt, faults>>
     \/ End(i, "skipped")
  /\ UNCHANGED <<wave, ledger, github, run, restarts>>

\* A fault: the push is forced.
PushForced(i) ==
  /\ job[i].at = "pushing"
  /\ Tree(i) # NoTree /\ Tree(i).content = job[i].diff
  /\ branch' = [branch EXCEPT ![Tree(i).owner] = Tree(i).content]
  /\ Goes(i, To(i, "posting"))
  /\ UNCHANGED <<wave, ledger, tree, prs, late, run, attempt, bounds>>

\* The staged diff is compared with the one that was judged before it is
\* committed.  The push goes to the fork the tree was cloned from and is
\* rejected if the branch exists there.
Push(i) ==
  /\ job[i].at = "pushing"
  /\ Tree(i) # NoTree /\ Tree(i).content = job[i].diff
  /\ branch[Tree(i).owner] = {}
  /\ branch' = [branch EXCEPT ![Tree(i).owner] = Tree(i).content]
  /\ Goes(i, To(i, "posting"))
  /\ UNCHANGED <<wave, ledger, tree, prs, late, run, attempt, bounds>>

\* A fault: only a patch that failed the tests is opened as a draft.
OpenedReady(i) ==
  [issue |-> i, run |-> started, content |-> branch[i], draft |-> job[i].test = "failed",
   approved |-> job[i].approved, passed |-> job[i].passed, judged |-> job[i].judged,
   unclean |-> job[i].unclean]

Opened(i) ==
  [issue |-> i, run |-> started, content |-> branch[i], draft |-> job[i].test # "passed",
   approved |-> job[i].approved, passed |-> job[i].passed, judged |-> job[i].judged,
   unclean |-> job[i].unclean]

\* GitHub opens the pull request, if the branch is in the fork of the issue's
\* own repository.
Post(i) ==
  /\ job[i].at = "posting" /\ branch[i] # {}
  /\ prs' = prs \cup {Opened(i)}
  /\ Goes(i, To(i, "posted"))
  /\ UNCHANGED <<wave, ledger, tree, branch, late, run, attempt, bounds>>

\* begin_publication, the commit, the push or the POST fails, or GitHub's
\* answer is lost.
PublishFails(i) ==
  /\ job[i].at \in {"pushing", "posting", "posted"}
  /\ End(i, "error")
  /\ UNCHANGED <<wave, ledger, github, run, restarts>>

Record(i) ==
  /\ job[i].at = "posted"
  /\ End(i, "fixed")
  /\ UNCHANGED <<wave, ledger, github, run, restarts>>

-----------------------------------------------------------------------------
(* The process stops and starts again *)

\* The lock, the workers and the ledger are gone.  So are the clones: what is
\* left of them is removed before their directory is used again.  Of the rows
\* still running, those old enough are marked as crashed.
Restart == \E sent \in SUBSET {i \in Issues : job[i].at = "posting" /\ branch[i] # {}},
              old \in SUBSET {r \in Runs : run[r].status = "running"} :
  /\ active /\ restarts < MaxRestarts
  /\ restarts' = restarts + 1
  /\ late' = late \cup {Opened(i) : i \in sent}
  /\ run' = [r \in Runs |-> IF r \in old THEN [run[r] EXCEPT !.status = "crashed"] ELSE run[r]]
  /\ Close
  /\ queue' = {} /\ cancel' = FALSE
  /\ NewLedger
  /\ job' = [i \in Issues |-> NoJob]
  /\ tree' = [p \in Paths |-> NoTree]
  /\ UNCHANGED <<world, started, taken, branch, prs, attempt, faults>>

Land(pr) ==
  /\ pr \in late
  /\ late' = late \ {pr}
  /\ prs' = prs \cup {pr}
  /\ UNCHANGED <<wave, ledger, job, tree, branch, run, attempt, bounds>>

-----------------------------------------------------------------------------
Init ==
  /\ world \in Worlds
  /\ active = FALSE /\ started = 0 /\ phase = "idle" /\ queue = {} /\ cancel = FALSE
  /\ exhausted = FALSE /\ used = 0 /\ spent = 0 /\ overrun = 0 /\ unbilled = 0
  /\ job = [i \in Issues |-> NoJob]
  /\ tree = [p \in Paths |-> NoTree]
  /\ branch = [i \in Issues |-> {}]
  /\ prs = {} /\ late = {}
  /\ run = [r \in Runs |-> [webhook |-> FALSE, status |-> "absent"]]
  /\ taken = [r \in Runs |-> {}]
  /\ attempt = [r \in Runs |-> [i \in Issues |-> "absent"]]
  /\ faults = 0 /\ restarts = 0

RunStep ==
  \/ Score
  \/ \E i \in Issues : Schedule(i) \/ Join(i)
  \/ FinishRun

Worker(i) ==
  \/ Begin(i) \/ Check(i) \/ Clone(i) \/ Cancel(i)
  \/ OpenCall(i) \/ Select(i) \/ Draft(i) \/ Apply(i) \/ Review(i)
  \/ Test(i) \/ Retry(i) \/ Redraft(i) \/ Reapply(i) \/ Rereview(i)
  \/ Stage(i) \/ Judge(i) \/ Push(i) \/ Post(i) \/ PublishFails(i) \/ Record(i)

Next ==
  \/ \E webhook \in BOOLEAN : StartRun(webhook)
  \/ RunStep
  \/ \E i \in Issues : Worker(i)
  \/ Restart
  \/ \E pr \in late : Land(pr)

Spec == Init /\ [][Next]_vars

\* Tasks go on: model calls, GitHub and git answer or time out, and somebody
\* reads the stream of a hunt's events.
FairSpec == Spec /\ WF_vars(RunStep) /\ \A i \in Issues : WF_vars(Worker(i))

-----------------------------------------------------------------------------
(* Properties *)

Steps == {"none", "queued", "checking", "cloning", "selecting", "drafting", "healing", "applying",
          "reviewing", "testing", "retrying", "redrafting", "reapplying", "rereviewing",
          "retesting", "staging", "judging", "pushing", "posting", "posted", "ended", "joined"}

Pulls == [issue : Issues, run : Runs, content : SUBSET Patches, draft : BOOLEAN,
          approved : SUBSET Patches, passed : SUBSET Patches, judged : SUBSET Patches,
          unclean : BOOLEAN]

\* Workers, clones, rows and pull requests hold values of the kinds the code
\* gives them.
TypeOK ==
  /\ world \in Worlds
  /\ active \in BOOLEAN /\ started \in 0..MaxRuns /\ phase \in {"idle", "scoring", "wave"}
  /\ queue \in SUBSET Issues /\ cancel \in BOOLEAN
  /\ exhausted \in BOOLEAN /\ {used, spent, overrun, unbilled} \subseteq Nat
  /\ job \in [Issues -> [at : Steps, call : BOOLEAN, drafts : 0..(2 + 2 * MaxRetries),
                         test : Results \cup {"none"}, retry : 0..MaxRetries,
                         diff : SUBSET Patches, approved : SUBSET Patches,
                         passed : SUBSET Patches, judged : SUBSET Patches, unclean : BOOLEAN]]
  /\ tree \in [Paths -> [owner : Issues \cup {"none"}, content : SUBSET Patches, writer : BOOLEAN]]
  /\ branch \in [Issues -> SUBSET Patches]
  /\ prs \in SUBSET Pulls /\ late \in SUBSET Pulls
  /\ run \in [Runs -> [webhook : BOOLEAN, status : {"absent", "running", "done", "partial",
                                                   "failed", "skipped", "crashed"}]]
  /\ taken \in [Runs -> SUBSET Issues]
  /\ attempt \in [Runs -> [Issues -> {"absent", "running", "fixed", "skipped", "error"}]]
  /\ faults \in 0..world.faults /\ restarts \in 0..MaxRestarts

\* No other issue has the work directory of this one.
Alone(i) == \A k \in Issues : WorkPath[k] = WorkPath[i] => k = i

\* What a pull request publishes is the diff TrustGate found safe.  But for what
\* the tests wrote, it is made only of patches of its own issue that Smith
\* approved or wrote, unless a reset of its tree failed: retries, improvements
\* and rejected patches leave nothing.  An issue that shares its work directory
\* with another is excused: then one's patch is staged with the other's.
PublishedWorkIsReviewed == \A p \in prs : Alone(p.issue) =>
  /\ p.content = p.judged
  /\ p.unclean \/ p.content \ {Litter(p.issue)} \subseteq p.approved

\* But for what the tests themselves wrote, a pull request that is ready for
\* review holds exactly what passed them, whatever retries and resets came
\* before.  An issue that shares its work directory is excused.
ReadyPrsPassedTests == \A p \in prs : Alone(p.issue) /\ ~p.draft =>
  p.content \ {Litter(p.issue)} = p.passed \ {Litter(p.issue)}

\* What the calls of a run have cost, with every open call at its reservation,
\* is held by the ledger, but for what nobody charged; the ledger goes beyond
\* the budget only by what settled calls were charged beyond their
\* reservations.  Workers call at the same time and calls fail after they were
\* paid.
AiSpendIsCovered ==
  /\ spent + Cardinality(Calling) <= used + unbilled
  /\ AiLimit > 0 => used <= AiLimit + overrun

\* RepoReaper opens one pull request for an issue, whatever runs, failed
\* reads, lost answers and restarts there are.
OnePrPerIssue == \A p, q \in prs : p.issue = q.issue => p = q

\* An attempt stored as fixed has a pull request of that run; a hunt stored
\* as done published every issue it scheduled, a partial one at least one.
Published(r, i) == \E p \in prs : p.run = r /\ p.issue = i
RunReportsAreTrue == \A r \in Runs :
  /\ \A i \in Issues : attempt[r][i] = "fixed" => Published(r, i)
  /\ ~run[r].webhook =>
       /\ run[r].status = "done" => \A i \in taken[r] : Published(r, i)
       /\ run[r].status = "partial" => \E i \in taken[r] : Published(r, i)

\* A run ends and gives the lock back: no worker waits for a permit, a model
\* or a cancelled hunt for ever.
RunsEnd == active ~> ~active
=============================================================================
