--------------------------- MODULE SuiteOperations ---------------------------
(***************************************************************************)
(* What the suite-wide pause stops and waits for: suite runs, fleet        *)
(* launches and, seen from outside, the claims of the work engine.         *)
(*                                                                         *)
(* A suite run is recorded as running, executed step by step inside the    *)
(* request that started it, and recorded again when it ends.  A step whose *)
(* action requires an approval halts the run; dispatch_approved sends that *)
(* step later and rewrites the stored run; several of its calls may be     *)
(* under way for one approval.  A fleet launch is a row with a lease and a *)
(* background worker.  A restart loses runs, calls, handlers and workers;  *)
(* only fleet launches are recovered when HiveCore starts.                 *)
(***************************************************************************)
EXTENDS Integers, FiniteSets

CONSTANTS
  Runs,         \* suite runs
  Length,       \* the steps of a run, one per dispatch it expands to
  Calls,        \* calls of dispatch_approved, the same for every run
  Jobs,         \* numbers of the fleet launches, in the order they are requested
  MaxWork,      \* bound on the runs, calls and launches a behaviour has
  MaxRestarts   \* bound on the restarts of HiveCore

ASSUME OperationsConstants ==
  /\ Length \in Nat \ {0}
  /\ "run" \notin Calls
  /\ Jobs \subseteq Nat
  /\ MaxWork \in Nat
  /\ MaxRestarts \in Nat

VARIABLES
  pause,      \* the suite's pause record: running, draining or drained
  counted,    \* the in-flight count a pause handler has read
  claiming,   \* whether a work item is dispatching
  row,        \* the stored status of each run
  stored,     \* its stored steps
  phase,      \* where the request that executes it is
  position,   \* the step it is at
  local,      \* its steps as that request knows them
  tolerant,   \* runs started with continue_on_failure
  halted,     \* runs that stop before their next step
  asked,      \* the step its approval is for, 0 if it asked for none
  approval,   \* that approval
  call,       \* where each call of dispatch_approved is with it
  result,     \* what that call has to record
  shared,     \* runs of which two calls stood between check and claim at once
  watched,    \* <<run, caller>> pairs whose dispatch began under the pause
  requested,  \* <<run, step, caller>> of every request sent
  accepted,   \* <<run, step>> of the requests a product accepted
  job,        \* the state_kind of each fleet launch
  stale,      \* running launches with lease_expires_at in the past
  worker,     \* where the worker of each launch is
  restarts

pauseVars == <<pause, counted, claiming>>
memoryVars == <<position, local, tolerant, halted>>
runVars == <<row, stored, phase, memoryVars>>
callVars == <<asked, approval, call, result, shared>>
traceVars == <<watched, requested, accepted>>
fleetVars == <<job, stale, worker>>
vars == <<pauseVars, runVars, callVars, traceVars, fleetVars, restarts>>

Positions == 1..Length
StepStates == {"none", "dispatched", "failed", "skipped", "pending"}
Empty == [k \in Positions |-> "none"]
Callers == {"run"} \cup Calls

\* Rows, requests and workers hold values of the kinds the code gives them.
TypeOK ==
  /\ pause \in {"running", "draining", "drained"}
  /\ counted \in {"none", "zero", "some"}
  /\ claiming \in BOOLEAN
  /\ row \in [Runs -> {"absent", "running", "awaiting_approval", "completed", "halted", "failed"}]
  /\ stored \in [Runs -> [Positions -> StepStates]]
  /\ phase \in [Runs -> {"idle", "starting", "choosing", "checking", "sending", "sent",
                         "ended", "lost"}]
  /\ position \in [Runs -> 1..Length + 1]
  /\ local \in [Runs -> [Positions -> StepStates]]
  /\ tolerant \in SUBSET Runs
  /\ halted \in SUBSET Runs
  /\ asked \in [Runs -> 0..Length]
  /\ approval \in [Runs -> {"none", "pending", "granted", "consuming", "consumed", "closed"}]
  /\ call \in [Runs \X Calls -> {"idle", "checking", "sending", "checked", "authorized", "sent",
                                 "answered", "recording"}]
  /\ result \in [Runs \X Calls -> {"none", "dispatched", "failed"}]
  /\ shared \in SUBSET Runs
  /\ watched \in SUBSET (Runs \X Callers)
  /\ requested \in SUBSET (Runs \X Positions \X Callers)
  /\ accepted \in SUBSET (Runs \X Positions)
  /\ job \in [Jobs -> {"absent", "queued", "running", "settled", "unknown"}]
  /\ stale \in SUBSET Jobs
  /\ worker \in [Jobs -> {"idle", "queued", "working", "ended", "lost"}]
  /\ restarts \in 0..MaxRestarts

Init ==
  /\ pause = "running" /\ counted = "none" /\ claiming = FALSE
  /\ row = [r \in Runs |-> "absent"]
  /\ stored = [r \in Runs |-> Empty]
  /\ phase = [r \in Runs |-> "idle"]
  /\ position = [r \in Runs |-> 1]
  /\ local = [r \in Runs |-> Empty]
  /\ tolerant = {}
  /\ halted = {}
  /\ asked = [r \in Runs |-> 0]
  /\ approval = [r \in Runs |-> "none"]
  /\ call = [rc \in Runs \X Calls |-> "idle"]
  /\ result = [rc \in Runs \X Calls |-> "none"]
  /\ shared = {}
  /\ watched = {} /\ requested = {} /\ accepted = {}
  /\ job = [j \in Jobs |-> "absent"]
  /\ stale = {}
  /\ worker = [j \in Jobs |-> "idle"]
  /\ restarts = 0

\* The bound: another run, call or launch may begin.
MoreWork ==
  Cardinality({r \in Runs : phase[r] # "idle"})
    + Cardinality({rc \in Runs \X Calls :
                    call[rc] # "idle" \/ \E k \in Positions : <<rc[1], k, rc[2]>> \in requested})
    + Cardinality({j \in Jobs : job[j] # "absent"}) < MaxWork

-----------------------------------------------------------------------------
(* A suite run *)

Having(steps, s) == {k \in Positions : steps[k] = s}

\* A fault: skipped steps do not keep a run from being complete.
SummaryOfDispatches(steps, stopped) ==
  IF Having(steps, "pending") # {} THEN "awaiting_approval"
  ELSE IF Having(steps, "failed") = {} /\ Having(steps, "dispatched") # {} THEN "completed"
  ELSE IF Having(steps, "failed") = {} \/ stopped THEN "halted"
  ELSE "failed"

\* summarize: the status a run's steps add up to.
Summary(steps, stopped) ==
  IF Having(steps, "pending") # {} THEN "awaiting_approval"
  ELSE IF /\ Having(steps, "failed") = {} /\ Having(steps, "skipped") = {}
          /\ Having(steps, "dispatched") # {} THEN "completed"
  ELSE IF Having(steps, "failed") = {} \/ stopped THEN "halted"
  ELSE "failed"

\* The run's current step ended as s; stop says that no later step may run.
StepEnds(r, s, stop) ==
  /\ local' = [local EXCEPT ![r][position[r]] = s]
  /\ halted' = IF stop THEN halted \cup {r} ELSE halted
  /\ position' = [position EXCEPT ![r] = @ + 1]
  /\ phase' = [phase EXCEPT ![r] = "choosing"]
  /\ watched' = watched \ {<<r, "run">>}
  /\ UNCHANGED tolerant

\* A dispatch begins; a pause in force now is one it must honour.
Begins(r, caller) ==
  watched' = IF pause = "running" THEN watched ELSE watched \cup {<<r, caller>>}

\* What the requests of these runs had in memory is gone.
Forget(gone) ==
  /\ position' = [r \in Runs |-> IF r \in gone THEN 1 ELSE position[r]]
  /\ local' = [r \in Runs |-> IF r \in gone THEN Empty ELSE local[r]]
  /\ halted' = halted \ gone
  /\ tolerant' = tolerant \ gone

\* start_suite_run reads the pauses, then records the run before executing it.
StartRun(r) ==
  /\ phase[r] = "idle" /\ pause = "running" /\ MoreWork
  /\ phase' = [phase EXCEPT ![r] = "starting"]
  /\ tolerant' \in {tolerant, tolerant \cup {r}}
  /\ UNCHANGED <<pauseVars, row, stored, position, local, halted, callVars, traceVars,
                 fleetVars, restarts>>

RecordRun(r) ==
  /\ phase[r] = "starting"
  /\ phase' = [phase EXCEPT ![r] = "choosing"]
  /\ row' = [row EXCEPT ![r] = "running"]
  /\ UNCHANGED <<pauseVars, stored, memoryVars, callVars, traceVars, fleetVars,
                 restarts>>

\* A fault: the loop goes one step past the last.
PassOverStepBeyond(r) ==
  /\ phase[r] = "choosing" /\ r \notin halted
  /\ \/ StepEnds(r, "skipped", FALSE)
     \/ StepEnds(r, "failed", r \notin tolerant)
  /\ UNCHANGED <<pauseVars, row, stored, callVars, requested, accepted, fleetVars, restarts>>

\* A step that makes no dispatch: its gate is false or the run is at its ceiling;
\* or its gate or its targets cannot be evaluated.
PassOverStep(r) ==
  /\ phase[r] = "choosing" /\ r \notin halted /\ position[r] <= Length
  /\ \/ StepEnds(r, "skipped", FALSE)
     \/ StepEnds(r, "failed", r \notin tolerant)
  /\ UNCHANGED <<pauseVars, row, stored, callVars, requested, accepted, fleetVars, restarts>>

\* A fault: a halted run still tries its later steps.
BeginStepRegardless(r) ==
  /\ phase[r] = "choosing" /\ position[r] <= Length
  /\ phase' = [phase EXCEPT ![r] = "checking"]
  /\ Begins(r, "run")
  /\ UNCHANGED <<pauseVars, row, stored, memoryVars, callVars, requested,
                 accepted, fleetVars, restarts>>

BeginStep(r) ==
  /\ phase[r] = "choosing" /\ r \notin halted /\ position[r] <= Length
  /\ phase' = [phase EXCEPT ![r] = "checking"]
  /\ Begins(r, "run")
  /\ UNCHANGED <<pauseVars, row, stored, memoryVars, callVars, requested,
                 accepted, fleetVars, restarts>>

\* HiveCore refuses the step before it reaches the product.
StepRefused(r) ==
  /\ phase[r] \in {"checking", "sending"}
  /\ StepEnds(r, "failed", r \notin tolerant)
  /\ UNCHANGED <<pauseVars, row, stored, callVars, requested, accepted, fleetVars, restarts>>

\* A fault: a step of a run that has started is no new work.
PassUnchecked(r) ==
  /\ phase[r] = "checking"
  /\ phase' = [phase EXCEPT ![r] = "sending"]
  /\ UNCHANGED <<pauseVars, row, stored, memoryVars, callVars, traceVars,
                 fleetVars, restarts>>

\* ensure_dispatch_not_paused.
PassPauseCheck(r) ==
  /\ phase[r] = "checking" /\ pause = "running"
  /\ phase' = [phase EXCEPT ![r] = "sending"]
  /\ UNCHANGED <<pauseVars, row, stored, memoryVars, callVars, traceVars,
                 fleetVars, restarts>>

\* The action requires an approval: the step waits for it and the run halts.
StepAsksApproval(r) ==
  /\ phase[r] = "sending"
  /\ asked' = [asked EXCEPT ![r] = position[r]]
  /\ approval' = [approval EXCEPT ![r] = "pending"]
  /\ StepEnds(r, "pending", TRUE)
  /\ UNCHANGED <<pauseVars, row, stored, call, result, shared, requested, accepted, fleetVars,
                 restarts>>

SendStep(r) ==
  /\ phase[r] = "sending"
  /\ phase' = [phase EXCEPT ![r] = "sent"]
  /\ requested' = requested \cup {<<r, position[r], "run">>}
  /\ UNCHANGED <<pauseVars, row, stored, memoryVars, callVars, watched, accepted,
                 fleetVars, restarts>>

\* The product accepts the request or rejects it, or no answer comes in time; an
\* outcome that cannot be stored counts as a failure and always halts the run.
StepAnswered(r) ==
  /\ phase[r] = "sent"
  /\ \/ /\ accepted' = accepted \cup {<<r, position[r]>>}
        /\ StepEnds(r, "dispatched", FALSE) \/ StepEnds(r, "failed", TRUE)
     \/ /\ UNCHANGED accepted
        /\ StepEnds(r, "failed", r \notin tolerant) \/ StepEnds(r, "failed", TRUE)
  /\ UNCHANGED <<pauseVars, row, stored, callVars, requested, fleetVars, restarts>>

\* What is left of a run that ends is skipped; a save that fails is only logged.
FinishRun(r) ==
  /\ phase[r] = "choosing" /\ (r \in halted \/ position[r] > Length)
  /\ phase' = [phase EXCEPT ![r] = "ended"]
  /\ LET steps == [k \in Positions |-> IF k < position[r] THEN local[r][k] ELSE "skipped"]
     IN  \/ /\ row' = [row EXCEPT ![r] = Summary(steps, r \in halted)]
            /\ stored' = [stored EXCEPT ![r] = steps]
         \/ UNCHANGED <<row, stored>>
  /\ Forget({r})
  /\ UNCHANGED <<pauseVars, callVars, traceVars, fleetVars, restarts>>

-----------------------------------------------------------------------------
(* The approved step of a halted run *)

GrantApproval(r) ==
  /\ approval[r] = "pending"
  /\ approval' = [approval EXCEPT ![r] = "granted"]
  /\ UNCHANGED <<pauseVars, runVars, asked, call, result, shared, traceVars, fleetVars, restarts>>

\* Denied, revoked or expired: the run that waits for it is not told.
CloseApproval(r) ==
  /\ approval[r] \in {"pending", "granted"}
  /\ approval' = [approval EXCEPT ![r] = "closed"]
  /\ UNCHANGED <<pauseVars, runVars, asked, call, result, shared, traceVars, fleetVars, restarts>>

\* A call reads the approval and begins its dispatch.  A call that was refused, or
\* that a restart cut off before it sent, is made again under its own name.
CallApproved(r, c) ==
  /\ call[<<r, c>>] = "idle" /\ approval[r] # "none" /\ MoreWork
  /\ <<r, asked[r], c>> \notin requested
  /\ call' = [call EXCEPT ![<<r, c>>] = "checking"]
  /\ Begins(r, c)
  /\ UNCHANGED <<pauseVars, runVars, asked, approval, result, shared, requested, accepted,
                 fleetVars, restarts>>

CallRefused(r, c) ==
  /\ call[<<r, c>>] \in {"checking", "sending", "checked"}
  /\ call' = [call EXCEPT ![<<r, c>>] = "idle"]
  /\ watched' = watched \ {<<r, c>>}
  /\ UNCHANGED <<pauseVars, runVars, asked, approval, result, shared, requested, accepted,
                 fleetVars, restarts>>

CallPassesCheck(r, c) ==
  /\ call[<<r, c>>] = "checking" /\ pause = "running"
  /\ call' = [call EXCEPT ![<<r, c>>] = "sending"]
  /\ UNCHANGED <<pauseVars, runVars, asked, approval, result, shared, traceVars, fleetVars,
                 restarts>>

\* The call finds its approval granted; another one may stand here with it.
CheckApproval(r, c) ==
  /\ call[<<r, c>>] = "sending" /\ approval[r] = "granted"
  /\ call' = [call EXCEPT ![<<r, c>>] = "checked"]
  /\ shared' = IF \E d \in Calls : call[<<r, d>>] = "checked" THEN shared \cup {r} ELSE shared
  /\ UNCHANGED <<pauseVars, runVars, asked, approval, result, traceVars, fleetVars, restarts>>

\* A fault: a call's claim is all the check there is.
ClaimUnchecked(r, c) ==
  /\ call[<<r, c>>] \in {"sending", "checked"} /\ approval[r] \in {"granted", "consuming"}
  /\ approval' = [approval EXCEPT ![r] = "consuming"]
  /\ call' = [call EXCEPT ![<<r, c>>] = "authorized"]
  /\ UNCHANGED <<pauseVars, runVars, asked, result, shared, traceVars, fleetVars, restarts>>

\* claim_approval: a granted approval starts being consumed; a row that another
\* call is consuming is handed back too, and taken for one's own.
ClaimApproval(r, c) ==
  /\ call[<<r, c>>] = "checked" /\ approval[r] \in {"granted", "consuming"}
  /\ approval' = [approval EXCEPT ![r] = "consuming"]
  /\ call' = [call EXCEPT ![<<r, c>>] = "authorized"]
  /\ UNCHANGED <<pauseVars, runVars, asked, result, shared, traceVars, fleetVars, restarts>>

SendApproved(r, c) ==
  /\ call[<<r, c>>] = "authorized"
  /\ call' = [call EXCEPT ![<<r, c>>] = "sent"]
  /\ requested' = requested \cup {<<r, asked[r], c>>}
  /\ watched' = watched \ {<<r, c>>}
  /\ UNCHANGED <<pauseVars, runVars, asked, approval, result, shared, accepted, fleetVars,
                 restarts>>

\* Accepted; or rejected or unanswered; or, its consumption not stored, uncertain.
CallAnswered(r, c) ==
  /\ call[<<r, c>>] = "sent"
  /\ call' = [call EXCEPT ![<<r, c>>] = "answered"]
  /\ \/ /\ result' = [result EXCEPT ![<<r, c>>] = "dispatched"]
        /\ accepted' = accepted \cup {<<r, asked[r]>>}
        /\ approval' = [approval EXCEPT ![r] = "consumed"]
     \/ /\ result' = [result EXCEPT ![<<r, c>>] = "failed"]
        /\ accepted' \in {accepted, accepted \cup {<<r, asked[r]>>}}
        /\ approval' \in {approval, [approval EXCEPT ![r] = "consumed"]}
  /\ UNCHANGED <<pauseVars, runVars, asked, shared, watched, requested, fleetVars, restarts>>

\* record_approved_dispatch reads the stored run; a run whose end is not stored
\* does not contain the approval, and the call ends in an error.
ReadRun(r, c) ==
  /\ call[<<r, c>>] = "answered"
  /\ IF stored[r] # Empty
     THEN call' = [call EXCEPT ![<<r, c>>] = "recording"] /\ UNCHANGED result
     ELSE /\ call' = [call EXCEPT ![<<r, c>>] = "idle"]
          /\ result' = [result EXCEPT ![<<r, c>>] = "none"]
  /\ UNCHANGED <<pauseVars, runVars, asked, approval, shared, traceVars, fleetVars, restarts>>

\* The call rewrites the step and the status, or fails to.  The step is found by
\* its approval, whatever another call has recorded of it.
RewriteRun(r, c) ==
  /\ call[<<r, c>>] = "recording"
  /\ call' = [call EXCEPT ![<<r, c>>] = "idle"]
  /\ result' = [result EXCEPT ![<<r, c>>] = "none"]
  /\ LET steps == [stored[r] EXCEPT ![asked[r]] = result[<<r, c>>]]
     IN  \/ /\ stored' = [stored EXCEPT ![r] = steps]
            /\ row' = [row EXCEPT ![r] = Summary(steps, TRUE)]
         \/ UNCHANGED <<stored, row>>
  /\ UNCHANGED <<pauseVars, phase, memoryVars, asked, approval, shared, traceVars, fleetVars,
                 restarts>>

-----------------------------------------------------------------------------
(* Fleet launches *)

Active == {j \in Jobs : job[j] \in {"queued", "running"}}

\* queue_fleet_launch and insert_fleet_launch_job: launches whose lease passed are
\* marked unknown; while another is active nothing is written.  A launch with
\* nothing to start is recorded as settled and gets no worker.
QueueLaunch(j) ==
  /\ job[j] = "absent" /\ MoreWork /\ \A i \in Jobs : i < j => job[i] # "absent"
  /\ Active \subseteq stale
  /\ \E kind \in {"queued", "settled"} :
       /\ job' = [i \in Jobs |-> IF i = j THEN kind
                                 ELSE IF i \in Active THEN "unknown" ELSE job[i]]
       /\ worker' = [worker EXCEPT ![j] = IF kind = "queued" THEN "queued" ELSE "ended"]
  /\ stale' = {}
  /\ UNCHANGED <<pauseVars, runVars, callVars, traceVars, restarts>>

\* The worker starts at once, long before the lease of a queued launch passes.
WorkerBegins(j) ==
  /\ worker[j] = "queued"
  /\ \/ /\ worker' = [worker EXCEPT ![j] = "working"]
        /\ job' = [job EXCEPT ![j] = "running"]
     \/ /\ worker' = [worker EXCEPT ![j] = "ended"]
        /\ UNCHANGED job
  /\ UNCHANGED <<pauseVars, runVars, callVars, traceVars, stale, restarts>>

\* A fault: progress marks the launch running again.
ProgressRevives(j) ==
  /\ worker[j] = "working"
  /\ job' = [job EXCEPT ![j] = "running"]
  /\ stale' = stale \ {j}
  /\ UNCHANGED <<pauseVars, runVars, callVars, traceVars, worker, restarts>>

\* persist_fleet_launch_update: progress renews the lease of a running launch.
WorkerProgress(j) ==
  /\ worker[j] = "working"
  /\ stale' = IF job[j] = "running" THEN stale \ {j} ELSE stale
  /\ UNCHANGED <<pauseVars, runVars, callVars, traceVars, job, worker, restarts>>

\* The worker stores what came of the launch, or stops where it cannot store.
WorkerEnds(j) ==
  /\ worker[j] = "working"
  /\ worker' = [worker EXCEPT ![j] = "ended"]
  /\ \/ job' = [job EXCEPT ![j] = "settled"] /\ stale' = stale \ {j}
     \/ UNCHANGED <<job, stale>>
  /\ UNCHANGED <<pauseVars, runVars, callVars, traceVars, restarts>>

LaunchLeaseLapses(j) ==
  /\ job[j] = "running"
  /\ stale' = stale \cup {j}
  /\ UNCHANGED <<pauseVars, runVars, callVars, traceVars, job, worker, restarts>>

-----------------------------------------------------------------------------
(* The suite's pause *)

\* in_flight_for_pause_target for the suite.
InFlight ==
  \/ claiming
  \/ \E r \in Runs : row[r] = "running"
  \/ Active # {}

\* A claim of the work engine begins and ends: see WorkEngine, and ClaimsEnd there.
ClaimBegins ==
  /\ ~ claiming
  /\ claiming' = TRUE
  /\ UNCHANGED <<pause, counted, runVars, callVars, traceVars, fleetVars, restarts>>

ClaimEnds ==
  /\ claiming
  /\ claiming' = FALSE
  /\ UNCHANGED <<pause, counted, runVars, callVars, traceVars, fleetVars, restarts>>

\* The pause handler counts first and writes its record in a later transaction.
CountInFlight ==
  /\ counted = "none"
  /\ counted' = IF InFlight THEN "some" ELSE "zero"
  /\ UNCHANGED <<pause, claiming, runVars, callVars, traceVars, fleetVars, restarts>>

PauseSuite ==
  /\ counted # "none"
  /\ pause' = IF counted = "zero" THEN "drained" ELSE "draining"
  /\ counted' = "none"
  /\ UNCHANGED <<claiming, runVars, callVars, traceVars, fleetVars, restarts>>

ResumeSuite ==
  /\ pause # "running"
  /\ pause' = "running"
  /\ watched' = {}
  /\ UNCHANGED <<counted, claiming, runVars, callVars, requested, accepted, fleetVars, restarts>>

\* A fault: a launch that was given up still counts as in flight.
ReconcileCountingUnknown ==
  /\ pause = "draining" /\ ~ InFlight
  /\ \A j \in Jobs : job[j] # "unknown"
  /\ pause' = "drained"
  /\ UNCHANGED <<counted, claiming, runVars, callVars, traceVars, fleetVars, restarts>>

\* reconcile_pause_drains.
ReconcilePauseDrains ==
  /\ pause = "draining" /\ ~ InFlight
  /\ pause' = "drained"
  /\ UNCHANGED <<counted, claiming, runVars, callVars, traceVars, fleetVars, restarts>>

\* HiveCore stops and starts again.  init_db gives up the fleet launches that were
\* under way; nothing of the kind is done for suite runs.
HiveCoreRestarts ==
  /\ restarts < MaxRestarts
  /\ restarts' = restarts + 1
  /\ phase' = [r \in Runs |-> IF phase[r] \in {"idle", "ended"} THEN phase[r] ELSE "lost"]
  /\ Forget(Runs)
  /\ call' = [rc \in Runs \X Calls |-> "idle"]
  /\ result' = [rc \in Runs \X Calls |-> "none"]
  /\ counted' = "none"
  /\ watched' = {}
  /\ job' = [j \in Jobs |-> IF j \in Active THEN "unknown" ELSE job[j]]
  /\ stale' = {}
  /\ worker' = [j \in Jobs |-> IF worker[j] \in {"queued", "working"} THEN "lost" ELSE worker[j]]
  /\ UNCHANGED <<pause, claiming, row, stored, asked, approval, shared, requested, accepted>>

-----------------------------------------------------------------------------
RunStep(r) ==
  \/ RecordRun(r) \/ PassOverStep(r) \/ BeginStep(r) \/ StepRefused(r) \/ PassPauseCheck(r)
  \/ StepAsksApproval(r) \/ SendStep(r) \/ StepAnswered(r) \/ FinishRun(r)

CallStep(r, c) ==
  \/ CallRefused(r, c) \/ CallPassesCheck(r, c) \/ CheckApproval(r, c) \/ ClaimApproval(r, c)
  \/ SendApproved(r, c) \/ CallAnswered(r, c) \/ ReadRun(r, c) \/ RewriteRun(r, c)

Operator ==
  \/ \E r \in Runs : StartRun(r) \/ GrantApproval(r) \/ CloseApproval(r)
  \/ \E r \in Runs, c \in Calls : CallApproved(r, c)
  \/ \E j \in Jobs : QueueLaunch(j)
  \/ CountInFlight \/ PauseSuite \/ ResumeSuite

Worker(j) == WorkerBegins(j) \/ WorkerEnds(j)

Next ==
  \/ Operator
  \/ \E r \in Runs : RunStep(r)
  \/ \E r \in Runs, c \in Calls : CallStep(r, c)
  \/ \E j \in Jobs : Worker(j) \/ WorkerProgress(j) \/ LaunchLeaseLapses(j)
  \/ ClaimBegins \/ ClaimEnds \/ ReconcilePauseDrains \/ HiveCoreRestarts

Spec == Init /\ [][Next]_vars

(***************************************************************************)
(* A run that executes goes on, for every exchange it waits for has a      *)
(* timeout; so does a worker.  Claims end (WorkEngine).  The background    *)
(* loop reconciles drains when its own cycle has settled its claims, and   *)
(* every reader of the governance status does too, so one of them meets a  *)
(* moment without claims again and again: strong fairness.                 *)
(***************************************************************************)
Fairness ==
  /\ \A r \in Runs : WF_vars(RunStep(r))
  /\ \A j \in Jobs : WF_vars(Worker(j))
  /\ WF_vars(ClaimEnds)
  /\ SF_vars(ReconcilePauseDrains)

FairSpec == Spec /\ Fairness

-----------------------------------------------------------------------------
(* Properties *)

(***************************************************************************)
(* What a stored run claims to have dispatched a product accepted, and one *)
(* reported completed did all of its steps: also after an approved step    *)
(* was recorded in it by another request.                                  *)
(***************************************************************************)
RunRecordsAreTrue ==
  \A r \in Runs :
    /\ \A k \in Positions : stored[r][k] = "dispatched" => <<r, k>> \in accepted
    /\ row[r] = "completed" => \A k \in Positions : <<r, k>> \in accepted

(***************************************************************************)
(* A step reaches its product once: through its run or through the         *)
(* approval it asked for, never both, and no other step than the approved  *)
(* one is sent with it.  Only calls that stood between the check and the   *)
(* claim of the approval together may each send it.                        *)
(***************************************************************************)
StepsAreSentOnce ==
  \A r \in Runs : \A k \in Positions : \A c \in Calls : <<r, k, c>> \in requested =>
    /\ k = asked[r] /\ approval[r] \in {"consuming", "consumed"}
    /\ <<r, k, "run">> \notin requested
    /\ \A d \in Calls : <<r, k, d>> \in requested => c = d \/ r \in shared

(***************************************************************************)
(* Two fleet launches are never active at the same time, even when the     *)
(* worker of one that was given up goes on and reports late.               *)
(***************************************************************************)
OneActiveLaunch == \A i, j \in Active : i = j

(***************************************************************************)
(* A run sends a step only if nothing before it failed (unless the run     *)
(* tolerates failures) and nothing before it waits for an operator.        *)
(***************************************************************************)
HaltedRunsSendNothing ==
  [][\A r \in Runs : \A k \in Positions :
       <<r, k, "run">> \in requested' \ requested =>
         \A m \in 1..k - 1 : \/ local[r][m] \in {"dispatched", "skipped"}
                             \/ local[r][m] = "failed" /\ r \in tolerant]_vars

(***************************************************************************)
(* A dispatch that began under the suite's pause, of a run or of an        *)
(* approved step, sends nothing until the suite is resumed.                *)
(***************************************************************************)
PausedSuiteSendsNothing ==
  [][\A r \in Runs : \A k \in Positions : \A c \in Callers :
       <<r, k, c>> \in requested' \ requested => <<r, c>> \notin watched]_vars

\* Records of work that nobody does any more: a run that was interrupted or whose
\* end could not be stored, a launch whose worker could not store its progress.
Abandoned ==
  \/ \E r \in Runs : row[r] = "running" /\ phase[r] \in {"ended", "lost"}
  \/ \E j \in Active : worker[j] = "ended"

(***************************************************************************)
(* The suite's pause drains: what was in flight when it was recorded comes *)
(* to an end and the record says so, unless it is resumed or a record of   *)
(* abandoned work is left behind.                                          *)
(***************************************************************************)
DrainsEnd == pause = "draining" ~> pause # "draining" \/ Abandoned
=============================================================================
