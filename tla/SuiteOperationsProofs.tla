----------------------- MODULE SuiteOperationsProofs -----------------------
(***************************************************************************)
(* Theorems about suite runs, their approved steps, fleet launches and the *)
(* suite's pause, for any number of runs, steps, launches and restarts.    *)
(*                                                                         *)
(* A run's memory says more than its record: what came before the step it  *)
(* is at, and that nothing which stops a run did.  A run that asked for an *)
(* approval goes no further, so the approved calls and the run never meet  *)
(* at one step, and only calls still write into the record.  Calls meet    *)
(* each other only where they checked the grant together.                  *)
(***************************************************************************)
EXTENDS SuiteOperations, TLAPS

AtStep == {"checking", "sending", "sent"}
Left == {"ended", "lost"}
Spent == {"consuming", "consumed"}

\* The request that executes a run: the steps before its position have ended,
\* nothing that ended so far stops a run that goes on, and it asked its product
\* for none of the steps ahead.
RunsAdvance ==
  \A r \in Runs :
    /\ phase[r] \notin {"choosing"} \cup AtStep =>
         position[r] = 1 /\ local[r] = Empty /\ r \notin halted
    /\ phase[r] \in AtStep => r \notin halted /\ position[r] <= Length
    /\ \A k \in Positions :
         /\ local[r][k] = "none" <=> k >= position[r]
         /\ local[r][k] = "dispatched" => <<r, k>> \in accepted
         /\ r \notin halted => local[r][k] # "pending"
         /\ r \notin halted /\ local[r][k] = "failed" => r \in tolerant
         /\ <<r, k, "run">> \in requested =>
              \/ k < position[r]
              \/ k = position[r] /\ phase[r] = "sent"
              \/ phase[r] \in Left

\* A run asks for one approval at most and then halts; a call that sends holds
\* that approval, and what it has to record is what its product said.
ApprovalsHalt ==
  \A r \in Runs :
    /\ approval[r] # "none" => /\ r \in halted \/ phase[r] \in Left
                               /\ asked[r] \in Positions
                               /\ <<r, asked[r], "run">> \notin requested
    /\ \A c \in Calls :
         /\ call[<<r, c>>] # "idle" => approval[r] # "none"
         /\ call[<<r, c>>] \in {"authorized", "sent", "answered", "recording"} =>
              approval[r] \in Spent
         /\ IF call[<<r, c>>] \in {"answered", "recording"}
            THEN result[<<r, c>>] \in {"dispatched", "failed"} ELSE result[<<r, c>>] = "none"
         /\ result[<<r, c>>] = "dispatched" => <<r, asked[r]>> \in accepted
         /\ \A k \in Positions :
              <<r, k, c>> \in requested => k = asked[r] /\ approval[r] \in Spent

\* Calls that found the grant and have not been refused, or have sent.
Contends(r, c) ==
  call[<<r, c>>] \in {"checked", "authorized"} \/ \E k \in Positions : <<r, k, c>> \in requested

\* Two of them checked it together.
CallsShare ==
  \A r \in Runs : \A c, d \in Calls : Contends(r, c) /\ Contends(r, d) => c = d \/ r \in shared

\* A record with steps is that of a run that has ended, and has all of them; a
\* call records its step only where there are some.
RecordsStand ==
  \A r \in Runs :
    /\ stored[r] = Empty \/ (phase[r] \in Left /\ Having(stored[r], "none") = {})
    /\ \A c \in Calls : call[<<r, c>>] = "recording" => stored[r] # Empty

\* A dispatch that began under a pause which lasts has not passed its check.
PausesAreSeen ==
  /\ watched # {} => pause # "running"
  /\ \A r \in Runs :
       /\ <<r, "run">> \in watched => phase[r] = "checking"
       /\ \A c \in Calls : <<r, c>> \in watched => call[<<r, c>>] = "checking"

\* Only a running launch can be overdue, and a queued worker's is queued.
LaunchesFollow ==
  /\ \A j \in stale : job[j] = "running"
  /\ \A j \in Jobs : worker[j] = "queued" => job[j] = "queued"

IInv ==
  /\ TypeOK
  /\ RunsAdvance
  /\ ApprovalsHalt
  /\ CallsShare
  /\ RecordsStand
  /\ RunRecordsAreTrue
  /\ PausesAreSeen
  /\ LaunchesFollow
  /\ OneActiveLaunch

\* The type invariant, by the parties whose memory it is about.
RunTypes ==
  /\ row \in [Runs -> {"absent", "running", "awaiting_approval", "completed", "halted", "failed"}]
  /\ stored \in [Runs -> [Positions -> StepStates]]
  /\ phase \in [Runs -> {"idle", "starting", "choosing", "checking", "sending", "sent",
                         "ended", "lost"}]
  /\ position \in [Runs -> 1..Length + 1]
  /\ local \in [Runs -> [Positions -> StepStates]]
  /\ tolerant \in SUBSET Runs
  /\ halted \in SUBSET Runs
CallTypes ==
  /\ asked \in [Runs -> 0..Length]
  /\ approval \in [Runs -> {"none", "pending", "granted", "consuming", "consumed", "closed"}]
  /\ call \in [Runs \X Calls -> {"idle", "checking", "sending", "checked", "authorized", "sent",
                                 "answered", "recording"}]
  /\ result \in [Runs \X Calls -> {"none", "dispatched", "failed"}]
  /\ shared \in SUBSET Runs
TraceTypes ==
  /\ watched \in SUBSET (Runs \X Callers)
  /\ requested \in SUBSET (Runs \X Positions \X Callers)
  /\ accepted \in SUBSET (Runs \X Positions)
SuiteTypes ==
  /\ pause \in {"running", "draining", "drained"}
  /\ counted \in {"none", "zero", "some"}
  /\ claiming \in BOOLEAN
  /\ job \in [Jobs -> {"absent", "queued", "running", "settled", "unknown"}]
  /\ stale \in SUBSET Jobs
  /\ worker \in [Jobs -> {"idle", "queued", "working", "ended", "lost"}]
  /\ restarts \in 0..MaxRestarts

\* Together they are the type invariant.
LEMMA TypesTogether ==
  /\ TypeOK <=> RunTypes /\ CallTypes /\ TraceTypes /\ SuiteTypes
  /\ TypeOK' <=> (RunTypes /\ CallTypes /\ TraceTypes /\ SuiteTypes)'
BY DEF TypeOK, RunTypes, CallTypes, TraceTypes, SuiteTypes

-----------------------------------------------------------------------------
(* Initial states and the frames of the actions *)

\* Every initial state satisfies the invariant.
LEMMA InitIInv == Init => IInv
<1> SUFFICES ASSUME Init  PROVE  IInv
  OBVIOUS
<1> USE OperationsConstants DEF Init, Empty
<1>1. TypeOK
  <2>1. 1 \in 1..Length + 1 /\ 0 \in 0..Length /\ 0 \in 0..MaxRestarts
    OBVIOUS
  <2>2. RunTypes /\ CallTypes /\ TraceTypes /\ SuiteTypes
    BY <2>1 DEF RunTypes, CallTypes, TraceTypes, SuiteTypes, StepStates
  <2> QED BY <2>2, TypesTogether
<1>2. RunsAdvance
  <2> SUFFICES ASSUME NEW r \in Runs
               PROVE  /\ position[r] = 1 /\ local[r] = Empty /\ r \notin halted
                      /\ phase[r] \notin AtStep
                      /\ \A k \in Positions :
                           /\ local[r][k] = "none" /\ k >= position[r]
                           /\ <<r, k, "run">> \notin requested
    BY DEF RunsAdvance
  <2>1. position[r] = 1 /\ local[r] = Empty /\ r \notin halted /\ phase[r] = "idle"
    OBVIOUS
  <2>2. phase[r] \notin AtStep
    BY <2>1 DEF AtStep
  <2>3. \A k \in Positions : local[r][k] = "none" /\ k >= position[r]
    BY <2>1 DEF Positions
  <2> QED BY <2>1, <2>2, <2>3
<1>3. ApprovalsHalt /\ CallsShare /\ RecordsStand /\ RunRecordsAreTrue
  BY DEF ApprovalsHalt, CallsShare, Contends, RecordsStand, RunRecordsAreTrue, Positions
<1>4. PausesAreSeen /\ LaunchesFollow /\ OneActiveLaunch
  BY DEF PausesAreSeen, LaunchesFollow, OneActiveLaunch, Active
<1> QED BY <1>1, <1>2, <1>3, <1>4 DEF IInv

\* Steps that concern neither a run nor an approved call.
Elsewhere ==
  \/ \E j \in Jobs : QueueLaunch(j) \/ Worker(j) \/ WorkerProgress(j) \/ LaunchLeaseLapses(j)
  \/ CountInFlight \/ PauseSuite \/ ResumeSuite \/ ClaimBegins \/ ClaimEnds \/ ReconcilePauseDrains
  \/ UNCHANGED vars

\* They leave runs, calls and their requests alone.
LEMMA ElsewhereFrame ==
  ASSUME Elsewhere
  PROVE  UNCHANGED <<runVars, callVars, requested, accepted>>
BY DEF Elsewhere, QueueLaunch, Worker, WorkerBegins, WorkerEnds, WorkerProgress,
       LaunchLeaseLapses, CountInFlight, PauseSuite, ResumeSuite, ClaimBegins, ClaimEnds,
       ReconcilePauseDrains, vars, runVars, callVars, traceVars

\* Steps on an approval and by a call that spends it.
Calling(r, c) == CallApproved(r, c) \/ CallStep(r, c)
Approved(r) == GrantApproval(r) \/ CloseApproval(r) \/ \E c \in Calls : Calling(r, c)

\* Every step is of one of five kinds.
LEMMA Kinds ==
  ASSUME [Next]_vars
  PROVE  \/ \E r \in Runs : StartRun(r) \/ RunStep(r)
         \/ \E r \in Runs : Approved(r)
         \/ HiveCoreRestarts
         \/ Elsewhere
BY DEF Next, Operator, Approved, Calling, Elsewhere

\* The step a run is at ends as s, in any of the ways a step can.
Ended(r, s) ==
  /\ r \notin halted /\ position[r] <= Length /\ phase[r] \in {"choosing"} \cup AtStep
  /\ local' = [local EXCEPT ![r][position[r]] = s]
  /\ halted' \in {halted, halted \cup {r}}
  /\ position' = [position EXCEPT ![r] = @ + 1]
  /\ phase' = [phase EXCEPT ![r] = "choosing"]
  /\ tolerant' = tolerant
  /\ watched' = watched \ {<<r, "run">>}
  /\ accepted' \in {accepted, accepted \cup {<<r, position[r]>>}}
  /\ s = "dispatched" => <<r, position[r]>> \in accepted'
  /\ s = "pending" => r \in halted'
  /\ s = "failed" => r \in halted' \/ r \in tolerant
  /\ UNCHANGED <<pauseVars, row, stored, requested, fleetVars, restarts>>

Ending(r) == PassOverStep(r) \/ StepRefused(r) \/ StepAsksApproval(r) \/ StepAnswered(r)

\* Each of them ends it in some way.
LEMMA EndsAStep ==
  ASSUME TypeOK, RunsAdvance, NEW r \in Runs, Ending(r)
  PROVE  \E s \in StepStates \ {"none"} : Ended(r, s)
<1> USE DEF StepStates, Ended, StepEnds
<1>1. CASE PassOverStep(r)
  <2>1. Ended(r, "skipped") \/ Ended(r, "failed")
    BY <1>1 DEF PassOverStep
  <2> QED BY <2>1
<1>2. CASE StepRefused(r)
  <2>1. Ended(r, "failed")
    BY <1>2 DEF StepRefused, RunsAdvance, AtStep
  <2> QED BY <2>1
<1>3. CASE StepAsksApproval(r)
  <2>1. Ended(r, "pending")
    BY <1>3 DEF StepAsksApproval, RunsAdvance, AtStep
  <2> QED BY <2>1
<1>4. CASE StepAnswered(r)
  <2>1. Ended(r, "dispatched") \/ Ended(r, "failed")
    BY <1>4 DEF StepAnswered, RunsAdvance, AtStep
  <2> QED BY <2>1
<1> QED BY <1>1, <1>2, <1>3, <1>4 DEF Ending

-----------------------------------------------------------------------------
(* Types *)

\* What a step that ends does to a run's memory.
LEMMA EndedTypes ==
  ASSUME RunTypes, NEW r \in Runs, NEW s \in StepStates, Ended(r, s)
  PROVE  /\ position[r] \in Positions
         /\ local'[r][position[r]] = s
         /\ \A k \in Positions : k # position[r] => local'[r][k] = local[r][k]
         /\ \A x \in Runs \ {r} : local'[x] = local[x]
         /\ RunTypes'
<1>1. position[r] \in Positions /\ position[r] + 1 \in 1..Length + 1
  BY OperationsConstants DEF RunTypes, Ended, Positions
<1>2. local'[r] = [local[r] EXCEPT ![position[r]] = s] /\ local[r] \in [Positions -> StepStates]
  BY DEF Ended, RunTypes
<1>3. /\ local'[r][position[r]] = s
      /\ \A k \in Positions : k # position[r] => local'[r][k] = local[r][k]
      /\ local'[r] \in [Positions -> StepStates]
  BY <1>1, <1>2
<1>4. local' \in [Runs -> [Positions -> StepStates]] /\ \A x \in Runs \ {r} : local'[x] = local[x]
  BY <1>3 DEF Ended, RunTypes
<1>5. position' \in [Runs -> 1..Length + 1]
  BY <1>1 DEF Ended, RunTypes
<1> QED BY <1>1, <1>3, <1>4, <1>5 DEF Ended, RunTypes

\* Runs keep their kinds.
LEMMA RunsKeepTypes ==
  ASSUME TypeOK, RunsAdvance, NEW r \in Runs, StartRun(r) \/ RunStep(r)
  PROVE  TypeOK'
<1>0. RunTypes /\ CallTypes /\ TraceTypes /\ SuiteTypes
  BY TypesTogether
<1> USE <1>0, OperationsConstants
<1>1. CASE Ending(r)
  <2>1. PICK s \in StepStates : Ended(r, s)
    BY <1>1, EndsAStep
  <2>2. RunTypes' /\ position[r] \in Positions
    BY <2>1, EndedTypes
  <2>3. CallTypes'
    <3>1. CASE PassOverStep(r) \/ StepRefused(r) \/ StepAnswered(r)
      BY <3>1 DEF CallTypes, PassOverStep, StepRefused, StepAnswered, callVars
    <3>2. CASE StepAsksApproval(r)
      <4>1. position[r] \in 0..Length
        BY <2>2 DEF Positions
      <4> QED BY <3>2, <4>1 DEF CallTypes, StepAsksApproval
    <3> QED BY <1>1, <3>1, <3>2 DEF Ending
  <2>4. TraceTypes' /\ SuiteTypes'
    BY <2>1, <2>2 DEF Ended, TraceTypes, SuiteTypes, pauseVars, fleetVars
  <2> QED BY <2>2, <2>3, <2>4, TypesTogether
<1>2. CASE StartRun(r) \/ RecordRun(r) \/ PassPauseCheck(r) \/ BeginStep(r) \/ SendStep(r)
  <2>1. RunTypes'
    BY <1>2 DEF StartRun, RecordRun, PassPauseCheck, BeginStep, SendStep, RunTypes, memoryVars
  <2>3. CallTypes' /\ SuiteTypes'
    BY <1>2 DEF StartRun, RecordRun, PassPauseCheck, BeginStep, SendStep, CallTypes,
                SuiteTypes, callVars, pauseVars, fleetVars
  <2>2. TraceTypes'
    <3>1. SendStep(r) => position[r] \in Positions
      BY DEF SendStep, RunsAdvance, AtStep, RunTypes, Positions
    <3> QED BY <1>2, <3>1 DEF StartRun, RecordRun, PassPauseCheck, BeginStep, SendStep, Begins,
                              TraceTypes, traceVars, Callers
  <2> QED BY <2>1, <2>2, <2>3, TypesTogether
<1>3. CASE FinishRun(r)
  <2>1. PICK steps, status :
          /\ steps \in [Positions -> StepStates]
          /\ status \in {"awaiting_approval", "completed", "halted", "failed"}
          /\ \/ row' = [row EXCEPT ![r] = status] /\ stored' = [stored EXCEPT ![r] = steps]
             \/ UNCHANGED <<row, stored>>
    <3> DEFINE steps == [k \in Positions |-> IF k < position[r] THEN local[r][k] ELSE "skipped"]
    <3>1. steps \in [Positions -> StepStates]
      BY DEF StepStates, RunTypes
    <3>2. Summary(steps, r \in halted) \in {"awaiting_approval", "completed", "halted", "failed"}
      BY DEF Summary
    <3>3. \/ /\ row' = [row EXCEPT ![r] = Summary(steps, r \in halted)]
             /\ stored' = [stored EXCEPT ![r] = steps]
          \/ UNCHANGED <<row, stored>>
      BY <1>3 DEF FinishRun
    <3> HIDE DEF steps
    <3> QED BY <3>1, <3>2, <3>3
  <2>2. RunTypes'
    <3>1. position' \in [Runs -> 1..Length + 1]
      BY <1>3 DEF FinishRun, Forget, RunTypes
    <3>2. local' \in [Runs -> [Positions -> StepStates]]
      BY <1>3 DEF FinishRun, Forget, RunTypes, Empty, StepStates
    <3>3. tolerant' \in SUBSET Runs /\ halted' \in SUBSET Runs
      BY <1>3 DEF FinishRun, Forget, RunTypes
    <3>4. phase' = [phase EXCEPT ![r] = "ended"]
      BY <1>3 DEF FinishRun
    <3>5. /\ row' \in [Runs -> {"absent", "running", "awaiting_approval", "completed", "halted",
                               "failed"}]
          /\ phase' \in [Runs -> {"idle", "starting", "choosing", "checking", "sending", "sent",
                                 "ended", "lost"}]
      BY <2>1, <3>4 DEF RunTypes
    <3>6. stored' \in [Runs -> [Positions -> StepStates]]
      BY <2>1 DEF RunTypes
    <3> QED BY <3>1, <3>2, <3>3, <3>5, <3>6 DEF RunTypes
  <2>3. UNCHANGED <<pauseVars, callVars, traceVars, fleetVars, restarts>>
    BY <1>3 DEF FinishRun
  <2>4. CallTypes'
    BY <2>3 DEF CallTypes, callVars
  <2>5. TraceTypes'
    BY <2>3 DEF TraceTypes, traceVars
  <2>6. SuiteTypes'
    BY <2>3 DEF SuiteTypes, pauseVars, fleetVars
  <2> QED BY <2>2, <2>4, <2>5, <2>6, TypesTogether
<1> QED BY <1>1, <1>2, <1>3 DEF RunStep, Ending

\* So do calls, launches and pauses.
LEMMA NextTypes ==
  ASSUME TypeOK, RunsAdvance, ApprovalsHalt, [Next]_vars
  PROVE  TypeOK'
<1>0. RunTypes /\ CallTypes /\ TraceTypes /\ SuiteTypes
  BY TypesTogether
<1> USE <1>0, OperationsConstants
<1>5. ASSUME NEW r \in Runs, GrantApproval(r) \/ CloseApproval(r)  PROVE  TypeOK'
  <2>1. CallTypes'
    BY <1>5 DEF GrantApproval, CloseApproval, CallTypes
  <2>2. RunTypes' /\ TraceTypes' /\ SuiteTypes'
    BY <1>5 DEF GrantApproval, CloseApproval, RunTypes, TraceTypes, SuiteTypes, runVars, memoryVars,
                traceVars, pauseVars, fleetVars
  <2> QED BY <2>1, <2>2, TypesTogether
<1>1. ASSUME NEW r \in Runs, NEW c \in Calls, Calling(r, c), ~ RewriteRun(r, c)  PROVE  TypeOK'
  <2>1. RunTypes' /\ SuiteTypes'
    BY <1>1 DEF Calling, CallStep, CallApproved, CallRefused,
                CallPassesCheck, CheckApproval, ClaimApproval, SendApproved, CallAnswered, ReadRun,
                RunTypes, SuiteTypes, runVars, memoryVars, pauseVars, fleetVars
  <2>2. CallTypes'
    BY <1>1 DEF Calling, CallStep, CallApproved, CallRefused,
                CallPassesCheck, CheckApproval, ClaimApproval, SendApproved, CallAnswered, ReadRun,
                CallTypes
  <2>3. TraceTypes'
    <3>1. SendApproved(r, c) \/ CallAnswered(r, c) => asked[r] \in Positions
      BY DEF SendApproved, CallAnswered, ApprovalsHalt
    <3> QED BY <1>1, <3>1 DEF Calling, CallStep, CallApproved, CallRefused, CallPassesCheck,
              CheckApproval, ClaimApproval, SendApproved, CallAnswered, ReadRun, Begins, TraceTypes, traceVars, Callers
  <2> QED BY <2>1, <2>2, <2>3, TypesTogether
<1>2. ASSUME NEW r \in Runs, NEW c \in Calls, RewriteRun(r, c)  PROVE  TypeOK'
  <2>1. PICK steps, status :
          /\ steps \in [Positions -> StepStates]
          /\ status \in {"awaiting_approval", "completed", "halted", "failed"}
          /\ \/ row' = [row EXCEPT ![r] = status] /\ stored' = [stored EXCEPT ![r] = steps]
             \/ UNCHANGED <<row, stored>>
    <3> DEFINE steps == [stored[r] EXCEPT ![asked[r]] = result[<<r, c>>]]
    <3>1. steps \in [Positions -> StepStates]
      <4>1. result[<<r, c>>] \in StepStates /\ stored[r] \in [Positions -> StepStates]
        BY <1>2 DEF RewriteRun, ApprovalsHalt, StepStates, RunTypes
      <4> QED BY <4>1
    <3>2. Summary(steps, TRUE) \in {"awaiting_approval", "completed", "halted", "failed"}
      BY DEF Summary
    <3>3. \/ row' = [row EXCEPT ![r] = Summary(steps, TRUE)] /\ stored' = [stored EXCEPT ![r] = steps]
          \/ UNCHANGED <<row, stored>>
      BY <1>2 DEF RewriteRun
    <3> HIDE DEF steps
    <3> QED BY <3>1, <3>2, <3>3
  <2>2. RunTypes'
    <3>1. UNCHANGED <<phase, position, local, tolerant, halted>>
      BY <1>2 DEF RewriteRun, memoryVars
    <3> QED BY <2>1, <3>1 DEF RunTypes
  <2>4. CallTypes'
    BY <1>2 DEF RewriteRun, CallTypes
  <2>3. TraceTypes' /\ SuiteTypes'
    BY <1>2 DEF RewriteRun, TraceTypes, SuiteTypes, traceVars, pauseVars, fleetVars
  <2> QED BY <2>2, <2>3, <2>4, TypesTogether
<1>3. CASE HiveCoreRestarts
  <2>1. RunTypes' /\ CallTypes'
    BY <1>3 DEF HiveCoreRestarts, Forget, RunTypes, CallTypes, Empty, StepStates
  <2>2. TraceTypes' /\ SuiteTypes'
    BY <1>3 DEF HiveCoreRestarts, TraceTypes, SuiteTypes
  <2> QED BY <2>1, <2>2, TypesTogether
<1>4. CASE Elsewhere
  <2>1. RunTypes' /\ CallTypes' /\ TraceTypes'
    BY <1>4, ElsewhereFrame DEF RunTypes, CallTypes, TraceTypes, runVars, memoryVars, callVars,
       Elsewhere, QueueLaunch, Worker, WorkerBegins, WorkerEnds, WorkerProgress,
       LaunchLeaseLapses, CountInFlight, PauseSuite, ResumeSuite, ClaimBegins, ClaimEnds,
       ReconcilePauseDrains, vars, traceVars
  <2>2. SuiteTypes'
    <3>1. ASSUME NEW j \in Jobs, QueueLaunch(j)  PROVE  SuiteTypes'
      BY <3>1 DEF QueueLaunch, SuiteTypes, pauseVars
    <3>2. CASE \E j \in Jobs : Worker(j) \/ WorkerProgress(j) \/ LaunchLeaseLapses(j)
      BY <3>2 DEF Worker, WorkerBegins, WorkerEnds, WorkerProgress, LaunchLeaseLapses, SuiteTypes,
         pauseVars
    <3>3. CASE \/ CountInFlight \/ PauseSuite \/ ResumeSuite \/ ClaimBegins \/ ClaimEnds
               \/ ReconcilePauseDrains \/ UNCHANGED vars
      BY <3>3 DEF CountInFlight, PauseSuite, ResumeSuite, ClaimBegins, ClaimEnds,
         ReconcilePauseDrains, vars, pauseVars, fleetVars, SuiteTypes
    <3> QED BY <1>4, <3>1, <3>2, <3>3 DEF Elsewhere
  <2> QED BY <2>1, <2>2, TypesTogether
<1> QED BY <1>1, <1>2, <1>3, <1>4, <1>5, Kinds, RunsKeepTypes DEF Approved

-----------------------------------------------------------------------------
(* Runs *)

\* A step that ends leaves the run one step further.
LEMMA EndedAdvances ==
  ASSUME TypeOK, RunsAdvance, NEW r \in Runs, NEW s \in StepStates \ {"none"}, Ended(r, s)
  PROVE  RunsAdvance'
<1>0. RunTypes
  BY TypesTogether
<1>1. /\ position[r] \in Positions /\ local'[r][position[r]] = s
      /\ \A k \in Positions : k # position[r] => local'[r][k] = local[r][k]
      /\ \A x \in Runs \ {r} : local'[x] = local[x]
  BY <1>0, EndedTypes
<1>2. /\ position'[r] = position[r] + 1 /\ phase'[r] = "choosing"
      /\ \A x \in Runs \ {r} : /\ position'[x] = position[x] /\ phase'[x] = phase[x]
                               /\ x \in halted' <=> x \in halted
      /\ accepted \subseteq accepted' /\ requested' = requested /\ tolerant' = tolerant
  BY <1>0 DEF Ended, RunTypes
<1>3. ASSUME NEW x \in Runs \ {r}
      PROVE  /\ phase'[x] \notin {"choosing"} \cup AtStep =>
                  position'[x] = 1 /\ local'[x] = Empty /\ x \notin halted'
             /\ phase'[x] \in AtStep => x \notin halted' /\ position'[x] <= Length
             /\ \A k \in Positions :
                  /\ local'[x][k] = "none" <=> k >= position'[x]
                  /\ local'[x][k] = "dispatched" => <<x, k>> \in accepted'
                  /\ x \notin halted' => local'[x][k] # "pending"
                  /\ x \notin halted' /\ local'[x][k] = "failed" => x \in tolerant'
                  /\ <<x, k, "run">> \in requested' =>
                       \/ k < position'[x]
                       \/ k = position'[x] /\ phase'[x] = "sent"
                       \/ phase'[x] \in Left
  BY <1>1, <1>2, <1>3 DEF RunsAdvance
<1>4. ASSUME NEW k \in Positions
      PROVE  /\ local'[r][k] = "none" <=> k >= position'[r]
             /\ local'[r][k] = "dispatched" => <<r, k>> \in accepted'
             /\ r \notin halted' => local'[r][k] # "pending"
             /\ r \notin halted' /\ local'[r][k] = "failed" => r \in tolerant'
             /\ <<r, k, "run">> \in requested' => k < position'[r]
  <2>1. position[r] \in Nat /\ k \in Nat
    BY <1>1 DEF Positions
  <2>2. CASE k = position[r]
    BY <1>1, <1>2, <2>1, <2>2 DEF Ended
  <2>3. CASE k # position[r]
    BY <1>1, <1>2, <2>1, <2>3 DEF Ended, RunsAdvance, AtStep, Left
  <2> QED BY <2>2, <2>3
<1>5. phase'[r] \notin AtStep
  BY <1>2 DEF AtStep
<1> QED BY <1>2, <1>3, <1>4, <1>5 DEF RunsAdvance

\* Runs and their requests advance with every step of theirs.
LEMMA RunsKeepAdvancing ==
  ASSUME TypeOK, RunsAdvance, NEW r \in Runs, StartRun(r) \/ RunStep(r)
  PROVE  RunsAdvance'
<1>0. RunTypes
  BY TypesTogether
<1> USE <1>0
<1>1. CASE Ending(r)
  BY <1>1, EndsAStep, EndedAdvances
<1>2. CASE StartRun(r) \/ RecordRun(r)
  BY <1>2 DEF StartRun, RecordRun, RunsAdvance, RunTypes, memoryVars, traceVars, AtStep, Left
<1>3. CASE BeginStep(r) \/ PassPauseCheck(r)
  BY <1>3 DEF BeginStep, PassPauseCheck, RunsAdvance, RunTypes, memoryVars, traceVars, AtStep, Left
<1>4. CASE SendStep(r)
  BY <1>4 DEF SendStep, RunsAdvance, RunTypes, memoryVars, AtStep, Left
<1>5. CASE FinishRun(r)
  <2>1. /\ position' = [x \in Runs |-> IF x = r THEN 1 ELSE position[x]]
        /\ local' = [x \in Runs |-> IF x = r THEN Empty ELSE local[x]]
        /\ halted' = halted \ {r} /\ tolerant' = tolerant \ {r}
        /\ phase'[r] = "ended" /\ \A x \in Runs \ {r} : phase'[x] = phase[x]
        /\ UNCHANGED <<requested, accepted>>
    BY <1>5 DEF FinishRun, Forget, RunTypes, traceVars
  <2>2. \A k \in Positions : Empty[k] = "none" /\ k >= 1
    BY DEF Empty, Positions
  <2> QED BY <2>1, <2>2 DEF RunsAdvance, AtStep, Left
<1> QED BY <1>1, <1>2, <1>3, <1>4, <1>5 DEF RunStep, Ending

\* Calls and the operator leave runs alone; what is accepted stays so.
LEMMA ApprovedFrame ==
  ASSUME NEW r \in Runs, Approved(r)
  PROVE  /\ UNCHANGED <<phase, position, local, tolerant, halted, asked>>
         /\ accepted \subseteq accepted'
         /\ \A x \in Runs : \A k \in Positions :
              <<x, k, "run">> \in requested' <=> <<x, k, "run">> \in requested
<1>1. ASSUME NEW c \in Calls, Calling(r, c)
      PROVE  requested' = requested \/ requested' = requested \cup {<<r, asked[r], c>>}
  BY <1>1 DEF Calling, CallStep, CallApproved, CallRefused, CallPassesCheck, CheckApproval,
     ClaimApproval, SendApproved, CallAnswered, ReadRun, RewriteRun, traceVars
<1>2. GrantApproval(r) \/ CloseApproval(r) => requested' = requested
  BY DEF GrantApproval, CloseApproval, traceVars
<1>3. /\ UNCHANGED <<phase, position, local, tolerant, halted, asked>>
      /\ accepted \subseteq accepted'
  BY DEF Approved, Calling, CallStep, GrantApproval, CloseApproval, CallApproved, CallRefused,
     CallPassesCheck, CheckApproval, ClaimApproval, SendApproved, CallAnswered, ReadRun, RewriteRun,
     runVars, memoryVars, traceVars
<1> QED BY <1>1, <1>2, <1>3, OperationsConstants DEF Approved

\* A call moves itself only, and the approval of its own run.
LEMMA CallsMoveAlone ==
  ASSUME CallTypes, NEW r \in Runs, NEW c \in Calls, Calling(r, c)
  PROVE  /\ \A x \in Runs, d \in Calls : <<x, d>> # <<r, c>> =>
              call'[<<x, d>>] = call[<<x, d>>] /\ result'[<<x, d>>] = result[<<x, d>>]
         /\ \A x \in Runs \ {r} : approval'[x] = approval[x]
         /\ requested' = requested \/ (SendApproved(r, c) /\ requested' = requested \cup {<<r, asked[r], c>>})
         /\ shared \subseteq shared'
<1>1. \A x \in Runs, d \in Calls : <<x, d>> # <<r, c>> => call'[<<x, d>>] = call[<<x, d>>]
  BY DEF Calling, CallStep, CallApproved, CallRefused, CallPassesCheck, CheckApproval,
     ClaimApproval, SendApproved, CallAnswered, ReadRun, RewriteRun, CallTypes
<1>2. \A x \in Runs, d \in Calls : <<x, d>> # <<r, c>> => result'[<<x, d>>] = result[<<x, d>>]
  BY DEF Calling, CallStep, CallApproved, CallRefused, CallPassesCheck, CheckApproval,
     ClaimApproval, SendApproved, CallAnswered, ReadRun, RewriteRun, CallTypes
<1>3. /\ \A x \in Runs \ {r} : approval'[x] = approval[x]
      /\ shared \subseteq shared'
  BY DEF Calling, CallStep, CallApproved, CallRefused, CallPassesCheck, CheckApproval,
     ClaimApproval, SendApproved, CallAnswered, ReadRun, RewriteRun, CallTypes
<1>4. requested' = requested \/ (SendApproved(r, c) /\ requested' = requested \cup {<<r, asked[r], c>>})
  BY DEF Calling, CallStep, CallApproved, CallRefused, CallPassesCheck, CheckApproval,
     ClaimApproval, SendApproved, CallAnswered, ReadRun, RewriteRun, traceVars
<1> QED BY <1>1, <1>2, <1>3, <1>4

\* So does every other step.
LEMMA NextAdvances ==
  ASSUME TypeOK, RunsAdvance, [Next]_vars
  PROVE  RunsAdvance'
<1>0. RunTypes
  BY TypesTogether
<1>1. ASSUME NEW r \in Runs, Approved(r)  PROVE  RunsAdvance'
  BY <1>1, ApprovedFrame DEF RunsAdvance
<1>2. CASE HiveCoreRestarts
  <2>1. /\ position' = [x \in Runs |-> 1] /\ local' = [x \in Runs |-> Empty]
        /\ halted' = {} /\ UNCHANGED <<requested, accepted>>
        /\ \A x \in Runs : (phase'[x] = "idle" /\ phase[x] = "idle") \/ phase'[x] \in Left
    BY <1>0, <1>2 DEF HiveCoreRestarts, Forget, RunTypes, Left
  <2>2. \A k \in Positions : Empty[k] = "none" /\ k >= 1
    BY DEF Empty, Positions
  <2>3. ASSUME NEW x \in Runs, NEW k \in Positions, phase[x] = "idle"
        PROVE  <<x, k, "run">> \notin requested
    <3>1. position[x] = 1 /\ k \in Nat /\ k >= 1
      BY <2>3 DEF RunsAdvance, AtStep, Positions
    <3>2. <<x, k, "run">> \in requested =>
            k < position[x] \/ phase[x] = "sent" \/ phase[x] \in Left
      BY DEF RunsAdvance
    <3>3. ~ (k < position[x])
      BY <3>1
    <3> QED BY <2>3, <3>2, <3>3 DEF Left
  <2>4. ASSUME NEW x \in Runs
        PROVE  /\ position'[x] = 1 /\ local'[x] = Empty /\ x \notin halted'
               /\ phase'[x] \notin AtStep
               /\ \A k \in Positions : <<x, k, "run">> \in requested' => phase'[x] \in Left
    BY <2>1, <2>3 DEF AtStep, Left
  <2>5. ASSUME NEW x \in Runs, NEW k \in Positions
        PROVE  local'[x][k] = "none" /\ k >= position'[x]
    BY <2>2, <2>4
  <2> QED BY <2>4, <2>5 DEF RunsAdvance
<1>3. CASE Elsewhere
  BY <1>3, ElsewhereFrame DEF RunsAdvance, runVars, memoryVars
<1> QED BY <1>1, <1>2, <1>3, Kinds, RunsKeepAdvancing

-----------------------------------------------------------------------------
(* Approvals *)

\* What ApprovalsHalt says of one call, and of one run.
HoldsWhatItSpends(r, c) ==
  /\ call[<<r, c>>] # "idle" => approval[r] # "none"
  /\ call[<<r, c>>] \in {"authorized", "sent", "answered", "recording"} => approval[r] \in Spent
  /\ IF call[<<r, c>>] \in {"answered", "recording"}
     THEN result[<<r, c>>] \in {"dispatched", "failed"} ELSE result[<<r, c>>] = "none"
  /\ result[<<r, c>>] = "dispatched" => <<r, asked[r]>> \in accepted
  /\ \A k \in Positions : <<r, k, c>> \in requested => k = asked[r] /\ approval[r] \in Spent

HaltsAsItAsks(r) ==
  /\ approval[r] # "none" => /\ r \in halted \/ phase[r] \in Left
                             /\ asked[r] \in Positions
                             /\ <<r, asked[r], "run">> \notin requested
  /\ \A c \in Calls : HoldsWhatItSpends(r, c)

\* It says that of every run, before a step and after it.
LEMMA HaltingByRun ==
  /\ ApprovalsHalt <=> \A r \in Runs : HaltsAsItAsks(r)
  /\ ApprovalsHalt' <=> \A r \in Runs : HaltsAsItAsks(r)'
BY DEF ApprovalsHalt, HaltsAsItAsks, HoldsWhatItSpends

\* A run asks for an approval only where it never did, and no call is under way.
LEMMA RunsKeepHalting ==
  ASSUME TypeOK, RunsAdvance, ApprovalsHalt, NEW r \in Runs, StartRun(r) \/ RunStep(r)
  PROVE  ApprovalsHalt'
<1>0. RunTypes /\ CallTypes
  BY TypesTogether
<1> USE <1>0
<1>1. CASE StepAsksApproval(r)
  <2>1. phase[r] = "sending" /\ r \notin halted /\ position[r] \in Positions
    BY <1>1, OperationsConstants DEF StepAsksApproval, RunsAdvance, AtStep, Positions, RunTypes
  <2>2. <<r, position[r], "run">> \notin requested
    <3>1. position[r] \in Int
      BY <2>1 DEF Positions
    <3>2. <<r, position[r], "run">> \in requested =>
            position[r] < position[r] \/ phase[r] = "sent" \/ phase[r] \in Left
      BY <2>1 DEF RunsAdvance
    <3> QED BY <2>1, <3>1, <3>2 DEF Left
  <2>3. /\ approval[r] = "none"
        /\ \A c \in Calls : call[<<r, c>>] = "idle" /\ result[<<r, c>>] = "none"
    BY <2>1 DEF ApprovalsHalt, Left
  <2>4. /\ asked'[r] = position[r] /\ approval'[r] = "pending" /\ r \in halted'
        /\ \A x \in Runs \ {r} : /\ asked'[x] = asked[x] /\ approval'[x] = approval[x]
                                 /\ phase'[x] = phase[x] /\ (x \in halted' <=> x \in halted)
        /\ UNCHANGED <<call, result, requested, accepted>>
    BY <1>1 DEF StepAsksApproval, StepEnds, RunTypes, CallTypes
  <2>5. \A k \in Positions : \A c \in Calls : <<r, k, c>> \notin requested
    BY <2>3 DEF ApprovalsHalt, Spent
  <2>6. ASSUME NEW x \in Runs  PROVE  HaltsAsItAsks(x)'
    <3>1. CASE x = r
      BY <2>1, <2>2, <2>3, <2>4, <2>5, <3>1 DEF HaltsAsItAsks, HoldsWhatItSpends
    <3>2. CASE x # r
      <4>1. HaltsAsItAsks(x)
        BY HaltingByRun
      <4>2. /\ asked'[x] = asked[x] /\ approval'[x] = approval[x]
            /\ phase'[x] = phase[x] /\ (x \in halted' <=> x \in halted)
            /\ UNCHANGED <<call, result, requested, accepted>>
        BY <2>4, <3>2
      <4> QED BY <4>1, <4>2 DEF HaltsAsItAsks, HoldsWhatItSpends
    <3> QED BY <3>1, <3>2
  <2> QED BY <2>6, HaltingByRun
<1>2. ASSUME UNCHANGED callVars, accepted \subseteq accepted',
             \A x \in Runs : /\ (x \in halted \/ phase[x] \in Left) =>
                                  (x \in halted' \/ phase'[x] \in Left)
                             /\ \A k \in Positions : \A c \in Calls :
                                  <<x, k, c>> \in requested' => <<x, k, c>> \in requested
                             /\ \A k \in Positions : <<x, k, "run">> \in requested' =>
                                  <<x, k, "run">> \in requested \/ approval[x] = "none"
      PROVE  ApprovalsHalt'
  BY <1>2 DEF ApprovalsHalt, callVars
<1>3. CASE PassOverStep(r) \/ StepRefused(r) \/ StepAnswered(r)
  <2>1. UNCHANGED <<callVars, requested>> /\ accepted \subseteq accepted' /\ halted \subseteq halted'
    BY <1>3 DEF PassOverStep, StepRefused, StepAnswered, StepEnds
  <2>2. /\ phase[r] \in {"choosing"} \cup AtStep
        /\ \A x \in Runs \ {r} : phase'[x] = phase[x]
    BY <1>3 DEF PassOverStep, StepRefused, StepAnswered, StepEnds, AtStep, RunTypes
  <2>3. phase[r] \notin Left
    BY <2>2 DEF AtStep, Left
  <2> QED BY <1>2, <2>1, <2>2, <2>3
<1>4. CASE StartRun(r) \/ RecordRun(r) \/ BeginStep(r) \/ PassPauseCheck(r)
  BY <1>2, <1>4 DEF StartRun, RecordRun, BeginStep, PassPauseCheck, RunTypes, Left, memoryVars, traceVars
<1>5. CASE SendStep(r)
  <2>1. approval[r] = "none"
    BY <1>5 DEF SendStep, RunsAdvance, AtStep, ApprovalsHalt, Left
  <2> QED BY <1>2, <1>5, <2>1, OperationsConstants DEF SendStep, RunTypes, Left, memoryVars
<1>6. CASE FinishRun(r)
  BY <1>2, <1>6 DEF FinishRun, Forget, RunTypes, Left, traceVars
<1> QED BY <1>1, <1>3, <1>4, <1>5, <1>6 DEF RunStep

\* A call sends with the approval it has claimed and records what it was told.
LEMMA NextHalts ==
  ASSUME TypeOK, RunsAdvance, ApprovalsHalt, [Next]_vars
  PROVE  ApprovalsHalt'
<1>0. RunTypes /\ CallTypes
  BY TypesTogether
<1>1. ASSUME NEW r \in Runs, GrantApproval(r) \/ CloseApproval(r)  PROVE  ApprovalsHalt'
  <2>1. /\ approval[r] \in {"pending", "granted"} /\ approval'[r] \in {"granted", "closed"}
        /\ \A x \in Runs \ {r} : approval'[x] = approval[x]
        /\ UNCHANGED <<phase, halted, asked, call, result, requested, accepted>>
    BY <1>0, <1>1 DEF GrantApproval, CloseApproval, CallTypes, runVars, memoryVars, traceVars
  <2>2. ASSUME NEW x \in Runs  PROVE  HaltsAsItAsks(x)'
    <3>1. HaltsAsItAsks(x)
      BY HaltingByRun
    <3>2. ASSUME NEW c \in Calls  PROVE  HoldsWhatItSpends(x, c)'
      <4>1. HoldsWhatItSpends(x, c)
        BY <3>1 DEF HaltsAsItAsks
      <4> QED BY <2>1, <4>1 DEF HoldsWhatItSpends, Spent
    <3> QED BY <2>1, <3>1, <3>2 DEF HaltsAsItAsks
  <2> QED BY <2>2, HaltingByRun
<1>4. ASSUME NEW r \in Runs, NEW c \in Calls, Calling(r, c)  PROVE  ApprovalsHalt'
  <2>1. /\ UNCHANGED <<phase, halted, asked>> /\ accepted \subseteq accepted'
        /\ \A x \in Runs : \A k \in Positions :
             <<x, k, "run">> \in requested' <=> <<x, k, "run">> \in requested
    BY <1>4, ApprovedFrame DEF Approved
  <2>2. /\ \A x \in Runs, d \in Calls : <<x, d>> # <<r, c>> =>
             call'[<<x, d>>] = call[<<x, d>>] /\ result'[<<x, d>>] = result[<<x, d>>]
        /\ \A x \in Runs \ {r} : approval'[x] = approval[x]
        /\ requested' = requested \/ requested' = requested \cup {<<r, asked[r], c>>}
    BY <1>0, <1>4, CallsMoveAlone
  <2>3. /\ HaltsAsItAsks(r) /\ HoldsWhatItSpends(r, c)
        /\ \A d \in Calls : HoldsWhatItSpends(r, d)
    BY HaltingByRun DEF HaltsAsItAsks
  <2>4. /\ approval[r] # "none" /\ approval'[r] # "none"
        /\ approval[r] \in Spent => approval'[r] \in Spent
    BY <1>0, <1>4, <2>3 DEF Calling, CallStep, CallApproved, CallRefused, CallPassesCheck,
       CheckApproval, ClaimApproval, SendApproved, CallAnswered, ReadRun, RewriteRun, CallTypes,
       HoldsWhatItSpends, Spent
  <2>5. HoldsWhatItSpends(r, c)'
    <3>1. CASE CallApproved(r, c) \/ CallRefused(r, c) \/ CallPassesCheck(r, c)
               \/ CheckApproval(r, c)
      BY <1>0, <2>1, <2>3, <3>1 DEF CallApproved, CallRefused, CallPassesCheck, CheckApproval,
         HoldsWhatItSpends, CallTypes, Spent, traceVars
    <3>2. CASE ClaimApproval(r, c)
      BY <1>0, <2>1, <2>3, <3>2 DEF ClaimApproval, HoldsWhatItSpends, CallTypes, Spent, traceVars
    <3>3. CASE SendApproved(r, c)
      BY <1>0, <2>1, <2>3, <3>3 DEF SendApproved, HoldsWhatItSpends, CallTypes, Spent
    <3>4. CASE CallAnswered(r, c)
      BY <1>0, <2>1, <2>3, <3>4 DEF CallAnswered, HoldsWhatItSpends, CallTypes, Spent
    <3>5. CASE ReadRun(r, c)
      BY <1>0, <2>1, <2>3, <3>5 DEF ReadRun, HoldsWhatItSpends, CallTypes, Spent, traceVars
    <3>6. CASE RewriteRun(r, c)
      BY <1>0, <2>1, <2>3, <3>6 DEF RewriteRun, HoldsWhatItSpends, CallTypes, Spent, traceVars
    <3> QED BY <1>4, <3>1, <3>2, <3>3, <3>4, <3>5, <3>6 DEF Calling, CallStep
  <2>6. ASSUME NEW x \in Runs, NEW d \in Calls, <<x, d>> # <<r, c>>
        PROVE  HoldsWhatItSpends(x, d)'
    <3>1. HoldsWhatItSpends(x, d)
      BY HaltingByRun DEF HaltsAsItAsks
    <3>2. call'[<<x, d>>] = call[<<x, d>>] /\ result'[<<x, d>>] = result[<<x, d>>]
      BY <2>2, <2>6
    <3>3. \A k \in Positions : <<x, k, d>> \in requested' => <<x, k, d>> \in requested
      BY <2>2, <2>6
    <3>4. /\ approval[x] # "none" => approval'[x] # "none"
          /\ approval[x] \in Spent => approval'[x] \in Spent
      BY <2>2, <2>4
    <3> QED BY <2>1, <3>1, <3>2, <3>3, <3>4 DEF HoldsWhatItSpends
  <2>7. ASSUME NEW x \in Runs  PROVE  HaltsAsItAsks(x)'
    <3>1. HaltsAsItAsks(x)
      BY HaltingByRun
    <3>2. \A d \in Calls : HoldsWhatItSpends(x, d)'
      BY <2>5, <2>6
    <3>3. approval'[x] # "none" => approval[x] # "none"
      BY <2>2, <2>4
    <3> QED BY <2>1, <3>1, <3>2, <3>3 DEF HaltsAsItAsks
  <2> QED BY <2>7, HaltingByRun
<1>2. CASE HiveCoreRestarts
  <2>1. /\ call' = [rc \in Runs \X Calls |-> "idle"] /\ result' = [rc \in Runs \X Calls |-> "none"]
        /\ UNCHANGED <<asked, approval, requested, accepted>>
    BY <1>2 DEF HiveCoreRestarts
  <2>2. \A x \in Runs : x \in halted \/ phase[x] \in Left => phase'[x] \in Left
    BY <1>0, <1>2 DEF HiveCoreRestarts, RunTypes, RunsAdvance, Left, AtStep
  <2> QED BY <2>1, <2>2 DEF ApprovalsHalt
<1>3. CASE Elsewhere
  BY <1>3, ElsewhereFrame DEF ApprovalsHalt, runVars, memoryVars, callVars
<1> QED BY <1>1, <1>2, <1>3, <1>4, Kinds, RunsKeepHalting DEF Approved

\* A second call contends for a grant only by checking it beside the first.
LEMMA NextShares ==
  ASSUME TypeOK, ApprovalsHalt, CallsShare, [Next]_vars
  PROVE  CallsShare'
<1>0. RunTypes /\ CallTypes
  BY TypesTogether
<1>1. ASSUME shared \subseteq shared',
             \A x \in Runs, d \in Calls : Contends(x, d)' => Contends(x, d)
      PROVE  CallsShare'
  BY <1>1 DEF CallsShare
<1>2. ASSUME NEW r \in Runs, StartRun(r) \/ RunStep(r)  PROVE  CallsShare'
  <2>1. /\ UNCHANGED <<call, shared>>
        /\ requested' = requested \/ requested' = requested \cup {<<r, position[r], "run">>}
    BY <1>2 DEF RunStep, StartRun, RecordRun, PassOverStep, BeginStep, StepRefused, PassPauseCheck,
       StepAsksApproval, SendStep, StepAnswered, FinishRun, callVars, traceVars
  <2> QED BY <1>1, <2>1, OperationsConstants DEF Contends
<1>3. ASSUME NEW r \in Runs, GrantApproval(r) \/ CloseApproval(r)  PROVE  CallsShare'
  BY <1>1, <1>3 DEF GrantApproval, CloseApproval, Contends, traceVars
<1>4. ASSUME NEW r \in Runs, NEW c \in Calls, Calling(r, c)  PROVE  CallsShare'
  <2>1. /\ \A x \in Runs, d \in Calls : <<x, d>> # <<r, c>> => call'[<<x, d>>] = call[<<x, d>>]
        /\ requested' = requested \/ (SendApproved(r, c) /\ requested' = requested \cup {<<r, asked[r], c>>})
        /\ shared \subseteq shared'
    BY <1>0, <1>4, CallsMoveAlone
  <2>2. \A x \in Runs, d \in Calls : <<x, d>> # <<r, c>> => (Contends(x, d)' => Contends(x, d))
    BY <2>1 DEF Contends
  <2>3. CASE CheckApproval(r, c)
    <3>1. /\ approval[r] = "granted"
          /\ (\E d \in Calls : call[<<r, d>>] = "checked") => r \in shared'
      BY <2>3 DEF CheckApproval
    <3>2. \A d \in Calls : Contends(r, d) => call[<<r, d>>] = "checked"
      BY <3>1 DEF Contends, ApprovalsHalt, Spent
    <3>3. ASSUME NEW x \in Runs, NEW d \in Calls, NEW e \in Calls,
                 Contends(x, d)', Contends(x, e)', d # e
          PROVE  x \in shared'
      <4>1. CASE x = r /\ c \in {d, e}
        BY <2>2, <3>1, <3>2, <3>3, <4>1
      <4>2. CASE x # r \/ c \notin {d, e}
        BY <2>1, <2>2, <3>3, <4>2 DEF CallsShare
      <4> QED BY <4>1, <4>2
    <3> QED BY <3>3 DEF CallsShare
  <2>4. CASE ~ CheckApproval(r, c)
    <3>1. Contends(r, c)' => Contends(r, c)
      BY <1>0, <1>4, <2>1, <2>4 DEF Contends, Calling, CallStep, CallApproved, CallRefused,
         CallPassesCheck, ClaimApproval, SendApproved, CallAnswered, ReadRun, RewriteRun, CallTypes
    <3> QED BY <1>1, <2>1, <2>2, <3>1
  <2> QED BY <2>3, <2>4
<1>5. CASE HiveCoreRestarts
  BY <1>1, <1>5 DEF HiveCoreRestarts, Contends
<1>6. CASE Elsewhere
  BY <1>1, <1>6, ElsewhereFrame DEF Contends, callVars
<1> QED BY <1>2, <1>3, <1>4, <1>5, <1>6, Kinds DEF Approved

-----------------------------------------------------------------------------
(* Records *)

\* A run with all of its steps adds up to completed only if all were dispatched.
LEMMA CompletedMeansAll ==
  ASSUME NEW steps \in [Positions -> StepStates], NEW stopped,
         Having(steps, "none") = {}, Summary(steps, stopped) = "completed"
  PROVE  \A k \in Positions : steps[k] = "dispatched"
BY DEF Summary, Having, StepStates

\* What RecordsStand and RunRecordsAreTrue say of one run.
RecordIsTrue(r) ==
  /\ stored[r] = Empty \/ (phase[r] \in Left /\ Having(stored[r], "none") = {})
  /\ \A c \in Calls : call[<<r, c>>] = "recording" => stored[r] # Empty
  /\ \A k \in Positions : stored[r][k] = "dispatched" => <<r, k>> \in accepted
  /\ row[r] = "completed" => \A k \in Positions : <<r, k>> \in accepted

\* They say that of every run, before a step and after it.
LEMMA RecordsByRun ==
  /\ RecordsStand /\ RunRecordsAreTrue <=> \A r \in Runs : RecordIsTrue(r)
  /\ (RecordsStand /\ RunRecordsAreTrue)' <=> \A r \in Runs : RecordIsTrue(r)'
BY DEF RecordsStand, RunRecordsAreTrue, RecordIsTrue

\* A step whose record and calls stay as they are keeps the record true.
LEMMA RecordUntouched ==
  ASSUME NEW x \in Runs, RecordIsTrue(x), accepted \subseteq accepted',
         stored'[x] = stored[x], row'[x] = row[x] \/ row'[x] = "running",
         phase[x] \in Left => phase'[x] \in Left,
         \A c \in Calls : call'[<<x, c>>] = "recording" => call[<<x, c>>] = "recording"
  PROVE  RecordIsTrue(x)'
BY DEF RecordIsTrue

\* A run writes its record when it starts and, with all of its steps, when it ends.
LEMMA RunsKeepRecords ==
  ASSUME TypeOK, RunsAdvance, ApprovalsHalt, RecordsStand, RunRecordsAreTrue,
         NEW r \in Runs, StartRun(r) \/ RunStep(r)
  PROVE  RecordsStand' /\ RunRecordsAreTrue'
<1>0. RunTypes /\ CallTypes /\ \A x \in Runs : RecordIsTrue(x)
  BY TypesTogether, RecordsByRun
<1>1. ASSUME NEW x \in Runs, ~ (FinishRun(r) /\ x = r)  PROVE  RecordIsTrue(x)'
  <2>1. /\ stored'[x] = stored[x] /\ accepted \subseteq accepted' /\ call' = call
        /\ row'[x] = row[x] \/ row'[x] = "running"
        /\ phase[x] \in Left => phase'[x] \in Left
    BY <1>0, <1>1 DEF RunStep, StartRun, RecordRun, PassOverStep, BeginStep, StepRefused,
       PassPauseCheck, StepAsksApproval, SendStep, StepAnswered, FinishRun, StepEnds,
       RunTypes, Left, callVars, traceVars
  <2> QED BY <1>0, <2>1, RecordUntouched
<1>2. CASE FinishRun(r)
  <2> DEFINE steps == [k \in Positions |-> IF k < position[r] THEN local[r][k] ELSE "skipped"]
  <2>1. /\ phase[r] = "choosing" /\ phase'[r] = "ended" /\ UNCHANGED <<call, asked, accepted>>
        /\ \/ stored'[r] = steps /\ row'[r] = Summary(steps, r \in halted)
           \/ stored'[r] = stored[r] /\ row'[r] = row[r]
    BY <1>0, <1>2 DEF FinishRun, RunTypes, callVars, traceVars
  <2>2. steps \in [Positions -> StepStates]
    BY <1>0 DEF RunTypes, StepStates
  <2>3. /\ Having(steps, "none") = {}
        /\ \A k \in Positions : steps[k] = "dispatched" => <<r, k>> \in accepted
    <3>1. ASSUME NEW k \in Positions
          PROVE  steps[k] # "none" /\ (steps[k] = "dispatched" => <<r, k>> \in accepted)
      <4>1. steps[k] = IF k < position[r] THEN local[r][k] ELSE "skipped"
        OBVIOUS
      <4>2. k \in Int /\ position[r] \in Int
        BY <1>0 DEF RunTypes, Positions
      <4>3. /\ (local[r][k] = "none" <=> k >= position[r])
            /\ local[r][k] = "dispatched" => <<r, k>> \in accepted
        BY DEF RunsAdvance
      <4> HIDE DEF steps
      <4> QED BY <4>1, <4>2, <4>3
    <3> QED BY <3>1 DEF Having
  <2>4. stored[r] = Empty
    BY <1>0, <2>1 DEF RecordIsTrue, Left
  <2>5. \A c \in Calls : call[<<r, c>>] # "recording"
    BY <1>0, <2>4 DEF RecordIsTrue
  <2> HIDE DEF steps
  <2>6. RecordIsTrue(r)'
    <3>1. CASE stored'[r] = steps /\ row'[r] = Summary(steps, r \in halted)
      BY <2>1, <2>2, <2>3, <2>5, <3>1, CompletedMeansAll DEF RecordIsTrue, Left
    <3>2. CASE stored'[r] = stored[r] /\ row'[r] = row[r]
      BY <1>0, <2>1, <2>5, <3>2 DEF RecordIsTrue, Left
    <3> QED BY <2>1, <3>1, <3>2
  <2> QED BY <1>1, <2>6, RecordsByRun
<1> QED BY <1>1, <1>2, RecordsByRun

\* A call writes what its product said of a step into a record that has all steps.
LEMMA NextKeepsRecords ==
  ASSUME TypeOK, RunsAdvance, ApprovalsHalt, RecordsStand, RunRecordsAreTrue, [Next]_vars
  PROVE  RecordsStand' /\ RunRecordsAreTrue'
<1>0. RunTypes /\ CallTypes /\ \A x \in Runs : RecordIsTrue(x)
  BY TypesTogether, RecordsByRun
<1>1. ASSUME NEW r \in Runs, GrantApproval(r) \/ CloseApproval(r)
      PROVE  RecordsStand' /\ RunRecordsAreTrue'
  <2>1. UNCHANGED <<phase, call, stored, row, accepted>>
    BY <1>1 DEF GrantApproval, CloseApproval, runVars, traceVars
  <2> QED BY <2>1 DEF RecordsStand, RunRecordsAreTrue
<1>4. ASSUME NEW r \in Runs, NEW c \in Calls, Calling(r, c)
      PROVE  RecordsStand' /\ RunRecordsAreTrue'
  <2>1. /\ UNCHANGED phase /\ accepted \subseteq accepted'
        /\ \A x \in Runs, d \in Calls : <<x, d>> # <<r, c>> => call'[<<x, d>>] = call[<<x, d>>]
    BY <1>0, <1>4, ApprovedFrame, CallsMoveAlone DEF Approved
  <2>2. \/ call'[<<r, c>>] # "recording"
        \/ call[<<r, c>>] = "recording"
        \/ ReadRun(r, c) /\ stored[r] # Empty
    BY <1>0, <1>4 DEF Calling, CallStep, CallApproved, CallRefused, CallPassesCheck, CheckApproval,
       ClaimApproval, SendApproved, CallAnswered, ReadRun, RewriteRun, CallTypes
  <2>3. ASSUME NEW x \in Runs, stored'[x] = stored[x], row'[x] = row[x]  PROVE  RecordIsTrue(x)'
    <3>1. \A d \in Calls : call'[<<x, d>>] = "recording" => stored'[x] # Empty
      BY <1>0, <2>1, <2>2, <2>3 DEF RecordIsTrue
    <3> QED BY <1>0, <2>1, <2>3, <3>1 DEF RecordIsTrue
  <2>4. CASE ~ RewriteRun(r, c)
    <3>1. UNCHANGED <<stored, row>>
      BY <1>4, <2>4 DEF Calling, CallStep, CallApproved, CallRefused, CallPassesCheck,
         CheckApproval, ClaimApproval, SendApproved, CallAnswered, ReadRun, runVars
    <3> QED BY <2>3, <3>1, RecordsByRun
  <2>5. CASE RewriteRun(r, c)
    <3> DEFINE steps == [stored[r] EXCEPT ![asked[r]] = result[<<r, c>>]]
    <3>1. /\ call[<<r, c>>] = "recording" /\ call'[<<r, c>>] = "idle" /\ UNCHANGED accepted
          /\ \/ stored'[r] = steps /\ row'[r] = Summary(steps, TRUE)
             \/ stored'[r] = stored[r] /\ row'[r] = row[r]
          /\ \A x \in Runs \ {r} : stored'[x] = stored[x] /\ row'[x] = row[x]
      BY <1>0, <2>5 DEF RewriteRun, RunTypes, CallTypes, traceVars
    <3>2. /\ stored[r] \in [Positions -> StepStates] /\ asked[r] \in Positions
          /\ result[<<r, c>>] \in {"dispatched", "failed"} /\ stored[r] # Empty
          /\ result[<<r, c>>] = "dispatched" => <<r, asked[r]>> \in accepted
      BY <1>0, <3>1 DEF RunTypes, ApprovalsHalt, RecordIsTrue
    <3>3. phase[r] \in Left /\ Having(stored[r], "none") = {}
      BY <1>0, <3>2 DEF RecordIsTrue
    <3>4. /\ steps \in [Positions -> StepStates] /\ Having(steps, "none") = {}
          /\ \A k \in Positions : steps[k] = "dispatched" => <<r, k>> \in accepted
      BY <1>0, <3>2, <3>3 DEF Having, StepStates, RecordIsTrue
    <3>5. steps # Empty
      BY <3>2 DEF Empty
    <3> HIDE DEF steps
    <3>6. RecordIsTrue(r)'
      <4>1. CASE stored'[r] = steps /\ row'[r] = Summary(steps, TRUE)
        <5>1. row'[r] = "completed" => \A k \in Positions : <<r, k>> \in accepted'
          BY <2>1, <3>4, <4>1, CompletedMeansAll
        <5>2. /\ phase'[r] \in Left /\ Having(stored'[r], "none") = {} /\ stored'[r] # Empty
              /\ \A k \in Positions : stored'[r][k] = "dispatched" => <<r, k>> \in accepted'
          BY <2>1, <3>3, <3>4, <3>5, <4>1
        <5> QED BY <5>1, <5>2 DEF RecordIsTrue, Having
      <4>2. CASE stored'[r] = stored[r] /\ row'[r] = row[r]
        BY <2>3, <4>2
      <4> QED BY <3>1, <4>1, <4>2
    <3> QED BY <2>3, <3>1, <3>6, RecordsByRun
  <2> QED BY <2>4, <2>5
<1>2. CASE HiveCoreRestarts
  <2>1. ASSUME NEW x \in Runs  PROVE  RecordIsTrue(x)'
    <3>1. /\ UNCHANGED <<stored, row, accepted>>
          /\ \A c \in Calls : call'[<<x, c>>] = "idle"
          /\ phase[x] \in Left => phase'[x] \in Left
      BY <1>0, <1>2 DEF HiveCoreRestarts, Left, RunTypes
    <3> QED BY <1>0, <3>1, RecordUntouched
  <2> QED BY <2>1, RecordsByRun
<1>3. CASE Elsewhere
  BY <1>3, ElsewhereFrame DEF RecordsStand, RunRecordsAreTrue, runVars, callVars
<1> QED BY <1>1, <1>2, <1>3, <1>4, Kinds, RunsKeepRecords DEF Approved

-----------------------------------------------------------------------------
(* Pauses and launches *)

\* Under a pause that lasts no dispatch passes its check.
LEMMA NextSeesPauses ==
  ASSUME TypeOK, PausesAreSeen, [Next]_vars
  PROVE  PausesAreSeen'
<1>0. RunTypes /\ CallTypes /\ TraceTypes
  BY TypesTogether
<1>1. ASSUME NEW r \in Runs, StartRun(r) \/ RunStep(r)  PROVE  PausesAreSeen'
  <2>1. pause' = pause /\ call' = call /\ \A x \in Runs \ {r} : phase'[x] = phase[x]
    BY <1>0, <1>1 DEF RunStep, StartRun, RecordRun, PassOverStep, BeginStep, StepRefused,
       PassPauseCheck, StepAsksApproval, SendStep, StepAnswered, FinishRun, StepEnds,
       RunTypes, pauseVars, callVars
  <2>2. CASE BeginStep(r)
    BY <1>0, <2>1, <2>2, OperationsConstants DEF BeginStep, Begins, PausesAreSeen, RunTypes
  <2>3. CASE Ending(r)
    <3>1. watched' = watched \ {<<r, "run">>}
      BY <2>3 DEF Ending, PassOverStep, StepRefused, StepAsksApproval, StepAnswered, StepEnds
    <3> QED BY <2>1, <3>1 DEF PausesAreSeen
  <2>4. CASE StartRun(r) \/ RecordRun(r) \/ PassPauseCheck(r) \/ SendStep(r) \/ FinishRun(r)
    <3>1. watched' = watched
      BY <2>4 DEF StartRun, RecordRun, PassPauseCheck, SendStep, FinishRun, traceVars
    <3>2. <<r, "run">> \notin watched
      BY <2>4 DEF StartRun, RecordRun, PassPauseCheck, SendStep, FinishRun, PausesAreSeen
    <3> QED BY <2>1, <3>1, <3>2 DEF PausesAreSeen
  <2> QED BY <1>1, <2>2, <2>3, <2>4 DEF RunStep, Ending
<1>2. ASSUME NEW r \in Runs, GrantApproval(r) \/ CloseApproval(r)  PROVE  PausesAreSeen'
  BY <1>2 DEF GrantApproval, CloseApproval, PausesAreSeen, runVars, traceVars, pauseVars
<1>5. ASSUME NEW r \in Runs, NEW c \in Calls, Calling(r, c)  PROVE  PausesAreSeen'
  <2>1. /\ UNCHANGED <<pause, phase>>
        /\ \A x \in Runs, d \in Calls : <<x, d>> # <<r, c>> => call'[<<x, d>>] = call[<<x, d>>]
    <3>1. UNCHANGED <<pause, phase>>
      BY <1>5 DEF Calling, CallStep, CallApproved, CallRefused, CallPassesCheck, CheckApproval,
         ClaimApproval, SendApproved, CallAnswered, ReadRun, RewriteRun, runVars, pauseVars
    <3> QED BY <1>0, <1>5, <3>1, CallsMoveAlone
  <2>2. CASE CallApproved(r, c)
    <3>1. /\ \/ watched' = watched
             \/ watched' = watched \cup {<<r, c>>} /\ pause # "running"
          /\ call'[<<r, c>>] = "checking"
      BY <1>0, <2>2 DEF CallApproved, Begins, CallTypes
    <3> QED BY <2>1, <3>1, OperationsConstants DEF PausesAreSeen
  <2>3. CASE CallRefused(r, c) \/ SendApproved(r, c)
    <3>1. watched' = watched \ {<<r, c>>}
      BY <2>3 DEF CallRefused, SendApproved
    <3> QED BY <2>1, <3>1 DEF PausesAreSeen
  <2>4. CASE \/ CallPassesCheck(r, c) \/ CheckApproval(r, c) \/ ClaimApproval(r, c)
             \/ CallAnswered(r, c) \/ ReadRun(r, c) \/ RewriteRun(r, c)
    <3>1. watched' = watched
      BY <2>4 DEF CallPassesCheck, CheckApproval, ClaimApproval, CallAnswered, ReadRun, RewriteRun,
         traceVars
    <3>2. <<r, c>> \notin watched
      BY <2>4 DEF CallPassesCheck, CheckApproval, ClaimApproval, CallAnswered, ReadRun, RewriteRun,
         PausesAreSeen
    <3> QED BY <2>1, <3>1, <3>2 DEF PausesAreSeen
  <2> QED BY <1>5, <2>2, <2>3, <2>4 DEF Calling, CallStep
<1>3. CASE HiveCoreRestarts
  BY <1>3 DEF HiveCoreRestarts, PausesAreSeen
<1>4. CASE Elsewhere
  <2>1. UNCHANGED <<phase, call>>
    BY <1>4, ElsewhereFrame DEF runVars, callVars
  <2>2. \/ UNCHANGED <<watched, pause>>
        \/ watched' = {}
        \/ watched' = watched /\ pause' # "running"
    BY <1>4 DEF Elsewhere, QueueLaunch, Worker, WorkerBegins, WorkerEnds, WorkerProgress,
       LaunchLeaseLapses, CountInFlight, PauseSuite, ResumeSuite, ClaimBegins, ClaimEnds,
       ReconcilePauseDrains, vars, pauseVars, traceVars
  <2> QED BY <2>1, <2>2 DEF PausesAreSeen
<1> QED BY <1>1, <1>2, <1>3, <1>4, <1>5, Kinds DEF Approved

\* A launch becomes active only where every active one is overdue and given up.
LEMMA NextLaunches ==
  ASSUME TypeOK, LaunchesFollow, OneActiveLaunch, [Next]_vars
  PROVE  LaunchesFollow' /\ OneActiveLaunch'
<1>0. SuiteTypes
  BY TypesTogether
<1>1. ASSUME UNCHANGED <<job, stale, worker>>  PROVE  LaunchesFollow' /\ OneActiveLaunch'
  BY <1>1 DEF LaunchesFollow, OneActiveLaunch, Active
<1>2. ASSUME NEW r \in Runs, StartRun(r) \/ RunStep(r)  PROVE  UNCHANGED <<job, stale, worker>>
  BY <1>2 DEF RunStep, StartRun, RecordRun, PassOverStep, BeginStep, StepRefused,
     PassPauseCheck, StepAsksApproval, SendStep, StepAnswered, FinishRun, fleetVars
<1>3. ASSUME NEW r \in Runs, Approved(r)  PROVE  UNCHANGED <<job, stale, worker>>
  BY <1>3 DEF Approved, Calling, CallStep, GrantApproval, CloseApproval, CallApproved, CallRefused,
     CallPassesCheck, CheckApproval, ClaimApproval, SendApproved, CallAnswered, ReadRun, RewriteRun,
     fleetVars
<1>4. CASE HiveCoreRestarts
  BY <1>0, <1>4 DEF HiveCoreRestarts, LaunchesFollow, OneActiveLaunch, Active, SuiteTypes
<1>5. ASSUME NEW j \in Jobs, QueueLaunch(j)  PROVE  LaunchesFollow' /\ OneActiveLaunch'
  <2>1. PICK kind \in {"queued", "settled"} :
          /\ job' = [i \in Jobs |-> IF i = j THEN kind
                                    ELSE IF i \in Active THEN "unknown" ELSE job[i]]
          /\ worker' = [worker EXCEPT ![j] = IF kind = "queued" THEN "queued" ELSE "ended"]
    BY <1>5 DEF QueueLaunch
  <2>2. stale' = {} /\ \A i \in Jobs : i \in Active => job[i] = "running"
    BY <1>5 DEF QueueLaunch, LaunchesFollow
  <2>3. \A i \in Jobs \ {j} : job'[i] \notin {"queued", "running"} /\ worker'[i] = worker[i]
    BY <1>0, <2>1 DEF Active, SuiteTypes
  <2>4. OneActiveLaunch'
    BY <2>3 DEF OneActiveLaunch, Active
  <2>5. \A i \in Jobs \ {j} : worker[i] # "queued"
    BY <2>2 DEF LaunchesFollow, Active
  <2>6. LaunchesFollow'
    BY <1>0, <2>1, <2>2, <2>3, <2>5 DEF LaunchesFollow, SuiteTypes
  <2> QED BY <2>4, <2>6
<1>6. ASSUME NEW j \in Jobs, Worker(j) \/ WorkerProgress(j) \/ LaunchLeaseLapses(j)
      PROVE  LaunchesFollow' /\ OneActiveLaunch'
  <2>1. Active' \subseteq Active
    BY <1>0, <1>6 DEF Worker, WorkerBegins, WorkerEnds, WorkerProgress, LaunchLeaseLapses, Active,
       SuiteTypes, LaunchesFollow
  <2>2. LaunchesFollow'
    BY <1>0, <1>6 DEF Worker, WorkerBegins, WorkerEnds, WorkerProgress, LaunchLeaseLapses,
       SuiteTypes, LaunchesFollow
  <2> QED BY <2>1, <2>2 DEF OneActiveLaunch
<1>7. CASE Elsewhere
  <2>1. CASE \E j \in Jobs : QueueLaunch(j) \/ Worker(j) \/ WorkerProgress(j) \/ LaunchLeaseLapses(j)
    BY <2>1, <1>5, <1>6
  <2>2. CASE \/ CountInFlight \/ PauseSuite \/ ResumeSuite \/ ClaimBegins \/ ClaimEnds
             \/ ReconcilePauseDrains \/ UNCHANGED vars
    BY <1>1, <2>2 DEF CountInFlight, PauseSuite, ResumeSuite, ClaimBegins, ClaimEnds,
       ReconcilePauseDrains, vars, fleetVars
  <2> QED BY <1>7, <2>1, <2>2 DEF Elsewhere
<1> QED BY <1>1, <1>2, <1>3, <1>4, <1>7, Kinds

-----------------------------------------------------------------------------
(* Theorems *)

\* Every step keeps the invariant.
LEMMA NextIInv ==
  ASSUME IInv, [Next]_vars
  PROVE  IInv'
BY NextTypes, NextAdvances, NextHalts, NextShares, NextKeepsRecords, NextSeesPauses,
   NextLaunches DEF IInv

\* The invariant the theorems rest on holds in every reachable state.
THEOREM Invariance == Spec => []IInv
<1>1. Init => IInv
  BY InitIInv
<1>2. IInv /\ [Next]_vars => IInv'
  BY NextIInv
<1> QED BY <1>1, <1>2, PTL DEF Spec

\* Runs, calls, launches and the pause record only hold values of their kinds.
THEOREM TypeCorrect == Spec => []TypeOK
<1>1. IInv => TypeOK
  BY DEF IInv
<1> QED BY <1>1, Invariance, PTL

\* A stored run never claims a dispatch no product accepted, nor a completion
\* with a step left out, whichever of its two writers stored it.
THEOREM RunRecordsAlwaysTrue == Spec => []RunRecordsAreTrue
<1>1. IInv => RunRecordsAreTrue
  BY DEF IInv
<1> QED BY <1>1, Invariance, PTL

\* No step of a run is sent both by the run and by a call that spends its
\* approval, a call sends only the step approved, and two calls both send it only
\* if they stood between the check and the claim together.
THEOREM StepsAlwaysSentOnce == Spec => []StepsAreSentOnce
<1>1. IInv => StepsAreSentOnce
  <2> SUFFICES ASSUME IInv, NEW r \in Runs, NEW k \in Positions, NEW c \in Calls,
                      <<r, k, c>> \in requested
               PROVE  /\ k = asked[r] /\ approval[r] \in {"consuming", "consumed"}
                      /\ <<r, k, "run">> \notin requested
                      /\ \A d \in Calls : <<r, k, d>> \in requested => c = d \/ r \in shared
    BY DEF StepsAreSentOnce
  <2>1. k = asked[r] /\ approval[r] \in {"consuming", "consumed"}
    BY DEF IInv, ApprovalsHalt, Spent
  <2>2. <<r, k, "run">> \notin requested
    BY <2>1 DEF IInv, ApprovalsHalt
  <2>3. \A d \in Calls : <<r, k, d>> \in requested => c = d \/ r \in shared
    BY DEF IInv, CallsShare, Contends
  <2> QED BY <2>1, <2>2, <2>3
<1> QED BY <1>1, Invariance, PTL

(***************************************************************************)
(* Where an operator waits for one approved call to end before making the  *)
(* next, a step reaches its product once, without exception: no restart,   *)
(* lost answer or refused call in between makes a second request of it.    *)
(***************************************************************************)
CallsStandApart ==
  \A r \in Runs : \A c, d \in Calls :
    call[<<r, c>>] = "checked" /\ call[<<r, d>>] = "checked" => c = d

LEMMA SharingTakesTwo ==
  ASSUME IInv, [Next]_vars, CallsStandApart', shared = {}
  PROVE  shared' = {}
<1>0. CallTypes
  BY TypesTogether DEF IInv
<1>1. ASSUME NEW r \in Runs, NEW c \in Calls, CheckApproval(r, c)  PROVE  shared' = {}
  <2>1. ASSUME NEW d \in Calls, call[<<r, d>>] = "checked"  PROVE  FALSE
    <3>1. c # d /\ call'[<<r, c>>] = "checked"
      BY <1>0, <1>1, <2>1 DEF CheckApproval, CallTypes
    <3>2. call'[<<r, d>>] = "checked"
      BY <1>0, <1>1, <2>1, <3>1 DEF CheckApproval, CallTypes
    <3> QED BY <3>1, <3>2 DEF CallsStandApart
  <2> QED BY <1>1, <2>1 DEF CheckApproval
<1>2. ASSUME NEW r \in Runs, NEW c \in Calls, Calling(r, c), ~ CheckApproval(r, c)
      PROVE  shared' = shared
  BY <1>2 DEF Calling, CallStep, CallApproved, CallRefused, CallPassesCheck, ClaimApproval,
     SendApproved, CallAnswered, ReadRun, RewriteRun
<1>3. ASSUME NEW r \in Runs, GrantApproval(r) \/ CloseApproval(r)  PROVE  shared' = shared
  BY <1>3 DEF GrantApproval, CloseApproval
<1>4. ASSUME NEW r \in Runs, StartRun(r) \/ RunStep(r)  PROVE  shared' = shared
  BY <1>4 DEF RunStep, StartRun, RecordRun, PassOverStep, BeginStep, StepRefused, PassPauseCheck,
     StepAsksApproval, SendStep, StepAnswered, FinishRun, callVars
<1>5. HiveCoreRestarts \/ Elsewhere => shared' = shared
  BY ElsewhereFrame DEF HiveCoreRestarts, callVars
<1> QED BY <1>1, <1>2, <1>3, <1>4, <1>5, Kinds DEF Approved

THEOREM StepsSentOnceByCallsApart ==
  Spec /\ []CallsStandApart =>
    [](\A r \in Runs : \A k \in Positions : \A c, d \in Callers :
         <<r, k, c>> \in requested /\ <<r, k, d>> \in requested => c = d)
<1>1. Init => shared = {}
  BY DEF Init
<1>2. IInv /\ CallsStandApart' /\ shared = {} /\ [Next]_vars => (shared = {})'
  BY SharingTakesTwo
<1>3. StepsAreSentOnce /\ shared = {} =>
        \A r \in Runs : \A k \in Positions : \A c, d \in Callers :
          <<r, k, c>> \in requested /\ <<r, k, d>> \in requested => c = d
  BY DEF StepsAreSentOnce, Callers
<1> QED BY <1>1, <1>2, <1>3, Invariance, StepsAlwaysSentOnce, PTL DEF Spec

\* Never two fleet launches active, late workers of lost launches included.
THEOREM OneLaunchAtATime == Spec => []OneActiveLaunch
<1>1. IInv => OneActiveLaunch
  BY DEF IInv
<1> QED BY <1>1, Invariance, PTL

\* Only SendStep and SendApproved ask a product for anything.
LEMMA Requests ==
  ASSUME [Next]_vars, NEW r \in Runs, NEW k \in Positions, NEW c \in Callers,
         <<r, k, c>> \in requested' \ requested
  PROVE  \/ c = "run" /\ k = position[r] /\ SendStep(r)
         \/ c \in Calls /\ SendApproved(r, c)
<1>1. ASSUME NEW q \in Runs, StartRun(q) \/ RunStep(q)
      PROVE  SendStep(q) /\ q = r /\ c = "run" /\ k = position[r]
  <2>1. ~ SendStep(q) => requested' = requested
    BY <1>1 DEF RunStep, StartRun, RecordRun, PassOverStep, BeginStep, StepRefused,
       PassPauseCheck, StepAsksApproval, StepAnswered, FinishRun, traceVars
  <2>2. SendStep(q) /\ requested' = requested \cup {<<q, position[q], "run">>}
    BY <2>1 DEF SendStep
  <2> QED BY <2>2
<1>2. ASSUME NEW q \in Runs, NEW d \in Calls, Calling(q, d)
      PROVE  SendApproved(q, d) /\ q = r /\ c = d
  <2>1. ~ SendApproved(q, d) => requested' = requested
    BY <1>2 DEF Calling, CallStep, CallApproved, CallRefused, CallPassesCheck, CheckApproval,
       ClaimApproval, CallAnswered, ReadRun, RewriteRun, traceVars
  <2>2. SendApproved(q, d) /\ requested' = requested \cup {<<q, asked[q], d>>}
    BY <2>1 DEF SendApproved
  <2> QED BY <2>2
<1>4. ASSUME NEW q \in Runs  PROVE  ~ GrantApproval(q) /\ ~ CloseApproval(q)
  BY DEF GrantApproval, CloseApproval, traceVars
<1>3. ~ HiveCoreRestarts /\ ~ Elsewhere
  BY ElsewhereFrame DEF HiveCoreRestarts
<1> QED BY <1>1, <1>2, <1>3, <1>4, Kinds DEF Approved

\* A step is sent only where nothing before it stops the run.
THEOREM HaltedRunsAlwaysSilent == Spec => HaltedRunsSendNothing
<1> DEFINE Silent ==
      \A r \in Runs : \A k \in Positions :
        <<r, k, "run">> \in requested' \ requested =>
          \A m \in 1..k - 1 : \/ local[r][m] \in {"dispatched", "skipped"}
                              \/ local[r][m] = "failed" /\ r \in tolerant
<1>1. IInv /\ [Next]_vars => Silent
  <2> SUFFICES ASSUME IInv, [Next]_vars, NEW r \in Runs, NEW k \in Positions,
                      <<r, k, "run">> \in requested' \ requested, NEW m \in 1..k - 1
               PROVE  \/ local[r][m] \in {"dispatched", "skipped"}
                      \/ local[r][m] = "failed" /\ r \in tolerant
    OBVIOUS
  <2>1. k = position[r] /\ SendStep(r)
    BY Requests, OperationsConstants DEF Callers
  <2>2. r \notin halted
    BY <2>1 DEF SendStep, IInv, RunsAdvance, AtStep
  <2>3. m \in Positions /\ ~ (m >= position[r])
    BY <2>1, OperationsConstants DEF Positions
  <2>4. local[r][m] \in StepStates \ {"none", "pending"}
    <3>1. local[r][m] \in StepStates
      BY <2>3 DEF IInv, TypeOK
    <3>2. local[r][m] # "none" /\ local[r][m] # "pending"
      BY <2>2, <2>3 DEF IInv, RunsAdvance
    <3> QED BY <3>1, <3>2
  <2>5. local[r][m] = "failed" => r \in tolerant
    BY <2>2, <2>3 DEF IInv, RunsAdvance
  <2> QED BY <2>4, <2>5 DEF StepStates
<1> HIDE DEF Silent
<1>2. IInv /\ [Next]_vars => [Silent]_vars
  BY <1>1
<1>3. Spec => [][Silent]_vars
  BY <1>2, Invariance, PTL DEF Spec
<1> QED BY <1>3 DEF HaltedRunsSendNothing, Silent

\* A dispatch that begins while the suite is paused sends nothing under that pause.
THEOREM PausedSuiteAlwaysSilent == Spec => PausedSuiteSendsNothing
<1> DEFINE Silent ==
      \A r \in Runs : \A k \in Positions : \A c \in Callers :
        <<r, k, c>> \in requested' \ requested => <<r, c>> \notin watched
<1>1. IInv /\ [Next]_vars => Silent
  <2> SUFFICES ASSUME IInv, [Next]_vars, NEW r \in Runs, NEW k \in Positions, NEW c \in Callers,
                      <<r, k, c>> \in requested' \ requested
               PROVE  <<r, c>> \notin watched
    OBVIOUS
  <2>1. \/ c = "run" /\ phase[r] = "sending"
        \/ c \in Calls /\ call[<<r, c>>] = "authorized"
    <3>1. \/ c = "run" /\ k = position[r] /\ SendStep(r)
          \/ c \in Calls /\ SendApproved(r, c)
      BY Requests
    <3> QED BY <3>1 DEF SendStep, SendApproved
  <2>2. /\ <<r, "run">> \in watched => phase[r] = "checking"
        /\ c \in Calls /\ <<r, c>> \in watched => call[<<r, c>>] = "checking"
    BY DEF IInv, PausesAreSeen
  <2> QED BY <2>1, <2>2
<1> HIDE DEF Silent
<1>2. IInv /\ [Next]_vars => [Silent]_vars
  BY <1>1
<1>3. Spec => [][Silent]_vars
  BY <1>2, Invariance, PTL DEF Spec
<1> QED BY <1>3 DEF PausedSuiteSendsNothing, Silent
-----------------------------------------------------------------------------
(* What an interrupted run leaves behind *)

\* A run that no request executes any more and whose record says it is running:
\* HiveCore stopped under it, or its last save failed.
Interrupted(r) == row[r] = "running" /\ phase[r] \in Left

\* No step is stored in the record of a run that is running.
RunningIsBare == \A r \in Runs : row[r] = "running" => stored[r] = Empty

\* Who writes a run's record: its start, its end and an approved call.
LEMMA RowWrites ==
  ASSUME IInv, [Next]_vars, NEW r \in Runs
  PROVE  /\ \/ row'[r] = row[r] /\ stored'[r] = stored[r]
            \/ phase[r] = "starting" /\ stored'[r] = stored[r]
            \/ row'[r] # "running" /\ (phase[r] = "choosing" \/ stored[r] # Empty)
         /\ phase[r] \in Left => phase'[r] \in Left
<1>0. RunTypes /\ CallTypes
  BY TypesTogether DEF IInv
<1>1. ASSUME NEW q \in Runs, StartRun(q) \/ RunStep(q), ~ FinishRun(q)
      PROVE  /\ \/ row'[r] = row[r] /\ stored'[r] = stored[r]
                \/ phase[r] = "starting" /\ stored'[r] = stored[r]
             /\ phase[r] \in Left => phase'[r] \in Left
  BY <1>0, <1>1 DEF RunStep, StartRun, RecordRun, PassOverStep, BeginStep, StepRefused,
     PassPauseCheck, StepAsksApproval, SendStep, StepAnswered, StepEnds, RunTypes, Left
<1>2. ASSUME NEW q \in Runs, FinishRun(q)
      PROVE  /\ \/ row'[r] = row[r] /\ stored'[r] = stored[r]
                \/ row'[r] # "running" /\ phase[r] = "choosing"
             /\ phase[r] \in Left => phase'[r] \in Left
  BY <1>0, <1>2 DEF FinishRun, RunTypes, Left, Summary
<1>3. ASSUME NEW q \in Runs, Approved(q)
      PROVE  /\ \/ row'[r] = row[r] /\ stored'[r] = stored[r]
                \/ row'[r] # "running" /\ stored[r] # Empty
             /\ phase'[r] = phase[r]
  <2>1. phase' = phase
    BY <1>3, ApprovedFrame
  <2>2. ASSUME NEW c \in Calls, Calling(q, c), ~ RewriteRun(q, c)  PROVE  UNCHANGED <<row, stored>>
    BY <2>2 DEF Calling, CallStep, CallApproved, CallRefused, CallPassesCheck, CheckApproval,
       ClaimApproval, SendApproved, CallAnswered, ReadRun, runVars
  <2>3. GrantApproval(q) \/ CloseApproval(q) => UNCHANGED <<row, stored>>
    BY DEF GrantApproval, CloseApproval, runVars
  <2>4. ASSUME NEW c \in Calls, RewriteRun(q, c)
        PROVE  \/ row'[r] = row[r] /\ stored'[r] = stored[r]
               \/ row'[r] # "running" /\ stored[r] # Empty
    <3>1. stored[q] # Empty
      BY <2>4 DEF RewriteRun, IInv, RecordsStand
    <3>2. PICK steps : \/ /\ row' = [row EXCEPT ![q] = Summary(steps, TRUE)]
                          /\ stored' = [stored EXCEPT ![q] = steps]
                       \/ UNCHANGED <<row, stored>>
      BY <2>4 DEF RewriteRun
    <3>3. Summary(steps, TRUE) # "running"
      BY DEF Summary
    <3> QED BY <1>0, <3>1, <3>2, <3>3 DEF RunTypes
  <2> QED BY <1>3, <2>1, <2>2, <2>3, <2>4 DEF Approved
<1>4. CASE HiveCoreRestarts
  BY <1>0, <1>4 DEF HiveCoreRestarts, RunTypes, Left
<1>5. CASE Elsewhere
  BY <1>5, ElsewhereFrame DEF runVars
<1> QED BY <1>1, <1>2, <1>3, <1>4, <1>5, Kinds

\* A run stores its steps with the status it ends in.
LEMMA RunningStaysBare ==
  ASSUME IInv, RunningIsBare, [Next]_vars
  PROVE  RunningIsBare'
<1>1. \A r \in Runs : phase[r] = "starting" => stored[r] = Empty
  BY DEF IInv, RecordsStand, Left
<1> QED BY <1>1, RowWrites DEF RunningIsBare

LEMMA InterruptedStays ==
  ASSUME IInv, RunningIsBare, [Next]_vars, NEW r \in Runs, Interrupted(r)
  PROVE  Interrupted(r)'
<1>1. stored[r] = Empty
  BY DEF RunningIsBare, Interrupted
<1> QED BY <1>1, RowWrites DEF Interrupted, Left

(***************************************************************************)
(* A run that was interrupted is never recovered, by a restart, an         *)
(* approved call or anything else, and while it is there the suite's pause *)
(* is never reported drained again: by a pause handler that had counted    *)
(* before, once, at most.  in_flight_for_pause_target counts its record    *)
(* for ever.                                                               *)
(***************************************************************************)
InterruptedRunsHoldDrains ==
  [][\A r \in Runs :
       Interrupted(r) =>
         /\ Interrupted(r)'
         /\ pause' = "drained" => pause = "drained" \/ counted = "zero"
         /\ counted' = "zero" => counted = "zero"]_vars

THEOREM InterruptedRunsAlwaysHoldDrains == Spec => InterruptedRunsHoldDrains
<1> DEFINE Holds ==
      \A r \in Runs :
        Interrupted(r) =>
          /\ Interrupted(r)'
          /\ pause' = "drained" => pause = "drained" \/ counted = "zero"
          /\ counted' = "zero" => counted = "zero"
<1>1. Init => RunningIsBare
  BY DEF Init, RunningIsBare
<1>2. ASSUME NEW r \in Runs, Interrupted(r), [Next]_vars
      PROVE  /\ pause' = "drained" => pause = "drained" \/ counted = "zero"
             /\ counted' = "zero" => counted = "zero"
  <2>1. InFlight
    BY <1>2 DEF Interrupted, InFlight
  <2>2. ASSUME NEW q \in Runs, StartRun(q) \/ RunStep(q)  PROVE  UNCHANGED <<pause, counted>>
    BY <2>2 DEF RunStep, StartRun, RecordRun, PassOverStep, BeginStep, StepRefused,
       PassPauseCheck, StepAsksApproval, SendStep, StepAnswered, FinishRun, pauseVars
  <2>3. ASSUME NEW q \in Runs, Approved(q)  PROVE  UNCHANGED <<pause, counted>>
    BY <2>3 DEF Approved, Calling, CallStep, GrantApproval, CloseApproval, CallApproved, CallRefused,
       CallPassesCheck, CheckApproval, ClaimApproval, SendApproved, CallAnswered, ReadRun, RewriteRun,
       pauseVars
  <2>4. CASE Elsewhere
    BY <2>1, <2>4 DEF Elsewhere, QueueLaunch, Worker, WorkerBegins, WorkerEnds, WorkerProgress,
       LaunchLeaseLapses, CountInFlight, PauseSuite, ResumeSuite, ClaimBegins, ClaimEnds,
       ReconcilePauseDrains, vars, pauseVars
  <2> QED BY <1>2, <2>2, <2>3, <2>4, Kinds DEF HiveCoreRestarts
<1>3. IInv /\ RunningIsBare /\ [Next]_vars => RunningIsBare' /\ [Holds]_vars
  BY <1>2, RunningStaysBare, InterruptedStays
<1> HIDE DEF Holds
<1>4. Spec => [][Holds]_vars
  BY <1>1, <1>3, Invariance, PTL DEF Spec
<1> QED BY <1>4 DEF InterruptedRunsHoldDrains, Holds

-----------------------------------------------------------------------------
(* The approval of a run's step *)

\* A row that ended is no approval any more.
StepStage(r) ==
  IF approval[r] \in {"pending", "granted", "consuming"} THEN approval[r] ELSE "none"

Life(r) == INSTANCE SubjectApproval WITH stage <- StepStage(r)

(***************************************************************************)
(* The run that asks, the operator who decides and the call that spends    *)
(* the grant amount to one approval with one life, as the engine's items   *)
(* and the approval rows do: also while HiveCore stops between two of      *)
(* their steps, which strands the grant it was consuming.                  *)
(***************************************************************************)
THEOREM RunApprovalsHaveOneLife ==
  ASSUME NEW r \in Runs
  PROVE  Spec => Life(r)!LifecycleSpec
<1>1. Init => Life(r)!LifecycleInit
  BY DEF Init, StepStage, Life!LifecycleInit
<1>2. IInv /\ [Next]_vars => [Life(r)!LifecycleNext]_(StepStage(r))
  <2> SUFFICES ASSUME IInv, [Next]_vars, approval'[r] # approval[r]
               PROVE  Life(r)!LifecycleNext \/ StepStage(r)' = StepStage(r)
    BY DEF StepStage
  <2>0. CallTypes
    BY TypesTogether DEF IInv
  <2>1. ASSUME NEW q \in Runs, StartRun(q) \/ RunStep(q)
        PROVE  approval[r] = "none" /\ approval'[r] = "pending"
    <3>1. StepAsksApproval(q) /\ q = r
      BY <2>0, <2>1 DEF RunStep, StartRun, RecordRun, PassOverStep, BeginStep, StepRefused,
         PassPauseCheck, StepAsksApproval, SendStep, StepAnswered, FinishRun, callVars, CallTypes
    <3>2. phase[r] = "sending" /\ approval'[r] = "pending"
      BY <2>0, <3>1 DEF StepAsksApproval, CallTypes
    <3> QED BY <3>2 DEF IInv, ApprovalsHalt, RunsAdvance, AtStep, Left
  <2>2. ASSUME NEW q \in Runs, Approved(q)
        PROVE  \/ approval[r] = "pending" /\ approval'[r] = "granted"
               \/ approval[r] \in {"pending", "granted"} /\ approval'[r] = "closed"
               \/ approval[r] = "granted" /\ approval'[r] = "consuming"
               \/ approval[r] = "consuming" /\ approval'[r] = "consumed"
    <3>1. CASE GrantApproval(q) \/ CloseApproval(q)
      BY <2>0, <3>1 DEF GrantApproval, CloseApproval, CallTypes
    <3>2. ASSUME NEW c \in Calls, ClaimApproval(q, c)
          PROVE  approval[r] = "granted" /\ approval'[r] = "consuming"
      BY <2>0, <3>2 DEF ClaimApproval, CallTypes
    <3>3. ASSUME NEW c \in Calls, CallAnswered(q, c)
          PROVE  approval[r] = "consuming" /\ approval'[r] = "consumed"
      <4>1. approval[q] \in Spent
        BY <3>3 DEF CallAnswered, IInv, ApprovalsHalt
      <4>2. q = r /\ approval'[q] = "consumed"
        BY <2>0, <3>3 DEF CallAnswered, CallTypes
      <4> QED BY <4>1, <4>2 DEF Spent
    <3>4. ASSUME NEW c \in Calls, Calling(q, c), ~ ClaimApproval(q, c), ~ CallAnswered(q, c)
          PROVE  FALSE
      BY <3>4 DEF Calling, CallStep, CallApproved, CallRefused, CallPassesCheck, CheckApproval,
         SendApproved, ReadRun, RewriteRun
    <3> QED BY <2>2, <3>1, <3>2, <3>3, <3>4 DEF Approved
  <2>3. ~ HiveCoreRestarts /\ ~ Elsewhere
    BY ElsewhereFrame DEF HiveCoreRestarts, callVars
  <2> QED BY <2>1, <2>2, <2>3, Kinds
     DEF StepStage, Life!LifecycleNext, Life!Ask, Life!Allow, Life!Close, Life!Begin, Life!End
<1> QED BY <1>1, <1>2, Invariance, PTL DEF Spec, Life!LifecycleSpec
=============================================================================
