----------------------------- MODULE WorkEngine -----------------------------
(***************************************************************************)
(* HiveCore's work ledger and the two ways a work item is dispatched: the  *)
(* engine's cycles (run_once, called by the background loop and by every   *)
(* conductor tick), which claim an item under a lease and dispatch it, and *)
(* dispatch_approved, which spends the approval an item waits for.  With   *)
(* them the resources both claim (an AI reservation and a sandbox slot)    *)
(* and the pause authority both must honour.                               *)
(*                                                                         *)
(* A task is one claim of a cycle or one call of dispatch_approved.  Its   *)
(* number is its claim's identifier: later claims have later numbers.      *)
(* Each step is one transaction or one exchange with the product, so tasks *)
(* interleave between any two of them, and a restart loses them all.  What *)
(* becomes of an approval inside a dispatch is the subject of Approvals;   *)
(* here an item's approval is one row with the states that matter to it.   *)
(***************************************************************************)
EXTENDS Kernel, FiniteSets

CONSTANTS
  Items,          \* work items, one per identity fingerprint
  Engine,         \* numbers of the claims of engine cycles
  Calls,          \* numbers of the calls of dispatch_approved
  NoTask, NoItem,
  Scopes,         \* pause targets
  MandateScopes,  \* those that name a mandate
  Covered,        \* the items each target covers
  Contracts,      \* how each item's product may answer for its action
  SlotPolicies,   \* sandbox_slots an operator may save
  AiPolicies,     \* daily AI limits an operator may save, in estimates
  Costs,          \* what a product may report an answer has cost, in estimates
  RateLimits,     \* GitHub rate evidence a claim may read
  OwnerStates,    \* owner politeness evidence a claim may read
  SmokeStates,    \* smoke tiers that may be observed
  Requests,       \* autonomy a mandate may request
  MaxTasks,       \* bound on the tasks that start
  MaxUpsets       \* bound on the restarts and midnights, counted together

Tasks == Engine \cup Calls

ASSUME EngineConstants ==
  /\ Engine \subseteq Nat /\ Calls \subseteq Nat
  /\ Engine \cap Calls = {}
  /\ NoTask \notin Tasks
  /\ NoItem \notin Items
  /\ MandateScopes \subseteq Scopes
  /\ Covered \in [Scopes -> SUBSET Items]
  /\ Contracts \in [Items -> SUBSET {"gated", "automatic"}]
  /\ SlotPolicies \subseteq 1..100
  /\ SlotPolicies # {}
  /\ AiPolicies \subseteq Nat /\ AiPolicies # {}
  /\ Costs \subseteq Nat
  /\ MaxTasks \in Nat /\ MaxUpsets \in Nat

ASSUME FiniteTasks == IsFiniteSet(Tasks)

VARIABLES
  state,      \* the state_kind of each item
  holder,     \* the claim a dispatching item names
  overdue,    \* dispatching items with lease_until in the past
  cooling,    \* blocked items with next_attempt_at in the future
  approval,   \* the approval of each item
  step,       \* where each task is
  work,       \* the item it works on
  verdict,    \* what it has to write about the item
  ai,         \* its AI reservation; "over" once it is released or expired
  sandbox,    \* its sandbox lease; "over" once it is released, expired or replaced
  lapsed,     \* tasks whose reservation and lease have expires_at in the past
  slots,      \* sandbox_slots of the saved resource policy
  aiLimit,    \* its suite_ai_daily_limit_cents
  aiSpent,    \* the sum of actual_cents over the day's committed reservations
  earlier,    \* reserved tasks whose reservation is of an earlier day
  pause,      \* the record of each target
  watched,    \* for each task not yet sent, the targets paused since it began
  sent,       \* tasks whose request was sent to the product
  shared,     \* items of which two calls stood between check and claim at once
  upsets      \* restarts and midnights so far

ledgerVars == <<state, holder, overdue, cooling, approval>>
taskVars == <<step, work, verdict>>
leaseVars == <<ai, sandbox, lapsed, aiSpent, earlier>>
policyVars == <<slots, aiLimit>>
resourceVars == <<leaseVars, policyVars>>
pauseVars == <<pause, watched>>
sendVars == <<sent, shared>>
vars == <<ledgerVars, taskVars, resourceVars, pauseVars, sendVars, upsets>>

\* "shipped" stands for shipped and dispatched, whose work goes on outside
\* HiveCore; "failed" for failed and for blocked with no further attempt.
States == {"absent", "discovered", "blocked", "dispatching", "awaiting", "shipped",
           "completed", "failed"}
Final == {"completed", "failed"}
Steps == {"idle", "claimed", "cleared", "admitted", "gated", "checked", "authorized", "sent",
          "answered", "settling", "done", "lost"}
Verdicts == {"none", "blocked", "awaiting", "refused", "rejected", "uncertain",
             "shipped", "completed"}

\* Ledger, tasks, resources and pauses hold values of the kinds the schema allows.
TypeOK ==
  /\ state \in [Items -> States]
  /\ holder \in [Items -> Engine \cup {NoTask}]
  /\ overdue \in SUBSET Items
  /\ cooling \in SUBSET Items
  /\ approval \in [Items -> {"none", "pending", "granted", "consuming", "consumed", "closed"}]
  /\ step \in [Tasks -> Steps]
  /\ work \in [Tasks -> Items \cup {NoItem}]
  /\ verdict \in [Tasks -> Verdicts]
  /\ ai \in [Tasks -> {"none", "reserved", "committed", "over"}]
  /\ sandbox \in [Tasks -> {"none", "claimed", "over"}]
  /\ lapsed \in SUBSET Tasks
  /\ slots \in SlotPolicies
  /\ aiLimit \in AiPolicies
  /\ aiSpent \in Nat
  /\ earlier \in SUBSET Tasks
  /\ pause \in [Scopes -> {"running", "paused"}]
  /\ watched \in [Tasks -> SUBSET Scopes]
  /\ sent \in SUBSET Tasks
  /\ shared \in SUBSET Items
  /\ upsets \in 0..MaxUpsets

Init ==
  /\ state = [i \in Items |-> "absent"]
  /\ holder = [i \in Items |-> NoTask]
  /\ overdue = {}
  /\ cooling = {}
  /\ approval = [i \in Items |-> "none"]
  /\ step = [t \in Tasks |-> "idle"]
  /\ work = [t \in Tasks |-> NoItem]
  /\ verdict = [t \in Tasks |-> "none"]
  /\ ai = [t \in Tasks |-> "none"]
  /\ sandbox = [t \in Tasks |-> "none"]
  /\ lapsed = {}
  /\ slots \in SlotPolicies
  /\ aiLimit \in AiPolicies
  /\ aiSpent = 0
  /\ earlier = {}
  /\ pause = [x \in Scopes |-> "running"]
  /\ watched = [t \in Tasks |-> {}]
  /\ sent = {}
  /\ shared = {}
  /\ upsets = 0

\* Tasks that run now, and the next one of a kind to start.
Running(t) == step[t] \notin {"idle", "done", "lost"}
Started == {t \in Tasks : step[t] # "idle"}
Fresh(t, kind) ==
  /\ t \in kind \ Started
  /\ \A u \in kind : u < t => u \in Started
  /\ Cardinality(Started) < MaxTasks

\* A task that ends forgets what it had to write.
Ends(t) ==
  /\ step' = [step EXCEPT ![t] = "done"]
  /\ verdict' = [verdict EXCEPT ![t] = "none"]
  /\ watched' = [watched EXCEPT ![t] = {}]

\* The targets in force.
Paused == {x \in Scopes : pause[x] = "paused"}
PausedFor(i) == {x \in Paused : i \in Covered[x]}

-----------------------------------------------------------------------------
(* The ledger *)

\* propose_work and ingest_findings: an identity seen before is only refreshed.
ProposeWork(i) ==
  /\ state[i] = "absent"
  /\ state' = [state EXCEPT ![i] = "discovered"]
  /\ UNCHANGED <<holder, overdue, cooling, approval, taskVars, resourceVars, pauseVars,
                 sendVars, upsets>>

\* A fault: expired claims are left alone.
NothingRecovered == state

\* recover_expired_work_claims: an expired claim fails and is not tried again.
Recovered ==
  [i \in Items |-> IF state[i] = "dispatching" /\ i \in overdue THEN "failed" ELSE state[i]]

\* The claim each dispatching item still names once expired claims are failed.
HoldersLeft == [i \in Items |-> IF i \in overdue THEN NoTask ELSE holder[i]]

Claimable(i) ==
  \/ Recovered[i] = "discovered"
  \/ Recovered[i] = "blocked" /\ i \notin cooling

\* claim_next_work when it finds work: the oldest claimable item gets a lease.
ClaimNextWork(t, i) ==
  /\ Fresh(t, Engine)
  /\ Claimable(i)
  /\ state' = [Recovered EXCEPT ![i] = "dispatching"]
  /\ holder' = [HoldersLeft EXCEPT ![i] = t]
  /\ overdue' = {}
  /\ step' = [step EXCEPT ![t] = "claimed"]
  /\ work' = [work EXCEPT ![t] = i]
  /\ watched' = [watched EXCEPT ![t] = Paused]
  /\ UNCHANGED <<cooling, approval, verdict, resourceVars, pause, sendVars, upsets>>

\* claim_next_work when it finds none, or when the model has no fresh claim left.
RecoverClaims ==
  /\ overdue # {}
  /\ (\A i \in Items : ~ Claimable(i)) \/ (\A t \in Engine : ~ Fresh(t, Engine))
  /\ state' = Recovered
  /\ holder' = HoldersLeft
  /\ overdue' = {}
  /\ UNCHANGED <<cooling, approval, taskVars, resourceVars, pauseVars, sendVars, upsets>>

\* lease_until passes, next_attempt_at passes.
LeaseLapses(i) ==
  /\ state[i] = "dispatching" /\ i \notin overdue
  /\ overdue' = overdue \cup {i}
  /\ UNCHANGED <<state, holder, cooling, approval, taskVars, resourceVars, pauseVars,
                 sendVars, upsets>>

CooledDown(i) ==
  /\ i \in cooling
  /\ cooling' = cooling \ {i}
  /\ UNCHANGED <<state, holder, overdue, approval, taskVars, resourceVars, pauseVars,
                 sendVars, upsets>>

\* record_reconciled_pr_outcome completes the item whose pull request was merged
\* or closed.
OutcomeRecorded(i) ==
  /\ state[i] = "shipped"
  /\ state' = [state EXCEPT ![i] = "completed"]
  /\ UNCHANGED <<holder, overdue, cooling, approval, taskVars, resourceVars, pauseVars,
                 sendVars, upsets>>

-----------------------------------------------------------------------------
(* execute_claim up to the dispatch *)

\* A task that is not to be dispatched settles its item at once.
Withhold(t, v) ==
  /\ verdict' = [verdict EXCEPT ![t] = v]
  /\ step' = [step EXCEPT ![t] = "settling"]
  /\ UNCHANGED work

\* The mandate, the smoke evidence and the pauses are read.  A mandate that is
\* not active, or evidence that cannot be read, holds the item back for five
\* minutes; a mandate that does not exist holds it back for good.
CheckAuthority(t) ==
  /\ step[t] = "claimed"
  /\ \/ \E requested \in Requests, observed \in SmokeStates, slowdown \in BOOLEAN :
          IF \/ Effective(requested, observed, slowdown) = Observe
             \/ PausedFor(work[t]) # {}
          THEN Withhold(t, "blocked")
          ELSE step' = [step EXCEPT ![t] = "cleared"] /\ UNCHANGED <<work, verdict>>
     \/ Withhold(t, "blocked")
     \/ Withhold(t, "refused")
  /\ UNCHANGED <<ledgerVars, resourceVars, pauseVars, sendVars, upsets>>

-----------------------------------------------------------------------------
(* Resources *)

\* Reservations and leases as expire_work_resources leaves them.
SweptAi == [t \in Tasks |-> IF ai[t] = "reserved" /\ t \in lapsed THEN "over" ELSE ai[t]]
SweptSandbox ==
  [t \in Tasks |-> IF sandbox[t] = "claimed" /\ t \in lapsed THEN "over" ELSE sandbox[t]]

\* ai_spend_for_day and sandbox_slots_in_use, once what has lapsed is swept.
AiReserved == {t \in Tasks \ earlier : SweptAi[t] = "reserved"}
SlotsInUse == {t \in Tasks : SweptSandbox[t] = "claimed"}
AiSpend ==
  [limit |-> aiLimit, spent |-> aiSpent, reserved |-> Cardinality(AiReserved), mandate |-> {}]

\* A fault: the last free slot is given twice.
EvidenceOffByOne(rate, owner) ==
  [rate |-> rate, ai |-> {AiSpend}, owner |-> owner,
   sandbox |-> {[slots |-> slots + 1, inUse |-> Cardinality(SlotsInUse)]}]

\* What claim_work_resources reads in its transaction; amounts are counted in
\* estimates of one dispatch (ESTIMATED_AI_CENTS).
Evidence(rate, owner) ==
  [rate |-> rate, ai |-> {AiSpend}, owner |-> owner,
   sandbox |-> {[slots |-> slots, inUse |-> Cardinality(SlotsInUse)]}]

\* claim_work_resources.  The sandbox lease is one row per item: a new lease takes
\* the row over from the one before, whatever its state.
ClaimResources(t) ==
  /\ step[t] = "cleared"
  /\ lapsed' = {}
  /\ earlier' = earlier \ lapsed
  /\ \E rate \in RateLimits, owner \in OwnerStates :
       IF LimitingLayers(Evidence(rate, owner), Layers, 1, 1) = {}
       THEN /\ ai' = [SweptAi EXCEPT ![t] = "reserved"]
            /\ sandbox' = [u \in Tasks |->
                 IF u = t THEN "claimed"
                 ELSE IF work[u] = work[t] /\ sandbox[u] = "claimed" THEN "over"
                 ELSE SweptSandbox[u]]
            /\ step' = [step EXCEPT ![t] = "admitted"]
            /\ UNCHANGED <<work, verdict, watched>>
       ELSE /\ ai' = SweptAi
            /\ sandbox' = SweptSandbox
            /\ IF t \in Engine
               THEN Withhold(t, "blocked") /\ UNCHANGED watched
               ELSE Ends(t) /\ UNCHANGED work
  /\ UNCHANGED <<ledgerVars, aiSpent, policyVars, pause, sendVars, upsets>>

\* The heartbeat of a task in dispatch: renew_work_claim_resources also extends
\* the claim of an engine's task, renew_work_resources has none to extend.
Heartbeat(t) ==
  /\ step[t] \in {"admitted", "gated", "checked", "authorized", "sent"}
  /\ ai[t] = "reserved" /\ sandbox[t] = "claimed"
  /\ t \in Engine => holder[work[t]] = t
  /\ t \in lapsed \/ (t \in Engine /\ work[t] \in overdue)
  /\ lapsed' = lapsed \ {t}
  /\ overdue' = IF t \in Engine THEN overdue \ {work[t]} ELSE overdue
  /\ UNCHANGED <<state, holder, cooling, approval, taskVars, ai, sandbox, aiSpent, earlier,
                 policyVars, pauseVars, sendVars, upsets>>

\* expires_at passes; governance_status sweeps what has lapsed.
ResourcesLapse(t) ==
  /\ ai[t] = "reserved" \/ sandbox[t] = "claimed"
  /\ t \notin lapsed
  /\ lapsed' = lapsed \cup {t}
  /\ UNCHANGED <<ledgerVars, taskVars, ai, sandbox, aiSpent, earlier, policyVars, pauseVars,
                 sendVars, upsets>>

SweepResources ==
  /\ lapsed # {}
  /\ ai' = SweptAi
  /\ sandbox' = SweptSandbox
  /\ lapsed' = {}
  /\ earlier' = earlier \ lapsed
  /\ UNCHANGED <<ledgerVars, taskVars, aiSpent, policyVars, pauseVars, sendVars, upsets>>

\* Midnight passes: the sums of the new day start with none of the old rows.
DayPasses ==
  /\ upsets < MaxUpsets
  /\ upsets' = upsets + 1
  /\ aiSpent' = 0
  /\ earlier' = {t \in Tasks : ai[t] = "reserved"}
  /\ UNCHANGED <<ledgerVars, taskVars, ai, sandbox, lapsed, policyVars, pauseVars, sendVars>>

SaveResourcePolicy(n, limit) ==
  /\ slots' = n /\ aiLimit' = limit
  /\ UNCHANGED <<ledgerVars, taskVars, leaseVars, pauseVars, sendVars, upsets>>

-----------------------------------------------------------------------------
(* dispatch_with_approval *)

\* A call of dispatch_approved finds its item waiting for the approval, whatever
\* the approval's state; anything else is refused before it changes a row.
CallDispatchApproved(t, i) ==
  /\ Fresh(t, Calls)
  /\ state[i] = "awaiting"
  /\ step' = [step EXCEPT ![t] = "cleared"]
  /\ work' = [work EXCEPT ![t] = i]
  /\ watched' = [watched EXCEPT ![t] = Paused]
  /\ UNCHANGED <<ledgerVars, verdict, resourceVars, pause, sendVars, upsets>>

\* Any refusal: an unreachable or disabled product, a safety contract that
\* changed, a pause in force, an approval that is not granted any more or that
\* the claim finds ended.  No request was sent.
DispatchRefused(t) ==
  /\ step[t] \in {"admitted", "gated", "checked"}
  /\ step' = [step EXCEPT ![t] = "answered"]
  /\ verdict' = [verdict EXCEPT ![t] = "refused"]
  /\ UNCHANGED <<ledgerVars, work, resourceVars, pauseVars, sendVars, upsets>>

\* A fault: the dispatch leaves pauses to whoever calls it.
PassUnchecked(t) ==
  /\ step[t] = "admitted"
  /\ step' = [step EXCEPT ![t] = "gated"]
  /\ UNCHANGED <<ledgerVars, work, verdict, resourceVars, pauseVars, sendVars, upsets>>

\* ensure_dispatch_not_paused, which is told the product and the repository but
\* never the mandate.
PassPauseCheck(t) ==
  /\ step[t] = "admitted"
  /\ PausedFor(work[t]) \subseteq MandateScopes
  /\ step' = [step EXCEPT ![t] = "gated"]
  /\ UNCHANGED <<ledgerVars, work, verdict, resourceVars, pauseVars, sendVars, upsets>>

\* The action requires an approval and the engine has none: create_or_get_approval
\* records one, or finds the one that is still live.
RequireApproval(t) ==
  /\ step[t] = "gated" /\ t \in Engine
  /\ "gated" \in Contracts[work[t]]
  /\ approval' = [approval EXCEPT ![work[t]] =
                    IF @ \in {"pending", "granted", "consuming"} THEN @ ELSE "pending"]
  /\ step' = [step EXCEPT ![t] = "answered"]
  /\ verdict' = [verdict EXCEPT ![t] = "awaiting"]
  /\ UNCHANGED <<state, holder, overdue, cooling, work, resourceVars, pauseVars, sendVars, upsets>>

\* The action is automatic: the engine's request is sent.
SendAutomatic(t) ==
  /\ step[t] = "gated" /\ t \in Engine
  /\ "automatic" \in Contracts[work[t]]
  /\ step' = [step EXCEPT ![t] = "sent"]
  /\ sent' = sent \cup {t}
  /\ watched' = [watched EXCEPT ![t] = {}]
  /\ UNCHANGED <<ledgerVars, work, verdict, resourceVars, pause, shared, upsets>>

\* A call finds its approval granted; another one may stand here with it.
CheckApproval(t) ==
  /\ step[t] = "gated" /\ t \in Calls
  /\ "gated" \in Contracts[work[t]]
  /\ approval[work[t]] = "granted"
  /\ step' = [step EXCEPT ![t] = "checked"]
  /\ shared' = IF \E u \in Calls : step[u] = "checked" /\ work[u] = work[t]
               THEN shared \cup {work[t]} ELSE shared
  /\ UNCHANGED <<ledgerVars, work, verdict, resourceVars, pauseVars, sent, upsets>>

\* A fault: a call's claim is all the check there is.
ClaimUnchecked(t) ==
  /\ step[t] \in {"gated", "checked"} /\ t \in Calls
  /\ approval[work[t]] \in {"granted", "consuming"}
  /\ approval' = [approval EXCEPT ![work[t]] = "consuming"]
  /\ step' = [step EXCEPT ![t] = "authorized"]
  /\ UNCHANGED <<state, holder, overdue, cooling, work, verdict, resourceVars, pauseVars,
                 sendVars, upsets>>

\* claim_approval: a granted approval starts being consumed.  The row that is
\* handed back is all the caller looks at, and one that another call started to
\* consume reads the same as one's own.
ClaimApproval(t) ==
  /\ step[t] = "checked"
  /\ approval[work[t]] \in {"granted", "consuming"}
  /\ approval' = [approval EXCEPT ![work[t]] = "consuming"]
  /\ step' = [step EXCEPT ![t] = "authorized"]
  /\ UNCHANGED <<state, holder, overdue, cooling, work, verdict, resourceVars, pauseVars,
                 sendVars, upsets>>

SendApproved(t) ==
  /\ step[t] = "authorized"
  /\ step' = [step EXCEPT ![t] = "sent"]
  /\ sent' = sent \cup {t}
  /\ watched' = [watched EXCEPT ![t] = {}]
  /\ UNCHANGED <<ledgerVars, work, verdict, resourceVars, pause, shared, upsets>>

\* The answer, or the end of waiting for one: an accepted request shipped a pull
\* request, went on under a run of the product's own, or is complete; one that was
\* rejected or timed out failed.  An approval that was spent is recorded consumed;
\* where that or the event cannot be stored the outcome is uncertain.
Answer(t) ==
  /\ step[t] = "sent"
  /\ step' = [step EXCEPT ![t] = "answered"]
  /\ \E v \in {"shipped", "completed", "rejected", "uncertain"} :
       /\ verdict' = [verdict EXCEPT ![t] = v]
       /\ \/ /\ t \in Calls
             /\ approval' = [approval EXCEPT ![work[t]] = IF @ = "consuming" THEN "consumed" ELSE @]
          \/ /\ t \in Engine \/ v = "uncertain"
             /\ UNCHANGED approval
  /\ UNCHANGED <<state, holder, overdue, cooling, work, resourceVars, pauseVars, sendVars, upsets>>

-----------------------------------------------------------------------------
(* Settlement *)

\* The engine charges whatever was answered, dispatch_approved only what was
\* accepted.
Charged(t) ==
  \/ verdict[t] \in {"shipped", "completed"}
  \/ verdict[t] = "rejected" /\ t \in Engine

\* A reservation is charged what the answer reports, or its estimate, on the day
\* it was made; one that is not reserved any more is left alone.
SettleAi(t) ==
  IF ai[t] = "reserved" /\ Charged(t)
  THEN /\ ai' = [ai EXCEPT ![t] = "committed"]
       /\ \E cost \in Costs \cup {1} :
            aiSpent' = IF t \in earlier THEN aiSpent ELSE aiSpent + cost
  ELSE /\ ai' = [ai EXCEPT ![t] = IF @ = "reserved" THEN "over" ELSE @]
       /\ UNCHANGED aiSpent

\* settle_work_resources; the engine ignores its error, dispatch_approved logs it.
SettleResources(t) ==
  /\ step[t] = "answered"
  /\ IF t \in Calls /\ verdict[t] = "refused"
     THEN Ends(t)
     ELSE step' = [step EXCEPT ![t] = "settling"] /\ UNCHANGED <<verdict, watched>>
  /\ \/ /\ SettleAi(t)
        /\ sandbox' = [sandbox EXCEPT ![t] = IF @ = "claimed" THEN "over" ELSE @]
        /\ lapsed' = lapsed \ {t} /\ earlier' = earlier \ {t}
     \/ UNCHANGED leaseVars
  /\ UNCHANGED <<ledgerVars, work, policyVars, pause, sendVars, upsets>>

\* A fault: a verdict is written as it is.
LifecycleVerbatim(v) == v

\* A fault: a dispatch whose outcome is uncertain may be tried again.
LifecycleRetryable(v) ==
  IF v = "uncertain" THEN "blocked" ELSE IF v \in {"refused", "rejected"} THEN "failed" ELSE v

\* The lifecycle a verdict is written as.
LifecycleOf(v) == IF v \in {"refused", "rejected", "uncertain"} THEN "failed" ELSE v

\* A fault: a settlement is written wherever the item is being dispatched or has
\* failed, whoever claimed it.
SettleUnclaimed(t) ==
  /\ step[t] = "settling"
  /\ Ends(t)
  /\ LET i == work[t]
     IN  /\ state' = [state EXCEPT ![i] = LifecycleOf(verdict[t])]
         /\ holder' = [holder EXCEPT ![i] = NoTask]
         /\ overdue' = overdue \ {i}
         /\ cooling' = IF verdict[t] = "blocked" THEN cooling \cup {i} ELSE cooling
  /\ UNCHANGED <<approval, work, resourceVars, pause, sendVars, upsets>>

\* settle_work_claim, for the claim that still holds the item, and
\* settle_work_approval, for the approval it still awaits.  Either may fail, or
\* find that the item has moved on: the task ends all the same.
SettleItem(t) ==
  /\ step[t] = "settling"
  /\ Ends(t)
  /\ LET i == work[t]
     IN  \/ /\ IF t \in Engine THEN holder[i] = t ELSE state[i] = "awaiting"
            /\ state' = [state EXCEPT ![i] = LifecycleOf(verdict[t])]
            /\ holder' = [holder EXCEPT ![i] = NoTask]
            /\ overdue' = overdue \ {i}
            /\ cooling' = IF verdict[t] = "blocked" THEN cooling \cup {i} ELSE cooling
         \/ UNCHANGED <<state, holder, overdue, cooling>>
  /\ UNCHANGED <<approval, work, resourceVars, pause, sendVars, upsets>>

-----------------------------------------------------------------------------
(* The operator and the pause authority *)

GrantApproval(i) ==
  /\ approval[i] = "pending"
  /\ approval' = [approval EXCEPT ![i] = "granted"]
  /\ UNCHANGED <<state, holder, overdue, cooling, taskVars, resourceVars, pauseVars,
                 sendVars, upsets>>

\* Denied, revoked or expired: the item that awaits it is not told.
CloseApproval(i) ==
  /\ approval[i] \in {"pending", "granted"}
  /\ approval' = [approval EXCEPT ![i] = "closed"]
  /\ UNCHANGED <<state, holder, overdue, cooling, taskVars, resourceVars, pauseVars,
                 sendVars, upsets>>

\* blocks_new_work: a target blocks from the transaction that stores its record.
PauseTarget(x) ==
  /\ pause[x] = "running"
  /\ pause' = [pause EXCEPT ![x] = "paused"]
  /\ UNCHANGED <<ledgerVars, taskVars, resourceVars, watched, sendVars, upsets>>

ResumeTarget(x) ==
  /\ pause[x] = "paused"
  /\ pause' = [pause EXCEPT ![x] = "running"]
  /\ watched' = [t \in Tasks |-> watched[t] \ {x}]
  /\ UNCHANGED <<ledgerVars, taskVars, resourceVars, sendVars, upsets>>

\* HiveCore stops and starts again: rows stay, tasks and handlers are gone.
HiveCoreRestarts ==
  /\ upsets < MaxUpsets
  /\ upsets' = upsets + 1
  /\ step' = [t \in Tasks |-> IF Running(t) THEN "lost" ELSE step[t]]
  /\ verdict' = [t \in Tasks |-> "none"]
  /\ watched' = [t \in Tasks |-> {}]
  /\ UNCHANGED <<ledgerVars, work, resourceVars, pause, sendVars>>

-----------------------------------------------------------------------------
TaskStep(t) ==
  \/ CheckAuthority(t) \/ ClaimResources(t)
  \/ DispatchRefused(t) \/ PassPauseCheck(t)
  \/ RequireApproval(t) \/ SendAutomatic(t)
  \/ CheckApproval(t) \/ ClaimApproval(t) \/ SendApproved(t) \/ Answer(t)
  \/ SettleResources(t) \/ SettleItem(t)

EngineCycle == RecoverClaims \/ (\E t \in Engine, i \in Items : ClaimNextWork(t, i))

Ledger ==
  \E i \in Items :
    \/ ProposeWork(i) \/ LeaseLapses(i) \/ CooledDown(i) \/ OutcomeRecorded(i)
    \/ GrantApproval(i) \/ CloseApproval(i)
    \/ \E t \in Calls : CallDispatchApproved(t, i)

Resources ==
  \/ \E t \in Tasks : Heartbeat(t) \/ ResourcesLapse(t)
  \/ SweepResources \/ DayPasses
  \/ \E n \in SlotPolicies, limit \in AiPolicies : SaveResourcePolicy(n, limit)

Pauses == \E x \in Scopes : PauseTarget(x) \/ ResumeTarget(x)

Next ==
  \/ EngineCycle \/ Ledger \/ Resources \/ Pauses
  \/ \E t \in Tasks : TaskStep(t)
  \/ HiveCoreRestarts

Spec == Init /\ [][Next]_vars

(***************************************************************************)
(* A task that runs goes on: no exchange waits for ever, for every request *)
(* has a timeout.  The background loop cycles every thirty seconds, and    *)
(* time passes.  Nothing obliges an operator, a caller or the network.     *)
(***************************************************************************)
Fairness ==
  /\ \A t \in Tasks : WF_vars(TaskStep(t))
  /\ \A i \in Items : WF_vars(LeaseLapses(i))
  /\ WF_vars(EngineCycle)

FairSpec == Spec /\ Fairness

-----------------------------------------------------------------------------
(* Properties *)

(***************************************************************************)
(* One piece of work is requested of its product once, whichever cycles,   *)
(* approved calls, lapsed leases, retries and restarts it sees, with one   *)
(* exception: calls of dispatch_approved that stood between the check and  *)
(* the claim of its approval together may each send it.                    *)
(***************************************************************************)
WorkIsSentOnce ==
  \A t, u \in sent :
    work[t] = work[u] => t = u \/ ({t, u} \subseteq Calls /\ work[t] \in shared)

(***************************************************************************)
(* An item whose request may have been sent is never open to another       *)
(* claim: not even when the task that sent it was lost before it settled.  *)
(***************************************************************************)
SentWorkIsNotOpen ==
  \A t \in sent : state[work[t]] \notin {"absent", "discovered", "blocked"}

(***************************************************************************)
(* The AI budget is charged for requests only: a reservation is committed  *)
(* by a task that sent one, and a task that sends nothing leaves no charge.*)
(***************************************************************************)
ChargesAreForRequests == \A t \in Tasks : ai[t] = "committed" => t \in sent

(***************************************************************************)
(* What an item came to is final: a settlement that arrives late, after    *)
(* its claim expired or its approval was spent, changes nothing, and an    *)
(* item that was handed over only ever completes.                          *)
(***************************************************************************)
OutcomesAreFinal ==
  [][\A i \in Items :
       /\ state[i] \in Final => state'[i] = state[i]
       /\ state[i] = "shipped" => state'[i] \in {"shipped", "completed"}]_vars

(***************************************************************************)
(* A task that began under a pause sends nothing of its scope until the    *)
(* target resumes.  Engines honour every target; an approved call honours  *)
(* all but those that name a mandate.                                      *)
(***************************************************************************)
PausedWorkIsNotSent ==
  [][\A t \in sent' \ sent : \A x \in watched[t] :
       work[t] \in Covered[x] => t \in Calls /\ x \in MandateScopes]_vars

(***************************************************************************)
(* What the acceptance criteria say: a pause at suite, product, mandate or *)
(* repository scope stops new matching dispatches, approved ones too.      *)
(***************************************************************************)
PauseStopsMatchingDispatches ==
  [][\A t \in sent' \ sent : \A x \in watched[t] : work[t] \notin Covered[x]]_vars

(***************************************************************************)
(* Sandbox slots are a capacity pool: a lease counts once, does not count  *)
(* again once it is released, expired or replaced, and is granted only     *)
(* within the slots of the policy in force.                                *)
(***************************************************************************)
Slotted == {t \in Tasks : sandbox[t] = "claimed"}
Unslotted == {t \in Tasks : sandbox[t] = "over"}
Pool == INSTANCE CapacityPool WITH
          Slots <- Tasks, held <- Slotted, spent <- Unslotted, limit <- slots
SandboxSlotsAreAPool == Pool!PoolSpec

(***************************************************************************)
(* A claim ends: settled by its task, or failed once its lease has passed, *)
(* even if HiveCore restarted in between.                                  *)
(***************************************************************************)
ClaimsEnd == \A i \in Items : state[i] = "dispatching" ~> state[i] # "dispatching"
=============================================================================
