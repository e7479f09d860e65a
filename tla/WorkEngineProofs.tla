-------------------------- MODULE WorkEngineProofs --------------------------
(***************************************************************************)
(* Theorems about the work engine, for any number of items, cycles,        *)
(* approved calls, pauses and restarts.                                    *)
(*                                                                         *)
(* That work is sent at most once is not inductive: a claim that expired   *)
(* leaves its task running, and the item goes on without it.  The          *)
(* invariant says who may still send an item's request.  While the item is *)
(* open nobody may; while it is being dispatched only the task it names;   *)
(* from then on an engine's task only as long as the item never had an     *)
(* approval, and a call only once it found one granted.  Calls that find   *)
(* the same grant may all send: then the item is one of the shared.        *)
(***************************************************************************)
EXTENDS WorkEngine, FiniteSetTheorems, TLAPS

Open == {"absent", "discovered", "blocked"}
Past == {"awaiting", "shipped", "completed", "failed"}
Early == {"claimed", "cleared", "admitted", "gated"}
Answers == {"shipped", "completed", "rejected", "uncertain"}

\* What a task's step says of its verdict, its request and its resources.
TasksAreInStep ==
  \A t \in Tasks :
    /\ IF step[t] = "idle" THEN work[t] = NoItem ELSE work[t] \in Items
    /\ step[t] = "claimed" => t \in Engine
    /\ step[t] \in {"checked", "authorized"} => t \in Calls
    /\ step[t] \notin {"answered", "settling"} => verdict[t] = "none"
    /\ step[t] \in {"answered", "settling"} => verdict[t] # "none"
    /\ step[t] = "answered" => verdict[t] # "blocked"
    /\ t \in Calls => verdict[t] \notin {"blocked", "awaiting"}
    /\ t \in Calls /\ step[t] = "settling" => verdict[t] \in Answers
    /\ verdict[t] \in Answers => t \in sent
    /\ t \in sent => /\ step[t] \notin {"idle", "checked", "authorized"} \cup Early
                     /\ verdict[t] \in Answers \cup {"none"}
    /\ step[t] = "sent" => t \in sent
    /\ step[t] \in {"idle", "claimed", "cleared"} => ai[t] = "none" /\ sandbox[t] = "none"
    /\ t \in earlier => ai[t] = "reserved"

\* The pauses a task saw from its beginning are in force; past the check of its
\* authority an engine's task saw none that covers its item, and past the check
\* of a dispatch a task saw none but those that name a mandate.
PausesAreSeen ==
  \A t \in Tasks :
    /\ watched[t] \subseteq Paused
    /\ \A x \in watched[t] : work[t] \in Covered[x] =>
         /\ step[t] \in {"cleared", "admitted", "gated"} => t \in Calls
         /\ step[t] \in {"gated", "checked", "authorized"} => x \in MandateScopes

\* An item that is being dispatched names its task, and only such an item.
ClaimsAreHeld ==
  /\ \A i \in Items :
       /\ state[i] = "dispatching" <=> holder[i] # NoTask
       /\ holder[i] # NoTask => work[holder[i]] = i
  /\ \A i \in overdue : state[i] = "dispatching"

\* A task that runs, or that sent its request, concerns its item.
Concerns(t, i) == work[t] = i /\ (Running(t) \/ t \in sent)

\* A task that may yet send its item's request, or did.  One that is about to
\* hold the item back counts: it will open the item again.
Contends(t, i) ==
  /\ work[t] = i
  /\ \/ t \in sent
     \/ t \in Engine /\ (step[t] \in Early \/ verdict[t] = "blocked")
     \/ step[t] \in {"checked", "authorized"}

\* A call that claimed its item's approval.
Spends(t, i) == work[t] = i /\ t \in Calls /\ (t \in sent \/ step[t] = "authorized")

\* Whom an item has left behind never finds it open again.
ConcernedTasksHold ==
  \A t \in Tasks, i \in Items :
    Concerns(t, i) => state[i] \in Past \/ (state[i] = "dispatching" /\ holder[i] = t)

\* There is one of them, or they are calls that found the same grant.
OneContender ==
  \A t, u \in Tasks, i \in Items :
    Contends(t, i) /\ Contends(u, i) => t = u \/ ({t, u} \subseteq Calls /\ i \in shared)

\* An item's first approval ends its engine tasks' contention; a call contends
\* for an approval that was granted, and sends with one it consumes.
ApprovalsDecide ==
  /\ \A i \in Items : state[i] \in Open => approval[i] = "none"
  /\ \A t \in Engine, i \in Items : Contends(t, i) => approval[i] = "none"
  /\ \A t \in Calls, i \in Items :
       /\ Contends(t, i) => approval[i] # "none"
       /\ Spends(t, i) => approval[i] \in {"consuming", "consumed"}

LedgerInv == ClaimsAreHeld /\ ConcernedTasksHold /\ OneContender /\ ApprovalsDecide

IInv ==
  /\ TypeOK
  /\ TasksAreInStep
  /\ PausesAreSeen
  /\ LedgerInv
  /\ ChargesAreForRequests

-----------------------------------------------------------------------------
(* Types and the facts about single tasks *)

\* Every initial state satisfies the invariant.
LEMMA InitIInv == Init => IInv
<1> SUFFICES ASSUME Init  PROVE  IInv
  OBVIOUS
<1>1. TypeOK
  BY EngineConstants DEF Init, TypeOK, States, Steps, Verdicts
<1>2. TasksAreInStep /\ PausesAreSeen /\ ChargesAreForRequests
  BY DEF Init, TasksAreInStep, PausesAreSeen, ChargesAreForRequests, Answers, Early
<1>3. LedgerInv
  BY EngineConstants DEF Init, LedgerInv, ClaimsAreHeld, ConcernedTasksHold, OneContender, ApprovalsDecide,
         Concerns, Contends, Spends, Running, Early, Tasks
<1> QED BY <1>1, <1>2, <1>3 DEF IInv

\* A fresh task has not started.
LEMMA FreshStarts ==
  ASSUME NEW t \in Tasks, NEW kind, Fresh(t, kind)
  PROVE  t \in kind /\ step[t] = "idle"
BY DEF Fresh, Started

\* Expired claims become failures and name no task.
LEMMA RecoveredTypes ==
  ASSUME TypeOK
  PROVE  /\ Recovered \in [Items -> States]
         /\ HoldersLeft \in [Items -> Engine \cup {NoTask}]
         /\ \A i \in Items : Claimable(i) => state[i] \in Open
BY DEF TypeOK, Recovered, HoldersLeft, Claimable, Open, States

\* Lapsed reservations and leases expire, and nothing else about them changes.
LEMMA SweptTypes ==
  ASSUME TypeOK
  PROVE  /\ SweptAi \in [Tasks -> {"none", "reserved", "committed", "over"}]
         /\ SweptSandbox \in [Tasks -> {"none", "claimed", "over"}]
         /\ \A t \in Tasks : SweptAi[t] = ai[t] \/ (ai[t] = "reserved" /\ SweptAi[t] = "over")
         /\ \A t \in Tasks \ lapsed : SweptAi[t] = ai[t]
         /\ \A t \in Tasks :
              SweptSandbox[t] = sandbox[t] \/ (sandbox[t] = "claimed" /\ SweptSandbox[t] = "over")
BY DEF TypeOK, SweptAi, SweptSandbox

\* A step of a task preserves the types.
LEMMA TaskTypes ==
  ASSUME TypeOK, TasksAreInStep, NEW t \in Tasks, TaskStep(t)
  PROVE  TypeOK'
<1> USE DEF TypeOK, ledgerVars, resourceVars, leaseVars, policyVars, sendVars, pauseVars, Steps, Verdicts
<1>1. CASE CheckAuthority(t)
  BY <1>1 DEF CheckAuthority, Withhold
<1>2. CASE ClaimResources(t)
  BY <1>2, SweptTypes DEF ClaimResources, Withhold, Ends
<1>3. CASE DispatchRefused(t) \/ PassPauseCheck(t) \/ SendAutomatic(t) \/ SendApproved(t)
  BY <1>3 DEF DispatchRefused, PassPauseCheck, SendAutomatic, SendApproved
<1>4. CASE RequireApproval(t) \/ CheckApproval(t) \/ ClaimApproval(t) \/ Answer(t)
  <2>1. CASE CheckApproval(t)
    BY <2>1 DEF CheckApproval, TasksAreInStep
  <2>2. CASE RequireApproval(t) \/ ClaimApproval(t) \/ Answer(t)
    BY <2>2 DEF RequireApproval, ClaimApproval, Answer
  <2> QED BY <1>4, <2>1, <2>2
<1>5. CASE SettleResources(t)
  BY <1>5, EngineConstants DEF SettleResources, SettleAi, Ends
<1>6. CASE SettleItem(t)
  <2>1. LifecycleOf(verdict[t]) \in States
    BY <1>6 DEF SettleItem, TasksAreInStep, LifecycleOf, States
  <2>2. work[t] \in Items
    BY <1>6 DEF SettleItem, TasksAreInStep
  <2> QED BY <1>6, <2>1, <2>2 DEF SettleItem, Ends
<1> QED BY <1>1, <1>2, <1>3, <1>4, <1>5, <1>6 DEF TaskStep

\* So does every other step.
LEMMA NextTypes ==
  ASSUME TypeOK, TasksAreInStep, [Next]_vars
  PROVE  TypeOK'
<1> USE DEF TypeOK, ledgerVars, taskVars, resourceVars, leaseVars, policyVars, sendVars, pauseVars, Steps, States
<1>1. CASE EngineCycle
  BY <1>1, RecoveredTypes, FreshStarts DEF EngineCycle, RecoverClaims, ClaimNextWork, Paused
<1>2. CASE Ledger
  BY <1>2, FreshStarts
     DEF Ledger, ProposeWork, LeaseLapses, CooledDown, OutcomeRecorded, GrantApproval,
         CloseApproval, CallDispatchApproved, Paused
<1>3. CASE Resources
  BY <1>3, SweptTypes, EngineConstants DEF Resources, Heartbeat, ResourcesLapse, SweepResources, DayPasses,
                          SaveResourcePolicy
<1>4. CASE Pauses \/ HiveCoreRestarts \/ UNCHANGED vars
  BY <1>4, EngineConstants DEF Pauses, PauseTarget, ResumeTarget, HiveCoreRestarts, vars, Verdicts
<1>5. CASE \E t \in Tasks : TaskStep(t)
  BY <1>5, TaskTypes
<1> QED BY <1>1, <1>2, <1>3, <1>4, <1>5 DEF Next

\* A task's own steps keep its step, verdict, request and resources together.
LEMMA TasksStayInStep ==
  ASSUME TypeOK, TasksAreInStep, ChargesAreForRequests, NEW t \in Tasks, TaskStep(t)
  PROVE  TasksAreInStep' /\ ChargesAreForRequests'
<1> USE DEF TypeOK, TasksAreInStep, ChargesAreForRequests, ledgerVars, resourceVars, leaseVars, policyVars, sendVars, pauseVars,
            Answers, Early, Tasks
<1>0. Engine \cap Calls = {}
  BY EngineConstants
<1>1. CASE CheckAuthority(t)
  BY <1>0, <1>1 DEF CheckAuthority, Withhold
<1>2. CASE ClaimResources(t)
  BY <1>0, <1>2, SweptTypes DEF ClaimResources, Withhold, Ends
<1>3. CASE DispatchRefused(t) \/ PassPauseCheck(t)
  BY <1>0, <1>3 DEF DispatchRefused, PassPauseCheck
<1>4. CASE SendAutomatic(t) \/ SendApproved(t)
  BY <1>0, <1>4 DEF SendAutomatic, SendApproved
<1>5. CASE RequireApproval(t) \/ CheckApproval(t) \/ ClaimApproval(t)
  BY <1>0, <1>5 DEF RequireApproval, CheckApproval, ClaimApproval
<1>6. CASE Answer(t)
  <2>1. PICK v \in Answers :
           verdict' = [verdict EXCEPT ![t] = v] /\ step' = [step EXCEPT ![t] = "answered"]
    BY <1>6 DEF Answer
  <2>2. step[t] = "sent" /\ UNCHANGED <<work, ai, sandbox, earlier, sent>>
    BY <1>6 DEF Answer
  <2> QED BY <1>0, <2>1, <2>2
<1>7. CASE SettleResources(t)
  <2>1. /\ step[t] = "answered"
        /\ \/ /\ t \in Calls /\ verdict[t] = "refused"
              /\ step' = [step EXCEPT ![t] = "done"]
              /\ verdict' = [verdict EXCEPT ![t] = "none"]
           \/ /\ ~ (t \in Calls /\ verdict[t] = "refused")
              /\ step' = [step EXCEPT ![t] = "settling"]
              /\ verdict' = verdict
        /\ UNCHANGED <<work, sent>>
    BY <1>7 DEF SettleResources, Ends
  <2>2. /\ \A u \in Tasks : u # t => ai'[u] = ai[u] /\ sandbox'[u] = sandbox[u]
        /\ \A u \in earlier' : u \in earlier /\ ai'[u] = ai[u]
    BY <1>7 DEF SettleResources, SettleAi
  <2>3. ai'[t] = "committed" => ai[t] = "committed" \/ t \in sent
    BY <1>7 DEF SettleResources, SettleAi, Charged
  <2>4. TasksAreInStep'
    BY <1>0, <2>1, <2>2 DEF Verdicts
  <2>5. ChargesAreForRequests'
    BY <2>1, <2>2, <2>3
  <2> QED BY <2>4, <2>5
<1>8. CASE SettleItem(t)
  BY <1>0, <1>8 DEF SettleItem, Ends
<1> QED BY <1>1, <1>2, <1>3, <1>4, <1>5, <1>6, <1>7, <1>8 DEF TaskStep

\* So does every other step.
LEMMA NextInStep ==
  ASSUME TypeOK, TasksAreInStep, ChargesAreForRequests, [Next]_vars
  PROVE  TasksAreInStep' /\ ChargesAreForRequests'
<1> USE DEF TypeOK, TasksAreInStep, ChargesAreForRequests, ledgerVars, taskVars, resourceVars,
            leaseVars, policyVars, sendVars, pauseVars, Answers, Early
<1>0. Engine \cap Calls = {}
  BY EngineConstants
<1>1. CASE EngineCycle
  BY <1>0, <1>1, FreshStarts DEF EngineCycle, RecoverClaims, ClaimNextWork, Tasks
<1>2. CASE Ledger
  BY <1>0, <1>2, FreshStarts
     DEF Ledger, ProposeWork, LeaseLapses, CooledDown, OutcomeRecorded, GrantApproval,
         CloseApproval, CallDispatchApproved, Tasks
<1>3. CASE Resources
  BY <1>3, SweptTypes DEF Resources, Heartbeat, ResourcesLapse, SweepResources, DayPasses,
                          SaveResourcePolicy
<1>4. CASE Pauses \/ UNCHANGED vars
  BY <1>4 DEF Pauses, PauseTarget, ResumeTarget, vars
<1>5. CASE HiveCoreRestarts
  BY <1>5 DEF HiveCoreRestarts, Running
<1>6. CASE \E t \in Tasks : TaskStep(t)
  BY <1>6, TasksStayInStep
<1> QED BY <1>1, <1>2, <1>3, <1>4, <1>5, <1>6 DEF Next

-----------------------------------------------------------------------------
(* Pauses *)

\* Pauses are read before a task goes on, and a pause that began before the
\* task and still lasts is then seen.
LEMMA PausesStaySeen ==
  ASSUME TypeOK, TasksAreInStep, PausesAreSeen, [Next]_vars
  PROVE  PausesAreSeen'
<1> USE DEF TypeOK, PausesAreSeen, Paused, ledgerVars, taskVars, resourceVars, leaseVars, policyVars, sendVars, pauseVars
<1>0. Engine \cap Calls = {}
  BY EngineConstants
<1>1. ASSUME NEW t \in Tasks, TaskStep(t)  PROVE  PausesAreSeen'
  <2>1. CASE CheckAuthority(t)
    BY <1>0, <2>1 DEF CheckAuthority, Withhold, PausedFor
  <2>2. CASE ClaimResources(t)
    BY <2>2 DEF ClaimResources, Withhold, Ends
  <2>3. CASE PassPauseCheck(t)
    BY <2>3 DEF PassPauseCheck, PausedFor
  <2>4. CASE CheckApproval(t) \/ ClaimApproval(t)
    BY <2>4 DEF CheckApproval, ClaimApproval
  <2>5. CASE DispatchRefused(t) \/ SendAutomatic(t) \/ SendApproved(t) \/ RequireApproval(t)
             \/ Answer(t)
    BY <2>5 DEF DispatchRefused, SendAutomatic, SendApproved, RequireApproval, Answer
  <2>6. CASE SettleResources(t) \/ SettleItem(t)
    BY <2>6 DEF SettleResources, SettleItem, Ends
  <2> QED BY <1>1, <2>1, <2>2, <2>3, <2>4, <2>5, <2>6 DEF TaskStep
<1>2. CASE EngineCycle
  BY <1>2, FreshStarts DEF EngineCycle, RecoverClaims, ClaimNextWork, Tasks
<1>3. CASE Ledger
  BY <1>3, FreshStarts
     DEF Ledger, ProposeWork, LeaseLapses, CooledDown, OutcomeRecorded, GrantApproval,
         CloseApproval, CallDispatchApproved, Tasks
<1>4. CASE Resources
  BY <1>4 DEF Resources, Heartbeat, ResourcesLapse, SweepResources, DayPasses, SaveResourcePolicy
<1>5. CASE Pauses
  BY <1>5 DEF Pauses, PauseTarget, ResumeTarget
<1>6. CASE HiveCoreRestarts \/ UNCHANGED vars
  BY <1>6 DEF HiveCoreRestarts, vars
<1> QED BY <1>1, <1>2, <1>3, <1>4, <1>5, <1>6 DEF Next

-----------------------------------------------------------------------------
(* Who may send an item's request *)

\* An approval's life goes on without going back.
ApprovalAges(i) ==
  \/ approval'[i] = approval[i]
  \/ /\ approval[i] # "none" /\ approval'[i] # "none"
     /\ approval[i] \in {"consuming", "consumed"} => approval'[i] \in {"consuming", "consumed"}

\* Steps that open, claim and settle nothing, and bring no new task to an item.
LEMMA Frame ==
  ASSUME TypeOK, LedgerInv, UNCHANGED holder,
         \A i \in Items :
           \/ state'[i] = state[i]
           \/ state[i] \in Open /\ state'[i] \in Open
           \/ state[i] \in Past /\ state'[i] \in Past,
         \A i \in overdue' : state'[i] = "dispatching",
         \A i \in Items : ApprovalAges(i),
         work' = work, shared \subseteq shared',
         \A t \in Tasks, i \in Items :
           /\ Concerns(t, i)' => Concerns(t, i)
           /\ Contends(t, i)' => Contends(t, i)
           /\ Spends(t, i)' => Spends(t, i)
  PROVE  LedgerInv'
<1> USE DEF LedgerInv, Open, Past
<1>1. ClaimsAreHeld'
  BY DEF ClaimsAreHeld
<1>2. ConcernedTasksHold'
  BY DEF ConcernedTasksHold
<1>3. OneContender'
  BY DEF OneContender
<1>4. ApprovalsDecide'
  BY DEF ApprovalsDecide, ApprovalAges, Tasks
<1> QED BY <1>1, <1>2, <1>3, <1>4

\* A fresh task concerns no item.
LEMMA FreshIsFree ==
  ASSUME TasksAreInStep, NEW t \in Tasks, step[t] = "idle", NEW i \in Items
  PROVE  ~ Concerns(t, i) /\ ~ Contends(t, i) /\ ~ Spends(t, i)
BY DEF TasksAreInStep, Concerns, Contends, Spends, Running, Early, Answers

\* A call that spends an approval contends for its item.
LEMMA SpendersContend ==
  ASSUME NEW t, NEW i
  PROVE  /\ Spends(t, i) => Contends(t, i)
         /\ Spends(t, i)' => Contends(t, i)'
BY DEF Spends, Contends

\* A cycle claims an item nobody contends for.
LEMMA ClaimKeeps ==
  ASSUME IInv, NEW t \in Engine, NEW i \in Items, ClaimNextWork(t, i)
  PROVE  LedgerInv'
<1> USE DEF IInv, TypeOK, LedgerInv, Open, Past
<1>1. /\ state[i] \in Open /\ t \in Tasks /\ step[t] = "idle" /\ holder[i] = NoTask
      /\ t # NoTask
  BY RecoveredTypes, FreshStarts, EngineConstants DEF ClaimNextWork, ClaimsAreHeld, Tasks
<1>2. /\ state'[i] = "dispatching" /\ holder'[i] = t
      /\ \A j \in Items \ {i} :
           \/ state'[j] = state[j] /\ holder'[j] = holder[j]
           \/ state[j] = "dispatching" /\ state'[j] = "failed" /\ holder'[j] = NoTask
      /\ UNCHANGED approval
  BY <1>1 DEF ClaimNextWork, Recovered, HoldersLeft, ClaimsAreHeld
<1>3. /\ work'[t] = i /\ step'[t] = "claimed" /\ UNCHANGED <<sent, shared, verdict>> /\ overdue' = {}
      /\ \A u \in Tasks \ {t} : work'[u] = work[u] /\ step'[u] = step[u]
  BY <1>1 DEF ClaimNextWork, sendVars
<1>4. \A u \in Tasks, j \in Items : ~ Concerns(t, j) /\ ~ Contends(t, j)
                                    /\ ~ Concerns(u, i) /\ ~ Contends(u, i)
  <2>1. \A u \in Tasks : Contends(u, i) => Concerns(u, i)
    BY DEF Contends, Concerns, Running, Early, TasksAreInStep
  <2> QED BY <1>1, <2>1, FreshIsFree DEF ConcernedTasksHold
<1>5. \A u \in Tasks \ {t}, j \in Items :
        /\ Concerns(u, j)' <=> Concerns(u, j)
        /\ Contends(u, j)' <=> Contends(u, j)
        /\ Spends(u, j)' <=> Spends(u, j)
  BY <1>3 DEF Concerns, Contends, Spends, Running
<1>6. \A j \in Items \ {i} : ~ Concerns(t, j)' /\ ~ Contends(t, j)'
  BY <1>3 DEF Concerns, Contends
<1>7. ClaimsAreHeld'
  <2>1. ASSUME NEW j \in Items \ {i}, holder[j] # NoTask  PROVE  work'[holder[j]] = j
    <3>1. work[holder[j]] = j /\ holder[j] \in Tasks /\ holder[j] # t
      BY <1>1, <2>1, EngineConstants DEF ClaimsAreHeld, Tasks, TasksAreInStep
    <3> QED BY <1>3, <3>1
  <2> QED BY <1>1, <1>2, <1>3, <2>1 DEF ClaimsAreHeld
<1>8. ConcernedTasksHold'
  BY <1>2, <1>4, <1>5, <1>6 DEF ConcernedTasksHold
<1>9. OneContender'
  BY <1>3, <1>4, <1>5, <1>6 DEF OneContender
<1>10. ApprovalsDecide'
  BY <1>1, <1>2, <1>4, <1>5, <1>6, SpendersContend, EngineConstants DEF ApprovalsDecide, Tasks
<1> QED BY <1>7, <1>8, <1>9, <1>10

\* A cycle that finds nothing to claim fails the expired claims.
LEMMA RecoverKeeps ==
  ASSUME IInv, RecoverClaims
  PROVE  LedgerInv'
<1> USE DEF IInv, TypeOK, LedgerInv, Open, Past
<1>1. /\ \A j \in Items :
           \/ state'[j] = state[j] /\ holder'[j] = holder[j]
           \/ state[j] = "dispatching" /\ state'[j] = "failed" /\ holder'[j] = NoTask
      /\ UNCHANGED <<approval, work, step, verdict, sent, shared>> /\ overdue' = {}
  BY DEF RecoverClaims, Recovered, HoldersLeft, ClaimsAreHeld, taskVars, sendVars
<1>2. \A u \in Tasks, j \in Items :
        /\ Concerns(u, j)' <=> Concerns(u, j)
        /\ Contends(u, j)' <=> Contends(u, j)
        /\ Spends(u, j)' <=> Spends(u, j)
  BY <1>1 DEF Concerns, Contends, Spends, Running
<1>3. ClaimsAreHeld'
  BY <1>1 DEF ClaimsAreHeld
<1>4. ConcernedTasksHold' /\ OneContender'
  BY <1>1, <1>2 DEF ConcernedTasksHold, OneContender
<1>5. ApprovalsDecide'
  BY <1>1, <1>2 DEF ApprovalsDecide, Tasks
<1> QED BY <1>3, <1>4, <1>5

\* A call concerns an item that awaits its approval, and contends for nothing yet.
LEMMA CallKeeps ==
  ASSUME IInv, NEW t \in Calls, NEW i \in Items, CallDispatchApproved(t, i)
  PROVE  LedgerInv'
<1> USE DEF IInv, TypeOK, LedgerInv, Open, Past
<1>1. /\ t \in Tasks /\ t \notin Engine /\ step[t] = "idle" /\ state[i] = "awaiting"
      /\ UNCHANGED <<state, holder, overdue, approval, sent, shared, verdict>>
      /\ work'[t] = i /\ step'[t] = "cleared"
      /\ \A u \in Tasks \ {t} : work'[u] = work[u] /\ step'[u] = step[u]
  BY FreshStarts, EngineConstants DEF CallDispatchApproved, ledgerVars, sendVars, Tasks
<1>2. \A u \in Tasks \ {t}, j \in Items :
        /\ Concerns(u, j)' <=> Concerns(u, j)
        /\ Contends(u, j)' <=> Contends(u, j)
        /\ Spends(u, j)' <=> Spends(u, j)
  BY <1>1 DEF Concerns, Contends, Spends, Running
<1>3. \A j \in Items : ~ Contends(t, j)' /\ (Concerns(t, j)' => j = i)
  <2>1. t \notin sent
    BY <1>1 DEF TasksAreInStep
  <2> QED BY <1>1, <2>1 DEF Concerns, Contends
<1>4. ClaimsAreHeld'
  <2>1. \A j \in Items : holder[j] # NoTask => holder[j] \in Tasks \ {t}
    BY <1>1 DEF Tasks
  <2>2. \A j \in Items : holder[j] # NoTask => work'[holder[j]] = work[holder[j]]
    BY <1>1, <2>1
  <2> QED BY <1>1, <2>2 DEF ClaimsAreHeld
<1>5. ConcernedTasksHold'
  BY <1>1, <1>2, <1>3 DEF ConcernedTasksHold
<1>6. OneContender'
  BY <1>1, <1>2, <1>3 DEF OneContender
<1>7. ApprovalsDecide'
  BY <1>1, <1>2, <1>3, SpendersContend DEF ApprovalsDecide, Tasks
<1> QED BY <1>4, <1>5, <1>6, <1>7

\* An engine's task that needs an approval leaves the contention to the calls.
LEMMA RequireKeeps ==
  ASSUME IInv, NEW t \in Tasks, RequireApproval(t)
  PROVE  LedgerInv'
<1> USE DEF IInv, TypeOK, LedgerInv, Open, Past
<1>1. /\ t \in Engine /\ step[t] = "gated" /\ work[t] \in Items /\ t \notin sent
      /\ UNCHANGED <<state, holder, overdue, work, sent, shared>>
      /\ step'[t] = "answered" /\ verdict'[t] = "awaiting" /\ t \notin Calls
      /\ \A u \in Tasks \ {t} : step'[u] = step[u] /\ verdict'[u] = verdict[u]
      /\ \A j \in Items : j # work[t] => approval'[j] = approval[j]
  BY EngineConstants DEF RequireApproval, TasksAreInStep, Early, sendVars
<1>2. Contends(t, work[t]) /\ Concerns(t, work[t])
  BY <1>1 DEF Contends, Concerns, Early, Running
<1>3. \A u \in Tasks, j \in Items :
        /\ Concerns(u, j)' => Concerns(u, j)
        /\ Contends(u, j)' => Contends(u, j) /\ j # work[t]
        /\ Spends(u, j)' => Spends(u, j)
  <2>1. \A u \in Tasks \ {t}, j \in Items :
          /\ Concerns(u, j)' <=> Concerns(u, j)
          /\ Contends(u, j)' <=> Contends(u, j)
          /\ Spends(u, j)' <=> Spends(u, j)
    BY <1>1 DEF Concerns, Contends, Spends, Running
  <2>2. \A j \in Items : ~ Contends(t, j)' /\ (Concerns(t, j)' => Concerns(t, j))
    BY <1>1 DEF Contends, Concerns, Early, Running
  <2> QED BY <1>1, <1>2, <2>1, <2>2, SpendersContend DEF OneContender
<1>4. ClaimsAreHeld' /\ ConcernedTasksHold' /\ OneContender'
  BY <1>1, <1>3 DEF ClaimsAreHeld, ConcernedTasksHold, OneContender
<1>5. state[work[t]] \notin Open
  BY <1>1, <1>2 DEF ConcernedTasksHold
<1>6. ApprovalsDecide'
  BY <1>1, <1>3, <1>5, SpendersContend DEF ApprovalsDecide, Tasks
<1> QED BY <1>4, <1>6

\* A call that finds its approval granted contends with no engine's task and
\* with no call that spends; beside one that stands where it does it is noted.
LEMMA CheckApprovalKeeps ==
  ASSUME IInv, NEW t \in Tasks, CheckApproval(t)
  PROVE  LedgerInv'
<1> USE DEF IInv, TypeOK, LedgerInv, Open, Past
<1>1. /\ t \in Calls /\ t \notin Engine /\ step[t] = "gated" /\ work[t] \in Items
      /\ approval[work[t]] = "granted"
      /\ UNCHANGED <<state, holder, overdue, approval, work, sent, verdict>>
      /\ step'[t] = "checked"
      /\ \A u \in Tasks \ {t} : step'[u] = step[u]
      /\ shared \subseteq shared'
      /\ (\E u \in Calls : step[u] = "checked" /\ work[u] = work[t]) => work[t] \in shared'
  BY EngineConstants DEF CheckApproval, TasksAreInStep, ledgerVars
<1>2. \A u \in Tasks : Contends(u, work[t]) => u \in Calls /\ step[u] = "checked"
  <2>1. \A u \in Engine : ~ Contends(u, work[t])
    BY <1>1 DEF ApprovalsDecide
  <2>2. \A u \in Calls : ~ Spends(u, work[t])
    BY <1>1 DEF ApprovalsDecide
  <2> QED BY <1>1, <2>1, <2>2, EngineConstants DEF Contends, Spends, Tasks
<1>3. \A u \in Tasks, j \in Items :
        /\ Concerns(u, j)' => Concerns(u, j)
        /\ Contends(u, j)' => Contends(u, j) \/ (u = t /\ j = work[t])
        /\ Spends(u, j)' => Spends(u, j)
  BY <1>1 DEF Concerns, Contends, Spends, Running
<1>4. ClaimsAreHeld' /\ ConcernedTasksHold'
  BY <1>1, <1>3 DEF ClaimsAreHeld, ConcernedTasksHold
<1>5. \A u \in Tasks : Contends(u, work[t]) => work[t] \in shared' /\ u \in Calls
  BY <1>1, <1>2 DEF Contends
<1>6. OneContender'
  BY <1>1, <1>3, <1>5 DEF OneContender
<1>7. ApprovalsDecide'
  BY <1>1, <1>3 DEF ApprovalsDecide, Tasks
<1> QED BY <1>4, <1>6, <1>7

\* A call that starts to consume its approval, or that finds another doing so,
\* has contended since it found the approval granted.
LEMMA ClaimApprovalKeeps ==
  ASSUME IInv, NEW t \in Tasks, ClaimApproval(t)
  PROVE  LedgerInv'
<1> USE DEF IInv, TypeOK, LedgerInv, Open, Past
<1>1. /\ t \in Calls /\ t \notin Engine /\ step[t] = "checked" /\ work[t] \in Items
      /\ approval[work[t]] \in {"granted", "consuming"} /\ approval'[work[t]] = "consuming"
      /\ UNCHANGED <<state, holder, overdue, work, sent, shared, verdict>>
      /\ step'[t] = "authorized"
      /\ \A u \in Tasks \ {t} : step'[u] = step[u]
      /\ \A j \in Items : j # work[t] => approval'[j] = approval[j]
  <2>1. t \in Calls /\ t \notin Engine /\ step[t] = "checked" /\ work[t] \in Items
    BY EngineConstants DEF ClaimApproval, TasksAreInStep
  <2>2. /\ UNCHANGED <<state, holder, overdue, work, sent, shared, verdict>>
        /\ approval[work[t]] \in {"granted", "consuming"}
        /\ approval' = [approval EXCEPT ![work[t]] = "consuming"]
        /\ step' = [step EXCEPT ![t] = "authorized"]
    BY DEF ClaimApproval, sendVars
  <2> QED BY <2>1, <2>2
<1>2. \A u \in Tasks, j \in Items :
        /\ Concerns(u, j)' => Concerns(u, j)
        /\ Contends(u, j)' => Contends(u, j)
        /\ Spends(u, j)' => Spends(u, j) \/ (u = t /\ j = work[t])
  BY <1>1 DEF Concerns, Contends, Spends, Running
<1>3. \A u \in Engine : ~ Contends(u, work[t])
  BY <1>1 DEF ApprovalsDecide
<1>4. ClaimsAreHeld' /\ ConcernedTasksHold' /\ OneContender'
  BY <1>1, <1>2 DEF ClaimsAreHeld, ConcernedTasksHold, OneContender
<1>5. state[work[t]] \notin Open
  BY <1>1 DEF ApprovalsDecide
<1>6. ApprovalsDecide'
  BY <1>1, <1>2, <1>3, <1>5 DEF ApprovalsDecide, Tasks
<1> QED BY <1>4, <1>6

\* A settlement moves the item its task still holds, or the item whose approval
\* was spent, and opens it only for a task that sent nothing.
LEMMA SettleKeeps ==
  ASSUME IInv, NEW t \in Tasks, SettleItem(t)
  PROVE  LedgerInv'
<1> USE DEF IInv, TypeOK, LedgerInv, Open, Past
<1> DEFINE i == work[t]
<1>1. /\ step[t] = "settling" /\ i \in Items /\ Concerns(t, i)
      /\ UNCHANGED <<work, approval, sent, shared>>
      /\ step'[t] = "done" /\ verdict'[t] = "none"
      /\ \A u \in Tasks \ {t} : step'[u] = step[u] /\ verdict'[u] = verdict[u]
  BY DEF SettleItem, Ends, TasksAreInStep, Concerns, Running, sendVars
<1>2. \A u \in Tasks, j \in Items :
        /\ Concerns(u, j)' => Concerns(u, j) /\ (u = t => t \in sent)
        /\ Contends(u, j)' => Contends(u, j)
        /\ Spends(u, j)' => Spends(u, j)
  BY <1>1 DEF Concerns, Contends, Spends, Running, Early
<1>3. CASE UNCHANGED <<state, holder, overdue>>
  <2>1. ClaimsAreHeld' /\ ConcernedTasksHold' /\ OneContender' /\ ApprovalsDecide'
    BY <1>1, <1>2, <1>3 DEF ClaimsAreHeld, ConcernedTasksHold, OneContender, ApprovalsDecide, Tasks
  <2> QED BY <2>1
<1>4. CASE /\ IF t \in Engine THEN holder[i] = t ELSE state[i] = "awaiting"
           /\ state' = [state EXCEPT ![i] = LifecycleOf(verdict[t])]
           /\ holder' = [holder EXCEPT ![i] = NoTask]
           /\ overdue' = overdue \ {i}
  <2>1. LifecycleOf(verdict[t]) \in Past \cup {"blocked"}
    BY <1>1 DEF TasksAreInStep, LifecycleOf, Verdicts
  <2>2. LifecycleOf(verdict[t]) = "blocked" => verdict[t] = "blocked" /\ t \in Engine
    BY <1>1 DEF TasksAreInStep, LifecycleOf, Answers, Tasks
  <2>3. verdict[t] = "blocked" => t \notin sent
    BY DEF TasksAreInStep, Answers
  <2>4. ClaimsAreHeld'
    BY <1>1, <1>4, <2>1 DEF ClaimsAreHeld
  <2>5. ASSUME NEW u \in Tasks, Concerns(u, i)'  PROVE  state'[i] \in Past
    <3>1. Concerns(u, i) /\ (u = t => t \in sent)
      BY <1>1, <1>2, <2>5
    <3>2. CASE u = t
      BY <1>1, <1>4, <2>1, <2>2, <2>3, <3>1, <3>2
    <3>3. CASE u # t
      <4>1. state[i] \in Past
        <5>1. CASE t \in Engine
          BY <1>1, <1>4, <3>1, <3>3, <5>1 DEF ConcernedTasksHold
        <5>2. CASE t \notin Engine
          BY <1>4, <5>2
        <5> QED BY <5>1, <5>2
      <4>2. t \notin Engine
        BY <1>1, <1>4, <4>1, EngineConstants DEF ClaimsAreHeld, Tasks
      <4> QED BY <1>1, <1>4, <2>1, <2>2, <4>2
    <3> QED BY <3>2, <3>3
  <2>6. ConcernedTasksHold'
    BY <1>1, <1>2, <1>4, <2>5 DEF ConcernedTasksHold
  <2>7. OneContender'
    BY <1>1, <1>2 DEF OneContender
  <2>8. LifecycleOf(verdict[t]) = "blocked" => approval[i] = "none"
    BY <1>1, <2>2 DEF Contends, ApprovalsDecide
  <2>9. ApprovalsDecide'
    BY <1>1, <1>2, <1>4, <2>1, <2>8 DEF ApprovalsDecide, Tasks
  <2> QED BY <2>4, <2>6, <2>7, <2>9
<1> QED BY <1>3, <1>4 DEF SettleItem

\* The other steps of a task only bring it closer to its end.
LEMMA TaskKeeps ==
  ASSUME IInv, NEW t \in Tasks, TaskStep(t)
  PROVE  LedgerInv'
<1> USE DEF IInv, TypeOK
<1>1. CASE \/ CheckAuthority(t) \/ ClaimResources(t) \/ DispatchRefused(t) \/ PassPauseCheck(t)
           \/ SendAutomatic(t) \/ SendApproved(t) \/ SettleResources(t)
  <2>1. UNCHANGED <<state, holder, overdue, approval, work, shared>>
    BY <1>1 DEF CheckAuthority, ClaimResources, DispatchRefused, PassPauseCheck, SendAutomatic,
                SendApproved, SettleResources, Withhold, Ends, ledgerVars, sendVars
  <2>2. /\ \A u \in Tasks \ {t} : /\ step'[u] = step[u] /\ verdict'[u] = verdict[u]
                                  /\ u \in sent' => u \in sent
        /\ Running(t)
        /\ \A j \in Items : /\ Contends(t, j)' => Contends(t, j)
                            /\ Spends(t, j)' => Spends(t, j)
    <3> USE DEF Running, Contends, Spends, Early, TasksAreInStep, sendVars
    <3>1. CASE CheckAuthority(t)
      BY <3>1 DEF CheckAuthority, Withhold
    <3>2. CASE ClaimResources(t)
      BY <3>2 DEF ClaimResources, Withhold, Ends
    <3>3. CASE DispatchRefused(t) \/ PassPauseCheck(t)
      BY <3>3 DEF DispatchRefused, PassPauseCheck
    <3>4. CASE SendAutomatic(t) \/ SendApproved(t)
      BY <3>4, EngineConstants DEF SendAutomatic, SendApproved
    <3>5. CASE SettleResources(t)
      BY <3>5 DEF SettleResources, Ends
    <3> QED BY <1>1, <3>1, <3>2, <3>3, <3>4, <3>5
  <2>3. \A u \in Tasks, j \in Items :
          /\ Concerns(u, j)' => Concerns(u, j)
          /\ Contends(u, j)' => Contends(u, j)
          /\ Spends(u, j)' => Spends(u, j)
    BY <2>1, <2>2 DEF Concerns, Contends, Spends, Running
  <2> QED BY <2>1, <2>3, Frame DEF ApprovalAges, LedgerInv, ClaimsAreHeld
<1>2. CASE Answer(t)
  <2>1. /\ UNCHANGED <<state, holder, overdue, work, sent, shared>> /\ step[t] = "sent"
        /\ t \in sent
        /\ step' = [step EXCEPT ![t] = "answered"]
        /\ \E v \in Answers : verdict' = [verdict EXCEPT ![t] = v]
        /\ \A j \in Items : \/ approval[j] = "consuming" /\ approval'[j] = "consumed"
                            \/ approval'[j] = approval[j]
    <3>1. /\ UNCHANGED <<state, holder, overdue, work, sent, shared>> /\ step[t] = "sent"
          /\ step' = [step EXCEPT ![t] = "answered"]
          /\ \E v \in Answers : verdict' = [verdict EXCEPT ![t] = v]
          /\ \/ approval' = approval
             \/ approval' = [approval EXCEPT ![work[t]] = IF @ = "consuming" THEN "consumed" ELSE @]
      BY <1>2 DEF Answer, Answers, sendVars
    <3>2. t \in sent
      BY <3>1 DEF TasksAreInStep
    <3>3. \A j \in Items : \/ approval[j] = "consuming" /\ approval'[j] = "consumed"
                           \/ approval'[j] = approval[j]
      BY <3>1
    <3> QED BY <3>1, <3>2, <3>3
  <2>2. \A j \in Items : ApprovalAges(j)
    BY <2>1 DEF ApprovalAges
  <2>3. \A u \in Tasks, j \in Items :
          /\ Concerns(u, j)' => Concerns(u, j)
          /\ Contends(u, j)' => Contends(u, j)
          /\ Spends(u, j)' => Spends(u, j)
    BY <2>1 DEF Concerns, Contends, Spends, Running, Early
  <2> QED BY <2>1, <2>2, <2>3, Frame DEF LedgerInv, ClaimsAreHeld
<1> QED BY <1>1, <1>2, RequireKeeps, CheckApprovalKeeps, ClaimApprovalKeeps, SettleKeeps
    DEF TaskStep

\* Nobody outside the tasks brings one to an item.
LEMMA OthersKeep ==
  ASSUME IInv, Resources \/ Pauses \/ HiveCoreRestarts \/ UNCHANGED vars
  PROVE  LedgerInv'
<1> USE DEF IInv, TypeOK
<1>1. /\ UNCHANGED <<state, holder, approval, work, sent, shared>>
      /\ overdue' \subseteq overdue
      /\ \A u \in Tasks : \/ step'[u] = step[u] /\ verdict'[u] = verdict[u]
                          \/ step'[u] \in {"idle", "done", "lost"} /\ verdict'[u] = "none"
  <2>1. CASE Resources \/ Pauses
    BY <2>1 DEF Resources, Heartbeat, ResourcesLapse, SweepResources, DayPasses, SaveResourcePolicy, Pauses,
                PauseTarget, ResumeTarget, ledgerVars, taskVars, sendVars
  <2>2. CASE HiveCoreRestarts
    BY <2>2 DEF HiveCoreRestarts, Running, ledgerVars, sendVars
  <2>3. CASE UNCHANGED vars
    BY <2>3 DEF vars, ledgerVars, taskVars, sendVars
  <2> QED BY <2>1, <2>2, <2>3
<1>2. \A u \in Tasks, j \in Items :
        /\ Concerns(u, j)' => Concerns(u, j)
        /\ Contends(u, j)' => Contends(u, j)
        /\ Spends(u, j)' => Spends(u, j)
  BY <1>1 DEF Concerns, Contends, Spends, Running, Early
<1> QED BY <1>1, <1>2, Frame DEF ApprovalAges, LedgerInv, ClaimsAreHeld

\* What happens to a row apart from claims and settlements.
LEMMA RowsKeep ==
  ASSUME IInv, NEW i \in Items,
         \/ ProposeWork(i) \/ LeaseLapses(i) \/ CooledDown(i) \/ OutcomeRecorded(i)
         \/ GrantApproval(i) \/ CloseApproval(i)
  PROVE  LedgerInv'
<1> USE DEF IInv, TypeOK
<1>1. UNCHANGED <<holder, work, step, verdict, sent, shared>>
  BY DEF ProposeWork, LeaseLapses, CooledDown, OutcomeRecorded, GrantApproval, CloseApproval,
         taskVars, sendVars
<1>2. \A j \in Items :
        \/ state'[j] = state[j]
        \/ state[j] \in Open /\ state'[j] \in Open
        \/ state[j] \in Past /\ state'[j] \in Past
  BY DEF ProposeWork, LeaseLapses, CooledDown, OutcomeRecorded, GrantApproval, CloseApproval,
         Open, Past
<1>3. \A j \in overdue' : state'[j] = "dispatching"
  BY DEF ProposeWork, LeaseLapses, CooledDown, OutcomeRecorded, GrantApproval, CloseApproval,
         LedgerInv, ClaimsAreHeld
<1>4. \A j \in Items : ApprovalAges(j)
  BY DEF ProposeWork, LeaseLapses, CooledDown, OutcomeRecorded, GrantApproval, CloseApproval,
         ApprovalAges
<1>5. \A u \in Tasks, j \in Items :
        /\ Concerns(u, j)' <=> Concerns(u, j)
        /\ Contends(u, j)' <=> Contends(u, j)
        /\ Spends(u, j)' <=> Spends(u, j)
  BY <1>1 DEF Concerns, Contends, Spends, Running
<1> QED BY <1>1, <1>2, <1>3, <1>4, <1>5, Frame

-----------------------------------------------------------------------------
(* The invariant of the engine *)

\* Every step preserves the invariant.
LEMMA NextIInv == IInv /\ [Next]_vars => IInv'
<1> SUFFICES ASSUME IInv, [Next]_vars  PROVE  IInv'
  OBVIOUS
<1>1. TypeOK' /\ TasksAreInStep' /\ PausesAreSeen' /\ ChargesAreForRequests'
  BY NextTypes, NextInStep, PausesStaySeen DEF IInv
<1>2. LedgerInv'
  <2>1. CASE EngineCycle
    BY <2>1, ClaimKeeps, RecoverKeeps DEF EngineCycle
  <2>2. CASE Ledger
    BY <2>2, RowsKeep, CallKeeps DEF Ledger
  <2>3. CASE Resources \/ Pauses \/ HiveCoreRestarts \/ UNCHANGED vars
    BY <2>3, OthersKeep
  <2>4. CASE \E t \in Tasks : TaskStep(t)
    BY <2>4, TaskKeeps
  <2> QED BY <2>1, <2>2, <2>3, <2>4 DEF Next
<1> QED BY <1>1, <1>2 DEF IInv

(***************************************************************************)
(* Who may still send an item's request, for any number of tasks.          *)
(***************************************************************************)
THEOREM Invariance == Spec => []IInv
BY InitIInv, NextIInv, PTL DEF Spec

(***************************************************************************)
(* Ledger, tasks, resources and pauses have values of their kinds.         *)
(***************************************************************************)
THEOREM TypeCorrect == Spec => []TypeOK
<1>1. IInv => TypeOK
  BY DEF IInv
<1> QED BY <1>1, Invariance, PTL

(***************************************************************************)
(* No piece of work is requested of its product twice, unless by calls of  *)
(* dispatch_approved that found the same approval granted at once.         *)
(***************************************************************************)
THEOREM WorkAlwaysSentOnce == Spec => []WorkIsSentOnce
<1>1. ASSUME IInv  PROVE  WorkIsSentOnce
  <2>1. \A t \in sent : t \in Tasks /\ work[t] \in Items
    BY <1>1 DEF IInv, TypeOK, TasksAreInStep
  <2> QED BY <1>1, <2>1 DEF IInv, LedgerInv, OneContender, Contends, WorkIsSentOnce
<1> QED BY <1>1, Invariance, PTL

\* No two calls stand between the check and the claim of one item's approval.
CallsStandApart ==
  \A t, u \in Calls : step[t] = "checked" /\ step[u] = "checked" /\ work[t] = work[u] => t = u

\* Only calls that stand there together share an item.
LEMMA SharingTakesTwo ==
  ASSUME IInv, [Next]_vars, CallsStandApart', shared = {}
  PROVE  shared' = {}
<1> USE DEF IInv, TypeOK, sendVars
<1>1. ASSUME NEW t \in Tasks, CheckApproval(t)  PROVE  shared' = {}
  <2>1. ASSUME NEW u \in Calls, step[u] = "checked", work[u] = work[t]  PROVE  FALSE
    <3>1. u # t /\ t \in Calls /\ step'[u] = "checked" /\ step'[t] = "checked"
          /\ work'[u] = work'[t]
      BY <1>1, <2>1 DEF CheckApproval, Tasks
    <3> QED BY <2>1, <3>1 DEF CallsStandApart
  <2> QED BY <1>1, <2>1 DEF CheckApproval
<1>2. CASE EngineCycle \/ Ledger \/ Resources
  BY <1>2 DEF EngineCycle, RecoverClaims, ClaimNextWork, Ledger, ProposeWork, LeaseLapses,
              CooledDown, OutcomeRecorded, GrantApproval, CloseApproval, CallDispatchApproved,
              Resources, Heartbeat, ResourcesLapse, SweepResources, DayPasses, SaveResourcePolicy
<1>3. CASE Pauses \/ HiveCoreRestarts \/ UNCHANGED vars
  BY <1>3 DEF Pauses, PauseTarget, ResumeTarget, HiveCoreRestarts, vars
<1>4. ASSUME NEW t \in Tasks, TaskStep(t), ~ CheckApproval(t)  PROVE  shared' = shared
  BY <1>4 DEF TaskStep, CheckAuthority, ClaimResources, DispatchRefused, PassPauseCheck,
              RequireApproval, SendAutomatic, ClaimApproval, SendApproved, Answer,
              SettleResources, SettleItem
<1> QED BY <1>1, <1>2, <1>3, <1>4 DEF Next

(***************************************************************************)
(* As long as calls for one item do not overlap there, each piece of work  *)
(* is requested once, without exception.                                   *)
(***************************************************************************)
THEOREM WorkSentOnceByCallsApart ==
  Spec /\ []CallsStandApart => [](\A t, u \in sent : work[t] = work[u] => t = u)
<1>1. Init => shared = {}
  BY DEF Init
<1>2. IInv /\ CallsStandApart' /\ shared = {} /\ [Next]_vars => (shared = {})'
  BY SharingTakesTwo
<1>3. WorkIsSentOnce /\ shared = {} => \A t, u \in sent : work[t] = work[u] => t = u
  BY DEF WorkIsSentOnce
<1> QED BY <1>1, <1>2, <1>3, Invariance, WorkAlwaysSentOnce, PTL DEF Spec

(***************************************************************************)
(* Work that may have been requested is never open to another claim.       *)
(***************************************************************************)
THEOREM SentWorkNeverOpen == Spec => []SentWorkIsNotOpen
<1>1. ASSUME IInv  PROVE  SentWorkIsNotOpen
  <2>1. \A t \in sent : t \in Tasks /\ work[t] \in Items
    BY <1>1 DEF IInv, TypeOK, TasksAreInStep
  <2> QED BY <1>1, <2>1 DEF IInv, LedgerInv, ConcernedTasksHold, Concerns, Past, SentWorkIsNotOpen
<1> QED BY <1>1, Invariance, PTL

(***************************************************************************)
(* The AI budget is charged for requests that were sent.                   *)
(***************************************************************************)
THEOREM ChargesAlwaysForRequests == Spec => []ChargesAreForRequests
<1>1. IInv => ChargesAreForRequests
  BY DEF IInv
<1> QED BY <1>1, Invariance, PTL

-----------------------------------------------------------------------------
(* What a step may never do *)

\* What a step may do to an item that came to an end or was handed over.
LEMMA FinalStays ==
  ASSUME IInv, [Next]_vars, NEW i \in Items
  PROVE  /\ state[i] \in Final => state'[i] = state[i]
         /\ state[i] = "shipped" => state'[i] \in {"shipped", "completed"}
<1> USE DEF IInv, TypeOK, LedgerInv, Final, ledgerVars
<1>1. CASE EngineCycle
  BY <1>1 DEF EngineCycle, RecoverClaims, ClaimNextWork, Claimable, Recovered
<1>2. CASE Ledger
  BY <1>2 DEF Ledger, ProposeWork, LeaseLapses, CooledDown, OutcomeRecorded, GrantApproval,
              CloseApproval, CallDispatchApproved
<1>3. CASE Resources \/ Pauses \/ HiveCoreRestarts \/ UNCHANGED vars
  BY <1>3 DEF Resources, Heartbeat, ResourcesLapse, SweepResources, DayPasses, SaveResourcePolicy, Pauses,
              PauseTarget, ResumeTarget, HiveCoreRestarts, vars
<1>4. ASSUME NEW t \in Tasks, SettleItem(t)
      PROVE  state'[i] = state[i] \/ state[i] \in {"dispatching", "awaiting"}
  <2>1. state[work[t]] \in {"dispatching", "awaiting"} \/ state' = state
    <3>1. work[t] \in Items
      BY <1>4 DEF SettleItem, TasksAreInStep
    <3> QED BY <1>4, <3>1, EngineConstants DEF SettleItem, ClaimsAreHeld, Tasks
  <2> QED BY <1>4, <2>1 DEF SettleItem
<1>5. ASSUME NEW t \in Tasks, TaskStep(t), ~ SettleItem(t)  PROVE  state' = state
  BY <1>5 DEF TaskStep, CheckAuthority, ClaimResources, DispatchRefused, PassPauseCheck,
              RequireApproval, SendAutomatic, CheckApproval, ClaimApproval, SendApproved, Answer, SettleResources
<1> QED BY <1>1, <1>2, <1>3, <1>4, <1>5 DEF Next

(***************************************************************************)
(* Late settlements change nothing: what an item came to is final.         *)
(***************************************************************************)
THEOREM OutcomesStayFinal == Spec => OutcomesAreFinal
<1>1. IInv /\ [Next]_vars =>
        [\A i \in Items :
           /\ state[i] \in Final => state'[i] = state[i]
           /\ state[i] = "shipped" => state'[i] \in {"shipped", "completed"}]_vars
  BY FinalStays
<1> QED BY <1>1, Invariance, PTL DEF Spec, OutcomesAreFinal

\* A request is sent past the check of the dispatch, and by nobody else.
LEMMA SendsHonour ==
  ASSUME IInv, [Next]_vars, NEW t \in sent' \ sent, NEW x \in watched[t],
         work[t] \in Covered[x]
  PROVE  t \in Calls /\ x \in MandateScopes
<1> USE DEF IInv, TypeOK, sendVars
<1>1. t \in Tasks /\ (SendAutomatic(t) \/ SendApproved(t))
  <2>1. CASE EngineCycle \/ Ledger \/ Resources
    BY <2>1 DEF EngineCycle, RecoverClaims, ClaimNextWork, Ledger, ProposeWork, LeaseLapses,
                CooledDown, OutcomeRecorded, GrantApproval, CloseApproval, CallDispatchApproved,
                Resources, Heartbeat, ResourcesLapse, SweepResources, DayPasses, SaveResourcePolicy
  <2>2. CASE Pauses \/ HiveCoreRestarts \/ UNCHANGED vars
    BY <2>2 DEF Pauses, PauseTarget, ResumeTarget, HiveCoreRestarts, vars
  <2>3. ASSUME NEW u \in Tasks, TaskStep(u)  PROVE  t = u /\ (SendAutomatic(u) \/ SendApproved(u))
    BY <2>3 DEF TaskStep, CheckAuthority, ClaimResources, DispatchRefused, PassPauseCheck,
                RequireApproval, SendAutomatic, CheckApproval, ClaimApproval, SendApproved, Answer,
                SettleResources, SettleItem
  <2> QED BY <2>1, <2>2, <2>3 DEF Next
<1>2. CASE SendAutomatic(t)
  BY <1>1, <1>2, EngineConstants DEF SendAutomatic, PausesAreSeen
<1>3. CASE SendApproved(t)
  BY <1>1, <1>3 DEF SendApproved, PausesAreSeen, TasksAreInStep
<1> QED BY <1>1, <1>2, <1>3

(***************************************************************************)
(* A pause in force when a task began stops its request, except that an    *)
(* approved call is not told of a mandate's.                               *)
(***************************************************************************)
THEOREM PausedWorkNeverSent == Spec => PausedWorkIsNotSent
<1>1. IInv /\ [Next]_vars =>
        [\A t \in sent' \ sent : \A x \in watched[t] :
           work[t] \in Covered[x] => t \in Calls /\ x \in MandateScopes]_vars
  BY SendsHonour
<1> QED BY <1>1, Invariance, PTL DEF Spec, PausedWorkIsNotSent

-----------------------------------------------------------------------------
(* The sandbox slots as a pool *)

\* Leases are given back for good...
GivesBack ==
  \A t \in Tasks :
    \/ sandbox'[t] = sandbox[t]
    \/ sandbox[t] # "none" /\ sandbox'[t] = "over"

\* ... or one is taken by a task that never had one, within the slots.
Takes(t) ==
  /\ sandbox[t] = "none" /\ sandbox'[t] = "claimed"
  /\ \A u \in Tasks \ {t} :
       \/ sandbox'[u] = SweptSandbox[u]
       \/ sandbox[u] # "none" /\ sandbox'[u] = "over"
  /\ Cardinality(SlotsInUse) < slots

\* Every step does one of the two to the leases, or saves another policy.
LEMMA LeaseSteps ==
  ASSUME IInv, [Next]_vars
  PROVE  \/ GivesBack /\ slots' = slots
         \/ sandbox' = sandbox /\ slots' \in SlotPolicies
         \/ \E t \in Tasks : Takes(t) /\ slots' = slots
<1> USE DEF IInv, TypeOK, ledgerVars, taskVars, resourceVars, leaseVars, policyVars
<1>1. ASSUME NEW t \in Tasks, ClaimResources(t)
      PROVE  slots' = slots /\ (GivesBack \/ Takes(t))
  <2>1. sandbox[t] = "none" /\ slots' = slots
    BY <1>1 DEF ClaimResources, TasksAreInStep
  <2>2. CASE sandbox' = SweptSandbox
    BY <2>1, <2>2, SweptTypes DEF GivesBack
  <2>3. ASSUME NEW rate \in RateLimits, NEW owner \in OwnerStates,
               LimitingLayers(Evidence(rate, owner), Layers, 1, 1) = {},
               sandbox' = [u \in Tasks |->
                 IF u = t THEN "claimed"
                 ELSE IF work[u] = work[t] /\ sandbox[u] = "claimed" THEN "over"
                 ELSE SweptSandbox[u]]
        PROVE  Takes(t)
    <3>1. ~ SandboxShort(Evidence(rate, owner).sandbox)
      BY <2>3 DEF LimitingLayers, Layers
    <3>2. ~ Cardinality(SlotsInUse) >= slots
      <4>1. PICK e \in Evidence(rate, owner).sandbox : ~ e.inUse >= e.slots
        BY <3>1 DEF SandboxShort
      <4>2. e = [slots |-> slots,
                 inUse |-> Cardinality(SlotsInUse)]
        BY DEF Evidence
      <4> QED BY <4>1, <4>2
    <3>3. Cardinality(SlotsInUse) \in Nat
      <4>1. IsFiniteSet(SlotsInUse)
        BY FiniteTasks, FS_Subset DEF SlotsInUse
      <4> QED BY <4>1, FS_CardinalityType
    <3>4. slots \in Nat
      BY EngineConstants
    <3>5. Cardinality(SlotsInUse) < slots
      BY <3>2, <3>3, <3>4
    <3> QED BY <2>1, <2>3, <3>5 DEF Takes
  <2> QED BY <1>1, <2>1, <2>2, <2>3 DEF ClaimResources
<1>2. CASE Resources
  BY <1>2, SweptTypes DEF Resources, Heartbeat, ResourcesLapse, SweepResources, DayPasses,
                          SaveResourcePolicy, GivesBack
<1>3. CASE EngineCycle \/ Ledger
  BY <1>3 DEF EngineCycle, RecoverClaims, ClaimNextWork, Ledger, ProposeWork, LeaseLapses,
              CooledDown, OutcomeRecorded, GrantApproval, CloseApproval, CallDispatchApproved,
              GivesBack
<1>4. CASE Pauses \/ HiveCoreRestarts \/ UNCHANGED vars
  BY <1>4 DEF Pauses, PauseTarget, ResumeTarget, HiveCoreRestarts, vars, GivesBack
<1>5. ASSUME NEW t \in Tasks, TaskStep(t), ~ ClaimResources(t)
      PROVE  GivesBack /\ slots' = slots
  BY <1>5 DEF TaskStep, CheckAuthority, DispatchRefused, PassPauseCheck, RequireApproval,
              SendAutomatic, CheckApproval, ClaimApproval, SendApproved, Answer, SettleResources, SettleItem,
              GivesBack
<1> QED BY <1>1, <1>2, <1>3, <1>4, <1>5 DEF Next

\* A lease that is taken fits.
LEMMA TakenFits ==
  ASSUME IInv, NEW t \in Tasks, Takes(t)
  PROVE  Cardinality(Slotted') <= slots
<1> DEFINE left == SlotsInUse
<1>1. IsFiniteSet(left)
  BY FiniteTasks, FS_Subset DEF SlotsInUse
<1>2. Slotted' \subseteq left \cup {t}
  BY SweptTypes DEF Takes, Slotted, SlotsInUse, IInv
<1>3. t \notin left
  BY SweptTypes DEF Takes, SlotsInUse, IInv
<1>4. Cardinality(left) < slots /\ slots \in Nat
  BY EngineConstants DEF Takes, IInv, TypeOK
<1> HIDE DEF left
<1>5. IsFiniteSet(left \cup {t}) /\ Cardinality(left \cup {t}) = Cardinality(left) + 1
  BY <1>1, <1>3, FS_AddElement
<1>6. Cardinality(Slotted') <= Cardinality(left \cup {t}) /\ IsFiniteSet(Slotted')
  BY <1>2, <1>5, FS_Subset
<1>7. Cardinality(left) \in Nat /\ Cardinality(Slotted') \in Nat
  BY <1>1, <1>6, FS_CardinalityType
<1> QED BY <1>4, <1>5, <1>6, <1>7

\* The pool counts with the same function.
LEMMA PoolCounts == \A S : Pool!Cardinality(S) = Cardinality(S)
BY DEF Pool!Cardinality, Cardinality

(***************************************************************************)
(* The sandbox leases implement the abstract capacity pool: none counts    *)
(* twice, none comes back, and none is granted beyond the slots in force.  *)
(***************************************************************************)
THEOREM SandboxIsAPool == Spec => SandboxSlotsAreAPool
<1>1. Init => Pool!PoolInit
  BY EngineConstants DEF Init, Pool!PoolInit, Slotted, Unslotted
<1>2. IInv /\ [Next]_vars => [Pool!PoolNext]_(Pool!poolVars)
  <2> SUFFICES ASSUME IInv, [Next]_vars  PROVE  Pool!PoolNext
    OBVIOUS
  <2>1. CASE GivesBack /\ slots' = slots
    <3>1. Slotted' \subseteq Slotted /\ Unslotted' = Unslotted \cup (Slotted \ Slotted')
      BY <2>1 DEF GivesBack, Slotted, Unslotted, IInv, TypeOK
    <3>2. Slotted' \subseteq Tasks /\ Slotted' \ Slotted = {}
      BY <3>1 DEF Slotted
    <3> QED BY <2>1, <3>1, <3>2 DEF Pool!PoolNext, Pool!Turnover
  <2>2. CASE sandbox' = sandbox /\ slots' \in SlotPolicies
    <3>1. Slotted' = Slotted /\ Unslotted' = Unslotted /\ slots' \in Nat
      BY <2>2, EngineConstants DEF Slotted, Unslotted
    <3> QED BY <3>1 DEF Pool!PoolNext, Pool!ChangeLimit
  <2>3. ASSUME NEW t \in Tasks, Takes(t), slots' = slots  PROVE  Pool!PoolNext
    <3>1. /\ Slotted' \subseteq Tasks /\ Slotted' \ Slotted \subseteq {t} /\ t \notin Unslotted'
          /\ Unslotted' = Unslotted \cup (Slotted \ Slotted')
      BY <2>3, SweptTypes DEF Takes, Slotted, Unslotted, IInv, TypeOK
    <3>2. Pool!Cardinality(Slotted') <= slots
      BY <2>3, TakenFits, PoolCounts
    <3> QED BY <2>3, <3>1, <3>2 DEF Pool!PoolNext, Pool!Turnover
  <2> QED BY <2>1, <2>2, <2>3, LeaseSteps
<1> QED BY <1>1, <1>2, Invariance, PTL DEF Spec, SandboxSlotsAreAPool, Pool!PoolSpec

-----------------------------------------------------------------------------
(* The AI budget *)

\* What counts against the day's limit: what its reservations were charged, and
\* one estimate for each that is open.
AiHeld == {t \in Tasks \ earlier : ai[t] = "reserved"}
AiLoad == aiSpent + Cardinality(AiHeld)

\* Charges and reservations go away...
AiEases == aiSpent' \in Nat /\ aiSpent' <= aiSpent /\ AiHeld' \subseteq AiHeld

\* ... or a task reserves within what is left...
Reserves(t) ==
  /\ aiSpent' = aiSpent
  /\ AiHeld' \subseteq AiReserved \cup {t}
  /\ aiSpent + Cardinality(AiReserved) + 1 <= aiLimit

\* ... or one is charged what its answer reported.
IsCharged(t, cost) ==
  /\ ai[t] = "reserved" /\ ai'[t] = "committed"
  /\ t \in AiHeld /\ AiHeld' = AiHeld \ {t}
  /\ aiSpent' = aiSpent + cost

\* Reservations can be counted.
LEMMA HeldCounts ==
  /\ IsFiniteSet(AiHeld) /\ Cardinality(AiHeld) \in Nat
  /\ IsFiniteSet(AiReserved) /\ Cardinality(AiReserved) \in Nat
<1>1. IsFiniteSet(AiHeld) /\ IsFiniteSet(AiReserved)
  BY FiniteTasks, FS_Subset DEF AiHeld, AiReserved
<1> QED BY <1>1, FS_CardinalityType

\* A task that takes its resources reserves within the limit or leaves no more
\* than there was.
LEMMA ClaimingReserves ==
  ASSUME IInv, NEW t \in Tasks, ClaimResources(t)
  PROVE  AiEases \/ Reserves(t)
<1> USE DEF IInv, TypeOK, policyVars
<1>1. aiSpent' = aiSpent /\ aiSpent \in Nat /\ earlier' = earlier \ lapsed
  BY DEF ClaimResources
<1>2. CASE ai' = SweptAi
  BY <1>1, <1>2 DEF AiEases, AiHeld, SweptAi
<1>3. ASSUME NEW rate \in RateLimits, NEW owner \in OwnerStates,
             LimitingLayers(Evidence(rate, owner), Layers, 1, 1) = {},
             ai' = [SweptAi EXCEPT ![t] = "reserved"]
      PROVE  Reserves(t)
  <2>1. ~ AiShort(Evidence(rate, owner).ai, 1)
    BY <1>3 DEF LimitingLayers, Layers
  <2>2. ~ (aiSpent + Cardinality(AiReserved) + 1 > aiLimit)
    <3>1. PICK e \in Evidence(rate, owner).ai : ~ e.spent + e.reserved + 1 > e.limit
      BY <2>1 DEF AiShort
    <3>2. e.limit = aiLimit /\ e.spent = aiSpent /\ e.reserved = Cardinality(AiReserved)
      BY DEF Evidence, AiSpend
    <3> QED BY <3>1, <3>2
  <2>3. Cardinality(AiReserved) \in Nat /\ aiLimit \in Nat
    BY HeldCounts, EngineConstants
  <2>4. aiSpent + Cardinality(AiReserved) + 1 <= aiLimit
    BY <1>1, <2>2, <2>3
  <2>5. AiHeld' \subseteq AiReserved \cup {t}
    BY <1>1, <1>3 DEF AiHeld, AiReserved, SweptAi
  <2> QED BY <1>1, <2>4, <2>5 DEF Reserves
<1> QED BY <1>2, <1>3 DEF ClaimResources

\* A settlement charges a reservation of the day, or leaves no more than there was.
LEMMA SettlingCharges ==
  ASSUME IInv, NEW t \in Tasks, SettleResources(t)
  PROVE  AiEases \/ \E cost \in Costs \cup {1} : IsCharged(t, cost)
<1> USE DEF IInv, TypeOK
<1>1. aiSpent \in Nat
  OBVIOUS
<1>2. CASE UNCHANGED leaseVars
  BY <1>1, <1>2 DEF leaseVars, AiEases, AiHeld
<1>3. ASSUME SettleAi(t), earlier' = earlier \ {t}
      PROVE  AiEases \/ \E cost \in Costs \cup {1} : IsCharged(t, cost)
  <2>1. CASE ai[t] = "reserved" /\ Charged(t)
    <3>1. ai' = [ai EXCEPT ![t] = "committed"]
      BY <1>3, <2>1 DEF SettleAi
    <3>2. AiHeld' = AiHeld \ {t}
      BY <1>3, <3>1 DEF AiHeld
    <3>3. CASE t \in earlier
      BY <1>1, <1>3, <2>1, <3>2, <3>3 DEF SettleAi, AiEases
    <3>4. CASE t \notin earlier
      <4>1. PICK cost \in Costs \cup {1} : aiSpent' = aiSpent + cost
        BY <1>3, <2>1, <3>4 DEF SettleAi
      <4>2. t \in AiHeld
        BY <2>1, <3>4 DEF AiHeld
      <4> QED BY <2>1, <3>1, <3>2, <4>1, <4>2 DEF IsCharged
    <3> QED BY <3>3, <3>4
  <2>2. CASE ~ (ai[t] = "reserved" /\ Charged(t))
    <3>1. aiSpent' = aiSpent /\ ai' = [ai EXCEPT ![t] = IF @ = "reserved" THEN "over" ELSE @]
      BY <1>3, <2>2 DEF SettleAi
    <3>2. AiHeld' \subseteq AiHeld
      BY <1>3, <3>1 DEF AiHeld
    <3> QED BY <1>1, <3>1, <3>2 DEF AiEases
  <2> QED BY <2>1, <2>2
<1> QED BY <1>2, <1>3 DEF SettleResources

\* Every step does one of the three.
LEMMA BudgetSteps ==
  ASSUME IInv, [Next]_vars
  PROVE  \/ AiEases
         \/ \E t \in Tasks : Reserves(t)
         \/ \E t \in Tasks, cost \in Costs \cup {1} : IsCharged(t, cost)
<1> USE DEF IInv, TypeOK, ledgerVars, taskVars, resourceVars, leaseVars, policyVars
<1>1. CASE Resources
  BY <1>1 DEF Resources, Heartbeat, ResourcesLapse, SweepResources, DayPasses, SaveResourcePolicy,
              SweptAi, AiEases, AiHeld
<1>2. CASE EngineCycle \/ Ledger
  BY <1>2 DEF EngineCycle, RecoverClaims, ClaimNextWork, Ledger, ProposeWork, LeaseLapses,
              CooledDown, OutcomeRecorded, GrantApproval, CloseApproval, CallDispatchApproved,
              AiEases, AiHeld
<1>3. CASE Pauses \/ HiveCoreRestarts \/ UNCHANGED vars
  BY <1>3 DEF Pauses, PauseTarget, ResumeTarget, HiveCoreRestarts, vars, AiEases, AiHeld
<1>4. ASSUME NEW t \in Tasks, TaskStep(t), ~ ClaimResources(t), ~ SettleResources(t)
      PROVE  AiEases
  BY <1>4 DEF TaskStep, CheckAuthority, DispatchRefused, PassPauseCheck, RequireApproval,
              SendAutomatic, CheckApproval, ClaimApproval, SendApproved, Answer, SettleItem,
              AiEases, AiHeld
<1> QED BY <1>1, <1>2, <1>3, <1>4, ClaimingReserves, SettlingCharges DEF Next

(***************************************************************************)
(* What counts against the day's AI limit, of every cycle and every        *)
(* approved call together, grows in two ways only: by a reservation within *)
(* the limit in force, and by what an answer reports beyond the estimate   *)
(* that was reserved for it, which nothing holds to the limit.             *)
(***************************************************************************)
AiLoadIsGoverned ==
  [][\/ AiLoad' <= AiLoad
     \/ AiLoad' <= aiLimit
     \/ \E t \in Tasks, cost \in Costs :
          /\ ai[t] = "reserved" /\ ai'[t] = "committed"
          /\ AiLoad' = AiLoad + cost - 1]_vars

\* Every step keeps to it.
LEMMA LoadSteps ==
  ASSUME IInv, [Next]_vars
  PROVE  /\ AiLoad \in Nat /\ AiLoad' \in Nat
         /\ \/ AiLoad' <= AiLoad
            \/ AiLoad' <= aiLimit
            \/ \E t \in Tasks, cost \in Costs :
                 /\ ai[t] = "reserved" /\ ai'[t] = "committed"
                 /\ AiLoad' = AiLoad + cost - 1
<1>0. aiSpent \in Nat /\ aiSpent' \in Nat /\ aiLimit \in Nat
  BY NextTypes, EngineConstants DEF IInv, TypeOK
<1>1. /\ IsFiniteSet(AiHeld) /\ Cardinality(AiHeld) \in Nat
      /\ IsFiniteSet(AiHeld') /\ Cardinality(AiHeld') \in Nat
      /\ IsFiniteSet(AiReserved) /\ Cardinality(AiReserved) \in Nat
  <2>1. AiHeld' \subseteq Tasks
    BY DEF AiHeld
  <2>2. IsFiniteSet(AiHeld')
    BY <2>1, FiniteTasks, FS_Subset
  <2> QED BY <2>2, HeldCounts, FS_CardinalityType
<1>2. AiLoad = aiSpent + Cardinality(AiHeld) /\ AiLoad' = aiSpent' + Cardinality(AiHeld')
  BY DEF AiLoad
<1>3. CASE AiEases
  <2>1. Cardinality(AiHeld') <= Cardinality(AiHeld)
    BY <1>1, <1>3, FS_Subset DEF AiEases
  <2> QED BY <1>0, <1>1, <1>2, <1>3, <2>1 DEF AiEases
<1>4. ASSUME NEW t \in Tasks, Reserves(t)  PROVE  AiLoad' <= aiLimit
  <2> DEFINE more == AiReserved \cup {t}
  <2>1. IsFiniteSet(more)
    BY <1>1, FS_AddElement
  <2>2. Cardinality(more) = Cardinality(AiReserved) \/ Cardinality(more) = Cardinality(AiReserved) + 1
    BY <1>1, FS_AddElement
  <2>3. AiHeld' \subseteq more
    BY <1>4 DEF Reserves
  <2> HIDE DEF more
  <2>4. Cardinality(AiHeld') <= Cardinality(more) /\ Cardinality(more) \in Nat
    BY <2>1, <2>3, FS_Subset, FS_CardinalityType
  <2>5. aiSpent' = aiSpent /\ aiSpent + Cardinality(AiReserved) + 1 <= aiLimit
    BY <1>4 DEF Reserves
  <2> QED BY <1>0, <1>1, <1>2, <2>2, <2>4, <2>5
<1>5. ASSUME NEW t \in Tasks, NEW cost \in Costs \cup {1}, IsCharged(t, cost)
      PROVE  ai[t] = "reserved" /\ ai'[t] = "committed" /\ AiLoad' = AiLoad + cost - 1
  <2>1. Cardinality(AiHeld') = Cardinality(AiHeld) - 1
    BY <1>1, <1>5, FS_RemoveElement DEF IsCharged
  <2>2. cost \in Nat
    BY EngineConstants
  <2> QED BY <1>0, <1>1, <1>2, <1>5, <2>1, <2>2 DEF IsCharged
<1>6. AiLoad \in Nat /\ AiLoad' \in Nat
  BY <1>0, <1>1, <1>2
<1>7. ASSUME NEW t \in Tasks, IsCharged(t, 1)  PROVE  AiLoad' <= AiLoad
  BY <1>5, <1>6, <1>7
<1> QED BY <1>3, <1>4, <1>5, <1>6, <1>7, BudgetSteps

THEOREM AiLoadIsAlwaysGoverned == Spec => AiLoadIsGoverned
<1>1. IInv /\ [Next]_vars =>
        [\/ AiLoad' <= AiLoad
         \/ AiLoad' <= aiLimit
         \/ \E t \in Tasks, cost \in Costs :
              /\ ai[t] = "reserved" /\ ai'[t] = "committed"
              /\ AiLoad' = AiLoad + cost - 1]_vars
  BY LoadSteps
<1> QED BY <1>1, Invariance, PTL DEF Spec, AiLoadIsGoverned

(***************************************************************************)
(* So where no answer costs more than its estimate and no operator lowers  *)
(* the limit, the day's charges and open reservations stay within it.      *)
(***************************************************************************)
THEOREM AiBudgetIsKeptAtEstimates ==
  ASSUME Costs \subseteq 0..1
  PROVE  Spec /\ [][aiLimit' >= aiLimit]_vars => [](AiLoad <= aiLimit)
<1>1. Init => AiLoad <= aiLimit
  <2> SUFFICES ASSUME Init  PROVE  AiLoad <= aiLimit
    OBVIOUS
  <2>1. AiHeld = {} /\ aiSpent = 0 /\ aiLimit \in Nat
    BY EngineConstants DEF Init, AiHeld
  <2> QED BY <2>1, FS_EmptySet DEF AiLoad
<1>2. /\ IInv /\ AiLoad <= aiLimit /\ [Next]_vars /\ [aiLimit' >= aiLimit]_vars
      => (AiLoad <= aiLimit)'
  <2> SUFFICES ASSUME IInv, AiLoad <= aiLimit, [Next]_vars, [aiLimit' >= aiLimit]_vars
               PROVE  AiLoad' <= aiLimit'
    OBVIOUS
  <2>1. aiLimit \in Nat /\ aiLimit' \in Nat
    BY NextTypes, EngineConstants DEF IInv, TypeOK
  <2>2. aiLimit' >= aiLimit
    BY <2>1 DEF vars, resourceVars, policyVars
  <2>3. AiLoad' <= AiLoad \/ AiLoad' <= aiLimit
    <3>1. ASSUME NEW cost \in Costs, AiLoad' = AiLoad + cost - 1  PROVE  AiLoad' <= AiLoad
      BY <3>1, LoadSteps
    <3> QED BY <3>1, LoadSteps
  <2> QED BY <2>1, <2>2, <2>3, LoadSteps
<1> QED BY <1>1, <1>2, Invariance, PTL DEF Spec

-----------------------------------------------------------------------------
(* An item's approval has one life too *)

\* Here an approval is the state of one row; ended rows stand for nothing.
ItemStage(i) == IF approval[i] \in {"none", "consumed", "closed"} THEN "none" ELSE approval[i]
Life(i) == INSTANCE SubjectApproval WITH stage <- ItemStage(i)

\* Every step moves an item's approval along its life.
LEMMA LifeStep ==
  ASSUME IInv, [Next]_vars, NEW i \in Items
  PROVE  Life(i)!LifecycleNext \/ ItemStage(i)' = ItemStage(i)
<1> USE DEF IInv, TypeOK, ledgerVars
<1>1. CASE UNCHANGED approval
  BY <1>1 DEF ItemStage
<1>2. ASSUME NEW t \in Tasks, RequireApproval(t)
      PROVE  Life(i)!LifecycleNext \/ ItemStage(i)' = ItemStage(i)
  BY <1>2 DEF RequireApproval, ItemStage, Life!LifecycleNext, Life!Ask
<1>3. ASSUME NEW t \in Tasks, ClaimApproval(t)
      PROVE  Life(i)!LifecycleNext \/ ItemStage(i)' = ItemStage(i)
  BY <1>3 DEF ClaimApproval, ItemStage, Life!LifecycleNext, Life!Begin
<1>4. ASSUME NEW t \in Tasks, Answer(t)
      PROVE  Life(i)!LifecycleNext \/ ItemStage(i)' = ItemStage(i)
  <2>1. approval'[i] = approval[i] \/ (approval[i] = "consuming" /\ approval'[i] = "consumed")
    BY <1>4 DEF Answer
  <2> QED BY <2>1 DEF ItemStage, Life!LifecycleNext, Life!End
<1>5. ASSUME NEW j \in Items, GrantApproval(j) \/ CloseApproval(j)
      PROVE  Life(i)!LifecycleNext \/ ItemStage(i)' = ItemStage(i)
  BY <1>5 DEF GrantApproval, CloseApproval, ItemStage, Life!LifecycleNext, Life!Allow, Life!Close
<1>6. CASE EngineCycle \/ Resources \/ Pauses \/ HiveCoreRestarts \/ UNCHANGED vars
  BY <1>1, <1>6 DEF EngineCycle, RecoverClaims, ClaimNextWork, Resources, Heartbeat, ResourcesLapse,
              SweepResources, DayPasses, SaveResourcePolicy, Pauses, PauseTarget, ResumeTarget,
              HiveCoreRestarts, vars
<1>7. ASSUME NEW j \in Items,
             \/ ProposeWork(j) \/ LeaseLapses(j) \/ CooledDown(j) \/ OutcomeRecorded(j)
             \/ \E t \in Calls : CallDispatchApproved(t, j)
      PROVE  Life(i)!LifecycleNext \/ ItemStage(i)' = ItemStage(i)
  BY <1>1, <1>7 DEF ProposeWork, LeaseLapses, CooledDown, OutcomeRecorded, CallDispatchApproved
<1>8. ASSUME NEW t \in Tasks,
             \/ CheckAuthority(t) \/ ClaimResources(t) \/ DispatchRefused(t) \/ PassPauseCheck(t)
             \/ SendAutomatic(t) \/ CheckApproval(t) \/ SendApproved(t)
             \/ SettleResources(t) \/ SettleItem(t)
      PROVE  Life(i)!LifecycleNext \/ ItemStage(i)' = ItemStage(i)
  BY <1>1, <1>8 DEF CheckAuthority, ClaimResources, DispatchRefused, PassPauseCheck, SendAutomatic,
              CheckApproval, SendApproved, SettleResources, SettleItem
<1> QED BY <1>2, <1>3, <1>4, <1>5, <1>6, <1>7, <1>8 DEF Next, TaskStep, Ledger

(***************************************************************************)
(* The one row per item this module keeps in place of the approvals is a   *)
(* faithful view of them: it has the same life as the rows of a subject    *)
(* have in ApprovalsProofs.  What is being consumed is never closed by the *)
(* operator, and a grant starts to be consumed once: a second call that    *)
(* claims it changes nothing.                                              *)
(***************************************************************************)
THEOREM ItemApprovalsHaveOneLife ==
  ASSUME NEW i \in Items
  PROVE  Spec => Life(i)!LifecycleSpec
<1>1. Init => Life(i)!LifecycleInit
  BY DEF Init, ItemStage, Life!LifecycleInit
<1>2. IInv /\ [Next]_vars => [Life(i)!LifecycleNext]_(ItemStage(i))
  BY LifeStep
<1> QED BY <1>1, <1>2, Invariance, PTL DEF Spec, Life!LifecycleSpec

-----------------------------------------------------------------------------
(* Items that wait in vain *)

\* A call that found its item's approval granted.
Found(t, i) == work[t] = i /\ (t \in sent \/ step[t] \in {"checked", "authorized"})

\* The approval an item awaits has ended or is being consumed, and no call that
\* runs may have claimed it or yet claim it.
WaitsInVain(i) ==
  /\ state[i] = "awaiting"
  /\ \/ approval[i] = "closed"
     \/ /\ approval[i] \in {"consuming", "consumed"}
        /\ \A t \in Calls : Found(t, i) => ~ Running(t)

\* Only a call that found the approval granted settles the item that awaits it.
LEMMA StillWaits ==
  ASSUME NEW i, WaitsInVain(i), state'[i] = "awaiting", approval'[i] = approval[i],
         \A t \in Calls : Found(t, i)' /\ Running(t)' => Found(t, i) /\ Running(t)
  PROVE  WaitsInVain(i)'
BY DEF WaitsInVain

\* Nobody else does.
LEMMA WaitsOn ==
  ASSUME IInv, [Next]_vars, NEW i \in Items, WaitsInVain(i)
  PROVE  WaitsInVain(i)'
<1> USE DEF IInv, TypeOK, Running, sendVars
<1>1. state[i] = "awaiting" /\ approval[i] \in {"closed", "consuming", "consumed"}
  BY DEF WaitsInVain
<1>2. \A t \in Tasks : work[t] = i /\ t \in sent => t \in Calls
  BY <1>1 DEF LedgerInv, ApprovalsDecide, Contends, Tasks
<1>3. /\ \A t \in Tasks : work[t] = i /\ (step[t] = "authorized" \/ t \in sent) =>
             ~ Running(t) /\ approval[i] \in {"consuming", "consumed"}
      /\ \A t \in Tasks : work[t] = i /\ step[t] = "checked" => approval[i] = "closed"
  BY <1>1, <1>2 DEF LedgerInv, ApprovalsDecide, Spends, Tasks, TasksAreInStep, WaitsInVain, Found
<1>4. CASE UNCHANGED <<state, approval, work, step, sent>>
  BY <1>1, <1>4, StillWaits DEF Found
<1>5. ASSUME NEW t \in Tasks, TaskStep(t)  PROVE  WaitsInVain(i)'
  <2>1. step[t] \notin {"idle", "done", "lost"} /\ work'= work
    BY <1>5 DEF TaskStep, CheckAuthority, ClaimResources, DispatchRefused, PassPauseCheck,
         RequireApproval, SendAutomatic, CheckApproval, ClaimApproval, SendApproved, Answer, SettleResources,
         SettleItem, Withhold, ledgerVars
  <2>2. work[t] = i => t \notin sent /\ step[t] \notin {"authorized", "sent"}
    BY <2>1, <1>3 DEF TasksAreInStep
  <2>3. work[t] = i /\ t \in Engine => step[t] \notin Early
    BY <1>1 DEF LedgerInv, ApprovalsDecide, Contends
  <2>4. state'[i] = "awaiting"
    <3>1. CASE SettleItem(t)
      <4>1. work[t] = i /\ t \in Engine => holder[i] # t
        BY <1>1, EngineConstants DEF LedgerInv, ClaimsAreHeld, Tasks
      <4>2. work[t] = i => t \notin Calls
        BY <2>2, <3>1 DEF SettleItem, TasksAreInStep
      <4> QED BY <3>1, <4>1, <4>2, <1>1 DEF SettleItem, Tasks
    <3>2. CASE ~ SettleItem(t)
      BY <1>1, <1>5, <3>2 DEF TaskStep, CheckAuthority, ClaimResources, DispatchRefused, PassPauseCheck,
         RequireApproval, SendAutomatic, CheckApproval, ClaimApproval, SendApproved, Answer, SettleResources, ledgerVars
    <3> QED BY <3>1, <3>2
  <2>5. approval'[i] = approval[i]
    <3>1. CASE RequireApproval(t)
      BY <2>3, <3>1 DEF RequireApproval, Early
    <3>2. CASE ClaimApproval(t)
      BY <1>1, <1>3, <3>2 DEF ClaimApproval
    <3>3. CASE Answer(t)
      BY <2>2, <3>3 DEF Answer
    <3>4. CASE ~ RequireApproval(t) /\ ~ ClaimApproval(t) /\ ~ Answer(t)
      BY <1>5, <3>4 DEF TaskStep, CheckAuthority, ClaimResources, DispatchRefused, PassPauseCheck,
         SendAutomatic, CheckApproval, SendApproved, SettleResources, SettleItem, ledgerVars
    <3> QED BY <3>1, <3>2, <3>3, <3>4
  <2>6. work[t] = i => t \notin sent' /\ step'[t] \notin {"checked", "authorized"}
    <3>1. CASE SendAutomatic(t) \/ SendApproved(t) \/ CheckApproval(t) \/ ClaimApproval(t)
      BY <1>1, <1>3, <2>2, <2>3, <3>1
         DEF SendAutomatic, SendApproved, CheckApproval, ClaimApproval, Early
    <3>2. CASE ~ (SendAutomatic(t) \/ SendApproved(t) \/ CheckApproval(t) \/ ClaimApproval(t))
      BY <1>5, <2>2, <3>2 DEF TaskStep, CheckAuthority, ClaimResources, DispatchRefused, PassPauseCheck,
         RequireApproval, Answer, SettleResources, SettleItem, Withhold, Ends
    <3> QED BY <3>1, <3>2
  <2>7. \A u \in Tasks \ {t} : step'[u] = step[u] /\ (u \in sent' <=> u \in sent)
    BY <1>5 DEF TaskStep, CheckAuthority, ClaimResources, DispatchRefused, PassPauseCheck,
         RequireApproval, SendAutomatic, CheckApproval, ClaimApproval, SendApproved, Answer, SettleResources,
         SettleItem, Withhold, Ends
  <2> QED BY <2>1, <2>4, <2>5, <2>6, <2>7, StillWaits DEF Found, Tasks
<1>6. ASSUME NEW t \in Tasks, NEW j \in Items, ClaimNextWork(t, j) \/ CallDispatchApproved(t, j)
      PROVE  WaitsInVain(i)'
  <2>1. step[t] = "idle" /\ \A u \in Tasks \ {t} : step'[u] = step[u] /\ work'[u] = work[u]
    BY <1>6, FreshStarts DEF ClaimNextWork, CallDispatchApproved, Tasks
  <2>2. step'[t] \in {"claimed", "cleared"} /\ t \notin sent /\ sent' = sent
    BY <1>6, <2>1 DEF ClaimNextWork, CallDispatchApproved, TasksAreInStep
  <2>3. \A u \in Calls : Found(u, i)' /\ Running(u)' => Found(u, i) /\ Running(u)
    BY <2>1, <2>2 DEF Found, Tasks
  <2>4. state'[i] = "awaiting" /\ approval'[i] = approval[i]
    BY <1>1, <1>6 DEF ClaimNextWork, CallDispatchApproved, Claimable, Recovered, ledgerVars
  <2> QED BY <2>3, <2>4, StillWaits
<1>7. ASSUME NEW j \in Items,
             \/ ProposeWork(j) \/ LeaseLapses(j) \/ CooledDown(j) \/ OutcomeRecorded(j)
             \/ GrantApproval(j) \/ CloseApproval(j)
      PROVE  WaitsInVain(i)'
  BY <1>1, <1>7, StillWaits DEF Found, ProposeWork, LeaseLapses, CooledDown, OutcomeRecorded, GrantApproval,
     CloseApproval, taskVars
<1>8. CASE RecoverClaims
  BY <1>1, <1>8, StillWaits DEF Found, RecoverClaims, Recovered, taskVars
<1>9. CASE HiveCoreRestarts
  <2>1. \A u \in Calls : ~ (Found(u, i)' /\ Running(u)') \/ (Found(u, i) /\ Running(u))
    BY <1>9 DEF HiveCoreRestarts, Found, Tasks
  <2>2. state'[i] = "awaiting" /\ approval'[i] = approval[i]
    BY <1>1, <1>9 DEF HiveCoreRestarts, ledgerVars
  <2> QED BY <2>1, <2>2, StillWaits
<1>10. CASE Resources \/ Pauses \/ UNCHANGED vars
  BY <1>4, <1>10 DEF Resources, Heartbeat, ResourcesLapse, SweepResources, DayPasses, SaveResourcePolicy,
     Pauses, PauseTarget, ResumeTarget, vars, ledgerVars, taskVars
<1> QED BY <1>5, <1>6, <1>7, <1>8, <1>9, <1>10 DEF Next, EngineCycle, Ledger, Tasks

(***************************************************************************)
(* An item whose approval is denied, revoked or expires while it waits,    *)
(* and one whose call is lost to a restart after it began to consume the   *)
(* approval, waits for ever: nothing tells the ledger, so the item is      *)
(* neither dispatched nor failed, and being held it is not proposed anew.  *)
(***************************************************************************)
THEOREM ItemsWaitInVain ==
  ASSUME NEW i \in Items
  PROVE  Spec =>
           /\ [][state[i] = "awaiting" /\ CloseApproval(i) => WaitsInVain(i)']_vars
           /\ [][/\ state[i] = "awaiting" /\ approval[i] \in {"consuming", "consumed"}
                 /\ HiveCoreRestarts
                 => WaitsInVain(i)']_vars
           /\ [](WaitsInVain(i) => []WaitsInVain(i))
<1>1. IInv /\ [Next]_vars =>
        [state[i] = "awaiting" /\ CloseApproval(i) => WaitsInVain(i)']_vars
  BY DEF CloseApproval, WaitsInVain, IInv, TypeOK
<1>2. IInv /\ [Next]_vars =>
        [/\ state[i] = "awaiting" /\ approval[i] \in {"consuming", "consumed"}
         /\ HiveCoreRestarts
         => WaitsInVain(i)']_vars
  BY DEF HiveCoreRestarts, WaitsInVain, Running, ledgerVars, IInv, TypeOK, Tasks
<1>3. IInv /\ [Next]_vars /\ WaitsInVain(i) => WaitsInVain(i)'
  BY WaitsOn
<1> QED BY <1>1, <1>2, <1>3, Invariance, PTL DEF Spec
=============================================================================
