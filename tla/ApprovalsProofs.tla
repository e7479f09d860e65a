--------------------------- MODULE ApprovalsProofs ---------------------------
(***************************************************************************)
(* Theorems about the approvals, for any number of approvals, contracts    *)
(* and concurrent dispatch tasks.                                          *)
(*                                                                         *)
(* A task is a holder once its claim succeeded.  A holder's row is         *)
(* consuming or consumed, which no handler undoes; and two holders of one  *)
(* row, or a holder and a task about to claim its row, run in one life of  *)
(* HiveCore, because a task that saw the grant saw it before any claim.    *)
(***************************************************************************)
EXTENDS Approvals, TLAPS

Running == {"read", "fetched", "checked", "claimed", "answered", "consumed", "unconsumed"}

\* The tasks that went through the claim and the tasks whose request arrived.
Holders ==
  {t \in Tasks : step[t] \in {"claimed", "answered", "consumed", "unconsumed", "done"}
                   \/ t \in received}

\* A task aims at an existing row, and runs in the present life of HiveCore.
TasksAimAtRows ==
  \A t \in Tasks :
    /\ step[t] # "idle" => aim[t] \in Approvals /\ lifecycle[aim[t]] # "absent"
    /\ step[t] = "idle" => report[t] = "none"
    /\ step[t] \in {"idle", "read", "fetched", "checked"} => t \notin received
    /\ step[t] \in Running => era[t] = restarts

HoldersAreAuthorized ==
  \A t \in Holders :
    /\ lifecycle[aim[t]] \in {"consuming", "consumed"}
    /\ subject[aim[t]].contract = seen[t]
    /\ seen[t] \in Gated

\* Nobody held the row of a checked task before this life of HiveCore.
CheckedTasksAreCurrent ==
  \A t \in Tasks : step[t] = "checked" =>
    /\ subject[aim[t]].contract = seen[t]
    /\ seen[t] \in Gated
    /\ \A u \in Holders : aim[u] = aim[t] => era[u] = era[t]

HoldersShareALife ==
  \A t, u \in Holders : aim[t] = aim[u] => era[t] = era[u]

\* A consumed row names a task that knows its outcome and will not change it.
ConsumedRowsNameTheirTask ==
  /\ \A t \in Tasks :
       /\ step[t] = "consumed" => lifecycle[aim[t]] = "consumed"
       /\ step[t] = "answered" /\ remote[t] # "uncertain" => t \in received
  /\ \A a \in Approvals :
       lifecycle[a] = "consumed" =>
         consumedBy[a] \in Tasks /\ step[consumedBy[a]] \in {"consumed", "done", "lost"}

IInv ==
  /\ TypeOK
  /\ TasksAimAtRows
  /\ HoldersAreAuthorized
  /\ CheckedTasksAreCurrent
  /\ HoldersShareALife
  /\ ConsumedRowsNameTheirTask
  /\ DispatchedIsDurable
  /\ OneLiveApprovalPerSubject

-----------------------------------------------------------------------------
(* Rows *)

\* A sweep expires pending and granted rows and leaves the others alone.
LEMMA SweptRows ==
  ASSUME TypeOK
  PROVE  /\ Swept \in [Approvals -> {"absent"} \cup Live \cup Final]
         /\ \A a \in Approvals :
              \/ Swept[a] = lifecycle[a]
              \/ lifecycle[a] \in {"pending", "granted"} /\ Swept[a] = "expired"
BY DEF TypeOK, Swept, Live, Final

\* A transition moves at most one row that was live before it.
LEMMA TransitionRows ==
  ASSUME TypeOK, NEW a \in Approvals, NEW from \in SUBSET Live, NEW to \in Live \cup Final,
         Transition(a, from, to)
  PROVE  /\ lifecycle' \in [Approvals -> {"absent"} \cup Live \cup Final]
         /\ \A b \in Approvals :
              \/ lifecycle'[b] = lifecycle[b]
              \/ lifecycle[b] \in {"pending", "granted"} /\ lifecycle'[b] = "expired"
              \/ b = a /\ lifecycle[b] \in from /\ lifecycle'[b] = to
         /\ overdue' = {}
         /\ UNCHANGED <<subject, consumedBy, outcome>>
BY SweptRows DEF Transition, Live

\* What the operator, the clock and every sweep may do to rows that tasks use.
RowsOnlyMove ==
  /\ \A a \in Approvals :
       /\ lifecycle[a] \in {"consuming", "consumed"} => lifecycle'[a] = lifecycle[a]
       /\ lifecycle'[a] = "consumed" => lifecycle[a] = "consumed"
       /\ lifecycle[a] # "absent" => lifecycle'[a] # "absent" /\ subject'[a] = subject[a]
  /\ UNCHANGED <<consumedBy, outcome, taskVars, received, events, restarts>>

\* Rows that only move keep every fact about tasks and holders.
LEMMA RowsMove ==
  ASSUME IInv, RowsOnlyMove, TypeOK', OneLiveApprovalPerSubject'
  PROVE  IInv'
<1> USE DEF RowsOnlyMove, taskVars
<1>1. TasksAimAtRows'
  BY DEF IInv, TasksAimAtRows, Running
<1>2. Holders' = Holders /\ Holders \subseteq Tasks
  BY DEF Holders
<1>3. \A t \in Holders : step[t] # "idle"
  BY DEF IInv, TasksAimAtRows, Holders
<1>4. HoldersAreAuthorized'
  BY <1>2, <1>3 DEF IInv, HoldersAreAuthorized, TasksAimAtRows
<1>5. CheckedTasksAreCurrent'
  BY <1>2 DEF IInv, CheckedTasksAreCurrent, TasksAimAtRows
<1>6. HoldersShareALife'
  BY <1>2 DEF IInv, HoldersShareALife
<1>7. ConsumedRowsNameTheirTask'
  BY DEF IInv, ConsumedRowsNameTheirTask, TasksAimAtRows
<1>8. DispatchedIsDurable'
  BY DEF IInv, DispatchedIsDurable, TasksAimAtRows, TypeOK, Reports
<1> QED BY <1>1, <1>4, <1>5, <1>6, <1>7, <1>8 DEF IInv

\* No new live row, no new twin.
LEMMA NoNewTwins ==
  ASSUME OneLiveApprovalPerSubject, UNCHANGED subject,
         \A a \in Approvals : lifecycle'[a] \in Live => lifecycle[a] \in Live
  PROVE  OneLiveApprovalPerSubject'
BY DEF OneLiveApprovalPerSubject

\* Grants, denials and revocations.
LEMMA OperatorMoves ==
  ASSUME IInv, NEW a \in Approvals,
         \/ Transition(a, {"pending"}, "granted")
         \/ Transition(a, {"pending"}, "denied")
         \/ Transition(a, {"pending", "granted"}, "revoked"),
         UNCHANGED <<contract, taskVars, received, events, restarts>>
  PROVE  IInv'
<1>1. PICK from \in {{"pending"}, {"pending", "granted"}}, to \in {"granted", "denied", "revoked"} :
        Transition(a, from, to)
  OBVIOUS
<1>2. from \in SUBSET Live /\ to \in Live \cup Final /\ TypeOK
  BY DEF Live, Final, IInv
<1>3. /\ lifecycle' \in [Approvals -> {"absent"} \cup Live \cup Final]
      /\ \A b \in Approvals :
           \/ lifecycle'[b] = lifecycle[b]
           \/ lifecycle[b] \in {"pending", "granted"} /\ lifecycle'[b] = "expired"
           \/ b = a /\ lifecycle[b] \in from /\ lifecycle'[b] = to
      /\ overdue' = {}
      /\ UNCHANGED <<subject, consumedBy, outcome>>
  BY <1>1, <1>2, TransitionRows
<1>4. TypeOK'
  BY <1>3 DEF IInv, TypeOK, taskVars
<1>5. RowsOnlyMove
  BY <1>3 DEF RowsOnlyMove
<1>6. OneLiveApprovalPerSubject'
  BY <1>3, NoNewTwins DEF IInv, Live
<1> QED BY <1>4, <1>5, <1>6, RowsMove

\* A sweep of its own, whoever runs it, with the tasks left alone.
LEMMA SweepMoves ==
  ASSUME IInv, Sweep, UNCHANGED <<contract, taskVars, received, events, restarts>>
  PROVE  IInv'
<1> USE SweptRows DEF Sweep
<1>1. TypeOK'
  BY DEF IInv, TypeOK, taskVars
<1>2. RowsOnlyMove
  BY DEF IInv, RowsOnlyMove
<1>3. OneLiveApprovalPerSubject'
  BY NoNewTwins DEF IInv, Live
<1> QED BY <1>1, <1>2, <1>3, RowsMove

\* A new approval has no live twin.
LEMMA CreateOrGetPreserves ==
  ASSUME IInv, NEW a \in Approvals, NEW s \in Subjects, CreateOrGet(a, s)
  PROVE  IInv'
<1> USE SweptRows DEF CreateOrGet
<1>1. lifecycle[a] = "absent" /\ TypeOK
  BY DEF IInv
<1>2. TypeOK'
  BY DEF IInv, TypeOK, taskVars, Live
<1>3. RowsOnlyMove
  BY <1>1 DEF RowsOnlyMove, TypeOK
<1>4. OneLiveApprovalPerSubject'
  <2>1. CASE \E b \in Approvals : subject[b] = s /\ Swept[b] \in Live
    <3>1. UNCHANGED subject /\ lifecycle' = Swept
      BY <2>1
    <3> QED BY <3>1, <1>1, NoNewTwins DEF IInv, Live
  <2>2. CASE ~ \E b \in Approvals : subject[b] = s /\ Swept[b] \in Live
    <3>1. lifecycle' = [Swept EXCEPT ![a] = "pending"] /\ subject' = [subject EXCEPT ![a] = s]
      BY <2>2
    <3>2. \A b \in Approvals : b # a /\ lifecycle'[b] \in Live =>
             lifecycle[b] \in Live /\ Swept[b] \in Live /\ subject'[b] = subject[b]
      BY <3>1, <1>1 DEF Live, TypeOK
    <3>3. subject'[a] = s
      BY <3>1, <1>1 DEF TypeOK
    <3> QED BY <2>2, <3>2, <3>3 DEF IInv, OneLiveApprovalPerSubject
  <2> QED BY <2>1, <2>2
<1> QED BY <1>2, <1>3, <1>4, RowsMove

-----------------------------------------------------------------------------
(* Dispatch tasks *)

\* A task that starts aims at an existing row and holds nothing.
LEMMA DispatchApprovedPreserves ==
  ASSUME IInv, NEW t \in Tasks, NEW a \in Approvals, DispatchApproved(t, a)
  PROVE  IInv'
<1> USE SweptRows DEF DispatchApproved, Goes, Sweep, rowVars
<1>2. TypeOK'
  BY DEF IInv, TypeOK, Steps
<1>3. TasksAimAtRows'
  BY DEF IInv, TypeOK, TasksAimAtRows, Running
<1>4. HoldersAreAuthorized'
  BY DEF IInv, TypeOK, TasksAimAtRows, HoldersAreAuthorized, Holders
<1>5. CheckedTasksAreCurrent'
  BY DEF IInv, TypeOK, TasksAimAtRows, CheckedTasksAreCurrent, Holders
<1>6. HoldersShareALife'
  BY DEF IInv, TypeOK, TasksAimAtRows, HoldersShareALife, Holders
<1>7. ConsumedRowsNameTheirTask'
  BY DEF IInv, TypeOK, TasksAimAtRows, ConsumedRowsNameTheirTask
<1>8. DispatchedIsDurable'
  BY DEF IInv, TypeOK, TasksAimAtRows, ConsumedRowsNameTheirTask, DispatchedIsDurable, Reports
<1>9. OneLiveApprovalPerSubject'
  BY DEF IInv, OneLiveApprovalPerSubject, Live
<1> QED BY <1>2, <1>3, <1>4, <1>5, <1>6, <1>7, <1>8, <1>9 DEF IInv

\* A fetched contract is no authority yet.
LEMMA FetchContractPreserves ==
  ASSUME IInv, NEW t \in Tasks, FetchContract(t)
  PROVE  IInv'
<1> USE DEF FetchContract, Goes, rowVars
<1>2. TypeOK'
  BY DEF IInv, TypeOK, Steps
<1>3. TasksAimAtRows'
  BY DEF IInv, TypeOK, TasksAimAtRows, Running
<1>4. HoldersAreAuthorized'
  BY DEF IInv, TypeOK, TasksAimAtRows, HoldersAreAuthorized, Holders
<1>5. CheckedTasksAreCurrent'
  BY DEF IInv, TypeOK, TasksAimAtRows, CheckedTasksAreCurrent, Holders
<1>6. HoldersShareALife'
  BY DEF IInv, TypeOK, TasksAimAtRows, HoldersShareALife, Holders
<1>7. ConsumedRowsNameTheirTask'
  BY DEF IInv, TypeOK, TasksAimAtRows, ConsumedRowsNameTheirTask
<1>8. DispatchedIsDurable'
  BY DEF IInv, TypeOK, TasksAimAtRows, ConsumedRowsNameTheirTask, DispatchedIsDurable, Reports
<1>9. OneLiveApprovalPerSubject'
  BY DEF IInv, OneLiveApprovalPerSubject, Live
<1> QED BY <1>2, <1>3, <1>4, <1>5, <1>6, <1>7, <1>8, <1>9 DEF IInv

\* A refused task holds nothing.
LEMMA RefusedPreserves ==
  ASSUME IInv, NEW t \in Tasks, Refused(t)
  PROVE  IInv'
<1> USE DEF Refused, rowVars
<1>2. TypeOK'
  BY DEF IInv, TypeOK, Steps
<1>3. TasksAimAtRows'
  BY DEF IInv, TypeOK, TasksAimAtRows, Running
<1>4. HoldersAreAuthorized'
  BY DEF IInv, TypeOK, TasksAimAtRows, HoldersAreAuthorized, Holders
<1>5. CheckedTasksAreCurrent'
  BY DEF IInv, TypeOK, TasksAimAtRows, CheckedTasksAreCurrent, Holders
<1>6. HoldersShareALife'
  BY DEF IInv, TypeOK, TasksAimAtRows, HoldersShareALife, Holders
<1>7. ConsumedRowsNameTheirTask'
  BY DEF IInv, TypeOK, TasksAimAtRows, ConsumedRowsNameTheirTask
<1>8. DispatchedIsDurable'
  BY DEF IInv, TypeOK, TasksAimAtRows, ConsumedRowsNameTheirTask, DispatchedIsDurable, Reports
<1>9. OneLiveApprovalPerSubject'
  BY DEF IInv, OneLiveApprovalPerSubject, Live
<1> QED BY <1>2, <1>3, <1>4, <1>5, <1>6, <1>7, <1>8, <1>9 DEF IInv

\* A task that sees a grant sees a row without holders.
LEMMA CheckPreserves ==
  ASSUME IInv, NEW t \in Tasks, Check(t)
  PROVE  IInv'
<1> USE SweptRows DEF Check, Goes, Sweep, rowVars
<1>2. TypeOK'
  BY DEF IInv, TypeOK, Steps
<1>3. TasksAimAtRows'
  BY DEF IInv, TypeOK, TasksAimAtRows, Running
<1>4. HoldersAreAuthorized'
  BY DEF IInv, TypeOK, TasksAimAtRows, HoldersAreAuthorized, Holders
<1>5. CheckedTasksAreCurrent'
  BY DEF IInv, TypeOK, TasksAimAtRows, CheckedTasksAreCurrent, Holders, Authorized, HoldersAreAuthorized
<1>6. HoldersShareALife'
  BY DEF IInv, TypeOK, TasksAimAtRows, HoldersShareALife, Holders
<1>7. ConsumedRowsNameTheirTask'
  BY DEF IInv, TypeOK, TasksAimAtRows, ConsumedRowsNameTheirTask
<1>8. DispatchedIsDurable'
  BY DEF IInv, TypeOK, TasksAimAtRows, ConsumedRowsNameTheirTask, DispatchedIsDurable, Reports
<1>9. OneLiveApprovalPerSubject'
  BY DEF IInv, OneLiveApprovalPerSubject, Live
<1> QED BY <1>2, <1>3, <1>4, <1>5, <1>6, <1>7, <1>8, <1>9 DEF IInv

\* A claim succeeds on a row that is, or becomes, consuming.
LEMMA ClaimPreserves ==
  ASSUME IInv, NEW t \in Tasks, Claim(t)
  PROVE  IInv'
<1> USE SweptRows DEF Claim, Goes, Transition, rowVars
<1>2. TypeOK'
  BY DEF IInv, TypeOK, Steps, Live, Final
<1>3. TasksAimAtRows'
  BY DEF IInv, TypeOK, TasksAimAtRows, Running
<1>4. HoldersAreAuthorized'
  BY DEF IInv, TypeOK, TasksAimAtRows, HoldersAreAuthorized, Holders, CheckedTasksAreCurrent
<1>5. CheckedTasksAreCurrent'
  BY DEF IInv, TypeOK, TasksAimAtRows, CheckedTasksAreCurrent, Holders, Running
<1>6. HoldersShareALife'
  BY DEF IInv, TypeOK, TasksAimAtRows, HoldersShareALife, Holders, CheckedTasksAreCurrent
<1>7. ConsumedRowsNameTheirTask'
  BY DEF IInv, TypeOK, TasksAimAtRows, ConsumedRowsNameTheirTask
<1>8. DispatchedIsDurable'
  BY DEF IInv, TypeOK, TasksAimAtRows, ConsumedRowsNameTheirTask, DispatchedIsDurable, Reports
<1>9. OneLiveApprovalPerSubject'
  BY DEF IInv, OneLiveApprovalPerSubject, Live
<1> QED BY <1>2, <1>3, <1>4, <1>5, <1>6, <1>7, <1>8, <1>9 DEF IInv

\* A request that arrives is a holder's.
LEMMA SendPreserves ==
  ASSUME IInv, NEW t \in Tasks, Send(t)
  PROVE  IInv'
<1> USE DEF Send, Goes, rowVars
<1>2. TypeOK'
  BY DEF IInv, TypeOK, Steps
<1>3. TasksAimAtRows'
  BY DEF IInv, TypeOK, TasksAimAtRows, Running
<1>4. HoldersAreAuthorized'
  BY DEF IInv, TypeOK, TasksAimAtRows, HoldersAreAuthorized, Holders
<1>5. CheckedTasksAreCurrent'
  BY DEF IInv, TypeOK, TasksAimAtRows, CheckedTasksAreCurrent, Holders
<1>6. HoldersShareALife'
  BY DEF IInv, TypeOK, TasksAimAtRows, HoldersShareALife, Holders
<1>7. ConsumedRowsNameTheirTask'
  BY DEF IInv, TypeOK, TasksAimAtRows, ConsumedRowsNameTheirTask
<1>8. DispatchedIsDurable'
  BY DEF IInv, TypeOK, TasksAimAtRows, ConsumedRowsNameTheirTask, DispatchedIsDurable, Reports
<1>9. OneLiveApprovalPerSubject'
  BY DEF IInv, OneLiveApprovalPerSubject, Live
<1> QED BY <1>2, <1>3, <1>4, <1>5, <1>6, <1>7, <1>8, <1>9 DEF IInv

\* The first consumption of a row names its task and outcome.
LEMMA ConsumePreserves ==
  ASSUME IInv, NEW t \in Tasks, Consume(t)
  PROVE  IInv'
<1> USE DEF Consume, Goes, rowVars
<1>2. TypeOK'
  BY DEF IInv, TypeOK, Steps, Live, Final
<1>3. TasksAimAtRows'
  BY DEF IInv, TypeOK, TasksAimAtRows, Running
<1>4. HoldersAreAuthorized'
  BY DEF IInv, TypeOK, TasksAimAtRows, HoldersAreAuthorized, Holders
<1>5. CheckedTasksAreCurrent'
  BY DEF IInv, TypeOK, TasksAimAtRows, CheckedTasksAreCurrent, Holders
<1>6. HoldersShareALife'
  BY DEF IInv, TypeOK, TasksAimAtRows, HoldersShareALife, Holders
<1>7. ConsumedRowsNameTheirTask'
  BY DEF IInv, TypeOK, TasksAimAtRows, ConsumedRowsNameTheirTask, HoldersAreAuthorized, Holders
<1>8. DispatchedIsDurable'
  BY DEF IInv, TypeOK, TasksAimAtRows, ConsumedRowsNameTheirTask, DispatchedIsDurable, Reports, HoldersAreAuthorized, Holders
<1>9. OneLiveApprovalPerSubject'
  BY DEF IInv, TypeOK, TasksAimAtRows, OneLiveApprovalPerSubject, Live
<1> QED BY <1>2, <1>3, <1>4, <1>5, <1>6, <1>7, <1>8, <1>9 DEF IInv

\* A failed consumption leaves the row consuming.
LEMMA ConsumeFailsPreserves ==
  ASSUME IInv, NEW t \in Tasks, ConsumeFails(t)
  PROVE  IInv'
<1> USE DEF ConsumeFails, Goes, rowVars
<1>2. TypeOK'
  BY DEF IInv, TypeOK, Steps
<1>3. TasksAimAtRows'
  BY DEF IInv, TypeOK, TasksAimAtRows, Running
<1>4. HoldersAreAuthorized'
  BY DEF IInv, TypeOK, TasksAimAtRows, HoldersAreAuthorized, Holders
<1>5. CheckedTasksAreCurrent'
  BY DEF IInv, TypeOK, TasksAimAtRows, CheckedTasksAreCurrent, Holders
<1>6. HoldersShareALife'
  BY DEF IInv, TypeOK, TasksAimAtRows, HoldersShareALife, Holders
<1>7. ConsumedRowsNameTheirTask'
  BY DEF IInv, TypeOK, TasksAimAtRows, ConsumedRowsNameTheirTask
<1>8. DispatchedIsDurable'
  BY DEF IInv, TypeOK, TasksAimAtRows, ConsumedRowsNameTheirTask, DispatchedIsDurable, Reports
<1>9. OneLiveApprovalPerSubject'
  BY DEF IInv, OneLiveApprovalPerSubject, Live
<1> QED BY <1>2, <1>3, <1>4, <1>5, <1>6, <1>7, <1>8, <1>9 DEF IInv

\* Only a stored event and a consumed row make a dispatch.
LEMMA RecordEventPreserves ==
  ASSUME IInv, NEW t \in Tasks, RecordEvent(t)
  PROVE  IInv'
<1> USE DEF RecordEvent, rowVars
<1>2. TypeOK'
  BY DEF IInv, TypeOK, Steps, Reports
<1>3. TasksAimAtRows'
  BY DEF IInv, TypeOK, TasksAimAtRows, Running
<1>4. HoldersAreAuthorized'
  BY DEF IInv, TypeOK, TasksAimAtRows, HoldersAreAuthorized, Holders
<1>5. CheckedTasksAreCurrent'
  BY DEF IInv, TypeOK, TasksAimAtRows, CheckedTasksAreCurrent, Holders
<1>6. HoldersShareALife'
  BY DEF IInv, TypeOK, TasksAimAtRows, HoldersShareALife, Holders
<1>7. ConsumedRowsNameTheirTask'
  BY DEF IInv, TypeOK, TasksAimAtRows, ConsumedRowsNameTheirTask
<1>8. DispatchedIsDurable'
  BY DEF IInv, TypeOK, TasksAimAtRows, ConsumedRowsNameTheirTask, DispatchedIsDurable, Reports
<1>9. OneLiveApprovalPerSubject'
  BY DEF IInv, OneLiveApprovalPerSubject, Live
<1> QED BY <1>2, <1>3, <1>4, <1>5, <1>6, <1>7, <1>8, <1>9 DEF IInv

-----------------------------------------------------------------------------
(* Time, products and failure *)

\* A restart ends the running tasks and gives back no row.
LEMMA RestartPreserves ==
  ASSUME IInv, HiveCoreRestarts
  PROVE  IInv'
<1> USE DEF HiveCoreRestarts, rowVars
<1>2. TypeOK'
  BY ApprovalConstants DEF IInv, TypeOK, Steps
<1>3. TasksAimAtRows'
  BY DEF IInv, TypeOK, TasksAimAtRows, Running
<1>4. HoldersAreAuthorized'
  BY DEF IInv, TypeOK, TasksAimAtRows, HoldersAreAuthorized, Holders
<1>5. CheckedTasksAreCurrent'
  BY DEF IInv, TypeOK, TasksAimAtRows, CheckedTasksAreCurrent, Holders
<1>6. HoldersShareALife'
  BY DEF IInv, TypeOK, TasksAimAtRows, HoldersShareALife, Holders
<1>7. ConsumedRowsNameTheirTask'
  BY DEF IInv, TypeOK, TasksAimAtRows, ConsumedRowsNameTheirTask
<1>8. DispatchedIsDurable'
  BY DEF IInv, TypeOK, TasksAimAtRows, ConsumedRowsNameTheirTask, DispatchedIsDurable, Reports
<1>9. OneLiveApprovalPerSubject'
  BY DEF IInv, OneLiveApprovalPerSubject, Live
<1> QED BY <1>2, <1>3, <1>4, <1>5, <1>6, <1>7, <1>8, <1>9 DEF IInv

\* What becomes overdue stays in place until a sweep.
LEMMA BecomesOverduePreserves ==
  ASSUME IInv, NEW a \in Approvals, BecomesOverdue(a)
  PROVE  IInv'
<1> USE DEF BecomesOverdue
<1>1. TypeOK'
  BY DEF IInv, TypeOK, taskVars
<1>2. RowsOnlyMove
  BY DEF RowsOnlyMove
<1>3. OneLiveApprovalPerSubject'
  BY DEF IInv, OneLiveApprovalPerSubject
<1> QED BY <1>1, <1>2, <1>3, RowsMove

\* A product changes what it advertises, not what was granted.
LEMMA ContractChangesPreserves ==
  ASSUME IInv, NEW c \in Contracts, ContractChanges(c)
  PROVE  IInv'
<1> USE DEF ContractChanges, rowVars
<1>1. TypeOK'
  BY DEF IInv, TypeOK, taskVars
<1>2. RowsOnlyMove
  BY DEF RowsOnlyMove
<1>3. OneLiveApprovalPerSubject'
  BY DEF IInv, OneLiveApprovalPerSubject
<1> QED BY <1>1, <1>2, <1>3, RowsMove

\* Nothing changes in a stuttering step.
LEMMA StutterPreserves ==
  ASSUME IInv, UNCHANGED vars
  PROVE  IInv'
<1> USE DEF vars, rowVars, taskVars
<1>1. TypeOK'
  BY DEF IInv, TypeOK
<1>2. RowsOnlyMove
  BY DEF RowsOnlyMove, taskVars
<1>3. OneLiveApprovalPerSubject'
  BY DEF IInv, OneLiveApprovalPerSubject
<1> QED BY <1>1, <1>2, <1>3, RowsMove

\* Nothing has happened yet in an initial state.
LEMMA InitIInv == Init => IInv
BY ApprovalConstants
DEF Init, IInv, TypeOK, TasksAimAtRows, HoldersAreAuthorized, CheckedTasksAreCurrent,
    HoldersShareALife, ConsumedRowsNameTheirTask, DispatchedIsDurable,
    OneLiveApprovalPerSubject, Holders, Running, Steps, Live, Reports

-----------------------------------------------------------------------------
(* The theorems *)

(***************************************************************************)
(* The inductive invariant holds in every reachable state of the approvals *)
(* and of the tasks that spend them.                                       *)
(***************************************************************************)
THEOREM Invariance == Spec => []IInv
<1>1. IInv /\ [Next]_vars => IInv'
  <2> SUFFICES ASSUME IInv, [Next]_vars  PROVE  IInv'
    OBVIOUS
  <2>1. CASE Operator
    <3>1. ASSUME NEW a \in Approvals, NEW s \in Subjects, CreateOrGet(a, s)  PROVE  IInv'
      BY <3>1, CreateOrGetPreserves
    <3>2. ASSUME NEW a \in Approvals, Grant(a) \/ Deny(a) \/ Revoke(a)  PROVE  IInv'
      BY <3>2, OperatorMoves DEF Grant, Deny, Revoke
    <3>3. CASE ReadApprovals
      BY <3>3, SweepMoves DEF ReadApprovals
    <3> QED BY <2>1, <3>1, <3>2, <3>3 DEF Operator
  <2>2. ASSUME NEW t \in Tasks, Dispatch(t)  PROVE  IInv'
    <3>1. ASSUME NEW a \in Approvals, DispatchApproved(t, a)  PROVE  IInv'
      BY <3>1, DispatchApprovedPreserves
    <3>2. CASE FetchContract(t) \/ Refused(t) \/ Check(t) \/ Claim(t)
      BY <3>2, FetchContractPreserves, RefusedPreserves, CheckPreserves, ClaimPreserves
    <3>3. CASE Send(t) \/ Consume(t) \/ ConsumeFails(t) \/ RecordEvent(t)
      BY <3>3, SendPreserves, ConsumePreserves, ConsumeFailsPreserves, RecordEventPreserves
    <3> QED BY <2>2, <3>1, <3>2, <3>3 DEF Dispatch
  <2>3. CASE Surroundings
    BY <2>3, BecomesOverduePreserves, ContractChangesPreserves, RestartPreserves
    DEF Surroundings
  <2> QED BY <2>1, <2>2, <2>3, StutterPreserves DEF Next
<1> QED BY <1>1, InitIInv, PTL DEF Spec

\* Rows and tasks keep their kinds: expiry, transitions, consumption and restarts.
THEOREM TypeCorrect == Spec => []TypeOK
BY Invariance, PTL DEF IInv

(***************************************************************************)
(* However many tasks aim at one approval, no product ever receives a      *)
(* request whose approval is not the granted one, for the contract the     *)
(* sender was shown.                                                       *)
(***************************************************************************)
THEOREM RequestsAlwaysAuthorized == Spec => []RequestsAreAuthorized
<1>1. IInv => RequestsAreAuthorized
  BY DEF IInv, TypeOK, HoldersAreAuthorized, Holders, RequestsAreAuthorized
<1> QED BY <1>1, Invariance, PTL

\* create_or_get_approval leaves one live approval of a subject, always.
THEOREM LiveApprovalsAreUnique == Spec => []OneLiveApprovalPerSubject
BY Invariance, PTL DEF IInv

(***************************************************************************)
(* Requests under one approval never straddle a restart of HiveCore, for   *)
(* any number of restarts.                                                 *)
(***************************************************************************)
THEOREM NothingIsReplayed == Spec => []NoReplayAfterRestart
<1>1. IInv => NoReplayAfterRestart
  BY DEF IInv, TypeOK, HoldersShareALife, Holders, NoReplayAfterRestart
<1> QED BY <1>1, Invariance, PTL

\* An answer of "dispatched" is backed by the event and by the consumed row.
THEOREM DispatchesAreDurable == Spec => []DispatchedIsDurable
BY Invariance, PTL DEF IInv

-----------------------------------------------------------------------------
(* What any step may do to a row *)

\* A row is left alone, or makes one of the moves the handlers know; whoever
\* starts or ends a consumption is a task that aims at the row.
RowStep(a) ==
  \/ UNCHANGED <<lifecycle[a], subject[a], consumedBy[a], outcome[a]>>
  \/ /\ UNCHANGED <<consumedBy[a], outcome[a]>>
     /\ \/ lifecycle[a] = "absent" /\ lifecycle'[a] = "pending"
        \/ /\ UNCHANGED subject[a]
           /\ \/ lifecycle[a] = "pending" /\ lifecycle'[a] \in {"granted", "denied"}
              \/ lifecycle[a] \in {"pending", "granted"} /\ lifecycle'[a] \in {"revoked", "expired"}
              \/ /\ lifecycle[a] = "granted" /\ lifecycle'[a] = "consuming"
                 /\ \E t \in Tasks : step[t] = "checked" /\ aim[t] = a
  \/ /\ lifecycle[a] = "consuming" /\ lifecycle'[a] = "consumed" /\ UNCHANGED subject[a]
     /\ \A b \in Approvals : b # a => lifecycle'[b] = lifecycle[b]
     /\ \E t \in Tasks : step[t] = "answered" /\ aim[t] = a

\* A transition of one row and the sweep before it move every row by a known move.
LEMMA TransitionSteps ==
  ASSUME IInv, NEW a \in Approvals, NEW b \in Approvals,
         \/ Transition(a, {"pending"}, "granted")
         \/ Transition(a, {"pending"}, "denied")
         \/ Transition(a, {"pending", "granted"}, "revoked")
         \/ /\ Transition(a, {"granted"}, "consuming")
            /\ \E t \in Tasks : step[t] = "checked" /\ aim[t] = a
  PROVE  RowStep(b)
<1>1. PICK from \in {{"pending"}, {"pending", "granted"}, {"granted"}},
           to \in {"granted", "denied", "revoked", "consuming"} :
        /\ Transition(a, from, to)
        /\ to \in {"granted", "denied"} => from = {"pending"}
        /\ to = "consuming" => from = {"granted"}
                 /\ \E t \in Tasks : step[t] = "checked" /\ aim[t] = a
  OBVIOUS
<1>2. from \in SUBSET Live /\ to \in Live \cup Final /\ TypeOK
  BY DEF Live, Final, IInv
<1>3. /\ \A c \in Approvals :
           \/ lifecycle'[c] = lifecycle[c]
           \/ lifecycle[c] \in {"pending", "granted"} /\ lifecycle'[c] = "expired"
           \/ c = a /\ lifecycle[c] \in from /\ lifecycle'[c] = to
      /\ UNCHANGED <<subject, consumedBy, outcome>>
  BY <1>1, <1>2, TransitionRows
<1> QED BY <1>1, <1>3 DEF RowStep

\* A sweep moves rows by expiring them.
LEMMA SweepSteps ==
  ASSUME IInv, NEW b \in Approvals, Sweep
  PROVE  RowStep(b)
BY SweptRows DEF IInv, Sweep, RowStep

\* A new row is pending; every other row is only swept.
LEMMA CreateSteps ==
  ASSUME IInv, NEW a \in Approvals, NEW s \in Subjects, NEW b \in Approvals, CreateOrGet(a, s)
  PROVE  RowStep(b)
BY SweptRows DEF IInv, TypeOK, CreateOrGet, RowStep

\* A consumption ends the row its task aims at, and no other.
LEMMA ConsumeSteps ==
  ASSUME IInv, NEW t \in Tasks, NEW b \in Approvals, Consume(t)
  PROVE  RowStep(b)
BY DEF IInv, TypeOK, Consume, Goes, RowStep

\* Every step of the approvals is a known move of every row.
LEMMA RowSteps ==
  ASSUME IInv, [Next]_vars, NEW b \in Approvals
  PROVE  RowStep(b)
<1> USE DEF rowVars
<1>1. CASE UNCHANGED <<subject, lifecycle, consumedBy, outcome>>
  BY <1>1 DEF RowStep
<1>2. CASE Operator
  BY <1>2, CreateSteps, TransitionSteps, SweepSteps DEF Operator, Grant, Deny, Revoke, ReadApprovals
<1>3. ASSUME NEW t \in Tasks, Dispatch(t)  PROVE  RowStep(b)
  <2>1. CASE Claim(t)
    <3>1. aim[t] \in Approvals /\ step[t] = "checked"
      BY <2>1 DEF Claim, IInv, TasksAimAtRows
    <3> QED BY <2>1, <3>1, TransitionSteps DEF Claim
  <2>2. CASE Check(t) \/ \E a \in Approvals : DispatchApproved(t, a)
    BY <2>2, SweepSteps DEF Check, DispatchApproved
  <2>3. CASE Consume(t)
    BY <2>3, ConsumeSteps
  <2>4. CASE FetchContract(t) \/ Refused(t) \/ Send(t) \/ ConsumeFails(t) \/ RecordEvent(t)
    BY <2>4, <1>1 DEF FetchContract, Refused, Send, ConsumeFails, RecordEvent
  <2> QED BY <1>3, <2>1, <2>2, <2>3, <2>4 DEF Dispatch
<1>4. CASE Surroundings
  <2>1. ASSUME NEW a \in Approvals, BecomesOverdue(a)  PROVE  RowStep(b)
    BY <2>1 DEF BecomesOverdue, RowStep
  <2> QED BY <1>4, <2>1, <1>1 DEF Surroundings, ContractChanges, HiveCoreRestarts
<1>5. CASE UNCHANGED vars
  BY <1>1, <1>5 DEF vars
<1> QED BY <1>2, <1>3, <1>4, <1>5 DEF Next

-----------------------------------------------------------------------------
(* Rows that ended, and rows that never will *)

(***************************************************************************)
(* What an ended approval says is never rewritten: a denied, revoked,      *)
(* expired or consumed row keeps its state, its subject, its outcome and   *)
(* the task it names, however late the second of two dispatches consumes   *)
(* it.                                                                     *)
(***************************************************************************)
EndedRowsAreKept ==
  [][\A a \in Approvals :
       lifecycle[a] \in Final =>
         UNCHANGED <<lifecycle[a], subject[a], consumedBy[a], outcome[a]>>]_vars

THEOREM EndedRowsAreAlwaysKept == Spec => EndedRowsAreKept
<1>1. IInv /\ [Next]_vars =>
        [\A a \in Approvals :
           lifecycle[a] \in Final =>
             UNCHANGED <<lifecycle[a], subject[a], consumedBy[a], outcome[a]>>]_vars
  BY RowSteps DEF RowStep, Final
<1> QED BY <1>1, Invariance, PTL DEF Spec, EndedRowsAreKept

\* A row that is being consumed and that no task can end any more.
Abandoned(a) ==
  /\ lifecycle[a] = "consuming"
  /\ \A t \in Tasks : aim[t] = a => step[t] \notin {"checked", "claimed", "answered"}

\* No task comes back to an abandoned row: the check wants a grant.
LEMMA AbandonedStays ==
  ASSUME IInv, [Next]_vars, NEW a \in Approvals, Abandoned(a)
  PROVE  Abandoned(a)'
<1>1. lifecycle'[a] = "consuming"
  BY RowSteps DEF RowStep, Abandoned
<1>2. ASSUME NEW t \in Tasks, aim'[t] = a  PROVE  step'[t] \notin {"checked", "claimed", "answered"}
  <2> USE <1>2 DEF Abandoned, IInv, TypeOK, rowVars, taskVars
  <2>1. CASE UNCHANGED <<step, aim>>
    BY <2>1
  <2>2. CASE Operator
    BY <2>1, <2>2 DEF Operator, CreateOrGet, Grant, Deny, Revoke, ReadApprovals
  <2>3. ASSUME NEW u \in Tasks, NEW b \in Approvals, DispatchApproved(u, b)
        PROVE  step'[t] \notin {"checked", "claimed", "answered"}
    BY <2>3 DEF DispatchApproved, Goes
  <2>4. ASSUME NEW u \in Tasks, Check(u)
        PROVE  step'[t] \notin {"checked", "claimed", "answered"}
    BY <2>4, SweptRows DEF Check, Goes, Authorized
  <2>5. ASSUME NEW u \in Tasks,
               \/ FetchContract(u) \/ Refused(u) \/ Claim(u) \/ Send(u)
               \/ Consume(u) \/ ConsumeFails(u) \/ RecordEvent(u)
        PROVE  step'[t] \notin {"checked", "claimed", "answered"}
    BY <2>5 DEF FetchContract, Refused, Claim, Send, Consume, ConsumeFails, RecordEvent, Goes
  <2>6. CASE Surroundings
    BY <2>1, <2>6 DEF Surroundings, BecomesOverdue, ContractChanges, HiveCoreRestarts
  <2>7. CASE UNCHANGED vars
    BY <2>1, <2>7 DEF vars
  <2> QED BY <2>2, <2>3, <2>4, <2>5, <2>6, <2>7 DEF Next, Dispatch
<1> QED BY <1>1, <1>2 DEF Abandoned

\* No other approval of the row's subject is live.
Alone(a) == \A b \in Approvals : subject[b] = subject[a] /\ b # a => lifecycle[b] \notin Live

(***************************************************************************)
(* What a stop of HiveCore leaves behind: every row it finds being         *)
(* consumed is abandoned, an abandoned row stays "consuming" for ever, and *)
(* as it counts as live its subject never has another live approval, so    *)
(* what it authorized can never be granted again.                          *)
(***************************************************************************)
THEOREM StopsStrandApprovals ==
  ASSUME NEW a \in Approvals
  PROVE  Spec => /\ [][HiveCoreRestarts /\ lifecycle[a] = "consuming" => Abandoned(a)']_vars
                 /\ [](Abandoned(a) => [](Abandoned(a) /\ Alone(a)))
<1>1. IInv /\ [Next]_vars =>
        [HiveCoreRestarts /\ lifecycle[a] = "consuming" => Abandoned(a)']_vars
  BY DEF HiveCoreRestarts, Abandoned, rowVars, IInv, TypeOK
<1>2. IInv /\ [Next]_vars /\ Abandoned(a) => Abandoned(a)'
  BY AbandonedStays
<1>3. IInv /\ Abandoned(a) => Alone(a)
  BY DEF IInv, OneLiveApprovalPerSubject, Abandoned, Alone, Live
<1> QED BY <1>1, <1>2, <1>3, Invariance, PTL DEF Spec

-----------------------------------------------------------------------------
(* The life of a subject's approval *)

Stands(a, s) == subject[a] = s /\ lifecycle[a] \in Live

\* What stands for a subject: the state of its live row.
StageOf(s) ==
  IF \E a \in Approvals : Stands(a, s)
  THEN lifecycle[CHOOSE a \in Approvals : Stands(a, s)] ELSE "none"

\* The life of a subject's approval, seen through StageOf.
Life(s) == INSTANCE SubjectApproval WITH stage <- StageOf(s)

\* As a subject has one live row, that row's state is its stage.
LEMMA StageIs ==
  ASSUME OneLiveApprovalPerSubject, NEW a \in Approvals, NEW s, Stands(a, s)
  PROVE  StageOf(s) = lifecycle[a]
<1>1. \A b \in Approvals : Stands(b, s) => b = a
  BY DEF OneLiveApprovalPerSubject, Stands
<1>2. (CHOOSE b \in Approvals : Stands(b, s)) = a
  BY <1>1
<1> QED BY <1>2 DEF StageOf

\* The same in the next state.
LEMMA StageIsNext ==
  ASSUME OneLiveApprovalPerSubject', NEW a \in Approvals, NEW s, Stands(a, s)'
  PROVE  StageOf(s)' = lifecycle'[a]
<1>1. \A b \in Approvals : Stands(b, s)' => b = a
  BY DEF OneLiveApprovalPerSubject, Stands
<1>2. (CHOOSE b \in Approvals : Stands(b, s)') = a
  BY <1>1
<1> QED BY <1>2 DEF StageOf

\* Every step moves a subject along its life.
LEMMA LifeStep ==
  ASSUME IInv, IInv', [Next]_vars, NEW s \in Subjects
  PROVE  Life(s)!LifecycleNext \/ StageOf(s)' = StageOf(s)
<1> DEFINE before == \E a \in Approvals : Stands(a, s)
           after == \E a \in Approvals : Stands(a, s)'
<1>1. OneLiveApprovalPerSubject /\ OneLiveApprovalPerSubject'
  BY DEF IInv
<1>2. \A a \in Approvals : RowStep(a)
  BY RowSteps
<1>3. ~ before => StageOf(s) = "none"
  BY DEF StageOf
<1>4. ~ after => StageOf(s)' = "none"
  BY DEF StageOf
<1>5. \A a \in Approvals : s # NoSubject /\ lifecycle[a] = "absent" => ~ Stands(a, s)
  BY DEF Stands, Live
<1>6. CASE before
  <2>1. PICK a \in Approvals : Stands(a, s)
    BY <1>6
  <2>2. StageOf(s) = lifecycle[a] /\ lifecycle[a] \in Live
    BY <2>1, <1>1, StageIs DEF Stands
  <2>3. CASE Stands(a, s)'
    <3>1. StageOf(s)' = lifecycle'[a]
      BY <2>3, <1>1, StageIsNext
    <3> QED BY <2>2, <2>3, <3>1, <1>2
        DEF RowStep, Stands, Live, Life!LifecycleNext, Life!Allow, Life!Begin
  <2>4. CASE ~ Stands(a, s)' /\ ~ after
    BY <2>1, <2>2, <2>4, <1>2, <1>4
    DEF RowStep, Stands, Live, Life!LifecycleNext, Life!Close, Life!End
  <2>5. CASE ~ Stands(a, s)' /\ after
    <3>1. PICK b \in Approvals : Stands(b, s)'
      BY <2>5
    <3>2. a # b /\ ~ Stands(b, s)
      BY <2>1, <2>5, <3>1, <1>1 DEF OneLiveApprovalPerSubject, Stands
    <3>3. lifecycle[b] = "absent" /\ lifecycle'[b] = "pending"
      BY <3>1, <3>2, <1>2 DEF RowStep, Stands, Live
    <3>4. StageOf(s)' = "pending"
      BY <3>1, <3>3, <1>1, StageIsNext
    <3>5. lifecycle[a] # "consuming"
      <4> SUFFICES ASSUME lifecycle[a] = "consuming"  PROVE FALSE
        OBVIOUS
      <4>1. \A c \in Approvals : c # a => lifecycle'[c] = lifecycle[c]
        BY <2>1, <2>5, <1>2 DEF RowStep, Stands, Live
      <4> QED BY <4>1, <3>2, <3>3
    <3> QED BY <2>2, <3>4, <3>5 DEF Live, Life!LifecycleNext, Life!Ask
  <2> QED BY <2>3, <2>4, <2>5
<1>7. CASE ~ before /\ after
  <2>1. PICK b \in Approvals : Stands(b, s)'
    BY <1>7
  <2>2. ~ Stands(b, s)
    BY <1>7
  <2>3. lifecycle'[b] = "pending"
    BY <2>1, <2>2, <1>2 DEF RowStep, Stands, Live
  <2> QED BY <2>1, <2>3, <1>1, <1>3, <1>7, StageIsNext DEF Life!LifecycleNext, Life!Ask
<1> QED BY <1>3, <1>4, <1>6, <1>7

(***************************************************************************)
(* For every subject the rows, their sweeps, the operator and any number   *)
(* of dispatch tasks amount to one approval with one life: granted only    *)
(* when it was asked for, consumed only after a grant that still stood,    *)
(* and once its consumption began ended by nothing else.                   *)
(***************************************************************************)
THEOREM SubjectsHaveOneLife ==
  ASSUME NEW s \in Subjects
  PROVE  Spec => Life(s)!LifecycleSpec
<1>1. Init => Life(s)!LifecycleInit
  BY DEF Init, StageOf, Stands, Live, Life!LifecycleInit
<1>2. IInv /\ IInv' /\ [Next]_vars => [Life(s)!LifecycleNext]_(StageOf(s))
  BY LifeStep
<1> QED BY <1>1, <1>2, Invariance, PTL DEF Spec, Life!LifecycleSpec

-----------------------------------------------------------------------------
(* How one grant is spent twice, and the only way *)

\* No two tasks stand between the check and the claim of one approval at once.
ChecksDoNotOverlap ==
  \A t, u \in Tasks : step[t] = "checked" /\ step[u] = "checked" /\ aim[t] = aim[u] => t = u

\* One holder for a row; none while a task is about to claim it.
HoldersAreSingle ==
  /\ \A t, u \in Holders : aim[t] = aim[u] => t = u
  /\ \A t \in Tasks, u \in Holders : step[t] = "checked" => aim[t] # aim[u]

\* While the checks of one approval do not overlap, its holder stays alone.
LEMMA SingleStep ==
  ASSUME IInv, IInv', ChecksDoNotOverlap, HoldersAreSingle, [Next]_vars
  PROVE  HoldersAreSingle'
<1> USE DEF IInv, TypeOK, rowVars, taskVars
<1>1. CASE UNCHANGED <<step, aim, received>>
  BY <1>1 DEF HoldersAreSingle, Holders
<1>2. CASE Operator
  BY <1>1, <1>2 DEF Operator, CreateOrGet, Grant, Deny, Revoke, ReadApprovals
<1>3. ASSUME NEW t \in Tasks, Dispatch(t)  PROVE  HoldersAreSingle'
  <2>1. ASSUME NEW a \in Approvals, DispatchApproved(t, a)  PROVE  HoldersAreSingle'
    BY <2>1 DEF DispatchApproved, Goes, HoldersAreSingle, Holders, TasksAimAtRows
  <2>2. CASE Check(t)
    <3>1. step'[t] = "checked" => lifecycle[aim[t]] = "granted"
      BY <2>2, SweptRows DEF Check, Goes, Authorized, TasksAimAtRows
    <3>2. Holders' = Holders
      BY <2>2 DEF Check, Goes, Holders
    <3> QED BY <2>2, <3>1, <3>2 DEF Check, Goes, HoldersAreSingle, HoldersAreAuthorized
  <2>3. CASE Claim(t)
    BY <2>3 DEF Claim, Goes, Transition, HoldersAreSingle, Holders, ChecksDoNotOverlap
  <2>4. CASE \/ FetchContract(t) \/ Refused(t) \/ Send(t) \/ Consume(t)
             \/ ConsumeFails(t) \/ RecordEvent(t)
    BY <2>4 DEF FetchContract, Refused, Send, Consume, ConsumeFails, RecordEvent, Goes,
                HoldersAreSingle, Holders
  <2> QED BY <1>3, <2>1, <2>2, <2>3, <2>4 DEF Dispatch
<1>4. CASE HiveCoreRestarts
  BY <1>4 DEF HiveCoreRestarts, HoldersAreSingle, Holders
<1>5. CASE Surroundings \/ UNCHANGED vars
  BY <1>1, <1>4, <1>5 DEF Surroundings, BecomesOverdue, ContractChanges, vars
<1> QED BY <1>2, <1>3, <1>5 DEF Next

(***************************************************************************)
(* One grant is spent twice in one way only: two dispatches of the same    *)
(* approval stand between their check of the grant and their claim of the  *)
(* row at the same time.  In every behaviour in which that never happens   *)
(* an approval is single-use, whatever else overlaps, expires, changes or  *)
(* restarts.                                                               *)
(***************************************************************************)
THEOREM ReuseNeedsOverlappingChecks == Spec /\ []ChecksDoNotOverlap => []SingleUse
<1>1. Init => HoldersAreSingle
  BY DEF Init, HoldersAreSingle, Holders
<1>2. IInv /\ IInv' /\ ChecksDoNotOverlap /\ HoldersAreSingle /\ [Next]_vars => HoldersAreSingle'
  BY SingleStep
<1>3. IInv /\ HoldersAreSingle => SingleUse
  BY DEF IInv, TypeOK, HoldersAreSingle, Holders, SingleUse
<1> QED BY <1>1, <1>2, <1>3, Invariance, PTL DEF Spec
=============================================================================
