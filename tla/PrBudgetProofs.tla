--------------------------- MODULE PrBudgetProofs ---------------------------
(***************************************************************************)
(* Theorems about the pull-request budget, for any number of reservations, *)
(* products, owners, limits and concurrent handlers.                       *)
(*                                                                         *)
(* The inductive invariant IInv adds to the properties what a handler that *)
(* sits between two transactions may rely on (CallsKnowTheirRows): a       *)
(* reserve call is the only one for its row and the row does not exist     *)
(* yet, and a commit call carries a URL that was matched with the row.     *)
(***************************************************************************)
EXTENDS PrBudget, FiniteSetTheorems, TLAPS

\* What a handler that waits for its second transaction may rely on.
CallsKnowTheirRows ==
  /\ \A c \in calls : c.op = "reserve" => status[c.res] = "absent"
  /\ \A c, d \in calls : c.op = "reserve" /\ d.op = "reserve" /\ c.res = d.res => c = d
  /\ \A c \in calls : c.op = "commit" => UrlMatches(c.res, c.url)

IInv == TypeOK /\ RowsDecode /\ OutcomesFollowReconciledRows /\ CallsKnowTheirRows

-----------------------------------------------------------------------------
(* What each action changes *)

\* The rows after a sweep.
LEMMA SweptType ==
  ASSUME TypeOK
  PROVE  /\ Swept \in [Reservations -> Statuses]
         /\ \A r \in Reservations :
              \/ Swept[r] = status[r]
              \/ status[r] \in Active /\ Swept[r] = "expired"
BY DEF TypeOK, Swept, Statuses, Active, Freed

\* Every initial state satisfies the invariant.
LEMMA InitIInv == Init => IInv
BY ConstantTypes
DEF Init, IInv, TypeOK, RowsDecode, OutcomesFollowReconciledRows, CallsKnowTheirRows,
    Statuses, Active, Freed, Releasers

-----------------------------------------------------------------------------
(* Requests preserve the invariant *)

\* A sweep only expires lapsed rows; expired rows keep the URL they had.
LEMMA SweepRowsPreserves ==
  ASSUME IInv, SweepRows,
         UNCHANGED <<limitVars, refused, cooling, outcomes, sweepVars>>,
         calls' = calls
  PROVE  IInv'
<1> USE SweptType DEF SweepRows, rowVars, limitVars, sweepVars
<1>1. TypeOK'
  BY ConstantTypes DEF IInv, TypeOK
<1>2. RowsDecode'
  BY DEF IInv, TypeOK, RowsDecode, Statuses, Active, Freed
<1>3. OutcomesFollowReconciledRows'
  BY DEF IInv, TypeOK, OutcomesFollowReconciledRows, Findings, Active
<1>4. CallsKnowTheirRows'
  BY DEF IInv, TypeOK, CallsKnowTheirRows, Calls, Active, UrlMatches
<1> QED BY <1>1, <1>2, <1>3, <1>4 DEF IInv

\* reserve_pr_budget's reads touch no row.
LEMMA ReserveCheckPreserves ==
  ASSUME IInv, NEW r \in Reservations, NEW n \in OwnerLimits, ReserveCheck(r, n)
  PROVE  IInv'
<1> USE DEF ReserveCheck, rowVars, limitVars, sweepVars
<1> DEFINE c == [op |-> "reserve", res |-> r, limit |-> n]
<1>1. c \in Calls /\ calls' = calls \cup {c}
  BY DEF Calls
<1>2. TypeOK'
  BY <1>1 DEF IInv, TypeOK
<1>3. RowsDecode'
  BY DEF IInv, RowsDecode
<1>4. OutcomesFollowReconciledRows'
  BY DEF IInv, OutcomesFollowReconciledRows
<1>5. CallsKnowTheirRows'
  BY <1>1 DEF IInv, CallsKnowTheirRows, UrlMatches
<1> QED BY <1>2, <1>3, <1>4, <1>5 DEF IInv

\* reserve_pr_slot inserts a row that never had a URL, or only sweeps.
LEMMA ReserveDecidePreserves ==
  ASSUME IInv, NEW r \in Reservations, NEW n \in OwnerLimits, ReserveDecide(r, n)
  PROVE  IInv'
<1> USE SweptType DEF ReserveDecide, limitVars, sweepVars
<1> DEFINE c == [op |-> "reserve", res |-> r, limit |-> n]
<1>1. /\ c \in calls /\ c.op = "reserve" /\ c.res = r
      /\ calls' = calls \ {c}
  OBVIOUS
<1>2. status[r] = "absent"
  BY <1>1 DEF IInv, CallsKnowTheirRows
<1>3. status' \in [Reservations -> Statuses]
  BY DEF IInv, TypeOK, Statuses, Active
<1>4. \A x \in Reservations :
         \/ status'[x] = status[x]
         \/ status[x] \in Active /\ status'[x] = "expired"
         \/ x = r /\ status'[x] = "reserved"
  BY DEF IInv, TypeOK
<1>5. TypeOK'
  BY <1>1, <1>3 DEF IInv, TypeOK
<1>6. RowsDecode'
  BY <1>2, <1>4 DEF IInv, RowsDecode, Active
<1>7. OutcomesFollowReconciledRows'
  BY <1>2, <1>4 DEF IInv, TypeOK, OutcomesFollowReconciledRows, Findings, Active
<1>8. CallsKnowTheirRows'
  <2>1. ASSUME NEW d \in calls', d.op = "reserve"  PROVE  status'[d.res] = "absent"
    BY <1>1, <1>4, <2>1 DEF IInv, TypeOK, CallsKnowTheirRows, Calls, Active
  <2> QED BY <1>1, <2>1 DEF IInv, CallsKnowTheirRows, UrlMatches
<1> QED BY <1>5, <1>6, <1>7, <1>8 DEF IInv

\* begin's first transaction is a sweep for a row that exists.
LEMMA BeginSweepPreserves ==
  ASSUME IInv, NEW r \in Reservations, BeginSweep(r)
  PROVE  IInv'
<1> USE SweptType DEF BeginSweep, SweepRows, limitVars, sweepVars
<1> DEFINE c == [op |-> "begin", res |-> r]
<1>1. c \in Calls /\ c.op = "begin" /\ calls' = calls \cup {c}
  BY DEF Calls
<1>2. TypeOK'
  BY <1>1 DEF IInv, TypeOK
<1>3. RowsDecode'
  BY DEF IInv, TypeOK, RowsDecode, Statuses, Active, Freed
<1>4. OutcomesFollowReconciledRows'
  BY DEF IInv, TypeOK, OutcomesFollowReconciledRows, Findings, Active
<1>5. CallsKnowTheirRows'
  BY <1>1 DEF IInv, TypeOK, CallsKnowTheirRows, Calls, Active, UrlMatches
<1> QED BY <1>2, <1>3, <1>4, <1>5 DEF IInv

\* begin's second transaction moves a row that is still reserved.
LEMMA BeginApplyPreserves ==
  ASSUME IInv, NEW r \in Reservations, BeginApply(r)
  PROVE  IInv'
<1> USE DEF BeginApply, limitVars, sweepVars
<1>1. calls' \subseteq calls
  OBVIOUS
<1>2. \A x \in Reservations :
         \/ status'[x] = status[x]
         \/ status[x] = "reserved" /\ status'[x] = "publishing"
  BY DEF IInv, TypeOK
<1>3. TypeOK'
  BY <1>1 DEF IInv, TypeOK, Statuses, Active
<1>4. RowsDecode'
  BY <1>2 DEF IInv, RowsDecode
<1>5. OutcomesFollowReconciledRows'
  BY <1>2 DEF IInv, TypeOK, OutcomesFollowReconciledRows, Findings
<1>6. CallsKnowTheirRows'
  BY <1>1, <1>2 DEF IInv, TypeOK, CallsKnowTheirRows, Calls, UrlMatches
<1> QED BY <1>3, <1>4, <1>5, <1>6 DEF IInv

\* commit's first transaction is a sweep, for a URL of the row's repository.
LEMMA CommitSweepPreserves ==
  ASSUME IInv, NEW r \in Reservations, NEW u \in Urls, NEW by \in Callers,
         CommitSweep(r, u, by)
  PROVE  IInv'
<1> USE SweptType DEF CommitSweep, SweepRows, limitVars, sweepVars
<1> DEFINE c == [op |-> "commit", res |-> r, url |-> u, by |-> by]
<1>1. c \in Calls /\ c.op = "commit" /\ calls' = calls \cup {c}
  BY DEF Calls
<1>2. TypeOK'
  BY <1>1 DEF IInv, TypeOK
<1>3. RowsDecode'
  BY DEF IInv, TypeOK, RowsDecode, Statuses, Active, Freed
<1>4. OutcomesFollowReconciledRows'
  BY DEF IInv, TypeOK, OutcomesFollowReconciledRows, Findings, Active
<1>5. CallsKnowTheirRows'
  BY <1>1 DEF IInv, TypeOK, CallsKnowTheirRows, Calls, Active, UrlMatches
<1> QED BY <1>2, <1>3, <1>4, <1>5 DEF IInv

\* commit's second transaction gives a publishing row the URL that was checked.
LEMMA CommitApplyPreserves ==
  ASSUME IInv, NEW r \in Reservations, NEW u \in Urls, NEW by \in Callers,
         CommitApply(r, u, by)
  PROVE  IInv'
<1> USE DEF CommitApply, limitVars, sweepVars
<1> DEFINE c == [op |-> "commit", res |-> r, url |-> u, by |-> by]
<1>1. c \in calls /\ calls' \subseteq calls /\ UrlMatches(r, u)
  BY DEF IInv, CallsKnowTheirRows
<1>2. \A x \in Reservations :
         \/ status'[x] = status[x] /\ prUrl'[x] = prUrl[x]
         \/ x = r /\ status[x] = "publishing" /\ status'[x] = "committed" /\ prUrl'[x] = u
  BY DEF IInv, TypeOK
<1>3. TypeOK'
  BY <1>1 DEF IInv, TypeOK, Statuses, Active
<1>4. RowsDecode'
  BY <1>1, <1>2, ConstantTypes DEF IInv, RowsDecode, UrlMatches
<1>5. OutcomesFollowReconciledRows'
  BY <1>2 DEF IInv, TypeOK, OutcomesFollowReconciledRows, Findings
<1>6. CallsKnowTheirRows'
  BY <1>1, <1>2 DEF IInv, TypeOK, CallsKnowTheirRows, Calls, UrlMatches
<1> QED BY <1>3, <1>4, <1>5, <1>6 DEF IInv

\* Whoever frees active rows, for whatever reason.
LEMMA FreeRowsPreserves ==
  ASSUME IInv, NEW gone \in SUBSET Reservations, NEW why \in Releasers,
         \A x \in gone : status[x] \in Active,
         FreeRows(gone, why),
         UNCHANGED <<outcomes, calls, freed>>
  PROVE  /\ RowsDecode' /\ OutcomesFollowReconciledRows' /\ CallsKnowTheirRows'
         /\ status' \in [Reservations -> Statuses]
         /\ prUrl' = prUrl
         /\ reason' \in [Reservations -> Releasers \cup {"none"}]
         /\ lapsed' \in SUBSET Reservations
<1> USE DEF FreeRows
<1>1. RowsDecode'
  BY DEF IInv, TypeOK, RowsDecode, Active, Releasers
<1>2. OutcomesFollowReconciledRows'
  BY DEF IInv, TypeOK, OutcomesFollowReconciledRows, Findings, Active
<1>3. CallsKnowTheirRows'
  BY DEF IInv, TypeOK, CallsKnowTheirRows, Calls, Active, UrlMatches
<1>4. /\ status' \in [Reservations -> Statuses]
      /\ prUrl' = prUrl
      /\ reason' \in [Reservations -> Releasers \cup {"none"}]
      /\ lapsed' \in SUBSET Reservations
  BY DEF IInv, TypeOK, Statuses, Freed
<1> QED BY <1>1, <1>2, <1>3, <1>4

\* A client or the operator releases one active row, with its own reason.
LEMMA ReleasePreserves ==
  ASSUME IInv, NEW r \in Reservations, NEW why \in ClientReasons, Release(r, why)
  PROVE  IInv'
<1>1. why \in Releasers
  BY ConstantTypes DEF Releasers
<1>2. FreeRows({r}, why) /\ UNCHANGED <<outcomes, calls, freed>>
  BY DEF Release, sweepVars
<1>3. /\ RowsDecode' /\ OutcomesFollowReconciledRows' /\ CallsKnowTheirRows'
      /\ status' \in [Reservations -> Statuses]
      /\ prUrl' = prUrl
      /\ reason' \in [Reservations -> Releasers \cup {"none"}]
      /\ lapsed' \in SUBSET Reservations
  <2>1. {r} \in SUBSET Reservations /\ \A x \in {r} : status[x] \in Active
    BY DEF Release
  <2> QED BY <1>1, <1>2, <2>1, FreeRowsPreserves
<1>4. TypeOK'
  BY <1>3 DEF Release, IInv, TypeOK, limitVars, sweepVars
<1> QED BY <1>3, <1>4 DEF IInv

\* A run release frees active rows, which no outcome names.
LEMMA ReleaseForRunPreserves ==
  ASSUME IInv, NEW p \in Products, NEW run \in Runs, ReleaseForRun(p, run)
  PROVE  IInv'
<1> DEFINE rows == {r \in OfProduct(p) : RunOf[r] = run /\ status[r] \in Active}
<1>1. /\ rows \in SUBSET Reservations
      /\ \A x \in rows : status[x] \in Active
      /\ "run" \in Releasers
  BY DEF OfProduct, Releasers
<1>2. FreeRows(rows, "run") /\ UNCHANGED <<outcomes, calls, freed>>
  BY DEF ReleaseForRun, sweepVars
<1>3. /\ RowsDecode' /\ OutcomesFollowReconciledRows' /\ CallsKnowTheirRows'
      /\ status' \in [Reservations -> Statuses]
      /\ prUrl' = prUrl
      /\ reason' \in [Reservations -> Releasers \cup {"none"}]
      /\ lapsed' \in SUBSET Reservations
  <2> HIDE DEF rows
  <2> QED BY <1>1, <1>2, FreeRowsPreserves
<1>4. TypeOK'
  BY <1>3 DEF ReleaseForRun, IInv, TypeOK, limitVars, sweepVars
<1> QED BY <1>3, <1>4 DEF IInv

-----------------------------------------------------------------------------
(* The sweep preserves the invariant *)

\* The sweep's snapshot changes no row beyond expiring lapsed ones.
LEMMA ReconcileStartPreserves ==
  ASSUME IInv, ReconcileStart
  PROVE  IInv'
<1> USE SweptType DEF ReconcileStart, SweepRows, limitVars
<1>1. queue' \in SUBSET (Reservations \X Urls)
  <2>1. ASSUME NEW x \in Reservations, Swept[x] = "committed"  PROVE  prUrl[x] \in Urls
    BY <2>1 DEF IInv, TypeOK, RowsDecode
  <2> QED BY <2>1
<1>2. TypeOK'
  BY <1>1 DEF IInv, TypeOK
<1>3. RowsDecode'
  BY DEF IInv, TypeOK, RowsDecode, Statuses, Active, Freed
<1>4. OutcomesFollowReconciledRows'
  BY DEF IInv, TypeOK, OutcomesFollowReconciledRows, Findings, Active
<1>5. CallsKnowTheirRows'
  BY DEF IInv, TypeOK, CallsKnowTheirRows, Calls, Active, UrlMatches
<1> QED BY <1>2, <1>3, <1>4, <1>5 DEF IInv

\* An answer of GitHub changes only the sweep's memory.
LEMMA ReconcileFetchPreserves ==
  ASSUME IInv, NEW r \in Reservations, NEW u \in Urls, NEW a \in Answers,
         ReconcileFetch(r, u, a)
  PROVE  IInv'
<1> USE DEF ReconcileFetch, rowVars, limitVars
<1>1. observed' \in SUBSET Findings
  BY DEF Findings
<1>2. TypeOK'
  BY <1>1 DEF IInv, TypeOK
<1>3. RowsDecode' /\ OutcomesFollowReconciledRows' /\ CallsKnowTheirRows'
  BY DEF IInv, RowsDecode, OutcomesFollowReconciledRows, CallsKnowTheirRows, UrlMatches
<1> QED BY <1>2, <1>3 DEF IInv

\* The sweep releases only the committed row with the URL it asked about.
LEMMA ReconcileReleasePreserves ==
  ASSUME IInv, NEW f \in observed, ReconcileRelease(f)
  PROVE  IInv'
<1> USE DEF ReconcileRelease, limitVars
<1>1. f \in Findings /\ f.res \in Reservations
  BY DEF IInv, TypeOK, Findings
<1>2. CASE status[f.res] = "committed" /\ prUrl[f.res] = f.url
  <2>1. /\ status' = [status EXCEPT ![f.res] = "released"]
        /\ reason' = [reason EXCEPT ![f.res] = "reconciled"]
        /\ lapsed' = lapsed \ {f.res}
        /\ prUrl' = prUrl
        /\ freed' = {f}
    BY <1>1, <1>2 DEF FreeRows, IInv, TypeOK
  <2>2. TypeOK'
    BY <1>1, <2>1 DEF IInv, TypeOK, Statuses, Freed, Releasers
  <2>3. RowsDecode'
    BY <1>1, <1>2, <2>1 DEF IInv, TypeOK, RowsDecode
  <2>4. OutcomesFollowReconciledRows'
    BY <1>1, <1>2, <2>1 DEF IInv, TypeOK, OutcomesFollowReconciledRows
  <2>5. CallsKnowTheirRows'
    BY <1>1, <1>2, <2>1 DEF IInv, TypeOK, CallsKnowTheirRows, Calls, UrlMatches
  <2> QED BY <2>2, <2>3, <2>4, <2>5 DEF IInv
<1>3. CASE ~(status[f.res] = "committed" /\ prUrl[f.res] = f.url)
  BY <1>3 DEF IInv, TypeOK, RowsDecode, OutcomesFollowReconciledRows, CallsKnowTheirRows,
              UrlMatches, rowVars
<1> QED BY <1>2, <1>3

\* The outcome recorded is that of the row the sweep just released.
LEMMA ReconcileRecordPreserves ==
  ASSUME IInv, NEW f \in freed, ReconcileRecord(f) \/ ReconcileRecordFails(f)
  PROVE  IInv'
<1> USE DEF ReconcileRecord, ReconcileRecordFails, rowVars, limitVars
<1>1. f \in Findings
  BY DEF IInv, TypeOK
<1>2. TypeOK'
  BY <1>1, ConstantTypes DEF IInv, TypeOK, Findings
<1>3. OutcomesFollowReconciledRows'
  BY <1>1 DEF IInv, OutcomesFollowReconciledRows, Findings
<1>4. RowsDecode' /\ CallsKnowTheirRows'
  BY DEF IInv, RowsDecode, CallsKnowTheirRows, UrlMatches
<1> QED BY <1>2, <1>3, <1>4 DEF IInv

-----------------------------------------------------------------------------
(* The surroundings preserve the invariant *)

\* Settings, policy, time and restarts leave every row as it is.
LEMMA SurroundingsPreserve ==
  ASSUME IInv,
         \/ \E n \in SuiteLimits, t \in LimitTables : SaveSettings(n, t)
         \/ \E names \in PolicyStates : ChangePolicy(names)
         \/ \E r \in Reservations : LeaseLapses(r)
         \/ \E o \in Owners : CooldownEnds(o)
         \/ HiveCoreRestarts
  PROVE  IInv'
<1> USE DEF SaveSettings, ChangePolicy, LeaseLapses, CooldownEnds, HiveCoreRestarts,
            rowVars, limitVars, sweepVars
<1>1. TypeOK'
  BY ConstantTypes DEF IInv, TypeOK
<1>2. RowsDecode'
  BY DEF IInv, RowsDecode
<1>3. OutcomesFollowReconciledRows'
  BY DEF IInv, OutcomesFollowReconciledRows
<1>4. CallsKnowTheirRows'
  BY DEF IInv, CallsKnowTheirRows, UrlMatches
<1> QED BY <1>1, <1>2, <1>3, <1>4 DEF IInv

\* A read of the budget is a sweep.
LEMMA ReadBudgetPreserves ==
  ASSUME IInv, ReadBudget
  PROVE  IInv'
<1>1. /\ SweepRows /\ calls' = calls
      /\ UNCHANGED <<limitVars, refused, cooling, outcomes, sweepVars>>
  BY DEF ReadBudget
<1> QED BY <1>1, SweepRowsPreserves

-----------------------------------------------------------------------------
(* The invariant *)

\* Every step, and every step that changes nothing, preserves the invariant.
LEMMA NextIInv == IInv /\ [Next]_ledgerVars => IInv'
<1> SUFFICES ASSUME IInv, [Next]_ledgerVars  PROVE  IInv'
  OBVIOUS
<1>1. CASE Requests
  BY <1>1, ReserveCheckPreserves, ReserveDecidePreserves, BeginSweepPreserves,
     BeginApplyPreserves, CommitSweepPreserves, CommitApplyPreserves, ReleasePreserves,
     SurroundingsPreserve
  DEF Requests
<1>2. CASE Reconciliation
  BY <1>2, ReconcileStartPreserves, ReconcileFetchPreserves, ReconcileReleasePreserves,
     ReconcileRecordPreserves
  DEF Reconciliation
<1>3. CASE Surroundings
  BY <1>3, ReleaseForRunPreserves, ReadBudgetPreserves, SurroundingsPreserve
  DEF Surroundings
<1>4. CASE UNCHANGED ledgerVars
  BY <1>4
  DEF IInv, TypeOK, RowsDecode, OutcomesFollowReconciledRows, CallsKnowTheirRows,
      UrlMatches, ledgerVars, rowVars, limitVars, sweepVars
<1> QED BY <1>1, <1>2, <1>3, <1>4 DEF Next

(***************************************************************************)
(* The strengthened invariant holds in every reachable state.              *)
(***************************************************************************)
THEOREM Invariance == Spec => []IInv
BY InitIInv, NextIInv, PTL DEF Spec

(***************************************************************************)
(* The ledger's memory and rows always have values of their kinds.         *)
(***************************************************************************)
THEOREM TypeCorrect == Spec => []TypeOK
<1>1. IInv => TypeOK
  BY DEF IInv
<1> QED BY <1>1, Invariance, PTL

(***************************************************************************)
(* A row and its URL stay together through every lifecycle.                *)
(***************************************************************************)
THEOREM RowsAlwaysDecode == Spec => []RowsDecode
<1>1. IInv => RowsDecode
  BY DEF IInv
<1> QED BY <1>1, Invariance, PTL

(***************************************************************************)
(* No outcome without the exact row the sweep released itself.             *)
(***************************************************************************)
THEOREM OutcomesAlwaysFollow == Spec => []OutcomesFollowReconciledRows
<1>1. IInv => OutcomesFollowReconciledRows
  BY DEF IInv
<1> QED BY <1>1, Invariance, PTL

-----------------------------------------------------------------------------
(* The capacity pools *)

\* Active rows leave the budget or stay active, and nothing else moves.
OnlyFrees ==
  \A r \in Reservations :
    \/ status'[r] = status[r]
    \/ status[r] \in Active /\ status'[r] \in Active \cup Freed

\* One new row, admitted by every layer after the sweep, for a request that had
\* passed the policy checks.
Grants(r) ==
  /\ status[r] = "absent"
  /\ status' = [Swept EXCEPT ![r] = "reserved"]
  /\ UNCHANGED limitVars
  /\ \E n \in OwnerLimits : Grantable(Swept, r, n)
  /\ \E c \in calls : c.op = "reserve" /\ c.res = r

\* Every step of the ledger is of one of these two kinds.
LEMMA StepKinds ==
  ASSUME IInv, Next
  PROVE  \/ OnlyFrees /\ UNCHANGED limitVars
         \/ UNCHANGED status /\ suiteLimit' \in Nat /\ productLimit' \in [Products -> Nat]
         \/ \E r \in Reservations : Grants(r)
<1>1. ASSUME NEW r \in Reservations, NEW n \in OwnerLimits, ReserveDecide(r, n)
      PROVE  (OnlyFrees /\ UNCHANGED limitVars) \/ Grants(r)
  <2>1. status[r] = "absent"
    BY <1>1 DEF ReserveDecide, IInv, CallsKnowTheirRows
  <2>2. CASE Grantable(Swept, r, n)
    BY <1>1, <2>1, <2>2 DEF ReserveDecide, Grants, limitVars
  <2>3. CASE ~Grantable(Swept, r, n)
    BY <1>1, <2>3, SweptType DEF ReserveDecide, OnlyFrees, Freed, IInv, limitVars
  <2> QED BY <2>2, <2>3
<1>2. ASSUME SweepRows, UNCHANGED limitVars
      PROVE  OnlyFrees /\ UNCHANGED limitVars
  BY <1>2, SweptType DEF SweepRows, OnlyFrees, IInv, Freed
<1>3. ASSUME NEW gone \in SUBSET Reservations, NEW why, FreeRows(gone, why),
             \A x \in gone : status[x] \in Active, UNCHANGED limitVars
      PROVE  OnlyFrees /\ UNCHANGED limitVars
  BY <1>3 DEF FreeRows, OnlyFrees, IInv, TypeOK, Freed
<1>4. CASE Requests
  <2>1. ASSUME NEW r \in Reservations, BeginApply(r)
        PROVE  OnlyFrees /\ UNCHANGED limitVars
    BY <2>1 DEF BeginApply, OnlyFrees, IInv, TypeOK, Active, limitVars
  <2>2. ASSUME NEW r \in Reservations, NEW u \in Urls, NEW by \in Callers,
               CommitApply(r, u, by)
        PROVE  OnlyFrees /\ UNCHANGED limitVars
    BY <2>2 DEF CommitApply, OnlyFrees, IInv, TypeOK, Active, limitVars
  <2>3. ASSUME NEW r \in Reservations, NEW why \in ClientReasons, Release(r, why)
        PROVE  OnlyFrees /\ UNCHANGED limitVars
    <3>1. /\ {r} \in SUBSET Reservations /\ FreeRows({r}, why)
          /\ \A x \in {r} : status[x] \in Active
          /\ UNCHANGED limitVars
      BY <2>3 DEF Release
    <3> QED BY <3>1, <1>3
  <2>4. ASSUME NEW r \in Reservations,
               \/ \E n \in OwnerLimits : ReserveCheck(r, n)
               \/ LeaseLapses(r)
        PROVE  OnlyFrees /\ UNCHANGED limitVars
    BY <2>4 DEF ReserveCheck, LeaseLapses, OnlyFrees, rowVars
  <2>5. ASSUME NEW r \in Reservations,
               BeginSweep(r) \/ \E u \in Urls, by \in Callers : CommitSweep(r, u, by)
        PROVE  OnlyFrees /\ UNCHANGED limitVars
    BY <2>5, <1>2 DEF BeginSweep, CommitSweep
  <2> QED BY <1>1, <1>4, <2>1, <2>2, <2>3, <2>4, <2>5 DEF Requests
<1>5. CASE Reconciliation
  <2>1. CASE ReconcileStart
    BY <2>1, <1>2 DEF ReconcileStart
  <2>2. ASSUME NEW f \in observed, ReconcileRelease(f)
        PROVE  OnlyFrees /\ UNCHANGED limitVars
    <3>1. f.res \in Reservations
      BY DEF IInv, TypeOK, Findings
    <3>2. CASE status[f.res] = "committed" /\ prUrl[f.res] = f.url
      <4>1. /\ {f.res} \in SUBSET Reservations /\ FreeRows({f.res}, "reconciled")
            /\ \A x \in {f.res} : status[x] \in Active
            /\ UNCHANGED limitVars
        BY <2>2, <3>1, <3>2 DEF ReconcileRelease, Active
      <4> QED BY <4>1, <1>3
    <3>3. CASE ~(status[f.res] = "committed" /\ prUrl[f.res] = f.url)
      BY <2>2, <3>3 DEF ReconcileRelease, OnlyFrees, rowVars
    <3> QED BY <3>2, <3>3
  <2>3. ASSUME \/ \E r \in Reservations, u \in Urls, a \in Answers : ReconcileFetch(r, u, a)
               \/ \E f \in freed : ReconcileRecord(f) \/ ReconcileRecordFails(f)
        PROVE  OnlyFrees /\ UNCHANGED limitVars
    BY <2>3 DEF ReconcileFetch, ReconcileRecord, ReconcileRecordFails, OnlyFrees, rowVars
  <2> QED BY <1>5, <2>1, <2>2, <2>3 DEF Reconciliation
<1>6. CASE Surroundings
  <2>1. ASSUME NEW p \in Products, NEW run \in Runs, ReleaseForRun(p, run)
        PROVE  OnlyFrees /\ UNCHANGED limitVars
    <3> DEFINE rows == {r \in OfProduct(p) : RunOf[r] = run /\ status[r] \in Active}
    <3>1. /\ rows \in SUBSET Reservations /\ FreeRows(rows, "run")
          /\ \A x \in rows : status[x] \in Active
          /\ UNCHANGED limitVars
      BY <2>1 DEF ReleaseForRun, OfProduct
    <3> HIDE DEF rows
    <3> QED BY <3>1, <1>3
  <2>2. CASE ReadBudget
    BY <2>2, <1>2 DEF ReadBudget
  <2>3. ASSUME NEW n \in SuiteLimits, NEW t \in LimitTables, SaveSettings(n, t)
        PROVE  UNCHANGED status /\ suiteLimit' \in Nat /\ productLimit' \in [Products -> Nat]
    BY <2>3, ConstantTypes DEF SaveSettings, rowVars
  <2>4. ASSUME \/ \E names \in PolicyStates : ChangePolicy(names)
               \/ \E o \in Owners : CooldownEnds(o)
               \/ HiveCoreRestarts
        PROVE  OnlyFrees /\ UNCHANGED limitVars
    BY <2>4 DEF ChangePolicy, CooldownEnds, HiveCoreRestarts, OnlyFrees, rowVars
  <2> QED BY <1>6, <2>1, <2>2, <2>3, <2>4 DEF Surroundings
<1> QED BY <1>4, <1>5, <1>6 DEF Next

\* A grant adds one holder to what the sweep left of a group, or none.
LEMMA GrantCounts ==
  ASSUME IInv, NEW r \in Reservations, Grants(r), NEW group \in SUBSET Reservations
  PROVE  /\ Holders(status', group) \subseteq Holders(Swept, group) \cup {r}
         /\ Cardinality(Holders(status', group)) <= Cardinality(Holders(Swept, group)) + 1
         /\ Cardinality(Holders(Swept, group)) \in Nat
         /\ Cardinality(Holders(status', group)) \in Nat
<1>1. IsFiniteSet(Holders(Swept, group))
  <2>1. Holders(Swept, group) \subseteq Reservations
    BY DEF Holders
  <2> QED BY <2>1, ConstantTypes, FS_Subset
<1>2. Holders(status', group) \subseteq Holders(Swept, group) \cup {r}
  BY SweptType DEF Grants, Holders, IInv
<1>3. r \notin Holders(Swept, group)
  BY SweptType DEF Grants, Holders, IInv, Active
<1>4. /\ IsFiniteSet(Holders(Swept, group) \cup {r})
      /\ Cardinality(Holders(Swept, group) \cup {r}) = Cardinality(Holders(Swept, group)) + 1
  BY <1>1, <1>3, FS_AddElement
<1>5. Cardinality(Holders(status', group)) <= Cardinality(Holders(Swept, group) \cup {r})
  BY <1>2, <1>4, FS_Subset
<1>6. /\ Cardinality(Holders(Swept, group)) \in Nat
      /\ Cardinality(Holders(status', group)) \in Nat
  BY <1>1, <1>2, <1>4, FS_CardinalityType, FS_Subset
<1> QED BY <1>2, <1>4, <1>5, <1>6

\* What a step of either kind does to the rows of a group, seen as a pool.
LEMMA GroupFrees ==
  ASSUME OnlyFrees, NEW group \in SUBSET Reservations
  PROVE  LET held == Holders(status, group)
             heldN == Holders(status', group)
             spent == {x \in group : status[x] \in Freed}
             spentN == {x \in group : status'[x] \in Freed}
         IN  heldN \subseteq held /\ spentN = spent \cup (held \ heldN)
BY DEF OnlyFrees, Holders, Active, Freed

\* Seen by one product or owner, a grant takes one fresh slot of its own group.
LEMMA GroupGrants ==
  ASSUME IInv, NEW r \in Reservations, Grants(r), NEW group \in SUBSET Reservations
  PROVE  LET held == Holders(status, group)
             heldN == Holders(status', group)
             spent == {x \in group : status[x] \in Freed}
             spentN == {x \in group : status'[x] \in Freed}
         IN  /\ heldN \ held \subseteq {r}
             /\ spentN = spent \cup (held \ heldN)
             /\ r \notin spentN
<1>1. \A x \in Reservations :
         \/ status'[x] = status[x]
         \/ status[x] \in Active /\ status'[x] = "expired"
         \/ x = r /\ status'[x] = "reserved"
  BY SweptType DEF Grants, IInv
<1>2. status[r] = "absent" /\ status'[r] = "reserved"
  BY SweptType DEF Grants, IInv
<1> QED BY <1>1, <1>2 DEF Holders, Active, Freed

\* The pool counts with the same function.
LEMMA SuiteCounts == \A S : Suite!Cardinality(S) = Cardinality(S)
BY DEF Suite!Cardinality, Cardinality

\* A step of the ledger is a step of the suite's pool, or none.
LEMMA SuiteStep ==
  ASSUME IInv, Next
  PROVE  Suite!PoolNext \/ UNCHANGED Suite!poolVars
<1> DEFINE held == Holders(status, Reservations)
           heldN == Holders(status', Reservations)
           spent == {x \in Reservations : status[x] \in Freed}
           spentN == {x \in Reservations : status'[x] \in Freed}
<1>1. heldN \in SUBSET Reservations
  BY DEF Holders
<1>2. CASE OnlyFrees /\ UNCHANGED limitVars
  <2>1. heldN \subseteq held /\ spentN = spent \cup (held \ heldN)
    BY <1>2, GroupFrees
  <2>2. heldN \ held = {}
    BY <2>1
  <2>3. suiteLimit' = suiteLimit
    BY <1>2 DEF limitVars
  <2> HIDE DEF held, heldN, spent, spentN
  <2>4. Suite!Turnover
    BY <1>1, <2>1, <2>2, <2>3 DEF Suite!Turnover, held, heldN, spent, spentN
  <2> QED BY <2>4 DEF Suite!PoolNext
<1>3. CASE UNCHANGED status /\ suiteLimit' \in Nat
  BY <1>3 DEF Suite!PoolNext, Suite!ChangeLimit, Holders
<1>4. ASSUME NEW r \in Reservations, Grants(r)  PROVE  Suite!Turnover
  <2>1. heldN \ held \subseteq {r} /\ spentN = spent \cup (held \ heldN) /\ r \notin spentN
    BY <1>4, GroupGrants
  <2>2. suiteLimit' = suiteLimit /\ suiteLimit \in Nat
    BY <1>4 DEF Grants, limitVars, IInv, TypeOK
  <2>3. Cardinality(Holders(Swept, Reservations)) < suiteLimit
    BY <1>4 DEF Grants, Grantable
  <2>4. /\ Cardinality(heldN) <= Cardinality(Holders(Swept, Reservations)) + 1
        /\ Cardinality(Holders(Swept, Reservations)) \in Nat
        /\ Cardinality(heldN) \in Nat
    BY <1>4, GrantCounts
  <2> HIDE DEF held, heldN, spent, spentN
  <2>5. Suite!Cardinality(heldN) <= suiteLimit
    <3>1. Cardinality(heldN) <= suiteLimit
      BY <2>2, <2>3, <2>4
    <3> QED BY <3>1, SuiteCounts
  <2>6. (heldN \ held) \cap spentN = {} /\ \A x, y \in heldN \ held : x = y
    BY <2>1
  <2> QED BY <1>1, <2>1, <2>2, <2>5, <2>6 DEF Suite!Turnover, held, heldN, spent, spentN
<1> QED BY <1>2, <1>3, <1>4, StepKinds DEF Suite!PoolNext

(***************************************************************************)
(* The ledger implements the abstract pool: no reservation is ever counted *)
(* twice, revived after it was freed, or granted beyond the suite ceiling. *)
(***************************************************************************)
THEOREM LedgerIsSuitePool == Spec => SuitePool
<1>1. Init => Suite!PoolInit
  BY ConstantTypes DEF Init, Suite!PoolInit, Holders, Active, Freed
<1>2. IInv /\ [Next]_ledgerVars => [Suite!PoolNext]_(Suite!poolVars)
  <2>1. ASSUME IInv, Next  PROVE  [Suite!PoolNext]_(Suite!poolVars)
    BY <2>1, SuiteStep
  <2>2. ASSUME UNCHANGED ledgerVars  PROVE  UNCHANGED Suite!poolVars
    BY <2>2 DEF ledgerVars, rowVars, limitVars, Suite!poolVars, Holders
  <2> QED BY <2>1, <2>2
<1> QED BY <1>1, <1>2, Invariance, PTL DEF Spec, SuitePool, Suite!PoolSpec

-----------------------------------------------------------------------------
(* The layers within the suite *)

\* The pools count with the same Cardinality as the ledger.
LEMMA PoolCounts ==
  ASSUME NEW group, NEW ceiling, NEW S
  PROVE  Pool(group, ceiling)!Cardinality(S) = Cardinality(S)
BY DEF Pool!Cardinality, Cardinality

\* A grant fits within any layer that admitted its row and counts its group.
LEMMA GrantFits ==
  ASSUME IInv, NEW r \in Reservations, Grants(r), NEW group \in SUBSET Reservations,
         NEW ceiling \in Nat,
         r \in group => Cardinality(Holders(Swept, group)) < ceiling
  PROVE  LET held == Holders(status, group)
             heldN == Holders(status', group)
         IN  heldN \ held # {} => Cardinality(heldN) <= ceiling
<1> DEFINE held == Holders(status, group)
           heldN == Holders(status', group)
<1>1. heldN \ held \subseteq {r} /\ heldN \subseteq group
  BY GroupGrants DEF Holders
<1>2. /\ Cardinality(heldN) <= Cardinality(Holders(Swept, group)) + 1
      /\ Cardinality(Holders(Swept, group)) \in Nat
      /\ Cardinality(heldN) \in Nat
  BY GrantCounts
<1> HIDE DEF held, heldN
<1>3. ASSUME heldN \ held # {}  PROVE  Cardinality(heldN) <= ceiling
  <2>1. Cardinality(Holders(Swept, group)) < ceiling
    BY <1>1, <1>3
  <2> QED BY <1>2, <2>1
<1> QED BY <1>3 DEF held, heldN

\* Every step is a step of each product's pool, or changes none of it.
LEMMA ProductStep ==
  ASSUME IInv, Next, NEW p \in Products
  PROVE  \/ Pool(OfProduct(p), productLimit[p])!PoolNext
         \/ UNCHANGED Pool(OfProduct(p), productLimit[p])!poolVars
<1> DEFINE group == OfProduct(p)
           held == Holders(status, group)
           heldN == Holders(status', group)
           spent == {x \in group : status[x] \in Freed}
           spentN == {x \in group : status'[x] \in Freed}
<1>1. group \in SUBSET Reservations /\ heldN \in SUBSET group
  BY DEF Holders, OfProduct
<1>2. CASE OnlyFrees /\ UNCHANGED limitVars
  <2>1. heldN \subseteq held /\ spentN = spent \cup (held \ heldN)
    BY <1>1, <1>2, GroupFrees
  <2>2. heldN \ held = {}
    BY <2>1
  <2>3. productLimit'[p] = productLimit[p]
    BY <1>2 DEF limitVars
  <2>4. Pool(OfProduct(p), productLimit[p])!Turnover
    BY <1>1, <2>1, <2>2, <2>3 DEF Pool!Turnover
  <2> QED BY <2>4 DEF Pool!PoolNext
<1>3. CASE UNCHANGED status /\ suiteLimit' \in Nat /\ productLimit' \in [Products -> Nat]
  <2>1. held = heldN /\ spent = spentN /\ productLimit'[p] \in Nat
    BY <1>3
  <2>2. Pool(OfProduct(p), productLimit[p])!ChangeLimit
    BY <2>1 DEF Pool!ChangeLimit
  <2> QED BY <2>2 DEF Pool!PoolNext
<1>4. ASSUME NEW r \in Reservations, Grants(r)
      PROVE  Pool(OfProduct(p), productLimit[p])!Turnover
  <2>1. heldN \ held \subseteq {r} /\ spentN = spent \cup (held \ heldN) /\ r \notin spentN
    BY <1>1, <1>4, GroupGrants
  <2>2. productLimit[p] \in Nat /\ productLimit'[p] = productLimit[p]
    BY <1>4 DEF IInv, TypeOK, Grants, limitVars
  <2>3. r \in group => Cardinality(Holders(Swept, group)) < productLimit[p]
    BY <1>4 DEF Grants, Grantable, OfProduct
  <2>4. heldN \ held # {} => Cardinality(heldN) <= productLimit[p]
    BY <1>1, <1>4, <2>2, <2>3, GrantFits
  <2>5. (heldN \ held) \cap spentN = {} /\ \A x, y \in heldN \ held : x = y
    BY <2>1
  <2> QED BY <1>1, <2>1, <2>2, <2>4, <2>5, PoolCounts DEF Pool!Turnover
<1> QED BY <1>2, <1>3, <1>4, StepKinds DEF Pool!PoolNext

\* Every step is a turnover of each owner's pool, or changes none of it.
LEMMA OwnerStep ==
  ASSUME IInv, Next, NEW o \in Owners
  PROVE  \/ Pool(OfOwner(o), MaxOwnerLimit)!Turnover
         \/ UNCHANGED Pool(OfOwner(o), MaxOwnerLimit)!poolVars
<1> DEFINE group == OfOwner(o)
           held == Holders(status, group)
           heldN == Holders(status', group)
           spent == {x \in group : status[x] \in Freed}
           spentN == {x \in group : status'[x] \in Freed}
<1>1. group \in SUBSET Reservations /\ heldN \in SUBSET group
  BY DEF Holders, OfOwner
<1>2. CASE OnlyFrees /\ UNCHANGED limitVars
  <2>1. heldN \subseteq held /\ spentN = spent \cup (held \ heldN)
    BY <1>1, <1>2, GroupFrees
  <2>2. heldN \ held = {}
    BY <2>1
  <2> QED BY <1>1, <2>1, <2>2 DEF Pool!Turnover
<1>3. CASE UNCHANGED status /\ suiteLimit' \in Nat /\ productLimit' \in [Products -> Nat]
  BY <1>3 DEF Pool!poolVars, Holders
<1>4. ASSUME NEW r \in Reservations, Grants(r)
      PROVE  Pool(OfOwner(o), MaxOwnerLimit)!Turnover
  <2>1. heldN \ held \subseteq {r} /\ spentN = spent \cup (held \ heldN) /\ r \notin spentN
    BY <1>1, <1>4, GroupGrants
  <2>2. r \in group => Cardinality(Holders(Swept, group)) < MaxOwnerLimit
    <3>1. ASSUME r \in group  PROVE  Cardinality(Holders(Swept, group)) < MaxOwnerLimit
      <4>1. PICK n \in OwnerLimits : Cardinality(Holders(Swept, OfOwner(OwnerOf[RepoOf[r]]))) < n
        BY <1>4 DEF Grants, Grantable
      <4>2. OwnerOf[RepoOf[r]] = o
        BY <3>1 DEF OfOwner
      <4>3. n \in Nat /\ n <= MaxOwnerLimit /\ MaxOwnerLimit \in Nat
        BY OwnerLimitBound
      <4>4. Cardinality(Holders(Swept, group)) \in Nat
        BY <1>1, <1>4, GrantCounts
      <4>5. Cardinality(Holders(Swept, group)) < n
        BY <4>1, <4>2
      <4> HIDE DEF group
      <4> QED BY <4>3, <4>4, <4>5
    <3> QED BY <3>1
  <2>3. heldN \ held # {} => Cardinality(heldN) <= MaxOwnerLimit
    BY <1>1, <1>4, <2>2, GrantFits, OwnerLimitBound
  <2>4. (heldN \ held) \cap spentN = {} /\ \A x, y \in heldN \ held : x = y
    BY <2>1
  <2> QED BY <1>1, <2>1, <2>3, <2>4, PoolCounts DEF Pool!Turnover
<1> QED BY <1>2, <1>3, <1>4, StepKinds

(***************************************************************************)
(* Every product's rows stay a pool under the product's ceiling, and every *)
(* owner's rows under the largest owner limit, at every step.              *)
(***************************************************************************)
THEOREM LayersArePools == Spec => LayerPools
<1> DEFINE Layers ==
      /\ \A p \in Products :
           Pool(OfProduct(p), productLimit[p])!PoolNext
             \/ UNCHANGED Pool(OfProduct(p), productLimit[p])!poolVars
      /\ \A o \in Owners :
           Pool(OfOwner(o), MaxOwnerLimit)!Turnover
             \/ UNCHANGED Pool(OfOwner(o), MaxOwnerLimit)!poolVars
<1>1. IInv /\ [Next]_ledgerVars => [Layers]_ledgerVars
  <2>1. ASSUME IInv, Next  PROVE  Layers
    BY <2>1, ProductStep, OwnerStep
  <2> HIDE DEF Layers
  <2> QED BY <2>1
<1>2. LayerPools <=> [][Layers]_ledgerVars
  BY DEF LayerPools
<1> HIDE DEF Layers
<1> QED BY <1>1, <1>2, Invariance, PTL DEF Spec

-----------------------------------------------------------------------------
(* The history of a row *)

\* What a step may do to a row: attach a URL to a publishing one, free an active
\* one, and say why a released one was released.
RowStep(r) ==
  /\ \/ prUrl'[r] = prUrl[r]
     \/ status[r] = "publishing" /\ status'[r] = "committed"
  /\ status[r] \in Freed => status'[r] = status[r]
  /\ status[r] = "committed" => status'[r] \in {"committed"} \cup Freed
  /\ \/ reason'[r] = reason[r]
     \/ status[r] \in Active /\ status'[r] = "released"

\* A sweep frees lapsed rows and leaves their URLs and reasons alone.
LEMMA SweepRowSteps ==
  ASSUME IInv, SweepRows, NEW r \in Reservations
  PROVE  RowStep(r)
BY SweptType DEF IInv, SweepRows, RowStep, Active, Freed

\* A row that leaves the budget was active.
LEMMA FreeRowSteps ==
  ASSUME IInv, NEW gone, NEW why, FreeRows(gone, why), NEW r \in Reservations,
         \A x \in gone \cap Reservations : status[x] \in Active
  PROVE  RowStep(r)
BY DEF IInv, TypeOK, FreeRows, RowStep, Active, Freed

\* Every step of the ledger, row by row.
LEMMA RowSteps ==
  ASSUME IInv, [Next]_ledgerVars, NEW r \in Reservations
  PROVE  RowStep(r)
<1>1. CASE UNCHANGED <<status, prUrl, reason>>
  BY <1>1 DEF RowStep
<1>2. ASSUME NEW x \in Reservations, NEW n \in OwnerLimits, ReserveDecide(x, n)
      PROVE  RowStep(r)
  BY <1>2, SweptType DEF ReserveDecide, IInv, TypeOK, CallsKnowTheirRows, RowStep, Active, Freed
<1>3. ASSUME NEW x \in Reservations, BeginApply(x)  PROVE  RowStep(r)
  BY <1>3 DEF BeginApply, IInv, TypeOK, RowStep, Freed
<1>4. ASSUME NEW x \in Reservations, NEW u \in Urls, NEW by \in Callers, CommitApply(x, u, by)
      PROVE  RowStep(r)
  BY <1>4 DEF CommitApply, IInv, TypeOK, RowStep, Freed
<1>5. ASSUME NEW x \in Reservations, NEW why \in ClientReasons, Release(x, why)
      PROVE  RowStep(r)
  BY <1>5, FreeRowSteps DEF Release
<1>6. ASSUME NEW p \in Products, NEW run \in Runs, ReleaseForRun(p, run)
      PROVE  RowStep(r)
  <2> DEFINE rows == {x \in OfProduct(p) : RunOf[x] = run /\ status[x] \in Active}
  <2>1. FreeRows(rows, "run") /\ \A x \in rows \cap Reservations : status[x] \in Active
    BY <1>6 DEF ReleaseForRun
  <2> HIDE DEF rows
  <2> QED BY <2>1, FreeRowSteps
<1>7. ASSUME NEW f \in observed, ReconcileRelease(f)  PROVE  RowStep(r)
  <2>1. CASE status[f.res] = "committed" /\ prUrl[f.res] = f.url
    <3>1. FreeRows({f.res}, "reconciled") /\ \A x \in {f.res} \cap Reservations : status[x] \in Active
      BY <1>7, <2>1 DEF ReconcileRelease, Active
    <3> QED BY <3>1, FreeRowSteps
  <2> QED BY <1>7, <2>1, <1>1 DEF ReconcileRelease, rowVars
<1>8. CASE Requests
  BY <1>1, <1>2, <1>3, <1>4, <1>5, <1>8, SweepRowSteps
  DEF Requests, ReserveCheck, BeginSweep, CommitSweep, LeaseLapses, rowVars
<1>9. CASE Reconciliation
  BY <1>1, <1>7, <1>9, SweepRowSteps
  DEF Reconciliation, ReconcileStart, ReconcileFetch, ReconcileRecord, ReconcileRecordFails, rowVars
<1>10. CASE Surroundings
  BY <1>1, <1>6, <1>10, SweepRowSteps
  DEF Surroundings, SaveSettings, ChangePolicy, ReadBudget, CooldownEnds, HiveCoreRestarts, rowVars
<1>11. CASE UNCHANGED ledgerVars
  BY <1>1, <1>11 DEF ledgerVars, rowVars
<1> QED BY <1>8, <1>9, <1>10, <1>11 DEF Next

(***************************************************************************)
(* A row's history is never rewritten: the pull request it was committed   *)
(* with is its pull request for good, a committed row only leaves the      *)
(* budget, and a row that left it keeps the reason why, whichever commits, *)
(* releases and sweeps arrive late.                                        *)
(***************************************************************************)
RowsKeepTheirHistory ==
  [][\A r \in Reservations :
       /\ prUrl[r] # NoUrl => prUrl'[r] = prUrl[r]
       /\ status[r] = "committed" => status'[r] \in {"committed"} \cup Freed
       /\ status[r] \in Freed => UNCHANGED <<status[r], prUrl[r], reason[r]>>]_ledgerVars

THEOREM RowsAlwaysKeepTheirHistory == Spec => RowsKeepTheirHistory
<1>1. ASSUME IInv, [Next]_ledgerVars, NEW r \in Reservations
      PROVE  /\ prUrl[r] # NoUrl => prUrl'[r] = prUrl[r]
             /\ status[r] = "committed" => status'[r] \in {"committed"} \cup Freed
             /\ status[r] \in Freed => UNCHANGED <<status[r], prUrl[r], reason[r]>>
  <2>1. RowStep(r)
    BY <1>1, RowSteps
  <2> QED BY <1>1, <2>1 DEF RowStep, IInv, RowsDecode, Freed, Active
<1>2. IInv /\ [Next]_ledgerVars =>
        [\A r \in Reservations :
           /\ prUrl[r] # NoUrl => prUrl'[r] = prUrl[r]
           /\ status[r] = "committed" => status'[r] \in {"committed"} \cup Freed
           /\ status[r] \in Freed => UNCHANGED <<status[r], prUrl[r], reason[r]>>]_ledgerVars
  BY <1>1
<1> QED BY <1>2, Invariance, PTL DEF Spec, RowsKeepTheirHistory

-----------------------------------------------------------------------------
(* How an outcome is lost, and the only way *)

\* The sweep's second transaction fails, or HiveCore stops before it.
DropsAnOutcome ==
  /\ freed # {}
  /\ HiveCoreRestarts \/ \E f \in freed : ReconcileRecordFails(f) /\ ~ ReconcileRecord(f)

\* The sweep works on one closed pull request at a time.
SweepIsSequential ==
  /\ observed = {} \/ freed = {}
  /\ \A f, g \in freed : f = g
  /\ \A f, g \in observed : f = g

\* The sweep's memory between two of its steps.
LEMMA SequentialStep ==
  ASSUME SweepIsSequential, [Next]_ledgerVars
  PROVE  SweepIsSequential'
<1>1. CASE UNCHANGED <<observed, freed>> \/ (observed' = {} /\ freed' = {})
  BY <1>1 DEF SweepIsSequential
<1>2. CASE Requests
  BY <1>1, <1>2 DEF Requests, ReserveCheck, ReserveDecide, BeginSweep, BeginApply, CommitSweep,
     CommitApply, Release, LeaseLapses, sweepVars
<1>3. CASE Reconciliation
  BY <1>3 DEF Reconciliation, ReconcileStart, ReconcileFetch, ReconcileRelease, ReconcileRecord,
     ReconcileRecordFails, SweepIsSequential
<1>4. CASE Surroundings
  BY <1>1, <1>4 DEF Surroundings, ReleaseForRun, SaveSettings, ChangePolicy, ReadBudget,
     CooldownEnds, HiveCoreRestarts, sweepVars
<1>5. CASE UNCHANGED ledgerVars
  BY <1>1, <1>5 DEF ledgerVars, sweepVars
<1> QED BY <1>2, <1>3, <1>4, <1>5 DEF Next

\* What a step may do to the sweep's findings: an outcome stays recorded, a row
\* becomes reconciled as the finding about it becomes the one to record, and a
\* finding that is dropped is recorded.
LEMMA FindingSteps ==
  ASSUME IInv, SweepIsSequential, [Next]_ledgerVars, ~ DropsAnOutcome
  PROVE  /\ outcomes \subseteq outcomes'
         /\ \A r \in Reservations :
              reason'[r] = "reconciled" =>
                reason[r] = "reconciled" \/ \E f \in freed' : f.res = r
         /\ \A f \in freed : f \in freed' \/ <<f.url, f.kind>> \in outcomes'
<1> DEFINE Goal ==
      /\ outcomes \subseteq outcomes'
      /\ \A r \in Reservations :
           reason'[r] = "reconciled" =>
             reason[r] = "reconciled" \/ \E f \in freed' : f.res = r
      /\ \A f \in freed : f \in freed' \/ <<f.url, f.kind>> \in outcomes'
<1> SUFFICES Goal
  OBVIOUS
<1>1. CASE UNCHANGED <<reason, outcomes, freed>>
  BY <1>1
<1>2. CASE Requests
  <2>1. ASSUME NEW r \in Reservations, NEW why \in ClientReasons, Release(r, why)
        PROVE  Goal
    BY <2>1, ConstantTypes DEF Release, FreeRows, sweepVars
  <2> QED BY <1>1, <1>2, <2>1 DEF Requests, ReserveCheck, ReserveDecide, BeginSweep, BeginApply,
     CommitSweep, CommitApply, LeaseLapses, SweepRows, rowVars, sweepVars
<1>3. ASSUME NEW f \in observed, ReconcileRelease(f)  PROVE  Goal
  BY <1>3 DEF ReconcileRelease, FreeRows, SweepIsSequential, rowVars
<1>4. ASSUME NEW f \in freed, ReconcileRecord(f)  PROVE  Goal
  BY <1>4 DEF ReconcileRecord, SweepIsSequential, rowVars
<1>5. ASSUME NEW f \in freed, ReconcileRecordFails(f)  PROVE  Goal
  BY <1>4, <1>5 DEF DropsAnOutcome
<1>6. CASE Reconciliation
  BY <1>1, <1>3, <1>4, <1>5, <1>6 DEF Reconciliation, ReconcileStart, ReconcileFetch, SweepRows, rowVars
<1>7. CASE HiveCoreRestarts
  BY <1>7 DEF HiveCoreRestarts, DropsAnOutcome, rowVars
<1>8. ASSUME NEW p \in Products, NEW run \in Runs, ReleaseForRun(p, run)  PROVE  Goal
  BY <1>8 DEF ReleaseForRun, FreeRows, sweepVars
<1>9. CASE Surroundings
  BY <1>1, <1>7, <1>8, <1>9 DEF Surroundings, SaveSettings, ChangePolicy, ReadBudget, CooldownEnds,
     SweepRows, rowVars, sweepVars
<1>10. CASE UNCHANGED ledgerVars
  BY <1>1, <1>10 DEF ledgerVars, rowVars, sweepVars
<1> QED BY <1>2, <1>6, <1>9, <1>10 DEF Next

(***************************************************************************)
(* The outcome of a reconciled pull request is lost in one way only: the   *)
(* transaction that records it fails, or HiveCore stops, after the one     *)
(* that released its row.  In every behaviour without such a step "every   *)
(* reconciled PR is written to the unified outcome ledger", whatever other *)
(* rows, sweeps, late commits and restarts do.                             *)
(***************************************************************************)
THEOREM OutcomesAreOnlyDropped ==
  Spec /\ [][~ DropsAnOutcome]_ledgerVars => []ReconciledOutcomesRecorded
<1>1. Init => SweepIsSequential /\ ReconciledOutcomesRecorded
  BY DEF Init, SweepIsSequential, ReconciledOutcomesRecorded
<1>2. /\ IInv /\ IInv' /\ SweepIsSequential /\ ReconciledOutcomesRecorded
      /\ [Next]_ledgerVars /\ [~ DropsAnOutcome]_ledgerVars
      => SweepIsSequential' /\ ReconciledOutcomesRecorded'
  <2> SUFFICES ASSUME IInv, IInv', SweepIsSequential, ReconciledOutcomesRecorded,
                      [Next]_ledgerVars, [~ DropsAnOutcome]_ledgerVars
               PROVE  SweepIsSequential' /\ ReconciledOutcomesRecorded'
    OBVIOUS
  <2>1. CASE UNCHANGED ledgerVars
    BY <2>1 DEF ledgerVars, rowVars, sweepVars, SweepIsSequential, ReconciledOutcomesRecorded
  <2>2. CASE ~ DropsAnOutcome
    <3>1. /\ outcomes \subseteq outcomes'
          /\ \A r \in Reservations :
               reason'[r] = "reconciled" =>
                 reason[r] = "reconciled" \/ \E f \in freed' : f.res = r
          /\ \A f \in freed : f \in freed' \/ <<f.url, f.kind>> \in outcomes'
      BY <2>2, FindingSteps
    <3>2. ASSUME NEW r \in Reservations, reason'[r] = "reconciled", \A f \in freed' : f.res # r
          PROVE  \E k \in Kinds : <<prUrl'[r], k>> \in outcomes'
      <4>1. reason[r] = "reconciled" /\ status[r] = "released"
        BY <3>1, <3>2 DEF IInv, RowsDecode
      <4>2. prUrl'[r] = prUrl[r]
        BY <4>1, RowSteps DEF RowStep
      <4>3. CASE \A f \in freed : f.res # r
        BY <3>1, <4>1, <4>2, <4>3 DEF ReconciledOutcomesRecorded
      <4>4. ASSUME NEW f \in freed, f.res = r
            PROVE  \E k \in Kinds : <<prUrl'[r], k>> \in outcomes'
        <5>1. f.kind \in Kinds /\ prUrl[r] = f.url
          BY <4>4 DEF IInv, TypeOK, Findings, OutcomesFollowReconciledRows
        <5>2. <<f.url, f.kind>> \in outcomes'
          BY <3>1, <3>2, <4>4
        <5> QED BY <4>2, <5>1, <5>2
      <4> QED BY <4>3, <4>4
    <3> QED BY <3>2, SequentialStep DEF ReconciledOutcomesRecorded
  <2> QED BY <2>1, <2>2
<1> QED BY <1>1, <1>2, Invariance, PTL DEF Spec
-----------------------------------------------------------------------------
(* What a refusal of policy stops, and what slips through *)

\* The requests for rows of a repository that have passed the policy checks.
PassedChecks(n) == {c \in calls : c.op = "reserve" /\ RepoOf[c.res] = n}

(***************************************************************************)
(* Pauses, the mandate and repository policy are read before the           *)
(* transaction of reserve_pr_slot opens, so a refusal recorded in between  *)
(* is not seen.  No more than that slips through: while a repository stays *)
(* refused no further request passes the checks, the ones that had passed  *)
(* only become fewer, and none but those is granted a row.                 *)
(***************************************************************************)
RefusalsHold ==
  [][\A n \in refused :
       /\ n \in refused' => PassedChecks(n)' \subseteq PassedChecks(n)
       /\ \A r \in Reservations :
            RepoOf[r] = n /\ status[r] = "absent" /\ status'[r] # "absent"
              => \E c \in PassedChecks(n) : c.res = r]_ledgerVars

LEMMA RefusalStep ==
  ASSUME IInv, [Next]_ledgerVars, NEW n \in refused
  PROVE  /\ n \in refused' => PassedChecks(n)' \subseteq PassedChecks(n)
         /\ \A r \in Reservations :
              RepoOf[r] = n /\ status[r] = "absent" /\ status'[r] # "absent"
                => \E c \in PassedChecks(n) : c.res = r
<1>1. ASSUME NEW r \in Reservations, status[r] = "absent", status'[r] # "absent", RepoOf[r] = n
      PROVE  \E c \in PassedChecks(n) : c.res = r
  <2>1. Grants(r)
    <3>1. status'[r] # status[r] /\ status[r] \notin Active
      BY <1>1 DEF Active
    <3>2. PICK x \in Reservations : Grants(x)
      BY <3>1, StepKinds DEF OnlyFrees, ledgerVars, rowVars
    <3>3. CASE x # r
      BY <3>1, <3>2, <3>3, SweptType DEF Grants, Swept, IInv
    <3> QED BY <3>2, <3>3
  <2> QED BY <1>1, <2>1 DEF Grants, PassedChecks
<1>2. ASSUME n \in refused'  PROVE  PassedChecks(n)' \subseteq PassedChecks(n)
  <2>1. CASE calls' \subseteq calls
    BY <2>1 DEF PassedChecks
  <2>2. ASSUME NEW c, c.op # "reserve" \/ RepoOf[c.res] # n, calls' = calls \cup {c}
        PROVE  PassedChecks(n)' \subseteq PassedChecks(n)
    BY <2>2 DEF PassedChecks
  <2>3. ASSUME NEW r \in Reservations, NEW k \in OwnerLimits, ReserveCheck(r, k)
        PROVE  PassedChecks(n)' \subseteq PassedChecks(n)
    BY <2>2, <2>3 DEF ReserveCheck
  <2>4. ASSUME NEW r \in Reservations, BeginSweep(r)
        PROVE  PassedChecks(n)' \subseteq PassedChecks(n)
    BY <2>2, <2>4 DEF BeginSweep
  <2>5. ASSUME NEW r \in Reservations, NEW u \in Urls, NEW by \in Callers, CommitSweep(r, u, by)
        PROVE  PassedChecks(n)' \subseteq PassedChecks(n)
    BY <2>2, <2>5 DEF CommitSweep
  <2>6. CASE Requests
    BY <2>1, <2>3, <2>4, <2>5, <2>6 DEF Requests, ReserveDecide, BeginApply, CommitApply, Release,
       LeaseLapses
  <2>7. CASE Reconciliation
    BY <2>1, <2>7 DEF Reconciliation, ReconcileStart, ReconcileFetch, ReconcileRelease,
       ReconcileRecord, ReconcileRecordFails
  <2>8. CASE Surroundings
    BY <2>1, <2>8 DEF Surroundings, ReleaseForRun, SaveSettings, ChangePolicy, ReadBudget,
       CooldownEnds, HiveCoreRestarts
  <2>9. CASE UNCHANGED ledgerVars
    BY <2>1, <2>9 DEF ledgerVars
  <2> QED BY <2>6, <2>7, <2>8, <2>9 DEF Next
<1> QED BY <1>1, <1>2

THEOREM RefusalsAlwaysHold == Spec => RefusalsHold
<1>1. IInv /\ [Next]_ledgerVars =>
        [\A n \in refused :
           /\ n \in refused' => PassedChecks(n)' \subseteq PassedChecks(n)
           /\ \A r \in Reservations :
                RepoOf[r] = n /\ status[r] = "absent" /\ status'[r] # "absent"
                  => \E c \in PassedChecks(n) : c.res = r]_ledgerVars
  BY RefusalStep
<1> QED BY <1>1, Invariance, PTL DEF Spec, RefusalsHold
=============================================================================
