--------------------------- MODULE ReaperRunsProofs ---------------------------
(***************************************************************************)
(* Theorems about RepoReaper's runs, for any number of issues, runs,       *)
(* workers, retries, faults and restarts.                                  *)
(*                                                                         *)
(* A worker's step says what its counters, its tree and its branch hold:   *)
(* what is in the tree was approved, or is the patch under review, unless  *)
(* a reset failed; what is pushed is what was judged.  A branch is pushed  *)
(* once and a pull request needs one, so an issue gets one pull request.   *)
(***************************************************************************)
EXTENDS ReaperRuns, FiniteSetTheorems, TLAPS

JobRec == [at : Steps, call : BOOLEAN, drafts : 0..(2 + 2 * MaxRetries),
           test : Results \cup {"none"}, retry : 0..MaxRetries,
           diff : SUBSET Patches, approved : SUBSET Patches,
           passed : SUBSET Patches, judged : SUBSET Patches, unclean : BOOLEAN]

Idle == {"none", "queued", "checking", "cloning", "selecting", "drafting", "ended", "joined"}
Publishing == {"staging", "judging", "pushing", "posting", "posted"}

\* How many patches and retries a worker has had at each of its steps, where it
\* calls models, and that nothing passed its tests before it is staged.
Counted(j) ==
  /\ j.at \in Idle => j.drafts = 0 /\ j.retry = 0
  /\ j.at = "healing" => j.drafts = 1 /\ j.retry = 0
  /\ j.at \in {"applying", "reviewing", "testing"} => j.drafts \in 1..2 /\ j.retry = 0
  /\ j.at \notin Idle => j.drafts >= 1 /\ j.drafts <= 2 + 2 * j.retry
  /\ j.at = "retrying" => j.retry < MaxRetries
  /\ j.at = "redrafting" => j.retry >= 1 /\ j.drafts <= 2 * j.retry
  /\ j.at \in {"reapplying", "rereviewing"} => j.retry >= 1 /\ j.drafts <= 2 * j.retry + 1
  /\ j.call => j.at \in AskingSteps
  /\ j.test = "passed" => j.at \in Publishing

JobInv == job \in [Issues -> JobRec] /\ \A i \in Issues : Counted(job[i])
TreeType ==
  tree \in [Paths -> [owner : Issues \cup {"none"}, content : SUBSET Patches, writer : BOOLEAN]]

-----------------------------------------------------------------------------
(* Workers and their counters *)

LEMMA Bounds == MaxRetries \in Nat /\ WorkPath \in [Issues -> Paths]
  BY ReaperConstants

LEMMA FreshTree ==
  NoTree \in [owner : Issues \cup {"none"}, content : SUBSET Patches, writer : BOOLEAN]
  BY DEF NoTree

LEMMA FreshJob == NoJob \in JobRec /\ Counted(NoJob)
  BY Bounds DEF NoJob, JobRec, Counted, Steps, Idle

LEMMA EndedJob ==
  /\ [NoJob EXCEPT !.at = "ended"] \in JobRec
  /\ Counted([NoJob EXCEPT !.at = "ended"])
<1> DEFINE e == [NoJob EXCEPT !.at = "ended"]
<1>1. e \in JobRec BY FreshJob DEF JobRec, Steps
<1>2. e.at = "ended" /\ e.drafts = 0 /\ e.retry = 0 /\ e.call = FALSE /\ e.test = "none" BY DEF NoJob
<1> HIDE DEF e
<1>3. Counted(e) BY <1>2 DEF Counted, Idle
<1> QED BY <1>1, <1>3 DEF e

LEMMA GoesWell ==
  ASSUME JobInv, NEW i \in Issues, NEW n \in JobRec, Counted(n), Goes(i, n)
  PROVE  JobInv'
  BY DEF JobInv, Goes

LEMMA EndsWell == ASSUME JobInv, NEW i \in Issues, Ends(i) PROVE JobInv'
  BY EndedJob DEF JobInv, Ends

\* A job that moves on without patch, retry or result keeps its type.
LEMMA Moves ==
  ASSUME NEW j \in JobRec, NEW at \in Steps
  PROVE  [j EXCEPT !.at = at] \in JobRec /\ [j EXCEPT !.at = at, !.call = FALSE] \in JobRec
  BY DEF JobRec

LEMMA TestedWell ==
  ASSUME NEW j \in JobRec, j.drafts >= 1, j.drafts <= 2 + 2 * j.retry
  PROVE  Tested(j) \in JobRec /\ Counted(Tested(j))
<1> USE Bounds
<1>1. Tested(j) \in JobRec BY DEF JobRec, Tested, Steps
<1>2. /\ Tested(j).at \in {"retrying", "staging"} /\ ~Tested(j).call
      /\ Tested(j).at = "retrying" => j.retry < MaxRetries /\ j.test = "failed"
      /\ Tested(j).drafts = j.drafts /\ Tested(j).retry = j.retry /\ Tested(j).test = j.test
  BY DEF JobRec, Tested, Retries
<1> QED BY <1>1, <1>2 DEF Counted, Idle, Publishing

LEMMA PatchWell ==
  ASSUME JobInv, NEW i \in Issues, job[i].at \notin Idle
  PROVE  Patch(i) \in Patches
  BY Bounds DEF JobInv, JobRec, Counted, Patch, Patches, Drafts

LEMMA ResetsWell ==
  ASSUME JobInv, TreeType, NEW i \in Issues, job[i].at \notin Idle,
         NEW n \in JobRec, Counted(n), Resets(i, n)
  PROVE  JobInv' /\ TreeType'
<1> USE Bounds
<1>1. CASE Goes(i, n) /\ tree' = PutTree(i, {})
  BY <1>1, GoesWell DEF PutTree, TreeType
<1>2. CASE /\ Goes(i, [n EXCEPT !.unclean = TRUE])
           /\ \E content \in {Tree(i).content, Tree(i).content \cup {Patch(i)}} : tree' = PutTree(i, content)
  <2>1. [n EXCEPT !.unclean = TRUE] \in JobRec /\ Counted([n EXCEPT !.unclean = TRUE])
    BY DEF JobRec, Counted
  <2>2. TreeType' BY <1>2, PatchWell DEF Tree, PutTree, TreeType
  <2> QED BY <1>2, <2>1, <2>2, GoesWell
<1> QED BY <1>1, <1>2 DEF Resets
LEMMA JobOf == ASSUME JobInv, NEW i \in Issues PROVE job[i] \in JobRec /\ Counted(job[i])
  BY DEF JobInv

LEMMA StepNames ==
  /\ "drafting" \in Steps /\ "healing" \in Steps /\ "applying" \in Steps
  /\ "reviewing" \in Steps /\ "testing" \in Steps /\ "redrafting" \in Steps
  /\ "reapplying" \in Steps /\ "rereviewing" \in Steps /\ "staging" \in Steps
  /\ "judging" \in Steps /\ "pushing" \in Steps /\ "posting" \in Steps /\ "posted" \in Steps
  BY DEF Steps

\* The record To makes differs from the worker's in its step and its call.
LEMMA ToFields ==
  ASSUME JobInv, NEW i \in Issues, NEW at \in Steps
  PROVE  /\ To(i, at) \in JobRec
         /\ To(i, at).at = at /\ To(i, at).call = FALSE
         /\ To(i, at).drafts = job[i].drafts /\ To(i, at).retry = job[i].retry
         /\ To(i, at).test = job[i].test
  BY JobOf, Moves DEF To, JobRec

LEMMA EndWell ==
  ASSUME JobInv, TreeType, NEW i \in Issues, NEW status, End(i, status)
  PROVE  JobInv' /\ TreeType'
  BY EndsWell DEF End, TreeType, NoTree

LEMMA AdmissionMoves ==
  ASSUME JobInv, TreeType, NEW i \in Issues, Begin(i) \/ Check(i) \/ Clone(i) \/ Cancel(i) \/ OpenCall(i)
  PROVE  JobInv' /\ TreeType'
<1> USE Bounds, JobOf
<1>1. CASE Begin(i)
  <2>1. CASE job' = [job EXCEPT ![i].at = "checking"]
    <3> DEFINE n == [job[i] EXCEPT !.at = "checking"]
    <3>1. n \in JobRec BY Moves DEF Steps
    <3>2. /\ n.at = "checking" /\ n.drafts = job[i].drafts /\ n.retry = job[i].retry
          /\ n.call = job[i].call /\ n.test = job[i].test
      BY DEF JobRec
    <3>3. Goes(i, n) BY <2>1 DEF Goes, JobInv
    <3> HIDE DEF n
    <3>4. Counted(n) BY <1>1, <3>2 DEF Counted, Begin, Idle, AskingSteps, Publishing
    <3> QED BY <1>1, <3>1, <3>3, <3>4, GoesWell DEF Begin, TreeType
  <2> QED BY <1>1, <2>1, EndsWell DEF Begin, TreeType
<1>2. CASE Check(i)
  <2>1. CASE job' = [job EXCEPT ![i].at = "cloning"] /\ UNCHANGED tree
    <3> DEFINE n == [job[i] EXCEPT !.at = "cloning"]
    <3>1. n \in JobRec BY Moves DEF Steps
    <3>2. /\ n.at = "cloning" /\ n.drafts = job[i].drafts /\ n.retry = job[i].retry
          /\ n.call = job[i].call /\ n.test = job[i].test
      BY DEF JobRec
    <3>3. Goes(i, n) BY <2>1 DEF Goes, JobInv
    <3> HIDE DEF n
    <3>4. Counted(n) BY <1>2, <3>2 DEF Counted, Check, Idle, AskingSteps, Publishing
    <3> QED BY <2>1, <3>1, <3>3, <3>4, GoesWell DEF TreeType
  <2> QED BY <1>2, <2>1, EndsWell, FreshTree DEF Check, TreeType
<1>3. CASE Clone(i)
  <2>1. CASE job' = [job EXCEPT ![i].at = "selecting"]
             /\ tree' = [tree EXCEPT ![WorkPath[i]] = [owner |-> i, content |-> {}, writer |-> FALSE]]
    <3> DEFINE n == [job[i] EXCEPT !.at = "selecting"]
    <3>1. n \in JobRec BY Moves DEF Steps
    <3>2. /\ n.at = "selecting" /\ n.drafts = job[i].drafts /\ n.retry = job[i].retry
          /\ n.call = job[i].call /\ n.test = job[i].test
      BY DEF JobRec
    <3>3. Goes(i, n) BY <2>1 DEF Goes, JobInv
    <3> HIDE DEF n
    <3>4. Counted(n) BY <1>3, <3>2 DEF Counted, Clone, Idle, AskingSteps, Publishing
    <3> QED BY <2>1, <3>1, <3>3, <3>4, GoesWell DEF TreeType
  <2> QED BY <1>3, <2>1, EndWell DEF Clone
<1>4. CASE Cancel(i) BY <1>4, EndWell DEF Cancel
<1>5. CASE OpenCall(i)
  <2> DEFINE n == [job[i] EXCEPT !.call = TRUE]
  <2>1. n \in JobRec BY DEF JobRec
  <2>2. /\ n.at = job[i].at /\ n.drafts = job[i].drafts /\ n.retry = job[i].retry
        /\ n.call = TRUE /\ n.test = job[i].test
    BY DEF JobRec
  <2>3. Goes(i, n) BY <1>5 DEF Goes, OpenCall, JobInv
  <2> HIDE DEF n
  <2>4. Counted(n) BY <1>5, <2>2 DEF Counted, OpenCall
  <2> QED BY <1>5, <2>1, <2>3, <2>4, GoesWell DEF OpenCall, TreeType
<1> QED BY <1>1, <1>2, <1>3, <1>4, <1>5
LEMMA DraftedFields ==
  ASSUME JobInv, NEW i \in Issues, NEW at \in Steps, job[i].drafts <= 1 + 2 * MaxRetries
  PROVE  /\ Drafted(i, at) \in JobRec
         /\ Drafted(i, at).at = at /\ Drafted(i, at).call = FALSE
         /\ Drafted(i, at).drafts = job[i].drafts + 1 /\ Drafted(i, at).retry = job[i].retry
         /\ Drafted(i, at).test = job[i].test
<1> DEFINE t == To(i, at)
<1>1. t \in JobRec /\ t.at = at /\ t.call = FALSE /\ t.drafts = job[i].drafts
      /\ t.retry = job[i].retry /\ t.test = job[i].test
  BY ToFields
<1>2. t.drafts + 1 \in 0..(2 + 2 * MaxRetries) BY <1>1, JobOf, Bounds DEF JobRec
<1>3. Drafted(i, at) = [t EXCEPT !.drafts = t.drafts + 1] BY DEF Drafted
<1> HIDE DEF t
<1> QED BY <1>1, <1>2, <1>3 DEF JobRec

LEMMA ApprovedFields ==
  ASSUME JobInv, NEW i \in Issues, NEW patches \in SUBSET Patches
  PROVE  /\ Approved(i, patches) \in JobRec
         /\ Approved(i, patches).at = "testing" /\ Approved(i, patches).call = FALSE
         /\ Approved(i, patches).drafts = job[i].drafts /\ Approved(i, patches).retry = job[i].retry
         /\ Approved(i, patches).test = job[i].test
<1> DEFINE t == To(i, "testing")
<1>1. t \in JobRec /\ t.at = "testing" /\ t.call = FALSE /\ t.drafts = job[i].drafts
      /\ t.retry = job[i].retry /\ t.test = job[i].test
  BY ToFields, StepNames
<1>2. Approved(i, patches) = [t EXCEPT !.approved = t.approved \cup patches] BY DEF Approved
<1> HIDE DEF t
<1> QED BY <1>1, <1>2 DEF JobRec

LEMMA ReapprovedFields ==
  ASSUME JobInv, NEW i \in Issues, NEW patches \in SUBSET Patches
  PROVE  /\ Reapproved(i, patches) \in JobRec
         /\ Reapproved(i, patches).at = "retesting" /\ Reapproved(i, patches).call = FALSE
         /\ Reapproved(i, patches).drafts = job[i].drafts
         /\ Reapproved(i, patches).retry = job[i].retry
         /\ Reapproved(i, patches).test = job[i].test
<1> DEFINE a == Approved(i, patches)
<1>1. a \in JobRec /\ a.call = FALSE /\ a.drafts = job[i].drafts
      /\ a.retry = job[i].retry /\ a.test = job[i].test
  BY ApprovedFields
<1>2. Reapproved(i, patches) = [a EXCEPT !.at = "retesting"] BY DEF Reapproved
<1> HIDE DEF a
<1> QED BY <1>1, <1>2 DEF JobRec, Steps

LEMMA AppliesWell ==
  ASSUME JobInv, TreeType, NEW i \in Issues, job[i].at \notin Idle, Applies(i)
  PROVE  TreeType'
  BY PatchWell, Bounds DEF Applies, Tree, PutTree, TreeType

LEMMA PatchMoves ==
  ASSUME JobInv, TreeType, NEW i \in Issues, Select(i) \/ Draft(i) \/ Apply(i) \/ Review(i)
  PROVE  JobInv' /\ TreeType'
<1> USE Bounds, JobOf
<1>1. CASE Select(i)
  <2>1. To(i, "drafting") \in JobRec /\ Counted(To(i, "drafting"))
    <3> DEFINE n == To(i, "drafting")
    <3>1. n \in JobRec /\ n.at = "drafting" /\ n.call = FALSE /\ n.drafts = job[i].drafts
          /\ n.retry = job[i].retry /\ n.test = job[i].test
      BY <1>1, ToFields, StepNames
    <3> HIDE DEF n
    <3>2. Counted(n) BY <1>1, <3>1 DEF Select, Counted, Idle, Publishing
    <3> QED BY <3>1, <3>2 DEF n
  <2> QED BY <1>1, <2>1, GoesWell DEF Select, TreeType
<1>2. CASE Draft(i)
  <2>1. Drafted(i, "applying") \in JobRec /\ Counted(Drafted(i, "applying"))
    <3> DEFINE n == Drafted(i, "applying")
    <3>0. job[i].drafts <= 1 + 2 * MaxRetries BY <1>2 DEF Draft, Counted, JobRec, Idle
    <3>1. n \in JobRec /\ n.at = "applying" /\ n.call = FALSE /\ n.drafts = job[i].drafts + 1
          /\ n.retry = job[i].retry /\ n.test = job[i].test
      BY <3>0, DraftedFields, StepNames
    <3> HIDE DEF n
    <3>2. Counted(n) BY <1>2, <3>1 DEF Draft, Counted, Idle, Publishing, JobRec
    <3> QED BY <3>1, <3>2 DEF n
  <2> QED BY <1>2, <2>1, GoesWell, EndWell DEF Draft, TreeType
<1>3. CASE Apply(i)
  <2>1. To(i, "reviewing") \in JobRec /\ Counted(To(i, "reviewing"))
    <3> DEFINE n == To(i, "reviewing")
    <3>1. n \in JobRec /\ n.at = "reviewing" /\ n.call = FALSE /\ n.drafts = job[i].drafts
          /\ n.retry = job[i].retry /\ n.test = job[i].test
      BY <1>3, ToFields, StepNames
    <3> HIDE DEF n
    <3>2. Counted(n) BY <1>3, <3>1 DEF Apply, Counted, Idle, Publishing, AskingSteps, JobRec
    <3> QED BY <3>1, <3>2 DEF n
  <2>2. job[i].drafts = 1 => To(i, "healing") \in JobRec /\ Counted(To(i, "healing"))
    <3> DEFINE n == To(i, "healing")
    <3>1. n \in JobRec /\ n.at = "healing" /\ n.call = FALSE /\ n.drafts = job[i].drafts
          /\ n.retry = job[i].retry /\ n.test = job[i].test
      BY <1>3, ToFields, StepNames
    <3> HIDE DEF n
    <3>2. job[i].drafts = 1 => Counted(n) BY <1>3, <3>1 DEF Apply, Counted, Idle, Publishing, AskingSteps, JobRec
    <3> QED BY <3>1, <3>2 DEF n
  <2>3. job[i].at \notin Idle BY <1>3 DEF Apply, Idle
  <2> QED BY <1>3, <2>1, <2>2, <2>3, GoesWell, EndWell, ResetsWell, AppliesWell DEF Apply
<1>4. CASE Review(i)
  <2>1. {Patch(i)} \in SUBSET Patches BY <1>4, PatchWell DEF Review, Idle
  <2>2. Approved(i, {Patch(i)}) \in JobRec /\ Counted(Approved(i, {Patch(i)}))
    BY <1>4, <2>1, ApprovedFields DEF Review, Counted, Steps, Idle, Publishing
  <2> QED BY <1>4, <2>2, GoesWell, EndWell DEF Review, TreeType
<1> QED BY <1>1, <1>2, <1>3, <1>4

\* Tests change what differs in their clone, and who still writes to it.
LEMMA LeavesTree ==
  ASSUME TreeType, NEW i \in Issues, NEW result, Leaves(i, result)
  PROVE  /\ TreeType'
         /\ \E t : tree' = [tree EXCEPT ![WorkPath[i]] = t]
         /\ Tree(i)'.owner = Tree(i).owner /\ Tree(i)'.content \in Littered(i)
         /\ Tree(i) = NoTree => Tree(i)' = NoTree
<1>0. WorkPath[i] \in Paths /\ Litter(i) \in Patches BY Bounds DEF Litter, Patches, Drafts
<1>1. CASE UNCHANGED tree
  BY <1>0, <1>1 DEF TreeType, Tree, Littered
<1>2. ASSUME Tree(i) # NoTree, NEW content \in Littered(i), NEW writer \in BOOLEAN,
             tree' = [tree EXCEPT ![WorkPath[i]] =
                        [owner |-> Tree(i).owner, content |-> content, writer |-> writer]]
      PROVE  /\ TreeType'
             /\ \E t : tree' = [tree EXCEPT ![WorkPath[i]] = t]
             /\ Tree(i)'.owner = Tree(i).owner /\ Tree(i)'.content \in Littered(i)
  <2> DEFINE t == [owner |-> Tree(i).owner, content |-> content, writer |-> writer]
  <2>1. Tree(i) \in [owner : Issues \cup {"none"}, content : SUBSET Patches, writer : BOOLEAN]
    BY <1>0 DEF TreeType, Tree
  <2>2. content \in SUBSET Patches BY <1>0, <1>2, <2>1 DEF Littered
  <2>3. t \in [owner : Issues \cup {"none"}, content : SUBSET Patches, writer : BOOLEAN]
    BY <1>2, <2>1, <2>2
  <2>4. t.owner = Tree(i).owner /\ t.content = content OBVIOUS
  <2>5. tree' = [tree EXCEPT ![WorkPath[i]] = t] BY <1>2
  <2> HIDE DEF t
  <2>6. Tree(i)' = t BY <1>0, <2>5 DEF TreeType, Tree
  <2>7. TreeType' BY <1>0, <2>3, <2>5 DEF TreeType
  <2> QED BY <1>2, <2>4, <2>5, <2>6, <2>7
<1> QED BY <1>1, <1>2 DEF Leaves

LEMMA RetryMoves ==
  ASSUME JobInv, TreeType, NEW i \in Issues, Test(i) \/ Retry(i) \/ Redraft(i) \/ Reapply(i)
  PROVE  JobInv' /\ TreeType'
<1> USE Bounds, JobOf
<1>1. CASE Test(i)
  <2> SUFFICES ASSUME NEW result \in Results,
                      Goes(i, Tested([job[i] EXCEPT
                        !.test = result,
                        !.passed = IF result = "passed" THEN Tree(i).content ELSE {}])),
                      Leaves(i, result)
               PROVE  JobInv' /\ TreeType'
    BY <1>1 DEF Test
  <2> DEFINE c == IF result = "passed" THEN Tree(i).content ELSE {}
             t == [job[i] EXCEPT !.test = result, !.passed = c]
  <2>1. c \in SUBSET Patches BY DEF Tree, TreeType
  <2>2. t \in JobRec BY <2>1 DEF JobRec
  <2>3. t.drafts = job[i].drafts /\ t.retry = job[i].retry BY DEF JobRec
  <2>4. job[i].at \notin Idle BY <1>1 DEF Test, Idle
  <2>5. t.drafts >= 1 /\ t.drafts <= 2 + 2 * t.retry BY <2>3, <2>4 DEF Counted
  <2> HIDE DEF t
  <2>6. Tested(t) \in JobRec /\ Counted(Tested(t)) BY <2>2, <2>5, TestedWell
  <2>7. Goes(i, Tested(t)) BY DEF t
  <2> QED BY <2>6, <2>7, GoesWell, LeavesTree
<1>2. CASE Retry(i)
  <2> DEFINE t == To(i, "redrafting")
             n == [t EXCEPT !.retry = t.retry + 1]
  <2>1. t \in JobRec /\ t.at = "redrafting" /\ t.call = FALSE /\ t.drafts = job[i].drafts
        /\ t.retry = job[i].retry /\ t.test = job[i].test
    BY ToFields, StepNames
  <2>2. job[i].at = "retrying" /\ job[i].at \notin Idle BY <1>2 DEF Retry, Idle
  <2>3. t.retry + 1 \in 0..MaxRetries BY <2>1, <2>2 DEF Counted, JobRec
  <2>4. Resets(i, n) BY <1>2 DEF Retry
  <2> HIDE DEF t
  <2>5. n \in JobRec /\ n.at = "redrafting" /\ n.call = FALSE /\ n.drafts = job[i].drafts
        /\ n.retry = job[i].retry + 1 /\ n.test = job[i].test
    BY <2>1, <2>3 DEF JobRec
  <2> HIDE DEF n
  <2>6. /\ job[i].drafts \in Nat /\ job[i].retry \in Nat /\ job[i].test # "passed"
        /\ job[i].drafts >= 1 /\ job[i].drafts <= 2 + 2 * job[i].retry
    <3>1. job[i] \in JobRec /\ Counted(job[i]) BY JobOf
    <3>2. job[i].drafts \in Nat /\ job[i].retry \in Nat BY <3>1 DEF JobRec
    <3>3. job[i].test # "passed" BY <3>1, <2>2 DEF Counted, Publishing
    <3>4. job[i].drafts >= 1 /\ job[i].drafts <= 2 + 2 * job[i].retry BY <3>1, <2>2 DEF Counted
    <3> QED BY <3>2, <3>3, <3>4
  <2>7. Counted(n) BY ONLY <2>5, <2>6 DEF Counted, Idle
  <2> QED BY <2>2, <2>4, <2>5, <2>7, ResetsWell
<1>3. CASE Redraft(i)
  <2>1. job[i].at = "redrafting" /\ job[i].at \notin Idle BY <1>3 DEF Redraft, Idle
  <2>2. Tested(job[i]) \in JobRec /\ Counted(Tested(job[i]))
    BY <2>1, TestedWell DEF Counted
  <2>3. Drafted(i, "reapplying") \in JobRec /\ Counted(Drafted(i, "reapplying"))
    <3> DEFINE n == Drafted(i, "reapplying")
    <3>0. job[i].drafts <= 1 + 2 * MaxRetries BY <2>1 DEF Counted, JobRec
    <3>1. n \in JobRec /\ n.at = "reapplying" /\ n.call = FALSE /\ n.drafts = job[i].drafts + 1
          /\ n.retry = job[i].retry /\ n.test = job[i].test
      BY <3>0, DraftedFields, StepNames
    <3> HIDE DEF n
    <3>2. Counted(n) BY <2>1, <3>1 DEF Counted, Idle, Publishing, JobRec
    <3> QED BY <3>1, <3>2 DEF n
  <2> QED BY <1>3, <2>2, <2>3, GoesWell DEF Redraft, TreeType
<1>4. CASE Reapply(i)
  <2>1. job[i].at = "reapplying" /\ job[i].at \notin Idle BY <1>4 DEF Reapply, Idle
  <2>2. Tested(job[i]) \in JobRec /\ Counted(Tested(job[i]))
    BY <2>1, TestedWell DEF Counted
  <2>3. To(i, "rereviewing") \in JobRec /\ Counted(To(i, "rereviewing"))
    <3> DEFINE n == To(i, "rereviewing")
    <3>1. n \in JobRec /\ n.at = "rereviewing" /\ n.call = FALSE /\ n.drafts = job[i].drafts
          /\ n.retry = job[i].retry /\ n.test = job[i].test
      BY <2>1, ToFields, StepNames
    <3> HIDE DEF n
    <3>2. Counted(n) BY <2>1, <3>1 DEF Counted, Idle, Publishing, AskingSteps, JobRec
    <3> QED BY <3>1, <3>2 DEF n
  <2> QED BY <1>4, <2>1, <2>2, <2>3, GoesWell, ResetsWell, AppliesWell DEF Reapply
<1> QED BY <1>1, <1>2, <1>3, <1>4

LEMMA RereviewMoves ==
  ASSUME JobInv, TreeType, NEW i \in Issues, Rereview(i)
  PROVE  JobInv' /\ TreeType'
<1> USE Bounds, JobOf
<1>1. job[i].at = "rereviewing" /\ job[i].at \notin Idle BY DEF Rereview, Idle
<1>2. To(i, "staging") \in JobRec /\ Counted(To(i, "staging"))
  <2> DEFINE n == To(i, "staging")
  <2>1. n \in JobRec /\ n.at = "staging" /\ n.call = FALSE /\ n.drafts = job[i].drafts
        /\ n.retry = job[i].retry /\ n.test = job[i].test
    BY <1>1, ToFields, StepNames
  <2> HIDE DEF n
  <2>2. Counted(n) BY <1>1, <2>1 DEF Counted, Idle, Publishing, JobRec
  <2> QED BY <2>1, <2>2 DEF n
<1>3. {Patch(i)} \in SUBSET Patches BY <1>1, PatchWell
<1>4. Reapproved(i, {Patch(i)}) \in JobRec /\ Counted(Reapproved(i, {Patch(i)}))
  BY <1>1, <1>3, ReapprovedFields DEF Counted, Idle, Publishing
<1>5. CASE Improves(i)
  <2> DEFINE new == <<i, job[i].drafts + 1>>
             r == Reapproved(i, {Patch(i), new})
             next == [r EXCEPT !.drafts = r.drafts + 1]
  <2>1. job[i].drafts + 1 \in Drafts /\ job[i].drafts + 1 \in 0..(2 + 2 * MaxRetries)
    BY <1>1 DEF Counted, JobRec, Drafts
  <2>2. new \in Patches BY <2>1 DEF Patches
  <2>3. {Patch(i), new} \in SUBSET Patches BY <1>3, <2>2
  <2>4. /\ \/ Goes(i, next) /\ tree' = PutTree(i, {new})
           \/ Goes(i, [next EXCEPT !.unclean = TRUE]) /\ tree' = PutTree(i, Tree(i).content \cup {new})
    BY <1>5 DEF Improves
  <2>5. TreeType' BY <2>2, <2>4 DEF PutTree, Tree, TreeType
  <2> HIDE DEF new
  <2>6. r \in JobRec /\ r.at = "retesting" /\ r.call = FALSE /\ r.drafts = job[i].drafts
        /\ r.retry = job[i].retry /\ r.test = job[i].test
    BY <2>3, ReapprovedFields
  <2> HIDE DEF r
  <2>7. next \in JobRec /\ next.at = "retesting" /\ next.call = FALSE
        /\ next.drafts = job[i].drafts + 1 /\ next.retry = job[i].retry /\ next.test = job[i].test
    BY <2>1, <2>6 DEF JobRec
  <2> HIDE DEF next
  <2>8. Counted(next) BY <1>1, <2>7 DEF Counted, Idle, Publishing, JobRec
  <2>9. [next EXCEPT !.unclean = TRUE] \in JobRec /\ Counted([next EXCEPT !.unclean = TRUE])
    BY <2>7, <2>8 DEF JobRec, Counted
  <2> QED BY <2>4, <2>5, <2>7, <2>8, <2>9, GoesWell
<1>6. CASE Resets(i, To(i, "staging")) BY <1>1, <1>2, <1>6, ResetsWell
<1>7. CASE Goes(i, Reapproved(i, {Patch(i)})) /\ UNCHANGED tree
  BY <1>4, <1>7, GoesWell DEF TreeType
<1> QED BY <1>5, <1>6, <1>7 DEF Rereview
\* The step to be published keeps the worker's counters.
LEMMA ToPublish ==
  ASSUME JobInv, NEW i \in Issues, job[i].at \in Publishing,
         NEW at \in {"judging", "pushing", "posting", "posted"}
  PROVE  To(i, at) \in JobRec /\ Counted(To(i, at))
<1> DEFINE n == To(i, at)
<1>0. at \in Steps BY StepNames
<1>1. n \in JobRec /\ n.at = at /\ n.call = FALSE /\ n.drafts = job[i].drafts
      /\ n.retry = job[i].retry
  BY <1>0, ToFields
<1>2. job[i].drafts >= 1 /\ job[i].drafts <= 2 + 2 * job[i].retry
  <2>1. Counted(job[i]) BY JobOf
  <2> QED BY <2>1 DEF Counted, Idle, Publishing
<1> HIDE DEF n
<1>3. Counted(n) BY ONLY <1>1, <1>2, at \in {"judging", "pushing", "posting", "posted"}
                 DEF Counted, Idle, Publishing
<1> QED BY <1>1, <1>3 DEF n

\* What is staged is the content of the tree, or that and what tests wrote.
LEMMA StagedContent ==
  ASSUME TreeType, NEW i \in Issues,
         NEW content \in IF Tree(i).writer THEN Littered(i) ELSE {Tree(i).content}
  PROVE  /\ content \in SUBSET Patches
         /\ content \in Littered(i)
         /\ Tree(i) = NoTree => content = {}
<1>1. Tree(i) \in [owner : Issues \cup {"none"}, content : SUBSET Patches, writer : BOOLEAN]
  BY Bounds DEF TreeType, Tree
<1>2. Litter(i) \in Patches BY Bounds DEF Litter, Patches, Drafts
<1> QED BY <1>1, <1>2 DEF Littered, NoTree

LEMMA PublicationMoves ==
  ASSUME JobInv, TreeType, NEW i \in Issues,
         Stage(i) \/ Judge(i) \/ Push(i) \/ Post(i) \/ PublishFails(i) \/ Record(i)
  PROVE  JobInv' /\ TreeType'
<1>1. CASE Stage(i)
  <2>1. ASSUME NEW content \in IF Tree(i).writer THEN Littered(i) ELSE {Tree(i).content},
               Goes(i, [To(i, "judging") EXCEPT !.diff = content]), tree' = PutTree(i, content)
        PROVE  JobInv' /\ TreeType'
    <3> DEFINE t == To(i, "judging")
               n == [t EXCEPT !.diff = content]
    <3>1. t \in JobRec /\ Counted(t) BY <1>1, ToPublish DEF Stage, Publishing
    <3>2. content \in SUBSET Patches BY StagedContent
    <3> HIDE DEF t
    <3>3. n \in JobRec /\ Counted(n) BY <3>1, <3>2 DEF JobRec, Counted
    <3>4. Goes(i, n) BY <2>1 DEF t
    <3> HIDE DEF n
    <3>5. TreeType' BY <2>1, <3>2, Bounds DEF PutTree, TreeType
    <3> QED BY <3>3, <3>4, <3>5, GoesWell
  <2> QED BY <1>1, <2>1, EndWell DEF Stage
<1>2. CASE Judge(i)
  <2> DEFINE t == To(i, "pushing")
             n == [t EXCEPT !.judged = job[i].diff]
  <2>1. t \in JobRec /\ Counted(t) BY <1>2, ToPublish DEF Judge, Publishing
  <2>2. job[i].diff \in SUBSET Patches BY JobOf DEF JobRec
  <2> HIDE DEF t
  <2>3. n \in JobRec /\ Counted(n) BY <2>1, <2>2 DEF JobRec, Counted
  <2>4. [To(i, "pushing") EXCEPT !.judged = job[i].diff] = n BY DEF t
  <2> HIDE DEF n
  <2> QED BY <1>2, <2>3, <2>4, GoesWell, EndWell DEF Judge, TreeType
<1>3. CASE Push(i)
  <2>1. To(i, "posting") \in JobRec /\ Counted(To(i, "posting"))
    BY <1>3, ToPublish DEF Push, Publishing
  <2> QED BY <1>3, <2>1, GoesWell DEF Push, TreeType
<1>4. CASE Post(i)
  <2>1. To(i, "posted") \in JobRec /\ Counted(To(i, "posted"))
    BY <1>4, ToPublish DEF Post, Publishing
  <2> QED BY <1>4, <2>1, GoesWell DEF Post, TreeType
<1>5. CASE PublishFails(i) \/ Record(i) BY <1>5, EndWell DEF PublishFails, Record
<1> QED BY <1>1, <1>2, <1>3, <1>4, <1>5

LEMMA WorkerMoves ==
  ASSUME JobInv, TreeType, NEW i \in Issues, Worker(i)
  PROVE  JobInv' /\ TreeType'
  BY AdmissionMoves, PatchMoves, RetryMoves, RereviewMoves, PublicationMoves DEF Worker
-----------------------------------------------------------------------------
(* What a worker leaves alone *)

LEMMA WorkerIsLive ==
  ASSUME NEW i \in Issues, Worker(i) PROVE job[i].at \notin {"none", "joined"}
<1>1. CASE Begin(i) \/ Check(i) \/ Clone(i) \/ Cancel(i) \/ OpenCall(i)
  BY <1>1 DEF Begin, Check, Clone, Cancel, Stopped, CancelPoints, OpenCall, AskingSteps
<1>2. CASE Select(i) \/ Draft(i) \/ Apply(i) \/ Review(i) \/ Test(i) \/ Retry(i) \/ Redraft(i)
             \/ Reapply(i) \/ Rereview(i)
  BY <1>2 DEF Select, Draft, Apply, Review, Test, Retry, Redraft, Reapply, Rereview
<1>3. CASE Stage(i) \/ Judge(i) \/ Push(i) \/ Post(i) \/ PublishFails(i) \/ Record(i)
  BY <1>3 DEF Stage, Judge, Push, Post, PublishFails, Record
<1> QED BY <1>1, <1>2, <1>3 DEF Worker

LEMMA WorkerKeepsRun ==
  ASSUME NEW i \in Issues, Worker(i) PROVE UNCHANGED <<wave, run, late, restarts>>
<1>1. CASE Begin(i) \/ Check(i) \/ Clone(i) \/ Cancel(i) \/ OpenCall(i)
  BY <1>1 DEF Begin, Check, Clone, Cancel, OpenCall, wave, github, bounds
<1>2. CASE Select(i) \/ Draft(i) \/ Apply(i) \/ Review(i)
  BY <1>2 DEF Select, Draft, Apply, Review, wave, github, bounds
<1>3. CASE Test(i) \/ Retry(i) \/ Redraft(i) \/ Reapply(i) \/ Rereview(i)
  BY <1>3 DEF Test, Retry, Redraft, Reapply, Rereview, wave, github, bounds
<1>4. CASE Stage(i) \/ Judge(i) \/ Push(i) \/ Post(i) \/ PublishFails(i) \/ Record(i)
  BY <1>4 DEF Stage, Judge, Push, Post, PublishFails, Record, wave, github, bounds
<1> QED BY <1>1, <1>2, <1>3, <1>4 DEF Worker

LEMMA WorkerKeepsGithub ==
  ASSUME NEW i \in Issues, Worker(i), ~Push(i), ~Post(i) PROVE UNCHANGED github
<1>1. CASE Begin(i) \/ Check(i) \/ Clone(i) \/ Cancel(i) \/ OpenCall(i)
  BY <1>1 DEF Begin, Check, Clone, Cancel, OpenCall, github
<1>2. CASE Select(i) \/ Draft(i) \/ Apply(i) \/ Review(i)
  BY <1>2 DEF Select, Draft, Apply, Review, github
<1>3. CASE Test(i) \/ Retry(i) \/ Redraft(i) \/ Reapply(i) \/ Rereview(i)
  BY <1>3 DEF Test, Retry, Redraft, Reapply, Rereview, github
<1>4. CASE Stage(i) \/ Judge(i) \/ PublishFails(i) \/ Record(i)
  BY <1>4 DEF Stage, Judge, PublishFails, Record, github
<1> QED BY <1>1, <1>2, <1>3, <1>4 DEF Worker

\* A worker changes its own job and its own clone.
WorksAlone(i) ==
  /\ \E n : job' = [job EXCEPT ![i] = n]
  /\ \E t : tree' = [tree EXCEPT ![WorkPath[i]] = t]

LEMMA TreeStays == ASSUME TreeType, NEW i \in Issues PROVE tree = [tree EXCEPT ![WorkPath[i]] = Tree(i)]
  BY Bounds DEF TreeType, Tree

LEMMA JobGoes == ASSUME JobInv, NEW i \in Issues PROVE
  /\ \A at : [job EXCEPT ![i].at = at] = [job EXCEPT ![i] = [job[i] EXCEPT !.at = at]]
  /\ [job EXCEPT ![i].call = TRUE] = [job EXCEPT ![i] = [job[i] EXCEPT !.call = TRUE]]
  BY DEF JobInv

LEMMA ResetsAlone == ASSUME NEW i, NEW n, Resets(i, n) PROVE WorksAlone(i)
  BY DEF Resets, Goes, PutTree, WorksAlone

LEMMA EndsAlone == ASSUME NEW i, NEW status, End(i, status) PROVE WorksAlone(i)
  BY DEF End, Ends, WorksAlone

LEMMA WorkerAlone ==
  ASSUME JobInv, TreeType, NEW i \in Issues, Worker(i) PROVE WorksAlone(i)
<1>1. CASE Begin(i)
  BY <1>1, TreeStays, JobGoes DEF Begin, Ends, WorksAlone
<1>2. CASE Check(i)
  BY <1>2, TreeStays, JobGoes DEF Check, Ends, WorksAlone
<1>3. CASE Clone(i)
  BY <1>3, TreeStays, JobGoes, EndsAlone DEF Clone, WorksAlone
<1>4. CASE OpenCall(i)
  BY <1>4, TreeStays, JobGoes DEF OpenCall, WorksAlone
<1>5. CASE Cancel(i) \/ PublishFails(i) \/ Record(i)
  BY <1>5, EndsAlone DEF Cancel, PublishFails, Record
<1>6. CASE Select(i) \/ Draft(i) \/ Review(i)
  BY <1>6, TreeStays, EndsAlone DEF Select, Draft, Review, Goes, WorksAlone
<1>7. CASE Apply(i) \/ Reapply(i)
  BY <1>7, EndsAlone, ResetsAlone DEF Apply, Reapply, Applies, PutTree, Goes, WorksAlone
<1>8. CASE Test(i) \/ Redraft(i)
  BY <1>8, TreeStays, LeavesTree DEF Test, Redraft, Goes, WorksAlone
<1>9. CASE Retry(i)
  BY <1>9, ResetsAlone DEF Retry
<1>10. CASE Rereview(i)
  <2>1. CASE Improves(i) BY <2>1 DEF Improves, Goes, PutTree, WorksAlone
  <2> QED BY <1>10, <2>1, TreeStays, ResetsAlone DEF Rereview, Goes, WorksAlone
<1>11. CASE Stage(i) \/ Judge(i)
  BY <1>11, TreeStays, EndsAlone DEF Stage, Judge, Goes, PutTree, WorksAlone
<1>12. CASE Push(i) \/ Post(i)
  BY <1>12, TreeStays DEF Push, Post, Goes, WorksAlone
<1> QED BY <1>1, <1>2, <1>3, <1>4, <1>5, <1>6, <1>7, <1>8, <1>9, <1>10, <1>11, <1>12 DEF Worker

\* The other workers, and their clones when they are elsewhere.
LEMMA OthersStay ==
  ASSUME JobInv, TreeType, NEW i \in Issues, WorksAlone(i), NEW k \in Issues, k # i
  PROVE  job'[k] = job[k] /\ (WorkPath[k] # WorkPath[i] => Tree(k)' = Tree(k))
  BY Bounds DEF JobInv, TreeType, WorksAlone, Tree
-----------------------------------------------------------------------------
(* The ledger *)

LEMMA GoesTo == ASSUME JobInv, NEW i \in Issues, NEW n, Goes(i, n) PROVE job'[i] = n
  BY DEF JobInv, Goes

LEMMA EndsAs == ASSUME JobInv, NEW i \in Issues, NEW status, End(i, status)
                PROVE job'[i].at = "ended" /\ ~job'[i].call
  BY DEF JobInv, End, Ends, NoJob

LEMMA TestedCall == ASSUME NEW j \in JobRec PROVE ~Tested(j).call
  BY DEF JobRec, Tested

\* A failed reset marks the job and nothing else.
LEMMA ResetsTo ==
  ASSUME JobInv, NEW i \in Issues, NEW n \in JobRec, Resets(i, n)
  PROVE  job'[i] = n \/ job'[i] = [n EXCEPT !.unclean = TRUE]
  BY GoesTo DEF Resets

\* A step that ends a model call closes it.
LEMMA AskEnds ==
  ASSUME JobInv, TreeType, NEW i \in Issues,
         Select(i) \/ Draft(i) \/ Review(i) \/ Redraft(i) \/ Rereview(i)
  PROVE  ~job'[i].call /\ (CallFails(i) \/ CallAnswers(i))
<1> USE JobOf
<1>1. CASE Select(i)
  BY <1>1, GoesTo, ToFields, StepNames DEF Select
<1>2. CASE Draft(i)
  <2>1. CASE Goes(i, Drafted(i, "applying"))
    <3>1. job[i].drafts <= 1 + 2 * MaxRetries BY <1>2, Bounds DEF Draft, Counted, JobRec, Idle
    <3>2. ~Drafted(i, "applying").call BY <3>1, DraftedFields, StepNames
    <3> QED BY <1>2, <2>1, <3>2, GoesTo DEF Draft
  <2> QED BY <1>2, <2>1, EndsAs DEF Draft
<1>3. CASE Review(i)
  <2>1. {Patch(i)} \in SUBSET Patches BY <1>3, PatchWell DEF Review, Idle
  <2>2. ~Approved(i, {Patch(i)}).call BY <2>1, ApprovedFields
  <2> QED BY <1>3, <2>2, GoesTo, EndsAs DEF Review
<1>4. CASE Redraft(i)
  <2>1. ~Tested(job[i]).call BY TestedCall
  <2>2. job[i].drafts <= 1 + 2 * MaxRetries BY <1>4, Bounds DEF Redraft, Counted, JobRec, Idle
  <2>3. ~Drafted(i, "reapplying").call BY <2>2, DraftedFields, StepNames
  <2> QED BY <1>4, <2>1, <2>3, GoesTo DEF Redraft
<1>5. CASE Rereview(i)
  <2>0. CallFails(i) \/ CallAnswers(i) BY <1>5 DEF Rereview
  <2>1. job[i].at \notin Idle BY <1>5 DEF Rereview, Idle
  <2>2. {Patch(i)} \in SUBSET Patches BY <2>1, PatchWell
  <2>3. CASE Resets(i, To(i, "staging"))
    <3>1. To(i, "staging") \in JobRec /\ ~To(i, "staging").call BY ToFields, StepNames
    <3>2. ~[To(i, "staging") EXCEPT !.unclean = TRUE].call BY <3>1 DEF JobRec
    <3> QED BY <2>0, <2>3, <3>1, <3>2, ResetsTo
  <2>4. CASE Improves(i)
    <3> DEFINE new == <<i, job[i].drafts + 1>>
               r == Reapproved(i, {Patch(i), new})
               next == [r EXCEPT !.drafts = r.drafts + 1]
    <3>1. job[i].drafts + 1 \in Drafts
      BY <1>5, Bounds DEF Rereview, Counted, JobRec, Drafts, Idle
    <3>2. {Patch(i), new} \in SUBSET Patches BY <2>2, <3>1 DEF Patches
    <3>3. job'[i] = next \/ job'[i] = [next EXCEPT !.unclean = TRUE]
      BY <2>4, GoesTo DEF Improves
    <3> HIDE DEF new
    <3>4. r \in JobRec /\ ~r.call BY <3>2, ReapprovedFields
    <3> HIDE DEF r
    <3>5. ~next.call /\ ~[next EXCEPT !.unclean = TRUE].call BY <3>4 DEF JobRec
    <3> QED BY <2>0, <3>3, <3>5
  <2>5. CASE Goes(i, Reapproved(i, {Patch(i)}))
    <3>1. ~Reapproved(i, {Patch(i)}).call BY <2>2, ReapprovedFields
    <3> QED BY <2>0, <2>5, <3>1, GoesTo
  <2> QED BY <1>5, <2>3, <2>4, <2>5 DEF Rereview
<1> QED BY <1>1, <1>2, <1>3, <1>4, <1>5

\* A step that is not about a model call opens none.
LEMMA QuietCalls ==
  ASSUME JobInv, TreeType, NEW i \in Issues, Worker(i), ~OpenCall(i),
         ~(Select(i) \/ Draft(i) \/ Review(i) \/ Redraft(i) \/ Rereview(i))
  PROVE  (job'[i].call => job[i].call) /\ UNCHANGED ledger
<1> USE JobOf
<1>1. CASE Begin(i)
  BY <1>1 DEF Begin, Ends, NoJob, JobInv, JobRec
<1>2. CASE Check(i)
  BY <1>2 DEF Check, Ends, NoJob, JobInv, JobRec
<1>3. CASE Clone(i)
  <2>1. CASE job' = [job EXCEPT ![i].at = "selecting"]
    BY <1>3, <2>1 DEF Clone, JobInv, JobRec
  <2> QED BY <1>3, <2>1, EndsAs DEF Clone
<1>4. CASE Cancel(i) \/ PublishFails(i) \/ Record(i)
  BY <1>4, EndsAs DEF Cancel, PublishFails, Record
<1>5. CASE Apply(i)
  <2>1. ~To(i, "reviewing").call BY ToFields, StepNames
  <2>2. To(i, "healing") \in JobRec /\ ~To(i, "healing").call BY ToFields, StepNames
  <2>3. ~[To(i, "healing") EXCEPT !.unclean = TRUE].call BY <2>2 DEF JobRec
  <2> QED BY <1>5, <2>1, <2>2, <2>3, GoesTo, ResetsTo, EndsAs DEF Apply
<1>6. CASE Test(i)
  <2> SUFFICES ASSUME NEW result \in Results,
                      Goes(i, Tested([job[i] EXCEPT
                        !.test = result,
                        !.passed = IF result = "passed" THEN Tree(i).content ELSE {}]))
               PROVE  ~job'[i].call
    BY <1>6 DEF Test
  <2> DEFINE t == [job[i] EXCEPT !.test = result,
                     !.passed = IF result = "passed" THEN Tree(i).content ELSE {}]
  <2>1. Tree(i).content \in SUBSET Patches BY Bounds DEF Tree, TreeType
  <2>2. t \in JobRec BY <2>1 DEF JobRec
  <2>3. Goes(i, Tested(t)) OBVIOUS
  <2> HIDE DEF t
  <2> QED BY <2>2, <2>3, TestedCall, GoesTo
<1>7. CASE Retry(i)
  <2> DEFINE t == To(i, "redrafting")
             n == [t EXCEPT !.retry = t.retry + 1]
  <2>1. t \in JobRec /\ ~t.call /\ t.retry = job[i].retry BY ToFields, StepNames
  <2>2. t.retry + 1 \in 0..MaxRetries BY <1>7, <2>1, Bounds DEF Retry, Counted, JobRec
  <2>3. Resets(i, n) BY <1>7 DEF Retry
  <2> HIDE DEF t
  <2>4. n \in JobRec /\ ~n.call BY <2>1, <2>2 DEF JobRec
  <2> HIDE DEF n
  <2>5. ~[n EXCEPT !.unclean = TRUE].call BY <2>4 DEF JobRec
  <2> QED BY <1>7, <2>3, <2>4, <2>5, ResetsTo DEF Retry
<1>8. CASE Reapply(i)
  <2>1. ~To(i, "rereviewing").call BY ToFields, StepNames
  <2>2. Tested(job[i]) \in JobRec /\ ~Tested(job[i]).call
    BY <1>8, TestedCall, TestedWell DEF Reapply, Counted, Idle
  <2>3. ~[Tested(job[i]) EXCEPT !.unclean = TRUE].call BY <2>2 DEF JobRec
  <2> QED BY <1>8, <2>1, <2>2, <2>3, GoesTo, ResetsTo DEF Reapply
<1>9. CASE Stage(i)
  <2>1. To(i, "judging") \in JobRec /\ ~To(i, "judging").call BY ToFields, StepNames
  <2>2. \A content : ~[To(i, "judging") EXCEPT !.diff = content].call BY <2>1 DEF JobRec
  <2> QED BY <1>9, <2>2, GoesTo, EndsAs DEF Stage
<1>10. CASE Judge(i)
  <2>1. To(i, "pushing") \in JobRec /\ ~To(i, "pushing").call BY ToFields, StepNames
  <2>2. ~[To(i, "pushing") EXCEPT !.judged = job[i].diff].call BY <2>1 DEF JobRec
  <2> QED BY <1>10, <2>2, GoesTo, EndsAs DEF Judge
<1>11. CASE Push(i)
  <2>1. ~To(i, "posting").call BY ToFields, StepNames
  <2> QED BY <1>11, <2>1, GoesTo DEF Push
<1>12. CASE Post(i)
  <2>1. ~To(i, "posted").call BY ToFields, StepNames
  <2> QED BY <1>12, <2>1, GoesTo DEF Post
<1> QED BY <1>1, <1>2, <1>3, <1>4, <1>5, <1>6, <1>7, <1>8, <1>9, <1>10, <1>11, <1>12 DEF Worker
LedgerInv ==
  /\ used \in Nat /\ spent \in Nat /\ overrun \in Nat /\ unbilled \in Nat
  /\ unbilled <= spent
  /\ AiSpendIsCovered

\* What a charge does to the ledger, in numbers.
Charged(charge, missed) ==
  /\ used' = used - 1 + charge /\ spent' = spent + charge + missed
  /\ unbilled' = unbilled + missed
  /\ overrun' \in Nat /\ overrun' >= overrun /\ charge <= 1 + overrun' - overrun

LEMMA Charges ==
  ASSUME world \in Worlds, overrun \in Nat, Settle \/ KeepReservation
  PROVE  exhausted' = exhausted /\ \E charge, missed \in Nat : Charged(charge, missed)
<1>1. world.excess \in Nat BY ReaperConstants
<1>2. PICK charge \in Nat, missed \in Nat : Charge(charge, missed)
  BY <1>1 DEF Settle, KeepReservation
<1>3. Charged(charge, missed) BY <1>2 DEF Charge, Charged, Beyond
<1> QED BY <1>2, <1>3 DEF Charge

\* A unit of the reservation is traded for a charge.
LEMMA WithinLimit ==
  \A limit, before, cost, over, after \in Nat :
    /\ limit > 0 => before <= limit + over
    /\ cost <= 1 + after - over
    => (limit > 0 => before - 1 + cost <= limit + after)
  OBVIOUS

LEMMA CallsAreFinite == IsFiniteSet(Calling) /\ Cardinality(Calling) \in Nat
  BY FS_Subset, FS_CardinalityType, ReaperConstants DEF Calling

LEMMA CallsOfOthers ==
  ASSUME JobInv, TreeType, NEW i \in Issues, Worker(i), NEW k \in Issues, k # i
  PROVE  job'[k] = job[k]
  BY WorkerAlone, OthersStay

LEMMA WorkerLedger ==
  ASSUME JobInv, TreeType, LedgerInv, world \in Worlds, NEW i \in Issues, Worker(i)
  PROVE  LedgerInv'
<1> USE CallsAreFinite
<1>0. AiLimit \in Nat BY ReaperConstants
<1>1. CASE OpenCall(i)
  <2>1. i \notin Calling /\ Calling' = Calling \cup {i}
    BY <1>1 DEF OpenCall, Calling, JobInv, JobRec
  <2>2. Cardinality(Calling') = Cardinality(Calling) + 1 BY <2>1, FS_AddElement
  <2>3. /\ used' = used + 1 /\ spent' = spent /\ (AiLimit = 0 \/ used < AiLimit)
        /\ overrun' = overrun /\ unbilled' = unbilled
    BY <1>1 DEF OpenCall, Admits
  <2> QED BY <1>0, <2>2, <2>3 DEF LedgerInv, AiSpendIsCovered
<1>2. CASE Select(i) \/ Draft(i) \/ Review(i) \/ Redraft(i) \/ Rereview(i)
  <2>1. ~job'[i].call /\ (CallFails(i) \/ CallAnswers(i)) BY <1>2, AskEnds
  <2>2. Calling' = Calling \ {i} BY <2>1, CallsOfOthers DEF Calling
  <2>3. CASE job[i].call
    <3>1. Cardinality(Calling') = Cardinality(Calling) - 1
      BY <2>2, <2>3, FS_RemoveElement DEF Calling
    <3>2. Cardinality(Calling') \in Nat BY <2>2, FS_RemoveElement, FS_CardinalityType
    <3>3. PICK charge \in Nat, missed \in Nat : Charged(charge, missed)
      BY <2>1, <2>3, Charges DEF CallFails, CallAnswers, LedgerInv
    <3>4. Cardinality(Calling) >= 1 BY <3>1, <3>2
    <3>5. spent' + Cardinality(Calling') <= used' + unbilled' /\ used' \in Nat
      BY <3>1, <3>2, <3>3, <3>4 DEF LedgerInv, AiSpendIsCovered, Charged
    <3>6. spent' \in Nat /\ unbilled' \in Nat /\ unbilled' <= spent' /\ overrun' \in Nat
      BY <3>3 DEF LedgerInv, Charged
    <3>7. AiLimit > 0 => used' <= AiLimit + overrun'
      <4>1. used \in Nat /\ overrun \in Nat /\ (AiLimit > 0 => used <= AiLimit + overrun)
        BY DEF LedgerInv, AiSpendIsCovered
      <4>2. used' = used - 1 + charge /\ overrun' \in Nat /\ charge <= 1 + overrun' - overrun
        BY <3>3 DEF Charged
      <4> QED BY <1>0, <4>1, <4>2, WithinLimit
    <3> QED BY <3>5, <3>6, <3>7 DEF LedgerInv, AiSpendIsCovered
  <2>4. CASE ~job[i].call
    <3>1. Calling' = Calling BY <2>2, <2>4 DEF Calling
    <3>2. used' = used /\ spent' = spent /\ overrun' = overrun /\ unbilled' = unbilled
      BY <2>1, <2>4 DEF CallFails, CallAnswers, Refused, ledger
    <3> QED BY <3>1, <3>2 DEF LedgerInv, AiSpendIsCovered
  <2> QED BY <2>3, <2>4
<1>3. CASE ~OpenCall(i) /\ ~(Select(i) \/ Draft(i) \/ Review(i) \/ Redraft(i) \/ Rereview(i))
  <2>1. (job'[i].call => job[i].call) /\ UNCHANGED ledger BY <1>3, QuietCalls
  <2>2. Calling' \subseteq Calling BY <2>1, CallsOfOthers DEF Calling
  <2>3. Cardinality(Calling') <= Cardinality(Calling) /\ Cardinality(Calling') \in Nat
    BY <2>2, FS_Subset, FS_CardinalityType
  <2> QED BY <2>1, <2>3 DEF LedgerInv, AiSpendIsCovered, ledger
<1> QED BY <1>1, <1>2, <1>3

-----------------------------------------------------------------------------
(* Rows and pull requests *)

AttemptStatus == {"absent", "running", "fixed", "skipped", "error"}
RunStatus == {"absent", "running", "done", "partial", "failed", "skipped", "crashed"}

RunType ==
  /\ world \in Worlds
  /\ active \in BOOLEAN /\ started \in 0..MaxRuns /\ phase \in {"idle", "scoring", "wave"}
  /\ queue \in SUBSET Issues /\ cancel \in BOOLEAN /\ exhausted \in BOOLEAN
  /\ run \in [Runs -> [webhook : BOOLEAN, status : RunStatus]]
  /\ taken \in [Runs -> SUBSET Issues]
  /\ restarts \in 0..MaxRestarts
AttemptType == attempt \in [Runs -> [Issues -> AttemptStatus]]
FaultType == faults \in 0..world.faults
GithubType ==
  /\ branch \in [Issues -> SUBSET Patches]
  /\ prs \in SUBSET Pulls /\ late \in SUBSET Pulls
RowType == AttemptType /\ FaultType

LEMMA TypeParts ==
  ASSUME RunType, LedgerInv, JobInv, TreeType, RowType, GithubType PROVE TypeOK
  BY DEF TypeOK, RunType, LedgerInv, JobInv, JobRec, TreeType, RowType, AttemptType, FaultType,
         GithubType, RunStatus, AttemptStatus

LEMMA FaultsAreBounded == ASSUME RunType PROVE world.faults \in Nat
  BY ReaperConstants DEF RunType

LEMMA FaultWell ==
  ASSUME RunType, RowType, world' = world, UNCHANGED attempt, Fault \/ UNCHANGED faults PROVE RowType'
  BY FaultsAreBounded DEF RowType, AttemptType, FaultType, Fault

LEMMA AttemptWell ==
  ASSUME AttemptType, NEW i \in Issues, NEW status \in AttemptStatus,
         \/ attempt' = [attempt EXCEPT ![started][i] = status]
         \/ attempt' = [attempt EXCEPT ![started][i] = IF @ = "absent" THEN @ ELSE status]
  PROVE  AttemptType'
  BY DEF AttemptType

LEMMA StoreWell ==
  ASSUME RunType, RowType, world' = world, NEW i \in Issues, NEW status \in AttemptStatus,
         StoreAttempt(i, status)
  PROVE  RowType'
<1>1. CASE /\ attempt' = [attempt EXCEPT ![started][i] = IF @ = "absent" THEN @ ELSE status]
           /\ UNCHANGED faults
  BY <1>1, AttemptWell DEF RowType, FaultType
<1>2. CASE Fault /\ UNCHANGED attempt BY <1>2, FaultWell
<1> QED BY <1>1, <1>2 DEF StoreAttempt

LEMMA ResetsRows == ASSUME NEW i, NEW n, Resets(i, n) PROVE Fault \/ UNCHANGED faults
  BY DEF Resets

LEMMA WorkerRows ==
  ASSUME RunType, RowType, NEW i \in Issues, Worker(i) PROVE RowType'
<1>0. world' = world BY WorkerKeepsRun DEF wave
<1>1. CASE Begin(i) \/ OpenCall(i)
  BY <1>0, <1>1, FaultWell DEF Begin, OpenCall, bounds
<1>2. CASE Check(i)
  <2>1. \E status \in AttemptStatus :
           \/ attempt' = [attempt EXCEPT ![started][i] = status] /\ (UNCHANGED faults \/ Fault)
           \/ UNCHANGED attempt /\ (UNCHANGED faults \/ Fault)
    BY <1>2 DEF Check, AttemptStatus
  <2> QED BY <1>0, <2>1, FaultWell, AttemptWell, FaultsAreBounded
          DEF RowType, FaultType, Fault
<1>3. CASE Clone(i) BY <1>0, <1>3, StoreWell, FaultWell DEF Clone, End, AttemptStatus
<1>4. CASE Cancel(i) \/ PublishFails(i) \/ Record(i)
  BY <1>0, <1>4, StoreWell DEF Cancel, PublishFails, Record, End, AttemptStatus
<1>5. CASE Select(i) \/ Draft(i) \/ Review(i)
  BY <1>0, <1>5, StoreWell, FaultWell DEF Select, Draft, Review, End, AttemptStatus, bounds
<1>6. CASE Apply(i)
  BY <1>0, <1>6, StoreWell, FaultWell, ResetsRows DEF Apply, Applies, End, AttemptStatus
<1>7. CASE Test(i) \/ Redraft(i)
  BY <1>0, <1>7, FaultWell DEF Test, Redraft, bounds
<1>8. CASE Retry(i) \/ Reapply(i)
  BY <1>0, <1>8, FaultWell, ResetsRows DEF Retry, Reapply, Applies
<1>9. CASE Rereview(i)
  <2>1. UNCHANGED attempt /\ (Fault \/ UNCHANGED faults)
    BY <1>9, ResetsRows DEF Rereview, Improves
  <2> QED BY <1>0, <2>1, FaultWell
<1>10. CASE Stage(i) \/ Judge(i)
  BY <1>0, <1>10, StoreWell, FaultWell DEF Stage, Judge, End, AttemptStatus
<1>11. CASE Push(i) \/ Post(i)
  BY <1>0, <1>11, FaultWell DEF Push, Post, bounds
<1> QED BY <1>1, <1>2, <1>3, <1>4, <1>5, <1>6, <1>7, <1>8, <1>9, <1>10, <1>11 DEF Worker

LEMMA OpenedType ==
  ASSUME JobInv, GithubType, NEW i \in Issues, started \in Runs PROVE Opened(i) \in Pulls
<1>1. /\ job[i].approved \in SUBSET Patches /\ job[i].passed \in SUBSET Patches
      /\ job[i].judged \in SUBSET Patches /\ job[i].unclean \in BOOLEAN
  BY JobOf DEF JobRec
<1>2. branch[i] \in SUBSET Patches BY DEF GithubType
<1> QED BY <1>1, <1>2 DEF Opened, Pulls

LEMMA WorkerGithub ==
  ASSUME JobInv, TreeType, GithubType, started \in Runs, NEW i \in Issues, Worker(i)
  PROVE  GithubType'
<1>1. CASE Push(i)
  <2>1. Tree(i).content \in SUBSET Patches BY Bounds DEF Tree, TreeType
  <2> QED BY <1>1, <2>1 DEF Push, GithubType
<1>2. CASE Post(i) BY <1>2, OpenedType DEF Post, GithubType
<1> QED BY <1>1, <1>2, WorkerKeepsGithub DEF GithubType, github
-----------------------------------------------------------------------------
(* The run's task *)

WaveInv ==
  /\ active = (phase # "idle")
  /\ phase # "idle" => started \in Runs
  /\ \A i \in Issues : job[i].at \notin {"none", "joined"} => phase = "wave"

\* An issue not scheduled yet has no worker of this run.
QueueInv ==
  /\ queue # {} => phase = "wave"
  /\ phase = "scoring" => \A i \in Issues : job[i] = NoJob
  /\ \A i \in queue : job[i] = NoJob

\* The inductive invariant behind the types and the ledger.
BaseInv == RunType /\ JobInv /\ TreeType /\ LedgerInv /\ RowType /\ GithubType /\ WaveInv
           /\ QueueInv

LEMMA NoCalls ==
  ASSUME \A i \in Issues : job[i].call = FALSE PROVE Cardinality(Calling) = 0
<1>1. Calling = {} BY DEF Calling
<1> QED BY <1>1, FS_EmptySet

LEMMA NewJobs ==
  ASSUME job = [i \in Issues |-> NoJob]
  PROVE  JobInv /\ Cardinality(Calling) = 0 /\ \A i \in Issues : job[i].at = "none"
<1>1. JobInv BY FreshJob DEF JobInv
<1>2. \A i \in Issues : job[i].call = FALSE /\ job[i].at = "none" BY DEF NoJob
<1> QED BY <1>1, <1>2, NoCalls

LEMMA NumbersOfRuns ==
  /\ MaxRuns \in Nat /\ MaxRestarts \in Nat /\ AiLimit \in Nat
  /\ \A w \in Worlds : w.faults \in Nat /\ w.excess \in Nat
  BY ReaperConstants

LEMMA InitBase == Init => BaseInv
<1> SUFFICES ASSUME Init PROVE BaseInv
  OBVIOUS
<1> USE NumbersOfRuns DEF Init
<1>1. JobInv /\ Cardinality(Calling) = 0 /\ \A i \in Issues : job[i].at = "none" BY NewJobs
<1>2. TreeType BY DEF TreeType, NoTree
<1>3. LedgerInv BY <1>1 DEF LedgerInv, AiSpendIsCovered
<1>4. RunType
  <2>1. run \in [Runs -> [webhook : BOOLEAN, status : RunStatus]] BY DEF RunStatus
  <2>2. taken \in [Runs -> SUBSET Issues] OBVIOUS
  <2>3. started \in 0..MaxRuns /\ restarts \in 0..MaxRestarts OBVIOUS
  <2> QED BY <2>1, <2>2, <2>3 DEF RunType
<1>5. RowType BY DEF RowType, AttemptType, FaultType, AttemptStatus
<1>6. GithubType BY DEF GithubType
<1>7. WaveInv BY <1>1 DEF WaveInv
<1>8. QueueInv BY DEF QueueInv
<1> QED BY <1>1, <1>2, <1>3, <1>4, <1>5, <1>6, <1>7, <1>8 DEF BaseInv

LEMMA StoreRunType ==
  ASSUME RunType, RowType, NEW status \in RunStatus, StoreRun(status), UNCHANGED <<world, attempt>>
  PROVE  RowType' /\ run' \in [Runs -> [webhook : BOOLEAN, status : RunStatus]]
<1>1. RowType' BY FaultWell DEF StoreRun
<1>2. run' \in [Runs -> [webhook : BOOLEAN, status : RunStatus]] BY DEF StoreRun, RunType
<1> QED BY <1>1, <1>2

LEMMA StartBase ==
  ASSUME BaseInv, NEW webhook \in BOOLEAN, StartRun(webhook) PROVE BaseInv'
<1> USE NumbersOfRuns DEF StartRun, BaseInv
<1>1. /\ JobInv' /\ Cardinality(Calling)' = 0 /\ \A i \in Issues : job'[i].at = "none"
  <2>1. \A i \in Issues : job'[i] = NoJob OBVIOUS
  <2>2. JobInv' BY FreshJob DEF JobInv
  <2>3. Calling' = {} BY <2>1 DEF Calling, NoJob
  <2> QED BY <2>1, <2>2, <2>3, FS_EmptySet DEF NoJob
<1>2. TreeType' BY DEF TreeType
<1>3. LedgerInv' BY <1>1 DEF NewLedger, LedgerInv, AiSpendIsCovered
<1>4. started' \in Runs BY DEF RunType, Runs
<1>5. RunType'
  <2>1. run' \in [Runs -> [webhook : BOOLEAN, status : RunStatus]] BY DEF RunType, RunStatus
  <2>2. started' \in 0..MaxRuns BY DEF RunType
  <2> QED BY <2>1, <2>2 DEF RunType, NewLedger
<1>6. RowType' BY FaultWell
<1>7. GithubType' BY DEF GithubType, github
<1>8. WaveInv' BY <1>1, <1>4 DEF WaveInv
<1>9. QueueInv' BY DEF QueueInv, WaveInv
<1> QED BY <1>1, <1>2, <1>3, <1>5, <1>6, <1>7, <1>8, <1>9

LEMMA ScoreBase == ASSUME BaseInv, Score PROVE BaseInv'
<1> USE NumbersOfRuns DEF BaseInv
<1>0. PICK charge \in 0..(1 + world.excess), missed \in 0..world.excess, found \in SUBSET Issues :
        /\ phase = "scoring"
        /\ used' = charge /\ spent' = charge + missed
        /\ overrun' = Beyond(charge) /\ unbilled' = missed
        /\ \/ /\ phase' = "wave" /\ queue' = found /\ UNCHANGED active
              /\ AiLimit = 0 \/ charge < AiLimit \/ ~run[started].webhook
              /\ \/ run' = [run EXCEPT ![started].status = "running"] /\ UNCHANGED faults
                 \/ (Fault \/ UNCHANGED faults) /\ UNCHANGED run
           \/ Close /\ UNCHANGED <<queue, run, faults>>
           \/ Close /\ StoreRun("done") /\ UNCHANGED queue
        /\ UNCHANGED <<world, started, cancel, taken, exhausted, job, tree, github, attempt, restarts>>
  BY DEF Score
<1>1. JobInv' /\ TreeType' /\ GithubType' BY <1>0 DEF JobInv, TreeType, GithubType, github
<1>2. \A i \in Issues : job[i].at \in {"none", "joined"} BY <1>0 DEF WaveInv
<1>3. \A i \in Issues : job[i].call = FALSE
  BY <1>2 DEF JobInv, JobRec, Counted, AskingSteps
<1>4. Cardinality(Calling') = 0
  <2>1. Calling' = {} BY <1>0, <1>3 DEF Calling
  <2> QED BY <2>1, FS_EmptySet
<1>5. LedgerInv'
  <2>1. charge \in Nat /\ missed \in Nat BY NumbersOfRuns DEF RunType
  <2>2. overrun' \in Nat /\ charge <= 1 + overrun' BY <1>0, <2>1 DEF Beyond
  <2> QED BY <1>0, <1>4, <2>1, <2>2, NumbersOfRuns DEF LedgerInv, AiSpendIsCovered
<1>6. RowType' BY <1>0, FaultWell, StoreRunType DEF RunStatus
<1>7. run' \in [Runs -> [webhook : BOOLEAN, status : RunStatus]]
  <2>1. CASE run' = [run EXCEPT ![started].status = "running"] BY <2>1 DEF RunType, RunStatus
  <2> QED BY <1>0, <2>1, StoreRunType DEF RunType, RunStatus
<1>8. RunType'
  <2>1. /\ phase' \in {"idle", "scoring", "wave"} /\ active' \in BOOLEAN /\ queue' \in SUBSET Issues
    BY <1>0 DEF RunType, Close
  <2> QED BY <1>0, <1>7, <2>1 DEF RunType
<1>9. WaveInv' BY <1>0, <1>2 DEF WaveInv, Close
<1>10. QueueInv' BY <1>0 DEF QueueInv, Close
<1> QED BY <1>1, <1>5, <1>6, <1>8, <1>9, <1>10

LEMMA ScheduleBase == ASSUME BaseInv, NEW i \in Issues, Schedule(i) PROVE BaseInv'
<1> USE DEF BaseInv
<1>0. /\ phase = "wave" /\ job' = [job EXCEPT ![i].at = "queued"] /\ i \in queue
      /\ queue' = queue \ {i} /\ taken' = [taken EXCEPT ![started] = @ \cup {i}]
      /\ UNCHANGED <<world, active, started, phase, cancel, ledger, tree, github, run, attempt, bounds>>
  BY DEF Schedule, MayTake
<1>. DEFINE n == [NoJob EXCEPT !.at = "queued"]
<1>1. job' = [job EXCEPT ![i] = n] /\ job[i] = NoJob BY <1>0 DEF QueueInv, JobInv
<1>2. n \in JobRec BY FreshJob DEF JobRec, Steps
<1>3. n.at = "queued" /\ n.drafts = 0 /\ n.retry = 0 /\ n.call = FALSE /\ n.test = "none" BY DEF NoJob
<1> HIDE DEF n
<1>4. Counted(n) BY <1>3 DEF Counted, Idle
<1>5. JobInv' BY <1>1, <1>2, <1>4 DEF JobInv
<1>6. TreeType' /\ GithubType' BY <1>0 DEF TreeType, GithubType, github
<1>7. Calling' = Calling
  <2>0. job[i].call = FALSE BY <1>1 DEF NoJob
  <2>1. \A k \in Issues : job'[k].call = job[k].call BY <1>1, <1>3, <2>0 DEF JobInv
  <2> QED BY <2>1 DEF Calling
<1>8. LedgerInv' BY <1>0, <1>7 DEF LedgerInv, AiSpendIsCovered, ledger
<1>9. RowType' BY <1>0 DEF RowType, AttemptType, FaultType, bounds
<1>10. RunType' BY <1>0 DEF RunType, bounds, ledger
<1>11. WaveInv' BY <1>0 DEF WaveInv
<1>12. QueueInv' BY <1>0, <1>1 DEF QueueInv, JobInv
<1> QED BY <1>5, <1>6, <1>8, <1>9, <1>10, <1>11, <1>12

LEMMA JoinBase == ASSUME BaseInv, NEW i \in Issues, Join(i) PROVE BaseInv'
<1> USE DEF BaseInv
<1>0. /\ phase = "wave" /\ job' = [job EXCEPT ![i].at = "joined"] /\ job[i].at = "ended"
      /\ cancel' \in BOOLEAN
      /\ UNCHANGED <<world, active, started, phase, queue, taken, ledger, tree, github, run, attempt, bounds>>
  BY DEF Join, RunType
<1>. DEFINE n == [job[i] EXCEPT !.at = "joined"]
<1>1. job' = [job EXCEPT ![i] = n] BY <1>0, JobGoes
<1>2. n \in JobRec BY JobOf, Moves DEF Steps
<1>3. /\ n.at = "joined" /\ n.drafts = job[i].drafts /\ n.retry = job[i].retry
      /\ n.call = job[i].call /\ n.test = job[i].test
  BY JobOf DEF JobRec
<1> HIDE DEF n
<1>4. Counted(n)
  <2>1. Counted(job[i]) BY JobOf
  <2> QED BY <1>0, <1>3, <2>1 DEF Counted, Idle, AskingSteps, Publishing
<1>5. JobInv' BY <1>1, <1>2, <1>4 DEF JobInv
<1>6. TreeType' /\ GithubType' BY <1>0 DEF TreeType, GithubType, github
<1>7. Calling' = Calling
  <2>1. \A k \in Issues : job'[k].call = job[k].call BY <1>1, <1>3 DEF JobInv
  <2> QED BY <2>1 DEF Calling
<1>8. LedgerInv' BY <1>0, <1>7 DEF LedgerInv, AiSpendIsCovered, ledger
<1>9. RowType' BY <1>0 DEF RowType, AttemptType, FaultType, bounds
<1>10. RunType' BY <1>0 DEF RunType, bounds, ledger
<1>11. WaveInv' BY <1>0 DEF WaveInv
<1>12. i \notin queue BY <1>0 DEF QueueInv, NoJob
<1>13. QueueInv' BY <1>0, <1>12 DEF QueueInv, JobInv, RunType
<1> QED BY <1>5, <1>6, <1>8, <1>9, <1>10, <1>11, <1>13

LEMMA StatusesOfWaves == ASSUME NEW fixed PROVE WaveStatus(fixed) \in RunStatus
  BY DEF WaveStatus, RunStatus

LEMMA FinishBase == ASSUME BaseInv, FinishRun PROVE BaseInv'
<1> USE DEF BaseInv
<1>0. /\ Live = {} /\ Close /\ queue' = {}
      /\ UNCHANGED <<world, started, cancel, taken, ledger, job, tree, github, attempt, restarts>>
      /\ \E status \in RunStatus :
           \/ StoreRun(status)
           \/ Fault /\ run' = [run EXCEPT ![started].status = IF @ = "absent" THEN @ ELSE status]
  BY StatusesOfWaves DEF FinishRun, RunStatus
<1>1. JobInv' /\ TreeType' /\ GithubType' /\ LedgerInv'
  <2>1. Calling' = Calling BY <1>0 DEF Calling
  <2> QED BY <1>0, <2>1 DEF JobInv, TreeType, GithubType, github, LedgerInv, AiSpendIsCovered, ledger
<1>2. RowType' BY <1>0, StoreRunType, FaultWell
<1>3. run' \in [Runs -> [webhook : BOOLEAN, status : RunStatus]]
  BY <1>0, StoreRunType DEF RunType
<1>4. RunType' BY <1>0, <1>3 DEF RunType, Close, ledger
<1>5. WaveInv' BY <1>0 DEF WaveInv, Close, Live
<1>6. QueueInv' BY <1>0 DEF QueueInv, Close
<1> QED BY <1>1, <1>2, <1>4, <1>5, <1>6

LEMMA RestartBase == ASSUME BaseInv, Restart PROVE BaseInv'
<1> USE DEF BaseInv
<1>0. PICK sent \in SUBSET {i \in Issues : job[i].at = "posting" /\ branch[i] # {}},
           old \in SUBSET {r \in Runs : run[r].status = "running"} :
        /\ active /\ restarts < MaxRestarts /\ restarts' = restarts + 1
        /\ late' = late \cup {Opened(i) : i \in sent}
        /\ run' = [r \in Runs |-> IF r \in old THEN [run[r] EXCEPT !.status = "crashed"] ELSE run[r]]
        /\ Close
        /\ queue' = {} /\ cancel' = FALSE
        /\ NewLedger
        /\ job' = [i \in Issues |-> NoJob]
        /\ tree' = [p \in Paths |-> NoTree]
        /\ UNCHANGED <<world, started, taken, branch, prs, attempt, faults>>
  BY DEF Restart
<1>1. \A i \in Issues : job'[i] = NoJob BY <1>0
<1>2. JobInv' BY <1>0, FreshJob DEF JobInv
<1>3. TreeType' BY <1>0 DEF TreeType, NoTree
<1>4. LedgerInv'
  <2>1. Calling' = {} BY <1>1 DEF Calling, NoJob
  <2>2. Cardinality(Calling') = 0 BY <2>1, FS_EmptySet
  <2> QED BY <1>0, <2>2, NumbersOfRuns DEF NewLedger, LedgerInv, AiSpendIsCovered
<1>5. RowType' BY <1>0 DEF RowType, AttemptType, FaultType
<1>6. GithubType'
  <2>1. started \in Runs BY <1>0 DEF WaveInv
  <2>2. \A i \in sent : Opened(i) \in Pulls BY <2>1, OpenedType
  <2> QED BY <1>0, <2>2 DEF GithubType
<1>7. run' \in [Runs -> [webhook : BOOLEAN, status : RunStatus]]
  BY <1>0 DEF RunType, RunStatus
<1>8. restarts' \in 0..MaxRestarts BY <1>0, NumbersOfRuns DEF RunType
<1>9. RunType' BY <1>0, <1>7, <1>8 DEF RunType, Close, NewLedger
<1>10. WaveInv' BY <1>0, <1>1 DEF WaveInv, Close, NoJob
<1>11. QueueInv' BY <1>0, <1>1 DEF QueueInv, Close
<1> QED BY <1>2, <1>3, <1>4, <1>5, <1>6, <1>9, <1>10, <1>11

LEMMA WorkerBase == ASSUME BaseInv, NEW i \in Issues, Worker(i) PROVE BaseInv'
<1> USE DEF BaseInv
<1>1. job[i].at \notin {"none", "joined"} /\ phase = "wave" /\ started \in Runs
  BY WorkerIsLive DEF WaveInv
<1>2. UNCHANGED <<wave, run, late, restarts>> BY WorkerKeepsRun
<1>3. JobInv' /\ TreeType' /\ LedgerInv' BY WorkerMoves, WorkerLedger DEF RunType
<1>4. RowType' /\ GithubType' BY <1>1, WorkerRows, WorkerGithub
<1>5. exhausted' \in BOOLEAN
  <2>1. CASE UNCHANGED ledger BY <2>1 DEF ledger, RunType
  <2>2. CASE OpenCall(i) BY <2>2 DEF OpenCall, RunType
  <2>3. CASE Select(i) \/ Draft(i) \/ Review(i) \/ Redraft(i) \/ Rereview(i)
    <3>1. CallFails(i) \/ CallAnswers(i) BY <2>3, AskEnds
    <3>2. CASE Settle \/ KeepReservation BY <3>2, Charges DEF LedgerInv, RunType
    <3> QED BY <3>1, <3>2 DEF CallFails, CallAnswers, Refused, ledger, RunType
  <2> QED BY <2>1, <2>2, <2>3, QuietCalls
<1>6. RunType' BY <1>2, <1>5 DEF RunType, wave
<1>7. WaveInv' BY <1>1, <1>2 DEF WaveInv, wave
<1>8. \A k \in Issues : k # i => job'[k] = job[k] BY CallsOfOthers
<1>9. i \notin queue BY <1>1 DEF QueueInv, NoJob
<1>10. QueueInv' BY <1>1, <1>2, <1>8, <1>9 DEF QueueInv, wave, RunType
<1> QED BY <1>3, <1>4, <1>6, <1>7, <1>10

LEMMA LandBase == ASSUME BaseInv, NEW pr \in late, Land(pr) PROVE BaseInv'
<1> USE DEF BaseInv, Land
<1>1. GithubType' BY DEF GithubType
<1>2. RunType' /\ WaveInv' /\ QueueInv' BY DEF RunType, WaveInv, QueueInv, wave, ledger, bounds
<1>3. LedgerInv' /\ JobInv' /\ TreeType' /\ RowType'
  BY DEF LedgerInv, AiSpendIsCovered, Calling, ledger, JobInv, TreeType, RowType, AttemptType,
         FaultType, wave, bounds
<1> QED BY <1>1, <1>2, <1>3

LEMMA BaseInductive == BaseInv /\ [Next]_vars => BaseInv'
<1> SUFFICES ASSUME BaseInv, [Next]_vars PROVE BaseInv'
  OBVIOUS
<1>1. CASE UNCHANGED vars
  <2> USE <1>1 DEF BaseInv, vars, wave, ledger, github, bounds
  <2>1. RunType' /\ WaveInv' /\ QueueInv' BY DEF RunType, WaveInv, QueueInv
  <2>2. LedgerInv' /\ JobInv' /\ TreeType' /\ RowType' /\ GithubType'
    BY DEF LedgerInv, AiSpendIsCovered, Calling, JobInv, TreeType, RowType, AttemptType,
           FaultType, GithubType
  <2> QED BY <2>1, <2>2
<1>2. CASE Next
  <2>1. CASE \E webhook \in BOOLEAN : StartRun(webhook) BY <2>1, StartBase
  <2>2. CASE Score BY <2>2, ScoreBase
  <2>3. CASE \E i \in Issues : Schedule(i) \/ Join(i) BY <2>3, ScheduleBase, JoinBase
  <2>4. CASE FinishRun BY <2>4, FinishBase
  <2>5. CASE \E i \in Issues : Worker(i) BY <2>5, WorkerBase
  <2>6. CASE Restart BY <2>6, RestartBase
  <2>7. CASE \E pr \in late : Land(pr) BY <2>7, LandBase
  <2> QED BY <1>2, <2>1, <2>2, <2>3, <2>4, <2>5, <2>6, <2>7 DEF Next, RunStep
<1> QED BY <1>1, <1>2

LEMMA BaseHolds == Spec => []BaseInv
  BY InitBase, BaseInductive, PTL DEF Spec

\* Every behaviour keeps the type invariant of runs, workers, clones, rows and
\* pull requests.
THEOREM RunsKeepTheirTypes == Spec => []TypeOK
<1>1. BaseInv => TypeOK BY TypeParts DEF BaseInv
<1> QED BY <1>1, BaseHolds, PTL

\* What a run's model calls have cost, open ones at their reservation, is held
\* by its ledger and stays within the budget, for any number of workers calling
\* at once, refused, failed or unanswered, and any number of restarts.
THEOREM ModelSpendIsCovered == Spec => []AiSpendIsCovered
<1>1. BaseInv => AiSpendIsCovered BY DEF BaseInv, LedgerInv
<1> QED BY <1>1, BaseHolds, PTL
-----------------------------------------------------------------------------
(* What a worker's tree, diff and branch hold *)

TreeSteps == {"selecting", "drafting", "healing", "applying", "reviewing", "testing", "retrying",
              "redrafting", "reapplying", "rereviewing", "retesting", "staging"}

\* What tests wrote is left out of what a worker answers for.
Written(i, content) == content \ {Litter(i)}

InHand(i, j) == IF j.at \in {"reviewing", "rereviewing"} THEN {<<i, j.drafts>>} ELSE {}

Cleared(i, j, content) ==
  /\ j.unclean \/ Written(i, content) \subseteq j.approved
  /\ j.test = "passed" => Written(i, content) = Written(i, j.passed)

\* But for what tests wrote, the tree holds approved patches and the one under
\* review, unless a reset failed; what passed them is staged, judged and pushed.
Keeps(i, j, t, b) ==
  /\ t = NoTree \/ t.owner = i
  /\ j.at \in TreeSteps => j.unclean \/ Written(i, t.content) \subseteq j.approved \cup InHand(i, j)
  /\ j.at = "staging" => (j.test = "passed" => Written(i, t.content) = Written(i, j.passed))
  /\ j.at \in {"judging", "pushing"} => Cleared(i, j, j.diff)
  /\ j.at = "pushing" => j.judged = j.diff
  /\ j.at \in {"posting", "posted"} => Cleared(i, j, j.judged) /\ b = j.judged

KeepsWell(i) == Keeps(i, job[i], Tree(i), branch[i])

\* What j and n remember of patches, tests and diffs is the same.
SameWork(j, n) ==
  /\ n.approved = j.approved /\ n.passed = j.passed /\ n.diff = j.diff /\ n.judged = j.judged
  /\ n.unclean = j.unclean /\ n.test = j.test

LEMMA ToSame == ASSUME JobInv, NEW i \in Issues, NEW at PROVE SameWork(job[i], To(i, at))
<1>1. job[i] \in JobRec BY JobOf
<1> QED BY <1>1 DEF JobRec, To, SameWork

LEMMA DraftedSame ==
  ASSUME JobInv, NEW i \in Issues, NEW at \in Steps PROVE SameWork(job[i], Drafted(i, at))
<1> DEFINE t == To(i, at)
<1>1. t \in JobRec /\ SameWork(job[i], t) BY ToFields, ToSame
<1>2. Drafted(i, at) = [t EXCEPT !.drafts = t.drafts + 1] BY DEF Drafted
<1> HIDE DEF t
<1> QED BY <1>1, <1>2 DEF JobRec, SameWork

LEMMA ApprovedWork ==
  ASSUME JobInv, NEW i \in Issues, NEW patches \in SUBSET Patches
  PROVE  LET n == Approved(i, patches) IN
         n.approved = job[i].approved \cup patches /\ n.unclean = job[i].unclean
<1> DEFINE t == To(i, "testing")
<1>1. t \in JobRec /\ SameWork(job[i], t) BY ToFields, StepNames, ToSame
<1>2. Approved(i, patches) = [t EXCEPT !.approved = t.approved \cup patches] BY DEF Approved
<1> HIDE DEF t
<1> QED BY <1>1, <1>2 DEF JobRec, SameWork

LEMMA ReapprovedWork ==
  ASSUME JobInv, NEW i \in Issues, NEW patches \in SUBSET Patches
  PROVE  LET n == Reapproved(i, patches) IN
         n.approved = job[i].approved \cup patches /\ n.unclean = job[i].unclean
<1> DEFINE a == Approved(i, patches)
<1>1. a \in JobRec /\ a.approved = job[i].approved \cup patches /\ a.unclean = job[i].unclean
  BY ApprovedFields, ApprovedWork
<1>2. Reapproved(i, patches) = [a EXCEPT !.at = "retesting"] BY DEF Reapproved
<1> HIDE DEF a
<1> QED BY <1>1, <1>2 DEF JobRec

LEMMA TestedSame ==
  ASSUME NEW j \in JobRec
  PROVE  SameWork(j, Tested(j)) /\ Tested(j).at = (IF Retries(j) THEN "retrying" ELSE "staging")
  BY DEF JobRec, Tested, SameWork

LEMMA WrittenOf ==
  ASSUME NEW i, NEW c, NEW d
  PROVE  /\ Written(i, {}) = {} /\ Written(i, c) \subseteq c
         /\ Written(i, c \cup d) = Written(i, c) \cup Written(i, d)
         /\ Written(i, c \cup {Litter(i)}) = Written(i, c)
  BY DEF Written

LEMMA WrittenLittered ==
  ASSUME NEW i, NEW c \in Littered(i) PROVE Written(i, c) = Written(i, Tree(i).content)
  BY WrittenOf DEF Littered

LEMMA PutsTree ==
  ASSUME TreeType, NEW i \in Issues, NEW c, tree' = PutTree(i, c)
  PROVE  /\ Tree(i)'.owner = Tree(i).owner /\ Tree(i)'.content = c
         /\ Tree(i) = NoTree /\ c = {} => Tree(i)' = NoTree
<1>1. WorkPath[i] \in Paths BY Bounds
<1>2. Tree(i)' = [Tree(i) EXCEPT !.content = c] BY <1>1 DEF TreeType, Tree, PutTree
<1>3. Tree(i) \in [owner : Issues \cup {"none"}, content : SUBSET Patches, writer : BOOLEAN]
  BY <1>1 DEF TreeType, Tree
<1>4. Tree(i)'.owner = Tree(i).owner /\ Tree(i)'.content = c BY <1>2, <1>3
<1>5. ASSUME Tree(i) = NoTree, c = {} PROVE Tree(i)' = NoTree BY <1>2, <1>5 DEF NoTree
<1> QED BY <1>4, <1>5

LEMMA EndKeeps ==
  ASSUME JobInv, TreeType, NEW i \in Issues, NEW status, End(i, status) PROVE KeepsWell(i)'
<1>1. Tree(i)' = NoTree BY Bounds DEF End, TreeType, Tree
<1>2. job'[i].at = "ended" BY EndsAs
<1>3. Tree(i)' = NoTree BY <1>1
<1> QED BY <1>2, <1>3 DEF KeepsWell, Keeps, TreeSteps

LEMMA ResetsKeeps ==
  ASSUME JobInv, TreeType, NEW i \in Issues, KeepsWell(i), NEW n \in JobRec, Resets(i, n),
         n.at \in TreeSteps, n.test # "passed"
  PROVE  KeepsWell(i)'
<1>0. Tree(i) = NoTree \/ Tree(i).owner = i BY DEF KeepsWell, Keeps
<1>1. CASE Goes(i, n) /\ tree' = PutTree(i, {})
  <2>1. job'[i] = n BY <1>1, GoesTo
  <2>2. Tree(i)'.content = {} /\ (Tree(i)' = NoTree \/ Tree(i)'.owner = i)
    BY <1>0, <1>1, PutsTree
  <2>3. Written(i, Tree(i)'.content) = {} BY <2>2, WrittenOf
  <2> QED BY <2>1, <2>2, <2>3 DEF KeepsWell, Keeps, TreeSteps
<1>2. CASE /\ Tree(i) # NoTree /\ Goes(i, [n EXCEPT !.unclean = TRUE])
           /\ \E content \in {Tree(i).content, Tree(i).content \cup {Patch(i)}} : tree' = PutTree(i, content)
  <2>1. job'[i] = [n EXCEPT !.unclean = TRUE] BY <1>2, GoesTo
  <2>2. job'[i].unclean = TRUE /\ job'[i].at = n.at /\ job'[i].test = n.test BY <2>1 DEF JobRec
  <2>3. Tree(i)'.owner = i BY <1>0, <1>2, PutsTree
  <2> QED BY <2>2, <2>3 DEF KeepsWell, Keeps, TreeSteps
<1> QED BY <1>1, <1>2 DEF Resets

LEMMA StaysTree ==
  ASSUME NEW i \in Issues, UNCHANGED tree PROVE Tree(i)' = Tree(i)
  BY DEF Tree
LEMMA AdmissionKeeps ==
  ASSUME JobInv, TreeType, NEW i \in Issues, KeepsWell(i),
         Begin(i) \/ Check(i) \/ Clone(i) \/ Cancel(i) \/ OpenCall(i)
  PROVE  KeepsWell(i)'
<1>0. Tree(i) = NoTree \/ Tree(i).owner = i BY DEF KeepsWell, Keeps
<1>1. CASE Begin(i)
  <2>1. job'[i].at \in {"checking", "ended"} BY <1>1 DEF Begin, Ends, NoJob, JobInv, JobRec
  <2>2. Tree(i)' = Tree(i) BY <1>1, StaysTree DEF Begin
  <2> QED BY <1>0, <2>1, <2>2 DEF KeepsWell, Keeps, TreeSteps
<1>2. CASE Check(i)
  <2>1. job'[i].at \in {"cloning", "ended"} BY <1>2 DEF Check, Ends, NoJob, JobInv, JobRec
  <2>2. Tree(i)' \in {Tree(i), NoTree} BY <1>2, Bounds DEF Check, TreeType, Tree
  <2> QED BY <1>0, <2>1, <2>2 DEF KeepsWell, Keeps, TreeSteps
<1>3. CASE Clone(i)
  <2>1. CASE /\ tree' = [tree EXCEPT ![WorkPath[i]] = [owner |-> i, content |-> {}, writer |-> FALSE]]
             /\ job' = [job EXCEPT ![i].at = "selecting"]
    <3>1. Tree(i)' = [owner |-> i, content |-> {}, writer |-> FALSE] BY <2>1, Bounds DEF TreeType, Tree
    <3>2. job'[i].at = "selecting" BY <2>1 DEF JobInv, JobRec
    <3>3. Tree(i)'.content = {} /\ Tree(i)'.owner = i BY <3>1
    <3>4. Written(i, Tree(i)'.content) = {} BY <3>3, WrittenOf
    <3> QED BY <3>2, <3>3, <3>4 DEF KeepsWell, Keeps, TreeSteps
  <2> QED BY <1>3, <2>1, EndKeeps DEF Clone
<1>4. CASE Cancel(i) BY <1>4, EndKeeps DEF Cancel
<1>5. CASE OpenCall(i)
  <2>1. Tree(i)' = Tree(i) /\ branch' = branch BY <1>5, StaysTree DEF OpenCall, github
  <2>2. job'[i] = [job[i] EXCEPT !.call = TRUE] BY <1>5 DEF OpenCall, JobInv
  <2>3. /\ SameWork(job[i], job'[i]) /\ job'[i].at = job[i].at /\ job'[i].drafts = job[i].drafts
    BY <2>2, JobOf DEF JobRec, SameWork
  <2> QED BY <2>1, <2>3 DEF KeepsWell, Keeps, SameWork, InHand, Cleared
<1> QED BY <1>1, <1>2, <1>3, <1>4, <1>5

LEMMA PatchKeeps ==
  ASSUME JobInv, TreeType, NEW i \in Issues, KeepsWell(i),
         Select(i) \/ Draft(i) \/ Apply(i) \/ Review(i)
  PROVE  KeepsWell(i)'
<1>0. Tree(i) = NoTree \/ Tree(i).owner = i BY DEF KeepsWell, Keeps
<1>1. CASE Select(i)
  <2> DEFINE n == To(i, "drafting")
  <2>1. n.at = "drafting" /\ SameWork(job[i], n) /\ job'[i] = n
    BY <1>1, ToFields, StepNames, ToSame, GoesTo DEF Select
  <2>2. Tree(i)' = Tree(i) BY <1>1, StaysTree DEF Select
  <2>3. job[i].unclean \/ Written(i, Tree(i).content) \subseteq job[i].approved
    BY <1>1 DEF KeepsWell, Keeps, TreeSteps, Select, InHand
  <2> HIDE DEF n
  <2> QED BY <1>0, <2>1, <2>2, <2>3 DEF KeepsWell, Keeps, TreeSteps, SameWork
<1>2. CASE Draft(i)
  <2>1. CASE Goes(i, Drafted(i, "applying")) /\ UNCHANGED tree
    <3> DEFINE n == Drafted(i, "applying")
    <3>0. job[i].drafts <= 1 + 2 * MaxRetries BY <1>2, JobOf, Bounds DEF Draft, Counted, JobRec, Idle
    <3>1. n.at = "applying" /\ SameWork(job[i], n) /\ job'[i] = n
      BY <2>1, <3>0, DraftedFields, StepNames, DraftedSame, GoesTo
    <3>2. Tree(i)' = Tree(i) BY <2>1, StaysTree
    <3>3. job[i].unclean \/ Written(i, Tree(i).content) \subseteq job[i].approved
      BY <1>2 DEF KeepsWell, Keeps, TreeSteps, Draft, InHand
    <3> HIDE DEF n
    <3> QED BY <1>0, <3>1, <3>2, <3>3 DEF KeepsWell, Keeps, TreeSteps, SameWork
  <2> QED BY <1>2, <2>1, EndKeeps DEF Draft
<1>3. CASE Apply(i)
  <2>1. CASE Applies(i) /\ Goes(i, To(i, "reviewing"))
    <3> DEFINE n == To(i, "reviewing")
    <3>1. n.at = "reviewing" /\ n.drafts = job[i].drafts /\ SameWork(job[i], n) /\ job'[i] = n
      BY <2>1, ToFields, StepNames, ToSame, GoesTo
    <3>2. Tree(i)'.content = Tree(i).content \cup {<<i, job[i].drafts>>} /\ Tree(i)'.owner = i
      BY <1>0, <2>1, PutsTree DEF Applies, Patch
    <3>3. job[i].unclean \/ Written(i, Tree(i).content) \subseteq job[i].approved
      BY <1>3 DEF KeepsWell, Keeps, TreeSteps, Apply, InHand
    <3> HIDE DEF n
    <3>4. InHand(i, n) = {<<i, job[i].drafts>>} BY <3>1 DEF InHand
    <3>5. Written(i, Tree(i)'.content) \subseteq Written(i, Tree(i).content) \cup {<<i, job[i].drafts>>}
      BY <3>2 DEF Written
    <3> QED BY <3>1, <3>2, <3>3, <3>4, <3>5 DEF KeepsWell, Keeps, TreeSteps, SameWork
  <2>2. CASE Resets(i, To(i, "healing"))
    <3>1. To(i, "healing") \in JobRec /\ To(i, "healing").at = "healing"
          /\ To(i, "healing").test = job[i].test
      BY ToFields, StepNames
    <3>2. job[i].test # "passed" BY <1>3, JobOf DEF Apply, Counted, Publishing
    <3> QED BY <2>2, <3>1, <3>2, ResetsKeeps DEF TreeSteps
  <2> QED BY <1>3, <2>1, <2>2, EndKeeps DEF Apply
<1>4. CASE Review(i)
  <2>1. CASE Goes(i, Approved(i, {Patch(i)})) /\ UNCHANGED tree
    <3> DEFINE n == Approved(i, {Patch(i)})
    <3>0. {Patch(i)} \in SUBSET Patches BY <1>4, PatchWell DEF Review, Idle
    <3>1. n.at = "testing" /\ job'[i] = n /\ n.unclean = job[i].unclean
          /\ n.approved = job[i].approved \cup {<<i, job[i].drafts>>}
      BY <2>1, <3>0, ApprovedFields, ApprovedWork, GoesTo DEF Patch
    <3>2. Tree(i)' = Tree(i) BY <2>1, StaysTree
    <3>3. job[i].unclean \/ Written(i, Tree(i).content) \subseteq job[i].approved \cup {<<i, job[i].drafts>>}
      BY <1>4 DEF KeepsWell, Keeps, TreeSteps, Review, InHand
    <3> HIDE DEF n
    <3> QED BY <1>0, <3>1, <3>2, <3>3 DEF KeepsWell, Keeps, TreeSteps
  <2> QED BY <1>4, <2>1, EndKeeps DEF Review
<1> QED BY <1>1, <1>2, <1>3, <1>4
LEMMA RetryKeeps ==
  ASSUME JobInv, TreeType, NEW i \in Issues, KeepsWell(i), UNCHANGED branch,
         Test(i) \/ Retry(i) \/ Redraft(i) \/ Reapply(i)
  PROVE  KeepsWell(i)'
<1>0. Tree(i) = NoTree \/ Tree(i).owner = i BY DEF KeepsWell, Keeps
<1>1. CASE Test(i)
  <2>0. PICK result \in Results :
          /\ Goes(i, Tested([job[i] EXCEPT
                 !.test = result, !.passed = IF result = "passed" THEN Tree(i).content ELSE {}]))
          /\ Leaves(i, result)
    BY <1>1 DEF Test
  <2> DEFINE c == IF result = "passed" THEN Tree(i).content ELSE {}
             t == [job[i] EXCEPT !.test = result, !.passed = c]
  <2>1. c \in SUBSET Patches BY Bounds DEF Tree, TreeType
  <2>2. t \in JobRec BY <2>1, JobOf DEF JobRec
  <2>3. /\ t.test = result /\ t.passed = c /\ t.approved = job[i].approved
        /\ t.unclean = job[i].unclean
    BY JobOf DEF JobRec
  <2>4. job'[i] = Tested(t) BY <2>0, GoesTo
  <2>5. /\ Tree(i)' = NoTree \/ Tree(i)'.owner = i
        /\ Written(i, Tree(i)'.content) = Written(i, Tree(i).content)
    BY <1>0, <2>0, LeavesTree, WrittenLittered
  <2>6. job[i].unclean \/ Written(i, Tree(i).content) \subseteq job[i].approved
    BY <1>1 DEF KeepsWell, Keeps, TreeSteps, Test, InHand
  <2>7. t.test = "passed" => Written(i, Tree(i).content) = Written(i, t.passed) BY <2>3
  <2> HIDE DEF t, c
  <2>8. SameWork(t, job'[i]) /\ job'[i].at \in {"retrying", "staging"} BY <2>2, <2>4, TestedSame
  <2> QED BY <1>0, <2>3, <2>5, <2>6, <2>7, <2>8 DEF KeepsWell, Keeps, TreeSteps, SameWork
<1>2. CASE Retry(i)
  <2> DEFINE t == To(i, "redrafting")
             n == [t EXCEPT !.retry = t.retry + 1]
  <2>1. t \in JobRec /\ t.at = "redrafting" /\ t.retry = job[i].retry /\ t.test = job[i].test
    BY ToFields, StepNames
  <2>2. t.retry + 1 \in 0..MaxRetries BY <1>2, <2>1, JobOf, Bounds DEF Retry, Counted, JobRec
  <2>3. Resets(i, n) BY <1>2 DEF Retry
  <2>4. job[i].test # "passed" BY <1>2, JobOf DEF Retry, Counted, Publishing
  <2> HIDE DEF t
  <2>5. n \in JobRec /\ n.at = "redrafting" /\ n.test = job[i].test BY <2>1, <2>2 DEF JobRec
  <2> HIDE DEF n
  <2> QED BY <2>3, <2>4, <2>5, ResetsKeeps DEF TreeSteps
<1>3. CASE Redraft(i)
  <2>1. job[i].test # "passed" BY <1>3, JobOf DEF Redraft, Counted, Publishing
  <2>2. Tree(i)' = Tree(i) BY <1>3, StaysTree DEF Redraft
  <2>3. job[i].unclean \/ Written(i, Tree(i).content) \subseteq job[i].approved
    BY <1>3 DEF KeepsWell, Keeps, TreeSteps, Redraft, InHand
  <2>4. CASE Goes(i, Tested(job[i]))
    <3>1. SameWork(job[i], job'[i]) /\ job'[i].at \in {"retrying", "staging"}
      BY <2>4, JobOf, TestedSame, GoesTo
    <3> QED BY <1>0, <2>1, <2>2, <2>3, <3>1 DEF KeepsWell, Keeps, TreeSteps, SameWork
  <2>5. CASE Goes(i, Drafted(i, "reapplying"))
    <3>0. job[i].drafts <= 1 + 2 * MaxRetries BY <1>3, JobOf, Bounds DEF Redraft, Counted, JobRec, Idle
    <3> DEFINE n == Drafted(i, "reapplying")
    <3>1. n.at = "reapplying" /\ SameWork(job[i], n) /\ job'[i] = n
      BY <2>5, <3>0, DraftedFields, StepNames, DraftedSame, GoesTo
    <3> HIDE DEF n
    <3> QED BY <1>0, <2>2, <2>3, <3>1 DEF KeepsWell, Keeps, TreeSteps, SameWork
  <2> QED BY <1>3, <2>4, <2>5 DEF Redraft
<1>4. CASE Reapply(i)
  <2>1. job[i].test # "passed" BY <1>4, JobOf DEF Reapply, Counted, Publishing
  <2>2. CASE Applies(i) /\ Goes(i, To(i, "rereviewing"))
    <3> DEFINE n == To(i, "rereviewing")
    <3>1. n.at = "rereviewing" /\ n.drafts = job[i].drafts /\ SameWork(job[i], n) /\ job'[i] = n
      BY <2>2, ToFields, StepNames, ToSame, GoesTo
    <3>2. Tree(i)'.content = Tree(i).content \cup {<<i, job[i].drafts>>} /\ Tree(i)'.owner = i
      BY <1>0, <2>2, PutsTree DEF Applies, Patch
    <3>3. job[i].unclean \/ Written(i, Tree(i).content) \subseteq job[i].approved
      BY <1>4 DEF KeepsWell, Keeps, TreeSteps, Reapply, InHand
    <3> HIDE DEF n
    <3>4. InHand(i, n) = {<<i, job[i].drafts>>} BY <3>1 DEF InHand
    <3>5. Written(i, Tree(i)'.content) \subseteq Written(i, Tree(i).content) \cup {<<i, job[i].drafts>>}
      BY <3>2 DEF Written
    <3> QED BY <3>1, <3>2, <3>3, <3>4, <3>5 DEF KeepsWell, Keeps, TreeSteps, SameWork
  <2>3. CASE Resets(i, Tested(job[i]))
    <3>1. Tested(job[i]) \in JobRec
      BY <1>4, JobOf, TestedWell DEF Reapply, Counted, Idle
    <3>2. Tested(job[i]).at \in TreeSteps /\ Tested(job[i]).test # "passed"
      BY <2>1, JobOf, TestedSame DEF SameWork, TreeSteps
    <3> QED BY <2>3, <3>1, <3>2, ResetsKeeps
  <2> QED BY <1>4, <2>2, <2>3 DEF Reapply
<1> QED BY <1>1, <1>2, <1>3, <1>4

LEMMA RereviewKeepsWell ==
  ASSUME JobInv, TreeType, NEW i \in Issues, KeepsWell(i), Rereview(i)
  PROVE  KeepsWell(i)'
<1>0. Tree(i) = NoTree \/ Tree(i).owner = i BY DEF KeepsWell, Keeps
<1>1. job[i].at = "rereviewing" /\ job[i].at \notin Idle BY DEF Rereview, Idle
<1>2. job[i].test # "passed" BY <1>1, JobOf DEF Counted, Publishing
<1>3. {Patch(i)} \in SUBSET Patches BY <1>1, PatchWell
<1>4. job[i].unclean \/ Written(i, Tree(i).content) \subseteq job[i].approved \cup {Patch(i)}
  BY <1>1 DEF KeepsWell, Keeps, TreeSteps, InHand, Patch
<1>5. CASE Resets(i, To(i, "staging"))
  <2>1. To(i, "staging") \in JobRec /\ To(i, "staging").at = "staging"
        /\ To(i, "staging").test = job[i].test
    BY ToFields, StepNames
  <2> QED BY <1>2, <1>5, <2>1, ResetsKeeps DEF TreeSteps
<1>6. CASE Goes(i, Reapproved(i, {Patch(i)})) /\ UNCHANGED tree
  <2> DEFINE n == Reapproved(i, {Patch(i)})
  <2>1. n.at = "retesting" /\ job'[i] = n /\ n.unclean = job[i].unclean
        /\ n.approved = job[i].approved \cup {Patch(i)}
    BY <1>3, <1>6, ReapprovedFields, ReapprovedWork, GoesTo
  <2>2. Tree(i)' = Tree(i) BY <1>6, StaysTree
  <2> HIDE DEF n
  <2> QED BY <1>0, <1>4, <2>1, <2>2 DEF KeepsWell, Keeps, TreeSteps
<1>7. CASE Improves(i)
  <2> DEFINE new == <<i, job[i].drafts + 1>>
             r == Reapproved(i, {Patch(i), new})
             next == [r EXCEPT !.drafts = r.drafts + 1]
  <2>1. job[i].drafts + 1 \in Drafts
    BY <1>1, JobOf, Bounds DEF Counted, JobRec, Drafts
  <2>2. {Patch(i), new} \in SUBSET Patches BY <1>3, <2>1 DEF Patches
  <2>3. /\ Tree(i) # NoTree
        /\ \/ Goes(i, next) /\ tree' = PutTree(i, {new})
           \/ /\ Goes(i, [next EXCEPT !.unclean = TRUE])
              /\ tree' = PutTree(i, Tree(i).content \cup {new})
    BY <1>7 DEF Improves
  <2> HIDE DEF new
  <2>4. r \in JobRec /\ r.at = "retesting" /\ r.approved = job[i].approved \cup {Patch(i), new}
    BY <2>2, ReapprovedFields, ReapprovedWork
  <2> HIDE DEF r
  <2>5. next.at = "retesting" /\ next.approved = job[i].approved \cup {Patch(i), new}
    BY <2>4 DEF JobRec
  <2>6. LET u == [next EXCEPT !.unclean = TRUE] IN u.at = "retesting" /\ u.unclean = TRUE
    BY <2>4 DEF JobRec
  <2> HIDE DEF next
  <2>7. Tree(i)'.owner = i BY <1>0, <2>3, PutsTree
  <2>8. CASE Goes(i, next) /\ tree' = PutTree(i, {new})
    <3>1. job'[i] = next /\ Tree(i)'.content = {new} BY <2>8, GoesTo, PutsTree
    <3>2. Written(i, Tree(i)'.content) \subseteq {new} BY <3>1, WrittenOf
    <3> QED BY <2>5, <2>7, <3>1, <3>2 DEF KeepsWell, Keeps, TreeSteps
  <2>9. CASE Goes(i, [next EXCEPT !.unclean = TRUE])
    <3>1. job'[i].at = "retesting" /\ job'[i].unclean = TRUE BY <2>6, <2>9, GoesTo
    <3> QED BY <2>7, <3>1 DEF KeepsWell, Keeps, TreeSteps
  <2> QED BY <2>3, <2>8, <2>9
<1> QED BY <1>5, <1>6, <1>7 DEF Rereview

LEMMA PublicationKeeps ==
  ASSUME JobInv, TreeType, GithubType, NEW i \in Issues, KeepsWell(i),
         Stage(i) \/ Judge(i) \/ Push(i) \/ Post(i) \/ PublishFails(i) \/ Record(i)
  PROVE  KeepsWell(i)'
<1>0. Tree(i) = NoTree \/ Tree(i).owner = i BY DEF KeepsWell, Keeps
<1>1. CASE Stage(i)
  <2>1. ASSUME NEW content \in IF Tree(i).writer THEN Littered(i) ELSE {Tree(i).content},
               content # {}, Goes(i, [To(i, "judging") EXCEPT !.diff = content]),
               tree' = PutTree(i, content)
        PROVE  KeepsWell(i)'
    <3> DEFINE t == To(i, "judging")
               n == [t EXCEPT !.diff = content]
    <3>1. t \in JobRec /\ t.at = "judging" /\ SameWork(job[i], t)
      BY ToFields, StepNames, ToSame
    <3>2. job'[i] = n BY <2>1, GoesTo
    <3> HIDE DEF t
    <3>3. /\ n.at = "judging" /\ n.diff = content /\ n.approved = job[i].approved
          /\ n.unclean = job[i].unclean /\ n.test = job[i].test /\ n.passed = job[i].passed
      BY <3>1 DEF JobRec, SameWork
    <3> HIDE DEF n
    <3>4. /\ job[i].unclean \/ Written(i, Tree(i).content) \subseteq job[i].approved
          /\ job[i].test = "passed" => Written(i, Tree(i).content) = Written(i, job[i].passed)
      BY <1>1 DEF KeepsWell, Keeps, TreeSteps, Stage, InHand
    <3>5. Tree(i) # NoTree /\ Written(i, content) = Written(i, Tree(i).content)
      BY <2>1, StagedContent, WrittenLittered
    <3>6. Tree(i)'.owner = i BY <1>0, <2>1, <3>5, PutsTree
    <3> QED BY <3>2, <3>3, <3>4, <3>5, <3>6 DEF KeepsWell, Keeps, TreeSteps, Cleared
  <2> QED BY <1>1, <2>1, EndKeeps DEF Stage
<1>2. CASE Judge(i)
  <2>1. CASE Goes(i, [To(i, "pushing") EXCEPT !.judged = job[i].diff]) /\ UNCHANGED tree
    <3> DEFINE t == To(i, "pushing")
               n == [t EXCEPT !.judged = job[i].diff]
    <3>1. t \in JobRec /\ t.at = "pushing" /\ SameWork(job[i], t)
      BY ToFields, StepNames, ToSame
    <3>2. job'[i] = n BY <2>1, GoesTo
    <3> HIDE DEF t
    <3>3. /\ n.at = "pushing" /\ n.judged = job[i].diff /\ n.diff = job[i].diff
          /\ n.approved = job[i].approved
          /\ n.unclean = job[i].unclean /\ n.test = job[i].test /\ n.passed = job[i].passed
      BY <3>1 DEF JobRec, SameWork
    <3> HIDE DEF n
    <3>4. Cleared(i, job[i], job[i].diff) BY <1>2 DEF KeepsWell, Keeps, Judge
    <3>5. Tree(i)' = Tree(i) BY <2>1, StaysTree
    <3> QED BY <1>0, <3>2, <3>3, <3>4, <3>5 DEF KeepsWell, Keeps, TreeSteps, Cleared
  <2> QED BY <1>2, <2>1, EndKeeps DEF Judge
<1>3. CASE Push(i)
  <2> DEFINE n == To(i, "posting")
  <2>1. n.at = "posting" /\ SameWork(job[i], n) /\ job'[i] = n
    BY <1>3, ToFields, StepNames, ToSame, GoesTo DEF Push
  <2>2. Tree(i)' = Tree(i) BY <1>3, StaysTree DEF Push
  <2>3. branch'[i] = job[i].diff BY <1>0, <1>3 DEF Push, GithubType
  <2>4. Cleared(i, job[i], job[i].diff) /\ job[i].judged = job[i].diff BY <1>3 DEF KeepsWell, Keeps, Push
  <2> HIDE DEF n
  <2> QED BY <1>0, <2>1, <2>2, <2>3, <2>4 DEF KeepsWell, Keeps, TreeSteps, Cleared, SameWork
<1>4. CASE Post(i)
  <2> DEFINE n == To(i, "posted")
  <2>1. n.at = "posted" /\ SameWork(job[i], n) /\ job'[i] = n
    BY <1>4, ToFields, StepNames, ToSame, GoesTo DEF Post
  <2>2. Tree(i)' = Tree(i) /\ branch' = branch BY <1>4, StaysTree DEF Post
  <2>3. Cleared(i, job[i], job[i].judged) /\ branch[i] = job[i].judged BY <1>4 DEF KeepsWell, Keeps, Post
  <2> HIDE DEF n
  <2> QED BY <1>0, <2>1, <2>2, <2>3 DEF KeepsWell, Keeps, TreeSteps, Cleared, SameWork
<1>5. CASE PublishFails(i) \/ Record(i) BY <1>5, EndKeeps DEF PublishFails, Record
<1> QED BY <1>1, <1>2, <1>3, <1>4, <1>5
-----------------------------------------------------------------------------
(* Pull requests *)

PublicSteps == {"posting", "posted"}

\* Only a push and a POST bring a worker to where its branch is public.
LEMMA StepsToPublic ==
  ASSUME JobInv, TreeType, NEW i \in Issues, Worker(i), ~Push(i), ~Post(i)
  PROVE  job'[i].at \notin PublicSteps
<1> USE DEF PublicSteps
<1>1. CASE Begin(i) BY <1>1 DEF Begin, Ends, NoJob, JobInv, JobRec
<1>2. CASE Check(i) BY <1>2 DEF Check, Ends, NoJob, JobInv, JobRec
<1>3. CASE Clone(i)
  <2>1. CASE job' = [job EXCEPT ![i].at = "selecting"] BY <2>1 DEF JobInv, JobRec
  <2> QED BY <1>3, <2>1, EndsAs DEF Clone
<1>4. CASE Cancel(i) \/ PublishFails(i) \/ Record(i)
  BY <1>4, EndsAs DEF Cancel, PublishFails, Record
<1>5. CASE OpenCall(i) BY <1>5 DEF OpenCall, AskingSteps, JobInv, JobRec
<1>6. CASE Select(i)
  <2>1. To(i, "drafting").at = "drafting" BY ToFields, StepNames
  <2> QED BY <1>6, <2>1, GoesTo DEF Select
<1>7. CASE Draft(i)
  <2>0. job[i].drafts <= 1 + 2 * MaxRetries BY <1>7, JobOf, Bounds DEF Draft, Counted, JobRec, Idle
  <2>1. Drafted(i, "applying").at = "applying" BY <2>0, DraftedFields, StepNames
  <2> QED BY <1>7, <2>1, GoesTo, EndsAs DEF Draft
<1>8. CASE Apply(i)
  <2>1. To(i, "reviewing").at = "reviewing" BY ToFields, StepNames
  <2>2. To(i, "healing") \in JobRec /\ To(i, "healing").at = "healing" BY ToFields, StepNames
  <2>3. [To(i, "healing") EXCEPT !.unclean = TRUE].at = "healing" BY <2>2 DEF JobRec
  <2> QED BY <1>8, <2>1, <2>2, <2>3, GoesTo, ResetsTo, EndsAs DEF Apply
<1>9. CASE Review(i)
  <2>1. {Patch(i)} \in SUBSET Patches BY <1>9, PatchWell DEF Review, Idle
  <2>2. Approved(i, {Patch(i)}).at = "testing" BY <2>1, ApprovedFields
  <2> QED BY <1>9, <2>2, GoesTo, EndsAs DEF Review
<1>10. CASE Test(i)
  <2>0. PICK result \in Results :
          Goes(i, Tested([job[i] EXCEPT
                 !.test = result, !.passed = IF result = "passed" THEN Tree(i).content ELSE {}]))
    BY <1>10 DEF Test
  <2> DEFINE t == [job[i] EXCEPT !.test = result,
                     !.passed = IF result = "passed" THEN Tree(i).content ELSE {}]
  <2>1. Tree(i).content \in SUBSET Patches BY Bounds DEF Tree, TreeType
  <2>2. t \in JobRec BY <2>1, JobOf DEF JobRec
  <2>3. job'[i] = Tested(t) BY <2>0, GoesTo
  <2> HIDE DEF t
  <2> QED BY <2>2, <2>3, TestedSame
<1>11. CASE Retry(i)
  <2> DEFINE t == To(i, "redrafting")
             n == [t EXCEPT !.retry = t.retry + 1]
  <2>1. t \in JobRec /\ t.at = "redrafting" /\ t.retry = job[i].retry BY ToFields, StepNames
  <2>2. t.retry + 1 \in 0..MaxRetries BY <1>11, <2>1, JobOf, Bounds DEF Retry, Counted, JobRec
  <2>3. Resets(i, n) BY <1>11 DEF Retry
  <2> HIDE DEF t
  <2>4. n \in JobRec /\ n.at = "redrafting" BY <2>1, <2>2 DEF JobRec
  <2> HIDE DEF n
  <2>5. [n EXCEPT !.unclean = TRUE].at = "redrafting" BY <2>4 DEF JobRec
  <2> QED BY <2>3, <2>4, <2>5, ResetsTo
<1>12. CASE Redraft(i)
  <2>1. Tested(job[i]).at \in {"retrying", "staging"} BY JobOf, TestedSame
  <2>2. job[i].drafts <= 1 + 2 * MaxRetries BY <1>12, JobOf, Bounds DEF Redraft, Counted, JobRec, Idle
  <2>3. Drafted(i, "reapplying").at = "reapplying" BY <2>2, DraftedFields, StepNames
  <2> QED BY <1>12, <2>1, <2>3, GoesTo DEF Redraft
<1>13. CASE Reapply(i)
  <2>1. To(i, "rereviewing").at = "rereviewing" BY ToFields, StepNames
  <2>2. Tested(job[i]) \in JobRec /\ Tested(job[i]).at \in {"retrying", "staging"}
    BY <1>13, JobOf, TestedWell, TestedSame DEF Reapply, Counted, Idle
  <2>3. [Tested(job[i]) EXCEPT !.unclean = TRUE].at \in {"retrying", "staging"} BY <2>2 DEF JobRec
  <2> QED BY <1>13, <2>1, <2>2, <2>3, GoesTo, ResetsTo DEF Reapply
<1>14. CASE Rereview(i)
  <2>1. job[i].at \notin Idle BY <1>14 DEF Rereview, Idle
  <2>2. {Patch(i)} \in SUBSET Patches BY <2>1, PatchWell
  <2>3. CASE Resets(i, To(i, "staging"))
    <3>1. To(i, "staging") \in JobRec /\ To(i, "staging").at = "staging" BY ToFields, StepNames
    <3>2. [To(i, "staging") EXCEPT !.unclean = TRUE].at = "staging" BY <3>1 DEF JobRec
    <3> QED BY <2>3, <3>1, <3>2, ResetsTo
  <2>4. CASE Improves(i)
    <3> DEFINE new == <<i, job[i].drafts + 1>>
               r == Reapproved(i, {Patch(i), new})
               next == [r EXCEPT !.drafts = r.drafts + 1]
    <3>1. job[i].drafts + 1 \in Drafts
      BY <1>14, JobOf, Bounds DEF Rereview, Counted, JobRec, Drafts, Idle
    <3>2. {Patch(i), new} \in SUBSET Patches BY <2>2, <3>1 DEF Patches
    <3>3. job'[i] = next \/ job'[i] = [next EXCEPT !.unclean = TRUE]
      BY <2>4, GoesTo DEF Improves
    <3> HIDE DEF new
    <3>4. r \in JobRec /\ r.at = "retesting" BY <3>2, ReapprovedFields
    <3> HIDE DEF r
    <3>5. next.at = "retesting" /\ [next EXCEPT !.unclean = TRUE].at = "retesting" BY <3>4 DEF JobRec
    <3> QED BY <3>3, <3>5
  <2>5. CASE Goes(i, Reapproved(i, {Patch(i)}))
    <3>1. Reapproved(i, {Patch(i)}).at = "retesting" BY <2>2, ReapprovedFields
    <3> QED BY <2>5, <3>1, GoesTo
  <2> QED BY <1>14, <2>3, <2>4, <2>5 DEF Rereview
<1>15. CASE Stage(i)
  <2>1. To(i, "judging") \in JobRec /\ To(i, "judging").at = "judging" BY ToFields, StepNames
  <2>2. \A content : [To(i, "judging") EXCEPT !.diff = content].at = "judging" BY <2>1 DEF JobRec
  <2> QED BY <1>15, <2>2, GoesTo, EndsAs DEF Stage
<1>16. CASE Judge(i)
  <2>1. To(i, "pushing") \in JobRec /\ To(i, "pushing").at = "pushing" BY ToFields, StepNames
  <2>2. [To(i, "pushing") EXCEPT !.judged = job[i].diff].at = "pushing" BY <2>1 DEF JobRec
  <2> QED BY <1>16, <2>2, GoesTo, EndsAs DEF Judge
<1> QED
  BY <1>1, <1>2, <1>3, <1>4, <1>5, <1>6, <1>7, <1>8, <1>9, <1>10, <1>11, <1>12, <1>13, <1>14,
     <1>15, <1>16
  DEF Worker

Sent == prs \cup late

Sound(p) ==
  /\ p.content = p.judged
  /\ p.unclean \/ Written(p.issue, p.content) \subseteq p.approved
  /\ ~p.draft => Written(p.issue, p.content) = Written(p.issue, p.passed)

\* Pull requests, opened or about to be, of issues that share no directory, and
\* the workers that open them.
PrInv ==
  /\ \A p \in Sent : Alone(p.issue) => Sound(p) /\ branch[p.issue] # {}
  /\ \A p, q \in Sent : Alone(p.issue) /\ p.issue = q.issue => p = q
  /\ \A i \in Issues : Alone(i) /\ job[i].at = "posting" => \A p \in Sent : p.issue # i
  /\ \A i \in Issues : job[i].at = "posted" => Published(started, i)

\* A clone is that of an issue whose work directory it is in.
Owned(i) == Tree(i) = NoTree \/ (Tree(i).owner \in Issues /\ WorkPath[Tree(i).owner] = WorkPath[i])

WorkInv ==
  /\ \A i \in Issues : Owned(i)
  /\ \A i \in Issues : Alone(i) => KeepsWell(i)
  /\ PrInv

LEMMA OpenedIsSound ==
  ASSUME JobInv, NEW i \in Issues, KeepsWell(i), job[i].at = "posting"
  PROVE  Sound(Opened(i)) /\ Opened(i).issue = i /\ Opened(i).run = started
<1>1. Cleared(i, job[i], job[i].judged) /\ branch[i] = job[i].judged BY DEF KeepsWell, Keeps
<1> QED BY <1>1 DEF Opened, Sound, Cleared
\* A step that changes a worker neither works nor publishes with.
LEMMA RestingKeeps ==
  ASSUME NEW i \in Issues, KeepsWell(i), Tree(i)' \in {Tree(i), NoTree},
         job'[i].at \in {"none", "queued", "joined"}
  PROVE  KeepsWell(i)'
  BY DEF KeepsWell, Keeps, TreeSteps

LEMMA SameOwned ==
  ASSUME NEW i \in Issues, Owned(i), Tree(i)' \in {Tree(i), NoTree} PROVE Owned(i)'
  BY DEF Owned

LEMMA SameKeeps ==
  ASSUME NEW i \in Issues, KeepsWell(i), Tree(i)' = Tree(i), job'[i] = job[i], branch'[i] = branch[i]
  PROVE  KeepsWell(i)'
  BY DEF KeepsWell

\* A step that opens nothing, after which whoever posts or has posted did before.
LEMMA QuietPrs ==
  ASSUME PrInv, Sent' = Sent, prs \subseteq prs', UNCHANGED branch,
         \A i \in Issues : job'[i].at \in PublicSteps => job'[i].at = job[i].at /\ started' = started
  PROVE  PrInv'
<1>1. \A i \in Issues : Published(started, i) /\ started' = started => Published(started, i)'
  BY DEF Published
<1> QED BY <1>1 DEF PrInv, Sound, PublicSteps

LEMMA InitWork == Init => WorkInv
<1> SUFFICES ASSUME Init PROVE WorkInv
  OBVIOUS
<1>1. \A i \in Issues : job[i].at = "none" /\ Tree(i) = NoTree BY Bounds DEF Init, NoJob, Tree
<1>2. \A i \in Issues : KeepsWell(i) BY <1>1 DEF KeepsWell, Keeps, TreeSteps
<1>3. Sent = {} BY DEF Init, Sent
<1>4. PrInv BY <1>1, <1>3 DEF PrInv
<1>5. \A i \in Issues : Owned(i) BY <1>1 DEF Owned
<1> QED BY <1>2, <1>4, <1>5 DEF WorkInv

LEMMA TaskWork ==
  ASSUME BaseInv, WorkInv, (\E webhook \in BOOLEAN : StartRun(webhook)) \/ RunStep PROVE WorkInv'
<1> USE DEF BaseInv
<1>1. UNCHANGED <<tree, github>> BY DEF StartRun, RunStep, Score, Schedule, Join, FinishRun
<1>2. \A i \in Issues : Tree(i)' = Tree(i) /\ branch'[i] = branch[i] /\ Sent' = Sent /\ prs' = prs
  BY <1>1 DEF Tree, Sent, github
<1>3. \A i \in Issues : job'[i].at \in {"none", "queued", "joined"}
                        \/ (job'[i] = job[i] /\ started' = started)
  <2>1. CASE \E webhook \in BOOLEAN : StartRun(webhook)
    BY <2>1 DEF StartRun, NoJob
  <2>2. CASE Score \/ FinishRun BY <2>2 DEF Score, FinishRun
  <2>3. ASSUME NEW k \in Issues, Schedule(k) \/ Join(k)
        PROVE  \A i \in Issues : job'[i].at \in {"none", "queued", "joined"}
                                 \/ (job'[i] = job[i] /\ started' = started)
    BY <2>3 DEF Schedule, Join, JobInv, JobRec
  <2> QED BY <2>1, <2>2, <2>3 DEF RunStep
<1>4. \A i \in Issues : Owned(i)' /\ (Alone(i) => KeepsWell(i)')
  BY <1>2, <1>3, RestingKeeps, SameKeeps, SameOwned DEF WorkInv
<1>5. Sent' = Sent /\ prs' = prs /\ branch' = branch BY <1>1 DEF Sent, github
<1>6. PrInv' BY <1>3, <1>5, QuietPrs DEF WorkInv, PublicSteps
<1> QED BY <1>4, <1>6 DEF WorkInv, Alone

LEMMA PutsOwned ==
  ASSUME TreeType, NEW i \in Issues, Owned(i), NEW c, tree' = PutTree(i, c),
         Tree(i) = NoTree => c = {}
  PROVE  Owned(i)'
<1>1. Tree(i)' = NoTree \/ (Tree(i) # NoTree /\ Tree(i)'.owner = Tree(i).owner) BY PutsTree
<1> QED BY <1>1 DEF Owned

LEMMA ResetsOwned ==
  ASSUME TreeType, NEW i \in Issues, Owned(i), NEW n, Resets(i, n) PROVE Owned(i)'
  BY PutsOwned DEF Resets

LEMMA AppliesOwned ==
  ASSUME TreeType, NEW i \in Issues, Owned(i), Applies(i) PROVE Owned(i)'
  BY PutsOwned DEF Applies

LEMMA EndsOwned ==
  ASSUME TreeType, NEW i \in Issues, NEW status, End(i, status) PROVE Owned(i)'
<1>1. Tree(i)' = NoTree BY Bounds DEF End, TreeType, Tree
<1> QED BY <1>1 DEF Owned

\* A worker clones its own issue's repository and otherwise keeps the clone in
\* its directory or removes it.
LEMMA WorkerOwns ==
  ASSUME JobInv, TreeType, NEW i \in Issues, Owned(i), Worker(i) PROVE Owned(i)'
<1> USE SameOwned, StaysTree, EndsOwned, ResetsOwned, AppliesOwned
<1>1. CASE Begin(i) \/ OpenCall(i) BY <1>1 DEF Begin, OpenCall
<1>2. CASE Check(i)
  <2>1. Tree(i)' \in {Tree(i), NoTree} BY <1>2, Bounds DEF Check, TreeType, Tree
  <2> QED BY <2>1
<1>3. CASE Clone(i)
  <2>1. CASE tree' = [tree EXCEPT ![WorkPath[i]] = [owner |-> i, content |-> {}, writer |-> FALSE]]
    <3>1. Tree(i)'.owner = i BY <2>1, Bounds DEF TreeType, Tree
    <3> QED BY <3>1 DEF Owned
  <2> QED BY <1>3, <2>1 DEF Clone
<1>4. CASE Cancel(i) \/ PublishFails(i) \/ Record(i) BY <1>4 DEF Cancel, PublishFails, Record
<1>5. CASE Select(i) \/ Draft(i) \/ Review(i) BY <1>5 DEF Select, Draft, Review
<1>6. CASE Apply(i) BY <1>6 DEF Apply
<1>7. CASE Test(i)
  <2>1. Tree(i)' = NoTree \/ (Tree(i) # NoTree /\ Tree(i)'.owner = Tree(i).owner)
    BY <1>7, LeavesTree DEF Test
  <2> QED BY <2>1 DEF Owned
<1>8. CASE Retry(i) \/ Redraft(i) \/ Reapply(i) BY <1>8 DEF Retry, Redraft, Reapply
<1>9. CASE Rereview(i)
  <2>1. CASE Improves(i) BY <2>1, PutsOwned DEF Improves
  <2> QED BY <1>9, <2>1 DEF Rereview
<1>10. CASE Stage(i)
  <2>1. ASSUME NEW content \in IF Tree(i).writer THEN Littered(i) ELSE {Tree(i).content},
               tree' = PutTree(i, content)
        PROVE  Owned(i)'
    BY <2>1, StagedContent, PutsOwned
  <2> QED BY <1>10, <2>1 DEF Stage
<1>11. CASE Judge(i) \/ Push(i) \/ Post(i) BY <1>11 DEF Judge, Push, Post
<1> QED BY <1>1, <1>2, <1>3, <1>4, <1>5, <1>6, <1>7, <1>8, <1>9, <1>10, <1>11 DEF Worker

LEMMA WorkerKeepsOwn ==
  ASSUME BaseInv, NEW i \in Issues, KeepsWell(i), Worker(i) PROVE KeepsWell(i)'
<1> USE DEF BaseInv
<1>0. KeepsWell(i) OBVIOUS
<1>1. KeepsWell(i)'
  <2>1. CASE Test(i) \/ Retry(i) \/ Redraft(i) \/ Reapply(i)
    <3>1. UNCHANGED branch BY <2>1 DEF Test, Retry, Redraft, Reapply, github
    <3> QED BY <1>0, <2>1, <3>1, RetryKeeps
  <2> QED BY <1>0, <2>1, AdmissionKeeps, PatchKeeps, RereviewKeepsWell, PublicationKeeps DEF Worker
<1> QED BY <1>1

\* The branch of an issue that is alone in its directory is its own worker's.
LEMMA WorkerKeepsBranches ==
  ASSUME BaseInv, WorkInv, NEW i \in Issues, Worker(i), NEW k \in Issues, Alone(k), k # i
  PROVE  branch'[k] = branch[k]
<1> USE DEF BaseInv
<1>1. CASE Push(i)
  <2>1. Tree(i).owner \in Issues /\ WorkPath[Tree(i).owner] = WorkPath[i]
    BY <1>1 DEF WorkInv, Owned, Push
  <2>2. Tree(i).owner # k BY <2>1 DEF Alone
  <2> QED BY <1>1, <2>2 DEF Push, GithubType
<1>2. CASE Post(i) BY <1>2 DEF Post
<1> QED BY <1>1, <1>2, WorkerKeepsGithub DEF github

LEMMA WorkerKeepsWell ==
  ASSUME BaseInv, WorkInv, NEW i \in Issues, Worker(i)
  PROVE  \A k \in Issues : Owned(k)' /\ (Alone(k) => KeepsWell(k)')
<1> USE DEF BaseInv
<1>1. Owned(i)' /\ (Alone(i) => KeepsWell(i)') BY WorkerOwns, WorkerKeepsOwn DEF WorkInv
<1>2. WorksAlone(i) BY WorkerAlone
<1>3. ASSUME NEW k \in Issues, k # i PROVE Owned(k)' /\ (Alone(k) => KeepsWell(k)')
  <2>1. job'[k] = job[k] BY <1>2, <1>3, OthersStay
  <2>2. CASE WorkPath[k] # WorkPath[i]
    <3>1. Tree(k)' = Tree(k) BY <1>2, <1>3, <2>2, OthersStay
    <3> QED BY <1>3, <2>1, <3>1, SameOwned, SameKeeps, WorkerKeepsBranches DEF WorkInv
  <2>3. CASE WorkPath[k] = WorkPath[i]
    <3>1. ~Alone(k) BY <1>3, <2>3 DEF Alone
    <3>2. Tree(k)' = Tree(i)' BY <2>3 DEF Tree
    <3> QED BY <1>1, <2>3, <3>1, <3>2 DEF Owned
  <2> QED BY <2>2, <2>3
<1> QED BY <1>1, <1>3

LEMMA WorkerPrs ==
  ASSUME BaseInv, WorkInv, NEW i \in Issues, Worker(i) PROVE PrInv'
<1> USE DEF BaseInv
<1>0. PrInv /\ (Alone(i) => KeepsWell(i)) BY DEF WorkInv
<1>1. \A k \in Issues : k # i => job'[k] = job[k] BY CallsOfOthers
<1>2. started' = started /\ late' = late BY WorkerKeepsRun DEF wave
<1>3. \A p \in Sent : p.issue \in Issues BY DEF Sent, GithubType, Pulls
<1>4. \A k \in Issues : k # i /\ Alone(k) => branch'[k] = branch[k] BY WorkerKeepsBranches
<1>5. CASE Push(i)
  <2>1. Alone(i) => branch[i] = {}
    BY <1>0, <1>5 DEF KeepsWell, Keeps, Push
  <2>2. Alone(i) => \A p \in Sent : p.issue # i BY <1>0, <2>1 DEF PrInv
  <2>3. prs' = prs /\ Sent' = Sent BY <1>2, <1>5 DEF Push, Sent
  <2>4. job'[i].at = "posting"
    <3>1. To(i, "posting").at = "posting" BY ToFields, StepNames
    <3> QED BY <1>5, <3>1, GoesTo DEF Push
  <2>5. \A p \in Sent : Alone(p.issue) => Sound(p) /\ branch'[p.issue] # {}
    BY <1>0, <1>3, <1>4, <2>2 DEF PrInv
  <2>6. \A k \in Issues : job'[k].at = "posted" => Published(started, k)
    BY <1>0, <1>1, <2>4 DEF PrInv
  <2>7. \A k \in Issues : Alone(k) /\ job'[k].at = "posting" => \A p \in Sent : p.issue # k
    BY <1>0, <1>1, <2>2 DEF PrInv
  <2> QED BY <1>0, <1>2, <2>3, <2>5, <2>6, <2>7 DEF PrInv, Published, Sound
<1>6. CASE Post(i)
  <2> DEFINE p0 == Opened(i)
  <2>0. job[i].at = "posting" /\ branch[i] # {} /\ branch' = branch BY <1>6 DEF Post
  <2>1. p0.issue = i /\ p0.run = started BY DEF Opened
  <2>2. Alone(i) => Sound(p0) BY <1>0, <2>0, OpenedIsSound
  <2>3. prs' = prs \cup {p0} /\ Sent' = Sent \cup {p0} BY <1>2, <1>6 DEF Post, Sent
  <2> HIDE DEF p0
  <2>4. Alone(i) => \A p \in Sent : p.issue # i BY <1>0, <2>0 DEF PrInv
  <2>5. job'[i].at = "posted"
    <3>1. To(i, "posted").at = "posted" BY ToFields, StepNames
    <3> QED BY <1>6, <3>1, GoesTo DEF Post
  <2>6. \A p \in Sent' : Alone(p.issue) => Sound(p) /\ branch'[p.issue] # {}
    BY <1>0, <2>0, <2>1, <2>2, <2>3 DEF PrInv
  <2>7. \A p, q \in Sent' : Alone(p.issue) /\ p.issue = q.issue => p = q
    BY <1>0, <2>1, <2>3, <2>4 DEF PrInv
  <2>8. \A k \in Issues : Alone(k) /\ job'[k].at = "posting" => \A p \in Sent' : p.issue # k
    BY <1>0, <1>1, <2>1, <2>3, <2>5 DEF PrInv
  <2>9. \A k \in Issues : job'[k].at = "posted" => Published(started, k)'
    <3>1. Published(started, i)' BY <1>2, <2>1, <2>3 DEF Published
    <3>2. \A k \in Issues : Published(started, k) => Published(started, k)'
      BY <1>2, <2>3 DEF Published
    <3> QED BY <1>0, <1>1, <3>1, <3>2 DEF PrInv
  <2> QED BY <2>6, <2>7, <2>8, <2>9 DEF PrInv, Sound
<1>7. CASE ~Push(i) /\ ~Post(i)
  <2>1. UNCHANGED github BY <1>7, WorkerKeepsGithub
  <2>2. job'[i].at \notin PublicSteps BY <1>7, StepsToPublic
  <2>3. Sent' = Sent /\ prs' = prs /\ branch' = branch BY <2>1 DEF github, Sent
  <2> QED BY <1>0, <1>1, <1>2, <2>2, <2>3, QuietPrs
<1> QED BY <1>5, <1>6, <1>7

LEMMA RestartWork == ASSUME BaseInv, WorkInv, Restart PROVE WorkInv'
<1> USE DEF BaseInv
<1>0. PICK sent \in SUBSET {i \in Issues : job[i].at = "posting" /\ branch[i] # {}} :
        /\ late' = late \cup {Opened(i) : i \in sent}
        /\ UNCHANGED <<branch, prs, started>>
  BY DEF Restart
<1>1. \A i \in Issues : job'[i].at = "none" BY DEF Restart, NoJob
<1>2. \A i \in Issues : Tree(i)' = NoTree BY Bounds DEF Restart, Tree
<1>3. \A i \in Issues : Owned(i)' /\ (Alone(i) => KeepsWell(i)')
  BY <1>1, <1>2, RestingKeeps, SameOwned DEF WorkInv
<1>4. \A i \in sent : Opened(i).issue = i /\ branch[i] # {} /\ (Alone(i) => Sound(Opened(i)))
  BY OpenedIsSound DEF WorkInv, Opened
<1>5. Sent' = Sent \cup {Opened(i) : i \in sent} BY <1>0 DEF Sent
<1>6. \A i \in sent : Alone(i) => \A p \in Sent : p.issue # i BY DEF WorkInv, PrInv
<1>7. \A p \in Sent' : Alone(p.issue) => Sound(p) /\ branch[p.issue] # {}
  BY <1>4, <1>5 DEF WorkInv, PrInv
<1>8. ASSUME NEW p \in Sent', NEW q \in Sent', Alone(p.issue), p.issue = q.issue PROVE p = q
  <2>1. p \in Sent \/ \E i \in sent : p = Opened(i) BY <1>5
  <2>2. q \in Sent \/ \E i \in sent : q = Opened(i) BY <1>5
  <2> QED BY <1>4, <1>6, <1>8, <2>1, <2>2 DEF WorkInv, PrInv
<1>9. PrInv' BY <1>0, <1>1, <1>7, <1>8 DEF PrInv, Sound
<1> QED BY <1>3, <1>9 DEF WorkInv

LEMMA LandWork == ASSUME WorkInv, NEW pr \in late, Land(pr) PROVE WorkInv'
<1>1. UNCHANGED <<job, tree, branch, started>> /\ Sent' = Sent /\ prs \subseteq prs'
  BY DEF Land, Sent, wave
<1>2. \A i \in Issues : Owned(i)' /\ (Alone(i) => KeepsWell(i)')
  BY <1>1, SameOwned, SameKeeps, StaysTree DEF WorkInv
<1>3. PrInv' BY <1>1, QuietPrs DEF WorkInv
<1> QED BY <1>2, <1>3 DEF WorkInv

LEMMA WorkInductive == BaseInv /\ WorkInv /\ [Next]_vars => WorkInv'
<1> SUFFICES ASSUME BaseInv, WorkInv, [Next]_vars PROVE WorkInv'
  OBVIOUS
<1>1. CASE UNCHANGED vars
  <2>1. UNCHANGED <<job, tree, branch, started, prs>> /\ Sent' = Sent
    BY <1>1 DEF vars, wave, github, Sent
  <2>2. \A i \in Issues : Owned(i)' /\ (Alone(i) => KeepsWell(i)')
    BY <2>1, SameOwned, SameKeeps, StaysTree DEF WorkInv
  <2>3. PrInv' BY <2>1, QuietPrs DEF WorkInv
  <2> QED BY <2>2, <2>3 DEF WorkInv
<1>2. CASE \E i \in Issues : Worker(i) BY <1>2, WorkerKeepsWell, WorkerPrs DEF WorkInv
<1> QED BY <1>1, <1>2, TaskWork, RestartWork, LandWork DEF Next

LEMMA WorkHolds == Spec => []WorkInv
  BY BaseHolds, InitWork, WorkInductive, PTL DEF Spec

\* Every pull request of an issue with a work directory of its own holds the
\* diff TrustGate found safe, made, but for what tests wrote, of patches of its
\* issue that Smith approved or wrote, unless a reset of its tree failed.  Other
\* issues may share directories.
THEOREM PublishedWorkWasReviewed == Spec => []PublishedWorkIsReviewed
<1>1. WorkInv => PublishedWorkIsReviewed
  BY DEF WorkInv, PrInv, Sent, Sound, Written, PublishedWorkIsReviewed
<1> QED BY <1>1, WorkHolds, PTL

\* A ready pull request of an issue with a work directory of its own holds, but
\* for what tests wrote, exactly what passed them.
THEOREM ReadyWorkPassedTests == Spec => []ReadyPrsPassedTests
<1>1. WorkInv => ReadyPrsPassedTests
  BY DEF WorkInv, PrInv, Sent, Sound, Written, ReadyPrsPassedTests
<1> QED BY <1>1, WorkHolds, PTL

\* Every issue has a work directory of its own.
DistinctPaths == \A i \in Issues : Alone(i)

\* Where issues have work directories of their own, an issue gets one pull
\* request, for any number of runs, failed reads, lost answers and restarts.
THEOREM IssuesGetOnePr == ASSUME DistinctPaths PROVE Spec => []OnePrPerIssue
<1>1. BaseInv /\ WorkInv => OnePrPerIssue
  BY DEF BaseInv, GithubType, Pulls, DistinctPaths, WorkInv, PrInv, Sent, OnePrPerIssue
<1> QED BY <1>1, BaseHolds, WorkHolds, PTL
-----------------------------------------------------------------------------
(* What runs and attempts report *)

\* Whoever has posted has a pull request, whoever works was scheduled, rows of
\* later runs do not exist, and a run under way has not been reported.
ReportInv ==
  /\ \A i \in Issues : job[i].at = "posted" => Published(started, i)
  /\ \A i \in Issues : job[i].at \notin {"none", "joined"} => i \in taken[started]
  /\ \A r \in Runs, i \in Issues : attempt[r][i] = "fixed" => Published(r, i) /\ i \in taken[r]
  /\ \A r \in Runs : r > started => taken[r] = {} /\ run[r].status = "absent"
  /\ phase = "scoring" => taken[started] = {}
  /\ phase # "idle" => run[started].status \in {"absent", "running"}

ReportOf(r) == ~run[r].webhook =>
  /\ run[r].status = "done" => \A i \in taken[r] : Published(r, i)
  /\ run[r].status = "partial" => \E i \in taken[r] : Published(r, i)

RowsInv == ReportInv /\ \A r \in Runs : ReportOf(r)

LEMMA PrsStay == ASSUME prs \subseteq prs', NEW r, NEW i, Published(r, i) PROVE Published(r, i)'
  BY DEF Published

LEMMA WorkerPosts ==
  ASSUME BaseInv, NEW i \in Issues, Worker(i)
  PROVE  /\ prs \subseteq prs'
         /\ job'[i].at = "posted" => Published(started, i)' \/ job[i].at = "posted"
<1> USE DEF BaseInv
<1>1. CASE Push(i)
  <2>1. To(i, "posting").at = "posting" BY ToFields, StepNames
  <2>2. job'[i].at = "posting" /\ prs' = prs BY <1>1, <2>1, GoesTo DEF Push
  <2> QED BY <2>2
<1>2. CASE Post(i)
  <2>1. Opened(i).issue = i /\ Opened(i).run = started BY DEF Opened
  <2>2. prs' = prs \cup {Opened(i)} /\ started' = started BY <1>2 DEF Post, wave
  <2> QED BY <2>1, <2>2 DEF Published
<1>3. CASE ~Push(i) /\ ~Post(i)
  BY <1>3, StepsToPublic, WorkerKeepsGithub DEF PublicSteps, github
<1> QED BY <1>1, <1>2, <1>3

\* Only Record stores an attempt as fixed.
LEMMA StoresFixed ==
  ASSUME AttemptType, NEW i \in Issues, NEW status, StoreAttempt(i, status),
         NEW r \in Runs, NEW k \in Issues, attempt'[r][k] = "fixed"
  PROVE  attempt[r][k] = "fixed" \/ (status = "fixed" /\ r = started /\ k = i)
  BY DEF StoreAttempt, AttemptType

LEMMA WorkerFixes ==
  ASSUME RowType, NEW i \in Issues, Worker(i), NEW r \in Runs, NEW k \in Issues,
         attempt'[r][k] = "fixed"
  PROVE  attempt[r][k] = "fixed" \/ (job[i].at = "posted" /\ r = started /\ k = i)
<1> USE DEF RowType
<1>1. CASE Check(i)
  <2>1. \/ \E status \in {"skipped", "absent", "running"} :
             attempt' = [attempt EXCEPT ![started][i] = status]
        \/ attempt' = attempt
    BY <1>1 DEF Check
  <2> QED BY <2>1 DEF AttemptType
<1>2. CASE Begin(i) \/ OpenCall(i) \/ Test(i) \/ Retry(i) \/ Redraft(i) \/ Reapply(i) \/ Rereview(i)
             \/ Push(i) \/ Post(i)
  BY <1>2 DEF Begin, OpenCall, Test, Retry, Redraft, Reapply, Rereview, Push, Post
<1>3. CASE Clone(i) \/ Cancel(i) \/ Judge(i) \/ PublishFails(i)
  BY <1>3, StoresFixed DEF Clone, Cancel, Judge, PublishFails, End
<1>4. CASE Stage(i)
  <2>1. UNCHANGED attempt \/ \E status \in {"skipped", "error"} : End(i, status)
    BY <1>4 DEF Stage
  <2> QED BY <2>1, StoresFixed DEF End
<1>5. CASE Select(i) \/ Draft(i) \/ Apply(i) \/ Review(i)
  BY <1>5, StoresFixed DEF Select, Draft, Apply, Review, End
<1>6. CASE Record(i) BY <1>6, StoresFixed DEF Record, End
<1> QED BY <1>1, <1>2, <1>3, <1>4, <1>5, <1>6 DEF Worker

LEMMA InitRows == Init => RowsInv
  BY DEF Init, RowsInv, ReportInv, ReportOf, NoJob, Runs

LEMMA StartRows == ASSUME BaseInv, RowsInv, NEW webhook \in BOOLEAN, StartRun(webhook) PROVE RowsInv'
<1> USE DEF BaseInv
<1>0. /\ started < MaxRuns /\ started' = started + 1 /\ phase' = "scoring"
      /\ UNCHANGED <<taken, prs, attempt>>
      /\ \/ run' = [run EXCEPT ![started + 1] =
                      [webhook |-> webhook, status |-> IF webhook THEN "absent" ELSE "running"]]
         \/ run' = run
  BY DEF StartRun, github
<1>1. \A i \in Issues : job'[i].at = "none" BY DEF StartRun, NoJob
<1>2. started + 1 \in Runs /\ started \in Nat BY <1>0, NumbersOfRuns DEF RunType, Runs
<1>3. \A r \in Runs : r # started + 1 => run'[r] = run[r] BY <1>0 DEF RunType
<1>4. taken[started + 1] = {} /\ run[started + 1].status = "absent"
  BY <1>2 DEF RowsInv, ReportInv
<1>5. run'[started + 1].status \in {"absent", "running"}
  BY <1>0, <1>2, <1>4 DEF RunType
<1>6. \A r \in Runs : r \in Nat /\ (r > started + 1 => r > started /\ r # started + 1)
  BY <1>2 DEF Runs
<1>7. \A r \in Runs : r > started' => taken'[r] = {} /\ run'[r].status = "absent"
  BY <1>0, <1>3, <1>6 DEF RowsInv, ReportInv
<1>8. ReportInv' BY <1>0, <1>1, <1>4, <1>5, <1>7 DEF RowsInv, ReportInv, Published
<1>9. \A r \in Runs : ReportOf(r)'
  BY <1>0, <1>3, <1>5 DEF RowsInv, ReportOf, Published
<1> QED BY <1>8, <1>9 DEF RowsInv

\* The row of the run, when its status is stored.
LEMMA StoresStatus ==
  ASSUME RunType, NEW status, started \in Runs, run[started].status \in {"absent", "running"},
         \/ run' = run
         \/ run' = [run EXCEPT ![started].status = IF @ = "absent" THEN @ ELSE status]
  PROVE  /\ \A r \in Runs : run'[r].webhook = run[r].webhook
         /\ \A r \in Runs : r # started => run'[r] = run[r]
         /\ run'[started].status \in {"absent", "running", status}
  BY DEF RunType
LEMMA ScoreRows == ASSUME BaseInv, RowsInv, Score PROVE RowsInv'
<1> USE DEF BaseInv
<1>0. /\ phase = "scoring" /\ started \in Runs
      /\ UNCHANGED <<started, taken, prs, attempt, job>>
      /\ \/ phase' \in {"idle", "wave"} /\ run' = run
         \/ phase' = "wave" /\ run' = [run EXCEPT ![started].status = "running"]
         \/ phase' = "idle" /\ run' = [run EXCEPT ![started].status = IF @ = "absent" THEN @ ELSE "done"]
  BY DEF Score, Close, StoreRun, WaveInv, github
<1>1. run[started].status \in {"absent", "running"} /\ taken[started] = {}
  BY <1>0 DEF RowsInv, ReportInv
<1>2. /\ \A r \in Runs : run'[r].webhook = run[r].webhook
      /\ \A r \in Runs : r # started => run'[r] = run[r]
      /\ run'[started].status \in {"absent", "running", "done"}
      /\ phase' # "idle" => run'[started].status \in {"absent", "running"}
  BY <1>0, <1>1 DEF RunType
<1>3. \A r \in Runs : r > started => r # started BY <1>0 DEF Runs
<1>4. ReportInv' BY <1>0, <1>2, <1>3 DEF RowsInv, ReportInv, Published
<1>5. \A r \in Runs : ReportOf(r)' BY <1>0, <1>1, <1>2 DEF RowsInv, ReportOf, Published
<1> QED BY <1>4, <1>5 DEF RowsInv

LEMMA WaveRows == ASSUME BaseInv, RowsInv, NEW i \in Issues, Schedule(i) \/ Join(i) PROVE RowsInv'
<1> USE DEF BaseInv
<1>0. /\ phase = "wave" /\ phase' = "wave" /\ started \in Runs
      /\ UNCHANGED <<started, prs, attempt, run>>
      /\ \/ taken' = [taken EXCEPT ![started] = @ \cup {i}] /\ job' = [job EXCEPT ![i].at = "queued"]
         \/ taken' = taken /\ job' = [job EXCEPT ![i].at = "joined"]
  BY DEF Schedule, Join, MayTake, WaveInv, github
<1>1. \A k \in Issues : k # i => job'[k] = job[k] BY <1>0 DEF JobInv
<1>2. job'[i].at \in {"queued", "joined"} /\ (job'[i].at = "queued" => i \in taken'[started])
  <2>1. job'[i].at \in {"queued", "joined"} BY <1>0 DEF JobInv, JobRec
  <2>2. taken' = taken => job'[i].at = "joined" \/ i \in taken'[started]
    <3>1. CASE job' = [job EXCEPT ![i].at = "joined"] BY <3>1 DEF JobInv, JobRec
    <3>2. CASE taken' = [taken EXCEPT ![started] = @ \cup {i}] BY <1>0, <3>2 DEF RunType
    <3> QED BY <1>0, <3>1, <3>2
  <2> QED BY <1>0, <2>1, <2>2 DEF RunType
<1>3. \A r \in Runs : taken[r] \subseteq taken'[r] /\ (r # started => taken'[r] = taken[r])
  BY <1>0 DEF RunType
<1>4. \A r \in Runs : r > started => r # started BY <1>0 DEF Runs
<1>5. run[started].status \in {"absent", "running"} BY <1>0 DEF RowsInv, ReportInv
<1>6. ReportInv' BY <1>0, <1>1, <1>2, <1>3, <1>4 DEF RowsInv, ReportInv, Published
<1>7. \A r \in Runs : ReportOf(r)' BY <1>0, <1>3, <1>5 DEF RowsInv, ReportOf, Published
<1> QED BY <1>6, <1>7 DEF RowsInv

\* A hunt stored as done or partial compares what is fixed with what it took.
LEMMA WaveStatusIsTrue ==
  ASSUME BaseInv, RowsInv, started \in Runs, NEW fixed \in {Cardinality(Fixed), 0}
  PROVE  /\ WaveStatus(fixed) = "done" => \A i \in taken[started] : Published(started, i)
         /\ WaveStatus(fixed) = "partial" => \E i \in taken[started] : Published(started, i)
<1> USE DEF BaseInv
<1>0. taken[started] \subseteq Issues BY DEF RunType
<1>1. \A i \in Fixed : i \in taken[started] /\ Published(started, i)
  BY DEF Fixed, RowsInv, ReportInv
<1>2. IsFiniteSet(taken[started]) /\ IsFiniteSet(Fixed)
  BY <1>0, FS_Subset, ReaperConstants DEF Fixed
<1>3. WaveStatus(fixed) = "done" => taken[started] # {} /\ fixed = Cardinality(taken[started])
  BY DEF WaveStatus
<1>4. WaveStatus(fixed) = "partial" => fixed > 0 BY DEF WaveStatus
<1>5. CASE fixed = Cardinality(Fixed)
  <2>1. Fixed \subseteq taken[started] BY <1>1
  <2>2. WaveStatus(fixed) = "done" => Fixed = taken[started] BY <1>2, <1>3, <1>5, <2>1, FS_Subset
  <2>3. Fixed = {} => Cardinality(Fixed) = 0 BY <1>2, FS_EmptySet
  <2>4. WaveStatus(fixed) = "partial" => Fixed # {} BY <1>4, <1>5, <2>3
  <2> QED BY <1>1, <2>2, <2>4
<1>6. CASE fixed = 0
  <2>1. Cardinality(taken[started]) = 0 => taken[started] = {} BY <1>2, FS_EmptySet
  <2> QED BY <1>3, <1>4, <1>6, <2>1
<1> QED BY <1>5, <1>6

LEMMA FinishRows == ASSUME BaseInv, RowsInv, FinishRun PROVE RowsInv'
<1> USE DEF BaseInv
<1>0. /\ phase = "wave" /\ phase' = "idle" /\ started \in Runs
      /\ UNCHANGED <<started, taken, prs, attempt, job>>
  BY DEF FinishRun, Close, WaveInv, github
<1>1. run[started].status \in {"absent", "running"} BY <1>0 DEF RowsInv, ReportInv
<1>2. PICK status :
        /\ \/ run' = run
           \/ run' = [run EXCEPT ![started].status = IF @ = "absent" THEN @ ELSE status]
        /\ run[started].webhook \/ \E fixed \in {Cardinality(Fixed), 0} : status = WaveStatus(fixed)
  BY DEF FinishRun, StoreRun
<1>3. /\ \A r \in Runs : run'[r].webhook = run[r].webhook
      /\ \A r \in Runs : r # started => run'[r] = run[r]
      /\ run'[started].status \in {"absent", "running", status}
  BY <1>0, <1>1, <1>2, StoresStatus
<1>4. ~run[started].webhook =>
        /\ status = "done" => \A i \in taken[started] : Published(started, i)
        /\ status = "partial" => \E i \in taken[started] : Published(started, i)
  BY <1>0, <1>2, WaveStatusIsTrue
<1>5. \A r \in Runs : r > started => r # started BY <1>0 DEF Runs
<1>6. ReportInv' BY <1>0, <1>3, <1>5 DEF RowsInv, ReportInv, Published
<1>7. \A r, i : Published(r, i)' <=> Published(r, i) BY <1>0 DEF Published
<1>8. ASSUME NEW r \in Runs, r = started PROVE ReportOf(r)'
  BY <1>0, <1>1, <1>3, <1>4, <1>7, <1>8 DEF ReportOf
<1>9. \A r \in Runs : r # started => ReportOf(r)' BY <1>0, <1>3, <1>7 DEF RowsInv, ReportOf
<1>10. \A r \in Runs : ReportOf(r)' BY <1>8, <1>9
<1> QED BY <1>6, <1>10 DEF RowsInv

LEMMA RestartRows == ASSUME BaseInv, RowsInv, Restart PROVE RowsInv'
<1> USE DEF BaseInv
<1>0. PICK old \in SUBSET {r \in Runs : run[r].status = "running"} :
        run' = [r \in Runs |-> IF r \in old THEN [run[r] EXCEPT !.status = "crashed"] ELSE run[r]]
  BY DEF Restart
<1>1. UNCHANGED <<started, taken, prs, attempt>> /\ phase' = "idle" BY DEF Restart, Close
<1>2. \A i \in Issues : job'[i].at = "none" BY DEF Restart, NoJob
<1>3. \A r \in Runs : run'[r].webhook = run[r].webhook
        /\ (run'[r] = run[r] \/ (run[r].status = "running" /\ run'[r].status = "crashed"))
  BY <1>0 DEF RunType
<1>4. ReportInv' BY <1>1, <1>2, <1>3 DEF RowsInv, ReportInv, Published
<1>5. \A r \in Runs : ReportOf(r)' BY <1>1, <1>3 DEF RowsInv, ReportOf, Published
<1> QED BY <1>4, <1>5 DEF RowsInv

LEMMA WorkerReports == ASSUME BaseInv, RowsInv, NEW i \in Issues, Worker(i) PROVE RowsInv'
<1> USE DEF BaseInv
<1>0. /\ UNCHANGED <<started, taken, phase, run>> /\ prs \subseteq prs'
      /\ job[i].at \notin {"none", "joined"}
  BY WorkerKeepsRun, WorkerPosts, WorkerIsLive DEF wave
<1>1. \A k \in Issues : k # i => job'[k] = job[k] BY CallsOfOthers
<1>2. \A r, k : Published(r, k) => Published(r, k)' BY <1>0, PrsStay
<1>3. ASSUME NEW k \in Issues, job'[k].at = "posted" PROVE Published(started, k)'
  <2>1. job[k].at = "posted" => Published(started, k) BY DEF RowsInv, ReportInv
  <2>2. Published(started, k) => Published(started, k)' BY <1>0 DEF Published
  <2> QED BY <1>1, <1>3, <2>1, <2>2, WorkerPosts
<1>4. i \in taken[started] BY <1>0 DEF RowsInv, ReportInv
<1>5. ASSUME NEW r \in Runs, NEW k \in Issues, attempt'[r][k] = "fixed"
      PROVE  Published(r, k)' /\ k \in taken[r]
  <2>1. attempt[r][k] = "fixed" \/ (job[i].at = "posted" /\ r = started /\ k = i)
    BY <1>5, WorkerFixes
  <2> QED BY <1>2, <1>4, <2>1 DEF RowsInv, ReportInv
<1>6. \A k \in Issues : job'[k].at \notin {"none", "joined"} => k \in taken[started]
  BY <1>1, <1>4 DEF RowsInv, ReportInv
<1>8. ReportInv' BY <1>0, <1>3, <1>5, <1>6 DEF RowsInv, ReportInv
<1>9. \A r \in Runs : ReportOf(r)' BY <1>0, <1>2 DEF RowsInv, ReportOf
<1> QED BY <1>8, <1>9 DEF RowsInv

LEMMA SamePrsRows ==
  ASSUME RowsInv, UNCHANGED <<started, taken, phase, run, job, attempt>>, prs \subseteq prs' PROVE RowsInv'
<1>1. \A r, k : Published(r, k) => Published(r, k)' BY PrsStay
<1>2. ReportInv' BY <1>1 DEF RowsInv, ReportInv, Published
<1>3. \A r \in Runs : ReportOf(r)' BY <1>1 DEF RowsInv, ReportOf
<1> QED BY <1>2, <1>3 DEF RowsInv

LEMMA RowsInductive == BaseInv /\ RowsInv /\ [Next]_vars => RowsInv'
<1> SUFFICES ASSUME BaseInv, RowsInv, [Next]_vars PROVE RowsInv'
  OBVIOUS
<1>1. CASE UNCHANGED vars
  BY <1>1, SamePrsRows DEF vars, wave, github
<1>2. CASE \E pr \in late : Land(pr)
  BY <1>2, SamePrsRows DEF Land, wave
<1>3. CASE \E webhook \in BOOLEAN : StartRun(webhook) BY <1>3, StartRows
<1>4. CASE RunStep BY <1>4, ScoreRows, WaveRows, FinishRows DEF RunStep
<1>5. CASE \E i \in Issues : Worker(i) BY <1>5, WorkerReports
<1>6. CASE Restart BY <1>6, RestartRows
<1> QED BY <1>1, <1>2, <1>3, <1>4, <1>5, <1>6 DEF Next

\* An attempt stored as fixed has a pull request of its run, and a hunt stored
\* as done published every issue it took, a partial one at least one, whatever
\* writes fail and whenever the process stops.
THEOREM ReportsOfRunsAreTrue == Spec => []RunReportsAreTrue
<1>1. RowsInv => RunReportsAreTrue BY DEF RowsInv, ReportInv, ReportOf, RunReportsAreTrue
<1> QED BY <1>1, BaseHolds, InitRows, RowsInductive, PTL DEF Spec
-----------------------------------------------------------------------------
(* How far a wave still has to go *)

Loop == 10 * MaxRetries

\* What a worker has ahead of it: its steps come one after the other, a second
\* patch may follow the first, and the steps of a retry come once for each.
Ahead(at, drafts, retry) ==
  CASE at = "queued"      -> 29 + Loop
    [] at = "checking"    -> 28 + Loop
    [] at = "cloning"     -> 27 + Loop
    [] at = "selecting"   -> 26 + Loop
    [] at = "drafting"    -> 25 + Loop
    [] at = "applying"    -> (IF drafts = 1 THEN 24 ELSE 22) + Loop
    [] at = "healing"     -> 23 + Loop
    [] at = "reviewing"   -> 21 + Loop
    [] at = "testing"     -> 20 + Loop
    [] at = "redrafting"  -> 18 + Loop - 10 * retry
    [] at = "reapplying"  -> 17 + Loop - 10 * retry
    [] at = "rereviewing" -> 16 + Loop - 10 * retry
    [] at = "retesting"   -> 15 + Loop - 10 * retry
    [] at = "retrying"    -> 14 + Loop - 10 * retry
    [] at = "staging"     -> 6
    [] at = "judging"     -> 5
    [] at = "pushing"     -> 4
    [] at = "posting"     -> 3
    [] at = "posted"      -> 2
    [] at = "ended"       -> 1
    [] OTHER              -> 0

AheadOf(j) == Ahead(j.at, j.drafts, j.retry)

\* A model call is opened before the step that waits for it ends.
Rank(j) == 2 * AheadOf(j) + (IF j.call THEN 0 ELSE 1)

\* An issue that is not scheduled yet has all of it ahead.
Standing(i) == IF i \in queue THEN 2 * (30 + Loop) ELSE Rank(job[i])

\* A worker's record moves on to n.
Falls(n, j) == AheadOf(n) \in Nat /\ AheadOf(n) < AheadOf(j)

LEMMA LoopBound ==
  /\ Loop \in Nat
  /\ \A n \in 0..MaxRetries : 10 * n \in Nat /\ 10 * n <= Loop
  BY Bounds DEF Loop

\* The measure at each step.
LEMMA Places == \A d, r :
  /\ Ahead("queued", d, r) = 29 + Loop /\ Ahead("checking", d, r) = 28 + Loop
  /\ Ahead("cloning", d, r) = 27 + Loop /\ Ahead("selecting", d, r) = 26 + Loop
  /\ Ahead("drafting", d, r) = 25 + Loop /\ Ahead("healing", d, r) = 23 + Loop
  /\ Ahead("applying", d, r) = (IF d = 1 THEN 24 ELSE 22) + Loop
  /\ Ahead("reviewing", d, r) = 21 + Loop /\ Ahead("testing", d, r) = 20 + Loop
  /\ Ahead("redrafting", d, r) = 18 + Loop - 10 * r /\ Ahead("reapplying", d, r) = 17 + Loop - 10 * r
  /\ Ahead("rereviewing", d, r) = 16 + Loop - 10 * r /\ Ahead("retesting", d, r) = 15 + Loop - 10 * r
  /\ Ahead("retrying", d, r) = 14 + Loop - 10 * r /\ Ahead("staging", d, r) = 6
  /\ Ahead("judging", d, r) = 5 /\ Ahead("pushing", d, r) = 4 /\ Ahead("posting", d, r) = 3
  /\ Ahead("posted", d, r) = 2 /\ Ahead("ended", d, r) = 1
  /\ Ahead("none", d, r) = 0 /\ Ahead("joined", d, r) = 0
  BY DEF Ahead

LEMMA AheadBound ==
  ASSUME NEW j \in JobRec PROVE AheadOf(j) \in Nat /\ AheadOf(j) <= 29 + Loop
<1>1. j.at \in Steps /\ j.retry \in 0..MaxRetries BY DEF JobRec
<1>2. 10 * j.retry \in Nat /\ 10 * j.retry <= Loop /\ Loop \in Nat BY <1>1, LoopBound
<1> QED BY <1>1, <1>2 DEF AheadOf, Ahead, Steps

LEMMA FallsRank ==
  ASSUME NEW j \in JobRec, NEW n, Falls(n, j)
  PROVE  Rank(n) \in Nat /\ Rank(n) < Rank(j)
<1>1. AheadOf(j) \in Nat BY AheadBound
<1> QED BY <1>1 DEF Falls, Rank

\* A failed reset leaves the counters as they are.
LEMMA UncleanFalls ==
  ASSUME NEW n \in JobRec, NEW j, Falls(n, j) PROVE Falls([n EXCEPT !.unclean = TRUE], j)
<1>1. [n EXCEPT !.unclean = TRUE].at = n.at /\ [n EXCEPT !.unclean = TRUE].drafts = n.drafts
      /\ [n EXCEPT !.unclean = TRUE].retry = n.retry /\ [n EXCEPT !.unclean = TRUE].call = n.call
  BY DEF JobRec
<1> QED BY <1>1 DEF Falls, AheadOf

\* The worker ends from wherever it is.
LEMMA EndsFalls ==
  ASSUME JobInv, NEW i \in Issues, Ends(i), job[i].at \notin {"none", "joined", "ended"}
  PROVE  Falls(job'[i], job[i])
<1>1. job'[i] = [NoJob EXCEPT !.at = "ended"] BY DEF Ends, JobInv
<1>2. job'[i].at = "ended" /\ job'[i].call = FALSE BY <1>1 DEF NoJob
<1>3. AheadOf(job'[i]) = 1 BY <1>2 DEF AheadOf, Ahead
<1>4. job[i].at \in Steps /\ job[i].retry \in 0..MaxRetries BY JobOf DEF JobRec
<1>5. 10 * job[i].retry \in Nat /\ 10 * job[i].retry <= Loop /\ Loop \in Nat BY <1>4, LoopBound
<1>6. AheadOf(job[i]) > 1 BY <1>4, <1>5 DEF AheadOf, Ahead, Steps
<1> QED BY <1>2, <1>3, <1>6 DEF Falls

\* After a test the worker retries, once more than before, or stages.
LEMMA TestedFalls ==
  ASSUME NEW j \in JobRec, NEW k \in JobRec, k.retry = j.retry,
         j.at \in {"testing", "retesting", "redrafting", "reapplying"}
  PROVE  Falls(Tested(k), j)
<1>1. Tested(k).at \in {"retrying", "staging"} /\ Tested(k).retry = j.retry /\ Tested(k).call = FALSE
  BY DEF Tested, JobRec
<1>2. j.retry \in 0..MaxRetries BY DEF JobRec
<1>3. 10 * j.retry \in Nat /\ 10 * j.retry <= Loop /\ Loop \in Nat BY <1>2, LoopBound
<1> QED BY <1>1, <1>3, Places DEF Falls, AheadOf

\* The steps of admission.
LEMMA AdmissionFalls ==
  ASSUME JobInv, NEW i \in Issues, Begin(i) \/ Check(i) \/ Clone(i) \/ Cancel(i)
  PROVE  Falls(job'[i], job[i])
<1> USE LoopBound
<1>1. job[i] \in JobRec BY JobOf
<1>2. job[i].at \in {"queued", "checking", "cloning"} \cup CancelPoints
  BY DEF Begin, Check, Clone, Cancel, Stopped
<1>3. CASE Ends(i) BY <1>2, <1>3, EndsFalls DEF CancelPoints
<1>4. ASSUME NEW at \in {"checking", "cloning", "selecting"}, job' = [job EXCEPT ![i].at = at],
             <<job[i].at, at>> \in {<<"queued", "checking">>, <<"checking", "cloning">>,
                                    <<"cloning", "selecting">>}
      PROVE  Falls(job'[i], job[i])
  <2>1. job'[i].at = at BY <1>1, <1>4 DEF JobInv, JobRec
  <2> QED BY <1>4, <2>1, Places DEF Falls, AheadOf
<1> QED BY <1>3, <1>4 DEF Begin, Check, Clone, Cancel, End

\* The first patch, the one that heals it, and their review.
LEMMA PatchFalls ==
  ASSUME JobInv, NEW i \in Issues, Select(i) \/ Draft(i) \/ Apply(i) \/ Review(i)
  PROVE  Falls(job'[i], job[i])
<1> USE LoopBound
<1>1. job[i] \in JobRec /\ Counted(job[i]) BY JobOf
<1>2. CASE Ends(i) BY <1>2, EndsFalls DEF Select, Draft, Apply, Review
<1>3. ASSUME NEW n \in JobRec, Falls(n, job[i]), Goes(i, n) \/ Resets(i, n)
      PROVE  Falls(job'[i], job[i])
  BY <1>3, GoesTo, ResetsTo, UncleanFalls
<1>4. CASE Select(i)
  <2>1. /\ To(i, "drafting") \in JobRec /\ To(i, "drafting").at = "drafting"
        /\ To(i, "drafting").call = FALSE
    BY ToFields, StepNames
  <2>2. Falls(To(i, "drafting"), job[i]) BY <1>4, <2>1, Places DEF Select, Falls, AheadOf
  <2> QED BY <1>3, <1>4, <2>1, <2>2 DEF Select
<1>5. CASE Draft(i)
  <2>1. job[i].drafts <= 1 + 2 * MaxRetries BY <1>1, <1>5, Bounds DEF Draft, Counted, Idle
  <2>2. /\ Drafted(i, "applying") \in JobRec /\ Drafted(i, "applying").at = "applying"
        /\ Drafted(i, "applying").call = FALSE
        /\ Drafted(i, "applying").drafts = job[i].drafts + 1
    BY <2>1, DraftedFields, StepNames
  <2>3. Falls(Drafted(i, "applying"), job[i])
    BY <1>1, <1>5, <2>2, Places DEF Draft, Counted, Idle, Falls, AheadOf
  <2> QED BY <1>2, <1>3, <1>5, <2>2, <2>3 DEF Draft, End
<1>6. CASE Apply(i)
  <2>1. /\ To(i, "reviewing") \in JobRec /\ To(i, "reviewing").at = "reviewing"
        /\ To(i, "healing") \in JobRec /\ To(i, "healing").at = "healing"
    BY ToFields, StepNames
  <2>2. Falls(To(i, "reviewing"), job[i]) BY <1>6, <2>1, Places DEF Apply, Falls, AheadOf
  <2>3. job[i].drafts = 1 => Falls(To(i, "healing"), job[i])
    BY <1>6, <2>1, Places DEF Apply, Falls, AheadOf
  <2> QED BY <1>2, <1>3, <1>6, <2>1, <2>2, <2>3 DEF Apply, End
<1>7. CASE Review(i)
  <2>1. {Patch(i)} \in SUBSET Patches BY <1>7, PatchWell DEF Review, Idle
  <2>2. /\ Approved(i, {Patch(i)}) \in JobRec /\ Approved(i, {Patch(i)}).at = "testing"
        /\ Approved(i, {Patch(i)}).call = FALSE
    BY <2>1, ApprovedFields
  <2>3. Falls(Approved(i, {Patch(i)}), job[i]) BY <1>7, <2>2, Places DEF Review, Falls, AheadOf
  <2> QED BY <1>2, <1>3, <1>7, <2>2, <2>3 DEF Review, End
<1> QED BY <1>4, <1>5, <1>6, <1>7

\* Tests and retries: a round of the loop ends with a retry less to make.
LEMMA RetryFalls ==
  ASSUME JobInv, TreeType, NEW i \in Issues,
         Test(i) \/ Retry(i) \/ Redraft(i) \/ Reapply(i) \/ Rereview(i)
  PROVE  Falls(job'[i], job[i])
<1>1. job[i] \in JobRec /\ Counted(job[i]) /\ job[i].retry \in 0..MaxRetries BY JobOf DEF JobRec
<1>2. 10 * job[i].retry \in Nat /\ 10 * job[i].retry <= Loop /\ Loop \in Nat BY <1>1, LoopBound
<1>3. ASSUME NEW n \in JobRec, Falls(n, job[i]), Goes(i, n) \/ Resets(i, n)
      PROVE  Falls(job'[i], job[i])
  BY <1>3, GoesTo, ResetsTo, UncleanFalls
<1>4. CASE Test(i)
  <2> PICK result \in Results :
             Goes(i, Tested([job[i] EXCEPT !.test = result,
                                           !.passed = IF result = "passed" THEN Tree(i).content ELSE {}]))
    BY <1>4 DEF Test
  <2> DEFINE c == IF result = "passed" THEN Tree(i).content ELSE {}
             t == [job[i] EXCEPT !.test = result, !.passed = c]
  <2>1. c \in SUBSET Patches BY Bounds DEF Tree, TreeType
  <2>2. t \in JobRec /\ t.retry = job[i].retry BY <1>1, <2>1 DEF JobRec
  <2>3. Goes(i, Tested(t)) OBVIOUS
  <2> HIDE DEF t
  <2>4. Falls(Tested(t), job[i]) BY <1>1, <1>4, <2>2, TestedFalls DEF Test
  <2>5. job'[i] = Tested(t) BY <2>3, GoesTo
  <2> QED BY <2>4, <2>5
<1>5. CASE Retry(i)
  <2> DEFINE t == To(i, "redrafting")
             n == [t EXCEPT !.retry = t.retry + 1]
  <2>1. t \in JobRec /\ t.at = "redrafting" /\ t.call = FALSE /\ t.retry = job[i].retry
    BY ToFields, StepNames
  <2>2. job[i].at = "retrying" /\ Resets(i, n) BY <1>5 DEF Retry
  <2>3. t.retry + 1 \in 0..MaxRetries BY <1>1, <2>1, <2>2, Bounds DEF Counted
  <2> HIDE DEF t
  <2>4. n \in JobRec /\ n.at = "redrafting" /\ n.call = FALSE /\ n.retry = job[i].retry + 1
    BY <2>1, <2>3 DEF JobRec
  <2> HIDE DEF n
  <2>5. 10 * n.retry = 10 * job[i].retry + 10 /\ 10 * n.retry <= Loop
    BY <1>1, <2>1, <2>3, <2>4, LoopBound
  <2>6. Falls(n, job[i]) BY <1>2, <2>2, <2>4, <2>5, Places DEF Falls, AheadOf
  <2> QED BY <1>3, <2>2, <2>4, <2>6
<1>6. CASE Redraft(i) \/ Reapply(i)
  <2>1. job[i].at \in {"redrafting", "reapplying"} BY <1>6 DEF Redraft, Reapply
  <2>2. Tested(job[i]) \in JobRec /\ Falls(Tested(job[i]), job[i])
    BY <1>1, <2>1, TestedFalls, TestedWell DEF Counted, Idle
  <2>3. CASE Redraft(i)
    <3>1. job[i].drafts <= 1 + 2 * MaxRetries /\ job[i].at = "redrafting"
      BY <1>1, <2>3, Bounds DEF Redraft, Counted, JobRec
    <3>2. /\ Drafted(i, "reapplying") \in JobRec /\ Drafted(i, "reapplying").at = "reapplying"
          /\ Drafted(i, "reapplying").call = FALSE /\ Drafted(i, "reapplying").retry = job[i].retry
      BY <3>1, DraftedFields, StepNames
    <3>3. Falls(Drafted(i, "reapplying"), job[i]) BY <1>2, <3>1, <3>2, Places DEF Falls, AheadOf
    <3> QED BY <1>3, <2>2, <2>3, <3>2, <3>3 DEF Redraft
  <2>4. CASE Reapply(i)
    <3>1. /\ To(i, "rereviewing") \in JobRec /\ To(i, "rereviewing").at = "rereviewing"
          /\ To(i, "rereviewing").call = FALSE /\ To(i, "rereviewing").retry = job[i].retry
      BY ToFields, StepNames
    <3>2. Falls(To(i, "rereviewing"), job[i])
      BY <1>2, <2>4, <3>1, Places DEF Reapply, Falls, AheadOf
    <3> QED BY <1>3, <2>2, <2>4, <3>1, <3>2 DEF Reapply
  <2> QED BY <1>6, <2>3, <2>4
<1>7. CASE Rereview(i)
  <2>1. job[i].at = "rereviewing" /\ job[i].at \notin Idle BY <1>7 DEF Rereview, Idle
  <2>2. /\ To(i, "staging") \in JobRec /\ To(i, "staging").at = "staging"
        /\ To(i, "staging").call = FALSE
    BY ToFields, StepNames
  <2>3. Falls(To(i, "staging"), job[i]) BY <1>2, <2>1, <2>2, Places DEF Falls, AheadOf
  <2>4. {Patch(i)} \in SUBSET Patches BY <2>1, PatchWell
  <2>5. ASSUME NEW patches \in SUBSET Patches
        PROVE  /\ Reapproved(i, patches) \in JobRec
               /\ Reapproved(i, patches).at = "retesting" /\ Reapproved(i, patches).call = FALSE
               /\ Reapproved(i, patches).drafts = job[i].drafts
               /\ Reapproved(i, patches).retry = job[i].retry
    BY ReapprovedFields
  <2>6. ASSUME NEW n \in JobRec, n.at = "retesting", n.call = FALSE, n.retry = job[i].retry
        PROVE  Falls(n, job[i])
    BY <1>2, <2>1, <2>6, Places DEF Falls, AheadOf
  <2>7. CASE Improves(i)
    <3> DEFINE new == <<i, job[i].drafts + 1>>
               r == Reapproved(i, {Patch(i), new})
               next == [r EXCEPT !.drafts = r.drafts + 1]
    <3>1. job[i].drafts + 1 \in Drafts /\ job[i].drafts + 1 \in 0..(2 + 2 * MaxRetries)
      BY <1>1, <2>1, Bounds DEF Counted, JobRec, Drafts
    <3>2. {Patch(i), new} \in SUBSET Patches BY <2>4, <3>1 DEF Patches
    <3>3. Goes(i, next) \/ Goes(i, [next EXCEPT !.unclean = TRUE]) BY <2>7 DEF Improves
    <3> HIDE DEF new
    <3>4. r \in JobRec /\ r.at = "retesting" /\ r.call = FALSE /\ r.drafts = job[i].drafts
          /\ r.retry = job[i].retry
      BY <2>5, <3>2
    <3> HIDE DEF r
    <3>5. next \in JobRec /\ next.at = "retesting" /\ next.call = FALSE /\ next.retry = job[i].retry
      BY <3>1, <3>4 DEF JobRec
    <3> HIDE DEF next
    <3> QED BY <2>6, <3>3, <3>5, GoesTo, UncleanFalls
  <2>8. Falls(Reapproved(i, {Patch(i)}), job[i]) /\ Reapproved(i, {Patch(i)}) \in JobRec
    BY <2>4, <2>5, <2>6
  <2> QED BY <1>3, <1>7, <2>2, <2>3, <2>7, <2>8 DEF Rereview
<1> QED BY <1>4, <1>5, <1>6, <1>7

\* Staging, judging and publishing.
LEMMA PublicationFalls ==
  ASSUME JobInv, NEW i \in Issues,
         Stage(i) \/ Judge(i) \/ Push(i) \/ Post(i) \/ PublishFails(i) \/ Record(i)
  PROVE  Falls(job'[i], job[i])
<1>1. CASE Ends(i)
  BY <1>1, EndsFalls DEF Stage, Judge, Push, Post, PublishFails, Record
<1>2. ASSUME NEW at \in {"judging", "pushing", "posting", "posted"}
      PROVE  To(i, at) \in JobRec /\ To(i, at).at = at /\ To(i, at).call = FALSE
  <2>1. at \in Steps BY <1>2 DEF Steps
  <2> QED BY <2>1, ToFields
<1>3. ASSUME NEW at \in {"judging", "pushing", "posting", "posted"},
             job'[i].at = at, job'[i].call = FALSE,
             <<job[i].at, at>> \in {<<"staging", "judging">>, <<"judging", "pushing">>,
                                    <<"pushing", "posting">>, <<"posting", "posted">>}
      PROVE  Falls(job'[i], job[i])
  BY <1>3, Places DEF Falls, AheadOf
<1>4. CASE Stage(i) /\ ~Ends(i)
  <2>1. (\E content : job'[i] = [To(i, "judging") EXCEPT !.diff = content]) /\ job[i].at = "staging"
    BY <1>4, GoesTo DEF Stage, End
  <2>2. job'[i].at = "judging" /\ job'[i].call = FALSE BY <1>2, <2>1 DEF JobRec
  <2> QED BY <1>3, <2>1, <2>2
<1>5. CASE Judge(i) /\ ~Ends(i)
  <2>1. job'[i] = [To(i, "pushing") EXCEPT !.judged = job[i].diff] /\ job[i].at = "judging"
    BY <1>5, GoesTo DEF Judge, End
  <2>2. job'[i].at = "pushing" /\ job'[i].call = FALSE BY <1>2, <2>1 DEF JobRec
  <2> QED BY <1>3, <2>1, <2>2
<1>6. CASE Push(i)
  <2>1. job'[i] = To(i, "posting") /\ job[i].at = "pushing" BY <1>6, GoesTo DEF Push
  <2> QED BY <1>2, <1>3, <2>1
<1>7. CASE Post(i)
  <2>1. job'[i] = To(i, "posted") /\ job[i].at = "posting" BY <1>7, GoesTo DEF Post
  <2> QED BY <1>2, <1>3, <2>1
<1> QED BY <1>1, <1>4, <1>5, <1>6, <1>7 DEF PublishFails, Record, End

\* Whatever a worker does, it has less ahead of it then.
LEMMA WorkerFalls ==
  ASSUME JobInv, TreeType, NEW i \in Issues, Worker(i)
  PROVE  Rank(job'[i]) \in Nat /\ Rank(job'[i]) < Rank(job[i])
<1>1. job[i] \in JobRec BY JobOf
<1>2. CASE OpenCall(i)
  <2>1. job'[i] = [job[i] EXCEPT !.call = TRUE] /\ ~job[i].call BY <1>2 DEF OpenCall, JobInv
  <2>2. AheadOf(job'[i]) = AheadOf(job[i]) /\ job'[i].call = TRUE BY <1>1, <2>1 DEF AheadOf, JobRec
  <2> QED BY <1>1, <2>1, <2>2, AheadBound DEF Rank
<1>3. CASE ~OpenCall(i)
  <2>1. Falls(job'[i], job[i])
    BY <1>3, AdmissionFalls, PatchFalls, RetryFalls, PublicationFalls DEF Worker
  <2> QED BY <1>1, <2>1, FallsRank
<1> QED BY <1>2, <1>3

\* A step of a wave: one issue comes nearer to its end and the others stay where
\* they are, or a pull request whose POST was under way appears.
WaveStep ==
  phase = "wave" /\ phase' = "wave" =>
    \/ UNCHANGED <<queue, job>> /\ \E pr \in late : Land(pr)
    \/ \E i \in Issues :
         /\ Standing(i)' \in Nat /\ Standing(i)' < Standing(i)
         /\ \A k \in Issues \ {i} : Standing(k)' = Standing(k)

(***************************************************************************)
(* No wave goes round in circles: every step of a hunt or of a webhook's   *)
(* fix, whether models fail, patches do not apply, tests fail or resets    *)
(* are ignored, brings an issue nearer to its end, by a measure that is a  *)
(* natural number and that nothing raises until the run is over.  What is  *)
(* left of RunsEnd is that somebody may always take a step.                *)
(***************************************************************************)
THEOREM WavesOnlyGoForward == Spec => [][WaveStep]_vars
<1>1. ASSUME BaseInv, [Next]_vars, phase = "wave", phase' = "wave", ~UNCHANGED vars
      PROVE  WaveStep
  <2>0. JobInv /\ TreeType /\ QueueInv /\ WaveInv BY <1>1 DEF BaseInv
  <2>1. ASSUME NEW i \in Issues, Worker(i)  PROVE  WaveStep
    <3>1. queue' = queue /\ i \notin queue
      BY <2>0, <2>1, WorkerKeepsRun, WorkerIsLive DEF wave, QueueInv, NoJob
    <3>2. Rank(job'[i]) \in Nat /\ Rank(job'[i]) < Rank(job[i]) BY <2>0, <2>1, WorkerFalls
    <3>3. \A k \in Issues \ {i} : job'[k] = job[k] BY <2>0, <2>1, WorkerAlone, OthersStay
    <3> QED BY <3>1, <3>2, <3>3 DEF WaveStep, Standing
  <2>2. ASSUME NEW i \in Issues, Schedule(i)  PROVE  WaveStep
    <3>1. i \in queue /\ queue' = queue \ {i} BY <2>2 DEF Schedule
    <3>2. job[i] \in JobRec BY <2>0, JobOf
    <3>3. job'[i] = [job[i] EXCEPT !.at = "queued"] /\ \A k \in Issues \ {i} : job'[k] = job[k]
      BY <2>0, <2>2 DEF Schedule, JobInv
    <3>4. job'[i] \in JobRec BY <3>2, <3>3 DEF JobRec, Steps
    <3>5. Rank(job'[i]) \in Nat /\ Rank(job'[i]) < 2 * (30 + Loop)
      BY <3>4, AheadBound, LoopBound DEF Rank
    <3> QED BY <3>1, <3>3, <3>5 DEF WaveStep, Standing
  <2>3. ASSUME NEW i \in Issues, Join(i)  PROVE  WaveStep
    <3>1. queue' = queue /\ job[i].at = "ended" /\ i \notin queue
      BY <2>0, <2>3 DEF Join, QueueInv, NoJob
    <3>2. job[i] \in JobRec BY <2>0, JobOf
    <3>3. job'[i] = [job[i] EXCEPT !.at = "joined"] /\ \A k \in Issues \ {i} : job'[k] = job[k]
      BY <2>0, <2>3 DEF Join, JobInv
    <3>4. Falls(job'[i], job[i]) BY <3>1, <3>2, <3>3, Places DEF Falls, AheadOf, JobRec
    <3>5. Rank(job'[i]) \in Nat /\ Rank(job'[i]) < Rank(job[i]) BY <3>2, <3>4, FallsRank
    <3> QED BY <3>1, <3>3, <3>5 DEF WaveStep, Standing
  <2>4. CASE \E pr \in late : Land(pr) BY <2>4 DEF Land, wave, WaveStep
  <2>5. ~(\E webhook \in BOOLEAN : StartRun(webhook)) /\ ~Score /\ ~FinishRun /\ ~Restart
    BY <1>1, <2>0 DEF StartRun, Score, FinishRun, Restart, Close, WaveInv
  <2> QED BY <1>1, <2>1, <2>2, <2>3, <2>4, <2>5 DEF Next, RunStep
<1>2. BaseInv /\ [Next]_vars => [WaveStep]_vars BY <1>1 DEF WaveStep
<1> QED BY <1>2, BaseHolds, PTL DEF Spec
=============================================================================
