-------------------------- MODULE EngagementsProofs --------------------------
(***************************************************************************)
(* Theorems about maintainer engagements, for any number of messages,      *)
(* deliveries, decisions and follow-ups.                                   *)
(*                                                                         *)
(* Work and pauses are stored before the engagement is, so a call that is  *)
(* about to write has done what it will claim; a call about a message that *)
(* is no request can only resolve it.  A follow-up that has been let in    *)
(* and not counted is alone, unless two of them overlapped.                *)
(***************************************************************************)
EXTENDS Engagements, FiniteSetTheorems, TLAPS

\* What a delivery is about to store has been done.
DeliveriesAct ==
  \A t \in Deliveries :
    /\ delivery[t].at = "halting" => says[delivery[t].message] = "stop"
    /\ delivery[t].at = "storing" /\ says[delivery[t].message] = "stop"
         => delivery[t].message \in halted

\* What a decision is about to store has been done, and was allowed.
DecisionsAct ==
  \A d \in Decisions :
    /\ decision[d].at \in {"acting", "writing"} =>
         says[decision[d].message] = "request" \/ decision[d].choice = "resolve"
    /\ decision[d].at = "writing" /\ decision[d].choice = "pause"
         => decision[d].message \in halted
    /\ decision[d].at = "writing" /\ decision[d].choice \in {"change", "reply"}
         => <<decision[d].message, decision[d].choice>> \in queued

InboxInv == InboxIsTrue /\ DeliveriesAct /\ DecisionsAct

\* A commit on the branch is that of a job that pushed it.
BranchInv ==
  /\ BranchIsReviewed
  /\ \A k \in DOMAIN branch : branch[k] \in Items => job[branch[k]] = "pushed"

\* While no two follow-ups overlapped, at most one is let in and not counted,
\* and it has an attempt left.
Waiting(i) == i[2] = "change" /\ job[i] = "admitted"
CapInv ==
  /\ AttemptsAreBounded
  /\ ~overlapped => \A i, j \in Items :
       Waiting(i) => count < MaxFollowUps /\ (Waiting(j) => i = j)

-----------------------------------------------------------------------------
(* Types *)

LEMMA InitType == Init => TypeOK
<1> SUFFICES ASSUME Init PROVE TypeOK OBVIOUS
<1>1. <<>> \in Seq(Items \cup {<<"maintainer", "commit">>}) OBVIOUS
<1>2. base \in [Items -> Seq(Items \cup {<<"maintainer", "commit">>})]
  BY <1>1 DEF Init
<1>3. inbox \in [Messages -> Lifecycles] /\ job \in [Items -> JobSteps]
  BY DEF Init, Lifecycles, JobSteps
<1>4. delivery \in [Deliveries ->
           {Idle, Done} \cup [at : {"halting", "storing"}, message : Messages]]
  BY DEF Init
<1>5. decision \in [Decisions ->
           {Idle, Done} \cup [at : {"acting"}, message : Messages, choice : {"pause", "change", "reply"}]
             \cup [at : {"writing"}, message : Messages, choice : Choices]]
  BY DEF Init
<1>6. faults \in 0..MaxFaults BY EngagementConstants DEF Init
<1>7. branch \in Seq(Items \cup {<<"maintainer", "commit">>}) BY <1>1 DEF Init
<1> QED BY <1>2, <1>3, <1>4, <1>5, <1>6, <1>7 DEF Init, TypeOK

LEMMA DeliveryType ==
  ASSUME TypeOK, NEW t \in Deliveries, Webhook(t)
  PROVE  TypeOK'
<1> USE DEF TypeOK, hiveVars, githubVars, reaperVars
<1>1. ASSUME NEW m \in Messages, Receive(t, m) PROVE TypeOK'
  BY <1>1 DEF Receive, Idle, Done
<1>2. CASE StorePause(t)
  <2>1. delivery[t].message \in Messages
    BY <1>2 DEF StorePause, Idle, Done
  <2>2. [delivery[t] EXCEPT !.at = "storing"] \in [at : {"halting", "storing"}, message : Messages]
    BY <1>2 DEF StorePause, Idle, Done
  <2> QED BY <1>2, <2>1, <2>2 DEF StorePause, Pauses
<1>3. CASE StoreReceipt(t)
  <2>1. delivery[t].message \in Messages
    BY <1>3 DEF StoreReceipt, Idle, Done
  <2>2. Initial(says[delivery[t].message]) \in Lifecycles
    BY <2>1, EngagementConstants DEF Initial, Texts, Lifecycles
  <2> QED BY <1>3, <2>1, <2>2 DEF StoreReceipt
<1>4. CASE DeliveryFails(t)
  BY <1>4 DEF DeliveryFails
<1> QED BY <1>1, <1>2, <1>3, <1>4 DEF Webhook

LEMMA DecisionType ==
  ASSUME TypeOK, NEW d \in Decisions, Operator(d)
  PROVE  TypeOK'
<1> USE DEF TypeOK, hiveVars, githubVars, reaperVars
<1>1. ASSUME NEW m \in Messages, NEW choice \in Choices, Decide(d, m, choice) PROVE TypeOK'
  BY <1>1 DEF Decide, Choices, Idle, Done
<1>2. CASE Act(d)
  <2>1. /\ decision[d].message \in Messages
        /\ decision[d].choice \in {"pause", "change", "reply"}
        /\ [decision[d] EXCEPT !.at = "writing"] \in [at : {"writing"}, message : Messages, choice : Choices]
    BY <1>2 DEF Act, Idle, Done, Choices
  <2>2. queued' \in SUBSET Items /\ pause' \in BOOLEAN /\ halted' \in SUBSET Messages
    <3>1. CASE decision[d].choice = "pause"
      BY <1>2, <2>1, <3>1 DEF Act, Pauses
    <3>2. CASE decision[d].choice # "pause"
      <4>1. <<decision[d].message, decision[d].choice>> \in Items
        BY <2>1, <3>2 DEF Items
      <4> QED BY <1>2, <3>2, <4>1 DEF Act
    <3> QED BY <3>1, <3>2
  <2> QED BY <1>2, <2>1, <2>2 DEF Act
<1>3. CASE Write(d)
  <2>1. decision[d].message \in Messages /\ decision[d].choice \in Choices
    BY <1>3 DEF Write, Idle, Done
  <2>2. Result(decision[d].choice) \in Lifecycles
    BY <2>1 DEF Result, Choices, Lifecycles
  <2> QED BY <1>3, <2>1, <2>2 DEF Write
<1>4. CASE DecisionFails(d)
  BY <1>4 DEF DecisionFails
<1> QED BY <1>1, <1>2, <1>3, <1>4 DEF Operator

LEMMA HandlerType ==
  ASSUME TypeOK, NEW i \in Items, Handler(i)
  PROVE  TypeOK'
<1> USE DEF TypeOK, hiveVars, githubVars, reaperVars, JobSteps
<1>1. CASE Clear(i) BY <1>1 DEF Clear
<1>2. CASE Admit(i) BY <1>2 DEF Admit
<1>3. CASE Count(i) BY <1>3, EngagementConstants DEF Count
<1>4. CASE Look(i) BY <1>4 DEF Look
<1>5. CASE CheckOut(i) BY <1>5 DEF CheckOut
<1>6. CASE Judge(i) BY <1>6 DEF Judge
<1>7. CASE Push(i)
  <2>1. Append(branch, i) \in Seq(Items \cup {<<"maintainer", "commit">>})
    OBVIOUS
  <2> QED BY <1>7, <2>1 DEF Push
<1>8. CASE Reply(i) BY <1>8 DEF Reply
<1>9. CASE JobEnds(i) BY <1>9 DEF JobEnds
<1> QED BY <1>1, <1>2, <1>3, <1>4, <1>5, <1>6, <1>7, <1>8, <1>9 DEF Handler

LEMMA OtherType ==
  ASSUME TypeOK, RegisterArtifact \/ Resume \/ OwnerShown \/ MaintainerActs \/ HearStop \/ Poll
  PROVE  TypeOK'
<1> USE DEF TypeOK, hiveVars, githubVars, reaperVars
<1>1. CASE MaintainerActs
  <2>1. Append(branch, <<"maintainer", "commit">>) \in Seq(Items \cup {<<"maintainer", "commit">>})
    OBVIOUS
  <2> QED BY <1>1, <2>1 DEF MaintainerActs
<1> QED BY <1>1 DEF RegisterArtifact, Resume, OwnerShown, HearStop, Poll

LEMMA StepType == TypeOK /\ [Next]_vars => TypeOK'
<1> SUFFICES ASSUME TypeOK, [Next]_vars PROVE TypeOK' OBVIOUS
<1>1. CASE Next BY <1>1, DeliveryType, DecisionType, HandlerType, OtherType DEF Next
<1>2. CASE UNCHANGED vars BY <1>2 DEF vars, hiveVars, githubVars, reaperVars, TypeOK
<1> QED BY <1>1, <1>2

-----------------------------------------------------------------------------
(* The inbox *)

LEMMA InitInbox == Init => InboxInv
  BY DEF Init, InboxInv, InboxIsTrue, DeliveriesAct, DecisionsAct, Idle

LEMMA DeliveryInbox ==
  ASSUME TypeOK, InboxInv, NEW t \in Deliveries, Webhook(t)
  PROVE  InboxInv'
<1> USE DEF InboxInv, hiveVars, githubVars, reaperVars
<1>0. says \in [Messages -> Texts] BY EngagementConstants DEF TypeOK
<1>1. ASSUME NEW m \in Messages, Receive(t, m) PROVE InboxInv'
  BY <1>0, <1>1 DEF Receive, TypeOK, InboxIsTrue, DeliveriesAct, DecisionsAct, Texts
<1>2. CASE StorePause(t)
  <2>1. /\ delivery[t].message \in Messages
        /\ delivery'[t] = [at |-> "storing", message |-> delivery[t].message]
    BY <1>2 DEF StorePause, TypeOK, Idle, Done
  <2>2. halted \subseteq halted' /\ delivery[t].message \in halted'
    BY <1>2 DEF StorePause, Pauses
  <2>3. InboxIsTrue' BY <1>2, <2>2 DEF StorePause, InboxIsTrue
  <2>4. DeliveriesAct' BY <1>2, <2>1, <2>2 DEF StorePause, TypeOK, DeliveriesAct
  <2>5. DecisionsAct' BY <1>2, <2>2 DEF StorePause, DecisionsAct
  <2> QED BY <2>3, <2>4, <2>5
<1>3. CASE StoreReceipt(t)
  <2>1. delivery[t].message \in Messages
    BY <1>3 DEF StoreReceipt, TypeOK, Idle, Done
  <2>2. InboxIsTrue'
    BY <1>0, <1>3, <2>1 DEF StoreReceipt, TypeOK, InboxIsTrue, DeliveriesAct, Initial, Texts
  <2>3. DeliveriesAct' BY <1>3 DEF StoreReceipt, TypeOK, DeliveriesAct, Done
  <2>4. DecisionsAct' BY <1>3 DEF StoreReceipt, DecisionsAct
  <2> QED BY <2>2, <2>3, <2>4
<1>4. CASE DeliveryFails(t)
  BY <1>4 DEF DeliveryFails, TypeOK, InboxIsTrue, DeliveriesAct, DecisionsAct, Done
<1> QED BY <1>1, <1>2, <1>3, <1>4 DEF Webhook

LEMMA DecisionInbox ==
  ASSUME TypeOK, InboxInv, NEW d \in Decisions, Operator(d)
  PROVE  InboxInv'
<1> USE DEF InboxInv, hiveVars, githubVars, reaperVars
<1>0. says \in [Messages -> Texts] BY EngagementConstants DEF TypeOK
<1>1. ASSUME NEW m \in Messages, NEW choice \in Choices, Decide(d, m, choice) PROVE InboxInv'
  <2>1. says[m] = "request" \/ choice = "resolve"
    BY <1>0, <1>1 DEF Decide, Allows, InboxIsTrue, Initial, Texts
  <2>2. InboxIsTrue' /\ DeliveriesAct' BY <1>1 DEF Decide, InboxIsTrue, DeliveriesAct
  <2>3. DecisionsAct' BY <1>1, <2>1 DEF Decide, TypeOK, DecisionsAct
  <2> QED BY <2>2, <2>3
<1>2. CASE Act(d)
  <2>1. /\ decision[d].message \in Messages
        /\ decision[d].choice \in {"pause", "change", "reply"}
        /\ decision'[d] = [at |-> "writing", message |-> decision[d].message,
                            choice |-> decision[d].choice]
    BY <1>2 DEF Act, TypeOK, Idle, Done
  <2>2. /\ halted \subseteq halted' /\ queued \subseteq queued'
        /\ decision[d].choice = "pause" => decision[d].message \in halted'
        /\ decision[d].choice # "pause" =>
             queued' = queued \cup {<<decision[d].message, decision[d].choice>>}
        /\ decision[d].choice = "pause" => queued' = queued
    BY <1>2 DEF Act, Pauses
  <2>3. says[decision[d].message] = "request"
    BY <1>2, <2>1 DEF Act, DecisionsAct
  <2>4. InboxIsTrue'
    <3> SUFFICES ASSUME NEW m \in Messages
                 PROVE  /\ inbox'[m] = "paused" => m \in halted'
                        /\ inbox'[m] = "proposed" =>
                             \E kind \in {"change", "reply"} : <<m, kind>> \in queued'
                        /\ says'[m] # "request" =>
                             /\ \A kind \in {"change", "reply"} : <<m, kind>> \notin queued'
                             /\ inbox'[m] \in {"absent", Initial(says'[m]), "resolved"}
      BY DEF InboxIsTrue
    <3>1. inbox' = inbox /\ says' = says BY <1>2 DEF Act
    <3>2. ASSUME says[m] # "request", NEW kind \in {"change", "reply"}, <<m, kind>> \in queued'
          PROVE  <<m, kind>> \in queued
      BY <2>2, <2>3, <3>2
    <3> QED BY <2>2, <3>1, <3>2 DEF InboxIsTrue
  <2>5. DeliveriesAct' BY <1>2, <2>2 DEF Act, DeliveriesAct
  <2>6. DecisionsAct' BY <1>2, <2>1, <2>2, <2>3 DEF Act, TypeOK, DecisionsAct
  <2> QED BY <2>4, <2>5, <2>6
<1>3. CASE Write(d)
  <2>1. decision[d].message \in Messages /\ decision[d].choice \in Choices
    BY <1>3 DEF Write, TypeOK, Idle, Done
  <2>2. InboxIsTrue'
    BY <1>3, <2>1 DEF Write, TypeOK, InboxIsTrue, DecisionsAct, Result, Choices
  <2>3. DeliveriesAct' BY <1>3 DEF Write, DeliveriesAct
  <2>4. DecisionsAct' BY <1>3 DEF Write, TypeOK, DecisionsAct, Done
  <2> QED BY <2>2, <2>3, <2>4
<1>4. CASE DecisionFails(d)
  BY <1>4 DEF DecisionFails, TypeOK, InboxIsTrue, DeliveriesAct, DecisionsAct, Done
<1> QED BY <1>1, <1>2, <1>3, <1>4 DEF Operator

\* No other step touches the inbox, its calls, or what is queued and halted.
InboxVars == <<says, inbox, delivery, decision, queued, halted>>
LEMMA InboxFrame == InboxInv /\ UNCHANGED InboxVars => InboxInv'
  BY DEF InboxVars, InboxInv, InboxIsTrue, DeliveriesAct, DecisionsAct

LEMMA OthersKeepInbox ==
  ASSUME NEW i \in Items, Handler(i) PROVE UNCHANGED InboxVars
  BY DEF Handler, Clear, Admit, Count, Look, CheckOut, Judge, Push, Reply, JobEnds, InboxVars, hiveVars

LEMMA StepInbox == TypeOK /\ InboxInv /\ [Next]_vars => InboxInv'
<1> SUFFICES ASSUME TypeOK, InboxInv, [Next]_vars PROVE InboxInv' OBVIOUS
<1>1. ASSUME NEW t \in Deliveries, Webhook(t) PROVE InboxInv' BY <1>1, DeliveryInbox
<1>2. ASSUME NEW d \in Decisions, Operator(d) PROVE InboxInv' BY <1>2, DecisionInbox
<1>3. ASSUME NEW i \in Items, Handler(i) PROVE InboxInv'
  BY <1>3, OthersKeepInbox, InboxFrame
<1>4. CASE RegisterArtifact \/ Resume \/ OwnerShown \/ MaintainerActs \/ HearStop \/ Poll
  BY <1>4, InboxFrame DEF RegisterArtifact, Resume, OwnerShown, MaintainerActs, HearStop, Poll,
     InboxVars, hiveVars
<1>5. CASE UNCHANGED vars BY <1>5, InboxFrame DEF vars, hiveVars, InboxVars
<1> QED BY <1>1, <1>2, <1>3, <1>4, <1>5 DEF Next

-----------------------------------------------------------------------------
(* The branch *)

Pushed == Items \cup {<<"maintainer", "commit">>}

LEMMA ForeignCommit == <<"maintainer", "commit">> \notin Items
  BY DEF Items

\* A commit on top leaves what lies below each commit as it is.
LEMMA AppendKeepsPrefixes ==
  ASSUME NEW S, NEW s \in Seq(S), NEW x \in S
  PROVE  /\ Append(s, x) \in Seq(S)
         /\ DOMAIN Append(s, x) = DOMAIN s \cup {Len(s) + 1}
         /\ Len(s) + 1 \notin DOMAIN s
         /\ Append(s, x)[Len(s) + 1] = x
         /\ SubSeq(Append(s, x), 1, (Len(s) + 1) - 1) = s
         /\ \A k \in DOMAIN s : /\ Append(s, x)[k] = s[k]
                                /\ SubSeq(Append(s, x), 1, k - 1) = SubSeq(s, 1, k - 1)
  OBVIOUS

LEMMA InitBranch == Init => BranchInv
  BY DEF Init, BranchInv, BranchIsReviewed

\* A job that neither was nor is pushed may move on, and check out what it likes.
LEMMA JobMoves ==
  ASSUME TypeOK, BranchInv, NEW i \in Items, NEW step \in JobSteps \ {"pushed"},
         job[i] # "pushed", job' = [job EXCEPT ![i] = step], branch' = branch,
         \A j \in Items : j # i => base'[j] = base[j]
  PROVE  BranchInv'
<1>1. \A j \in Items : job'[j] = "pushed" <=> job[j] = "pushed" BY DEF TypeOK
<1>2. \A k \in DOMAIN branch : branch[k] \in Items => branch[k] # i BY DEF BranchInv
<1>3. \A k \in DOMAIN branch' : branch'[k] \in Items =>
        base'[branch'[k]] = SubSeq(branch', 1, k - 1) /\ job'[branch'[k]] = "pushed"
  BY <1>1, <1>2 DEF BranchInv, BranchIsReviewed
<1>4. \A j \in Items : job'[j] = "pushed" => \E k \in DOMAIN branch' : branch'[k] = j
  BY <1>1 DEF BranchInv, BranchIsReviewed
<1> QED BY <1>3, <1>4 DEF BranchInv, BranchIsReviewed

LEMMA PushKeeps ==
  ASSUME TypeOK, BranchInv, NEW i \in Items, Push(i)
  PROVE  BranchInv'
<1> DEFINE n == Len(branch) + 1
<1>1. i \in Pushed /\ branch \in Seq(Pushed) BY DEF TypeOK, Pushed
<1>2. /\ branch' = Append(branch, i) /\ base' = base /\ job' = [job EXCEPT ![i] = "pushed"]
      /\ base[i] = branch /\ job[i] # "pushed"
  BY DEF Push, reaperVars
<1>3. /\ DOMAIN branch' = DOMAIN branch \cup {n}
      /\ branch'[n] = i /\ SubSeq(branch', 1, n - 1) = base'[i]
      /\ \A k \in DOMAIN branch : /\ branch'[k] = branch[k]
                                  /\ SubSeq(branch', 1, k - 1) = SubSeq(branch, 1, k - 1)
  BY <1>1, <1>2, AppendKeepsPrefixes
<1>4. \A j \in Items : job'[j] = "pushed" <=> job[j] = "pushed" \/ j = i
  BY <1>2 DEF TypeOK
<1>5. \A k \in DOMAIN branch' : branch'[k] \in Items =>
        base'[branch'[k]] = SubSeq(branch', 1, k - 1) /\ job'[branch'[k]] = "pushed"
  BY <1>2, <1>3, <1>4 DEF BranchInv, BranchIsReviewed
<1>6. \A j \in Items : job'[j] = "pushed" => \E k \in DOMAIN branch' : branch'[k] = j
  BY <1>3, <1>4 DEF BranchInv, BranchIsReviewed
<1> QED BY <1>5, <1>6 DEF BranchInv, BranchIsReviewed

LEMMA MaintainersKeep ==
  ASSUME TypeOK, BranchInv, MaintainerActs
  PROVE  BranchInv'
<1> DEFINE x == <<"maintainer", "commit">>
           n == Len(branch) + 1
<1>1. job' = job /\ base' = base BY DEF MaintainerActs, reaperVars
<1>2. CASE branch' = branch BY <1>1, <1>2 DEF BranchInv, BranchIsReviewed
<1>3. CASE branch' = Append(branch, x)
  <2>1. x \in Pushed /\ branch \in Seq(Pushed) BY DEF TypeOK, Pushed
  <2>2. /\ DOMAIN branch' = DOMAIN branch \cup {n} /\ branch'[n] = x
        /\ \A k \in DOMAIN branch : /\ branch'[k] = branch[k]
                                    /\ SubSeq(branch', 1, k - 1) = SubSeq(branch, 1, k - 1)
    BY <1>3, <2>1, AppendKeepsPrefixes
  <2>3. \A k \in DOMAIN branch' : branch'[k] \in Items =>
          base'[branch'[k]] = SubSeq(branch', 1, k - 1) /\ job'[branch'[k]] = "pushed"
    BY <1>1, <2>2, ForeignCommit DEF BranchInv, BranchIsReviewed
  <2>4. \A j \in Items : job'[j] = "pushed" => \E k \in DOMAIN branch' : branch'[k] = j
    BY <1>1, <2>2 DEF BranchInv, BranchIsReviewed
  <2> QED BY <2>3, <2>4 DEF BranchInv, BranchIsReviewed
<1> QED BY <1>2, <1>3 DEF MaintainerActs

LEMMA BranchFrame == BranchInv /\ UNCHANGED <<branch, job, base>> => BranchInv'
  BY DEF BranchInv, BranchIsReviewed

LEMMA StepBranch == TypeOK /\ BranchInv /\ [Next]_vars => BranchInv'
<1> SUFFICES ASSUME TypeOK, BranchInv, [Next]_vars PROVE BranchInv' OBVIOUS
<1> USE DEF hiveVars, githubVars, reaperVars
<1>1. ASSUME NEW t \in Deliveries, Webhook(t) PROVE BranchInv'
  BY <1>1, BranchFrame DEF Webhook, Receive, StorePause, StoreReceipt, DeliveryFails
<1>2. ASSUME NEW d \in Decisions, Operator(d) PROVE BranchInv'
  BY <1>2, BranchFrame DEF Operator, Decide, Act, Write, DecisionFails
<1>3. ASSUME NEW i \in Items, Handler(i) PROVE BranchInv'
  <2> USE DEF JobSteps
  <2>1. CASE Push(i) BY <2>1, PushKeeps
  <2>2. CASE CheckOut(i)
    <3>1. \A j \in Items : j # i => base'[j] = base[j] BY <2>2 DEF CheckOut, TypeOK
    <3> QED BY <2>2, <3>1, JobMoves DEF CheckOut
  <2>3. CASE Clear(i) BY <2>3, JobMoves DEF Clear
  <2>4. CASE Admit(i) BY <2>4, JobMoves DEF Admit
  <2>5. CASE Count(i) BY <2>5, JobMoves DEF Count
  <2>6. CASE Look(i) BY <2>6, JobMoves DEF Look
  <2>7. CASE Judge(i) BY <2>7, JobMoves DEF Judge
  <2>8. CASE Reply(i) BY <2>8, JobMoves DEF Reply
  <2>9. CASE JobEnds(i) BY <2>9, JobMoves DEF JobEnds
  <2> QED BY <1>3, <2>1, <2>2, <2>3, <2>4, <2>5, <2>6, <2>7, <2>8, <2>9 DEF Handler
<1>4. CASE MaintainerActs BY <1>4, MaintainersKeep
<1>5. CASE RegisterArtifact \/ Resume \/ OwnerShown \/ HearStop \/ Poll
  BY <1>5, BranchFrame DEF RegisterArtifact, Resume, OwnerShown, HearStop, Poll
<1>6. CASE UNCHANGED vars BY <1>6, BranchFrame DEF vars
<1> QED BY <1>1, <1>2, <1>3, <1>4, <1>5, <1>6 DEF Next

-----------------------------------------------------------------------------
(* The cap *)

LEMMA FiniteAttempts ==
  /\ IsFiniteSet(Attempts) /\ Cardinality(Attempts) \in Nat
  /\ \A A \in SUBSET Attempts : Cardinality(A) <= Cardinality(Attempts)
  /\ \A i : Cardinality(Attempts \cup {i}) <= Cardinality(Attempts) + 1
<1>1. IsFiniteSet(Attempts) BY FiniteItems, FS_Subset DEF Attempts
<1> QED BY <1>1, FS_Subset, FS_AddElement, FS_CardinalityType

LEMMA InitCap == Init => CapInv
<1> SUFFICES ASSUME Init PROVE CapInv OBVIOUS
<1>1. Attempts = {} BY DEF Init, Attempts
<1> QED BY <1>1, FS_EmptySet, EngagementConstants DEF Init, CapInv, AttemptsAreBounded, Waiting

\* Whatever neither lets a follow-up in nor counts one.
LEMMA CapFrame ==
  ASSUME TypeOK, CapInv, UNCHANGED <<count, faults, overlapped>>,
         Attempts' \subseteq Attempts, \A i \in Items : Waiting(i)' => Waiting(i)
  PROVE  CapInv'
<1>1. Cardinality(Attempts') <= Cardinality(Attempts) BY FiniteAttempts
<1>2. Cardinality(Attempts') \in Nat
  BY FiniteAttempts, FS_Subset, FS_CardinalityType
<1>3. Cardinality(Attempts') <= count' + faults'
  BY <1>1, <1>2, FiniteAttempts DEF TypeOK, CapInv, AttemptsAreBounded
<1> QED BY <1>3 DEF CapInv, AttemptsAreBounded

LEMMA JobsFrame ==
  ASSUME TypeOK, CapInv, UNCHANGED <<count, faults, overlapped, job>>
  PROVE  CapInv'
<1>1. Attempts' = Attempts /\ \A i \in Items : Waiting(i)' = Waiting(i)
  BY DEF Attempts, Waiting
<1> QED BY <1>1, CapFrame

LEMMA AdmitCap ==
  ASSUME TypeOK, CapInv, NEW i \in Items, Admit(i)
  PROVE  CapInv'
<1>0. /\ job' = [job EXCEPT ![i] = "admitted"] /\ job[i] = "sent"
      /\ count' = count /\ faults' = faults
  BY DEF Admit
<1>1. Attempts' \subseteq Attempts BY <1>0 DEF TypeOK, Attempts
<1>2. CASE i[2] # "change"
  <2>1. \A j \in Items : Waiting(j)' => Waiting(j) BY <1>0, <1>2 DEF TypeOK, Waiting
  <2> QED BY <1>0, <1>1, <1>2, <2>1, CapFrame DEF Admit
<1>3. CASE i[2] = "change"
  <2>1. /\ count < MaxFollowUps
        /\ ~overlapped' => ~overlapped /\ \A j \in Items : ~Waiting(j)
    BY <1>3 DEF Admit, AcceptsFollowUp, Waiting, TypeOK
  <2>2. \A j \in Items : Waiting(j)' => j = i \/ Waiting(j) BY <1>0 DEF TypeOK, Waiting
  <2>3. Cardinality(Attempts') <= count' + faults'
    <3>1. Cardinality(Attempts') <= Cardinality(Attempts) /\ Cardinality(Attempts') \in Nat
      BY <1>1, FiniteAttempts, FS_Subset, FS_CardinalityType
    <3> QED BY <1>0, <3>1, FiniteAttempts DEF TypeOK, CapInv, AttemptsAreBounded
  <2> QED BY <1>0, <2>1, <2>2, <2>3 DEF CapInv, AttemptsAreBounded
<1> QED BY <1>2, <1>3

LEMMA CountCap ==
  ASSUME TypeOK, CapInv, NEW i \in Items, Count(i)
  PROVE  CapInv'
<1>0. /\ job' = [job EXCEPT ![i] = "counted"] /\ Waiting(i) /\ overlapped' = overlapped
      /\ \/ count' = count + 1 /\ faults' = faults
         \/ count' = count /\ faults' = faults + 1
  BY DEF Count, Waiting
<1>1. Attempts' \subseteq Attempts \cup {i} BY <1>0 DEF TypeOK, Attempts
<1>2. IsFiniteSet(Attempts \cup {i}) BY FiniteAttempts, FS_AddElement
<1>3. /\ Cardinality(Attempts') <= Cardinality(Attempts \cup {i})
      /\ Cardinality(Attempts') \in Nat /\ Cardinality(Attempts \cup {i}) \in Nat
  BY <1>1, <1>2, FS_Subset, FS_CardinalityType
<1>4. Cardinality(Attempts') <= count' + faults'
  <2>1. /\ Cardinality(Attempts) \in Nat /\ count \in Nat /\ faults \in Nat
        /\ Cardinality(Attempts) <= count + faults
    BY FiniteAttempts, EngagementConstants DEF TypeOK, CapInv, AttemptsAreBounded
  <2>2. Cardinality(Attempts \cup {i}) <= Cardinality(Attempts) + 1 BY FiniteAttempts
  <2>3. count' + faults' = count + faults + 1 BY <1>0, <2>1
  <2> QED BY <1>3, <2>1, <2>2, <2>3
<1>5. \A j \in Items : Waiting(j)' => Waiting(j) /\ j # i BY <1>0 DEF TypeOK, Waiting
<1>6. ~overlapped => count < MaxFollowUps /\ \A j \in Items : ~Waiting(j)'
  BY <1>0, <1>5 DEF CapInv
<1>7. ~overlapped' => count' <= MaxFollowUps
  BY <1>0, <1>6, EngagementConstants DEF TypeOK
<1> QED BY <1>0, <1>4, <1>6, <1>7 DEF CapInv, AttemptsAreBounded

LEMMA StepCap == TypeOK /\ CapInv /\ [Next]_vars => CapInv'
<1> SUFFICES ASSUME TypeOK, CapInv, [Next]_vars PROVE CapInv' OBVIOUS
<1> USE DEF hiveVars, githubVars, reaperVars
<1>1. ASSUME NEW t \in Deliveries, Webhook(t) PROVE CapInv'
  BY <1>1, JobsFrame DEF Webhook, Receive, StorePause, StoreReceipt, DeliveryFails
<1>2. ASSUME NEW d \in Decisions, Operator(d) PROVE CapInv'
  BY <1>2, JobsFrame DEF Operator, Decide, Act, Write, DecisionFails
<1>3. ASSUME NEW i \in Items, Handler(i) PROVE CapInv'
  <2>1. CASE Admit(i) BY <2>1, AdmitCap
  <2>2. CASE Count(i) BY <2>2, CountCap
  <2>3. CASE Clear(i) \/ Look(i) \/ CheckOut(i) \/ Judge(i) \/ Push(i) \/ Reply(i) \/ JobEnds(i)
    <3>1. UNCHANGED <<count, faults, overlapped>>
      BY <2>3 DEF Clear, Look, CheckOut, Judge, Push, Reply, JobEnds
    <3>2. Attempts' \subseteq Attempts
      BY <2>3 DEF Clear, Look, CheckOut, Judge, Push, Reply, JobEnds, TypeOK, Attempts
    <3>3. \A j \in Items : Waiting(j)' => Waiting(j)
      BY <2>3 DEF Clear, Look, CheckOut, Judge, Push, Reply, JobEnds, TypeOK, Waiting
    <3> QED BY <3>1, <3>2, <3>3, CapFrame
  <2> QED BY <1>3, <2>1, <2>2, <2>3 DEF Handler
<1>4. CASE RegisterArtifact \/ Resume \/ OwnerShown \/ MaintainerActs \/ HearStop \/ Poll
  BY <1>4, JobsFrame DEF RegisterArtifact, Resume, OwnerShown, MaintainerActs, HearStop, Poll
<1>5. CASE UNCHANGED vars BY <1>5, JobsFrame DEF vars
<1> QED BY <1>1, <1>2, <1>3, <1>4, <1>5 DEF Next

-----------------------------------------------------------------------------
(* The theorems *)

IInv == TypeOK /\ InboxInv /\ BranchInv /\ CapInv

\* The invariant is inductive: every delivery, decision, handler and maintainer
\* preserves it.
THEOREM Invariance == Spec => []IInv
<1>1. Init => IInv BY InitType, InitInbox, InitBranch, InitCap DEF IInv
<1>2. IInv /\ [Next]_vars => IInv' BY StepType, StepInbox, StepBranch, StepCap DEF IInv
<1> QED BY <1>1, <1>2, PTL DEF Spec

\* The inbox, its calls, the pull request and the jobs hold values of the kinds
\* the code gives them.
THEOREM TypeCorrect == Spec => []TypeOK
BY Invariance, PTL DEF IInv

\* What the inbox says was done: a paused engagement paused its repository, a
\* proposed one has its work item, and only trusted requests become work.
THEOREM InboxIsAlwaysTrue == Spec => []InboxIsTrue
BY Invariance, PTL DEF IInv, InboxInv

\* Every follow-up's commit sits on the commits it was judged on.
THEOREM BranchAlwaysReviewed == Spec => []BranchIsReviewed
BY Invariance, PTL DEF IInv, BranchInv

\* Follow-ups use up attempts, and stay within the cap unless they overlap.
THEOREM AttemptsAlwaysBounded == Spec => []AttemptsAreBounded
BY Invariance, PTL DEF IInv, CapInv
-----------------------------------------------------------------------------
(* When a decision is overwritten *)

InFlight(d) == decision[d].at \in {"acting", "writing"}

\* No two calls of decide_engagement are at work on one message at a time.
DecisionsTakeTurns ==
  \A c, d \in Decisions :
    InFlight(c) /\ InFlight(d) /\ decision[c].message = decision[d].message => c = d

\* What a decision was checked against still allows it.
StillAllowed ==
  \A d \in Decisions : InFlight(d) => Allows(inbox[decision[d].message], decision[d].choice)

(***************************************************************************)
(* What a stored engagement may become: the first receipt of a message,    *)
(* and what validate_decision_transition allows from what is stored now.   *)
(***************************************************************************)
InboxStep(m) ==
  \/ inbox'[m] = inbox[m]
  \/ inbox[m] = "absent" /\ inbox'[m] = Initial(says[m])
  \/ \E choice \in Choices : Allows(inbox[m], choice) /\ inbox'[m] = Result(choice)

LEMMA CheckedDecisions ==
  ASSUME TypeOK, StillAllowed, DecisionsTakeTurns, [Next]_vars
  PROVE  StillAllowed' /\ \A m \in Messages : InboxStep(m)
<1> USE DEF hiveVars, githubVars, reaperVars
<1>0. \A d \in Decisions : InFlight(d) => decision[d].message \in Messages
  BY DEF TypeOK, InFlight, Idle, Done
<1>1. ASSUME UNCHANGED <<inbox, decision>>
      PROVE  StillAllowed' /\ \A m \in Messages : InboxStep(m)
  BY <1>1 DEF StillAllowed, InFlight, InboxStep
<1>2. ASSUME NEW t \in Deliveries, StoreReceipt(t)
      PROVE  StillAllowed' /\ \A m \in Messages : InboxStep(m)
  <2> DEFINE x == delivery[t].message
  <2>1. /\ inbox' = [inbox EXCEPT ![x] = IF @ = "absent" THEN Initial(says[x]) ELSE @]
        /\ decision' = decision
    BY <1>2 DEF StoreReceipt
  <2>2. \A m \in Messages : inbox[m] # "absent" => inbox'[m] = inbox[m]
    BY <2>1 DEF TypeOK
  <2>3. StillAllowed'
    BY <1>0, <2>1, <2>2 DEF StillAllowed, InFlight, Allows
  <2>4. \A m \in Messages : InboxStep(m)
    BY <2>1, <2>2 DEF InboxStep, TypeOK
  <2> QED BY <2>3, <2>4
<1>3. ASSUME NEW d \in Decisions, NEW m \in Messages, NEW choice \in Choices, Decide(d, m, choice)
      PROVE  StillAllowed' /\ \A k \in Messages : InboxStep(k)
  <2>1. /\ inbox' = inbox /\ decision'[d].message = m /\ decision'[d].choice = choice
        /\ Allows(inbox[m], choice)
        /\ \A c \in Decisions : c # d => decision'[c] = decision[c]
    BY <1>3 DEF Decide, TypeOK
  <2> QED BY <2>1 DEF StillAllowed, InFlight, InboxStep, Allows
<1>4. ASSUME NEW d \in Decisions, Act(d)
      PROVE  StillAllowed' /\ \A m \in Messages : InboxStep(m)
  <2>1. /\ inbox' = inbox /\ InFlight(d)
        /\ decision'[d].message = decision[d].message /\ decision'[d].choice = decision[d].choice
        /\ \A c \in Decisions : c # d => decision'[c] = decision[c]
    <3>1. decision[d] \in [at : {"acting"}, message : Messages, choice : {"pause", "change", "reply"}]
      BY <1>4 DEF Act, TypeOK, Idle, Done
    <3>2. inbox' = inbox /\ InFlight(d) BY <1>4 DEF Act, InFlight
    <3>3. decision' = [decision EXCEPT ![d].at = "writing"] BY <1>4 DEF Act
    <3>4. decision'[d] = [decision[d] EXCEPT !.at = "writing"]
      BY <3>3 DEF TypeOK
    <3>5. \A c \in Decisions : c # d => decision'[c] = decision[c]
      BY <3>3 DEF TypeOK
    <3> QED BY <3>1, <3>2, <3>4, <3>5
  <2> QED BY <2>1 DEF StillAllowed, InFlight, InboxStep, Allows
<1>5. ASSUME NEW d \in Decisions, Write(d)
      PROVE  StillAllowed' /\ \A m \in Messages : InboxStep(m)
  <2> DEFINE x == decision[d].message
  <2>1. /\ InFlight(d) /\ decision'[d] = Done
        /\ inbox' = [inbox EXCEPT ![x] = Result(decision[d].choice)]
        /\ \A c \in Decisions : c # d => decision'[c] = decision[c]
    BY <1>5 DEF Write, InFlight, TypeOK
  <2>2. x \in Messages /\ decision[d].choice \in Choices
    BY <1>5 DEF Write, TypeOK, Idle, Done
  <2>3. Allows(inbox[x], decision[d].choice)
    BY <2>1 DEF StillAllowed
  <2> HIDE DEF x
  <2>4. \A m \in Messages : m # x => inbox'[m] = inbox[m]
    BY <2>1 DEF TypeOK
  <2>5. inbox'[x] = Result(decision[d].choice)
    BY <2>1, <2>2 DEF TypeOK
  <2>6. \A m \in Messages : InboxStep(m)
    BY <2>2, <2>3, <2>4, <2>5 DEF InboxStep
  <2>7. ASSUME NEW c \in Decisions, InFlight(c)'
        PROVE  Allows(inbox'[decision'[c].message], decision'[c].choice)
    <3>1. c # d /\ decision'[c] = decision[c] /\ InFlight(c)
      BY <2>1, <2>7 DEF InFlight, Done
    <3>2. decision[c].message # x
      BY <2>1, <3>1 DEF DecisionsTakeTurns, x
    <3> QED BY <1>0, <2>4, <3>1, <3>2 DEF StillAllowed, Allows
  <2> QED BY <2>6, <2>7 DEF StillAllowed, Allows
<1>6. ASSUME NEW d \in Decisions, DecisionFails(d)
      PROVE  StillAllowed' /\ \A m \in Messages : InboxStep(m)
  <2>1. /\ inbox' = inbox /\ decision'[d] = Done
        /\ \A c \in Decisions : c # d => decision'[c] = decision[c]
    BY <1>6 DEF DecisionFails, TypeOK
  <2> QED BY <2>1 DEF StillAllowed, InFlight, InboxStep, Done, Allows
<1>7. ASSUME NEW i \in Items, Handler(i)  PROVE  UNCHANGED <<inbox, decision>>
  BY <1>7, OthersKeepInbox DEF InboxVars
<1>8. ASSUME NEW t \in Deliveries, Webhook(t), ~ StoreReceipt(t)  PROVE  UNCHANGED <<inbox, decision>>
  BY <1>8 DEF Webhook, Receive, StorePause, DeliveryFails
<1>9. CASE RegisterArtifact \/ Resume \/ OwnerShown \/ MaintainerActs \/ HearStop \/ Poll
  BY <1>1, <1>9 DEF RegisterArtifact, Resume, OwnerShown, MaintainerActs, HearStop, Poll
<1>10. CASE UNCHANGED vars
  BY <1>1, <1>10 DEF vars
<1>11. ASSUME NEW d \in Decisions, Operator(d)
       PROVE  StillAllowed' /\ \A m \in Messages : InboxStep(m)
  BY <1>3, <1>4, <1>5, <1>6, <1>11 DEF Operator
<1> QED BY <1>1, <1>2, <1>7, <1>8, <1>9, <1>10, <1>11 DEF Next

(***************************************************************************)
(* decide_engagement writes without looking again, so a decision can be    *)
(* overwritten by one that was taken before it.  That is the only way: as  *)
(* long as no two decisions on one message overlap, every change of a      *)
(* stored engagement is one that validate_decision_transition allows from  *)
(* what is stored at that moment, whatever deliveries and failures come in *)
(* between; what is resolved, proposed or dismissed then stays so.         *)
(***************************************************************************)
THEOREM OverwritesNeedOverlappingDecisions ==
  Spec /\ []DecisionsTakeTurns => [][\A m \in Messages : InboxStep(m)]_vars
<1>1. Init => StillAllowed
  BY DEF Init, StillAllowed, InFlight, Idle
<1>2. TypeOK /\ StillAllowed /\ DecisionsTakeTurns /\ [Next]_vars
        => StillAllowed' /\ [\A m \in Messages : InboxStep(m)]_vars
  BY CheckedDecisions
<1> QED BY <1>1, <1>2, TypeCorrect, PTL DEF Spec
=============================================================================
