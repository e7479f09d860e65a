----------------------------- MODULE Engagements -----------------------------
(***************************************************************************)
(* A pull request RepoReaper opened, the messages maintainers leave on it, *)
(* and what becomes of them: HiveCore's inbox (github_webhook and          *)
(* decide_engagement), the work items an operator queues from it, and the  *)
(* handlers of RepoReaper that answer such an item with a reply or with a  *)
(* commit on the pull request's branch.                                    *)
(*                                                                         *)
(* A delivery and a decision are calls that read, act and write in         *)
(* transactions of their own, so calls interleave between them.  A call    *)
(* may end after any of its steps: its database access failed, its caller  *)
(* or HiveCore's timeout dropped it, or its process stopped, which is the  *)
(* same for each of the calls that were running.                           *)
(*                                                                         *)
(* That an item is dispatched once, and only with its approval, is the     *)
(* subject of WorkEngine and Approvals; here a queued item may be          *)
(* dispatched once.                                                        *)
(***************************************************************************)
EXTENDS Naturals, FiniteSets, Sequences

CONSTANTS
  Messages,       \* messages, by delivery, event and source identity
  Deliveries,     \* calls of HiveCore's webhook, redeliveries among them
  Decisions,      \* calls of decide_engagement
  Conversations,  \* what the messages may say
  MaxFollowUps,   \* MAX_PR_FOLLOW_UPS
  MaxCommits,     \* bound on the commits of others to the branch
  MaxFaults       \* bound on the ignored failures to count an attempt

\* What HiveCore makes of a message: a trusted change request or question, an
\* acknowledgement, a trusted stop, opt-out or security report, and whatever is
\* abusive or not from a trusted maintainer.
Texts == {"request", "thanks", "stop", "unfit"}

ASSUME EngagementConstants ==
  /\ Conversations \subseteq [Messages -> Texts]
  /\ {MaxFollowUps, MaxCommits, MaxFaults} \subseteq Nat

Items == Messages \X {"change", "reply"}
ASSUME FiniteItems == IsFiniteSet(Items)

VARIABLES
  says,        \* what each message says
  owned,       \* what HiveCore knows of the pull request's owner
  inbox,       \* the stored lifecycle of each engagement
  delivery,    \* the calls of the webhook
  decision,    \* the calls of operators
  queued,      \* work items
  pause,       \* the repository is paused
  halted,      \* messages the repository was paused for
  excluded,    \* RepoReaper's own entry against the repository
  pr,          \* the pull request on GitHub
  tracked,     \* the state RepoReaper last stored of it
  count,       \* its follow_up_count
  branch,      \* the commits pushed to its head since it was opened
  job,         \* where the dispatch of each item is
  base,        \* the commits each follow-up was made on
  overlapped,  \* two follow-ups were let in before either was counted
  faults

hiveVars == <<owned, inbox, delivery, decision, queued, pause, halted>>
githubVars == <<pr, branch>>
reaperVars == <<excluded, tracked, count, job, base, overlapped, faults>>
vars == <<says, hiveVars, githubVars, reaperVars>>

Lifecycles == {"absent", "awaiting", "noresponse", "proposed", "paused", "quarantined", "resolved"}
Choices == {"noresponse", "quarantine", "resolve", "pause", "change", "reply"}

Idle == [at |-> "idle"]
Done == [at |-> "done"]

-----------------------------------------------------------------------------
(* The webhook *)

\* initial_lifecycle
Initial(text) ==
  CASE text = "request" -> "awaiting"
    [] text = "thanks"  -> "noresponse"
    [] text = "stop"    -> "paused"
    [] text = "unfit"   -> "quarantined"

\* A delivery that is known, or about a pull request nobody owns, is answered
\* and changes nothing.  The owner is registered, or found by the committed
\* reservation that carries the pull request's URL, and then recorded.
Receive(t, m) ==
  /\ delivery[t] = Idle
  /\ inbox[m] = "absent" /\ owned # "none"
  /\ owned' = "recorded"
  /\ delivery' = [delivery EXCEPT ![t] =
       [at |-> IF says[m] = "stop" THEN "halting" ELSE "storing", message |-> m]]
  /\ UNCHANGED <<says, inbox, decision, queued, pause, halted, githubVars, reaperVars>>

Pauses(m) == pause' = TRUE /\ halted' = halted \cup {m}

\* A stop pauses the repository before its receipt is stored.
StorePause(t) ==
  /\ delivery[t].at = "halting"
  /\ Pauses(delivery[t].message)
  /\ delivery' = [delivery EXCEPT ![t].at = "storing"]
  /\ UNCHANGED <<says, owned, inbox, decision, queued, githubVars, reaperVars>>

\* insert_engagement: a receipt that another delivery of the message stored
\* meanwhile stays.
StoreReceipt(t) ==
  /\ delivery[t].at = "storing"
  /\ inbox' = [inbox EXCEPT ![delivery[t].message] =
                 IF @ = "absent" THEN Initial(says[delivery[t].message]) ELSE @]
  /\ delivery' = [delivery EXCEPT ![t] = Done]
  /\ UNCHANGED <<says, owned, decision, queued, pause, halted, githubVars, reaperVars>>

DeliveryFails(t) ==
  /\ delivery[t].at \in {"halting", "storing"}
  /\ delivery' = [delivery EXCEPT ![t] = Done]
  /\ UNCHANGED <<says, owned, inbox, decision, queued, pause, halted, githubVars, reaperVars>>

RegisterArtifact ==
  /\ owned' = "recorded"
  /\ UNCHANGED <<says, inbox, delivery, decision, queued, pause, halted, githubVars, reaperVars>>

-----------------------------------------------------------------------------
(* The operator *)

\* A fault: whatever was decided before, another decision is taken.
AllowsAgain(lifecycle, choice) == lifecycle # "absent"

\* validate_decision_transition
Allows(lifecycle, choice) ==
  \/ lifecycle = "awaiting"
  \/ lifecycle \in {"paused", "quarantined"} /\ choice = "resolve"

\* A fault: the decision's own word is stored for the lifecycle it leads to.
ResultVerbatim(choice) == choice

\* The lifecycle a decision is stored as.
Result(choice) ==
  CASE choice = "quarantine" -> "quarantined"
    [] choice = "resolve"    -> "resolved"
    [] choice = "pause"      -> "paused"
    [] choice = "noresponse" -> "noresponse"
    [] choice \in {"change", "reply"} -> "proposed"

\* The engagement is read and the decision checked against it.
Decide(d, m, choice) ==
  /\ decision[d] = Idle
  /\ Allows(inbox[m], choice)
  /\ decision' = [decision EXCEPT ![d] =
       [at |-> IF choice \in {"pause", "change", "reply"} THEN "acting" ELSE "writing",
        message |-> m, choice |-> choice]]
  /\ UNCHANGED <<says, owned, inbox, delivery, queued, pause, halted, githubVars, reaperVars>>

\* The repository is paused, or the work item proposed: an item that exists is
\* found again.
Act(d) ==
  /\ decision[d].at = "acting"
  /\ LET m == decision[d].message
     IN  IF decision[d].choice = "pause"
         THEN Pauses(m) /\ UNCHANGED queued
         ELSE /\ queued' = queued \cup {<<m, decision[d].choice>>}
              /\ UNCHANGED <<pause, halted>>
  /\ decision' = [decision EXCEPT ![d].at = "writing"]
  /\ UNCHANGED <<says, owned, inbox, delivery, githubVars, reaperVars>>

\* update_lifecycle, which does not look at what is stored by now.
Write(d) ==
  /\ decision[d].at = "writing"
  /\ inbox' = [inbox EXCEPT ![decision[d].message] = Result(decision[d].choice)]
  /\ decision' = [decision EXCEPT ![d] = Done]
  /\ UNCHANGED <<says, owned, delivery, queued, pause, halted, githubVars, reaperVars>>

DecisionFails(d) ==
  /\ decision[d].at \in {"acting", "writing"}
  /\ decision' = [decision EXCEPT ![d] = Done]
  /\ UNCHANGED <<says, owned, inbox, delivery, queued, pause, halted, githubVars, reaperVars>>

Resume ==
  /\ pause
  /\ pause' = FALSE
  /\ UNCHANGED <<says, owned, inbox, delivery, decision, queued, halted, githubVars, reaperVars>>

-----------------------------------------------------------------------------
(* Dispatched items *)

\* HiveCore's last check before an approved request is sent.
Clear(i) ==
  /\ i \in queued /\ job[i] = "none"
  /\ ~pause
  /\ job' = [job EXCEPT ![i] = "sent"]
  /\ UNCHANGED <<says, hiveVars, githubVars, excluded, tracked, count, base, overlapped, faults>>

\* A fault: one follow-up beyond the cap.
AcceptsOneMore == tracked = "open" /\ count <= MaxFollowUps

\* accepts_follow_up
AcceptsFollowUp == tracked = "open" /\ count < MaxFollowUps

\* RepoReaper tracks the pull request as open, accepts another follow-up, and
\* does not exclude the repository.  A refusal by HiveCore's policy is JobEnds.
Admit(i) ==
  /\ job[i] = "sent"
  /\ ~excluded
  /\ IF i[2] = "change"
     THEN /\ AcceptsFollowUp
          /\ overlapped' = (overlapped \/ \E k \in Items : k[2] = "change" /\ job[k] = "admitted")
     ELSE tracked = "open" /\ UNCHANGED overlapped
  /\ job' = [job EXCEPT ![i] = "admitted"]
  /\ UNCHANGED <<says, hiveVars, githubVars, excluded, tracked, count, base, faults>>

\* record_pr_follow_up; the attempt goes on when it cannot be stored.
Count(i) ==
  /\ job[i] = "admitted" /\ i[2] = "change"
  /\ \/ count' = count + 1 /\ UNCHANGED faults
     \/ faults < MaxFaults /\ faults' = faults + 1 /\ UNCHANGED count
  /\ job' = [job EXCEPT ![i] = "counted"]
  /\ UNCHANGED <<says, hiveVars, githubVars, excluded, tracked, base, overlapped>>

\* GitHub must know the pull request as an open draft.
Look(i) ==
  /\ job[i] = "counted"
  /\ pr = "draft"
  /\ job' = [job EXCEPT ![i] = "seen"]
  /\ UNCHANGED <<says, hiveVars, githubVars, excluded, tracked, count, base, overlapped, faults>>

\* Each follow-up has a clone of its own, at the head of the branch.
CheckOut(i) ==
  /\ job[i] = "seen"
  /\ base' = [base EXCEPT ![i] = branch]
  /\ job' = [job EXCEPT ![i] = "working"]
  /\ UNCHANGED <<says, hiveVars, githubVars, excluded, tracked, count, overlapped, faults>>

\* A model's patch, approved or replaced by Smith, was applied and tested, and
\* TrustGate found the staged diff safe.
Judge(i) ==
  /\ job[i] = "working"
  /\ job' = [job EXCEPT ![i] = "judged"]
  /\ UNCHANGED <<says, hiveVars, githubVars, excluded, tracked, count, base, overlapped, faults>>

\* A fault: the commit is moved onto whatever the branch holds by now.
PushRebased(i) ==
  /\ job[i] = "judged"
  /\ branch' = Append(branch, i)
  /\ job' = [job EXCEPT ![i] = "pushed"]
  /\ UNCHANGED <<says, hiveVars, pr, excluded, tracked, count, base, overlapped, faults>>

\* git push without force: rejected unless the branch is what was checked out.
Push(i) ==
  /\ job[i] = "judged"
  /\ branch = base[i]
  /\ branch' = Append(branch, i)
  /\ job' = [job EXCEPT ![i] = "pushed"]
  /\ UNCHANGED <<says, hiveVars, pr, excluded, tracked, count, base, overlapped, faults>>

Reply(i) ==
  /\ job[i] = "admitted" /\ i[2] = "reply"
  /\ job' = [job EXCEPT ![i] = "posted"]
  /\ UNCHANGED <<says, hiveVars, githubVars, excluded, tracked, count, base, overlapped, faults>>

\* A refusal, a failed call, or the end of the request that waits for the answer.
JobEnds(i) ==
  /\ job[i] \notin {"none", "pushed", "posted", "ended"}
  /\ job' = [job EXCEPT ![i] = "ended"]
  /\ UNCHANGED <<says, hiveVars, githubVars, excluded, tracked, count, base, overlapped, faults>>

-----------------------------------------------------------------------------
(* GitHub, RepoReaper's own webhook and its poll *)

\* The reservation of the pull request is committed, or freed.
OwnerShown ==
  /\ owned # "recorded"
  /\ owned' = IF owned = "none" THEN "committed" ELSE "none"
  /\ UNCHANGED <<says, inbox, delivery, decision, queued, pause, halted, githubVars, reaperVars>>

\* Maintainers mark the pull request ready or a draft, close it, or push to its
\* branch.
MaintainerActs ==
  /\ \/ pr # "closed" /\ pr' \in {"draft", "ready", "closed"} \ {pr} /\ UNCHANGED branch
     \/ /\ Cardinality({k \in DOMAIN branch : branch[k] \notin Items}) < MaxCommits
        /\ branch' = Append(branch, <<"maintainer", "commit">>)
        /\ UNCHANGED pr
  /\ UNCHANGED <<says, hiveVars, reaperVars>>

\* RepoReaper's own webhook hears a stop.
HearStop ==
  /\ \E m \in Messages : says[m] = "stop"
  /\ excluded' = TRUE
  /\ UNCHANGED <<says, hiveVars, githubVars, tracked, count, job, base, overlapped, faults>>

Poll ==
  /\ pr = "closed"
  /\ tracked' = "closed"
  /\ UNCHANGED <<says, hiveVars, githubVars, excluded, count, job, base, overlapped, faults>>

-----------------------------------------------------------------------------
Init ==
  /\ says \in Conversations
  /\ owned = "none"
  /\ inbox = [m \in Messages |-> "absent"]
  /\ delivery = [t \in Deliveries |-> Idle]
  /\ decision = [d \in Decisions |-> Idle]
  /\ queued = {} /\ pause = FALSE /\ halted = {}
  /\ excluded = FALSE
  /\ pr = "draft" /\ tracked = "open" /\ count = 0 /\ branch = <<>>
  /\ job = [i \in Items |-> "none"]
  /\ base = [i \in Items |-> <<>>]
  /\ overlapped = FALSE /\ faults = 0

Webhook(t) ==
  \/ \E m \in Messages : Receive(t, m)
  \/ StorePause(t) \/ StoreReceipt(t) \/ DeliveryFails(t)

Operator(d) ==
  \/ \E m \in Messages, choice \in Choices : Decide(d, m, choice)
  \/ Act(d) \/ Write(d) \/ DecisionFails(d)

Handler(i) ==
  \/ Clear(i) \/ Admit(i) \/ Count(i) \/ Look(i) \/ CheckOut(i) \/ Judge(i)
  \/ Push(i) \/ Reply(i) \/ JobEnds(i)

Next ==
  \/ \E t \in Deliveries : Webhook(t)
  \/ \E d \in Decisions : Operator(d)
  \/ \E i \in Items : Handler(i)
  \/ RegisterArtifact \/ Resume \/ OwnerShown \/ MaintainerActs \/ HearStop \/ Poll

Spec == Init /\ [][Next]_vars

-----------------------------------------------------------------------------
(* Properties *)

JobSteps == {"none", "sent", "admitted", "counted", "seen", "working", "judged", "pushed",
             "posted", "ended"}

\* The inbox, its calls, the pull request and the jobs hold values of the kinds
\* the code gives them; only follow-ups reach a branch.
TypeOK ==
  /\ says \in Conversations
  /\ owned \in {"none", "committed", "recorded"}
  /\ inbox \in [Messages -> Lifecycles]
  /\ delivery \in [Deliveries ->
       {Idle, Done} \cup [at : {"halting", "storing"}, message : Messages]]
  /\ decision \in [Decisions ->
       {Idle, Done} \cup [at : {"acting"}, message : Messages, choice : {"pause", "change", "reply"}]
         \cup [at : {"writing"}, message : Messages, choice : Choices]]
  /\ queued \in SUBSET Items
  /\ pause \in BOOLEAN /\ halted \in SUBSET Messages
  /\ excluded \in BOOLEAN
  /\ pr \in {"draft", "ready", "closed"} /\ tracked \in {"open", "closed"}
  /\ count \in Nat
  /\ branch \in Seq(Items \cup {<<"maintainer", "commit">>})
  /\ job \in [Items -> JobSteps]
  /\ base \in [Items -> Seq(Items \cup {<<"maintainer", "commit">>})]
  /\ overlapped \in BOOLEAN /\ faults \in 0..MaxFaults

\* An engagement stored as paused has paused the repository, one stored as
\* proposed has its work item, and a message that is no trusted request is never
\* made work of, whatever deliveries, decisions and failures come together.
InboxIsTrue == \A m \in Messages :
  /\ inbox[m] = "paused" => m \in halted
  /\ inbox[m] = "proposed" => \E kind \in {"change", "reply"} : <<m, kind>> \in queued
  /\ says[m] # "request" =>
       /\ \A kind \in {"change", "reply"} : <<m, kind>> \notin queued
       /\ inbox[m] \in {"absent", Initial(says[m]), "resolved"}

\* A follow-up's commit sits on exactly the commits it was made, tested and
\* judged on, and stays there, although other follow-ups and maintainers push to
\* the same branch.
BranchIsReviewed ==
  /\ \A k \in DOMAIN branch :
       branch[k] \in Items => base[branch[k]] = SubSeq(branch, 1, k - 1)
  /\ \A i \in Items : job[i] = "pushed" => \E k \in DOMAIN branch : branch[k] = i

\* Every follow-up at work, or on the branch, has used up one of the attempts
\* the cap allows, unless the count could not be stored; and attempts that were
\* not let in at the same moment stay within the cap.
Attempts == {i \in Items : job[i] \in {"counted", "seen", "working", "judged", "pushed"}}
AttemptsAreBounded ==
  /\ Cardinality(Attempts) <= count + faults
  /\ ~overlapped => count <= MaxFollowUps
=============================================================================
