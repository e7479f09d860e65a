------------------------------ MODULE Approvals ------------------------------
(***************************************************************************)
(* HiveCore's approvals: the rows of approval_records, the operator's      *)
(* handlers of /approvals, and dispatch_with_approval, which spends a      *)
(* granted approval on one request to a product.                           *)
(*                                                                         *)
(* An approval authorizes a subject: the dispatch input together with the  *)
(* action contract the product advertised.  Each call of dispatch_approved *)
(* is a task with a life of its own, many of which may run at once; every  *)
(* step of a task is one transaction or one exchange with the product, so  *)
(* an approval may change between any two of them.                         *)
(*                                                                         *)
(* Every refusal that precedes the claim (a disabled product, a pause, a   *)
(* safety mismatch, denied resources, a failed read) ends the task and     *)
(* changes nothing else: Refused stands for all of them.                   *)
(***************************************************************************)
EXTENDS Naturals, FiniteSets

CONSTANTS
  Approvals,     \* fresh approval identifiers
  Inputs,        \* normalized dispatch inputs, origin and run included
  Contracts,     \* versions of the action contract a product may advertise
  Gated,         \* those that require an approval
  Tasks,         \* calls of dispatch_approved
  NoApproval, NoSubject, NoTask,
  MaxRestarts    \* bound on the restarts of HiveCore

ASSUME ApprovalConstants ==
  /\ Gated \subseteq Contracts
  /\ NoApproval \notin Approvals
  /\ NoSubject \notin [input : Inputs, contract : Contracts]
  /\ NoTask \notin Tasks
  /\ MaxRestarts \in Nat

VARIABLES
  subject,      \* the subject of each row
  lifecycle,    \* its state_kind; "absent" before the row exists
  consumedBy,   \* the task whose event a consumed row names
  outcome,      \* the outcome a consumed row holds
  overdue,      \* pending and granted rows with expires_at in the past
  contract,     \* what the product advertises now
  step,         \* where each task is
  aim,          \* the approval it was called with
  seen,         \* the contract it fetched
  remote,       \* what it learned of its request
  report,       \* what it answered to its caller
  received,     \* tasks whose request reached the product
  events,       \* tasks with a stored product action event
  era,          \* the life of HiveCore a task ran in
  restarts

rowVars == <<subject, lifecycle, consumedBy, outcome, overdue>>
taskVars == <<step, aim, seen, remote, report, era>>
vars == <<rowVars, contract, taskVars, received, events, restarts>>

Subjects == [input : Inputs, contract : Contracts]
Live == {"pending", "granted", "consuming"}
Final == {"denied", "revoked", "expired", "consumed"}
Steps == {"idle", "read", "fetched", "checked", "claimed", "answered",
          "consumed", "unconsumed", "done", "refused", "lost"}
Outcomes == {"accepted", "rejected", "uncertain"}
Reports == {"dispatched", "persistence_uncertain"}

\* Rows and tasks hold values of the kinds the schema and the code allow.
TypeOK ==
  /\ subject \in [Approvals -> Subjects \cup {NoSubject}]
  /\ lifecycle \in [Approvals -> {"absent"} \cup Live \cup Final]
  /\ consumedBy \in [Approvals -> Tasks \cup {NoTask}]
  /\ outcome \in [Approvals -> Outcomes \cup {"none"}]
  /\ overdue \in SUBSET Approvals
  /\ contract \in Contracts
  /\ step \in [Tasks -> Steps]
  /\ aim \in [Tasks -> Approvals \cup {NoApproval}]
  /\ seen \in [Tasks -> Contracts]
  /\ remote \in [Tasks -> Outcomes \cup {"none"}]
  /\ report \in [Tasks -> Reports \cup {"none"}]
  /\ received \in SUBSET Tasks
  /\ events \in SUBSET Tasks
  /\ era \in [Tasks -> 0..MaxRestarts]
  /\ restarts \in 0..MaxRestarts

Init ==
  /\ subject = [a \in Approvals |-> NoSubject]
  /\ lifecycle = [a \in Approvals |-> "absent"]
  /\ consumedBy = [a \in Approvals |-> NoTask]
  /\ outcome = [a \in Approvals |-> "none"]
  /\ overdue = {}
  /\ contract \in Contracts
  /\ step = [t \in Tasks |-> "idle"]
  /\ aim = [t \in Tasks |-> NoApproval]
  /\ seen = [t \in Tasks |-> contract]
  /\ remote = [t \in Tasks |-> "none"]
  /\ report = [t \in Tasks |-> "none"]
  /\ received = {}
  /\ events = {}
  /\ era = [t \in Tasks |-> 0]
  /\ restarts = 0

-----------------------------------------------------------------------------
(* Rows *)

\* The state_kind column after expire_approvals_in_transaction, which every
\* transaction but the consumption runs first.
Swept ==
  [a \in Approvals |->
     IF lifecycle[a] \in {"pending", "granted"} /\ a \in overdue
     THEN "expired" ELSE lifecycle[a]]

\* One transaction: sweep, then move the row from one state to another where it
\* is still in the first.
Transition(a, from, to) ==
  /\ lifecycle' = IF Swept[a] \in from THEN [Swept EXCEPT ![a] = to] ELSE Swept
  /\ overdue' = {}
  /\ UNCHANGED <<subject, consumedBy, outcome>>

Sweep ==
  /\ lifecycle' = Swept
  /\ overdue' = {}
  /\ UNCHANGED <<subject, consumedBy, outcome>>

\* A fault: a row whose request is under way does not count as live.
CreateOrGetBesideConsuming(a, s) ==
  /\ lifecycle[a] = "absent"
  /\ s.contract \in Gated
  /\ overdue' = {}
  /\ IF \E b \in Approvals : subject[b] = s /\ Swept[b] \in {"pending", "granted"}
     THEN lifecycle' = Swept /\ UNCHANGED subject
     ELSE /\ lifecycle' = [Swept EXCEPT ![a] = "pending"]
          /\ subject' = [subject EXCEPT ![a] = s]
  /\ UNCHANGED <<consumedBy, outcome, contract, taskVars, received, events, restarts>>

\* create_or_get_approval: a live row of the same fingerprint answers again.
CreateOrGet(a, s) ==
  /\ lifecycle[a] = "absent"
  /\ s.contract \in Gated
  /\ overdue' = {}
  /\ IF \E b \in Approvals : subject[b] = s /\ Swept[b] \in Live
     THEN lifecycle' = Swept /\ UNCHANGED subject
     ELSE /\ lifecycle' = [Swept EXCEPT ![a] = "pending"]
          /\ subject' = [subject EXCEPT ![a] = s]
  /\ UNCHANGED <<consumedBy, outcome, contract, taskVars, received, events, restarts>>

Grant(a) ==
  /\ lifecycle[a] # "absent"
  /\ Transition(a, {"pending"}, "granted")
  /\ UNCHANGED <<contract, taskVars, received, events, restarts>>

Deny(a) ==
  /\ lifecycle[a] # "absent"
  /\ Transition(a, {"pending"}, "denied")
  /\ UNCHANGED <<contract, taskVars, received, events, restarts>>

\* Unlike a denial, a revocation also takes back a grant.
Revoke(a) ==
  /\ lifecycle[a] # "absent"
  /\ Transition(a, {"pending", "granted"}, "revoked")
  /\ UNCHANGED <<contract, taskVars, received, events, restarts>>

\* list_approvals and every other read.
ReadApprovals ==
  /\ overdue # {}
  /\ Sweep
  /\ UNCHANGED <<contract, taskVars, received, events, restarts>>

-----------------------------------------------------------------------------
(* dispatch_approved *)

Goes(t, from, to) ==
  /\ step[t] = from
  /\ step' = [step EXCEPT ![t] = to]

\* The approval is read for its input, in whatever state it is.
DispatchApproved(t, a) ==
  /\ lifecycle[a] # "absent"
  /\ Goes(t, "idle", "read")
  /\ aim' = [aim EXCEPT ![t] = a]
  /\ era' = [era EXCEPT ![t] = restarts]
  /\ Sweep
  /\ UNCHANGED <<contract, seen, remote, report, received, events, restarts>>

\* fetch_product_capabilities.
FetchContract(t) ==
  /\ Goes(t, "read", "fetched")
  /\ seen' = [seen EXCEPT ![t] = contract]
  /\ UNCHANGED <<rowVars, contract, aim, remote, report, era, received, events, restarts>>

Refused(t) ==
  /\ step[t] \in {"read", "fetched"}
  /\ step' = [step EXCEPT ![t] = "refused"]
  /\ UNCHANGED <<rowVars, contract, aim, seen, remote, report, era, received, events, restarts>>

\* A fault: the advertised contract is not compared.
AuthorizedForAnyContract(t) ==
  /\ seen[t] \in Gated
  /\ Swept[aim[t]] = "granted"

\* The second read: the subject rebuilt from what the product advertises is the
\* subject that was granted, and the grant still stands.
Authorized(t) ==
  /\ seen[t] \in Gated
  /\ subject[aim[t]].contract = seen[t]
  /\ Swept[aim[t]] = "granted"

Check(t) ==
  /\ Goes(t, "fetched", IF Authorized(t) THEN "checked" ELSE "refused")
  /\ Sweep
  /\ UNCHANGED <<contract, aim, seen, remote, report, era, received, events, restarts>>

\* claim_approval returns the row as it now is, whoever moved it; the task goes
\* on when the row is consuming.
Claim(t) ==
  /\ step[t] = "checked"
  /\ Transition(aim[t], {"granted"}, "consuming")
  /\ Goes(t, "checked", IF lifecycle'[aim[t]] = "consuming" THEN "claimed" ELSE "refused")
  /\ UNCHANGED <<contract, aim, seen, remote, report, era, received, events, restarts>>

\* The request: the product may serve it although no answer comes back.
Send(t) ==
  /\ Goes(t, "claimed", "answered")
  /\ \E o \in Outcomes, arrives \in BOOLEAN :
       /\ o # "uncertain" => arrives
       /\ remote' = [remote EXCEPT ![t] = o]
       /\ received' = IF arrives THEN received \cup {t} ELSE received
  /\ UNCHANGED <<rowVars, contract, aim, seen, report, era, events, restarts>>

\* A fault: the event's status is stored in place of the remote outcome.
ConsumeStoresStatus(t) ==
  /\ Goes(t, "answered", "consumed")
  /\ IF lifecycle[aim[t]] = "consuming"
     THEN /\ lifecycle' = [lifecycle EXCEPT ![aim[t]] = "consumed"]
          /\ consumedBy' = [consumedBy EXCEPT ![aim[t]] = t]
          /\ outcome' = [outcome EXCEPT ![aim[t]] = "dispatched"]
     ELSE UNCHANGED <<lifecycle, consumedBy, outcome>>
  /\ UNCHANGED <<subject, overdue, contract, aim, seen, remote, report, era,
                 received, events, restarts>>

\* consume_approval, which neither sweeps nor complains about a row that was
\* consumed already.
Consume(t) ==
  /\ Goes(t, "answered", "consumed")
  /\ IF lifecycle[aim[t]] = "consuming"
     THEN /\ lifecycle' = [lifecycle EXCEPT ![aim[t]] = "consumed"]
          /\ consumedBy' = [consumedBy EXCEPT ![aim[t]] = t]
          /\ outcome' = [outcome EXCEPT ![aim[t]] = remote[t]]
     ELSE UNCHANGED <<lifecycle, consumedBy, outcome>>
  /\ UNCHANGED <<subject, overdue, contract, aim, seen, remote, report, era,
                 received, events, restarts>>

ConsumeFails(t) ==
  /\ Goes(t, "answered", "unconsumed")
  /\ UNCHANGED <<rowVars, contract, aim, seen, remote, report, era, received, events, restarts>>

\* A fault: a stored event is enough to answer "dispatched".
RecordEventOnly(t) ==
  /\ step[t] \in {"consumed", "unconsumed"}
  /\ step' = [step EXCEPT ![t] = "done"]
  /\ \E stored \in BOOLEAN :
       /\ events' = IF stored THEN events \cup {t} ELSE events
       /\ report' = [report EXCEPT ![t] =
            IF stored THEN "dispatched" ELSE "persistence_uncertain"]
  /\ UNCHANGED <<rowVars, contract, aim, seen, remote, era, received, restarts>>

\* record_action_event, then the answer: dispatched only if both writes held.
RecordEvent(t) ==
  /\ step[t] \in {"consumed", "unconsumed"}
  /\ step' = [step EXCEPT ![t] = "done"]
  /\ \E stored \in BOOLEAN :
       /\ events' = IF stored THEN events \cup {t} ELSE events
       /\ report' = [report EXCEPT ![t] =
            IF stored /\ step[t] = "consumed" THEN "dispatched" ELSE "persistence_uncertain"]
  /\ UNCHANGED <<rowVars, contract, aim, seen, remote, era, received, restarts>>

-----------------------------------------------------------------------------
(* Time, products and failure *)

BecomesOverdue(a) ==
  /\ lifecycle[a] \in {"pending", "granted"}
  /\ a \notin overdue
  /\ overdue' = overdue \cup {a}
  /\ UNCHANGED <<subject, lifecycle, consumedBy, outcome, contract, taskVars,
                 received, events, restarts>>

ContractChanges(c) ==
  /\ c # contract
  /\ contract' = c
  /\ UNCHANGED <<rowVars, taskVars, received, events, restarts>>

\* A fault: a start-up repair that returns claimed approvals to the operator.
HiveCoreRestartsRegranting ==
  /\ restarts < MaxRestarts
  /\ restarts' = restarts + 1
  /\ step' = [t \in Tasks |->
       IF step[t] \in {"idle", "done", "refused"} THEN step[t] ELSE "lost"]
  /\ lifecycle' = [a \in Approvals |->
       IF lifecycle[a] = "consuming" THEN "granted" ELSE lifecycle[a]]
  /\ UNCHANGED <<subject, consumedBy, outcome, overdue, contract, aim, seen, remote,
                 report, era, received, events>>

\* HiveCore stops: its tasks end where they are, its rows stay as they are.
HiveCoreRestarts ==
  /\ restarts < MaxRestarts
  /\ restarts' = restarts + 1
  /\ step' = [t \in Tasks |->
       IF step[t] \in {"idle", "done", "refused"} THEN step[t] ELSE "lost"]
  /\ UNCHANGED <<rowVars, contract, aim, seen, remote, report, era, received, events>>

Operator ==
  \/ \E a \in Approvals, s \in Subjects : CreateOrGet(a, s)
  \/ \E a \in Approvals : Grant(a) \/ Deny(a) \/ Revoke(a)
  \/ ReadApprovals

Dispatch(t) ==
  \/ \E a \in Approvals : DispatchApproved(t, a)
  \/ FetchContract(t) \/ Refused(t) \/ Check(t) \/ Claim(t)
  \/ Send(t) \/ Consume(t) \/ ConsumeFails(t) \/ RecordEvent(t)

Surroundings ==
  \/ \E a \in Approvals : BecomesOverdue(a)
  \/ \E c \in Contracts : ContractChanges(c)
  \/ HiveCoreRestarts

Next == Operator \/ (\E t \in Tasks : Dispatch(t)) \/ Surroundings

Spec == Init /\ [][Next]_vars

-----------------------------------------------------------------------------
(* Properties *)

(***************************************************************************)
(* No product ever receives a request whose approval was denied, revoked   *)
(* or expired, or that was granted for another contract than the one the   *)
(* product advertised to the sender, however the operator, the clock and   *)
(* the sender's own awaits interleave.                                     *)
(***************************************************************************)
RequestsAreAuthorized ==
  \A t \in received :
    /\ lifecycle[aim[t]] \in {"consuming", "consumed"}
    /\ subject[aim[t]].contract = seen[t]
    /\ seen[t] \in Gated

(***************************************************************************)
(* create_or_get_approval never leaves two live approvals of one subject:  *)
(* an operator who grants a dispatch grants it once.                       *)
(***************************************************************************)
OneLiveApprovalPerSubject ==
  \A a, b \in Approvals :
    lifecycle[a] \in Live /\ lifecycle[b] \in Live /\ subject[a] = subject[b] => a = b

(***************************************************************************)
(* "consuming prevents replay if HiveCore loses the remote result": all    *)
(* the requests sent under one approval belong to one life of HiveCore, so *)
(* a restart between the claim and the consumption never sends it again.   *)
(***************************************************************************)
NoReplayAfterRestart ==
  \A t, u \in received : aim[t] = aim[u] => era[t] = era[u]

(***************************************************************************)
(* "A completed remote request becomes persistence_uncertain, never        *)
(* dispatched, if the action event or approval consumption cannot be       *)
(* stored", and the outcome a consumed approval carries is what the task   *)
(* it names learned from the product.                                      *)
(***************************************************************************)
DispatchedIsDurable ==
  /\ \A t \in Tasks :
       report[t] = "dispatched" => t \in events /\ lifecycle[aim[t]] = "consumed"
  /\ \A a \in Approvals :
       lifecycle[a] = "consumed" =>
         /\ aim[consumedBy[a]] = a
         /\ outcome[a] = remote[consumedBy[a]]
         /\ outcome[a] # "uncertain" => consumedBy[a] \in received

(***************************************************************************)
(* "The operator grants that fingerprint once; HiveCore atomically changes *)
(* it to consuming immediately before the remote request": one grant, one  *)
(* request.                                                                *)
(***************************************************************************)
SingleUse ==
  \A t, u \in received : aim[t] = aim[u] => t = u
=============================================================================
