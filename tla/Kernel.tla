------------------------------- MODULE Kernel -------------------------------
(***************************************************************************)
(* The rules HiveCore's components share: what admits a piece of work to   *)
(* the resources it needs, and how much autonomy a mandate has.  They are  *)
(* pure functions of evidence; the components that read the evidence and   *)
(* act on the answer model when it is read.                                *)
(***************************************************************************)
EXTENDS Integers

Layers == {"github_rate", "ai_spend", "sandbox", "owner_politeness"}

(***************************************************************************)
(* Evidence is a set of records of one element, or the empty set when it   *)
(* is unknown, stale, malformed or failed: all of these deny alike.        *)
(***************************************************************************)
RateShort(rate, floor) ==
  \A e \in rate : e.remaining > e.limit \/ e.remaining < floor

AiShort(ai, cents) ==
  \A e \in ai :
    \/ e.spent + e.reserved + cents > e.limit
    \/ \E m \in e.mandate : m.spent + m.reserved + cents > m.limit

SandboxShort(sandbox) == \A e \in sandbox : e.inUse >= e.slots

OwnerShort(owner) == \A e \in owner : e.cooling \/ e.open >= e.limit

\* evaluate_resource_admission: the layers that deny; none of them admits.
LimitingLayers(evidence, required, floor, cents) ==
  {l \in required :
     CASE l = "github_rate" -> RateShort(evidence.rate, floor)
       [] l = "ai_spend" -> AiShort(evidence.ai, cents)
       [] l = "sandbox" -> SandboxShort(evidence.sandbox)
       [] l = "owner_politeness" -> OwnerShort(evidence.owner)}

-----------------------------------------------------------------------------
(* Autonomy: observe, propose, act with approval, act, in this order. *)

Observe == 0
Propose == 1
ActWithApproval == 2
Act == 3
Autonomy == Observe..Act

Tiers == {"first_stack", "read_only_fleet", "write_dry_run", "release_gate"}

\* The level the observed tiers earn: each tier counts only above the former.
Earned(observed) ==
  CASE ~ {"first_stack", "read_only_fleet"} \subseteq observed -> Observe
    [] {"first_stack", "read_only_fleet"} \subseteq observed
         /\ "write_dry_run" \notin observed -> Propose
    [] {"first_stack", "read_only_fleet", "write_dry_run"} \subseteq observed
         /\ "release_gate" \notin observed -> ActWithApproval
    [] Tiers \subseteq observed -> Act

\* evaluate_autonomy, and the demotion of execute_claim when the outcomes of
\* past pull requests slow autonomous writes.
Lesser(a, b) == IF a <= b THEN a ELSE b
Effective(requested, observed, slowdown) ==
  LET earned == Lesser(requested, Earned(observed))
  IN  IF slowdown THEN Lesser(earned, Propose) ELSE earned
=============================================================================
