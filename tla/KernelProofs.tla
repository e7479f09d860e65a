---------------------------- MODULE KernelProofs ----------------------------
(***************************************************************************)
(* What the shared rules promise to the components that act on their       *)
(* answers, whatever evidence they are given.                              *)
(***************************************************************************)
EXTENDS Kernel, TLAPS

\* Evidence of each layer, of known quantities or unknown.
RateEvidence == SUBSET [remaining : Int, limit : Int]
AiEvidence == SUBSET [spent : Int, reserved : Int, limit : Int,
                      mandate : SUBSET [spent : Int, reserved : Int, limit : Int]]
SandboxEvidence == SUBSET [inUse : Int, slots : Int]
OwnerEvidence == SUBSET [cooling : BOOLEAN, open : Int, limit : Int]
Evidence == [rate : RateEvidence, ai : AiEvidence, sandbox : SandboxEvidence, owner : OwnerEvidence]

\* What each layer says of the evidence it is given.
LEMMA ByLayer ==
  ASSUME NEW evidence, NEW required \in SUBSET Layers, NEW floor, NEW cents
  PROVE  LET limiting == LimitingLayers(evidence, required, floor, cents) IN
         /\ "github_rate" \in limiting <=> "github_rate" \in required /\ RateShort(evidence.rate, floor)
         /\ "ai_spend" \in limiting <=> "ai_spend" \in required /\ AiShort(evidence.ai, cents)
         /\ "sandbox" \in limiting <=> "sandbox" \in required /\ SandboxShort(evidence.sandbox)
         /\ "owner_politeness" \in limiting <=>
              "owner_politeness" \in required /\ OwnerShort(evidence.owner)
         /\ limiting \subseteq required
BY DEF LimitingLayers

\* A layer that is short stays so when more is asked of it.
LEMMA AskingMoreDeniesMore ==
  ASSUME NEW evidence \in Evidence, NEW floor \in Int, NEW more \in Int, floor <= more
  PROVE  /\ RateShort(evidence.rate, floor) => RateShort(evidence.rate, more)
         /\ AiShort(evidence.ai, floor) => AiShort(evidence.ai, more)
<1>1. evidence.rate \in RateEvidence /\ evidence.ai \in AiEvidence
  BY DEF Evidence
<1>2. RateShort(evidence.rate, floor) => RateShort(evidence.rate, more)
  BY <1>1 DEF RateEvidence, RateShort
<1>3. ASSUME AiShort(evidence.ai, floor), NEW e \in evidence.ai
      PROVE  \/ e.spent + e.reserved + more > e.limit
             \/ \E m \in e.mandate : m.spent + m.reserved + more > m.limit
  <2>1. /\ e.spent \in Int /\ e.reserved \in Int /\ e.limit \in Int
        /\ e.mandate \in SUBSET [spent : Int, reserved : Int, limit : Int]
    BY <1>1 DEF AiEvidence
  <2>2. CASE e.spent + e.reserved + floor > e.limit
    BY <2>1, <2>2
  <2>3. ASSUME NEW m \in e.mandate, m.spent + m.reserved + floor > m.limit
        PROVE  m.spent + m.reserved + more > m.limit
    <3>1. m.spent \in Int /\ m.reserved \in Int /\ m.limit \in Int
      BY <2>1
    <3> QED BY <2>3, <3>1
  <2> QED BY <1>3, <2>2, <2>3 DEF AiShort
<1> QED BY <1>2, <1>3 DEF AiShort

(***************************************************************************)
(* evaluate_resource_admission errs on the side of refusing: evidence that *)
(* is unknown denies each layer that needs it, and who requires more       *)
(* layers, a higher rate floor or more money is denied by every layer that *)
(* denied before.  So an admission that was granted would have been        *)
(* granted for less, and asking again for more never gets around a denial. *)
(***************************************************************************)
THEOREM AdmissionIsCautious ==
  ASSUME NEW evidence \in Evidence, NEW required \in SUBSET Layers, NEW floor \in Int, NEW cents \in Int
  PROVE  /\ evidence = [rate |-> {}, ai |-> {}, sandbox |-> {}, owner |-> {}] =>
              LimitingLayers(evidence, required, floor, cents) = required
         /\ \A wider \in SUBSET Layers : \A higher, dearer \in Int :
              required \subseteq wider /\ floor <= higher /\ cents <= dearer =>
                LimitingLayers(evidence, required, floor, cents)
                  \subseteq LimitingLayers(evidence, wider, higher, dearer)
<1>1. ASSUME evidence = [rate |-> {}, ai |-> {}, sandbox |-> {}, owner |-> {}]
      PROVE  LimitingLayers(evidence, required, floor, cents) = required
  BY <1>1 DEF LimitingLayers, Layers, RateShort, AiShort, SandboxShort, OwnerShort
<1>2. ASSUME NEW wider \in SUBSET Layers, NEW higher \in Int, NEW dearer \in Int,
             required \subseteq wider, floor <= higher, cents <= dearer,
             NEW l \in LimitingLayers(evidence, required, floor, cents)
      PROVE  l \in LimitingLayers(evidence, wider, higher, dearer)
  <2>1. l \in Layers /\ l \in wider
    BY <1>2, ByLayer
  <2>2. CASE l = "github_rate"
    <3>1. RateShort(evidence.rate, floor) BY <1>2, <2>2, ByLayer
    <3>2. RateShort(evidence.rate, higher) BY <1>2, <3>1, AskingMoreDeniesMore
    <3> QED BY <2>1, <2>2, <3>2, ByLayer
  <2>3. CASE l = "ai_spend"
    <3>1. AiShort(evidence.ai, cents) BY <1>2, <2>3, ByLayer
    <3>2. AiShort(evidence.ai, dearer) BY <1>2, <3>1, AskingMoreDeniesMore
    <3> QED BY <2>1, <2>3, <3>2, ByLayer
  <2>4. CASE l = "sandbox"
    <3>1. SandboxShort(evidence.sandbox) BY <1>2, <2>4, ByLayer
    <3> QED BY <2>1, <2>4, <3>1, ByLayer
  <2>5. CASE l = "owner_politeness"
    <3>1. OwnerShort(evidence.owner) BY <1>2, <2>5, ByLayer
    <3> QED BY <2>1, <2>5, <3>1, ByLayer
  <2> QED BY <2>1, <2>2, <2>3, <2>4, <2>5 DEF Layers
<1> QED BY <1>1, <1>2

\* What a set of tiers earns is a level, and more tiers earn no less.
LEMMA EarnedGrows ==
  ASSUME NEW observed \in SUBSET Tiers, NEW more \in SUBSET Tiers, observed \subseteq more
  PROVE  Earned(observed) \in Autonomy /\ Earned(observed) <= Earned(more)
<1>1. /\ "first_stack" \in Tiers /\ "read_only_fleet" \in Tiers
      /\ "write_dry_run" \in Tiers /\ "release_gate" \in Tiers
  BY DEF Tiers
<1>2. ASSUME NEW s \in SUBSET Tiers
      PROVE  /\ ~ {"first_stack", "read_only_fleet"} \subseteq s => Earned(s) = 0
             /\ {"first_stack", "read_only_fleet"} \subseteq s /\ "write_dry_run" \notin s => Earned(s) = 1
             /\ {"first_stack", "read_only_fleet", "write_dry_run"} \subseteq s
                  /\ "release_gate" \notin s => Earned(s) = 2
             /\ {"first_stack", "read_only_fleet", "write_dry_run", "release_gate"} \subseteq s => Earned(s) = 3
  BY DEF Earned, Observe, Propose, ActWithApproval, Act, Tiers
<1> QED BY <1>2 DEF Autonomy, Observe, Act, Tiers

(***************************************************************************)
(* Autonomy is never amplified: a mandate acts with no more than it asked  *)
(* for and its evidence has earned, with no more than proposals while      *)
(* writes are slowed down, and losing evidence, asking for less or being   *)
(* slowed down never raises what it may do.                                *)
(***************************************************************************)
THEOREM AutonomyIsEarned ==
  ASSUME NEW requested \in Autonomy, NEW observed \in SUBSET Tiers, NEW slowdown \in BOOLEAN
  PROVE  /\ Effective(requested, observed, slowdown) \in Autonomy
         /\ Effective(requested, observed, slowdown) <= requested
         /\ Effective(requested, observed, slowdown) <= Earned(observed)
         /\ slowdown => Effective(requested, observed, slowdown) <= Propose
         /\ \A less \in Autonomy, fewer \in SUBSET observed, slower \in BOOLEAN :
              less <= requested /\ (slowdown => slower) =>
                Effective(less, fewer, slower) <= Effective(requested, observed, slowdown)
<1>1. Autonomy = 0..3 /\ Propose = 1
  BY DEF Autonomy, Observe, Act, Propose
<1>2. ASSUME NEW fewer \in SUBSET observed
      PROVE  Earned(fewer) \in 0..3 /\ Earned(fewer) <= Earned(observed) /\ Earned(observed) \in 0..3
  BY <1>1, EarnedGrows
<1>3. Earned(observed) \in 0..3
  BY <1>1, EarnedGrows
<1>4. /\ Effective(requested, observed, slowdown) \in Autonomy
      /\ Effective(requested, observed, slowdown) <= requested
      /\ Effective(requested, observed, slowdown) <= Earned(observed)
      /\ slowdown => Effective(requested, observed, slowdown) <= Propose
  BY <1>1, <1>3 DEF Effective, Lesser
<1>5. ASSUME NEW less \in Autonomy, NEW fewer \in SUBSET observed, NEW slower \in BOOLEAN,
             less <= requested, slowdown => slower
      PROVE  Effective(less, fewer, slower) <= Effective(requested, observed, slowdown)
  BY <1>1, <1>2, <1>5 DEF Effective, Lesser
<1> QED BY <1>4, <1>5
=============================================================================
