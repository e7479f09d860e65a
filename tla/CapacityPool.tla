---------------------------- MODULE CapacityPool ----------------------------
(***************************************************************************)
(* What a layer of the pull-request budget promises, independently of how  *)
(* HiveCore keeps its rows: a slot is held at most once in its life, a     *)
(* slot that is given back never returns to the pool, and a slot is taken  *)
(* one at a time, only while the holders, the new one included, fit within *)
(* the limit in force.  A limit lowered below the present use evicts       *)
(* nobody: it only stops new grants.                                       *)
(***************************************************************************)
EXTENDS Naturals, FiniteSets

CONSTANT Slots

VARIABLES
  held,    \* the slots that count against the limit
  spent,   \* the slots that were held once and were given back
  limit    \* the ceiling in force

poolVars == <<held, spent, limit>>

PoolInit ==
  /\ held = {}
  /\ spent = {}
  /\ limit \in Nat

(***************************************************************************)
(* One transaction of the ledger: any number of slots are given back, and  *)
(* at most one is taken.                                                   *)
(***************************************************************************)
Turnover ==
  /\ held' \in SUBSET Slots
  /\ spent' = spent \cup (held \ held')
  /\ LET taken == held' \ held
     IN  /\ taken \cap spent' = {}
         /\ \A s, t \in taken : s = t
         /\ taken # {} => Cardinality(held') <= limit
  /\ UNCHANGED limit

(***************************************************************************)
(* The operator saves another ceiling.                                     *)
(***************************************************************************)
ChangeLimit ==
  /\ limit' \in Nat
  /\ UNCHANGED <<held, spent>>

PoolNext == Turnover \/ ChangeLimit

PoolSpec == PoolInit /\ [][PoolNext]_poolVars
=============================================================================
