---------------------------- MODULE MCReaperRuns ----------------------------
(***************************************************************************)
(* Up to two issues, each with a work directory of its own.                *)
(***************************************************************************)
EXTENDS ReaperRuns

CONSTANTS i1, i2   \* model values

\* Two issues for one run, with model calls that may cost one unit more than
\* they reserved, the same issue for two runs, one issue with a fault, or one
\* with tests that write to the clone.
World(first, second, failures, litter, excess) ==
  [finds |-> <<first, second>>, faults |-> failures, litter |-> litter, excess |-> excess]
MCWorlds ==
  {World({i1, i2}, {}, 0, FALSE, 1),
   World({i1}, {i1}, 0, FALSE, 0),
   World({i1}, {}, 1, FALSE, 0),
   World({i1}, {}, 0, TRUE, 0)}
MCWorkPath == [i \in Issues |-> i]
=============================================================================
