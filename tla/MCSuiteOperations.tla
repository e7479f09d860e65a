------------------------- MODULE MCSuiteOperations -------------------------
(***************************************************************************)
(* One suite run of two steps, two calls for the step that waits for an    *)
(* approval and two fleet launches under a suite pause.                    *)
(***************************************************************************)
EXTENDS SuiteOperations

CONSTANTS r1, c1, c2   \* model values
=============================================================================
