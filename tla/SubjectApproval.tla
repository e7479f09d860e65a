--------------------------- MODULE SubjectApproval ---------------------------
(***************************************************************************)
(* What approval means for one subject, independently of the rows that     *)
(* record it and of the tasks that spend it: a subject is asked about, is  *)
(* granted, and once its grant starts being consumed nobody takes it back; *)
(* only the consumption ends it, after which the subject must be asked     *)
(* about again.  Whoever asks in the transaction that finds the last grant *)
(* expired starts anew.                                                    *)
(***************************************************************************)

VARIABLE stage    \* "none", "pending", "granted" or "consuming"

LifecycleInit == stage = "none"

Ask     == stage \in {"none", "pending", "granted"} /\ stage' = "pending"
Allow   == stage = "pending" /\ stage' = "granted"
Close   == stage \in {"pending", "granted"} /\ stage' = "none"
Begin   == stage = "granted" /\ stage' = "consuming"
End     == stage = "consuming" /\ stage' = "none"

LifecycleNext == Ask \/ Allow \/ Close \/ Begin \/ End

LifecycleSpec == LifecycleInit /\ [][LifecycleNext]_stage
=============================================================================
