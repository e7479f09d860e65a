---------------------------- MODULE MCEngagements ----------------------------
(***************************************************************************)
(* Two messages on one pull request: two requests, or one and a stop, an   *)
(* acknowledgement or a message that is unfit.                             *)
(***************************************************************************)
EXTENDS Engagements

CONSTANTS m1, m2   \* model values

MCConversations == {[m \in Messages |-> IF m = m1 THEN "request" ELSE text] : text \in Texts}
=============================================================================
