---------------------------- MODULE MCGameCharge ----------------------------
(***************************************************************************)
(* Instances of GameCharge.                                                *)
(***************************************************************************)
EXTENDS GameCharge

\* UserIDs of a request may be zero or negative.
IDs == {-1} \cup Users
GameNumbers == {0} \cup Games
=============================================================================
