---------------------------- MODULE MCLevelFiles ----------------------------
(***************************************************************************)
(* The requests of manual compactions, for TLC.                              *)
(***************************************************************************)
EXTENDS LevelFiles

NoRequests == {}
OneKey == {<<1, Min(Keys), Min(Keys)>>}
=============================================================================
