---------------------------- MODULE MCUserSession ----------------------------
(* Small instances of UserSession.                                         *)
EXTENDS UserSession, TLC

CONSTANTS Asks, SignOuts, Kills, Changes

MCBudget == [i \in Inputs |->
    CASE i = "ask" -> Asks [] i = "signOut" -> SignOuts
      [] i = "kill" -> Kills [] i = "network" -> Changes]

Symmetry == Permutations(Guests)
=============================================================================
