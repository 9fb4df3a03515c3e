---------------------------- MODULE MCPhotoQuota ----------------------------
(* Small instances of PhotoQuota.                                          *)
EXTENDS PhotoQuota, TLC

CONSTANTS Setups, Taps, Names, Updates, Drops, Kills

MCBudget == [i \in Inputs |->
    CASE i = "setupUser" -> Setups [] i = "photoLimit" -> Taps [] i = "getName" -> Names
      [] i = "update" -> Updates [] i = "drop" -> Drops [] i = "kill" -> Kills]

Symmetry == Permutations(Devices) \cup Permutations(Photos)
=============================================================================
