-------------------------- MODULE MCPhotoQuotaAlone --------------------------
(* A small instance of PhotoQuotaAlone.                                    *)
EXTENDS PhotoQuotaAlone

CONSTANTS Setups, Taps, Names, Updates, Drops

MCBudget == [i \in Inputs |->
    CASE i = "setupUser" -> Setups [] i = "photoLimit" -> Taps [] i = "getName" -> Names
      [] i = "update" -> Updates [] i = "drop" -> Drops [] i = "kill" -> 0]
=============================================================================
