---------------------------- MODULE QuotaCounter ----------------------------
(***************************************************************************)
(* What a photo limit promises: a user starts with Limit photos, each      *)
(* photo sent to detection takes one, and a photo is refused only when     *)
(* none is left.                                                           *)
(***************************************************************************)
EXTENDS Naturals

CONSTANT Limit

VARIABLES remaining, granted, denied

counter == <<remaining, granted, denied>>

Init == remaining = Limit /\ granted = 0 /\ denied = 0

Grant == /\ remaining > 0
         /\ remaining' = remaining - 1
         /\ granted' = granted + 1
         /\ UNCHANGED denied

Deny == /\ remaining = 0
        /\ denied' = denied + 1
        /\ UNCHANGED <<remaining, granted>>

Next == Grant \/ Deny

Spec == Init /\ [][Next]_counter
=============================================================================
