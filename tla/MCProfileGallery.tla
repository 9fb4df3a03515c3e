-------------------------- MODULE MCProfileGallery --------------------------
(* ProfileGallery for TLC: the bounds on the inputs come from the .cfg.    *)
EXTENDS ProfileGallery

CONSTANTS Profiles, Modals, Deletes, Fails

MCBudget ==
    [i \in Inputs |-> CASE i = "profile" -> Profiles [] i = "modal" -> Modals
                        [] i = "delete" -> Deletes [] i = "fail" -> Fails]
=============================================================================
