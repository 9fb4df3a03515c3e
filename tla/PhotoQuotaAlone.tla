--------------------------- MODULE PhotoQuotaAlone ---------------------------
(***************************************************************************)
(* PhotoQuota on one device whose user asks again only when the previous   *)
(* read was answered, and whose process is not killed: then the limit that *)
(* the device sees, its unconfirmed writes included, is a QuotaCounter,    *)
(* however often the connection breaks.                                    *)
(***************************************************************************)
EXTENDS PhotoQuota

CONSTANT Device

\* The record once everything unconfirmed has arrived; a user without a
\* record has the whole limit before them.
Seen      == Overlay(record, Pending(Device))
Remaining == IF Seen.limit = Missing THEN Limit ELSE Seen.limit

Counter == INSTANCE QuotaCounter WITH remaining <- Remaining

\* photoLimit is an atomic counter for a user alone on one device: every
\* photo granted takes one, and the alert comes only when none is left.
CountsExactly == Counter!Spec

\* The device loses sight of a profile picture only to setupUser, which writes
\* the whole record: no confirmation, held back or not, no break and no write
\* sent once more undoes what update(profileUrl:) set.
PictureStays ==
    [][Seen.child => Seen'.child \/ SetupCallback(Device) \/ BadCast(Device)]_vars
=============================================================================
