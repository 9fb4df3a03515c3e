----------------------------- MODULE UserRecord -----------------------------
(***************************************************************************)
(* The JSON record users/<key> of the realtime database, as CapDatabase    *)
(* reads and writes it.  Two things are kept of it: the number stored      *)
(* under photoLimit, and whether any other child (images/<id>, profileUrl) *)
(* is there.  name and isAnonymous are written with photoLimit only.       *)
(***************************************************************************)
EXTENDS Integers, Sequences

CONSTANT Limit   \* CapUser.photoLimit: 100 for an account, 10 for a guest

ASSUME LimitAssumption == Limit \in Nat \ {0}

Missing == -2                    \* no photoLimit child (no count gets there)
Quota   == {Missing} \cup 0..Limit

RecordOf(Q) == [limit : Q, child : BOOLEAN]
Record   == RecordOf(Quota)
NoRecord == [limit |-> Missing, child |-> FALSE]

-----------------------------------------------------------------------------
(* A setValue names the path it replaces: the whole record, or one child.  *)

WriteOf(Q) == [at : {"record", "photoLimit", "child"}, limit : Q, child : BOOLEAN]

WholeRecord(r)   == [at |-> "record", limit |-> r.limit, child |-> r.child]
FirstRecord      == WholeRecord([limit |-> Limit, child |-> FALSE])
SetPhotoLimit(n) == [at |-> "photoLimit", limit |-> n, child |-> FALSE]
SetChild         == [at |-> "child", limit |-> Missing, child |-> TRUE]

\* ws[i] is the last write of ws at one of the paths P.
IsLast(ws, i, P) ==
    /\ ws[i].at \in P
    /\ \A j \in DOMAIN ws : ws[j].at \in P => j <= i

\* A field f of r after the writes ws, in order: the last write to its path
\* or to the whole record decides.
Last(ws, P) == CHOOSE i \in DOMAIN ws : IsLast(ws, i, P)
Touched(ws, P) == \E i \in DOMAIN ws : IsLast(ws, i, P)

LimitAfter(r, ws) ==
    IF Touched(ws, {"record", "photoLimit"})
    THEN ws[Last(ws, {"record", "photoLimit"})].limit
    ELSE r.limit

ChildAfter(r, ws) ==
    IF Touched(ws, {"record", "child"})
    THEN ws[Last(ws, {"record", "child"})].child
    ELSE r.child

Overlay(r, ws) == [limit |-> LimitAfter(r, ws), child |-> ChildAfter(r, ws)]

Apply(r, w) == Overlay(r, <<w>>)
=============================================================================
