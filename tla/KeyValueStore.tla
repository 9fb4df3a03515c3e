--------------------------- MODULE KeyValueStore ---------------------------
(***************************************************************************)
(* What a leveldb database promises its users (include/leveldb/db.h): a     *)
(* dictionary, and snapshots that keep showing it as it was.                *)
(***************************************************************************)
CONSTANTS Keys, Values, Missing, Snapshots

VARIABLES dict,         \* what a Get without a snapshot returns
          views         \* what a Get with each snapshot in use returns

vars == <<dict, views>>

Init == /\ dict = [k \in Keys |-> Missing]
        /\ views = [s \in {} |-> dict]

\* Put and Delete: one key gets another value, or none.
Write(k) == /\ dict'[k] \in Values \cup {Missing}
            /\ \A j \in Keys \ {k} : dict'[j] = dict[j]
            /\ UNCHANGED views

GetSnapshot(s) == /\ s \notin DOMAIN views
                  /\ views' = [t \in DOMAIN views \cup {s} |->
                                 IF t = s THEN dict ELSE views[t]]
                  /\ UNCHANGED dict

ReleaseSnapshot(s) == /\ s \in DOMAIN views
                      /\ views' = [t \in DOMAIN views \ {s} |-> views[t]]
                      /\ UNCHANGED dict

Next == \/ \E k \in Keys : Write(k)
        \/ \E s \in Snapshots : GetSnapshot(s) \/ ReleaseSnapshot(s)

Spec == Init /\ [][Next]_vars
=============================================================================
