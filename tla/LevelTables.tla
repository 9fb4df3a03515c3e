---------------------------- MODULE LevelTables ----------------------------
(***************************************************************************)
(* The tables of leveldb, the store the Firebase client links for its disk  *)
(* cache: which file of which level holds an entry, how a read finds it, and *)
(* which files a compaction takes and what it keeps (db/version_set.cc,      *)
(* db/dbformat.cc and the loop of DoCompactionWork in db/db_impl.cc).        *)
(*                                                                         *)
(* An entry is [key, seq, del]: a user key, the sequence number of the write *)
(* and whether it is a deletion; the value is known by the number.  A file   *)
(* is [num, ents, smallest, largest]; a version gives every level its set of files.  Sizes in   *)
(* bytes are numbers of entries.                                            *)
(***************************************************************************)
EXTENDS Integers, FiniteSets, FiniteSetsExt

CONSTANTS Keys,             \* user keys, numbers in the comparator's order
          NumLevels,        \* config::kNumLevels
          MaxMemLevel,      \* config::kMaxMemCompactLevel
          GrandLimit,       \* MaxGrandParentOverlapBytes
          ExpandLimit       \* ExpandedCompactionByteSizeLimit

\* The keys in use are numbered in the comparator's order.
ASSUME KeysAssumption == /\ Keys \subseteq Nat
                         /\ \E lo, hi \in Keys : \A k \in Keys : lo <= k /\ k <= hi
ASSUME LevelsAssumption == NumLevels \in Nat /\ MaxMemLevel \in Nat /\ MaxMemLevel < NumLevels

Levels == 0 .. NumLevels - 1

\* The order of internal keys: user keys ascending, newest entry first.
Before(a, b) == a.key < b.key \/ (a.key = b.key /\ a.seq > b.seq)

\* FileMetaData of a table with these entries.
File(num, ents) ==
    [num |-> num, ents |-> ents,
     smallest |-> CHOOSE e \in ents : \A o \in ents \ {e} : Before(e, o),
     largest |-> CHOOSE e \in ents : \A o \in ents \ {e} : Before(o, e)]

\* GetRange, in user keys.
FirstKey(fs) == Min({f.smallest.key : f \in fs})
LastKey(fs) == Max({f.largest.key : f \in fs})

Size(fs) == Cardinality(UNION {f.ents : f \in fs})
FilesOf(v) == UNION {v[l] : l \in Levels}
Numbers(fs) == {f.num : f \in fs}

(***************************************************************************)
(* Reading.                                                                 *)
(***************************************************************************)
\* The newest entry of user key k that a read at sequence number snap sees
\* in a table or memtable, as a set of at most one entry.
Seek(ents, k, snap) ==
    LET seen == {e \in ents : e.key = k /\ e.seq <= snap}
    IN  {e \in seen : \A o \in seen : o.seq <= e.seq}

\* Level 0: files may overlap and the newest one that answers wins.
SeekLevel0(fs, k, snap) ==
    LET hits == {f \in fs : Seek(f.ents, k, snap) # {}}
    IN  UNION {Seek(f.ents, k, snap) :
                 f \in {g \in hits : \A h \in hits : h.num <= g.num}}

\* A deeper level: only the first file that ends at or after the sought
\* internal key is opened.
SeekLevel(fs, k, snap) ==
    LET from == [key |-> k, seq |-> snap]
        after == {f \in fs : ~Before(f.largest, from)}
    IN  UNION {Seek(f.ents, k, snap) :
                 f \in {g \in after : \A h \in after \ {g} : Before(g.largest, h.largest)}}

\* Level by level: the first answer ends the search.
SeekVersion(v, k, snap) ==
    LET at == [l \in Levels |-> IF l = 0 THEN SeekLevel0(v[0], k, snap)
                                         ELSE SeekLevel(v[l], k, snap)]
        hits == {l \in Levels : at[l] # {}}
    IN  IF hits = {} THEN {} ELSE at[Min(hits)]

(***************************************************************************)
(* Choosing files.                                                          *)
(***************************************************************************)
Overlapping(fs, lo, hi) == {f \in fs : f.largest.key >= lo /\ f.smallest.key <= hi}

\* GetOverlappingInputs: on level 0 a file that reaches beyond the range
\* widens it, and the search starts again; what it ends with are the files that
\* every range has to contain that no file reaches beyond.
OverlappingInputs(v, l, lo, hi) ==
    LET within(f, a, b) == a <= f.smallest.key /\ f.largest.key <= b
        closed(a, b) == a <= lo /\ hi <= b /\ \A f \in Overlapping(v[0], a, b) : within(f, a, b)
    IN  IF l = 0 THEN {f \in v[0] : \A a, b \in Keys : closed(a, b) => within(f, a, b)}
                 ELSE Overlapping(v[l], lo, hi)

\* A wrong PickLevelForMemTableOutput, which looks at level 0 only.
PickDeepestLevel(v, lo, hi) == IF Overlapping(v[0], lo, hi) # {} THEN 0 ELSE MaxMemLevel

\* The level a flushed memtable is put on: as deep as nothing overlaps it.
PickLevelForMemTableOutput(v, lo, hi) ==
    LET free(m) ==
          /\ Overlapping(v[m], lo, hi) = {}
          /\ m + 1 \in Levels => Size(OverlappingInputs(v, m + 1, lo, hi)) <= GrandLimit
    IN  IF Overlapping(v[0], lo, hi) # {} THEN 0
        ELSE Max({l \in 0 .. MaxMemLevel : \A m \in 1 .. l : free(m)})

\* SetupOtherInputs: the files of the next level the range touches, and more
\* files of this level when that adds none there.
SetupOtherInputs(v, l, in0) ==
    LET in1 == OverlappingInputs(v, l + 1, FirstKey(in0), LastKey(in0))
        all == in0 \cup in1
        exp0 == OverlappingInputs(v, l, FirstKey(all), LastKey(all))
        exp1 == OverlappingInputs(v, l + 1, FirstKey(exp0), LastKey(exp0))
        grows == /\ in1 # {}
                 /\ Cardinality(exp0) > Cardinality(in0)
                 /\ Size(in1) + Size(exp0) < ExpandLimit
                 /\ Cardinality(exp1) = Cardinality(in1)
    IN  IF grows THEN <<exp0, exp1>> ELSE <<in0, in1>>

\* A wrong InputsFrom, which takes one file of level 0 as of any other.
InputsFromOne(v, l, f) == SetupOtherInputs(v, l, {f})

\* Automatic compactions of level 0 take every file that overlaps the chosen one.
InputsFrom(v, l, f) ==
    SetupOtherInputs(v, l, IF l = 0 THEN OverlappingInputs(v, 0, FirstKey({f}), LastKey({f}))
                                    ELSE {f})

Grandparents(v, l, ins) ==
    IF l + 2 \in Levels THEN OverlappingInputs(v, l + 2, FirstKey(ins), LastKey(ins)) ELSE {}

(***************************************************************************)
(* What a compaction keeps.                                                 *)
(***************************************************************************)
\* A wrong IsBaseLevelForKey, which begins a level too deep.
IsBaseTooDeep(v, l, k) == \A m \in l + 3 .. NumLevels - 1 : Overlapping(v[m], k, k) = {}

IsBaseLevelForKey(v, l, k) ==
    \A m \in l + 2 .. NumLevels - 1 : Overlapping(v[m], k, k) = {}

\* An entry is dropped when a newer one of its key is visible to every
\* snapshot (A), or when it is a deletion with nothing left to hide.
Dropped(e, ents, v, l, smallest) ==
    LET newer == {o \in ents : o.key = e.key /\ o.seq > e.seq}
    IN  \/ newer # {} /\ Min({o.seq : o \in newer}) <= smallest
        \/ e.del /\ e.seq <= smallest /\ IsBaseLevelForKey(v, l, e.key)

Kept(ins, v, l, smallest) ==
    LET ents == UNION {f.ents : f \in ins}
    IN  {e \in ents : ~Dropped(e, ents, v, l, smallest)}

\* The ways to cut the kept entries, in order, into files: a file is closed
\* when it is big enough or overlaps too much of the level after the next,
\* and the sizes of values decide that.  "starts" holds each file's first
\* entry; without splitsKeys it is the newest of its user key.
Outputs(kept, maxOutputs, splitsKeys) ==
    LET newest == {e \in kept : \A o \in kept : o.key = e.key => o.seq <= e.seq}
        file(starts, s) == {e \in kept : /\ ~Before(e, s)
                                         /\ \A o \in starts : Before(s, o) => Before(e, o)}
        first == {e \in kept : \A o \in kept \ {e} : Before(e, o)}
        cuts == {c \cup first : c \in SUBSET (IF splitsKeys THEN kept ELSE newest)}
    IN  {{file(starts, s) : s \in starts} : starts \in {c \in cuts : Cardinality(c) <= maxOutputs}}
=============================================================================
