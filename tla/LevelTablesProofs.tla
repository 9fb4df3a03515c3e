------------------------- MODULE LevelTablesProofs -------------------------
(***************************************************************************)
(* Lemmas about the operators of LevelTables.                               *)
(***************************************************************************)
EXTENDS LevelTables, FiniteSetTheorems, WellFoundedInduction, TLAPS

Records == [key : Keys, seq : Nat, del : BOOLEAN]

\* A set of entries no two of which have one sequence number.
Distinct(ents) == \A a, b \in ents : a.seq = b.seq => a = b

(***************************************************************************)
(* Numbers.                                                                 *)
(***************************************************************************)
\* A set of natural numbers that is not empty has a least member.
LEMMA LeastNumber ==
    ASSUME NEW T, T \subseteq Nat, T # {}
    PROVE  Min(T) \in T /\ \A x \in T : Min(T) <= x
<1>. DEFINE upTo == {0 .. x : x \in T}
<1>1. upTo \subseteq FiniteSubsetsOf(Nat)
  <2>1. \A x \in T : IsFiniteSet(0 .. x)
    BY FS_Interval
  <2>. QED  BY <2>1 DEF upTo, FiniteSubsetsOf
<1>2. upTo # {}
  BY DEF upTo
<1>3. PICK u \in upTo : \A w \in upTo : ~ (<<w, u>> \in StrictSubsetOrdering(Nat))
  BY <1>1, <1>2, FS_StrictSubsetOrderingWellFounded, WFMin
<1>4. PICK m \in T : u = 0 .. m
  BY DEF upTo
<1>5. ASSUME NEW x \in T, x < m  PROVE FALSE
  <2>1. 0 .. x \in upTo
    BY DEF upTo
  <2>2. 0 .. x \subseteq u /\ 0 .. x # u /\ 0 .. x \subseteq Nat /\ u \subseteq Nat
    BY <1>4, <1>5
  <2>. QED  BY <1>3, <2>1, <2>2 DEF StrictSubsetOrdering
<1>6. \A x \in T : m <= x
  BY <1>5
<1>. QED  BY <1>6 DEF Min

\* A set of natural numbers that is bounded and not empty has a greatest member.
LEMMA GreatestNumber ==
    ASSUME NEW T, T \subseteq Nat, T # {}, NEW top \in Nat, \A x \in T : x <= top
    PROVE  Max(T) \in T /\ \A x \in T : x <= Max(T)
<1>. DEFINE D == {n \in Nat : \E x \in T : n + x = top}
<1>1. ASSUME NEW x \in T  PROVE top - x \in D /\ (top - x) + x = top
  BY DEF D
<1>2. PICK d \in D : \A n \in D : d <= n
  <2>1. D # {} /\ D \subseteq Nat
    BY <1>1 DEF D
  <2>. QED  BY ONLY <2>1, LeastNumber
<1>3. PICK x \in T : d + x = top
  BY <1>2 DEF D
<1>4. ASSUME NEW y \in T  PROVE y <= x
  <2>1. d <= top - y /\ d \in Nat /\ x \in Nat /\ y \in Nat
    BY <1>1, <1>2 DEF D
  <2>. QED  BY <1>3, <2>1
<1>. QED  BY <1>4 DEF Max

(***************************************************************************)
(* Entries in their order.                                                  *)
(***************************************************************************)
\* Entries that are not empty, each with its own bounded number, have a first one.
LEMMA FirstEntry ==
    ASSUME NEW ents, ents # {}, ents \subseteq Records, Distinct(ents),
           NEW top \in Nat, \A e \in ents : e.seq <= top
    PROVE  \E e \in ents : \A o \in ents \ {e} : Before(e, o)
<1>. DEFINE keys == {e.key : e \in ents}
<1>1. PICK k \in keys : \A j \in keys : k <= j
  <2>1. keys # {} /\ keys \subseteq Nat
    BY KeysAssumption DEF Records, keys
  <2>. QED  BY ONLY <2>1, LeastNumber
<1>. DEFINE seqs == {q \in Nat : \E e \in ents : e.key = k /\ e.seq = q}
<1>2. PICK q \in seqs : \A r \in seqs : r <= q
  <2>1. seqs # {} /\ seqs \subseteq Nat /\ \A r \in seqs : r <= top
    BY <1>1 DEF Records, seqs, keys
  <2>. QED  BY ONLY <2>1, top \in Nat, GreatestNumber
<1>3. PICK e \in ents : e.key = k /\ e.seq = q
  BY <1>2 DEF seqs
<1>4. ASSUME NEW o \in ents \ {e}  PROVE Before(e, o)
  <2>1. k <= o.key /\ o.key \in Nat /\ k \in Nat
    BY <1>1, KeysAssumption DEF keys, Records
  <2>2. o.key = k => o.seq \in seqs
    BY DEF seqs, Records
  <2>3. o.seq # e.seq /\ o.seq \in Nat /\ e.seq \in Nat
    BY DEF Distinct, Records
  <2>. QED  BY <1>2, <1>3, <2>1, <2>2, <2>3 DEF Before
<1>. QED  BY <1>4

\* They have a last one as well.
LEMMA LastEntry ==
    ASSUME NEW ents, ents # {}, ents \subseteq Records, Distinct(ents),
           NEW top \in Nat, \A e \in ents : e.seq <= top
    PROVE  \E e \in ents : \A o \in ents \ {e} : Before(o, e)
<1>. DEFINE keys == {e.key : e \in ents}
<1>1. PICK k \in keys : \A j \in keys : j <= k
  <2>1. keys # {} /\ keys \subseteq Keys
    BY DEF Records, keys
  <2>2. PICK hi \in Nat : \A j \in keys : j <= hi
    BY <2>1, KeysAssumption
  <2>3. keys # {} /\ keys \subseteq Nat
    BY <2>1, KeysAssumption
  <2>. QED  BY ONLY <2>2, <2>3, GreatestNumber
<1>. DEFINE seqs == {q \in Nat : \E e \in ents : e.key = k /\ e.seq = q}
<1>2. PICK q \in seqs : \A r \in seqs : q <= r
  <2>1. seqs # {} /\ seqs \subseteq Nat
    BY <1>1 DEF Records, seqs, keys
  <2>. QED  BY ONLY <2>1, LeastNumber
<1>3. PICK e \in ents : e.key = k /\ e.seq = q
  BY <1>2 DEF seqs
<1>4. ASSUME NEW o \in ents \ {e}  PROVE Before(o, e)
  <2>1. o.key <= k /\ o.key \in Nat /\ k \in Nat
    BY <1>1, KeysAssumption DEF keys, Records
  <2>2. o.key = k => o.seq \in seqs
    BY DEF seqs, Records
  <2>3. o.seq # e.seq /\ o.seq \in Nat /\ e.seq \in Nat
    BY DEF Distinct, Records
  <2>. QED  BY <1>2, <1>3, <2>1, <2>2, <2>3 DEF Before
<1>. QED  BY <1>4

(***************************************************************************)
(* Tables.                                                                  *)
(***************************************************************************)
\* A table has entries, and its range is theirs.
Table(f) ==
    /\ f.ents # {} /\ f.ents \subseteq Records
    /\ f.smallest \in f.ents /\ f.largest \in f.ents
    /\ \A o \in f.ents : o = f.smallest \/ Before(f.smallest, o)
    /\ \A o \in f.ents : o = f.largest \/ Before(o, f.largest)

\* Does f have keys between a and b?
Touches(f, a, b) == f.largest.key >= a /\ f.smallest.key <= b

\* Do the tables have no keys in common, as ranges?
Apart(f, g) == f.largest.key < g.smallest.key \/ g.largest.key < f.smallest.key

EntsOf(fs) == UNION {f.ents : f \in fs}

\* What a file of these entries is.
LEMMA FileIsTable ==
    ASSUME NEW n, NEW ents, ents # {}, ents \subseteq Records, Distinct(ents),
           NEW top \in Nat, \A e \in ents : e.seq <= top
    PROVE  Table(File(n, ents)) /\ File(n, ents).num = n /\ File(n, ents).ents = ents
<1>. DEFINE first == CHOOSE e \in ents : \A o \in ents \ {e} : Before(e, o)
            last == CHOOSE e \in ents : \A o \in ents \ {e} : Before(o, e)
<1>1. first \in ents /\ \A o \in ents \ {first} : Before(first, o)
  <2>1. \E e \in ents : \A o \in ents \ {e} : Before(e, o)
    BY FirstEntry
  <2>. QED  BY <2>1, Zenon DEF first
<1>2. last \in ents /\ \A o \in ents \ {last} : Before(o, last)
  <2>1. \E e \in ents : \A o \in ents \ {e} : Before(o, e)
    BY LastEntry
  <2>. QED  BY <2>1, Zenon DEF last
<1>3. File(n, ents) = [num |-> n, ents |-> ents, smallest |-> first, largest |-> last]
  BY DEF File, first, last
<1>. HIDE DEF first, last
<1>. QED  BY <1>1, <1>2, <1>3 DEF Table

\* The keys of a table lie in its range.
LEMMA TableKeys ==
    ASSUME NEW f, Table(f)
    PROVE  /\ f.smallest.key \in Keys /\ f.largest.key \in Keys
           /\ f.smallest.key \in Nat /\ f.largest.key \in Nat
           /\ f.smallest.key <= f.largest.key
           /\ \A e \in f.ents : f.smallest.key <= e.key /\ e.key <= f.largest.key
<1>1. \A e \in f.ents : e.key \in Keys /\ e.key \in Nat
  BY KeysAssumption DEF Table, Records
<1>2. \A e \in f.ents : f.smallest.key <= e.key /\ e.key <= f.largest.key
  BY <1>1 DEF Table, Before
<1>. QED  BY <1>1, <1>2 DEF Table

\* GetRange gives the least and the greatest key of tables that are not empty.
LEMMA RangeOf ==
    ASSUME NEW fs, fs # {}, \A f \in fs : Table(f)
    PROVE  /\ FirstKey(fs) \in Keys /\ LastKey(fs) \in Keys
           /\ FirstKey(fs) <= LastKey(fs)
           /\ \A f \in fs : FirstKey(fs) <= f.smallest.key /\ f.largest.key <= LastKey(fs)
           /\ \E f \in fs : f.smallest.key = FirstKey(fs)
           /\ \E f \in fs : f.largest.key = LastKey(fs)
<1>. DEFINE first == {f.smallest.key : f \in fs}
            last == {f.largest.key : f \in fs}
<1>1. \A f \in fs : /\ f.smallest.key \in Keys /\ f.largest.key \in Keys
                    /\ f.smallest.key <= f.largest.key
  BY TableKeys
<1>2. Min(first) \in first /\ \A k \in first : Min(first) <= k
  <2>1. first # {} /\ first \subseteq Nat
    BY <1>1, KeysAssumption DEF first
  <2>. QED  BY ONLY <2>1, LeastNumber
<1>3. Max(last) \in last /\ \A k \in last : k <= Max(last)
  <2>1. last # {} /\ last \subseteq Keys
    BY <1>1 DEF last
  <2>2. PICK hi \in Nat : \A j \in last : j <= hi
    BY <2>1, KeysAssumption
  <2>3. last # {} /\ last \subseteq Nat
    BY <2>1, KeysAssumption
  <2>. QED  BY ONLY <2>2, <2>3, GreatestNumber
<1>4. FirstKey(fs) \in first /\ LastKey(fs) \in last
  BY <1>2, <1>3 DEF FirstKey, LastKey, first, last
<1>5. \A f \in fs : FirstKey(fs) <= f.smallest.key /\ f.largest.key <= LastKey(fs)
  BY <1>2, <1>3 DEF FirstKey, LastKey, first, last
<1>6. \A f \in fs : f.smallest.key \in Nat /\ f.largest.key \in Nat
  BY <1>1, KeysAssumption
<1>. QED  BY <1>1, <1>4, <1>5, <1>6, KeysAssumption DEF first, last

(***************************************************************************)
(* Choosing files.                                                          *)
(***************************************************************************)
Tables(v) == \A l \in Levels : \A f \in v[l] : Table(f)

\* No range of keys lies between some of the files without touching one.
Solid(fs) ==
    \A a, b \in Keys :
        a <= b /\ (\A f \in fs : ~Touches(f, a, b))
            => \/ \A f \in fs : b < f.smallest.key
               \/ \A f \in fs : f.largest.key < a

\* GetOverlappingInputs takes files of the level, every one in the range included.
LEMMA InputsTouch ==
    ASSUME NEW v, NEW l \in Levels, Tables(v), NEW lo \in Keys, NEW hi \in Keys
    PROVE  /\ OverlappingInputs(v, l, lo, hi) \subseteq v[l]
           /\ \A f \in v[l] : Touches(f, lo, hi) => f \in OverlappingInputs(v, l, lo, hi)
<1>1. 0 \in Levels
  BY LevelsAssumption DEF Levels
<1>2. CASE l # 0
  BY <1>2 DEF OverlappingInputs, Overlapping, Touches
<1>3. CASE l = 0
  <2>1. OverlappingInputs(v, l, lo, hi) \subseteq v[0]
    BY <1>3 DEF OverlappingInputs
  <2>2. ASSUME NEW f \in v[0], Touches(f, lo, hi), NEW a \in Keys, NEW b \in Keys,
               a <= lo, hi <= b,
               \A g \in Overlapping(v[0], a, b) : a <= g.smallest.key /\ g.largest.key <= b
        PROVE  a <= f.smallest.key /\ f.largest.key <= b
    <3>1. f.largest.key \in Nat /\ f.smallest.key \in Nat
      BY <1>1, TableKeys DEF Tables
    <3>2. f \in Overlapping(v[0], a, b)
      BY <2>2, <3>1, KeysAssumption DEF Overlapping, Touches
    <3>. QED  BY <2>2, <3>2
  <2>. QED  BY <1>3, <2>1, <2>2 DEF OverlappingInputs
<1>. QED  BY <1>2, <1>3

LEMMA InputsSubset ==
    ASSUME NEW v, NEW l, NEW lo, NEW hi
    PROVE  OverlappingInputs(v, l, lo, hi) \subseteq v[l]
BY DEF OverlappingInputs, Overlapping

\* The inputs of a compaction are files of its level and of the next one.
LEMMA SetupSubset ==
    ASSUME NEW v, NEW l, NEW in0, in0 \subseteq v[l]
    PROVE  /\ SetupOtherInputs(v, l, in0)[1] \subseteq v[l]
           /\ SetupOtherInputs(v, l, in0)[2] \subseteq v[l + 1]
BY InputsSubset DEF SetupOtherInputs

\* On level 0 they are closed: who shares a range with one of them is one.
LEMMA InputsClosed ==
    ASSUME NEW v, Tables(v), NEW lo \in Keys, NEW hi \in Keys,
           NEW f \in OverlappingInputs(v, 0, lo, hi),
           NEW g \in v[0], Touches(g, f.smallest.key, f.largest.key)
    PROVE  g \in OverlappingInputs(v, 0, lo, hi)
<1>1. 0 \in Levels
  BY LevelsAssumption DEF Levels
<1>2. f \in v[0]
  BY DEF OverlappingInputs
<1>3. /\ f.largest.key \in Nat /\ f.smallest.key \in Nat
      /\ g.largest.key \in Nat /\ g.smallest.key \in Nat
  BY <1>1, <1>2, TableKeys DEF Tables
<1>4. ASSUME NEW a \in Keys, NEW b \in Keys,
             a <= lo, hi <= b,
             \A h \in Overlapping(v[0], a, b) : a <= h.smallest.key /\ h.largest.key <= b
      PROVE  a <= g.smallest.key /\ g.largest.key <= b
  <2>1. a <= f.smallest.key /\ f.largest.key <= b
    BY <1>4 DEF OverlappingInputs
  <2>2. g \in Overlapping(v[0], a, b)
    BY <1>3, <2>1, KeysAssumption DEF Overlapping, Touches
  <2>. QED  BY <1>4, <2>2
<1>. QED  BY <1>4 DEF OverlappingInputs

\* A range left of [lo, hi] that touches none of the files is left of them all.
LEMMA InputsRight ==
    ASSUME NEW v, NEW l \in Levels, Tables(v), NEW lo \in Keys, NEW hi \in Keys, lo <= hi,
           NEW a \in Keys, NEW b \in Keys, a <= b, b < lo,
           \A f \in OverlappingInputs(v, l, lo, hi) : ~Touches(f, a, b),
           NEW h \in OverlappingInputs(v, l, lo, hi)
    PROVE  b < h.smallest.key
<1>. DEFINE fs == OverlappingInputs(v, l, lo, hi)
<1>1. fs \subseteq v[l] /\ h \in v[l]
  BY InputsTouch
<1>2. \A f \in v[l] : /\ f.smallest.key \in Keys /\ f.largest.key \in Keys
                      /\ f.smallest.key \in Nat /\ f.largest.key \in Nat
                      /\ f.smallest.key <= f.largest.key
  BY TableKeys DEF Tables
<1>0. lo \in Nat /\ hi \in Nat /\ a \in Nat /\ b \in Nat
  BY KeysAssumption
<1>3. CASE l # 0
  <2>1. Touches(h, lo, hi)
    BY <1>3 DEF OverlappingInputs, Overlapping, Touches
  <2>. QED  BY <1>1, <1>2, <1>0, <2>1 DEF Touches
<1>4. CASE l = 0
  <2>. DEFINE starts == {k \in Keys : k = lo \/ \E f \in fs : k = f.smallest.key /\ b < k}
  <2>1. PICK s \in starts : \A k \in starts : s <= k
    <3>1. starts # {} /\ starts \subseteq Nat
      BY KeysAssumption DEF starts
    <3>. QED  BY ONLY <3>1, LeastNumber
  <2>2. PICK top \in Keys : \A k \in Keys : k <= top
    BY KeysAssumption
  <2>3. s <= lo /\ b < s /\ s \in Keys /\ s \in Nat
    BY <2>1, KeysAssumption DEF starts
  <2>4. ASSUME NEW g \in Overlapping(v[0], s, top)  PROVE s <= g.smallest.key
    <3>1. g \in v[l] /\ g.largest.key >= s
      BY <1>4 DEF Overlapping
    <3>2. SUFFICES ASSUME g.smallest.key < s  PROVE FALSE
      BY <1>2, <1>0, <2>3, <3>1
    <3>3. g \in fs
      <4>1. CASE s = lo
        <5>1. Touches(g, lo, hi)
          BY <1>2, <1>0, <2>3, <3>1, <3>2, <4>1 DEF Touches
        <5>. QED  BY <3>1, <5>1, InputsTouch
      <4>2. CASE s # lo
        <5>1. PICK f \in fs : s = f.smallest.key
          BY <2>1, <4>2 DEF starts
        <5>2. Touches(g, f.smallest.key, f.largest.key)
          BY <1>1, <1>2, <2>3, <3>1, <3>2, <5>1 DEF Touches
        <5>. QED  BY <1>4, <3>1, <5>2, InputsClosed
      <4>. QED  BY <4>1, <4>2
    <3>4. ~Touches(g, a, b)
      BY <3>3
    <3>5. b < g.smallest.key
      BY <1>2, <1>0, <2>3, <3>1, <3>4 DEF Touches
    <3>6. g.smallest.key \in starts
      BY <1>2, <3>1, <3>3, <3>5 DEF starts
    <3>. QED  BY <1>2, <1>0, <2>1, <2>3, <3>1, <3>2, <3>6
  <2>5. s <= h.smallest.key
    <3>1. \A g \in Overlapping(v[0], s, top) : s <= g.smallest.key /\ g.largest.key <= top
      BY <1>2, <1>4, <2>2, <2>4 DEF Overlapping
    <3>2. hi <= top
      BY <2>2
    <3>. QED  BY <1>4, <2>2, <2>3, <3>1, <3>2 DEF OverlappingInputs
  <2>. QED  BY <1>1, <1>2, <1>0, <2>3, <2>5
<1>. QED  BY <1>3, <1>4

\* A range right of [lo, hi] that touches none of the files is right of them all.
LEMMA InputsLeft ==
    ASSUME NEW v, NEW l \in Levels, Tables(v), NEW lo \in Keys, NEW hi \in Keys, lo <= hi,
           NEW a \in Keys, NEW b \in Keys, a <= b, hi < a,
           \A f \in OverlappingInputs(v, l, lo, hi) : ~Touches(f, a, b),
           NEW h \in OverlappingInputs(v, l, lo, hi)
    PROVE  h.largest.key < a
<1>. DEFINE fs == OverlappingInputs(v, l, lo, hi)
<1>1. fs \subseteq v[l] /\ h \in v[l]
  BY InputsTouch
<1>2. \A f \in v[l] : /\ f.smallest.key \in Keys /\ f.largest.key \in Keys
                      /\ f.smallest.key \in Nat /\ f.largest.key \in Nat
                      /\ f.smallest.key <= f.largest.key
  BY TableKeys DEF Tables
<1>0. lo \in Nat /\ hi \in Nat /\ a \in Nat /\ b \in Nat
  BY KeysAssumption
<1>3. CASE l # 0
  <2>1. Touches(h, lo, hi)
    BY <1>3 DEF OverlappingInputs, Overlapping, Touches
  <2>. QED  BY <1>1, <1>2, <1>0, <2>1 DEF Touches
<1>4. CASE l = 0
  <2>. DEFINE ends == {k \in Keys : k = hi \/ \E f \in fs : k = f.largest.key /\ k < a}
  <2>1. PICK e \in ends : \A k \in ends : k <= e
    <3>1. ends # {} /\ ends \subseteq Nat /\ a \in Nat
      BY KeysAssumption DEF ends
    <3>2. \A k \in ends : k <= a
      BY KeysAssumption DEF ends
    <3>. QED  BY ONLY <3>1, <3>2, GreatestNumber
  <2>2. PICK bottom \in Keys : \A k \in Keys : bottom <= k
    BY KeysAssumption
  <2>3. hi <= e /\ e < a /\ e \in Keys /\ e \in Nat
    BY <2>1, KeysAssumption DEF ends
  <2>4. ASSUME NEW g \in Overlapping(v[0], bottom, e)  PROVE g.largest.key <= e
    <3>1. g \in v[l] /\ g.smallest.key <= e
      BY <1>4 DEF Overlapping
    <3>2. SUFFICES ASSUME e < g.largest.key  PROVE FALSE
      BY <1>2, <1>0, <2>3, <3>1
    <3>3. g \in fs
      <4>1. CASE e = hi
        <5>1. Touches(g, lo, hi)
          BY <1>2, <1>0, <2>3, <3>1, <3>2, <4>1 DEF Touches
        <5>. QED  BY <3>1, <5>1, InputsTouch
      <4>2. CASE e # hi
        <5>1. PICK f \in fs : e = f.largest.key
          BY <2>1, <4>2 DEF ends
        <5>2. Touches(g, f.smallest.key, f.largest.key)
          BY <1>1, <1>2, <2>3, <3>1, <3>2, <5>1 DEF Touches
        <5>. QED  BY <1>4, <3>1, <5>2, InputsClosed
      <4>. QED  BY <4>1, <4>2
    <3>4. ~Touches(g, a, b)
      BY <3>3
    <3>5. g.largest.key < a
      BY <1>2, <1>0, <2>3, <3>1, <3>4 DEF Touches
    <3>6. g.largest.key \in ends
      BY <1>2, <3>1, <3>3, <3>5 DEF ends
    <3>. QED  BY <1>2, <1>0, <2>1, <2>3, <3>1, <3>2, <3>6
  <2>5. h.largest.key <= e
    <3>1. \A g \in Overlapping(v[0], bottom, e) : bottom <= g.smallest.key /\ g.largest.key <= e
      BY <1>2, <1>4, <2>2, <2>4 DEF Overlapping
    <3>2. bottom <= lo
      BY <2>2
    <3>. QED  BY <1>4, <2>2, <2>3, <3>1, <3>2 DEF OverlappingInputs
  <2>. QED  BY <1>1, <1>2, <1>0, <2>3, <2>5
<1>. QED  BY <1>3, <1>4

\* One table is solid.
LEMMA OneIsSolid ==
    ASSUME NEW f, Table(f)
    PROVE  Solid({f})
<1>1. f.smallest.key \in Nat /\ f.largest.key \in Nat
  BY TableKeys
<1>. QED  BY <1>1, KeysAssumption DEF Solid, Touches

\* The files that GetOverlappingInputs finds for the range of some of a solid
\* set can be added to it.
LEMMA SolidGrows ==
    ASSUME NEW v, NEW l \in Levels, Tables(v), NEW fs, Solid(fs),
           NEW some, some \subseteq fs, some # {}, \A f \in fs : Table(f)
    PROVE  Solid(fs \cup OverlappingInputs(v, l, FirstKey(some), LastKey(some)))
<1>. DEFINE more == OverlappingInputs(v, l, FirstKey(some), LastKey(some))
<1>1. SUFFICES ASSUME NEW a \in Keys, NEW b \in Keys, a <= b,
                      \A f \in fs \cup more : ~Touches(f, a, b)
               PROVE  \/ \A f \in fs \cup more : b < f.smallest.key
                      \/ \A f \in fs \cup more : f.largest.key < a
  BY DEF Solid
<1>2. /\ FirstKey(some) \in Keys /\ LastKey(some) \in Keys
      /\ FirstKey(some) <= LastKey(some)
      /\ \E f \in some : f.smallest.key = FirstKey(some)
      /\ \E f \in some : f.largest.key = LastKey(some)
  BY RangeOf
<1>3. CASE \A f \in fs : b < f.smallest.key
  <2>1. b < FirstKey(some)
    BY <1>2, <1>3
  <2>2. \A h \in more : b < h.smallest.key
    BY <1>1, <1>2, <2>1, InputsRight
  <2>. QED  BY <1>3, <2>2
<1>4. CASE \A f \in fs : f.largest.key < a
  <2>1. LastKey(some) < a
    BY <1>2, <1>4
  <2>2. \A h \in more : h.largest.key < a
    BY <1>1, <1>2, <2>1, InputsLeft
  <2>. QED  BY <1>4, <2>2
<1>. QED  BY <1>1, <1>3, <1>4 DEF Solid

\* What every choice of inputs has: the two sets are solid, in1 is what in0's
\* range touches on the next level, and on level 0 in0 is closed.
Chosen(v, l, in0, in1) ==
    /\ in0 \subseteq v[l] /\ in0 # {}
    /\ in1 \subseteq v[l + 1]
    /\ \A g \in v[l + 1] : Touches(g, FirstKey(in0), LastKey(in0)) => g \in in1
    /\ \A g \in in1 : Touches(g, FirstKey(in0), LastKey(in0))
    /\ Solid(in0 \cup in1)
    /\ l = 0 => \A f \in in0, g \in v[0] : Touches(g, f.smallest.key, f.largest.key) => g \in in0

\* Below level 0 all the files found touch the range.
LEMMA InputsBelow ==
    ASSUME NEW v, NEW l \in Levels \ {0}, NEW lo, NEW hi
    PROVE  OverlappingInputs(v, l, lo, hi) = {f \in v[l] : Touches(f, lo, hi)}
BY DEF OverlappingInputs, Overlapping, Touches

LEMMA SetupChosen ==
    ASSUME NEW v, NEW l \in 0 .. NumLevels - 2, Tables(v),
           NEW in0, in0 \subseteq v[l], in0 # {}, Solid(in0),
           l = 0 => \A f \in in0, g \in v[0] : Touches(g, f.smallest.key, f.largest.key) => g \in in0
    PROVE  Chosen(v, l, SetupOtherInputs(v, l, in0)[1], SetupOtherInputs(v, l, in0)[2])
<1>. DEFINE in1 == OverlappingInputs(v, l + 1, FirstKey(in0), LastKey(in0))
            all == in0 \cup in1
            exp0 == OverlappingInputs(v, l, FirstKey(all), LastKey(all))
            exp1 == OverlappingInputs(v, l + 1, FirstKey(exp0), LastKey(exp0))
<1>1. l \in Levels /\ l + 1 \in Levels /\ l + 1 # 0 /\ 0 \in Levels
  BY LevelsAssumption DEF Levels
<1>2. \A f \in v[l] \cup v[l + 1] : Table(f)
  BY <1>1 DEF Tables
<1>3. in1 = {g \in v[l + 1] : Touches(g, FirstKey(in0), LastKey(in0))}
  BY <1>1, InputsBelow
<1>4. Solid(all)
  BY <1>1, <1>2, SolidGrows
<1>5. Chosen(v, l, in0, in1)
  BY <1>3, <1>4 DEF Chosen
<1>6. Chosen(v, l, exp0, exp1)
  <2>1. all # {} /\ \A f \in all : Table(f)
    BY <1>2, <1>3
  <2>2. FirstKey(all) \in Keys /\ LastKey(all) \in Keys
    BY <2>1, RangeOf
  <2>3. \A f \in all : FirstKey(all) <= f.smallest.key /\ f.largest.key <= LastKey(all)
    BY <2>1, RangeOf
  <2>4. exp0 \subseteq v[l]
    BY <1>1, <2>2, InputsTouch
  <2>5. in0 \subseteq exp0
    <3>1. ASSUME NEW f \in in0  PROVE Touches(f, FirstKey(all), LastKey(all))
      <4>1. f.smallest.key \in Nat /\ f.largest.key \in Nat /\ f.smallest.key <= f.largest.key
        BY <1>2, TableKeys
      <4>2. FirstKey(all) <= f.smallest.key /\ f.largest.key <= LastKey(all)
        BY <2>3
      <4>3. FirstKey(all) \in Nat /\ LastKey(all) \in Nat
        BY <2>2, KeysAssumption
      <4>. QED  BY ONLY <4>1, <4>2, <4>3 DEF Touches
    <3>. QED  BY <1>1, <2>2, <3>1, InputsTouch
  <2>6. exp1 = {g \in v[l + 1] : Touches(g, FirstKey(exp0), LastKey(exp0))}
    BY <1>1, InputsBelow
  <2>7. in1 \subseteq exp1
    <3>1. /\ FirstKey(exp0) \in Nat /\ LastKey(exp0) \in Nat
          /\ FirstKey(in0) \in Nat /\ LastKey(in0) \in Nat
          /\ \A f \in exp0 : FirstKey(exp0) <= f.smallest.key /\ f.largest.key <= LastKey(exp0)
          /\ \E f \in in0 : f.smallest.key = FirstKey(in0)
          /\ \E f \in in0 : f.largest.key = LastKey(in0)
      BY <1>2, <2>4, <2>5, RangeOf, KeysAssumption
    <3>2. FirstKey(exp0) <= FirstKey(in0) /\ LastKey(in0) <= LastKey(exp0)
      BY <2>5, <3>1
    <3>3. \A g \in v[l + 1] : g.smallest.key \in Nat /\ g.largest.key \in Nat
      BY <1>2, TableKeys
    <3>4. ASSUME NEW g \in in1  PROVE g \in v[l + 1] /\ Touches(g, FirstKey(exp0), LastKey(exp0))
      <4>1. g \in v[l + 1] /\ Touches(g, FirstKey(in0), LastKey(in0))
        BY <1>3
      <4>2. g.smallest.key \in Nat /\ g.largest.key \in Nat
        BY <3>3, <4>1
      <4>. QED  BY ONLY <3>1, <3>2, <4>1, <4>2 DEF Touches
    <3>. QED  BY <2>6, <3>4
  <2>8. Solid(all \cup exp0)
    BY <1>1, <1>4, <2>1, SolidGrows
  <2>9. Solid(all \cup exp0 \cup exp1)
    BY <1>1, <1>2, <2>1, <2>4, <2>5, <2>8, SolidGrows
  <2>10. all \cup exp0 \cup exp1 = exp0 \cup exp1
    BY <2>5, <2>7
  <2>11. l = 0 => \A f \in exp0, g \in v[0] : Touches(g, f.smallest.key, f.largest.key) => g \in exp0
    BY <2>2, InputsClosed
  <2>. HIDE DEF all, exp0, exp1
  <2>. QED  BY <2>4, <2>5, <2>6, <2>9, <2>10, <2>11 DEF Chosen
<1>7. \/ SetupOtherInputs(v, l, in0) = <<in0, in1>>
      \/ SetupOtherInputs(v, l, in0) = <<exp0, exp1>>
  BY DEF SetupOtherInputs
<1>. HIDE DEF in1, exp0, exp1
<1>. QED  BY <1>5, <1>6, <1>7

\* PickCompaction's choice is one, whichever file it starts from.
LEMMA InputsChosen ==
    ASSUME NEW v, NEW l \in 0 .. NumLevels - 2, Tables(v), NEW f \in v[l]
    PROVE  Chosen(v, l, InputsFrom(v, l, f)[1], InputsFrom(v, l, f)[2])
<1>1. l \in Levels /\ 0 \in Levels /\ Table(f)
  BY LevelsAssumption DEF Levels, Tables
<1>2. Solid({f})
  BY <1>1, OneIsSolid
<1>3. CASE l # 0
  BY <1>2, <1>3, SetupChosen DEF InputsFrom
<1>4. CASE l = 0
  <2>. DEFINE in0 == OverlappingInputs(v, 0, FirstKey({f}), LastKey({f}))
  <2>1. /\ FirstKey({f}) \in Keys /\ LastKey({f}) \in Keys
        /\ FirstKey({f}) = f.smallest.key /\ LastKey({f}) = f.largest.key
    BY <1>1, RangeOf
  <2>2. f \in in0 /\ in0 \subseteq v[0]
    <3>1. Touches(f, f.smallest.key, f.largest.key)
      BY <1>1, TableKeys DEF Touches
    <3>. QED  BY <1>1, <1>4, <2>1, <3>1, InputsTouch
  <2>3. Solid({f} \cup in0)
    BY <1>1, <1>2, SolidGrows
  <2>4. {f} \cup in0 = in0
    BY <2>2
  <2>5. \A h \in in0, g \in v[0] : Touches(g, h.smallest.key, h.largest.key) => g \in in0
    BY <2>1, InputsClosed
  <2>6. InputsFrom(v, l, f) = SetupOtherInputs(v, l, in0)
    BY <1>4 DEF InputsFrom
  <2>. HIDE DEF in0
  <2>7. Solid(in0)
    BY <2>3, <2>4
  <2>. QED  BY <1>4, <2>2, <2>5, <2>6, <2>7, SetupChosen
<1>. QED  BY <1>3, <1>4

\* A flushed table is put on level 0, or where no file of its level or above
\* touches it.
LEMMA PickedLevel ==
    ASSUME NEW v, NEW lo, NEW hi
    PROVE  LET l == PickLevelForMemTableOutput(v, lo, hi)
           IN  /\ l \in Levels /\ l \in Nat
               /\ l > 0 => \A m \in 0 .. l : \A f \in v[m] : ~Touches(f, lo, hi)
<1>. DEFINE free(m) ==
              /\ Overlapping(v[m], lo, hi) = {}
              /\ m + 1 \in Levels => Size(OverlappingInputs(v, m + 1, lo, hi)) <= GrandLimit
            S == {l \in 0 .. MaxMemLevel : \A m \in 1 .. l : free(m)}
            l == PickLevelForMemTableOutput(v, lo, hi)
<1>1. CASE Overlapping(v[0], lo, hi) # {}
  BY <1>1, LevelsAssumption DEF PickLevelForMemTableOutput, Levels
<1>2. CASE Overlapping(v[0], lo, hi) = {}
  <2>1. 0 \in S /\ S \subseteq Nat /\ \A x \in S : x <= MaxMemLevel
    BY LevelsAssumption DEF S
  <2>2. Max(S) \in S
    BY ONLY <2>1, LevelsAssumption, GreatestNumber
  <2>3. l = Max(S)
    BY <1>2 DEF PickLevelForMemTableOutput, S, l
  <2>4. \A m \in 0 .. l : Overlapping(v[m], lo, hi) = {}
    <3>1. \A m \in 1 .. l : Overlapping(v[m], lo, hi) = {}
      <4>1. \A m \in 1 .. Max(S) : free(m)
        BY <2>2 DEF S
      <4>. QED  BY <2>3, <4>1 DEF free
    <3>2. l \in Nat
      BY <2>1, <2>2, <2>3
    <3>. HIDE DEF l
    <3>3. ASSUME NEW m \in 0 .. l  PROVE m = 0 \/ m \in 1 .. l
      BY <3>2
    <3>. QED  BY <1>2, <3>1, <3>3
  <2>5. l \in Levels /\ l \in Nat
    BY <2>2, <2>3, LevelsAssumption DEF Levels, S
  <2>. HIDE DEF l
  <2>6. ASSUME NEW m \in 0 .. l, NEW f \in v[m]  PROVE ~Touches(f, lo, hi)
    <3>1. f \notin Overlapping(v[m], lo, hi)
      BY <2>4
    <3>. QED  BY <3>1 DEF Overlapping, Touches
  <2>7. /\ l \in Levels /\ l \in Nat
        /\ l > 0 => \A m \in 0 .. l : \A f \in v[m] : ~Touches(f, lo, hi)
    BY <2>5, <2>6
  <2>. QED  BY <2>7 DEF l
<1>. QED  BY <1>1, <1>2

(***************************************************************************)
(* What a compaction keeps.                                                 *)
(***************************************************************************)

\* What is dropped is hidden by a newer entry that everyone sees, or is a
\* deletion with nothing below.
LEMMA DroppedIsHidden ==
    ASSUME NEW ins, EntsOf(ins) \subseteq Records, NEW v, NEW l, NEW smallest \in Nat,
           NEW e \in EntsOf(ins), e \notin Kept(ins, v, l, smallest)
    PROVE  \/ \E o \in EntsOf(ins) : o.key = e.key /\ o.seq > e.seq /\ o.seq <= smallest
           \/ e.del /\ e.seq <= smallest /\ IsBaseLevelForKey(v, l, e.key)
<1>. DEFINE ents == EntsOf(ins)
            newer == {o \in ents : o.key = e.key /\ o.seq > e.seq}
            seqs == {o.seq : o \in newer}
<1>1. Dropped(e, ents, v, l, smallest)
  BY DEF Kept, EntsOf, ents
<1>2. \/ newer # {} /\ Min(seqs) <= smallest
      \/ e.del /\ e.seq <= smallest /\ IsBaseLevelForKey(v, l, e.key)
  BY <1>1 DEF Dropped, newer, seqs
<1>3. ASSUME newer # {}, Min(seqs) <= smallest
      PROVE  \E o \in ents : o.key = e.key /\ o.seq > e.seq /\ o.seq <= smallest
  <2>1. seqs # {} /\ seqs \subseteq Nat
    BY <1>3 DEF seqs, newer, ents, Records
  <2>2. Min(seqs) \in seqs
    BY ONLY <2>1, LeastNumber
  <2>. QED  BY <1>3, <2>2 DEF seqs, newer
<1>. QED  BY <1>2, <1>3 DEF ents

\* Below a newer entry that everyone sees nothing is kept.
LEMMA KeptIsNew ==
    ASSUME NEW ins, EntsOf(ins) \subseteq Records, NEW v, NEW l, NEW smallest \in Nat,
           NEW e \in EntsOf(ins), NEW x \in Kept(ins, v, l, smallest),
           x.key = e.key, x.seq < e.seq
    PROVE  smallest < e.seq
<1>. DEFINE ents == EntsOf(ins)
            newer == {o \in ents : o.key = x.key /\ o.seq > x.seq}
            seqs == {o.seq : o \in newer}
<1>1. x \in ents /\ ~Dropped(x, ents, v, l, smallest)
  BY DEF Kept, EntsOf, ents
<1>2. e \in newer /\ e.seq \in seqs
  BY <1>1 DEF newer, ents, seqs, Records
<1>3. seqs # {} /\ seqs \subseteq Nat
  BY <1>2 DEF seqs, newer, ents, Records
<1>4. Min(seqs) <= e.seq /\ Min(seqs) \in Nat /\ e.seq \in Nat
  BY ONLY <1>2, <1>3, LeastNumber
<1>5. ~(Min(seqs) <= smallest)
  BY <1>1, <1>2 DEF Dropped, newer, seqs
<1>. QED  BY <1>4, <1>5

\* The outputs are all that is kept, none is empty, and there is a number of them.
LEMMA OutputsParts ==
    ASSUME NEW kept, kept \subseteq Records, Distinct(kept), NEW top \in Nat,
           \A e \in kept : e.seq <= top,
           NEW max, NEW splits, NEW cut \in Outputs(kept, max, splits)
    PROVE  /\ UNION cut = kept
           /\ \A es \in cut : es # {} /\ es \subseteq kept
           /\ IsFiniteSet(kept) => IsFiniteSet(cut)
<1>. DEFINE newest == {e \in kept : \A o \in kept : o.key = e.key => o.seq <= e.seq}
            file(starts, s) == {e \in kept : /\ ~Before(e, s)
                                             /\ \A o \in starts : Before(s, o) => Before(e, o)}
            first == {e \in kept : \A o \in kept \ {e} : Before(e, o)}
            from == IF splits THEN kept ELSE newest
<1>. DEFINE cuts == {c \cup first : c \in SUBSET from}
            files(starts) == {file(starts, s) : s \in starts}
<1>1. PICK starts \in cuts : cut = files(starts)
  <2>1. cut \in {files(starts) : starts \in {c \in cuts : Cardinality(c) <= max}}
    BY DEF Outputs
  <2>. HIDE DEF cuts, files
  <2>. QED  BY <2>1
<1>2. starts \subseteq kept /\ first \subseteq starts /\ starts \subseteq from \cup first
  BY <1>1 DEF first, from, newest
<1>3. cut = {file(starts, s) : s \in starts}
  BY <1>1
<1>0. \A e \in kept : e.key \in Nat /\ e.seq \in Nat
  BY KeysAssumption DEF Records
<1>4. ASSUME NEW s \in starts  PROVE s \in file(starts, s)
  <2>1. s \in kept /\ s.key \in Nat /\ s.seq \in Nat
    BY <1>2, <1>0
  <2>2. ~Before(s, s)
    BY <2>1 DEF Before
  <2>. QED  BY <2>1, <2>2 DEF file
<1>5. ASSUME NEW e \in kept  PROVE \E s \in starts : e \in file(starts, s)
  <2>. DEFINE T == {s \in starts : ~Before(e, s)}
  <2>1. T # {}
    <3>1. PICK f \in kept : \A o \in kept \ {f} : Before(f, o)
      BY FirstEntry
    <3>2. e = f \/ Before(f, e)
      BY <3>1
    <3>3. ~Before(e, f)
      BY <1>0, <3>2 DEF Before
    <3>4. f \in first
      BY <3>1 DEF first
    <3>. QED  BY <1>2, <3>3, <3>4 DEF T
  <2>2. T \subseteq Records /\ Distinct(T) /\ \A s \in T : s.seq <= top
    BY <1>2 DEF T, Distinct
  <2>3. PICK s \in T : \A o \in T \ {s} : Before(o, s)
    BY <2>1, <2>2, LastEntry
  <2>4. ASSUME NEW o \in starts, Before(s, o)  PROVE Before(e, o)
    <3>1. s \in kept /\ o \in kept
      BY <1>2 DEF T
    <3>2. o # s /\ ~Before(o, s)
      BY <1>0, <2>4, <3>1 DEF Before
    <3>. QED  BY <2>3, <3>2 DEF T
  <2>. QED  BY <2>3, <2>4 DEF T, file
<1>6. UNION cut = kept
  <2>1. \A s \in starts : file(starts, s) \subseteq kept
    BY DEF file
  <2>. HIDE DEF file
  <2>. QED  BY <1>3, <1>5, <2>1
<1>7. \A es \in cut : es # {} /\ es \subseteq kept
  BY <1>3, <1>4 DEF file
<1>8. IsFiniteSet(kept) => IsFiniteSet(cut)
  <2>1. IsFiniteSet(kept) => IsFiniteSet(starts)
    BY <1>2, FS_Subset
  <2>. DEFINE F == [s \in starts |-> file(starts, s)]
  <2>2. F \in Surjection(starts, cut)
    <3>. HIDE DEF file
    <3>. QED  BY <1>3 DEF Surjection, F
  <2>. QED  BY ONLY <2>1, <2>2, FS_Surjection
<1>. QED  BY <1>6, <1>7, <1>8

\* Without splits of a user key, or if there are no two entries of one, the keys
\* of the outputs do not mix.
LEMMA OutputsApart ==
    ASSUME NEW kept, kept \subseteq Records, Distinct(kept),
           NEW max, NEW splits, NEW cut \in Outputs(kept, max, splits),
           ~splits \/ \A a, b \in kept : a.key = b.key => a = b,
           NEW es \in cut, NEW fs \in cut, es # fs
    PROVE  \/ \A x \in es, y \in fs : x.key < y.key
           \/ \A x \in es, y \in fs : y.key < x.key
<1>. DEFINE newest == {e \in kept : \A o \in kept : o.key = e.key => o.seq <= e.seq}
            file(starts, s) == {e \in kept : /\ ~Before(e, s)
                                             /\ \A o \in starts : Before(s, o) => Before(e, o)}
            first == {e \in kept : \A o \in kept \ {e} : Before(e, o)}
            from == IF splits THEN kept ELSE newest
<1>. DEFINE cuts == {c \cup first : c \in SUBSET from}
            files(starts) == {file(starts, s) : s \in starts}
<1>1. PICK starts \in cuts : cut = files(starts)
  <2>1. cut \in {files(starts) : starts \in {c \in cuts : Cardinality(c) <= max}}
    BY DEF Outputs
  <2>. HIDE DEF cuts, files
  <2>. QED  BY <2>1
<1>2. starts \subseteq kept /\ first \subseteq starts /\ starts \subseteq from \cup first
  BY <1>1 DEF first, from, newest
<1>3. cut = {file(starts, s) : s \in starts}
  BY <1>1
<1>0. \A e \in kept : e.key \in Nat /\ e.seq \in Nat
  BY KeysAssumption DEF Records
<1>9. ASSUME NEW s \in starts, NEW t \in starts, Before(s, t),
             NEW x \in file(starts, s), NEW y \in file(starts, t)
      PROVE  x.key < y.key
  <2>1. Before(x, t) /\ ~Before(y, t) /\ x \in kept /\ y \in kept /\ t \in kept
    BY <1>2, <1>9 DEF file
  <2>2. x.key \in Nat /\ y.key \in Nat /\ t.key \in Nat /\ x.seq \in Nat /\ t.seq \in Nat
    BY <2>1, KeysAssumption DEF Records
  <2>3. x.key # t.key
    <3>1. SUFFICES ASSUME x.key = t.key  PROVE FALSE
      OBVIOUS
    <3>2. x.seq > t.seq
      BY <2>1, <2>2, <3>1 DEF Before
    <3>3. CASE \A a, b \in kept : a.key = b.key => a = b
      BY <2>1, <2>2, <3>1, <3>2, <3>3
    <3>4. CASE t \in first
      BY <2>1, <2>2, <3>1, <3>2, <3>4 DEF first, Before
    <3>5. CASE t \in newest
      BY <2>1, <2>2, <3>1, <3>2, <3>5 DEF newest
    <3>. QED  BY <1>2, <1>9, <3>3, <3>4, <3>5 DEF from
  <2>. QED  BY <2>1, <2>2, <2>3 DEF Before
<1>4. PICK s \in starts, t \in starts : es = file(starts, s) /\ fs = file(starts, t)
  BY <1>3
<1>5. s # t /\ s \in kept /\ t \in kept
  BY <1>2, <1>4
<1>6. Before(s, t) \/ Before(t, s)
  BY <1>0, <1>5 DEF Before, Distinct
<1>. HIDE DEF file
<1>. QED  BY <1>4, <1>6, <1>9

(***************************************************************************)
(* Reading.                                                                 *)
(***************************************************************************)
\* On the keys they share, are the entries of xs newer than those of ys?
Newer(xs, ys) == \A x \in xs, y \in ys : x.key = y.key => x.seq > y.seq

Seen(e, k, snap) == e.key = k /\ e.seq <= snap

\* A read finds something if there is something to see.
LEMMA SeekFound ==
    ASSUME NEW ents, ents \subseteq Records, NEW k, NEW snap \in Nat,
           NEW e \in ents, Seen(e, k, snap)
    PROVE  Seek(ents, k, snap) # {}
<1>. DEFINE seen == {o \in ents : o.key = k /\ o.seq <= snap}
            seqs == {o.seq : o \in seen}
<1>1. seqs # {} /\ seqs \subseteq Nat /\ \A q \in seqs : q <= snap
  BY DEF seqs, seen, Records, Seen
<1>2. Max(seqs) \in seqs /\ \A q \in seqs : q <= Max(seqs)
  BY ONLY <1>1, snap \in Nat, GreatestNumber
<1>3. PICK o \in seen : o.seq = Max(seqs)
  BY <1>2
<1>4. \A x \in seen : x.seq <= o.seq
  BY <1>2, <1>3
<1>. HIDE DEF seqs
<1>. QED  BY <1>4 DEF Seek, seen

\* What it finds can be seen and is the newest of its kind.
LEMMA SeekNewest ==
    ASSUME NEW ents, NEW k, NEW snap, NEW e \in Seek(ents, k, snap)
    PROVE  e \in ents /\ Seen(e, k, snap) /\ \A o \in ents : Seen(o, k, snap) => o.seq <= e.seq
BY DEF Seek, Seen

\* A read may leave out what is hidden by newer entries.
LEMMA SeekPart ==
    ASSUME NEW all, all \subseteq Records, NEW part, part \subseteq all, NEW k, NEW snap \in Nat,
           \A x \in all \ part : Seen(x, k, snap) =>
               \E e \in part : Seen(e, k, snap) /\ x.seq < e.seq
    PROVE  Seek(all, k, snap) = Seek(part, k, snap)
<1>1. ASSUME NEW e \in Seek(all, k, snap)  PROVE e \in Seek(part, k, snap)
  <2>1. e \in all /\ Seen(e, k, snap) /\ \A o \in all : Seen(o, k, snap) => o.seq <= e.seq
    BY SeekNewest
  <2>2. e \in part
    <3>1. SUFFICES ASSUME e \notin part  PROVE FALSE
      OBVIOUS
    <3>2. PICK o \in part : Seen(o, k, snap) /\ e.seq < o.seq
      BY <2>1, <3>1
    <3>. QED  BY <2>1, <3>2 DEF Records
  <2>. QED  BY <2>1, <2>2 DEF Seek, Seen
<1>2. ASSUME NEW e \in Seek(part, k, snap)  PROVE e \in Seek(all, k, snap)
  <2>1. e \in part /\ Seen(e, k, snap) /\ \A o \in part : Seen(o, k, snap) => o.seq <= e.seq
    BY SeekNewest
  <2>2. ASSUME NEW x \in all, Seen(x, k, snap)  PROVE x.seq <= e.seq
    <3>1. CASE x \in part
      BY <2>1, <2>2, <3>1
    <3>2. CASE x \notin part
      <4>1. PICK o \in part : Seen(o, k, snap) /\ x.seq < o.seq
        BY <2>2, <3>2
      <4>. QED  BY <2>1, <4>1 DEF Records
    <3>. QED  BY <3>1, <3>2
  <2>. QED  BY <2>1, <2>2 DEF Seek, Seen
<1>. QED  BY <1>1, <1>2

\* The first source that answers is right if it is the newer one.
LEMMA SeekUnion ==
    ASSUME NEW xs, NEW ys, xs \subseteq Records, ys \subseteq Records, Newer(xs, ys),
           NEW k, NEW snap \in Nat
    PROVE  Seek(xs \cup ys, k, snap)
             = IF Seek(xs, k, snap) # {} THEN Seek(xs, k, snap) ELSE Seek(ys, k, snap)
<1>1. CASE Seek(xs, k, snap) # {}
  <2>1. PICK e \in Seek(xs, k, snap) : TRUE
    BY <1>1
  <2>2. e \in xs /\ Seen(e, k, snap)
    BY SeekNewest
  <2>3. ASSUME NEW x \in (xs \cup ys) \ xs, Seen(x, k, snap)
        PROVE  \E o \in xs : Seen(o, k, snap) /\ x.seq < o.seq
    BY <2>2, <2>3 DEF Newer, Seen, Records
  <2>4. Seek(xs \cup ys, k, snap) = Seek(xs, k, snap)
    BY <2>3, SeekPart
  <2>. QED  BY <1>1, <2>4
<1>2. CASE Seek(xs, k, snap) = {}
  <2>1. \A x \in xs : ~Seen(x, k, snap)
    BY <1>2, SeekFound
  <2>2. Seek(xs \cup ys, k, snap) = Seek(ys, k, snap)
    BY <2>1, SeekPart
  <2>. QED  BY <1>2, <2>2
<1>. QED  BY <1>1, <1>2

\* Below level 0 the first file that ends at or after the sought entry has it, if
\* no keys lie between two files.
LEMMA SeekLevelRight ==
    ASSUME NEW fs, \A f \in fs : Table(f), \A f, g \in fs : f # g => Apart(f, g),
           NEW k \in Keys, NEW snap \in Nat
    PROVE  SeekLevel(fs, k, snap) = Seek(EntsOf(fs), k, snap)
<1>. DEFINE from == [key |-> k, seq |-> snap]
            after == {f \in fs : ~Before(f.largest, from)}
            opened == {g \in after : \A h \in after \ {g} : Before(g.largest, h.largest)}
<1>1. SeekLevel(fs, k, snap) = UNION {Seek(f.ents, k, snap) : f \in opened}
  BY DEF SeekLevel, opened, after, from
<1>2. /\ EntsOf(fs) \subseteq Records /\ k \in Nat
      /\ \A f \in fs : /\ f.smallest.key \in Nat /\ f.largest.key \in Nat
                       /\ f.smallest.key <= f.largest.key /\ f.largest.seq \in Nat
                       /\ \A e \in f.ents : /\ e.key \in Nat /\ e.seq \in Nat
                                            /\ f.smallest.key <= e.key /\ e.key <= f.largest.key
  <2>1. k \in Nat
    BY KeysAssumption
  <2>2. EntsOf(fs) \subseteq Records
    BY DEF EntsOf, Table
  <2>3. \A f \in fs : /\ f.smallest.key \in Nat /\ f.largest.key \in Nat
                      /\ f.smallest.key <= f.largest.key
                      /\ \A e \in f.ents : f.smallest.key <= e.key /\ e.key <= f.largest.key
    BY TableKeys
  <2>4. \A f \in fs : f.largest.seq \in Nat /\ \A e \in f.ents : e.key \in Nat /\ e.seq \in Nat
    BY KeysAssumption DEF Table, Records
  <2>. QED  BY <2>1, <2>2, <2>3, <2>4
<1>3. \A f \in fs : f.ents \subseteq EntsOf(fs)
  BY DEF EntsOf
<1>4. CASE \A e \in EntsOf(fs) : ~Seen(e, k, snap)
  <2>1. Seek(EntsOf(fs), k, snap) = {} /\ \A f \in fs : Seek(f.ents, k, snap) = {}
    BY <1>3, <1>4 DEF Seek, Seen
  <2>. QED  BY <1>1, <2>1
<1>5. ASSUME NEW e \in EntsOf(fs), Seen(e, k, snap)
      PROVE  SeekLevel(fs, k, snap) = Seek(EntsOf(fs), k, snap)
  <2>1. PICK f \in fs : e \in f.ents
    BY DEF EntsOf
  <2>2. f \in after
    <3>1. e = f.largest \/ Before(e, f.largest)
      BY <2>1 DEF Table
    <3>2. e.key = k /\ e.seq <= snap
      BY <1>5 DEF Seen
    <3>3. e.key \in Nat /\ e.seq \in Nat /\ f.largest.key \in Nat /\ f.largest.seq \in Nat
      BY <1>2, <2>1
    <3>. QED  BY <1>2, <3>1, <3>2, <3>3 DEF after, from, Before
  <2>3. f.smallest.key <= k /\ k <= f.largest.key
    BY <1>2, <1>5, <2>1 DEF Seen
  <2>4. ASSUME NEW g \in after, g # f  PROVE f.largest.key < g.smallest.key
    <3>1. Apart(f, g) /\ ~(g.largest.key < k)
      BY <2>4 DEF after, from, Before
    <3>. QED  BY <1>2, <2>3, <3>1 DEF Apart
  <2>5. opened = {f}
    <3>1. ASSUME NEW g \in after, g # f  PROVE Before(f.largest, g.largest) /\ ~Before(g.largest, f.largest)
      BY <1>2, <2>4, <3>1 DEF Before, after
    <3>. QED  BY <2>2, <3>1 DEF opened
  <2>6. SeekLevel(fs, k, snap) = Seek(f.ents, k, snap)
    BY <1>1, <2>5
  <2>7. \A x \in EntsOf(fs) \ f.ents : ~Seen(x, k, snap)
    <3>1. SUFFICES ASSUME NEW x \in EntsOf(fs), x \notin f.ents, x.key = k  PROVE FALSE
      BY DEF Seen
    <3>2. PICK g \in fs : x \in g.ents
      BY DEF EntsOf
    <3>3. Apart(f, g) /\ g.smallest.key <= k /\ k <= g.largest.key
      BY <1>2, <3>1, <3>2
    <3>. QED  BY <1>2, <2>3, <3>2, <3>3 DEF Apart
  <2>8. Seek(EntsOf(fs), k, snap) = Seek(f.ents, k, snap)
    BY <1>2, <1>3, <2>7, SeekPart
  <2>. QED  BY <2>6, <2>8
<1>. QED  BY <1>4, <1>5

\* On level 0 the newest file that answers is right, if files were flushed in the
\* order of their numbers.
LEMMA SeekLevel0Right ==
    ASSUME NEW fs, \A f \in fs : Table(f),
           NEW top \in Nat, \A f \in fs : f.num \in Nat /\ f.num <= top,
           \A f, g \in fs : f.num = g.num => f = g,
           \A f, g \in fs : f.num > g.num => Newer(f.ents, g.ents),
           NEW k \in Keys, NEW snap \in Nat
    PROVE  SeekLevel0(fs, k, snap) = Seek(EntsOf(fs), k, snap)
<1>. DEFINE hits == {f \in fs : Seek(f.ents, k, snap) # {}}
            newest == {g \in hits : \A h \in hits : h.num <= g.num}
<1>1. SeekLevel0(fs, k, snap) = UNION {Seek(f.ents, k, snap) : f \in newest}
  BY DEF SeekLevel0, newest, hits
<1>2. EntsOf(fs) \subseteq Records /\ \A f \in fs : f.ents \subseteq EntsOf(fs) /\ f.ents \subseteq Records
  BY DEF EntsOf, Table
<1>3. ASSUME NEW x \in EntsOf(fs), Seen(x, k, snap)  PROVE \E f \in hits : x \in f.ents
  BY <1>2, <1>3, SeekFound DEF EntsOf, hits
<1>4. CASE hits = {}
  <2>1. Seek(EntsOf(fs), k, snap) = {}
    BY <1>3, <1>4, SeekNewest
  <2>. QED  BY <1>1, <1>4, <2>1
<1>5. CASE hits # {}
  <2>. DEFINE nums == {f.num : f \in hits}
  <2>1. nums # {} /\ nums \subseteq Nat /\ \A n \in nums : n <= top
    BY <1>5 DEF nums, hits
  <2>2. Max(nums) \in nums /\ \A n \in nums : n <= Max(nums)
    BY ONLY <2>1, top \in Nat, GreatestNumber
  <2>3. PICK f \in hits : f.num = Max(nums)
    BY <2>2
  <2>4. \A g \in hits : g.num <= f.num /\ g.num \in Nat
    BY <2>2, <2>3 DEF hits
  <2>5. newest = {f}
    BY <2>4 DEF newest, hits
  <2>6. SeekLevel0(fs, k, snap) = Seek(f.ents, k, snap)
    <3>. HIDE DEF newest
    <3>. QED  BY <1>1, <2>5
  <2>7. PICK e \in Seek(f.ents, k, snap) : TRUE
    BY DEF hits
  <2>8. e \in f.ents /\ Seen(e, k, snap)
    BY SeekNewest
  <2>9. ASSUME NEW x \in EntsOf(fs) \ f.ents, Seen(x, k, snap)
        PROVE  \E o \in f.ents : Seen(o, k, snap) /\ x.seq < o.seq
    <3>1. PICK g \in hits : x \in g.ents
      BY <1>3, <2>9
    <3>2. g.num # f.num /\ g.num <= f.num /\ g.num \in Nat /\ f.num \in Nat
      BY <2>4, <2>9, <3>1 DEF hits
    <3>3. Newer(f.ents, g.ents)
      BY <3>2 DEF hits
    <3>4. e.seq > x.seq
      BY <2>8, <2>9, <3>1, <3>3 DEF Newer, Seen
    <3>5. e.seq \in Nat /\ x.seq \in Nat
      BY <1>2, <2>8, <2>9 DEF Records, hits
    <3>. QED  BY <2>8, <3>4, <3>5
  <2>10. Seek(EntsOf(fs), k, snap) = Seek(f.ents, k, snap)
    BY <1>2, <2>9, SeekPart DEF hits
  <2>. QED  BY <2>6, <2>10
<1>. QED  BY <1>4, <1>5

\* Level by level the first answer is right, if entries never hop over newer ones.
LEMMA SeekVersionRight ==
    ASSUME NEW v, Tables(v),
           \A l \in Levels \ {0} : \A f, g \in v[l] : f # g => Apart(f, g),
           NEW top \in Nat, \A f \in v[0] : f.num \in Nat /\ f.num <= top,
           \A f, g \in v[0] : f.num = g.num => f = g,
           \A f, g \in v[0] : f.num > g.num => Newer(f.ents, g.ents),
           \A l, m \in Levels : l < m => Newer(EntsOf(v[l]), EntsOf(v[m])),
           NEW k \in Keys, NEW snap \in Nat
    PROVE  SeekVersion(v, k, snap) = Seek(UNION {EntsOf(v[l]) : l \in Levels}, k, snap)
<1>. DEFINE at == [l \in Levels |-> IF l = 0 THEN SeekLevel0(v[0], k, snap)
                                             ELSE SeekLevel(v[l], k, snap)]
            hits == {l \in Levels : at[l] # {}}
            all == UNION {EntsOf(v[l]) : l \in Levels}
<1>1. SeekVersion(v, k, snap) = IF hits = {} THEN {} ELSE at[Min(hits)]
  BY DEF SeekVersion, hits, at
<1>2. 0 \in Levels /\ Levels \subseteq Nat
  BY LevelsAssumption DEF Levels
<1>3. \A l \in Levels : at[l] = Seek(EntsOf(v[l]), k, snap)
  <2>1. SeekLevel0(v[0], k, snap) = Seek(EntsOf(v[0]), k, snap)
    BY <1>2, SeekLevel0Right DEF Tables
  <2>2. \A l \in Levels \ {0} : SeekLevel(v[l], k, snap) = Seek(EntsOf(v[l]), k, snap)
    BY SeekLevelRight DEF Tables
  <2>. QED  BY <2>1, <2>2 DEF at
<1>4. all \subseteq Records /\ \A l \in Levels : EntsOf(v[l]) \subseteq all /\ EntsOf(v[l]) \subseteq Records
  BY DEF all, EntsOf, Tables, Table
<1>. HIDE DEF at
<1>5. ASSUME NEW x \in all, Seen(x, k, snap)  PROVE \E l \in hits : x \in EntsOf(v[l])
  <2>1. PICK l \in Levels : x \in EntsOf(v[l])
    BY DEF all
  <2>2. Seek(EntsOf(v[l]), k, snap) # {}
    BY <1>4, <1>5, <2>1, SeekFound
  <2>. QED  BY <1>3, <2>1, <2>2 DEF hits
<1>6. CASE hits = {}
  <2>1. Seek(all, k, snap) = {}
    BY <1>5, <1>6, SeekNewest
  <2>. QED  BY <1>1, <1>6, <2>1
<1>7. CASE hits # {}
  <2>1. hits \subseteq Nat /\ hits # {}
    BY <1>2, <1>7 DEF hits
  <2>. DEFINE m == Min(hits)
  <2>2. m \in hits /\ \A l \in hits : m <= l
    BY ONLY <2>1, LeastNumber
  <2>. HIDE DEF m
  <2>3. m \in Levels /\ m \in Nat /\ Seek(EntsOf(v[m]), k, snap) # {}
    BY <1>2, <1>3, <2>2 DEF hits
  <2>4. PICK e \in Seek(EntsOf(v[m]), k, snap) : TRUE
    BY <2>3
  <2>5. e \in EntsOf(v[m]) /\ Seen(e, k, snap)
    BY SeekNewest
  <2>6. ASSUME NEW x \in all \ EntsOf(v[m]), Seen(x, k, snap)
        PROVE  \E o \in EntsOf(v[m]) : Seen(o, k, snap) /\ x.seq < o.seq
    <3>1. PICK l \in hits : x \in EntsOf(v[l])
      BY <1>5, <2>6
    <3>2. l # m /\ m <= l /\ l \in Levels /\ l \in Nat
      BY <2>1, <2>2, <2>6, <3>1 DEF hits
    <3>3. m < l
      BY <2>3, <3>2
    <3>4. Newer(EntsOf(v[m]), EntsOf(v[l]))
      BY <2>3, <3>2, <3>3
    <3>5. e.seq > x.seq
      BY <2>5, <2>6, <3>1, <3>4 DEF Newer, Seen
    <3>6. e.seq \in Nat /\ x.seq \in Nat
      BY <1>4, <2>3, <2>5, <3>1, <3>2 DEF Records
    <3>. QED  BY <2>5, <3>5, <3>6
  <2>7. Seek(all, k, snap) = Seek(EntsOf(v[m]), k, snap)
    BY <1>4, <2>3, <2>6, SeekPart
  <2>8. SeekVersion(v, k, snap) = at[m]
    BY <1>1, <1>7 DEF m
  <2>. QED  BY <1>3, <2>3, <2>7, <2>8
<1>. QED  BY <1>6, <1>7
=============================================================================
