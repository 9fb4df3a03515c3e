-------------------------- MODULE InfoScreenProofs --------------------------
(***************************************************************************)
(* Proofs about InfoScreen, for any cells, any bound on the choice and any *)
(* extracts of any length.                                                 *)
(***************************************************************************)
EXTENDS InfoScreen, FunctionTheorems, SequenceTheorems, FiniteSetTheorems, WellFoundedInduction, TLAPS

\* Cells on screen show different rows, so that a tap repaints all there is.
Painted ==
    /\ rowOf = [c \in Cells |-> rowOf[c]]
    /\ coloured = [c \in Cells |-> coloured[c]]
    /\ \A c, d \in Cells : rowOf[c] # NoRow /\ rowOf[c] = rowOf[d] => c = d
    /\ ColourIsChoice

Counted == IsFiniteSet(selected) /\ AtMostChosen

LEMMA InitCounted == Init => Counted
<1> SUFFICES ASSUME Init PROVE Counted  OBVIOUS
<1>1. selected = {}  BY DEF Init
<1> QED  BY <1>1, FS_EmptySet, MaxChosenAssumption DEF Counted, AtMostChosen

LEMMA InitPainted == Init => Painted
BY DEF Init, Painted, ColourIsChoice, NoRow

\* Only handleCellTap changes the choice, and it looks at the count first.
LEMMA NextCounted == Counted /\ [Next]_vars => Counted'
<1> SUFFICES ASSUME Counted, [Next]_vars PROVE Counted'  OBVIOUS
<1>0. IsFiniteSet(selected) /\ Cardinality(selected) \in Nat
         /\ Cardinality(selected) <= MaxChosen
  BY FS_CardinalityType DEF Counted, AtMostChosen
<1>1. CASE selected' = selected
  BY <1>0, <1>1 DEF Counted, AtMostChosen
<1>2. ASSUME NEW c \in Cells, Choose(c)
      PROVE  Counted'
  <2>1. /\ selected' = selected \cup {rowOf[c]}
        /\ Cardinality(selected) < MaxChosen /\ rowOf[c] \notin selected
    BY <1>2 DEF Choose
  <2>2. IsFiniteSet(selected') /\ Cardinality(selected') = Cardinality(selected) + 1
    BY <1>0, <2>1, FS_AddElement
  <2> QED  BY <1>0, <2>1, <2>2, MaxChosenAssumption DEF Counted, AtMostChosen
<1>3. ASSUME NEW c \in Cells, Unchoose(c)
      PROVE  Counted'
  <2>1. selected' = selected \ {rowOf[c]} /\ rowOf[c] \in selected
    BY <1>3 DEF Unchoose
  <2>2. IsFiniteSet(selected') /\ Cardinality(selected') = Cardinality(selected) - 1
    BY <1>0, <2>1, FS_RemoveElement
  <2> QED  BY <1>0, <2>2, MaxChosenAssumption DEF Counted, AtMostChosen
<1> QED
  BY <1>1, <1>2, <1>3
  DEF Next, vars, Answered, Lost, SetModel, Save, CancelHandler, ScrollAway, CellForItemAt

\* A cell is painted when it is given a row and when its row is tapped.
LEMMA NextPainted == Painted /\ [Next]_vars => Painted'
<1> SUFFICES ASSUME Painted, [Next]_vars PROVE Painted'  OBVIOUS
<1>1. CASE UNCHANGED <<collection, selected>>
  BY <1>1 DEF Painted, ColourIsChoice, collection
<1>2. CASE SetModel
  BY <1>2 DEF SetModel, Painted, ColourIsChoice, NoRow
<1>3. ASSUME NEW c \in Cells, NEW row \in Rows, CellForItemAt(c, row)
      PROVE  Painted'
  <2>1. /\ rowOf[c] = NoRow /\ \A d \in Cells : rowOf[d] # row
        /\ rowOf' = [d \in Cells |-> IF d = c THEN row ELSE rowOf[d]]
    BY <1>3 DEF CellForItemAt, Painted
  <2>2. /\ selected' = selected
        /\ coloured' = [d \in Cells |-> IF d = c THEN row \in selected ELSE coloured[d]]
    BY <1>3 DEF CellForItemAt, Painted
  <2>3. /\ rowOf' = [d \in Cells |-> rowOf'[d]]
        /\ \A b, d \in Cells : rowOf'[b] # NoRow /\ rowOf'[b] = rowOf'[d] => b = d
    BY <2>1 DEF Painted
  <2>4. coloured' = [d \in Cells |-> coloured'[d]]
    BY <2>2
  <2>5. ASSUME NEW d \in Cells, rowOf'[d] # NoRow
        PROVE  coloured'[d] <=> rowOf'[d] \in selected'
    <3>1. CASE d = c  BY <3>1, <2>1, <2>2
    <3>2. CASE d # c
      <4>1. rowOf'[d] = rowOf[d] /\ coloured'[d] = coloured[d]  BY <3>2, <2>1, <2>2
      <4> QED  BY <4>1, <2>2, <2>5 DEF Painted, ColourIsChoice
    <3> QED  BY <3>1, <3>2
  <2> QED  BY <2>3, <2>4, <2>5 DEF Painted, ColourIsChoice, NoRow
<1>4. ASSUME NEW c \in Cells, ScrollAway(c)
      PROVE  Painted'
  BY <1>4 DEF ScrollAway, Painted, ColourIsChoice
<1>5. ASSUME NEW c \in Cells, Choose(c)
      PROVE  Painted'
  BY <1>5 DEF Choose, Painted, ColourIsChoice
<1>6. ASSUME NEW c \in Cells, Unchoose(c)
      PROVE  Painted'
  BY <1>6 DEF Unchoose, Painted, ColourIsChoice
<1> QED
  BY <1>1, <1>2, <1>3, <1>4, <1>5, <1>6
  DEF Next, vars, collection, Answered, Lost, Save, CancelHandler

(***************************************************************************)
(* However many cells and sentences there are, and in whatever order they  *)
(* are tapped and scrolled, handleCellTap never lets the choice grow       *)
(* beyond the bound it checks.                                             *)
(***************************************************************************)
THEOREM ChoiceBounded == Spec => []AtMostChosen
<1>1. Counted => AtMostChosen  BY DEF Counted
<1> QED  BY <1>1, InitCounted, NextCounted, PTL DEF Spec

(***************************************************************************)
(* A cell on screen always has the colour of the row it shows, although    *)
(* cells keep their colour when they are put back and used again.          *)
(***************************************************************************)
THEOREM ColourTrue == Spec => []ColourIsChoice
<1>1. Painted => ColourIsChoice  BY DEF Painted
<1> QED  BY <1>1, InitPainted, NextPainted, PTL DEF Spec

-----------------------------------------------------------------------------
(***************************************************************************)
(* The split of a text.                                                    *)
(***************************************************************************)
\* A set of natural numbers that is not empty has a least member.
LEMMA LeastOf ==
    ASSUME NEW T, T \subseteq Nat, T # {}
    PROVE  \E x \in T : \A y \in T : x <= y
<1> DEFINE upTo == {0 .. x : x \in T}
<1>1. upTo \subseteq FiniteSubsetsOf(Nat)
  <2>1. \A x \in T : IsFiniteSet(0 .. x)  BY FS_Interval
  <2> QED  BY <2>1 DEF FiniteSubsetsOf
<1>2. upTo # {}  OBVIOUS
<1>3. PICK u \in upTo : \A w \in upTo : ~ (<<w, u>> \in StrictSubsetOrdering(Nat))
  BY <1>1, <1>2, FS_StrictSubsetOrderingWellFounded, WFMin
<1>4. PICK m \in T : u = 0 .. m  OBVIOUS
<1>5. ASSUME NEW x \in T, x < m  PROVE FALSE
  <2>1. 0 .. x \in upTo  OBVIOUS
  <2>2. 0 .. x \subseteq u /\ 0 .. x # u /\ 0 .. x \subseteq Nat /\ u \subseteq Nat
    BY <1>4, <1>5
  <2> QED  BY <1>3, <2>1, <2>2 DEF StrictSubsetOrdering
<1> QED  BY <1>5

\* How many terminators there are up to the one at i.
Rank(text, i) == Cardinality({j \in Terminators(text) : j <= i})

LEMMA Ranked ==
    ASSUME NEW text \in Texts
    PROVE  /\ Terminators(text) \subseteq 1 .. Len(text)
           /\ IsFiniteSet(Terminators(text)) /\ Cardinality(Terminators(text)) \in Nat
           /\ \A i \in Terminators(text) : Rank(text, i) \in 1 .. Cardinality(Terminators(text))
           /\ \A i, j \in Terminators(text) : i < j => Rank(text, i) < Rank(text, j)
<1> PICK t : t = Terminators(text)  OBVIOUS
<1>1. Len(text) \in Nat /\ t \subseteq 1 .. Len(text)  BY DEF Terminators, Texts
<1>2. IsFiniteSet(t) /\ Cardinality(t) \in Nat
  <2> PICK len \in Nat : len = Len(text)  BY <1>1
  <2>1. IsFiniteSet(1 .. len)  BY FS_Interval
  <2>2. IsFiniteSet(t)  BY <1>1, <2>1, FS_Subset
  <2> QED  BY <2>2, FS_CardinalityType
<1>3. ASSUME NEW i \in t, NEW u, u = {j \in t : j <= i}
      PROVE  IsFiniteSet(u) /\ Cardinality(u) \in 1 .. Cardinality(t)
  <2>1. i \in u /\ u \in SUBSET t  BY <1>1, <1>3
  <2>2. IsFiniteSet(u) /\ Cardinality(u) <= Cardinality(t) /\ Cardinality(u) \in Nat
    BY <1>2, <2>1, FS_Subset, FS_CardinalityType
  <2>3. Cardinality(u) # 0  BY <2>1, <2>2, FS_EmptySet
  <2> QED  BY <1>2, <2>2, <2>3
<1>4. ASSUME NEW i \in t, NEW j \in t, i < j,
             NEW u, u = {k \in t : k <= i}, NEW v, v = {k \in t : k <= j}
      PROVE  Cardinality(u) < Cardinality(v)
  <2>1. j \in v /\ j \notin u  BY <1>1, <1>4
  <2>2. \A k \in t : k <= i => k <= j  BY <1>1, <1>4
  <2>3. u \in SUBSET v  BY <1>4, <2>2
  <2>4. IsFiniteSet(v) /\ Cardinality(v) \in Nat /\ Cardinality(u) \in Nat
    BY <1>2, <1>3, <1>4
  <2>5. Cardinality(u) <= Cardinality(v) /\ Cardinality(u) # Cardinality(v)
    BY <2>1, <2>3, <2>4, FS_Subset
  <2> QED  BY <2>4, <2>5
<1> QED  BY <1>1, <1>2, <1>3, <1>4 DEF Rank

\* Where the n-th terminator is: they are taken from left to right, none is left out.
LEMMA IxsOf ==
    ASSUME NEW text \in Texts, NEW m, m = Cardinality(Terminators(text))
    PROVE  /\ m \in Nat
           /\ \A n \in 1 .. m : Ixs(text, n) \in Terminators(text) /\ Ixs(text, n) \in 1 .. Len(text)
           /\ \A n, k \in 1 .. m : n < k => Ixs(text, n) < Ixs(text, k)
           /\ m # 0 => \A i \in Terminators(text) : i <= Ixs(text, m)
           /\ m = 0 => Terminators(text) = {}
<1> PICK t : t = Terminators(text)  OBVIOUS
<1>1. Len(text) \in Nat /\ t \subseteq 1 .. Len(text) /\ IsFiniteSet(t) /\ m \in Nat
  BY Ranked DEF Texts
<1> DEFINE r == [i \in t |-> Rank(text, i)]
<1>2. \A i \in t : Rank(text, i) \in 1 .. m  BY Ranked
<1>3. \A i, j \in t : i < j => Rank(text, i) < Rank(text, j)  BY Ranked
<1>4. \A i, j \in t : Rank(text, i) = Rank(text, j) => i = j
  <2> SUFFICES ASSUME NEW i \in t, NEW j \in t, Rank(text, i) = Rank(text, j), i # j
               PROVE  FALSE
    OBVIOUS
  <2>1. Rank(text, i) \in Nat /\ Rank(text, j) \in Nat /\ (i < j \/ j < i)
    BY <1>1, <1>2
  <2> QED  BY <1>3, <2>1
<1>5. r \in Injection(t, 1 .. m)  BY <1>2, <1>4 DEF Injection, IsInjective
<1>6. IsFiniteSet(1 .. m) /\ Cardinality(1 .. m) = m  BY <1>1, FS_Interval
<1>7. r \in Surjection(t, 1 .. m)
  <2> HIDE DEF r
  <2> QED  BY <1>1, <1>5, <1>6, FS_Injection
<1>8. \A n \in 1 .. m : \E i \in t : Rank(text, i) = n  BY <1>7 DEF Surjection
<1>9. \A n \in 1 .. m : Ixs(text, n) \in t /\ Rank(text, Ixs(text, n)) = n
  <2> SUFFICES ASSUME NEW n \in 1 .. m
               PROVE  Ixs(text, n) \in t /\ Rank(text, Ixs(text, n)) = n
    OBVIOUS
  <2>1. \E i \in t : Cardinality({j \in t : j <= i}) = n  BY <1>8 DEF Rank
  <2> QED  BY <2>1 DEF Ixs, Rank
<1>10. ASSUME NEW n \in 1 .. m, NEW k \in 1 .. m, n < k
       PROVE  Ixs(text, n) < Ixs(text, k)
  <2> PICK i \in t : i = Ixs(text, n)  BY <1>9
  <2> PICK j \in t : j = Ixs(text, k)  BY <1>9
  <2>1. Rank(text, i) = n /\ Rank(text, j) = k  BY <1>9
  <2>2. ~ (j < i) /\ i # j  BY <1>1, <1>3, <1>10, <2>1
  <2> QED  BY <1>1, <2>2
<1>11. ASSUME m # 0, NEW i \in t  PROVE i <= Ixs(text, m)
  <2>1. m \in 1 .. m  BY <1>1, <1>11
  <2> PICK j \in t : j = Ixs(text, m)  BY <1>9, <2>1
  <2>2. Rank(text, j) = m /\ Rank(text, i) \in 1 .. m  BY <1>2, <1>9, <2>1
  <2>3. ~ (j < i)  BY <1>1, <1>3, <2>2
  <2> QED  BY <1>1, <2>3
<1>12. m = 0 => t = {}  BY <1>1, FS_EmptySet
<1> QED  BY <1>1, <1>9, <1>10, <1>11, <1>12

\* A text is what is before a place and what is behind it.
LEMMA Joined ==
    ASSUME NEW text \in Texts, NEW a \in Nat, NEW b \in Nat, a <= b, b <= Len(text)
    PROVE  SubSeq(text, 1, a) \o SubSeq(text, a + 1, b) = SubSeq(text, 1, b)
<1> PICK T : T = Words \cup Stops  OBVIOUS
<1>1. text \in Seq(T) /\ Len(text) \in Nat  BY DEF Texts
<1>2. 1 \in 1 .. Len(text) + 1 /\ a \in 1 - 1 .. Len(text) /\ b \in a .. Len(text)
  BY <1>1
<1> QED  BY ONLY <1>1, <1>2, ConcatAdjacentSubSeq

\* The first n sentences are the text up to its n-th terminator.
LEMMA SentencesOf ==
    ASSUME NEW text \in Texts, NEW m, m = Cardinality(Terminators(text))
    PROVE  /\ Sentences(text) \in Seq(Texts) /\ Len(Sentences(text)) = m
           /\ m # 0 => Sentences(text)[1] = SubSeq(text, 1, Ixs(text, 1))
           /\ \A n \in 2 .. m : SubSeq(text, 1, Ixs(text, n - 1)) \o Sentences(text)[n]
                                  = SubSeq(text, 1, Ixs(text, n))
<1>1. /\ m \in Nat /\ Len(text) \in Nat
      /\ \A n \in 1 .. m : Ixs(text, n) \in 1 .. Len(text)
      /\ \A n, k \in 1 .. m : n < k => Ixs(text, n) < Ixs(text, k)
  BY IxsOf DEF Texts
<1> PICK s : s = Sentences(text)  OBVIOUS
<1> DEFINE prev(n) == IF n = 1 THEN 1 ELSE Ixs(text, n - 1) + 1
<1>2. s = [n \in 1 .. m |-> SubSeq(text, prev(n), Ixs(text, n))]
  BY DEF Sentences
<1>3. ASSUME NEW a \in Nat \ {0}, NEW b \in 1 .. Len(text)
      PROVE  SubSeq(text, a, b) \in Texts
  BY <1>3 DEF Texts
<1>4. ASSUME NEW n \in 1 .. m
      PROVE  prev(n) \in Nat \ {0}
  <2>1. CASE n = 1  BY <2>1
  <2>2. CASE n # 1
    <3>1. n - 1 \in 1 .. m  BY <1>1, <2>2
    <3> QED  BY <1>1, <2>2, <3>1
  <2> QED  BY <2>1, <2>2
<1>5. \A n \in 1 .. m : SubSeq(text, prev(n), Ixs(text, n)) \in Texts
  BY <1>1, <1>3, <1>4
<1>6. s \in Seq(Texts) /\ Len(s) = m
  <2>1. DOMAIN s = 1 .. m /\ \A n \in 1 .. m : s[n] \in Texts
    BY <1>2, <1>5
  <2>2. s = [n \in 1 .. m |-> s[n]]  BY <1>2
  <2> QED  BY ONLY <1>1, <2>1, <2>2
<1>7. m # 0 => s[1] = SubSeq(text, 1, Ixs(text, 1))
  BY <1>1, <1>2
<1>8. ASSUME NEW n \in 2 .. m
      PROVE  SubSeq(text, 1, Ixs(text, n - 1)) \o s[n] = SubSeq(text, 1, Ixs(text, n))
  <2>1. n \in 1 .. m /\ n - 1 \in 1 .. m /\ n - 1 < n /\ n # 1  BY <1>1, <1>8
  <2> PICK a \in 1 .. Len(text) : a = Ixs(text, n - 1)  BY <1>1, <2>1
  <2> PICK b \in 1 .. Len(text) : b = Ixs(text, n)  BY <1>1, <2>1
  <2>2. a <= b /\ b <= Len(text) /\ a \in Nat /\ b \in Nat  BY <1>1, <2>1
  <2>3. s[n] = SubSeq(text, a + 1, b)  BY <1>2, <2>1
  <2> QED  BY <2>2, <2>3, Joined
<1> QED  BY <1>6, <1>7, <1>8

\* One after the other the sentences are the text up to its last terminator.
LEMMA Flattened ==
    ASSUME NEW text \in Texts, NEW m, m = Cardinality(Terminators(text)), m # 0
    PROVE  FlattenSeq(Sentences(text)) = SubSeq(text, 1, Ixs(text, m))
<1> PICK s : s = Sentences(text)  OBVIOUS
<1>1. m \in Nat /\ Len(s) = m  BY IxsOf, SentencesOf
<1>2. s[1] = SubSeq(text, 1, Ixs(text, 1))  BY SentencesOf
<1>3. \A n \in 2 .. m : SubSeq(text, 1, Ixs(text, n - 1)) \o s[n] = SubSeq(text, 1, Ixs(text, n))
  BY SentencesOf
<1> DEFINE Joins(f) == f = [i \in 1 .. m |-> IF i = 1 THEN s[i] ELSE f[i - 1] \o s[i]]
           upTo == [i \in 1 .. m |-> SubSeq(text, 1, Ixs(text, i))]
<1>4. Joins(upTo)
  <2>1. ASSUME NEW i \in 1 .. m
        PROVE  upTo[i] = IF i = 1 THEN s[i] ELSE upTo[i - 1] \o s[i]
    <3>1. CASE i = 1  BY <1>2, <3>1
    <3>2. CASE i # 1
      <4>1. i \in 2 .. m /\ i - 1 \in 1 .. m  BY <1>1, <3>2
      <4> QED  BY <1>3, <3>2, <4>1
    <3> QED  BY <3>1, <3>2
  <2> QED  BY <2>1
<1>5. PICK f : f = CHOOSE g : Joins(g)  OBVIOUS
<1>6. Joins(f)  
  <2> HIDE DEF Joins, upTo
  <2> QED  BY <1>4, <1>5
<1>7. FlattenSeq(s) = f[m]
  BY <1>1, <1>5 DEF FlattenSeq
<1>8. \A i \in 1 .. m : f[i] = upTo[i]
  <2> DEFINE apart == {i \in 1 .. m : f[i] # upTo[i]}
  <2> SUFFICES ASSUME apart # {} PROVE FALSE  OBVIOUS
  <2>1. PICK i \in apart : \A j \in apart : i <= j
    <3>1. apart \subseteq Nat  BY <1>1
    <3> HIDE DEF apart
    <3> QED  BY <3>1, LeastOf
  <2>2. i \in 1 .. m /\ f[i] # upTo[i]  OBVIOUS
  <2>3. f[i] = IF i = 1 THEN s[i] ELSE f[i - 1] \o s[i]  BY <1>6, <2>2
  <2>4. upTo[i] = IF i = 1 THEN s[i] ELSE upTo[i - 1] \o s[i]  BY <1>4, <2>2
  <2>5. CASE i = 1  BY <2>2, <2>3, <2>4, <2>5
  <2>6. CASE i # 1
    <3>1. i - 1 \in 1 .. m /\ ~ (i <= i - 1)  BY <1>1, <2>2, <2>6
    <3>2. f[i - 1] = upTo[i - 1]  BY <2>1, <3>1
    <3> QED  BY <2>2, <2>3, <2>4, <2>6, <3>2
  <2> QED  BY <2>5, <2>6
<1>9. m \in 1 .. m  BY <1>1
<1> QED  BY <1>7, <1>8, <1>9

\* The places of answer up to its last terminator.
Covered(text) == {i \in DOMAIN text : \E j \in Terminators(text) : i <= j}

LEMMA SentencesCover ==
    ASSUME NEW text \in Texts
    PROVE  FlattenSeq(Sentences(text)) = SubSeq(text, 1, Cardinality(Covered(text)))
<1> PICK m : m = Cardinality(Terminators(text))  OBVIOUS
<1>1. m \in Nat /\ Len(text) \in Nat /\ DOMAIN text = 1 .. Len(text)
      /\ Terminators(text) \subseteq 1 .. Len(text)
  BY IxsOf, Ranked DEF Texts
<1>2. CASE m = 0
  <2>1. Terminators(text) = {}  BY <1>2, IxsOf
  <2>2. Covered(text) = {}  BY <2>1 DEF Covered
  <2>3. Cardinality(Covered(text)) = 0  BY <2>2, FS_EmptySet
  <2>4. PICK s \in Seq(Texts) : s = Sentences(text) /\ Len(s) = 0  BY <1>2, SentencesOf
  <2>5. s = <<>> /\ FlattenSeq(s) = s  BY <2>4 DEF FlattenSeq
  <2>6. SubSeq(text, 1, 0) = <<>>  BY DEF Texts
  <2> QED  BY <2>3, <2>4, <2>5, <2>6
<1>3. CASE m # 0
  <2>1. m \in 1 .. m  BY <1>1, <1>3
  <2> PICK a \in 1 .. Len(text) :
          a = Ixs(text, m) /\ a \in Terminators(text) /\ \A i \in Terminators(text) : i <= a
    BY <1>3, <2>1, IxsOf
  <2>2. Covered(text) = 1 .. a
    BY <1>1 DEF Covered
  <2>3. Cardinality(1 .. a) = a  BY <1>1, FS_Interval
  <2> QED  BY <1>3, <2>2, <2>3, Flattened
<1> QED  BY <1>2, <1>3

-----------------------------------------------------------------------------
(***************************************************************************)
(* What is offered.                                                        *)
(***************************************************************************)
\* Wikipedia is asked once, and its answer is on its way or shown.
Offered ==
    /\ request # "answered" => main = <<>> /\ wiki = <<>>
    /\ request = "answered" =>
           \/ main = <<Sentences(answer)>> /\ wiki = <<>>
           \/ main = <<>> /\ wiki = Sentences(answer)

LEMMA InitOffered == Init => TypeOK /\ Offered
BY DEF Init, TypeOK, Offered, Texts, Rows, NoRow

LEMMA NextOffered == Offered /\ [Next]_vars => Offered'
<1> SUFFICES ASSUME Offered, [Next]_vars PROVE Offered'  OBVIOUS
<1>1. CASE Answered
  <2>1. PICK text : answer' = text /\ main' = Append(main, Sentences(text))
    BY <1>1 DEF Answered
  <2>2. main = <<>> /\ wiki' = <<>> /\ request' = "answered"
    BY <1>1 DEF Answered, Offered
  <2>3. \A x : Append(<<>>, x) = <<x>>  OBVIOUS
  <2> QED  BY <2>1, <2>2, <2>3 DEF Offered
<1>2. CASE SetModel
  <2>1. main = <<Sentences(answer)>> /\ request = "answered"
    BY <1>2 DEF SetModel, Offered
  <2>2. \A x : Head(<<x>>) = x /\ Tail(<<x>>) = <<>>  OBVIOUS
  <2>3. wiki' = Sentences(answer) /\ main' = <<>> /\ answer' = answer /\ request' = request
    BY <1>2, <2>1, <2>2 DEF SetModel
  <2> QED  BY <2>1, <2>3 DEF Offered
<1>3. CASE Lost  BY <1>3 DEF Lost, Offered
<1>4. CASE UNCHANGED <<request, answer, main, wiki>>  BY <1>4 DEF Offered
<1> QED
  BY <1>1, <1>2, <1>3, <1>4
  DEF Next, vars, Save, CancelHandler, ScrollAway, CellForItemAt, Choose, Unchoose

LEMMA NextTypes == TypeOK /\ Offered /\ [Next]_vars => TypeOK'
<1> SUFFICES ASSUME TypeOK, Offered, [Next]_vars PROVE TypeOK'  OBVIOUS
<1>1. CASE Answered
  <2>1. PICK text \in Extracts \cup {NoDescription} :
            answer' = text /\ main' = Append(main, Sentences(text))
    BY <1>1 DEF Answered
  <2>2. text \in Texts  BY ExtractsAssumption
  <2>3. Sentences(text) \in Seq(Texts)  BY <2>2, SentencesOf
  <2>4. \A q \in Seq(Seq(Texts)), s \in Seq(Texts) : Append(q, s) \in Seq(Seq(Texts))
    OBVIOUS
  <2>5. main' \in Seq(Seq(Texts))  BY <2>1, <2>3, <2>4 DEF TypeOK
  <2> QED  BY <1>1, <2>1, <2>2, <2>5 DEF Answered, TypeOK, Rows, collection
<1>2. CASE SetModel
  <2>1. main \in Seq(Seq(Texts)) /\ main # <<>> /\ wiki = <<>>
    BY <1>2 DEF SetModel, TypeOK, Offered
  <2>2. wiki' \in Seq(Texts) /\ main' \in Seq(Seq(Texts))
    <3>1. \A q \in Seq(Seq(Texts)) : q # <<>> =>
              Head(q) \in Seq(Texts) /\ Tail(q) \in Seq(Seq(Texts))
      OBVIOUS
    <3> QED  BY <1>2, <2>1, <3>1 DEF SetModel
  <2>3. selected = {}
    <3>1. DOMAIN wiki = {}  BY <2>1
    <3> QED  BY <3>1 DEF TypeOK, Rows
  <2> QED  BY <1>2, <2>2, <2>3 DEF SetModel, TypeOK, Rows, NoRow
<1>3. CASE Lost  BY <1>3 DEF Lost, TypeOK, Rows, collection
<1>4. CASE Save \/ CancelHandler
  BY <1>4 DEF Save, CancelHandler, TypeOK, Rows, collection
<1>5. CASE UNCHANGED vars  BY <1>5 DEF vars, TypeOK, Rows, collection
<1>6. ASSUME NEW c \in Cells, ScrollAway(c)
      PROVE  TypeOK'
  BY <1>6 DEF ScrollAway, TypeOK, Rows
<1>7. ASSUME NEW c \in Cells, NEW row \in Rows, CellForItemAt(c, row)
      PROVE  TypeOK'
  BY <1>7 DEF CellForItemAt, TypeOK, Rows
<1>8. ASSUME NEW c \in Cells, Choose(c)
      PROVE  TypeOK'
  BY <1>8 DEF Choose, TypeOK, Rows
<1>9. ASSUME NEW c \in Cells, Unchoose(c)
      PROVE  TypeOK'
  BY <1>9 DEF Unchoose, TypeOK, Rows
<1> QED  BY <1>1, <1>2, <1>3, <1>4, <1>5, <1>6, <1>7, <1>8, <1>9 DEF Next

(***************************************************************************)
(* Only rows there are are shown and chosen: the model is set once, before *)
(* any cell shows a row (Offered), and reloading takes the cells back.     *)
(***************************************************************************)
THEOREM ScreenTyped == Spec => []TypeOK
<1> QED  BY InitOffered, NextOffered, NextTypes, PTL DEF Spec

(***************************************************************************)
(* Of an extract of any length, the sentences offered are all of it up to  *)
(* its last terminator, each part once and in order.                       *)
(***************************************************************************)
THEOREM SentencesAlwaysCover == Spec => []SentencesCoverAnswer
<1>1. TypeOK /\ Offered => SentencesCoverAnswer
  <2> SUFFICES ASSUME TypeOK, Offered, request = "answered", main = <<>>
               PROVE  FlattenSeq(wiki) = SubSeq(answer, 1, Cardinality(Covered(answer)))
    BY DEF SentencesCoverAnswer, Covered
  <2>1. wiki = Sentences(answer)  BY DEF Offered
  <2>2. answer \in Texts  BY DEF TypeOK
  <2> QED  BY <2>1, <2>2, SentencesCover
<1> QED  BY <1>1, InitOffered, NextOffered, NextTypes, PTL DEF Spec
=============================================================================
