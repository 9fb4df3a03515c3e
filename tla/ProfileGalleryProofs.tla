------------------------ MODULE ProfileGalleryProofs ------------------------
(***************************************************************************)
(* Proofs about ProfileGallery, for any entries, pictures and bounds.      *)
(***************************************************************************)
EXTENDS ProfileGallery, FiniteSetTheorems, TLAPS

IsSeq(s) == \E S : s \in Seq(S)

MessagesTyped(q) ==
    \A i \in DOMAIN q :
        /\ q[i].type \in {"all", "added", "removed", "ack"}
        /\ q[i].type = "all" => q[i].entries \in SUBSET Entries
        /\ q[i].type = "added" => q[i].entry \in Entries

\* What the server and its messages say is about entries there can be.
ClientTyped ==
    /\ images \in SUBSET Entries /\ last \in 0 .. MaxEntry
    /\ known \in SUBSET Entries
    /\ observers \in Nat
    /\ IsSeq(down) /\ MessagesTyped(down)

\* A cell's block waits only while the profile is in front, and asks for a
\* row the array has: meanwhile the array only grows.
CellsFit(q, g) ==
    \A i \in DOMAIN q : q[i].type = "cells" =>
        /\ screen = "profile"
        /\ q[i].rows \in Nat /\ q[i].rows <= Len(g)

RowsKept == IsSeq(main) /\ IsSeq(grid) /\ CellsFit(main, grid) /\ RowsInRange

IInv == ClientTyped /\ RowsKept

-----------------------------------------------------------------------------
LEMMA TailSeq ==
    ASSUME NEW s, IsSeq(s), s # <<>>
    PROVE  /\ IsSeq(Tail(s)) /\ 1 \in DOMAIN s /\ Head(s) = s[1]
           /\ \A i \in DOMAIN Tail(s) : i + 1 \in DOMAIN s /\ Tail(s)[i] = s[i + 1]
<1>1. PICK S : s \in Seq(S)  BY DEF IsSeq
<1>2. Tail(s) \in Seq(S)  BY <1>1
<1> QED  BY <1>1, <1>2 DEF IsSeq

LEMMA JoinSeq ==
    ASSUME NEW s, NEW t, IsSeq(s), IsSeq(t)
    PROVE  /\ IsSeq(s \o t)
           /\ Len(s) \in Nat /\ Len(s \o t) = Len(s) + Len(t)
           /\ \A i \in DOMAIN (s \o t) :
                  \/ i \in DOMAIN s /\ (s \o t)[i] = s[i]
                  \/ i - Len(s) \in DOMAIN t /\ (s \o t)[i] = t[i - Len(s)]
<1>1. PICK S : s \in Seq(S)  BY DEF IsSeq
<1>2. PICK T : t \in Seq(T)  BY DEF IsSeq
<1>3. s \in Seq(S \cup T) /\ t \in Seq(S \cup T)  BY <1>1, <1>2
<1>4. s \o t \in Seq(S \cup T)  BY <1>3
<1> QED  BY <1>3, <1>4 DEF IsSeq

LEMMA ShortSeq ==
    ASSUME NEW x
    PROVE  /\ IsSeq(<<>>) /\ DOMAIN <<>> = {} /\ IsSeq(<<x>>)
           /\ DOMAIN <<x>> = {1} /\ <<x>>[1] = x
<1>1. IsSeq(<<>>)
  <2>1. <<>> \in Seq({x})  OBVIOUS
  <2> QED  BY <2>1 DEF IsSeq
<1>2. IsSeq(<<x>>)
  <2>1. <<x>> \in Seq({x})  OBVIOUS
  <2> QED  BY <2>1 DEF IsSeq
<1>3. DOMAIN <<x>> = {1} /\ <<x>>[1] = x  OBVIOUS
<1>4. DOMAIN <<>> = {}  OBVIOUS
<1> QED  BY <1>1, <1>2, <1>3, <1>4

LEMMA AppendSeq ==
    ASSUME NEW s, NEW x, IsSeq(s)
    PROVE  /\ IsSeq(Append(s, x))
           /\ Len(s) \in Nat /\ Len(Append(s, x)) = Len(s) + 1
           /\ \A i \in DOMAIN Append(s, x) :
                  \/ i \in DOMAIN s /\ Append(s, x)[i] = s[i]
                  \/ Append(s, x)[i] = x
<1>1. PICK S : s \in Seq(S)  BY DEF IsSeq
<1>2. s \in Seq(S \cup {x})  BY <1>1
<1>3. Append(s, x) \in Seq(S \cup {x})  BY <1>2
<1> QED  BY <1>2, <1>3 DEF IsSeq

(***************************************************************************)
(* The blocks of Events: runs of observers blocks, one run for each entry. *)
(***************************************************************************)
Rank(new, e) == Cardinality({d \in new : d <= e})

\* Entries are finitely many.
LEMMA EntriesFinite ==
    ASSUME NEW new \in SUBSET Entries
    PROVE  IsFiniteSet(new) /\ Cardinality(new) \in Nat
<1>1. IsFiniteSet(Entries)  BY FS_Interval, SizesAssumption DEF Entries
<1>2. IsFiniteSet(new)  BY <1>1, FS_Subset
<1> QED  BY <1>2, FS_CardinalityType

\* Entries have different ranks, from 1 to their number.
LEMMA RankGrows ==
    ASSUME NEW new \in SUBSET Entries
    PROVE  /\ \A e \in new : Rank(new, e) \in 1 .. Cardinality(new)
           /\ \A e, f \in new : Rank(new, e) = Rank(new, f) => e = f
<1>1. IsFiniteSet(new) /\ Cardinality(new) \in Nat  BY EntriesFinite
<1>2. \A e \in new : e \in Int  BY SizesAssumption DEF Entries
<1>3. ASSUME NEW e \in new, NEW U, U = {d \in new : d <= e}
      PROVE  IsFiniteSet(U) /\ e \in U /\ Cardinality(U) \in 1 .. Cardinality(new)
  <2>1. e \in U /\ U \in SUBSET new  BY <1>2, <1>3
  <2>2. IsFiniteSet(U) /\ Cardinality(U) <= Cardinality(new) /\ Cardinality(U) \in Nat
    BY <1>1, <2>1, FS_Subset, FS_CardinalityType
  <2>3. Cardinality(U) # 0  BY <2>1, <2>2, FS_EmptySet
  <2> QED  BY <1>1, <2>1, <2>2, <2>3
<1>4. ASSUME NEW e \in new, NEW f \in new, e < f,
             NEW U, U = {d \in new : d <= e}, NEW V, V = {d \in new : d <= f}
      PROVE  Cardinality(U) < Cardinality(V)
  <2>2. f \in V /\ f \notin U  BY <1>2, <1>4
  <2>3. \A d \in new : d <= e => d <= f  BY <1>2, <1>4
  <2>4. U \in SUBSET V  BY <1>4, <2>3
  <2>5. IsFiniteSet(V) /\ Cardinality(V) \in Nat /\ Cardinality(U) \in Nat
    BY <1>1, <1>3, <1>4
  <2>6. Cardinality(U) <= Cardinality(V) /\ Cardinality(U) # Cardinality(V)
    BY <2>2, <2>4, <2>5, FS_Subset
  <2> QED  BY <2>5, <2>6
<1>5. \A e \in new : Rank(new, e) \in 1 .. Cardinality(new)  BY <1>3 DEF Rank
<1>6. \A e, f \in new : e < f => Rank(new, e) < Rank(new, f)  BY <1>4 DEF Rank
<1>7. ASSUME NEW e \in new, NEW f \in new, Rank(new, e) = Rank(new, f)
      PROVE  e = f
  <2>1. Rank(new, e) \in Nat /\ Rank(new, f) \in Nat  BY <1>1, <1>5
  <2>2. ~ (e < f) /\ ~ (f < e)  BY <1>6, <1>7, <2>1
  <2> QED  BY <1>2, <2>2
<1> QED  BY <1>5, <1>7

\* So every place has an entry, and every entry its place.
LEMMA NthOf ==
    ASSUME NEW new \in SUBSET Entries
    PROVE  /\ \A k \in 1 .. Cardinality(new) :
                  Nth(new, k) \in new /\ Rank(new, Nth(new, k)) = k
           /\ \A e \in new : Nth(new, Rank(new, e)) = e
<1>1. IsFiniteSet(new) /\ Cardinality(new) \in Nat  BY EntriesFinite
<1> DEFINE n == Cardinality(new)
           r == [e \in new |-> Rank(new, e)]
<1>2. r \in Injection(new, 1 .. n)
  BY RankGrows DEF Injection, IsInjective
<1>3. IsFiniteSet(1 .. n) /\ Cardinality(1 .. n) = n
  BY <1>1, FS_Interval
<1>4. r \in Surjection(new, 1 .. n)
  <2> HIDE DEF r
  <2> QED  BY <1>2, <1>3, FS_Injection
<1>5. \A k \in 1 .. n : \E e \in new : Rank(new, e) = k  BY <1>4 DEF Surjection
<1>6. ASSUME NEW k \in 1 .. n
      PROVE  Nth(new, k) \in new /\ Rank(new, Nth(new, k)) = k
  <2>1. \E e \in new : Cardinality({d \in new : d <= e}) = k  BY <1>5, <1>6 DEF Rank
  <2> QED  BY <2>1 DEF Nth, Rank
<1>7. ASSUME NEW e \in new
      PROVE  Nth(new, Rank(new, e)) = e
  <2>1. Rank(new, e) \in 1 .. n  BY RankGrows
  <2> QED  BY <1>6, <2>1, RankGrows
<1> QED  BY <1>6, <1>7

\* What a quotient says.
LEMMA Quotient ==
    ASSUME NEW n \in Nat \ {0}, NEW a \in Nat
    PROVE  /\ a \div n \in Nat
           /\ n * (a \div n) <= a /\ a < n * (a \div n) + n
OBVIOUS

\* Products grow.
LEMMA Larger ==
    ASSUME NEW n \in Nat \ {0}, NEW p \in Nat, NEW q \in Nat, p <= q
    PROVE  n * p <= n * q
OBVIOUS

\* One more run is n longer.
LEMMA OneMore ==
    ASSUME NEW n \in Nat \ {0}, NEW p \in Nat
    PROVE  n * (p + 1) = n * p + n
OBVIOUS

\* Place i of m runs of n places is in run 1 + (i - 1) \div n.
LEMMA Place ==
    ASSUME NEW n \in Nat \ {0}, NEW m \in Nat, NEW i \in 1 .. m * n
    PROVE  LET k == 1 + (i - 1) \div n
           IN  k \in 1 .. m /\ i \in (n * (k - 1) + 1) .. (n * (k - 1) + n)
<1>1. m * n = n * m /\ m * n \in Nat /\ n * m \in Nat  OBVIOUS
<1>2. PICK a \in Nat : a = i - 1  BY <1>1
<1>3. PICK q : q = a \div n  OBVIOUS
<1>4. q \in Nat /\ n * q <= a /\ a < n * q + n /\ n * q \in Nat  BY <1>3, Quotient
<1>5. a < n * m  BY <1>1, <1>2
<1>6. q < m
  <2>1. SUFFICES ASSUME m <= q PROVE FALSE  BY <1>4
  <2>2. n * m <= n * q  BY <1>4, <2>1, Larger
  <2> QED  BY <1>1, <1>4, <1>5, <2>2
<1>7. i \in (n * q + 1) .. (n * q + n)  BY <1>2, <1>4
<1>8. 1 + q \in 1 .. m /\ (1 + q) - 1 = q  BY <1>4, <1>6
<1> QED  BY <1>2, <1>3, <1>7, <1>8

\* Every run is there.
LEMMA Placed ==
    ASSUME NEW n \in Nat \ {0}, NEW m \in Nat, NEW k \in 1 .. m
    PROVE  \E i \in 1 .. m * n : 1 + (i - 1) \div n = k
<1>1. PICK p \in Nat : p = k - 1  OBVIOUS
<1>2. n * p \in Nat /\ n * (p + 1) = n * p + n  BY OneMore
<1>3. n * (p + 1) <= n * m  BY <1>1, Larger
<1>4. n * m = m * n  OBVIOUS
<1>5. n * p + 1 \in 1 .. m * n
  <2>1. n * m \in Nat  OBVIOUS
  <2> QED  BY <1>2, <1>3, <1>4, <2>1
<1>6. (n * p) \div n = p
  <2>1. PICK q : q = (n * p) \div n  OBVIOUS
  <2>2. q \in Nat /\ n * q <= n * p /\ n * p < n * q + n /\ n * q \in Nat  BY <1>2, <2>1, Quotient
  <2>3. ~ (q > p)
    <3>1. SUFFICES ASSUME p + 1 <= q PROVE FALSE  BY <2>2
    <3>2. n * (p + 1) <= n * q  BY <2>2, <3>1, Larger
    <3> QED  BY <1>2, <2>2, <3>2
  <2>4. ~ (q < p)
    <3>1. SUFFICES ASSUME q + 1 <= p PROVE FALSE  BY <2>2
    <3>2. n * (q + 1) <= n * p /\ n * (q + 1) = n * q + n  BY <2>2, <3>1, Larger, OneMore
    <3> QED  BY <1>2, <2>2, <3>2
  <2> QED  BY <2>1, <2>2, <2>3, <2>4
<1>7. PICK i : i = n * p + 1  OBVIOUS
<1>8. i - 1 = n * p  BY <1>2, <1>7
<1>9. 1 + (i - 1) \div n = k  BY <1>1, <1>6, <1>8
<1> QED  BY <1>5, <1>7, <1>9

\* Every block is for an entry of new, and there are n of them for each.
Runs(new, n, e) == {i \in DOMAIN Events(new, n) : Events(new, n)[i] = Added(e)}

\* What the blocks of the new entries are.
LEMMA EventsOf ==
    ASSUME NEW new \in SUBSET Entries, NEW n \in Nat
    PROVE  /\ Events(new, n) \in Seq(Blocks)
           /\ \A i \in DOMAIN Events(new, n) : \E e \in new : Events(new, n)[i] = Added(e)
           /\ n # 0 => \A e \in new : \E i \in DOMAIN Events(new, n) : Events(new, n)[i] = Added(e)
           /\ \A e \in new : IsFiniteSet(Runs(new, n, e)) /\ Cardinality(Runs(new, n, e)) <= n
<1>1. IsFiniteSet(new) /\ Cardinality(new) \in Nat  BY EntriesFinite
<1> PICK m : m = Cardinality(new)  OBVIOUS
<1> PICK E : E = Events(new, n)  OBVIOUS
<1>2. m \in Nat /\ m * n \in Nat  BY <1>1
<1> DEFINE run(i) == 1 + (i - 1) \div n
<1>3. DOMAIN E = 1 .. m * n /\ \A i \in 1 .. m * n : E[i] = Added(Nth(new, run(i)))
  BY DEF Events
<1>4. ASSUME NEW i \in 1 .. m * n
      PROVE  /\ run(i) \in 1 .. m /\ n # 0
             /\ i \in (n * (run(i) - 1) + 1) .. (n * (run(i) - 1) + n)
  <2>1. n # 0  BY <1>2
  <2> QED  BY <1>2, <2>1, Place
<1>5. \A d, e : Added(d) = Added(e) => d = e
  <2>1. ASSUME NEW d, NEW e, Added(d) = Added(e) PROVE d = e
    <3>1. Added(d).entry = d /\ Added(e).entry = e  BY DEF Added
    <3> QED  BY <2>1, <3>1
  <2> QED  BY <2>1
<1>6. ASSUME NEW i \in DOMAIN E
      PROVE  \E e \in new : E[i] = Added(e) /\ Rank(new, e) = run(i)
  <2>1. run(i) \in 1 .. Cardinality(new)  BY <1>3, <1>4, <1>6
  <2> HIDE DEF run
  <2> QED  BY <1>3, <2>1, NthOf
<1>7. ASSUME NEW e \in new, n # 0
      PROVE  \E i \in DOMAIN E : E[i] = Added(e)
  <2>1. Rank(new, e) \in 1 .. m /\ Nth(new, Rank(new, e)) = e  BY RankGrows, NthOf
  <2>2. PICK i \in 1 .. m * n : run(i) = Rank(new, e)
    <3>1. n \in Nat \ {0}  BY <1>7
    <3> QED  BY <1>2, <2>1, <3>1, Placed
  <2> HIDE DEF run
  <2> QED  BY <1>3, <2>1, <2>2
<1>8. ASSUME NEW e \in new
      PROVE  IsFiniteSet(Runs(new, n, e)) /\ Cardinality(Runs(new, n, e)) <= n
  <2> PICK R : R = {i \in DOMAIN E : E[i] = Added(e)}  OBVIOUS
  <2> PICK a \in Int : a = n * (Rank(new, e) - 1)
    <3>1. Rank(new, e) \in 1 .. m  BY RankGrows
    <3> QED  BY <1>2, <3>1
  <2>1. R \in SUBSET ((a + 1) .. (a + n))
    <3>1. SUFFICES ASSUME NEW i \in DOMAIN E, E[i] = Added(e)
                   PROVE  i \in (a + 1) .. (a + n)
      OBVIOUS
    <3>2. Rank(new, e) = run(i)
      <4> HIDE DEF run
      <4> QED  BY <1>5, <1>6, <3>1
    <3> QED  BY <1>3, <1>4, <3>2
  <2>2. IsFiniteSet((a + 1) .. (a + n)) /\ Cardinality((a + 1) .. (a + n)) = n
    <3>1. a + 1 \in Int /\ a + n \in Int  OBVIOUS
    <3>2. (a + 1 > a + n => n = 0) /\ (a + n) - (a + 1) + 1 = n  OBVIOUS
    <3> QED  BY <3>1, <3>2, FS_Interval
  <2>3. IsFiniteSet(R) /\ Cardinality(R) <= n  BY <2>1, <2>2, FS_Subset
  <2> QED  BY <2>3 DEF Runs
<1>9. E \in Seq(Blocks)
  <2>1. \A e \in new : Added(e) \in Blocks  BY DEF Added, Blocks
  <2>2. \A i \in 1 .. m * n : E[i] \in Blocks  BY <1>3, <1>6, <2>1
  <2>3. E = [i \in 1 .. m * n |-> E[i]]  BY DEF Events
  <2>4. PICK k \in Nat : k = m * n  BY <1>2
  <2>5. E = [i \in 1 .. k |-> E[i]] /\ \A i \in 1 .. k : E[i] \in Blocks  BY <2>2, <2>3, <2>4
  <2> QED  BY ONLY <2>5, k \in Nat
<1> QED  BY <1>6, <1>7, <1>8, <1>9

\* None of them is a cell's.
LEMMA EventBlocks ==
    ASSUME NEW new \in SUBSET Entries, NEW n \in Nat
    PROVE  /\ IsSeq(Events(new, n))
           /\ \A i \in DOMAIN Events(new, n) : Events(new, n)[i].type = "added"
<1>1. \A e : Added(e).type = "added"  BY DEF Added
<1>2. PICK E : E = Events(new, n)  OBVIOUS
<1>3. E \in Seq(Blocks) /\ \A i \in DOMAIN E : \E e \in new : E[i] = Added(e)
  BY <1>2, EventsOf
<1>4. \A i \in DOMAIN E : E[i].type = "added"  BY <1>1, <1>3
<1>5. IsSeq(E)  BY <1>3 DEF IsSeq
<1> QED  BY <1>2, <1>4, <1>5

-----------------------------------------------------------------------------
LEMMA InitIInv == Init => IInv
<1> SUFFICES ASSUME Init PROVE IInv  OBVIOUS
<1>1. IsSeq(<<>>)  BY ShortSeq
<1>2. ClientTyped
  BY <1>1, SizesAssumption DEF Init, ClientTyped, MessagesTyped, Entries
<1>3. RowsKept
  BY <1>1 DEF Init, RowsKept, CellsFit, RowsInRange
<1> QED  BY <1>2, <1>3 DEF IInv

\* Messages that are typed keep the queue typed.
LEMMA MessagesSent ==
    ASSUME ClientTyped, NEW ms, IsSeq(ms), MessagesTyped(ms),
           down' = down \/ down' = down \o ms
    PROVE  IsSeq(down') /\ MessagesTyped(down')
<1>1. CASE down' = down  BY <1>1 DEF ClientTyped
<1>2. CASE down' = down \o ms  BY <1>2, JoinSeq DEF ClientTyped, MessagesTyped
<1> QED  BY <1>1, <1>2

LEMMA OneMessage ==
    ASSUME NEW t \in {"removed", "ack", "added"}, NEW e, t = "added" => e \in Entries
    PROVE  IsSeq(<<Message(t, e)>>) /\ MessagesTyped(<<Message(t, e)>>)
BY ShortSeq DEF MessagesTyped, Message

LEMMA NextClientTyped == ClientTyped /\ [Next]_vars => ClientTyped'
<1> SUFFICES ASSUME ClientTyped, [Next]_vars PROVE ClientTyped'  OBVIOUS
<1> USE DEF ClientTyped
<1>1. CASE UNCHANGED <<images, last, known, down>> /\ observers' \in {observers, 0, observers + 1}
  BY <1>1 DEF MessagesTyped
<1>2. CASE ServeListen
  <2>1. UNCHANGED <<images, last, known, observers>>
    BY <1>2 DEF ServeListen, database, gallery
  <2>2. down' = Append(down, [type |-> "all", entries |-> images])  BY <1>2 DEF ServeListen
  <2>3. IsSeq(down') /\ MessagesTyped(down')  BY <2>2, AppendSeq DEF MessagesTyped
  <2> QED  BY <2>1, <2>3
<1>3. CASE ServeRemoval
  <2>1. UNCHANGED <<last, known, observers>> /\ images' \in SUBSET Entries
    BY <1>3 DEF ServeRemoval, gallery
  <2> DEFINE e == Head(up)
             pushed == IF e \in images THEN <<Message("removed", e)>> ELSE <<>>
             ms == pushed \o <<Message("ack", e)>>
  <2>2. IsSeq(pushed) /\ MessagesTyped(pushed)
    <3>1. CASE e \in images
      <4>1. IsSeq(<<Message("removed", e)>>) /\ MessagesTyped(<<Message("removed", e)>>)
        BY OneMessage
      <4> QED  BY <3>1, <4>1
    <3>2. CASE e \notin images
      <4>1. IsSeq(<<>>) /\ MessagesTyped(<<>>)  BY ShortSeq DEF MessagesTyped
      <4> QED  BY <3>2, <4>1
    <3> QED  BY <3>1, <3>2
  <2>3. IsSeq(<<Message("ack", e)>>) /\ MessagesTyped(<<Message("ack", e)>>)  BY OneMessage
  <2>4. IsSeq(ms) /\ MessagesTyped(ms)
    <3> HIDE DEF pushed
    <3> QED  BY <2>2, <2>3, JoinSeq DEF MessagesTyped
  <2>5. down' = down \/ down' = down \o ms  BY <1>3 DEF ServeRemoval, Told
  <2>6. IsSeq(down') /\ MessagesTyped(down')
    <3> HIDE DEF ms
    <3> QED  BY <2>4, <2>5, MessagesSent
  <2> QED  BY <2>1, <2>6
<1>4. CASE OtherSaves
  <2>1. /\ UNCHANGED <<known, observers>> /\ last + 1 \in Entries
        /\ last' \in 0 .. MaxEntry /\ images' \in SUBSET Entries
    BY <1>4, SizesAssumption DEF OtherSaves, gallery, Entries
  <2>2. IsSeq(<<Message("added", last + 1)>>) /\ MessagesTyped(<<Message("added", last + 1)>>)
    BY <2>1, OneMessage
  <2>3. IsSeq(down') /\ MessagesTyped(down')
    BY <1>4, <2>2, MessagesSent DEF OtherSaves, Told
  <2> QED  BY <2>1, <2>3
<1>5. ASSUME NEW e \in Entries, OtherDeletes(e)
      PROVE  ClientTyped'
  <2>1. UNCHANGED <<last, known, observers>> /\ images' \in SUBSET Entries
    BY <1>5 DEF OtherDeletes, gallery
  <2>2. IsSeq(<<Message("removed", e)>>) /\ MessagesTyped(<<Message("removed", e)>>)
    BY OneMessage
  <2>3. IsSeq(down') /\ MessagesTyped(down')
    BY <1>5, <2>2, MessagesSent DEF OtherDeletes, Told
  <2> QED  BY <2>1, <2>3
<1>6. CASE Arrive
  <2>1. UNCHANGED <<images, last, observers>>  BY <1>6 DEF Arrive, database, gallery
  <2>2. /\ IsSeq(Tail(down)) /\ 1 \in DOMAIN down /\ Head(down) = down[1]
        /\ \A i \in DOMAIN Tail(down) : i + 1 \in DOMAIN down /\ Tail(down)[i] = down[i + 1]
    BY <1>6, TailSeq DEF Arrive
  <2>3. IsSeq(down') /\ MessagesTyped(down')  BY <1>6, <2>2 DEF Arrive, MessagesTyped
  <2>4. known' \in SUBSET Entries
    BY <1>6, <2>2 DEF Arrive, Received, MessagesTyped
  <2> QED  BY <2>1, <2>3, <2>4
<1> QED
  BY <1>1, <1>2, <1>3, <1>4, <1>5, <1>6
  DEF Next, User, MainQueue, Pictured, Database, vars, database, client, gallery,
      ShowProfile, LeaveProfile, OpenDetail, HandleProfileTap, Appear, Dismiss,
      DeleteUserImage, Choose, RunObserve, RunAdded, Layout, RunCells, RunGetName,
      RunUpload, GetNameCallback, Downloaded, Uploaded, UploadFails

-----------------------------------------------------------------------------
\* Blocks that are no cell's may be queued at any time.
LEMMA QueueBlocks ==
    ASSUME NEW q, NEW g, NEW bs, IsSeq(q), IsSeq(bs), CellsFit(q, g),
           \A i \in DOMAIN bs : bs[i].type # "cells"
    PROVE  IsSeq(q \o bs) /\ CellsFit(q \o bs, g)
<1>1. /\ IsSeq(q \o bs)
      /\ \A i \in DOMAIN (q \o bs) :
             \/ i \in DOMAIN q /\ (q \o bs)[i] = q[i]
             \/ i - Len(q) \in DOMAIN bs /\ (q \o bs)[i] = bs[i - Len(q)]
  BY JoinSeq
<1> DEFINE all == q \o bs
<1> HIDE DEF all
<1>2. ASSUME NEW i \in DOMAIN all, all[i].type = "cells"
      PROVE  /\ screen = "profile"
             /\ all[i].rows \in Nat /\ all[i].rows <= Len(g)
  <2>1. i - Len(q) \notin DOMAIN bs \/ all[i] # bs[i - Len(q)]  BY <1>2
  <2>2. i \in DOMAIN q /\ all[i] = q[i]  BY <1>1, <2>1 DEF all
  <2> QED  BY <1>2, <2>2 DEF CellsFit
<1>3. CellsFit(all, g)  BY <1>2 DEF CellsFit
<1> QED  BY <1>1, <1>3 DEF all

\* The rest of the queue, when its head has run.
LEMMA RestOfQueue ==
    ASSUME RowsKept, main # <<>>
    PROVE  IsSeq(Tail(main)) /\ CellsFit(Tail(main), grid)
BY TailSeq DEF RowsKept, CellsFit

LEMMA NewEvents ==
    ASSUME ClientTyped, ClientTyped'
    PROVE  /\ View \in SUBSET Entries /\ View' \in SUBSET Entries
           /\ View' \ View \in SUBSET Entries
BY DEF ClientTyped, View

\* viewWillAppear empties the array when no cell's block is queued.
LEMMA AppearKeeps ==
    ASSUME RowsKept, NEW bs, IsSeq(bs), Appear(bs), screen # "profile", UNCHANGED trapped,
           \A i \in DOMAIN bs : bs[i].type # "cells"
    PROVE  RowsKept'
<1> DEFINE one == <<Block("observe")>>
<1>1. IsSeq(one) /\ \A i \in DOMAIN one : one[i].type # "cells"
  BY ShortSeq DEF Block
<1>2. IsSeq(main) /\ CellsFit(main, <<>>)
  BY DEF RowsKept, CellsFit
<1> HIDE DEF one
<1>3. IsSeq(main \o one) /\ CellsFit(main \o one, <<>>)
  BY <1>1, <1>2, QueueBlocks
<1>4. IsSeq((main \o one) \o bs) /\ CellsFit((main \o one) \o bs, <<>>)
  BY <1>3, QueueBlocks
<1>5. /\ main' = (main \o one) \o bs /\ grid' = <<>> /\ screen' = "profile"
  BY DEF Appear, one
<1>6. IsSeq(grid')  BY <1>5, ShortSeq
<1>7. \A i \in DOMAIN main' : main'[i].type # "cells"
  <2>1. \A i \in DOMAIN main : main[i].type # "cells"  BY DEF RowsKept, CellsFit
  <2>2. \A i \in DOMAIN (main \o one) : (main \o one)[i].type # "cells"
    <3>1. \A i \in DOMAIN (main \o one) :
             \/ i \in DOMAIN main /\ (main \o one)[i] = main[i]
             \/ i - Len(main) \in DOMAIN one /\ (main \o one)[i] = one[i - Len(main)]
      BY <1>1, <1>2, JoinSeq
    <3> QED  BY <2>1, <1>1, <3>1, Zenon
  <2> QED  BY <2>2, <1>3, <1>5, JoinSeq
<1> QED
  BY <1>4, <1>5, <1>6, <1>7 DEF RowsKept, CellsFit, RowsInRange

LEMMA NextRowsKept == IInv /\ ClientTyped' /\ [Next]_vars => RowsKept'
<1> SUFFICES ASSUME IInv, ClientTyped', [Next]_vars PROVE RowsKept'  OBVIOUS
<1>0. RowsKept /\ ClientTyped  BY DEF IInv
<1>a. IsSeq(<<>>) /\ \A i \in DOMAIN <<>> : <<>>[i].type # "cells"  BY ShortSeq
<1>1. CASE UNCHANGED <<main, grid, screen, trapped>>
  BY <1>0, <1>1 DEF RowsKept, CellsFit, RowsInRange
<1>2. CASE ShowProfile
  <2>1. main' = <<Block("getName"), Block("observe")>> /\ grid' = <<>> /\ trapped' = trapped
    BY <1>2 DEF ShowProfile
  <2>2. main' \in Seq({Block("getName"), Block("observe")}) /\ DOMAIN main' = 1 .. 2
    BY <2>1
  <2>3. \A i \in DOMAIN main' : main'[i].type # "cells"
    BY <2>1, <2>2 DEF Block
  <2> QED  BY <1>0, <1>a, <2>1, <2>2, <2>3 DEF RowsKept, CellsFit, RowsInRange, IsSeq
<1>3. CASE LeaveProfile \/ OpenDetail \/ HandleProfileTap
  <2>1. /\ main = <<>> /\ main' = <<>> /\ trapped' = trapped /\ grid' \in {grid, <<>>}
    BY <1>3 DEF LeaveProfile, OpenDetail, HandleProfileTap, Quiet, gallery
  <2> QED  BY <1>0, <1>a, <2>1 DEF RowsKept, CellsFit, RowsInRange
<1>4. CASE Dismiss \/ DeleteUserImage
  <2>1. Appear(<<>>) /\ screen # "profile" /\ UNCHANGED trapped
    BY <1>4 DEF Dismiss, DeleteUserImage
  <2> QED  BY <1>0, <1>a, <2>1, AppearKeeps
<1>5. CASE Choose
  <2>1. PICK p : Appear(<<Upload(p)>>)  BY <1>5 DEF Choose
  <2>2. IsSeq(<<Upload(p)>>) /\ \A i \in DOMAIN <<Upload(p)>> : <<Upload(p)>>[i].type # "cells"
    BY ShortSeq DEF Upload
  <2>3. screen # "profile" /\ UNCHANGED trapped  BY <1>5 DEF Choose
  <2> QED  BY <1>0, <2>1, <2>2, <2>3, AppearKeeps
<1>6. CASE RunObserve
  <2>1. IsSeq(Tail(main)) /\ CellsFit(Tail(main), grid)
    BY <1>0, <1>6, RestOfQueue DEF RunObserve, Next1
  <2>2. /\ IsSeq(Events(View, 1))
        /\ \A i \in DOMAIN Events(View, 1) : Events(View, 1)[i].type # "cells"
    BY <1>0, NewEvents, EventBlocks
  <2>3. IsSeq(main') /\ CellsFit(main', grid)
    BY <1>6, <2>1, <2>2, QueueBlocks DEF RunObserve
  <2>4. UNCHANGED <<screen, grid, trapped>>  BY <1>6 DEF RunObserve
  <2> QED  BY <1>0, <2>3, <2>4 DEF RowsKept, CellsFit, RowsInRange
<1>7. CASE RunAdded
  <2>1. IsSeq(Tail(main)) /\ CellsFit(Tail(main), grid)
    BY <1>0, <1>7, RestOfQueue DEF RunAdded, Next1
  <2>2. IsSeq(grid') /\ Len(grid) \in Nat /\ Len(grid') = Len(grid) + 1
    BY <1>0, <1>7, AppendSeq DEF RunAdded, RowsKept
  <2>3. UNCHANGED <<screen, trapped>> /\ main' = Tail(main)  BY <1>7 DEF RunAdded
  <2> QED  BY <1>0, <2>1, <2>2, <2>3 DEF RowsKept, CellsFit, RowsInRange
<1>8. CASE Layout
  <2>1. UNCHANGED <<screen, grid, trapped>> /\ screen = "profile"  BY <1>8 DEF Layout
  <2>2. IsSeq(<<Cells(Len(grid))>>) /\ Len(grid) \in Nat  BY <1>0, ShortSeq, AppendSeq DEF RowsKept
  <2>3. CASE main' = main  BY <1>0, <2>1, <2>3 DEF RowsKept, CellsFit, RowsInRange
  <2>4. CASE main' = Append(main, Cells(Len(grid)))
    BY <1>0, <2>1, <2>2, <2>4, AppendSeq DEF RowsKept, CellsFit, RowsInRange, Cells
  <2> QED  BY <1>8, <2>3, <2>4 DEF Layout
<1>9. CASE RunCells
  <2>1. IsSeq(Tail(main)) /\ CellsFit(Tail(main), grid)
    BY <1>0, <1>9, RestOfQueue DEF RunCells, Next1
  <2>2. Head(main).rows \in Nat /\ Head(main).rows <= Len(grid) /\ Len(grid) \in Nat
    BY <1>0, <1>9, TailSeq, AppendSeq DEF RunCells, Next1, RowsKept, CellsFit
  <2>3. ~(Head(main).rows > Len(grid))  BY <2>2
  <2>4. /\ UNCHANGED <<screen, grid>> /\ main' = Tail(main)
        /\ trapped' = (Head(main).rows > Len(grid))
    BY <1>9 DEF RunCells, gallery
  <2>5. ~trapped'  BY <2>3, <2>4, Zenon
  <2> QED  BY <1>0, <2>1, <2>4, <2>5 DEF RowsKept, CellsFit, RowsInRange
<1>10. CASE RunGetName \/ RunUpload
  <2>1. main # <<>> /\ main' = Tail(main) /\ UNCHANGED <<screen, grid, trapped>>
    BY <1>10 DEF RunGetName, RunUpload, Next1, gallery
  <2>2. IsSeq(Tail(main)) /\ CellsFit(Tail(main), grid)  BY <1>0, <2>1, RestOfQueue
  <2> QED  BY <1>0, <2>1, <2>2 DEF RowsKept, CellsFit, RowsInRange
<1>11. CASE Arrive
  <2> DEFINE new == Events(View' \ View, observers)
  <2>1. IsSeq(new) /\ \A i \in DOMAIN new : new[i].type # "cells"
    BY <1>0, NewEvents, EventBlocks DEF ClientTyped
  <2>2. main' = main \o new /\ UNCHANGED <<screen, grid, trapped>>
    BY <1>11 DEF Arrive, gallery
  <2> HIDE DEF new
  <2>3. IsSeq(main') /\ CellsFit(main', grid)
    BY <1>0, <2>1, <2>2, QueueBlocks DEF RowsKept
  <2> QED  BY <1>0, <2>2, <2>3 DEF RowsKept, CellsFit, RowsInRange
<1> QED
  BY <1>1, <1>2, <1>3, <1>4, <1>5, <1>6, <1>7, <1>8, <1>9, <1>10, <1>11
  DEF Next, User, MainQueue, Pictured, Database, vars, gallery,
      GetNameCallback, Downloaded, Uploaded, UploadFails, ServeListen, ServeRemoval,
      OtherSaves, OtherDeletes

(***************************************************************************)
(* For any entries, pictures, devices and bounds, no cell's block reads a  *)
(* row that userImageObjects no longer has: while one is queued nothing    *)
(* empties the array, for viewWillAppear comes only after something else   *)
(* was in front.                                                           *)
(***************************************************************************)
THEOREM RowsAlwaysInRange == Spec => []RowsInRange
<1>1. IInv /\ [Next]_vars => IInv'
  BY NextClientTyped, NextRowsKept DEF IInv
<1>2. IInv => RowsInRange  BY DEF IInv, RowsKept
<1> QED  BY <1>1, <1>2, InitIInv, PTL DEF Spec

-----------------------------------------------------------------------------
(***************************************************************************)
(* The profile picture.  Who waits for each answer finds getName, the      *)
(* download and the uploads one after the other, never two of them.        *)
(***************************************************************************)
Special == {"getName", "upload"}
Queues(t) == \E i \in DOMAIN main : main[i].type = t
Patient == ~hurried /\ spent["fail"] = 0

NameFirst ==
    \A i \in DOMAIN main : main[i].type = "getName" =>
        i = 1 /\ PictureSettled /\ shown = NoPicture /\ ~Queues("upload")

UploadAlone ==
    \A i \in DOMAIN main : main[i].type = "upload" =>
        /\ PictureSettled
        /\ \A j \in DOMAIN main : main[j].type = "upload" => i = j

FetchAlone ==
    fetch # Idle =>
        /\ uploads = {}
        /\ \/ fetch = Asked /\ shown = NoPicture
           \/ fetch = profileUrl /\ profileUrl \in Pictures

ShownStored ==
    /\ uploads \subseteq {shown}
    /\ screen \in {"home", "picker"} => PictureSettled
    /\ PictureSettled /\ screen # "home" /\ ~Queues("getName") /\ ~Queues("upload")
         => shown = profileUrl

OneAtATime == NameFirst /\ UploadAlone /\ FetchAlone /\ ShownStored

\* Whoever waits or not.
PictureTyped ==
    /\ spent \in [Inputs -> Nat]
    /\ profileUrl \in Pictures \cup {NoPicture} /\ uploads \in SUBSET Pictures
    /\ \A i \in DOMAIN main :
          /\ main[i].type \in Special => screen = "profile"
          /\ main[i].type = "upload" => main[i].picture \in Pictures

PictureKept == PictureTyped /\ (Patient => OneAtATime)

\* The special blocks of the queue are those that were k places behind.
Carried(k) ==
    \A i \in DOMAIN main' : main'[i].type \in Special =>
        i + k \in DOMAIN main /\ main'[i] = main[i + k]

Kept(k) ==
    \A i \in DOMAIN main : main[i].type \in Special =>
        i - k \in DOMAIN main' /\ main'[i - k] = main[i]

\* Blocks that are not special change nothing of it behind the queue.
LEMMA JoinCarries ==
    ASSUME IsSeq(main), NEW bs, IsSeq(bs), main' = main \o bs,
           \A i \in DOMAIN bs : bs[i].type \notin Special
    PROVE  IsSeq(main') /\ Carried(0) /\ Kept(0)
<1>1. /\ IsSeq(main') /\ Len(main) \in Nat
      /\ \A i \in DOMAIN main' :
             \/ i \in DOMAIN main /\ main'[i] = main[i]
             \/ i - Len(main) \in DOMAIN bs /\ main'[i] = bs[i - Len(main)]
  BY JoinSeq
<1>2. PICK S : main \in Seq(S)  BY DEF IsSeq
<1>3. PICK T : bs \in Seq(T)  BY DEF IsSeq
<1>4. \A i \in DOMAIN main : i \in DOMAIN main' /\ main'[i] = main[i]
  BY <1>2, <1>3
<1>5. \A i \in DOMAIN main' : i \in Nat
  <2>1. PICK U : main' \in Seq(U)  BY <1>1 DEF IsSeq
  <2> QED  BY <2>1
<1>6. \A i \in DOMAIN main : i \in Nat  BY <1>2
<1>7. ASSUME NEW i \in DOMAIN main', main'[i].type \in Special
      PROVE  i + 0 \in DOMAIN main /\ main'[i] = main[i + 0]
  <2>1. i \in DOMAIN main /\ main'[i] = main[i]  BY <1>1, <1>7
  <2> QED  BY <2>1, <1>5
<1>8. ASSUME NEW i \in DOMAIN main
      PROVE  i - 0 \in DOMAIN main' /\ main'[i - 0] = main[i]
  BY <1>4, <1>6
<1> QED  BY <1>1, <1>7, <1>8 DEF Carried, Kept

LEMMA TailCarries ==
    ASSUME IsSeq(main), main # <<>>, main' = Tail(main)
    PROVE  /\ IsSeq(main') /\ Carried(1)
           /\ Head(main).type \notin Special => Kept(1)
<1>1. PICK S : main \in Seq(S)  BY DEF IsSeq
<1>2. /\ IsSeq(main') /\ 1 \in DOMAIN main /\ Head(main) = main[1]
      /\ \A i \in DOMAIN main' : i + 1 \in DOMAIN main /\ main'[i] = main[i + 1]
  BY TailSeq
<1>3. \A i \in DOMAIN main : i # 1 => i - 1 \in DOMAIN main' /\ main'[i - 1] = main[i]
  BY <1>1
<1> QED  BY <1>2, <1>3 DEF Carried, Kept

LEMMA TailJoinCarries ==
    ASSUME IsSeq(main), main # <<>>, NEW bs, IsSeq(bs), main' = Tail(main) \o bs,
           \A i \in DOMAIN bs : bs[i].type \notin Special
    PROVE  /\ IsSeq(main') /\ Carried(1)
           /\ Head(main).type \notin Special => Kept(1)
<1>1. PICK S : main \in Seq(S)  BY DEF IsSeq
<1>2. PICK T : bs \in Seq(T)  BY DEF IsSeq
<1>3. PICK rest : rest = Tail(main)  OBVIOUS
<1>4. /\ IsSeq(rest) /\ Head(main) = main[1]
      /\ \A i \in DOMAIN rest : i + 1 \in DOMAIN main /\ rest[i] = main[i + 1]
  BY <1>3, TailSeq
<1>5. \A i \in DOMAIN main : i # 1 => i - 1 \in DOMAIN rest /\ rest[i - 1] = main[i]
  BY <1>1, <1>3
<1>6. /\ IsSeq(main')
      /\ \A i \in DOMAIN main' :
             \/ i \in DOMAIN rest /\ main'[i] = rest[i]
             \/ i - Len(rest) \in DOMAIN bs /\ main'[i] = bs[i - Len(rest)]
  BY <1>3, <1>4, JoinSeq
<1>7. \A i \in DOMAIN rest : i \in DOMAIN main' /\ main'[i] = rest[i]
  BY <1>1, <1>2, <1>3
<1>8. Carried(1)
  <2>1. SUFFICES ASSUME NEW i \in DOMAIN main', main'[i].type \in Special
                 PROVE  i + 1 \in DOMAIN main /\ main'[i] = main[i + 1]
    BY DEF Carried
  <2>2. i \in DOMAIN rest /\ main'[i] = rest[i]  BY <1>6, <2>1
  <2> QED  BY <1>4, <2>2
<1>9. Head(main).type \notin Special => Kept(1)
  <2>1. SUFFICES ASSUME main[1].type \notin Special,
                        NEW i \in DOMAIN main, main[i].type \in Special
                 PROVE  i - 1 \in DOMAIN main' /\ main'[i - 1] = main[i]
    BY <1>4 DEF Kept
  <2>2. i # 1  BY <2>1
  <2> QED  BY <1>5, <1>7, <2>2
<1> QED  BY <1>6, <1>8, <1>9

LEMMA SameCarries ==
    ASSUME IsSeq(main), UNCHANGED main
    PROVE  IsSeq(main') /\ Carried(0) /\ Kept(0)
<1>1. PICK S : main \in Seq(S)  BY DEF IsSeq
<1>2. \A i \in DOMAIN main : i + 0 = i /\ i - 0 = i  BY <1>1
<1> QED  BY <1>2 DEF Carried, Kept

\* Then a step that leaves the picture and the patience alone keeps all of it.
LEMMA CarriedKeeps ==
    ASSUME IsSeq(main), IsSeq(main'), PictureKept, NEW k \in {0, 1}, Carried(k), Kept(k),
           UNCHANGED picture, Patient' => Patient, spent' \in [Inputs -> Nat],
           \/ screen' = screen
           \/ screen' = "profile" /\ screen # "home"
           \/ screen = "profile" /\ main = <<>> /\ screen' = "detail"
           \/ screen = "profile" /\ main = <<>> /\ PictureSettled /\ screen' = "picker"
           \/ ~Patient' /\ main = <<>>
    PROVE  PictureKept'
<1>1. PICK S : main \in Seq(S)  BY DEF IsSeq
<1>2. PICK T : main' \in Seq(T)  BY DEF IsSeq
<1>3. /\ \A i \in DOMAIN main : i \in Nat /\ i >= 1
      /\ \A i \in DOMAIN main' : i \in Nat /\ i >= 1
  BY <1>1, <1>2
<1>4. \A t \in Special : Queues(t) <=> Queues(t)'
  BY DEF Queues, Carried, Kept
<1>5. PictureTyped'
  <2>1. main = <<>> => DOMAIN main = {}  BY <1>1
  <2>2. ASSUME NEW i \in DOMAIN main', main'[i].type \in Special
        PROVE  /\ screen = "profile" /\ screen' = "profile"
               /\ main'[i].type = "upload" => main'[i].picture \in Pictures
    <3>1. i + k \in DOMAIN main /\ main'[i] = main[i + k]  BY <2>2 DEF Carried
    <3> QED  BY <2>1, <2>2, <3>1 DEF PictureKept, PictureTyped
  <2> QED  BY <2>2 DEF PictureKept, PictureTyped, picture, Special
<1>6. ASSUME Patient' PROVE OneAtATime'
  <2>1. OneAtATime  BY <1>6 DEF PictureKept
  <2>2. NameFirst'
    BY <1>3, <1>4, <2>1 DEF OneAtATime, NameFirst, Carried, PictureSettled, picture, Special
  <2>3. UploadAlone'
    BY <1>3, <2>1 DEF OneAtATime, UploadAlone, Carried, PictureSettled, picture, Special
  <2>4. FetchAlone'  BY <2>1 DEF OneAtATime, FetchAlone, picture
  <2>5. ShownStored'
    BY <1>4, <1>6, <2>1 DEF OneAtATime, ShownStored, PictureSettled, picture, Special
  <2> QED  BY <2>2, <2>3, <2>4, <2>5 DEF OneAtATime
<1> QED  BY <1>5, <1>6 DEF PictureKept

\* What an input costs is another's business.
LEMMA Spending ==
    ASSUME spent \in [Inputs -> Nat], NEW t \in Inputs, Spend(t)
    PROVE  /\ spent' \in [Inputs -> Nat]
           /\ t # "fail" => spent'["fail"] = spent["fail"]
           /\ t = "fail" => spent'["fail"] # 0
BY DEF Spend, Inputs

LEMMA InitPictureKept == Init => PictureKept
<1> SUFFICES ASSUME Init PROVE PictureKept  OBVIOUS
<1>1. main = <<>> /\ DOMAIN main = {}  BY DEF Init
<1>2. PictureTyped  BY <1>1 DEF Init, PictureTyped
<1>3. OneAtATime
  BY <1>1 DEF Init, OneAtATime, NameFirst, UploadAlone, FetchAlone, ShownStored, PictureSettled
<1> QED  BY <1>2, <1>3 DEF PictureKept

LEMMA UserPicture ==
    ASSUME IsSeq(main), PictureKept, User, ~Choose, ~ShowProfile
    PROVE  PictureKept'
<1>0. spent \in [Inputs -> Nat]  BY DEF PictureKept, PictureTyped
<1>1. CASE LeaveProfile \/ OpenDetail \/ HandleProfileTap
  <2>1. UNCHANGED main /\ main = <<>>
    BY <1>1 DEF LeaveProfile, OpenDetail, HandleProfileTap, Quiet
  <2>2. IsSeq(main') /\ Carried(0) /\ Kept(0)  BY <2>1, SameCarries
  <2>3. spent' \in [Inputs -> Nat] /\ spent'["fail"] = spent["fail"]
    BY <1>0, <1>1, Spending
    DEF LeaveProfile, OpenDetail, HandleProfileTap, Inputs
  <2>4. CASE OpenDetail
    <3>1. /\ UNCHANGED <<picture, hurried>> /\ screen = "profile" /\ screen' = "detail"
      BY <2>4 DEF OpenDetail, ghosts
    <3> QED  BY <2>1, <2>2, <2>3, <3>1, CarriedKeeps DEF Patient
  <2>5. CASE HandleProfileTap
    <3>1. /\ UNCHANGED picture /\ screen = "profile" /\ screen' = "picker"
          /\ hurried' = (hurried \/ ~PictureSettled)
      BY <2>5 DEF HandleProfileTap, Hurry
    <3>2. (Patient' => Patient) /\ (~Patient' \/ PictureSettled)
      BY <2>3, <3>1 DEF Patient
    <3> QED  BY <2>1, <2>2, <2>3, <3>1, <3>2, CarriedKeeps
  <2>6. CASE LeaveProfile
    <3>1. /\ UNCHANGED <<profileUrl, shown, uploads>> /\ screen' = "home" /\ fetch' = Idle
          /\ hurried' = (hurried \/ ~PictureSettled)
      BY <2>6 DEF LeaveProfile, Hurry
    <3>2. Patient' => Patient /\ PictureSettled
      BY <2>3, <3>1 DEF Patient
    <3>3. DOMAIN main' = {}  BY <2>1
    <3>4. PictureTyped'
      BY <2>3, <3>1, <3>3 DEF PictureKept, PictureTyped
    <3>5. ASSUME Patient' PROVE OneAtATime'
      BY <3>1, <3>2, <3>3, <3>5
      DEF OneAtATime, NameFirst, UploadAlone, FetchAlone, ShownStored, PictureSettled
    <3> QED  BY <3>4, <3>5 DEF PictureKept
  <2> QED  BY <1>1, <2>4, <2>5, <2>6
<1>2. CASE Dismiss \/ DeleteUserImage
  <2>1. /\ main' = (main \o <<Block("observe")>>) \o <<>> /\ screen' = "profile"
        /\ screen # "home" /\ UNCHANGED <<picture, hurried, spent>>
    BY <1>2 DEF Dismiss, DeleteUserImage, Appear, ghosts
  <2>2. /\ IsSeq(<<Block("observe")>>)
        /\ \A i \in DOMAIN <<Block("observe")>> : <<Block("observe")>>[i].type \notin Special
    BY ShortSeq DEF Block, Special
  <2>3. main' = main \o <<Block("observe")>>
    <3>1. PICK S : main \in Seq(S)  BY DEF IsSeq
    <3>2. main \in Seq(S \cup {Block("observe")})  BY <3>1
    <3>3. main \o <<Block("observe")>> \in Seq(S \cup {Block("observe")})  BY <3>2
    <3> QED  BY <2>1, <3>3
  <2>4. IsSeq(main') /\ Carried(0) /\ Kept(0)  BY <2>2, <2>3, JoinCarries
  <2> QED  BY <1>0, <2>1, <2>4, CarriedKeeps DEF Patient
<1> QED  BY <1>1, <1>2 DEF User

\* getName is the first block of a new controller, an upload the last one of
\* a choice.
LEMMA ShowPicture ==
    ASSUME PictureKept, ShowProfile
    PROVE  PictureKept'
<1>1. /\ screen = "home" /\ screen' = "profile" /\ UNCHANGED <<profileUrl, fetch, uploads, hurried>>
      /\ shown' = NoPicture /\ main' = <<Block("getName"), Block("observe")>>
      /\ Spend("profile")
  BY DEF ShowProfile, ghosts
<1>2. spent' \in [Inputs -> Nat] /\ spent'["fail"] = spent["fail"]
  BY <1>1, Spending DEF Inputs, PictureKept, PictureTyped
<1>3. DOMAIN main' = {1, 2} /\ main'[1].type = "getName" /\ main'[2].type = "observe"
  <2>1. PICK a, b : a = Block("getName") /\ b = Block("observe")  OBVIOUS
  <2>2. main' = <<a, b>> /\ a.type = "getName" /\ b.type = "observe"
    BY <1>1, <2>1 DEF Block
  <2> QED  BY <2>2
<1>4. PictureTyped'
  BY <1>1, <1>2, <1>3 DEF PictureKept, PictureTyped, Special
<1>5. ASSUME Patient' PROVE OneAtATime'
  <2>1. OneAtATime  BY <1>1, <1>2, <1>5 DEF Patient, PictureKept
  <2>2. PictureSettled /\ PictureSettled'
    BY <1>1, <2>1 DEF OneAtATime, ShownStored, PictureSettled
  <2>3. ~Queues("upload")' /\ Queues("getName")'  BY <1>3 DEF Queues
  <2>4. NameFirst'  BY <1>1, <1>3, <2>2, <2>3 DEF NameFirst
  <2>5. UploadAlone'  BY <1>3 DEF UploadAlone
  <2>6. FetchAlone'  BY <2>2 DEF FetchAlone, PictureSettled
  <2>7. ShownStored'  BY <1>1, <2>2, <2>3 DEF ShownStored, PictureSettled
  <2> QED  BY <2>4, <2>5, <2>6, <2>7 DEF OneAtATime
<1> QED  BY <1>4, <1>5 DEF PictureKept

LEMMA ChoosePicture ==
    ASSUME IsSeq(main), PictureKept, Choose
    PROVE  PictureKept'
<1>1. PICK p \in Pictures : main' = (main \o <<Block("observe")>>) \o <<Upload(p)>>
  BY DEF Choose, Appear
<1>2. /\ screen = "picker" /\ screen' = "profile" /\ UNCHANGED <<picture, hurried, spent>>
  BY DEF Choose, Appear, ghosts
<1>3. PICK b, u : b = Block("observe") /\ u = Upload(p)  OBVIOUS
<1>4. b.type = "observe" /\ u.type = "upload" /\ u.picture = p
  BY <1>3 DEF Block, Upload
<1>5. PICK S : main \in Seq(S)  BY DEF IsSeq
<1>6. PICK n \in Nat : n = Len(main) /\ DOMAIN main = 1 .. n  BY <1>5
<1>7. /\ DOMAIN main' = 1 .. n + 2 /\ main'[n + 1] = b /\ main'[n + 2] = u
      /\ \A i \in 1 .. n : main'[i] = main[i]
  <2>1. main \in Seq(S \cup {b, u}) /\ <<b>> \in Seq(S \cup {b, u}) /\ <<u>> \in Seq(S \cup {b, u})
    BY <1>5
  <2>2. main' = (main \o <<b>>) \o <<u>>  BY <1>1, <1>3
  <2> QED  BY <1>6, <2>1, <2>2
<1>8. \A i \in 1 .. n : main[i].type \notin Special
  BY <1>2, <1>6 DEF PictureKept, PictureTyped
<1>9. \A i \in DOMAIN main' : main'[i].type \in Special => i = n + 2
  <2>1. \A i \in DOMAIN main' : i \in 1 .. n \/ i = n + 1 \/ i = n + 2  BY <1>7
  <2> QED  BY <1>4, <1>7, <1>8, <2>1 DEF Special
<1>10. PictureTyped'
  BY <1>2, <1>4, <1>7, <1>9 DEF PictureKept, PictureTyped, Special, picture
<1>11. ASSUME Patient' PROVE OneAtATime'
  <2>1. OneAtATime  BY <1>2, <1>11 DEF Patient, PictureKept
  <2>2. PictureSettled /\ PictureSettled'
    BY <1>2, <2>1 DEF OneAtATime, ShownStored, PictureSettled, picture
  <2>3. n + 2 \in DOMAIN main'  BY <1>7
  <2>4. Queues("upload")'  BY <1>4, <1>7, <2>3 DEF Queues
  <2>5. NameFirst'  BY <1>4, <1>7, <1>9 DEF NameFirst, Special
  <2>6. UploadAlone'  BY <1>9, <2>2 DEF UploadAlone, Special
  <2>7. FetchAlone'  BY <2>2 DEF FetchAlone, PictureSettled
  <2>8. ShownStored'  BY <1>2, <2>2, <2>4 DEF ShownStored, PictureSettled
  <2> QED  BY <2>5, <2>6, <2>7, <2>8 DEF OneAtATime
<1> QED  BY <1>10, <1>11 DEF PictureKept

LEMMA QueuePicture ==
    ASSUME IInv, PictureKept, MainQueue
    PROVE  PictureKept'
<1>0. /\ ClientTyped /\ IsSeq(main) /\ IsSeq(grid) /\ spent \in [Inputs -> Nat]
  BY DEF IInv, RowsKept, PictureKept, PictureTyped
<1>1. UNCHANGED <<hurried, spent, screen, profileUrl>>
  BY DEF MainQueue, RunObserve, RunAdded, Layout, RunCells, RunGetName, RunUpload, ghosts,
         picture
<1>2. CASE RunObserve
  <2>1. PICK new : new = Events(View, 1)  OBVIOUS
  <2>2. IsSeq(new) /\ \A i \in DOMAIN new : new[i].type \notin Special
    <3>1. View \in SUBSET Entries  BY <1>0 DEF ClientTyped, View
    <3> QED  BY <2>1, <3>1, EventBlocks DEF Special
  <2>3. /\ main # <<>> /\ main' = Tail(main) \o new /\ Head(main).type \notin Special
        /\ UNCHANGED picture
    BY <1>2, <2>1 DEF RunObserve, Next1, Special
  <2>4. IsSeq(main') /\ Carried(1) /\ Kept(1)
    BY <1>0, <2>2, <2>3, TailJoinCarries
  <2> QED  BY <1>0, <1>1, <2>3, <2>4, CarriedKeeps DEF Patient
<1>3. CASE RunAdded \/ RunCells
  <2>1. /\ main # <<>> /\ main' = Tail(main) /\ Head(main).type \notin Special
        /\ UNCHANGED picture
    BY <1>3 DEF RunAdded, RunCells, Next1, Special
  <2>2. IsSeq(main') /\ Carried(1) /\ Kept(1)  BY <1>0, <2>1, TailCarries
  <2> QED  BY <1>0, <1>1, <2>1, <2>2, CarriedKeeps DEF Patient
<1>4. CASE Layout
  <2>1. UNCHANGED picture  BY <1>4 DEF Layout
  <2>2. CASE UNCHANGED main
    <3>1. IsSeq(main') /\ Carried(0) /\ Kept(0)  BY <1>0, <2>2, SameCarries
    <3> QED  BY <1>0, <1>1, <2>1, <3>1, CarriedKeeps DEF Patient
  <2>3. CASE main' = Append(main, Cells(Len(grid)))
    <3>1. PICK c : c = Cells(Len(grid))  OBVIOUS
    <3>2. IsSeq(<<c>>) /\ \A i \in DOMAIN <<c>> : <<c>>[i].type \notin Special
      <4>1. c.type = "cells"  BY <3>1 DEF Cells
      <4>2. DOMAIN <<c>> = {1} /\ <<c>>[1] = c /\ IsSeq(<<c>>)  BY ShortSeq
      <4> QED  BY <4>1, <4>2 DEF Special
    <3>3. main' = main \o <<c>>
      <4>1. PICK S : main \in Seq(S)  BY <1>0 DEF IsSeq
      <4>2. main \in Seq(S \cup {c})  BY <4>1
      <4> QED  BY <2>3, <3>1, <4>2
    <3>4. IsSeq(main') /\ Carried(0) /\ Kept(0)  BY <1>0, <3>2, <3>3, JoinCarries
    <3> QED  BY <1>0, <1>1, <2>1, <3>4, CarriedKeeps DEF Patient
  <2> QED  BY <1>4, <2>2, <2>3 DEF Layout
<1>5. ASSUME main # <<>>, main' = Tail(main)
      PROVE  /\ IsSeq(main') /\ Carried(1) /\ 1 \in DOMAIN main /\ Head(main) = main[1]
             /\ \A i \in DOMAIN main' : i \in Nat /\ i >= 1
  <2>1. IsSeq(main') /\ Carried(1)  BY <1>0, <1>5, TailCarries
  <2>2. PICK T : main' \in Seq(T)  BY <2>1 DEF IsSeq
  <2> QED  BY <1>0, <1>5, <2>1, <2>2, TailSeq
<1>6. CASE RunGetName
  <2>1. /\ main # <<>> /\ main' = Tail(main) /\ Head(main).type = "getName"
        /\ fetch' = Asked /\ UNCHANGED <<shown, uploads>>
    BY <1>6 DEF RunGetName, Next1
  <2>2. PictureTyped'
    BY <1>1, <1>5, <2>1 DEF PictureKept, PictureTyped, Carried, Special
  <2>3. ASSUME Patient' PROVE OneAtATime'
    <3>1. OneAtATime  BY <1>1, <2>3 DEF Patient, PictureKept
    <3>2. PictureSettled /\ shown = NoPicture /\ ~Queues("upload")
      BY <1>5, <2>1, <3>1 DEF OneAtATime, NameFirst
    <3>3. ~Queues("upload")' /\ ~Queues("getName")'
      <4>1. ASSUME NEW i \in DOMAIN main', main'[i].type \in Special PROVE FALSE
        <5>1. i + 1 \in DOMAIN main /\ main'[i] = main[i + 1] /\ i + 1 # 1
          BY <1>5, <2>1, <4>1 DEF Carried
        <5>2. main[i + 1].type # "getName"  BY <3>1, <5>1 DEF OneAtATime, NameFirst
        <5>3. main[i + 1].type # "upload"  BY <3>2, <5>1 DEF Queues
        <5> QED  BY <4>1, <5>1, <5>2, <5>3 DEF Special
      <4> QED  BY <4>1 DEF Queues, Special
    <3>4. screen' = "profile"
      BY <1>1, <1>5, <2>1 DEF PictureKept, PictureTyped, Special
    <3>5. Asked # Idle  BY DEF Asked, Idle
    <3>6. NameFirst' /\ UploadAlone'
      BY <3>3, Zenon DEF NameFirst, UploadAlone, Queues
    <3>7. FetchAlone' /\ ShownStored'
      BY <2>1, <3>2, <3>4, <3>5 DEF FetchAlone, ShownStored, PictureSettled
    <3> QED  BY <3>6, <3>7 DEF OneAtATime
  <2> QED  BY <2>2, <2>3 DEF PictureKept
<1>7. CASE RunUpload
  <2>1. /\ main # <<>> /\ main' = Tail(main) /\ Head(main).type = "upload"
        /\ uploads' = uploads \cup {Head(main).picture} /\ shown' = Head(main).picture
        /\ UNCHANGED fetch
    BY <1>7 DEF RunUpload, Next1
  <2>2. PictureTyped'
    BY <1>1, <1>5, <2>1 DEF PictureKept, PictureTyped, Carried, Special
  <2>3. ASSUME Patient' PROVE OneAtATime'
    <3>1. OneAtATime  BY <1>1, <2>3 DEF Patient, PictureKept
    <3>2. PictureSettled /\ \A j \in DOMAIN main : main[j].type = "upload" => j = 1
      BY <1>5, <2>1, <3>1 DEF OneAtATime, UploadAlone
    <3>3. ~Queues("upload")' /\ ~Queues("getName")'
      <4>1. ASSUME NEW i \in DOMAIN main', main'[i].type \in Special PROVE FALSE
        <5>1. i + 1 \in DOMAIN main /\ main'[i] = main[i + 1] /\ i + 1 # 1
          BY <1>5, <2>1, <4>1 DEF Carried
        <5>2. main[i + 1].type # "getName"  BY <3>1, <5>1 DEF OneAtATime, NameFirst
        <5>3. main[i + 1].type # "upload"  BY <3>2, <5>1
        <5> QED  BY <4>1, <5>1, <5>2, <5>3 DEF Special
      <4> QED  BY <4>1 DEF Queues, Special
    <3>4. screen' = "profile"
      BY <1>1, <1>5, <2>1 DEF PictureKept, PictureTyped, Special
    <3>6. NameFirst' /\ UploadAlone'
      BY <3>3, Zenon DEF NameFirst, UploadAlone, Queues
    <3>7. FetchAlone' /\ ShownStored'
      BY <2>1, <3>2, <3>4 DEF FetchAlone, ShownStored, PictureSettled
    <3> QED  BY <3>6, <3>7 DEF OneAtATime
  <2> QED  BY <2>2, <2>3 DEF PictureKept
<1> QED  BY <1>2, <1>3, <1>4, <1>6, <1>7 DEF MainQueue

\* getName's answer, the download and the end of an upload.
LEMMA AnswerPicture ==
    ASSUME IsSeq(main), PictureKept,
           \/ Pictured
           \/ \E p \in Pictures : Uploaded(p) \/ UploadFails(p)
    PROVE  PictureKept'
<1>0. /\ spent \in [Inputs -> Nat] /\ PictureTyped
  BY DEF PictureKept, PictureTyped
<1>1. UNCHANGED <<main, screen, hurried>>
  BY DEF Pictured, GetNameCallback, Downloaded, Uploaded, UploadFails, ghosts
<1>2. CASE \E p \in Pictures : UploadFails(p)
  <2>1. PICK p \in Pictures : UploadFails(p)  BY <1>2
  <2>2. /\ uploads' = uploads \ {p} /\ UNCHANGED <<profileUrl, fetch, shown>>
        /\ spent' \in [Inputs -> Nat] /\ spent'["fail"] # 0
    BY <1>0, <2>1, Spending DEF UploadFails, Inputs
  <2> QED  BY <1>0, <1>1, <2>2 DEF PictureKept, PictureTyped, Patient
<1>3. ASSUME ~ \E p \in Pictures : UploadFails(p)
      PROVE  UNCHANGED spent
  BY <1>3 DEF Pictured, GetNameCallback, Downloaded, Uploaded
<1>4. ASSUME UNCHANGED spent, PictureTyped',
             ASSUME OneAtATime PROVE OneAtATime'
      PROVE  PictureKept'
  BY <1>1, <1>4 DEF PictureKept, Patient
<1>5. CASE UNCHANGED spent /\ GetNameCallback
  <2>1. /\ fetch = Asked /\ fetch' = IF profileUrl = NoPicture THEN Idle ELSE profileUrl
        /\ UNCHANGED <<profileUrl, shown, uploads>> /\ Asked # Idle
    BY <1>5 DEF GetNameCallback, Asked, Idle
  <2>2. PictureTyped'  BY <1>0, <1>1, <1>5, <2>1 DEF PictureTyped
  <2>3. ASSUME OneAtATime PROVE OneAtATime'
    <3>1. uploads = {} /\ shown = NoPicture
      BY <2>1, <2>3, PictureAssumption DEF OneAtATime, FetchAlone
    <3>2. \A i \in DOMAIN main : main[i].type \notin Special
      BY <2>1, <2>3 DEF OneAtATime, NameFirst, UploadAlone, PictureSettled, Special
    <3>3. NameFirst' /\ UploadAlone'  BY <1>1, <3>2 DEF NameFirst, UploadAlone, Special
    <3>4. screen \notin {"home", "picker"}
      BY <2>1, <2>3 DEF OneAtATime, ShownStored, PictureSettled
    <3>5. FetchAlone'  BY <1>0, <2>1, <3>1 DEF FetchAlone, PictureTyped
    <3>6. profileUrl # NoPicture => profileUrl # Idle
      BY <1>0, PictureAssumption DEF PictureTyped
    <3>7. ShownStored'
      BY <1>1, <2>1, <3>1, <3>4, <3>6 DEF ShownStored, PictureSettled
    <3> QED  BY <3>3, <3>5, <3>7 DEF OneAtATime
  <2> QED  BY <1>4, <1>5, <2>2, <2>3
<1>6. CASE UNCHANGED spent /\ Downloaded
  <2>1. /\ fetch \in Pictures /\ fetch' = Idle /\ shown' = fetch
        /\ UNCHANGED <<profileUrl, uploads>> /\ fetch # Idle /\ fetch # Asked
    BY <1>6, PictureAssumption DEF Downloaded
  <2>2. PictureTyped'  BY <1>0, <1>1, <1>6, <2>1 DEF PictureTyped
  <2>3. ASSUME OneAtATime PROVE OneAtATime'
    <3>1. uploads = {} /\ fetch = profileUrl
      BY <2>1, <2>3 DEF OneAtATime, FetchAlone
    <3>2. \A i \in DOMAIN main : main[i].type \notin Special
      BY <2>1, <2>3 DEF OneAtATime, NameFirst, UploadAlone, PictureSettled, Special
    <3>3. NameFirst' /\ UploadAlone'  BY <1>1, <3>2 DEF NameFirst, UploadAlone, Special
    <3>4. FetchAlone' /\ ShownStored'
      BY <2>1, <3>1 DEF FetchAlone, ShownStored, PictureSettled
    <3> QED  BY <3>3, <3>4 DEF OneAtATime
  <2> QED  BY <1>4, <1>6, <2>2, <2>3
<1>7. CASE UNCHANGED spent /\ \E p \in Pictures : Uploaded(p)
  <2>1. PICK p \in Pictures : Uploaded(p)  BY <1>7
  <2>2. /\ p \in uploads /\ uploads' = uploads \ {p} /\ profileUrl' = p
        /\ UNCHANGED <<fetch, shown>>
    BY <2>1 DEF Uploaded
  <2>3. PictureTyped'  BY <1>0, <1>1, <1>7, <2>2 DEF PictureTyped
  <2>4. ASSUME OneAtATime PROVE OneAtATime'
    <3>1. shown = p /\ uploads' = {} /\ fetch = Idle
      BY <2>2, <2>4 DEF OneAtATime, ShownStored, FetchAlone
    <3>2. \A i \in DOMAIN main : main[i].type \notin Special
      BY <2>2, <2>4 DEF OneAtATime, NameFirst, UploadAlone, PictureSettled, Special
    <3>3. NameFirst' /\ UploadAlone'  BY <1>1, <3>2 DEF NameFirst, UploadAlone, Special
    <3>4. FetchAlone' /\ ShownStored'
      BY <2>2, <3>1 DEF FetchAlone, ShownStored, PictureSettled
    <3> QED  BY <3>3, <3>4 DEF OneAtATime
  <2> QED  BY <1>4, <1>7, <2>3, <2>4
<1> QED  BY <1>2, <1>3, <1>5, <1>6, <1>7 DEF Pictured

\* A step keeps the picture.
LEMMA NextPictureKept == IInv /\ PictureKept /\ [Next]_vars => PictureKept'
<1> SUFFICES ASSUME IInv, PictureKept, [Next]_vars PROVE PictureKept'  OBVIOUS
<1>0. /\ ClientTyped /\ IsSeq(main) /\ spent \in [Inputs -> Nat]
  BY DEF IInv, RowsKept, PictureKept, PictureTyped
<1>1. CASE User
  BY <1>0, <1>1, UserPicture, ShowPicture, ChoosePicture
<1>2. CASE MainQueue  BY <1>2, QueuePicture
<1>3. CASE Pictured \/ \E p \in Pictures : Uploaded(p) \/ UploadFails(p)
  BY <1>0, <1>3, AnswerPicture
<1>4. CASE Arrive
  <2>1. PICK new : new = Events(View' \ View, observers)  OBVIOUS
  <2>2. IsSeq(new) /\ \A i \in DOMAIN new : new[i].type \notin Special
    <3>1. View' \ View \in SUBSET Entries
      <4>1. ClientTyped'  BY <1>0, <1>4, NextClientTyped
      <4> QED  BY <1>0, <4>1, NewEvents
    <3>2. observers \in Nat  BY <1>0 DEF ClientTyped
    <3> QED  BY <2>1, <3>1, <3>2, EventBlocks DEF Special
  <2>3. main' = main \o new /\ UNCHANGED <<picture, hurried, spent, screen>>
    BY <1>4, <2>1 DEF Arrive, ghosts
  <2>4. IsSeq(main') /\ Carried(0) /\ Kept(0)  BY <1>0, <2>2, <2>3, JoinCarries
  <2> QED  BY <1>0, <2>3, <2>4, CarriedKeeps DEF Patient
<1>5. CASE UNCHANGED <<main, picture, hurried, screen>> /\ spent' \in [Inputs -> Nat]
           /\ spent'["fail"] = spent["fail"]
  <2>1. IsSeq(main') /\ Carried(0) /\ Kept(0)  BY <1>0, <1>5, SameCarries
  <2> QED  BY <1>0, <1>5, <2>1, CarriedKeeps DEF Patient
<1>6. CASE UNCHANGED vars  BY <1>0, <1>5, <1>6 DEF vars, ghosts
<1>7. CASE ServeListen \/ ServeRemoval \/ OtherSaves
  BY <1>0, <1>5, <1>7 DEF ServeListen, ServeRemoval, OtherSaves, ghosts
<1>8. CASE \E e \in Entries : OtherDeletes(e)
  <2>1. PICK e \in Entries : OtherDeletes(e)  BY <1>8
  <2> QED  BY <1>0, <1>5, <2>1, Spending DEF OtherDeletes, ghosts, Inputs
<1> QED  BY <1>1, <1>2, <1>3, <1>4, <1>6, <1>7, <1>8 DEF Next, Database

(***************************************************************************)
(* For any pictures and bounds, the profile picture on screen is the       *)
(* stored one once getName, its download and the uploads are over: for a   *)
(* user who waits for each of them they come one at a time, and the last   *)
(* one shows what is stored.                                               *)
(***************************************************************************)
THEOREM PictureAlwaysStored == Spec => []PictureStored
<1>1. IInv /\ [Next]_vars => IInv'
  BY NextClientTyped, NextRowsKept DEF IInv
<1>2. IInv /\ PictureKept => PictureStored
  BY DEF PictureStored, PictureKept, Patient, OneAtATime, ShownStored, PictureSettled, Queues
<1> QED
  BY <1>1, <1>2, InitIInv, InitPictureKept, NextPictureKept, PTL DEF Spec

-----------------------------------------------------------------------------
(***************************************************************************)
(* The type invariant.                                                     *)
(***************************************************************************)
LEMMA BlockTypes ==
    /\ Block("observe") \in Blocks /\ Block("getName") \in Blocks
    /\ \A e \in Entries : Added(e) \in Blocks
    /\ \A n \in Nat : Cells(n) \in Blocks
    /\ \A p \in Pictures : Upload(p) \in Blocks
BY DEF Block, Added, Cells, Upload, Blocks

\* What a block of a type carries.
LEMMA BlockFields ==
    ASSUME NEW b \in Blocks
    PROVE  /\ b.type = "added" => b.entry \in Entries /\ b = Added(b.entry)
           /\ b.type = "upload" => b.picture \in Pictures
           /\ b.type = "observe" => b = Block("observe")
           /\ b.type = "cells" => b.rows \in Nat
<1>1. CASE b \in [type : {"observe", "getName"}]
  BY <1>1 DEF Block
<1>2. CASE b \in [type : {"added"}, entry : Entries]
  BY <1>2 DEF Added
<1>3. CASE b \in [type : {"cells"}, rows : Nat]
  BY <1>3
<1>4. CASE b \in [type : {"upload"}, picture : Pictures]
  BY <1>4
<1> QED  BY <1>1, <1>2, <1>3, <1>4 DEF Blocks

\* What a message of a type carries.
LEMMA MessageFields ==
    ASSUME NEW m \in Messages
    PROVE  /\ m.type \in {"all", "added", "removed", "ack"}
           /\ m.type = "all" => m.entries \in SUBSET Entries
           /\ m.type # "all" => m.entry \in Entries /\ m = Message(m.type, m.entry)
<1>1. CASE m \in [type : {"all"}, entries : SUBSET Entries]
  BY <1>1
<1>2. CASE m \in [type : {"added", "removed", "ack"}, entry : Entries]
  BY <1>2 DEF Message
<1> QED  BY <1>1, <1>2 DEF Messages

\* What the user does keeps the types.
LEMMA UserTypes ==
    ASSUME TypeOK, User
    PROVE  TypeOK'
<1>1. \A s : s \in Seq(Blocks) => s \o <<Block("observe")>> \in Seq(Blocks)
  <2>1. <<Block("observe")>> \in Seq(Blocks)  BY BlockTypes
  <2> QED  BY <2>1
<1>2. ASSUME NEW bs \in Seq(Blocks), Appear(bs)
      PROVE  /\ main' \in Seq(Blocks) /\ grid' \in Seq(Entries) /\ dirty' \in BOOLEAN
             /\ screen' = "profile" /\ detail' = NoEntry
  <2>1. main \o <<Block("observe")>> \in Seq(Blocks)  BY <1>1 DEF TypeOK
  <2> QED  BY <1>2, <2>1 DEF Appear
<1>3. CASE ShowProfile
  <2>1. main' \in Seq(Blocks)
    <3>1. PICK a \in Blocks, b \in Blocks : a = Block("getName") /\ b = Block("observe")
      BY BlockTypes
    <3> QED  BY <1>3, <3>1 DEF ShowProfile
  <2>2. spent' \in [Inputs -> Nat]
    BY <1>3, Spending DEF ShowProfile, TypeOK, Inputs
  <2> QED
    BY <1>3, <2>1, <2>2 DEF ShowProfile, TypeOK, database, client, ghosts, Screens
<1>4. CASE LeaveProfile
  BY <1>4 DEF LeaveProfile, Hurry, TypeOK, database, client, Screens, Quiet
<1>5. CASE OpenDetail
  <2>1. spent' \in [Inputs -> Nat]
    BY <1>5, Spending DEF OpenDetail, TypeOK, Inputs
  <2>2. detail' \in Entries /\ screen' = "detail"
    BY <1>5 DEF OpenDetail, TypeOK
  <2> QED
    BY <1>5, <2>1, <2>2 DEF OpenDetail, TypeOK, database, client, picture, ghosts, Screens
<1>6. CASE HandleProfileTap
  <2>1. spent' \in [Inputs -> Nat]
    BY <1>6, Spending DEF HandleProfileTap, TypeOK, Inputs
  <2>2. hurried' \in BOOLEAN /\ detail' = NoEntry /\ screen' = "picker"
    BY <1>6 DEF HandleProfileTap, Hurry, TypeOK, gallery
  <2> QED
    BY <1>6, <2>1, <2>2 DEF HandleProfileTap, TypeOK, database, client, gallery, picture, Screens
<1>7. CASE Dismiss
  <2>1. Appear(<<>>) /\ <<>> \in Seq(Blocks)  BY <1>7 DEF Dismiss
  <2> QED
    BY <1>2, <1>7, <2>1 DEF Dismiss, TypeOK, database, client, picture, ghosts, Screens
<1>8. CASE DeleteUserImage
  <2>1. Appear(<<>>) /\ <<>> \in Seq(Blocks)  BY <1>8 DEF DeleteUserImage
  <2>2. detail \in Entries  BY <1>8 DEF DeleteUserImage, TypeOK
  <2>3. /\ up' \in Seq(Entries) /\ removing' \in SUBSET Entries /\ deleted' \in SUBSET Entries
    BY <1>8, <2>2 DEF DeleteUserImage, TypeOK
  <2> QED
    BY <1>2, <1>8, <2>1, <2>3 DEF DeleteUserImage, TypeOK, database, picture, Screens
<1>9. CASE Choose
  <2>1. PICK p \in Pictures : Appear(<<Upload(p)>>)  BY <1>9 DEF Choose
  <2>2. <<Upload(p)>> \in Seq(Blocks)  BY BlockTypes
  <2> QED
    BY <1>2, <1>9, <2>1, <2>2 DEF Choose, TypeOK, database, client, picture, ghosts, Screens
<1> QED  BY <1>3, <1>4, <1>5, <1>6, <1>7, <1>8, <1>9 DEF User

\* The head of a queue that is not empty, and the rest.
LEMMA HeadTypes ==
    ASSUME NEW S, NEW s \in Seq(S), s # <<>>
    PROVE  Head(s) \in S /\ Tail(s) \in Seq(S)
OBVIOUS

\* What the main queue's block does keeps the types.
LEMMA MainQueueTypes ==
    ASSUME TypeOK, MainQueue
    PROVE  TypeOK'
<1>0. main \in Seq(Blocks) /\ View \in SUBSET Entries /\ observers \in Nat
  BY DEF TypeOK, View
<1>1. main # <<>> => Head(main) \in Blocks /\ Tail(main) \in Seq(Blocks)
  BY <1>0, HeadTypes
<1>2. CASE RunObserve
  <2>1. PICK new : new = Events(View, 1)  OBVIOUS
  <2>2. new \in Seq(Blocks)  BY <1>0, <2>1, EventsOf
  <2>3. main' = Tail(main) \o new /\ main # <<>>  BY <1>2, <2>1 DEF RunObserve, Next1
  <2>4. main' \in Seq(Blocks)  BY <1>1, <2>2, <2>3
  <2> QED  BY <1>0, <1>2, <2>4 DEF RunObserve, TypeOK, database, picture, ghosts
<1>3. CASE RunAdded
  <2>1. main # <<>> /\ Head(main).type = "added"  BY <1>3 DEF RunAdded, Next1
  <2>2. Head(main).entry \in Entries  BY <1>1, <2>1, BlockFields
  <2> QED
    BY <1>1, <1>3, <2>1, <2>2 DEF RunAdded, TypeOK, database, client, picture, ghosts
<1>4. CASE Layout
  <2>1. main' \in Seq(Blocks)
    <3>1. Len(grid) \in Nat  BY DEF TypeOK
    <3>2. Cells(Len(grid)) \in Blocks  BY <3>1, BlockTypes
    <3> QED  BY <1>0, <1>4, <3>2 DEF Layout
  <2> QED  BY <1>4, <2>1 DEF Layout, TypeOK, database, client, picture, ghosts
<1>5. CASE RunCells
  <2>1. main # <<>> /\ Head(main).type = "cells"  BY <1>5 DEF RunCells, Next1
  <2>2. trapped' \in BOOLEAN  BY <1>5 DEF RunCells
  <2> QED
    BY <1>1, <1>5, <2>1, <2>2 DEF RunCells, TypeOK, database, client, gallery, picture, ghosts
<1>6. CASE RunGetName
  <2>1. main # <<>>  BY <1>6 DEF RunGetName, Next1
  <2> QED  BY <1>1, <1>6, <2>1 DEF RunGetName, TypeOK, database, client, gallery, ghosts
<1>7. CASE RunUpload
  <2>1. main # <<>> /\ Head(main).type = "upload"  BY <1>7 DEF RunUpload, Next1
  <2>2. Head(main).picture \in Pictures  BY <1>1, <2>1, BlockFields
  <2> QED
    BY <1>1, <1>7, <2>1, <2>2 DEF RunUpload, TypeOK, database, client, gallery, ghosts
<1> QED  BY <1>2, <1>3, <1>4, <1>5, <1>6, <1>7 DEF MainQueue

\* A message, or none, more.
LEMMA ToldTypes ==
    ASSUME TypeOK, NEW ms \in Seq(Messages), Told(ms)
    PROVE  down' \in Seq(Messages)
BY DEF TypeOK, Told

\* The messages the server makes are messages.
LEMMA MessageTypes ==
    /\ \A s \in SUBSET Entries : [type |-> "all", entries |-> s] \in Messages
    /\ \A t \in {"added", "removed", "ack"}, e \in Entries : Message(t, e) \in Messages
BY DEF Message, Messages

\* What the server and its messages do keeps the types.
LEMMA DatabaseTypes ==
    ASSUME TypeOK, Database
    PROVE  TypeOK'
<1>1. CASE ServeListen
  <2>1. [type |-> "all", entries |-> images] \in Messages  BY MessageTypes DEF TypeOK
  <2>2. down' \in Seq(Messages)  BY <1>1, <2>1 DEF ServeListen, TypeOK
  <2> QED
    BY <1>1, <2>2 DEF ServeListen, TypeOK, database, gallery, picture, ghosts
<1>2. CASE ServeRemoval
  <2>1. Head(up) \in Entries /\ Tail(up) \in Seq(Entries)
    BY <1>2, HeadTypes DEF ServeRemoval, TypeOK
  <2> PICK e \in Entries : e = Head(up)  BY <2>1
  <2>2. PICK r, a \in Messages : r = Message("removed", e) /\ a = Message("ack", e)
    BY MessageTypes
  <2>3. <<r>> \in Seq(Messages) /\ <<>> \in Seq(Messages) /\ <<a>> \in Seq(Messages)
    OBVIOUS
  <2>4. PICK ps \in Seq(Messages) : ps = IF e \in images THEN <<r>> ELSE <<>>
    BY <2>3
  <2>5. Told(ps \o <<a>>)  BY <1>2, <2>2, <2>4 DEF ServeRemoval
  <2>6. down' \in Seq(Messages)
    <3>1. ps \o <<a>> \in Seq(Messages)  BY <2>3
    <3> QED  BY <2>5, <3>1, ToldTypes
  <2>7. images' \in SUBSET Entries  BY <1>2 DEF ServeRemoval, TypeOK
  <2> QED
    BY <1>2, <2>1, <2>6, <2>7 DEF ServeRemoval, TypeOK, gallery, picture, ghosts
<1>3. CASE Arrive
  <2>1. Head(down) \in Messages /\ Tail(down) \in Seq(Messages)
    BY <1>3, HeadTypes DEF Arrive, TypeOK
  <2>2. known' \in SUBSET Entries
    <3>1. known' = Received(Head(down))  BY <1>3 DEF Arrive
    <3> QED  BY <2>1, <3>1, MessageFields DEF Received, TypeOK
  <2>3. removing' \in SUBSET Entries  BY <1>3 DEF Arrive, TypeOK
  <2>4. main' \in Seq(Blocks)
    <3>1. View' \ View \in SUBSET Entries /\ observers \in Nat  BY <2>2 DEF View, TypeOK
    <3>2. PICK new : new = Events(View' \ View, observers)  OBVIOUS
    <3>3. new \in Seq(Blocks)  BY <3>1, <3>2, EventsOf
    <3>4. main' = main \o new  BY <1>3, <3>2 DEF Arrive
    <3> QED  BY <3>3, <3>4 DEF TypeOK
  <2> QED
    BY <1>3, <2>1, <2>2, <2>3, <2>4 DEF Arrive, TypeOK, database, gallery, picture, ghosts
<1> QED  BY <1>1, <1>2, <1>3 DEF Database

\* Everything else keeps the types.
LEMMA OtherTypes ==
    ASSUME TypeOK
    PROVE  /\ Pictured => TypeOK'
           /\ OtherSaves => TypeOK'
           /\ \A p \in Pictures : Uploaded(p) \/ UploadFails(p) => TypeOK'
           /\ \A e \in Entries : OtherDeletes(e) => TypeOK'
           /\ UNCHANGED vars => TypeOK'
<1>1. ASSUME Pictured PROVE TypeOK'
  <2>1. fetch' \in Pictures \cup {NoPicture, Asked, Idle}
    BY <1>1 DEF Pictured, GetNameCallback, Downloaded, TypeOK
  <2>2. shown' \in Pictures \cup {NoPicture} /\ UNCHANGED <<profileUrl, uploads>>
    BY <1>1 DEF Pictured, GetNameCallback, Downloaded, TypeOK
  <2>3. UNCHANGED <<database, client, main, screen, gallery, trapped, ghosts, spent>>
    BY <1>1 DEF Pictured, GetNameCallback, Downloaded
  <2> QED  BY <2>1, <2>2, <2>3 DEF TypeOK, database, client, gallery, ghosts
<1>2. ASSUME OtherSaves PROVE TypeOK'
  <2>1. last' \in 0 .. MaxEntry /\ last + 1 \in Entries /\ images' \in SUBSET Entries
    BY <1>2, SizesAssumption DEF OtherSaves, TypeOK, Entries
  <2>2. PICK m \in Messages : m = Message("added", last + 1)  BY <2>1, MessageTypes
  <2>3. down' \in Seq(Messages)
    <3>1. <<m>> \in Seq(Messages) /\ Told(<<m>>)  BY <1>2, <2>2 DEF OtherSaves
    <3> QED  BY <3>1, ToldTypes
  <2> QED
    BY <1>2, <2>1, <2>3 DEF OtherSaves, TypeOK, gallery, picture, ghosts
<1>3. ASSUME NEW p \in Pictures, Uploaded(p) \/ UploadFails(p) PROVE TypeOK'
  <2>1. spent' \in [Inputs -> Nat]
    BY <1>3, Spending DEF Uploaded, UploadFails, TypeOK, Inputs
  <2>2. uploads' \in SUBSET Pictures /\ profileUrl' \in Pictures \cup {NoPicture}
    BY <1>3 DEF Uploaded, UploadFails, TypeOK
  <2>3. UNCHANGED <<database, client, main, screen, gallery, fetch, shown, trapped, ghosts>>
    BY <1>3 DEF Uploaded, UploadFails
  <2> QED  BY <2>1, <2>2, <2>3 DEF TypeOK, database, client, gallery, ghosts
<1>4. ASSUME NEW e \in Entries, OtherDeletes(e) PROVE TypeOK'
  <2>1. spent' \in [Inputs -> Nat]
    BY <1>4, Spending DEF OtherDeletes, TypeOK, Inputs
  <2>2. PICK m \in Messages : m = Message("removed", e)  BY MessageTypes
  <2>3. down' \in Seq(Messages)
    <3>1. <<m>> \in Seq(Messages) /\ Told(<<m>>)  BY <1>4, <2>2 DEF OtherDeletes
    <3> QED  BY <3>1, ToldTypes
  <2>4. images' \in SUBSET Entries  BY <1>4 DEF OtherDeletes, TypeOK
  <2> QED
    BY <1>4, <2>1, <2>3, <2>4 DEF OtherDeletes, TypeOK, gallery, picture, ghosts
<1>5. ASSUME UNCHANGED vars PROVE TypeOK'
  BY <1>5 DEF TypeOK, vars, database, client, gallery, picture, ghosts
<1> QED  BY <1>1, <1>2, <1>3, <1>4, <1>5

\* The program starts with its types.
LEMMA InitTypes == Init => TypeOK
<1> SUFFICES ASSUME Init PROVE TypeOK  OBVIOUS
<1>1. images \in SUBSET Entries /\ last \in 0 .. MaxEntry
  BY SizesAssumption DEF Init, Entries
<1>2. spent \in [Inputs -> Nat]  BY DEF Init
<1>3. /\ up \in Seq(Entries) /\ down \in Seq(Messages)
      /\ main \in Seq(Blocks) /\ grid \in Seq(Entries)
  BY DEF Init
<1>4. screen \in Screens /\ detail \in IF screen = "detail" THEN Entries ELSE {NoEntry}
  BY DEF Init, Screens
<1>5. /\ {profileUrl, shown} \subseteq Pictures \cup {NoPicture}
      /\ fetch \in Pictures \cup {NoPicture, Asked, Idle} /\ uploads \in SUBSET Pictures
  BY DEF Init
<1>6. /\ listen \in {"none", "asked", "on"}
      /\ known \in SUBSET Entries /\ removing \in SUBSET Entries
      /\ observers \in Nat /\ dirty \in BOOLEAN /\ trapped \in BOOLEAN
      /\ deleted \in SUBSET Entries /\ hurried \in BOOLEAN
  BY DEF Init
<1> QED  BY <1>1, <1>2, <1>3, <1>4, <1>5, <1>6 DEF TypeOK

\* A step keeps the types.
LEMMA NextTypes == TypeOK /\ [Next]_vars => TypeOK'
BY UserTypes, MainQueueTypes, DatabaseTypes, OtherTypes DEF Next

(***************************************************************************)
(* The variables keep their types: in particular every block for an entry  *)
(* is for one the database has had, and a detail is open exactly while it  *)
(* shows an entry.                                                         *)
(***************************************************************************)
THEOREM GalleryTypes == Spec => []TypeOK
<1> QED  BY InitTypes, NextTypes, PTL DEF Spec

-----------------------------------------------------------------------------
(***************************************************************************)
(* Which entry is where: an entry comes to the client once, and what has   *)
(* come and left the server is announced as gone.                          *)
(***************************************************************************)
\* The entries that wait on a queue, and whether an observer does.
Waits(q) == {e \in Entries : Added(e) \in ToSet(q)}
Asks(q)  == Block("observe") \in ToSet(q)

\* The entries this device has seen, and those a message brings to it.
Seen == known \cup deleted \cup ToSet(grid) \cup Waits(main)
Brought(m) ==
    CASE m.type = "all" -> m.entries [] m.type = "added" -> {m.entry} [] OTHER -> {}

\* The message that e is gone is between the i-th and the j-th.
Lost(q, e, i, j) == \E k \in DOMAIN q : i < k /\ k < j /\ q[k] = Message("removed", e)

\* What is on its way to the client is new to it, and comes once.
Fresh ==
    /\ images \subseteq 1 .. last /\ Seen \subseteq 1 .. last
    /\ \A i \in DOMAIN down : Brought(down[i]) \subseteq (1 .. last) \ Seen
    /\ \A i, j \in DOMAIN down : i < j => Brought(down[i]) \cap Brought(down[j]) = {}
    /\ listen # "on" => down = <<>> /\ Seen = {}

\* What the client has, or will, of entries that are gone, it is told of.
Losses ==
    /\ \A e \in known \ images : Lost(down, e, 0, Len(down) + 1)
    /\ \A i \in DOMAIN down : \A e \in Brought(down[i]) \ images :
           Lost(down, e, i, Len(down) + 1)

\* A removal is laid over the copy until the copy has lost the entry.
Acked ==
    /\ ToSet(up) \subseteq deleted /\ removing \subseteq deleted
    /\ deleted \cap View = {}
    /\ \A i \in DOMAIN down : down[i].type = "ack" =>
        /\ down[i].entry \in deleted
        /\ down[i].entry \in known => Lost(down, down[i].entry, 0, i)

\* No block brings back what was deleted, or is open to be.
Hidden ==
    /\ deleted \cap (ToSet(grid) \cup Waits(main)) = {}
    /\ screen = "detail" => detail \in ToSet(grid) \ Waits(main) /\ ~Asks(main)

\* What the client has is in the grid, waits for it, or an observer does.
Covered ==
    screen = "profile" =>
        \/ Asks(main)
        \/ observers # 0 /\ View \subseteq ToSet(grid) \cup Waits(main)

Traced == Fresh /\ Losses /\ Acked /\ Hidden /\ Covered

-----------------------------------------------------------------------------
\* The elements of a sequence.
LEMMA JoinSet ==
    ASSUME NEW S, NEW s \in Seq(S), NEW t \in Seq(S)
    PROVE  ToSet(s \o t) = ToSet(s) \cup ToSet(t)
<1>1. ASSUME NEW x \in ToSet(s \o t) PROVE x \in ToSet(s) \cup ToSet(t)
  <2>1. PICK i \in DOMAIN (s \o t) : x = (s \o t)[i]  BY DEF ToSet
  <2>2. \/ i \in DOMAIN s /\ x = s[i]
        \/ i - Len(s) \in DOMAIN t /\ x = t[i - Len(s)]
    BY <2>1
  <2> QED  BY <2>2 DEF ToSet
<1>2. ASSUME NEW i \in DOMAIN s PROVE i \in DOMAIN (s \o t) /\ (s \o t)[i] = s[i]
  OBVIOUS
<1>3. ASSUME NEW i \in DOMAIN t
      PROVE  Len(s) + i \in DOMAIN (s \o t) /\ (s \o t)[Len(s) + i] = t[i]
  OBVIOUS
<1>4. ToSet(s) \subseteq ToSet(s \o t)
  <2> PICK st : st = s \o t  OBVIOUS
  <2> QED  BY <1>2 DEF ToSet
<1>5. ToSet(t) \subseteq ToSet(s \o t)
  <2> PICK st : st = s \o t  OBVIOUS
  <2> QED  BY <1>3 DEF ToSet
<1> QED  BY <1>1, <1>4, <1>5

\* The head is all the tail has not.
LEMMA TailSet ==
    ASSUME NEW S, NEW s \in Seq(S), s # <<>>
    PROVE  ToSet(s) = {Head(s)} \cup ToSet(Tail(s))
<1>0. Tail(s) \in Seq(S)  OBVIOUS
<1> PICK t \in Seq(S) : t = Tail(s)  BY <1>0
<1>1. 1 \in DOMAIN s /\ Head(s) = s[1]  OBVIOUS
<1>2. DOMAIN s = 1 .. Len(s) /\ Len(s) \in Nat \ {0}  OBVIOUS
<1>3. DOMAIN t = 1 .. Len(s) - 1 /\ \A i \in 1 .. Len(s) - 1 : t[i] = s[i + 1]
  BY <1>2
<1>4. ASSUME NEW x \in ToSet(s), x # Head(s) PROVE x \in ToSet(t)
  <2>1. PICK i \in DOMAIN s : x = s[i]  BY DEF ToSet
  <2>2. i # 1  BY <1>1, <1>4, <2>1
  <2>3. i - 1 \in DOMAIN t /\ t[i - 1] = s[i]  BY <1>2, <1>3, <2>2
  <2> QED  BY <2>1, <2>3 DEF ToSet
<1>5. ASSUME NEW x \in ToSet(t) PROVE x \in ToSet(s)
  <2>1. PICK i \in DOMAIN t : x = t[i]  BY DEF ToSet
  <2>2. i + 1 \in DOMAIN s /\ t[i] = s[i + 1]  BY <1>2, <1>3
  <2> QED  BY <2>1, <2>2 DEF ToSet
<1>6. Head(s) \in ToSet(s)  BY <1>1 DEF ToSet
<1> QED  BY <1>4, <1>5, <1>6

\* The elements of no element and of one.
LEMMA ShortSet == ToSet(<<>>) = {} /\ \A x : ToSet(<<x>>) = {x}
<1>1. ToSet(<<>>) = {}  BY DEF ToSet
<1>2. ASSUME NEW x PROVE ToSet(<<x>>) = {x}
  <2>1. DOMAIN <<x>> = {1} /\ <<x>>[1] = x  BY ShortSeq
  <2> QED  BY <2>1 DEF ToSet
<1> QED  BY <1>1, <1>2

\* One element more.
LEMMA AppendSet ==
    ASSUME NEW S, NEW s \in Seq(S), NEW x \in S
    PROVE  ToSet(Append(s, x)) = ToSet(s) \cup {x}
<1>0. <<x>> \in Seq(S)  OBVIOUS
<1>1. PICK t \in Seq(S) : t = <<x>>  BY <1>0
<1>2. Append(s, x) = s \o t  BY <1>1
<1>3. ToSet(t) = {x}  BY <1>1, ShortSet
<1> QED  BY <1>2, <1>3, JoinSet

\* A block of an entry is of that entry only, and asks for nothing.
LEMMA AddedIs ==
    /\ \A d, e : Added(d) = Added(e) <=> d = e
    /\ \A e : Added(e).type = "added" /\ Added(e).entry = e
    /\ Block("observe").type = "observe"
    /\ \A e : Added(e) # Block("observe")
<1>1. \A e : Added(e).type = "added" /\ Added(e).entry = e  BY DEF Added
<1>2. Block("observe").type = "observe"  BY DEF Block
<1>3. ASSUME NEW d, NEW e, Added(d) = Added(e) PROVE d = e
  BY <1>1, <1>3
<1> QED  BY <1>1, <1>2, <1>3

\* What waits on a queue made of others.
LEMMA WaitsJoin ==
    ASSUME NEW q \in Seq(Blocks), NEW r \in Seq(Blocks)
    PROVE  /\ Waits(q \o r) = Waits(q) \cup Waits(r)
           /\ Asks(q \o r) <=> Asks(q) \/ Asks(r)
BY JoinSet DEF Waits, Asks

\* Nothing waits on what is added.
LEMMA WaitsMore ==
    ASSUME NEW q \in Seq(Blocks), NEW r \in Seq(Blocks), Waits(r) = {}
    PROVE  /\ q \o r \in Seq(Blocks)
           /\ Waits(q \o r) = Waits(q)
           /\ Asks(q \o r) <=> Asks(q) \/ Asks(r)
<1>1. q \o r \in Seq(Blocks)  OBVIOUS
<1>2. Waits(q \o r) = Waits(q) \cup Waits(r)  BY WaitsJoin
<1>3. Asks(q \o r) <=> Asks(q) \/ Asks(r)  BY WaitsJoin
<1> QED  BY <1>1, <1>2, <1>3

\* What the head takes with it.
LEMMA WaitsTail ==
    ASSUME NEW q \in Seq(Blocks), q # <<>>
    PROVE  /\ Head(q).type = "added" =>
                  /\ Head(q).entry \in Entries
                  /\ Waits(q) = {Head(q).entry} \cup Waits(Tail(q))
                  /\ Asks(Tail(q)) <=> Asks(q)
           /\ Head(q).type = "observe" => Asks(q) /\ (Asks(Tail(q)) => Asks(q))
           /\ Head(q).type # "added" => Waits(q) = Waits(Tail(q))
           /\ Head(q).type # "observe" => (Asks(Tail(q)) <=> Asks(q))
<1>1. PICK b \in Blocks : b = Head(q)  OBVIOUS
<1>2. ToSet(q) = {b} \cup ToSet(Tail(q))  BY <1>1, TailSet
<1>3. b.type = "added" => b.entry \in Entries /\ b = Added(b.entry)  BY BlockFields
<1>4. b.type = "observe" <=> b = Block("observe")  BY BlockFields, AddedIs
<1>5. CASE b.type = "added"
  BY <1>1, <1>2, <1>3, <1>4, <1>5, AddedIs DEF Waits, Asks
<1>6. CASE b.type # "added"
  <2>1. \A e : b # Added(e)  BY <1>6, AddedIs
  <2> QED  BY <1>1, <1>2, <1>4, <1>6, <2>1 DEF Waits, Asks
<1> QED  BY <1>5, <1>6

\* What waits on a queue of one block.
LEMMA WaitsShort ==
    /\ Waits(<<>>) = {} /\ ~Asks(<<>>)
    /\ Waits(<<Block("observe")>>) = {} /\ Asks(<<Block("observe")>>)
    /\ \A b : b.type # "added" => Waits(<<b>>) = {}
    /\ \A b : b.type # "observe" => ~Asks(<<b>>)
<1>1. ASSUME NEW b, b.type # "added" PROVE Waits(<<b>>) = {}
  <2>1. ToSet(<<b>>) = {b}  BY ShortSet
  <2> QED  BY <1>1, <2>1, AddedIs DEF Waits
<1>2. ASSUME NEW b, b.type # "observe" PROVE ~Asks(<<b>>)
  <2>1. ToSet(<<b>>) = {b}  BY ShortSet
  <2> QED  BY <1>2, <2>1, AddedIs DEF Asks
<1>3. Waits(<<>>) = {} /\ ~Asks(<<>>)  BY ShortSet DEF Waits, Asks
<1>4. PICK b : b = Block("observe")  OBVIOUS
<1>5. b.type # "added"  BY <1>4, AddedIs
<1>6. ToSet(<<b>>) = {b}  BY ShortSet
<1> QED  BY <1>1, <1>2, <1>3, <1>4, <1>5, <1>6 DEF Asks

\* The new entries wait, if there is an observer to tell.
LEMMA WaitsEvents ==
    ASSUME NEW new \in SUBSET Entries, NEW n \in Nat
    PROVE  /\ Waits(Events(new, n)) = IF n = 0 THEN {} ELSE new
           /\ ~Asks(Events(new, n))
<1> PICK E : E = Events(new, n)  OBVIOUS
<1>1. \A i \in DOMAIN E : \E e \in new : E[i] = Added(e)  BY EventsOf
<1>2. n # 0 => \A e \in new : \E i \in DOMAIN E : E[i] = Added(e)  BY EventsOf
<1>3. ~Asks(E)  BY <1>1, AddedIs DEF Asks, ToSet
<1>4. Waits(E) \subseteq new  BY <1>1, AddedIs DEF Waits, ToSet
<1>5. n # 0 => new \subseteq Waits(E)  BY <1>2 DEF Waits, ToSet
<1>6. n = 0 => Waits(E) = {}
  <2>1. SUFFICES ASSUME n = 0 PROVE DOMAIN E = {}  BY DEF Waits, ToSet
  <2>2. Cardinality(new) \in Nat  BY EntriesFinite
  <2>3. Cardinality(new) * n = 0  BY <2>1, <2>2
  <2> QED  BY <2>3 DEF Events
<1> QED  BY <1>3, <1>4, <1>5, <1>6

-----------------------------------------------------------------------------
\* What the user does to the queue and the grid.
LEMMA AppearSets ==
    ASSUME TypeOK, NEW bs \in Seq(Blocks), Waits(bs) = {}, Appear(bs)
    PROVE  /\ screen' = "profile" /\ detail' = NoEntry /\ ToSet(grid') = {}
           /\ Waits(main') = Waits(main) /\ Asks(main')
<1>1. main \in Seq(Blocks)  BY DEF TypeOK
<1>2. PICK o \in Blocks : o = Block("observe")  BY BlockTypes
<1>3. <<o>> \in Seq(Blocks)  OBVIOUS
<1>4. PICK ob \in Seq(Blocks) : ob = <<o>>  BY <1>3
<1>5. Waits(ob) = {} /\ Asks(ob)  BY <1>2, <1>4, WaitsShort
<1>6. PICK q : q = main \o ob  OBVIOUS
<1>7. q \in Seq(Blocks) /\ Waits(q) = Waits(main) /\ Asks(q)
  BY <1>1, <1>5, <1>6, WaitsMore
<1>8. Waits(q \o bs) = Waits(main) /\ Asks(q \o bs)  BY <1>7, WaitsMore
<1>9. main' = q \o bs  BY <1>2, <1>4, <1>6 DEF Appear
<1> QED  BY <1>8, <1>9, ShortSet DEF Appear

LEMMA UserSets ==
    ASSUME TypeOK, User
    PROVE  /\ ToSet(grid') \subseteq ToSet(grid)
           /\ Waits(main') = Waits(main)
           /\ screen' = "profile" => Asks(main')
           /\ screen' = "detail" =>
                  detail' \in ToSet(grid') /\ Waits(main') = {} /\ ~Asks(main')
           /\ UNCHANGED <<images, last, listen, down, known>>
           /\ \/ UNCHANGED <<up, removing, deleted>>
              \/ /\ screen = "detail" /\ removing' = removing \cup {detail}
                 /\ deleted' = deleted \cup {detail} /\ up' = Append(up, detail)
                 /\ ToSet(grid') = {} /\ screen' = "profile"
<1>1. ASSUME NEW bs \in Seq(Blocks), Waits(bs) = {}, Appear(bs)
      PROVE  /\ ToSet(grid') = {} /\ Waits(main') = Waits(main)
             /\ screen' = "profile" /\ Asks(main')
  BY <1>1, AppearSets
<1>2. <<>> \in Seq(Blocks) /\ Waits(<<>>) = {} /\ ~Asks(<<>>) /\ ToSet(<<>>) = {}
  BY WaitsShort, ShortSet
<1>3. CASE ShowProfile
  <2>1. PICK a \in Blocks, o \in Blocks : a = Block("getName") /\ o = Block("observe")
    BY BlockTypes
  <2>2. <<a>> \in Seq(Blocks) /\ <<o>> \in Seq(Blocks)  OBVIOUS
  <2>3. PICK p \in Seq(Blocks), r \in Seq(Blocks) : p = <<a>> /\ r = <<o>>  BY <2>2
  <2>4. a.type # "added"  BY <2>1 DEF Block
  <2>5. Waits(p) = {} /\ Waits(r) = {} /\ Asks(r)  BY <2>1, <2>3, <2>4, WaitsShort
  <2>6. main' = p \o r  BY <1>3, <2>1, <2>3 DEF ShowProfile
  <2>7. Waits(main') = {} /\ Asks(main')  BY <2>5, <2>6, WaitsJoin
  <2>8. main = <<>> /\ grid' = <<>>  BY <1>3 DEF ShowProfile, Quiet
  <2> QED  BY <1>2, <1>3, <2>7, <2>8 DEF ShowProfile, database, client, ghosts
<1>4. CASE LeaveProfile
  BY <1>2, <1>4 DEF LeaveProfile, database, client
<1>5. CASE OpenDetail
  <2>1. main' = <<>> /\ main = <<>> /\ grid' = grid  BY <1>5 DEF OpenDetail, Quiet
  <2>2. detail' \in ToSet(grid')  BY <1>5, <2>1 DEF OpenDetail, ToSet
  <2> QED  BY <1>2, <1>5, <2>1, <2>2 DEF OpenDetail, database, client, ghosts
<1>6. CASE HandleProfileTap
  BY <1>6 DEF HandleProfileTap, database, client, gallery
<1>7. CASE Dismiss
  BY <1>1, <1>2, <1>7 DEF Dismiss, database, client, ghosts
<1>8. CASE DeleteUserImage
  BY <1>1, <1>2, <1>8 DEF DeleteUserImage, database
<1>9. CASE Choose
  <2>1. PICK p \in Pictures : Appear(<<Upload(p)>>)  BY <1>9 DEF Choose
  <2>2. PICK u \in Blocks : u = Upload(p)  BY BlockTypes
  <2>3. <<u>> \in Seq(Blocks) /\ u.type # "added"  BY <2>2 DEF Upload
  <2>4. Waits(<<u>>) = {}  BY <2>3, WaitsShort
  <2> QED  BY <1>1, <1>9, <2>1, <2>2, <2>3, <2>4 DEF Choose, database, client, ghosts
<1> QED  BY <1>3, <1>4, <1>5, <1>6, <1>7, <1>8, <1>9 DEF User

\* What the main queue's block does to the queue and the grid.
LEMMA MainQueueSets ==
    ASSUME TypeOK, MainQueue
    PROVE  /\ UNCHANGED <<images, last, up, down, known, removing, deleted, screen, detail>>
           /\ listen' # "on" => listen # "on"
           /\ \/ /\ UNCHANGED grid /\ observers' # 0 /\ Asks(main)
                 /\ Waits(main') = Waits(main) \cup View
                 /\ Asks(main') => Asks(main)
              \/ /\ \E e \in Entries :
                        /\ ToSet(grid') = ToSet(grid) \cup {e}
                        /\ Waits(main) = {e} \cup Waits(main')
                 /\ Asks(main') <=> Asks(main)
                 /\ UNCHANGED observers
              \/ /\ UNCHANGED <<grid, observers>> /\ Waits(main') = Waits(main)
                 /\ Asks(main') <=> Asks(main)
<1>1. main \in Seq(Blocks) /\ grid \in Seq(Entries) /\ View \in SUBSET Entries
  BY DEF TypeOK, View
<1>2. ASSUME main # <<>> PROVE Tail(main) \in Seq(Blocks)  BY <1>1, <1>2
<1>3. CASE RunObserve
  <2>1. main # <<>> /\ Head(main).type = "observe"  BY <1>3 DEF RunObserve, Next1
  <2>2. PICK q \in Seq(Blocks) : q = Tail(main)  BY <1>2, <2>1
  <2>3. PICK E \in Seq(Blocks) : E = Events(View, 1)  BY <1>1, EventsOf
  <2>4. Waits(E) = View /\ ~Asks(E)
    <3>1. PICK v \in SUBSET Entries : v = View  BY <1>1
    <3>2. Waits(Events(v, 1)) = (IF 1 = 0 THEN {} ELSE v) /\ ~Asks(Events(v, 1))
      BY WaitsEvents
    <3> QED  BY <2>3, <3>1, <3>2
  <2>5. main' = q \o E  BY <1>3, <2>2, <2>3 DEF RunObserve
  <2>6. Waits(main) = Waits(q) /\ Asks(main)  BY <1>1, <2>1, <2>2, WaitsTail
  <2>7. observers' # 0  BY <1>3 DEF RunObserve, TypeOK
  <2>8. Waits(main') = Waits(main) \cup View  BY <2>4, <2>5, <2>6, WaitsJoin
  <2> QED
    BY <1>3, <2>6, <2>7, <2>8 DEF RunObserve, database, ghosts
<1>4. CASE RunAdded
  <2>1. main # <<>> /\ Head(main).type = "added"  BY <1>4 DEF RunAdded, Next1
  <2>2. PICK e \in Entries : e = Head(main).entry  BY <1>1, <2>1, WaitsTail
  <2>3. ToSet(grid') = ToSet(grid) \cup {e}  BY <1>1, <1>4, <2>2, AppendSet DEF RunAdded
  <2>4. Waits(main) = {e} \cup Waits(main') /\ (Asks(main') <=> Asks(main))
    BY <1>1, <1>4, <2>1, <2>2, WaitsTail DEF RunAdded
  <2> QED  BY <1>4, <2>3, <2>4 DEF RunAdded, database, client, ghosts
<1>5. CASE Layout
  <2>1. PICK c \in Blocks : c = Cells(Len(grid))
    <3>1. Len(grid) \in Nat  BY <1>1
    <3> QED  BY <3>1, BlockTypes
  <2>2. <<c>> \in Seq(Blocks) /\ c.type = "cells"  BY <2>1 DEF Cells
  <2>3. PICK r \in Seq(Blocks) : r = <<c>>  BY <2>2
  <2>4. Waits(r) = {} /\ ~Asks(r)  BY <2>2, <2>3, WaitsShort
  <2>5. main' = main \/ main' = main \o r
    BY <1>1, <1>5, <2>1, <2>3 DEF Layout
  <2>6. Waits(main') = Waits(main) /\ (Asks(main') <=> Asks(main))
    <3>1. CASE main' = main  BY <3>1
    <3>2. CASE main' = main \o r
      <4>1. Waits(main \o r) = Waits(main) /\ (Asks(main \o r) <=> Asks(main))
        BY <1>1, <2>4, WaitsMore
      <4> QED  BY <3>2, <4>1
    <3> QED  BY <2>5, <3>1, <3>2
  <2> QED  BY <1>5, <2>6 DEF Layout, database, client, ghosts
<1>6. CASE RunCells
  <2>1. main # <<>> /\ Head(main).type = "cells"  BY <1>6 DEF RunCells, Next1
  <2>2. Waits(main') = Waits(main) /\ (Asks(main') <=> Asks(main))
    BY <1>1, <1>6, <2>1, WaitsTail DEF RunCells
  <2> QED  BY <1>6, <2>2 DEF RunCells, database, client, gallery, ghosts
<1>7. CASE RunGetName
  <2>1. main # <<>> /\ Head(main).type = "getName"  BY <1>7 DEF RunGetName, Next1
  <2>2. Waits(main') = Waits(main) /\ (Asks(main') <=> Asks(main))
    BY <1>1, <1>7, <2>1, WaitsTail DEF RunGetName
  <2> QED  BY <1>7, <2>2 DEF RunGetName, database, client, gallery, ghosts
<1>8. CASE RunUpload
  <2>1. main # <<>> /\ Head(main).type = "upload"  BY <1>8 DEF RunUpload, Next1
  <2>2. Waits(main') = Waits(main) /\ (Asks(main') <=> Asks(main))
    BY <1>1, <1>8, <2>1, WaitsTail DEF RunUpload
  <2> QED  BY <1>8, <2>2 DEF RunUpload, database, client, gallery, ghosts
<1> QED  BY <1>3, <1>4, <1>5, <1>6, <1>7, <1>8 DEF MainQueue

\* What else leaves the screen alone, and what a message brings to it.
LEMMA OtherSets ==
    ASSUME \/ Pictured \/ ServeListen \/ ServeRemoval \/ OtherSaves \/ UNCHANGED vars
           \/ \E p \in Pictures : Uploaded(p) \/ UploadFails(p)
           \/ \E e \in Entries : OtherDeletes(e)
    PROVE  UNCHANGED <<main, screen, observers, grid, detail, known, removing, deleted>>
BY DEF Pictured, GetNameCallback, Downloaded, ServeListen, ServeRemoval, OtherSaves, Uploaded,
       UploadFails, OtherDeletes, vars, client, gallery, ghosts

\* What a message brings to the queue.
LEMMA ArriveSets ==
    ASSUME TypeOK, TypeOK', Arrive
    PROVE  /\ UNCHANGED <<images, last, listen, up, deleted, screen, observers, grid, detail>>
           /\ Waits(main') = Waits(main) \cup IF observers = 0 THEN {} ELSE View' \ View
           /\ Asks(main') <=> Asks(main)
<1>1. main \in Seq(Blocks) /\ View' \ View \in SUBSET Entries /\ observers \in Nat
  BY DEF TypeOK, View
<1>2. PICK E \in Seq(Blocks) : E = Events(View' \ View, observers)  BY <1>1, EventsOf
<1>3. Waits(E) = (IF observers = 0 THEN {} ELSE View' \ View) /\ ~Asks(E)
  BY <1>1, <1>2, WaitsEvents
<1>4. main' = main \o E  BY <1>2 DEF Arrive
<1>5. Waits(main') = Waits(main) \cup Waits(E) /\ (Asks(main') <=> Asks(main))
  BY <1>1, <1>3, <1>4, WaitsJoin
<1> QED  BY <1>3, <1>5 DEF Arrive, database, gallery, ghosts

-----------------------------------------------------------------------------
\* A message that was announced stays announced, until it is received.
LEMMA LostLonger ==
    ASSUME NEW q \in Seq(Messages), NEW ms \in Seq(Messages), NEW e, NEW i, NEW j \in Int,
           Lost(q, e, i, j)
    PROVE  /\ Lost(q \o ms, e, i, j)
           /\ Lost(q \o ms, e, i, Len(q \o ms) + 1)
<1>1. PICK k \in DOMAIN q : i < k /\ k < j /\ q[k] = Message("removed", e)  BY DEF Lost
<1>2. k \in DOMAIN (q \o ms) /\ (q \o ms)[k] = q[k]  OBVIOUS
<1>3. k < Len(q \o ms) + 1  BY <1>2
<1> QED  BY <1>1, <1>2, <1>3 DEF Lost

\* A message that is sent last is announced.
LEMMA LostLast ==
    ASSUME NEW q \in Seq(Messages), NEW ms \in Seq(Messages), NEW e \in Entries,
           NEW k \in DOMAIN ms, ms[k] = Message("removed", e), NEW i \in 0 .. Len(q)
    PROVE  /\ Lost(q \o ms, e, i, Len(q \o ms) + 1)
           /\ \A l \in DOMAIN ms : k < l => Lost(q \o ms, e, i, Len(q) + l)
<1>1. Len(q) + k \in DOMAIN (q \o ms) /\ (q \o ms)[Len(q) + k] = Message("removed", e)
  OBVIOUS
<1>2. i < Len(q) + k /\ Len(q) + k < Len(q \o ms) + 1  BY <1>1
<1>3. \A l \in DOMAIN ms : k < l => Len(q) + k < Len(q) + l  OBVIOUS
<1> QED  BY <1>1, <1>2, <1>3 DEF Lost

\* Past the first message.
LEMMA LostTail ==
    ASSUME NEW q \in Seq(Messages), q # <<>>, NEW e, NEW i \in Nat, NEW j \in Int
    PROVE  /\ Lost(q, e, i + 1, j + 1) => Lost(Tail(q), e, i, j)
           /\ Lost(q, e, 0, j + 1) =>
                  Head(q) = Message("removed", e) \/ Lost(Tail(q), e, 0, j)
<1>1. PICK t : t = Tail(q)  OBVIOUS
<1>2. DOMAIN q = 1 .. Len(q) /\ Len(q) \in Nat \ {0} /\ Head(q) = q[1]  OBVIOUS
<1>3. DOMAIN t = 1 .. Len(q) - 1 /\ \A k \in 1 .. Len(q) - 1 : t[k] = q[k + 1]
  BY <1>1, <1>2
<1>4. ASSUME NEW k \in DOMAIN q, k # 1
      PROVE  k - 1 \in DOMAIN t /\ t[k - 1] = q[k]
  BY <1>2, <1>3, <1>4
<1>5. ASSUME Lost(q, e, i + 1, j + 1) PROVE Lost(t, e, i, j)
  <2>1. PICK k \in DOMAIN q : i + 1 < k /\ k < j + 1 /\ q[k] = Message("removed", e)
    BY <1>5 DEF Lost
  <2>2. k - 1 \in DOMAIN t /\ t[k - 1] = q[k]  BY <1>2, <1>4, <2>1
  <2>3. i < k - 1 /\ k - 1 < j  BY <1>2, <2>1
  <2> QED  BY <2>1, <2>2, <2>3 DEF Lost
<1>6. ASSUME Lost(q, e, 0, j + 1), Head(q) # Message("removed", e) PROVE Lost(t, e, 0, j)
  <2>1. PICK k \in DOMAIN q : 0 < k /\ k < j + 1 /\ q[k] = Message("removed", e)
    BY <1>6 DEF Lost
  <2>2. k - 1 \in DOMAIN t /\ t[k - 1] = q[k]  BY <1>2, <1>4, <1>6, <2>1
  <2>3. 0 < k - 1 /\ k - 1 < j  BY <1>2, <1>6, <2>1
  <2> QED  BY <2>1, <2>2, <2>3 DEF Lost
<1> QED  BY <1>1, <1>5, <1>6

\* What a message is about.
LEMMA BroughtIs ==
    /\ \A m \in Messages : Brought(m) \in SUBSET Entries
    /\ \A m \in Messages : m.type \in {"removed", "ack"} => Brought(m) = {}
    /\ \A t, e : Message(t, e).type = t /\ Message(t, e).entry = e
    /\ \A e : Brought(Message("added", e)) = {e}
    /\ \A s \in SUBSET Entries : Brought([type |-> "all", entries |-> s]) = s
<1>1. \A t, e : Message(t, e).type = t /\ Message(t, e).entry = e  BY DEF Message
<1>2. \A e : Brought(Message("added", e)) = {e}  BY <1>1 DEF Brought
<1>3. \A s \in SUBSET Entries : Brought([type |-> "all", entries |-> s]) = s  BY DEF Brought
<1>4. ASSUME NEW m \in Messages
      PROVE  /\ Brought(m) \in SUBSET Entries
             /\ m.type \in {"removed", "ack"} => Brought(m) = {}
  BY MessageFields DEF Brought
<1> QED  BY <1>1, <1>2, <1>3, <1>4

-----------------------------------------------------------------------------
\* A step that moves what the device has seen, and nothing else.
LEMMA FreshStill ==
    ASSUME Fresh, Losses, Seen' \subseteq Seen, listen' # "on" => listen # "on",
           UNCHANGED <<images, last, down, known>>
    PROVE  Fresh' /\ Losses'
<1>1. Fresh'  BY DEF Fresh
<1>2. Losses'  BY DEF Losses
<1> QED  BY <1>1, <1>2

\* A step that leaves the client, and what was deleted, as they are.
LEMMA AckedStill ==
    ASSUME Acked, UNCHANGED <<up, down, known, removing, deleted>>
    PROVE  Acked'
<1>1. View' = View  BY DEF View
<1> QED  BY <1>1 DEF Acked

\* The user deletes what is in the grid, and empties the grid with it.
LEMMA UserTraced ==
    ASSUME TypeOK, Traced, User
    PROVE  Traced'
<1>1. /\ ToSet(grid') \subseteq ToSet(grid)
      /\ Waits(main') = Waits(main)
      /\ screen' = "profile" => Asks(main')
      /\ screen' = "detail" =>
             detail' \in ToSet(grid') /\ Waits(main') = {} /\ ~Asks(main')
      /\ UNCHANGED <<images, last, listen, down, known>>
  BY UserSets
<1>2. Covered'  BY <1>1 DEF Covered
<1>3. CASE UNCHANGED <<up, removing, deleted>>
  <2>1. Seen' \subseteq Seen  BY <1>1, <1>3 DEF Seen
  <2>2. Fresh' /\ Losses'  BY <1>1, <2>1, FreshStill DEF Traced
  <2>3. Acked'  BY <1>1, <1>3, AckedStill DEF Traced
  <2>4. Hidden'  BY <1>1, <1>3 DEF Hidden, Traced
  <2> QED  BY <1>2, <2>2, <2>3, <2>4 DEF Traced
<1>4. CASE /\ screen = "detail" /\ removing' = removing \cup {detail}
           /\ deleted' = deleted \cup {detail} /\ up' = Append(up, detail)
           /\ ToSet(grid') = {} /\ screen' = "profile"
  <2>1. detail \in ToSet(grid) \ Waits(main)  BY <1>4 DEF Traced, Hidden
  <2>2. Seen' \subseteq Seen  BY <1>1, <1>4, <2>1 DEF Seen
  <2>3. Fresh' /\ Losses'  BY <1>1, <2>2, FreshStill DEF Traced
  <2>4. Acked'
    <3>1. ToSet(up') = ToSet(up) \cup {detail}
      <4>1. up \in Seq(Entries) /\ detail \in Entries  BY <1>4 DEF TypeOK
      <4> QED  BY <1>4, <4>1, AppendSet
    <3>2. View' = View \ {detail}  BY <1>1, <1>4 DEF View
    <3> QED  BY <1>1, <1>4, <3>1, <3>2 DEF Acked, Traced
  <2>5. Hidden'  BY <1>1, <1>4, <2>1 DEF Hidden, Traced
  <2> QED  BY <1>2, <2>3, <2>4, <2>5 DEF Traced
<1> QED  BY <1>3, <1>4, UserSets

\* A block moves an entry from the queue to the grid, or asks for the view.
LEMMA MainQueueTraced ==
    ASSUME TypeOK, Traced, MainQueue
    PROVE  Traced'
<1>1. /\ UNCHANGED <<images, last, up, down, known, removing, deleted, screen, detail>>
      /\ listen' # "on" => listen # "on"
  BY MainQueueSets
<1>2. Acked'  BY <1>1, AckedStill DEF Traced
<1>3. View' = View /\ View \subseteq known /\ deleted \cap View = {}
  BY <1>1 DEF View, Traced, Acked
<1>4. CASE /\ UNCHANGED grid /\ observers' # 0 /\ Asks(main)
           /\ Waits(main') = Waits(main) \cup View
           /\ Asks(main') => Asks(main)
  <2>1. Seen' \subseteq Seen  BY <1>1, <1>3, <1>4 DEF Seen
  <2>2. Fresh' /\ Losses'  BY <1>1, <2>1, FreshStill DEF Traced
  <2>3. Hidden'  BY <1>1, <1>3, <1>4 DEF Hidden, Traced
  <2>4. Covered'  BY <1>3, <1>4 DEF Covered
  <2> QED  BY <1>2, <2>2, <2>3, <2>4 DEF Traced
<1>5. ASSUME NEW e \in Entries,
             ToSet(grid') = ToSet(grid) \cup {e}, Waits(main) = {e} \cup Waits(main'),
             Asks(main') <=> Asks(main), UNCHANGED observers
      PROVE  Traced'
  <2>1. Seen' \subseteq Seen  BY <1>1, <1>5 DEF Seen
  <2>2. Fresh' /\ Losses'  BY <1>1, <2>1, FreshStill DEF Traced
  <2>3. Hidden'  BY <1>1, <1>5 DEF Hidden, Traced
  <2>4. Covered'  BY <1>1, <1>3, <1>5 DEF Covered, Traced
  <2> QED  BY <1>2, <2>2, <2>3, <2>4 DEF Traced
<1>6. CASE /\ UNCHANGED <<grid, observers>> /\ Waits(main') = Waits(main)
           /\ Asks(main') <=> Asks(main)
  <2>1. Seen' \subseteq Seen  BY <1>1, <1>6 DEF Seen
  <2>2. Fresh' /\ Losses'  BY <1>1, <2>1, FreshStill DEF Traced
  <2>3. Hidden'  BY <1>1, <1>6 DEF Hidden, Traced
  <2>4. Covered'  BY <1>1, <1>3, <1>6 DEF Covered, Traced
  <2> QED  BY <1>2, <2>2, <2>3, <2>4 DEF Traced
<1> QED  BY <1>4, <1>5, <1>6, MainQueueSets

\* What leaves the screen and the copy alone leaves what concerns them.
LEMMA ScreenStill ==
    ASSUME UNCHANGED <<main, screen, observers, grid, detail, known, removing, deleted>>
    PROVE  /\ Seen' = Seen /\ View' = View
           /\ Hidden => Hidden'
           /\ Covered => Covered'
<1>1. Seen' = Seen /\ View' = View  BY DEF Seen, View
<1> QED  BY <1>1 DEF Hidden, Covered

\* The profile picture is no matter of the entries.
LEMMA PictureTraced ==
    ASSUME Traced,
           \/ Pictured \/ UNCHANGED vars
           \/ \E p \in Pictures : Uploaded(p) \/ UploadFails(p)
    PROVE  Traced'
<1>1. UNCHANGED <<images, last, listen, up, down>>
  BY DEF Pictured, GetNameCallback, Downloaded, Uploaded, UploadFails, vars, database, client
<1>2. UNCHANGED <<main, screen, observers, grid, detail, known, removing, deleted>>
  BY OtherSets
<1>3. Fresh' /\ Losses'  BY <1>1, <1>2, FreshStill, ScreenStill DEF Traced
<1>4. Acked'  BY <1>1, <1>2, AckedStill DEF Traced
<1> QED  BY <1>2, <1>3, <1>4, ScreenStill DEF Traced

\* The server's answer to the listen is the first that comes.
LEMMA ListenTraced ==
    ASSUME TypeOK, Traced, ServeListen
    PROVE  Traced'
<1>1. UNCHANGED <<main, screen, observers, grid, detail, known, removing, deleted>>
  BY OtherSets
<1>2. images \in SUBSET Entries /\ UNCHANGED <<images, last, up>>
  BY DEF TypeOK, ServeListen, database
<1>3. PICK m \in Messages : m = [type |-> "all", entries |-> images]
  BY <1>2, MessageTypes
<1>4. Brought(m) = images /\ m.type # "ack"  BY <1>2, <1>3, BroughtIs
<1>5. down = <<>> /\ Seen = {}  BY DEF Traced, Fresh, ServeListen
<1>6. down' = <<m>> /\ listen' = "on"  BY <1>3, <1>5 DEF ServeListen
<1>7. DOMAIN down' = {1} /\ down'[1] = m  BY <1>6, ShortSeq
<1>8. known = {} /\ View = {}  BY <1>5 DEF Seen, View
<1>9. Fresh'
  <2>1. images \subseteq 1 .. last  BY DEF Traced, Fresh
  <2>2. Seen' = {}  BY <1>1, <1>5, ScreenStill
  <2>3. \A i \in DOMAIN down' : Brought(down'[i]) \subseteq (1 .. last') \ Seen'
    BY <1>2, <1>4, <1>7, <2>1, <2>2
  <2>4. \A i, j \in DOMAIN down' : ~(i < j)  BY <1>7
  <2> QED  BY <1>2, <1>6, <2>1, <2>2, <2>3, <2>4 DEF Fresh
<1>10. Losses'  BY <1>1, <1>2, <1>4, <1>7, <1>8 DEF Losses
<1>11. Acked'
  <2>1. View' = View  BY <1>1, ScreenStill
  <2> QED  BY <1>1, <1>2, <1>4, <1>7, <2>1 DEF Acked, Traced
<1> QED  BY <1>1, <1>9, <1>10, <1>11, ScreenStill DEF Traced

\* The listener is told, if it is one, of an entry that is gone.
LEMMA GoneTraced ==
    ASSUME TypeOK, Traced, NEW e \in Entries, NEW ms \in Seq(Messages),
           images' = images \ {e}, Told(ms),
           UNCHANGED <<last, listen, main, screen, observers, grid, detail, known, removing,
                       deleted>>,
           ToSet(up') \subseteq ToSet(up),
           \A k \in DOMAIN ms : ms[k] \in {Message("removed", e), Message("ack", e)},
           \A k \in DOMAIN ms : ms[k] = Message("ack", e) =>
               /\ e \in deleted
               /\ e \in images => \E l \in DOMAIN ms : l < k /\ ms[l] = Message("removed", e),
           e \in images => \E k \in DOMAIN ms : ms[k] = Message("removed", e)
    PROVE  Traced'
<1>1. Seen' = Seen /\ View' = View /\ Hidden' /\ Covered'
  BY ScreenStill DEF Traced
<1>2. down \in Seq(Messages)  BY DEF TypeOK
<1>3. CASE listen # "on"
  <2>1. down' = <<>> /\ down = <<>> /\ Seen = {}  BY <1>3 DEF Told, Traced, Fresh
  <2>2. known = {}  BY <2>1 DEF Seen
  <2>3. DOMAIN down' = {}  BY <2>1, ShortSeq
  <2>4. Fresh'  BY <1>1, <2>1, <2>3 DEF Fresh, Traced
  <2>5. Losses'  BY <2>2, <2>3 DEF Losses
  <2>6. Acked'  BY <1>1, <2>3 DEF Acked, Traced
  <2> QED  BY <1>1, <2>4, <2>5, <2>6 DEF Traced
<1>4. CASE listen = "on"
  <2> PICK q \in Seq(Messages) : q = down \o ms
    <3>1. \A d \in Seq(Messages) : d \o ms \in Seq(Messages)  OBVIOUS
    <3> QED  BY <1>2, <3>1
  <2>1. down' = q  BY <1>4 DEF Told
  <2>2. ASSUME NEW i \in DOMAIN q
        PROVE  \/ i \in DOMAIN down /\ q[i] = down[i]
               \/ /\ i - Len(down) \in DOMAIN ms /\ q[i] = ms[i - Len(down)]
                  /\ Brought(q[i]) = {}
    <3>1. \/ i \in DOMAIN down /\ q[i] = down[i]
          \/ i - Len(down) \in DOMAIN ms /\ q[i] = ms[i - Len(down)]
      BY <1>2
    <3>2. q[i] \in Messages  OBVIOUS
    <3>3. \A t, x : Message(t, x).type = t  BY BroughtIs
    <3> QED  BY <3>1, <3>2, <3>3, BroughtIs
  <2>3. Fresh'
    <3>1. images' \subseteq 1 .. last /\ Seen' \subseteq 1 .. last
      BY <1>1 DEF Traced, Fresh
    <3>2. \A i \in DOMAIN q : Brought(q[i]) \subseteq (1 .. last) \ Seen
      BY <2>2 DEF Traced, Fresh
    <3>3. \A i, j \in DOMAIN q : i < j => Brought(q[i]) \cap Brought(q[j]) = {}
      BY <2>2 DEF Traced, Fresh
    <3> QED  BY <1>1, <1>4, <2>1, <3>1, <3>2, <3>3 DEF Fresh
  <2>4. ASSUME NEW x, NEW i \in 0 .. Len(down),
               x \notin images', x \in images \/ Lost(down, x, i, Len(down) + 1)
        PROVE  Lost(q, x, i, Len(q) + 1)
    <3>1. CASE x \in images
      <4>1. x = e  BY <2>4, <3>1
      <4>2. PICK k \in DOMAIN ms : ms[k] = Message("removed", e)  BY <3>1, <4>1
      <4> QED  BY <1>2, <4>1, <4>2, LostLast
    <3>2. CASE Lost(down, x, i, Len(down) + 1)
      <4>1. Len(down) + 1 \in Int  BY <1>2
      <4> QED  BY <1>2, <3>2, <4>1, LostLonger
    <3> QED  BY <2>4, <3>1, <3>2
  <2>5. Losses'
    <3>1. \A x \in known \ images' : Lost(q, x, 0, Len(q) + 1)
      <4>1. 0 \in 0 .. Len(down)  BY <1>2
      <4> QED  BY <2>4, <4>1 DEF Traced, Losses
    <3>2. ASSUME NEW i \in DOMAIN q, NEW x \in Brought(q[i]) \ images'
          PROVE  Lost(q, x, i, Len(q) + 1)
      <4>1. i \in DOMAIN down /\ q[i] = down[i]  BY <2>2, <3>2
      <4>2. i \in 0 .. Len(down)  BY <1>2, <4>1
      <4> QED  BY <2>4, <3>2, <4>1, <4>2 DEF Traced, Losses
    <3> QED  BY <2>1, <3>1, <3>2 DEF Losses
  <2>6. ASSUME NEW i \in DOMAIN q, q[i].type = "ack"
        PROVE  /\ q[i].entry \in deleted
               /\ q[i].entry \in known => Lost(q, q[i].entry, 0, i)
    <3>1. CASE i \in DOMAIN down /\ q[i] = down[i]
      <4>1. i \in Int  BY <1>2, <3>1
      <4> QED  BY <1>2, <2>6, <3>1, <4>1, LostLonger DEF Traced, Acked
    <3>2. CASE i - Len(down) \in DOMAIN ms /\ q[i] = ms[i - Len(down)]
      <4>1. PICK k \in DOMAIN ms : k = i - Len(down)  BY <3>2
      <4>2. i = Len(down) + k  BY <1>2, <4>1
      <4>3. ms[k] = Message("ack", e)  BY <2>6, <3>2, <4>1, BroughtIs
      <4>4. q[i].entry = e /\ e \in deleted  BY <3>2, <4>1, <4>3, BroughtIs
      <4>5. ASSUME e \in known PROVE Lost(q, e, 0, i)
        <5>1. CASE e \in images
          <6>1. PICK l \in DOMAIN ms : l < k /\ ms[l] = Message("removed", e)
            BY <4>3, <5>1
          <6>2. 0 \in 0 .. Len(down)  BY <1>2
          <6> QED  BY <1>2, <4>2, <6>1, <6>2, LostLast
        <5>2. CASE e \notin images
          <6>1. Lost(down, e, 0, Len(down) + 1)  BY <4>5, <5>2 DEF Traced, Losses
          <6>2. PICK l \in DOMAIN down : 0 < l /\ down[l] = Message("removed", e)
            BY <6>1 DEF Lost
          <6>3. l \in DOMAIN q /\ q[l] = down[l]  BY <1>2
          <6>4. l < i  BY <1>2, <4>2
          <6> QED  BY <6>2, <6>3, <6>4 DEF Lost
        <5> QED  BY <5>1, <5>2
      <4> QED  BY <4>4, <4>5
    <3> QED  BY <2>2, <3>1, <3>2
  <2>7. Acked'  BY <1>1, <2>1, <2>6 DEF Traced, Acked
  <2> QED  BY <1>1, <2>3, <2>5, <2>7 DEF Traced
<1> QED  BY <1>3, <1>4

\* Another device deletes an entry.
LEMMA DeletesTraced ==
    ASSUME TypeOK, Traced, NEW e \in Entries, OtherDeletes(e)
    PROVE  Traced'
<1>1. UNCHANGED <<main, screen, observers, grid, detail, known, removing, deleted>>
  BY OtherSets
<1>2. PICK r \in Messages : r = Message("removed", e)  BY MessageTypes
<1>3. <<r>> \in Seq(Messages)  OBVIOUS
<1>4. PICK ms \in Seq(Messages) : ms = <<r>>  BY <1>3
<1>5. DOMAIN ms = {1} /\ ms[1] = r  BY <1>4, ShortSeq
<1>6. r # Message("ack", e)
  <2>1. r.type = "removed" /\ Message("ack", e).type = "ack"  BY <1>2, BroughtIs
  <2> QED  BY <2>1
<1>7. /\ images' = images \ {e} /\ Told(ms) /\ UNCHANGED <<last, listen, up>>
  BY <1>2, <1>4 DEF OtherDeletes
<1> QED  BY <1>1, <1>2, <1>5, <1>6, <1>7, GoneTraced

\* The server makes this device's removal and confirms it.
LEMMA RemovalTraced ==
    ASSUME TypeOK, Traced, ServeRemoval
    PROVE  Traced'
<1>1. UNCHANGED <<main, screen, observers, grid, detail, known, removing, deleted>>
  BY OtherSets
<1>2. up \in Seq(Entries) /\ up # <<>>  BY DEF TypeOK, ServeRemoval
<1>3. PICK e \in Entries : e = Head(up)  BY <1>2, HeadTypes
<1>4. e \in deleted /\ ToSet(up') \subseteq ToSet(up)
  <2>1. ToSet(up) = {e} \cup ToSet(Tail(up))  BY <1>2, <1>3, TailSet
  <2> QED  BY <2>1 DEF ServeRemoval, Traced, Acked
<1>5. PICK r \in Messages, a \in Messages : r = Message("removed", e) /\ a = Message("ack", e)
  BY MessageTypes
<1>6. r # a
  <2>1. r.type = "removed" /\ a.type = "ack"  BY <1>5, BroughtIs
  <2> QED  BY <2>1
<1>7. /\ images' = images \ {e} /\ UNCHANGED <<last, listen>>
      /\ Told((IF e \in images THEN <<r>> ELSE <<>>) \o <<a>>)
  BY <1>3, <1>5 DEF ServeRemoval
<1>8. CASE e \in images
  <2>1. <<r>> \in Seq(Messages) /\ <<a>> \in Seq(Messages)  OBVIOUS
  <2>2. PICK rs \in Seq(Messages), as \in Seq(Messages) : rs = <<r>> /\ as = <<a>>
    BY <2>1
  <2>3. PICK ms \in Seq(Messages) : ms = rs \o as
    <3>1. \A p, q \in Seq(Messages) : p \o q \in Seq(Messages)  OBVIOUS
    <3> QED  BY <3>1
  <2>4. DOMAIN ms = {1, 2} /\ ms[1] = r /\ ms[2] = a
    <3>1. Len(rs) = 1 /\ rs[1] = r /\ Len(as) = 1 /\ as[1] = a  BY <2>2
    <3>2. Len(ms) = 2 /\ ms[1] = rs[1] /\ ms[2] = as[1]
      <4>1. /\ Len(ms) = Len(rs) + Len(as)
            /\ \A i \in DOMAIN ms : \/ i \in DOMAIN rs /\ ms[i] = rs[i]
                                    \/ i - Len(rs) \in DOMAIN as /\ ms[i] = as[i - Len(rs)]
        <5>1. IsSeq(rs) /\ IsSeq(as)  BY DEF IsSeq
        <5> QED  BY <2>3, <5>1, JoinSeq
      <4>2. DOMAIN rs = {1} /\ DOMAIN as = {1} /\ Len(ms) = 2 /\ DOMAIN ms = 1 .. 2
        BY <2>2, <3>1, <4>1
      <4>3. /\ 1 \in DOMAIN ms /\ 1 - Len(rs) \notin DOMAIN as
            /\ 2 \in DOMAIN ms /\ 2 \notin DOMAIN rs /\ 2 - Len(rs) = 1
        BY <3>1, <4>2
      <4>4. ms[1] = rs[1]  BY <4>1, <4>3
      <4> QED  BY <4>1, <4>2, <4>3, <4>4
    <3>3. DOMAIN ms = 1 .. 2 /\ 1 .. 2 = {1, 2}  BY <3>2
    <3> QED  BY <3>1, <3>2, <3>3
  <2>8. Told(ms)  BY <1>7, <1>8, <2>2, <2>3
  <2>5. \A k \in DOMAIN ms : ms[k] \in {r, a}  BY <2>4
  <2>6. \A k \in DOMAIN ms : ms[k] = a => \E l \in DOMAIN ms : l < k /\ ms[l] = r
    BY <1>6, <2>4
  <2>7. \E k \in DOMAIN ms : ms[k] = r  BY <2>4
  <2> QED  BY <1>1, <1>4, <1>5, <1>7, <2>5, <2>6, <2>7, <2>8, GoneTraced
<1>9. CASE e \notin images
  <2>1. <<a>> \in Seq(Messages) /\ <<>> \o <<a>> = <<a>>  OBVIOUS
  <2>2. PICK ms \in Seq(Messages) : ms = <<a>>  BY <2>1
  <2>3. DOMAIN ms = {1} /\ ms[1] = a  BY <2>2
  <2>4. Told(ms)  BY <1>7, <1>9, <2>1, <2>2
  <2>5. \A k \in DOMAIN ms : ms[k] \in {r, a}  BY <2>3
  <2> QED  BY <1>1, <1>4, <1>5, <1>7, <1>9, <2>4, <2>5, GoneTraced
<1> QED  BY <1>8, <1>9

\* An entry made by another device is the newest, and so new to everyone.
LEMMA SavesTraced ==
    ASSUME TypeOK, Traced, OtherSaves
    PROVE  Traced'
<1>1. UNCHANGED <<main, screen, observers, grid, detail, known, removing, deleted>>
  BY OtherSets
<1>2. /\ last' = last + 1 /\ images' = images \cup {last + 1} /\ UNCHANGED <<listen, up>>
      /\ Told(<<Message("added", last + 1)>>)
  BY DEF OtherSaves
<1>3. last \in Nat /\ last + 1 \in Entries /\ down \in Seq(Messages)
  BY SizesAssumption DEF TypeOK, OtherSaves, Entries
<1>4. PICK n \in Nat : n = last + 1  BY <1>3
<1>5. n \in Entries /\ n \notin 1 .. last /\ 1 .. n = (1 .. last) \cup {n}  BY <1>3, <1>4
<1>6. PICK m \in Messages : m = Message("added", n)  BY <1>5, MessageTypes
<1>7. Brought(m) = {n} /\ m.type = "added"  BY <1>6, BroughtIs
<1>8. /\ Seen' = Seen /\ View' = View /\ Hidden' /\ Covered'
      /\ Seen \subseteq 1 .. last /\ images \subseteq 1 .. last
  BY <1>1, ScreenStill DEF Traced, Fresh
<1>9. images' \subseteq 1 .. last' /\ Seen' \subseteq 1 .. last'  BY <1>2, <1>4, <1>5, <1>8
<1>10. CASE listen # "on"
  <2>1. down' = <<>> /\ Seen = {}  BY <1>2, <1>10 DEF Told, Traced, Fresh
  <2>2. DOMAIN down' = {}  BY <2>1, ShortSeq
  <2>3. known = {}  BY <2>1 DEF Seen
  <2>4. Fresh'  BY <1>8, <1>9, <2>1, <2>2 DEF Fresh
  <2>5. Losses'  BY <1>1, <2>2, <2>3 DEF Losses
  <2>6. Acked'  BY <1>1, <1>2, <1>8, <2>2 DEF Acked, Traced
  <2> QED  BY <1>8, <2>4, <2>5, <2>6 DEF Traced
<1>11. CASE listen = "on"
  <2>0. <<m>> \in Seq(Messages)  OBVIOUS
  <2>1. PICK ms \in Seq(Messages) : ms = <<m>>  BY <2>0
  <2> PICK q \in Seq(Messages) : q = down \o ms
    <3>1. \A d \in Seq(Messages) : d \o ms \in Seq(Messages)  OBVIOUS
    <3> QED  BY <1>3, <3>1
  <2>2. down' = q  BY <1>2, <1>4, <1>6, <1>11, <2>1 DEF Told
  <2>3. DOMAIN ms = {1} /\ ms[1] = m /\ Len(ms) = 1  BY <2>1
  <2>4. ASSUME NEW i \in DOMAIN q
        PROVE  \/ i \in DOMAIN down /\ q[i] = down[i]
               \/ i = Len(down) + 1 /\ q[i] = m
    <3>1. \/ i \in DOMAIN down /\ q[i] = down[i]
          \/ i - Len(down) \in DOMAIN ms /\ q[i] = ms[i - Len(down)]
      BY <1>3
    <3>2. i \in Int /\ Len(down) \in Int  BY <1>3
    <3> QED  BY <2>3, <3>1, <3>2
  <2>5. \A i \in DOMAIN down : Brought(down[i]) \subseteq (1 .. last) \ Seen
    BY DEF Traced, Fresh
  <2>6. Fresh'
    <3>1. \A i \in DOMAIN q : Brought(q[i]) \subseteq (1 .. n) \ Seen
      BY <1>5, <1>7, <1>8, <2>4, <2>5
    <3>2. ASSUME NEW i \in DOMAIN q, NEW j \in DOMAIN q, i < j
          PROVE  Brought(q[i]) \cap Brought(q[j]) = {}
      <4>1. i \in DOMAIN down /\ q[i] = down[i]
        <5>1. j <= Len(down) + 1 /\ i \in Int /\ j \in Int /\ Len(down) \in Int
          BY <1>3, <2>4
        <5> QED  BY <2>4, <3>2, <5>1
      <4>2. CASE j \in DOMAIN down /\ q[j] = down[j]
        BY <3>2, <4>1, <4>2 DEF Traced, Fresh
      <4>3. CASE q[j] = m
        BY <1>5, <1>7, <2>5, <4>1, <4>3
      <4> QED  BY <2>4, <4>2, <4>3
    <3> QED  BY <1>2, <1>4, <1>8, <1>9, <1>11, <2>2, <3>1, <3>2 DEF Fresh
  <2>7. Losses'
    <3>1. ASSUME NEW x, NEW i, Lost(down, x, i, Len(down) + 1)
          PROVE  Lost(q, x, i, Len(q) + 1)
      <4>1. Len(down) + 1 \in Int  BY <1>3
      <4> QED  BY <1>3, <3>1, <4>1, LostLonger
    <3>2. \A x \in known \ images' : Lost(q, x, 0, Len(q) + 1)
      BY <1>2, <3>1 DEF Traced, Losses
    <3>3. ASSUME NEW i \in DOMAIN q, NEW x \in Brought(q[i]) \ images'
          PROVE  Lost(q, x, i, Len(q) + 1)
      <4>1. i \in DOMAIN down /\ q[i] = down[i]  BY <1>2, <1>4, <1>7, <2>4, <3>3
      <4> QED  BY <1>2, <3>1, <3>3, <4>1 DEF Traced, Losses
    <3> QED  BY <1>1, <2>2, <3>2, <3>3 DEF Losses
  <2>8. ASSUME NEW i \in DOMAIN q, q[i].type = "ack"
        PROVE  /\ q[i].entry \in deleted
               /\ q[i].entry \in known => Lost(q, q[i].entry, 0, i)
    <3>1. i \in DOMAIN down /\ q[i] = down[i]  BY <1>7, <2>4, <2>8
    <3>2. i \in Int  BY <1>3, <3>1
    <3> QED  BY <1>3, <2>8, <3>1, <3>2, LostLonger DEF Traced, Acked
  <2>9. Acked'  BY <1>1, <1>2, <1>8, <2>2, <2>8 DEF Acked, Traced
  <2> QED  BY <1>8, <2>6, <2>7, <2>9 DEF Traced
<1> QED  BY <1>10, <1>11

\* What is new in the view was brought by the message.
LEMMA ViewGrows ==
    ASSUME TypeOK, Traced, Arrive
    PROVE  /\ down # <<>> /\ down[1] = Head(down) /\ 1 \in DOMAIN down
           /\ Head(down) \in Messages
           /\ known' \subseteq known \cup Brought(Head(down))
           /\ View' \subseteq View \cup Brought(Head(down))
           /\ \A e \in known' \ Brought(Head(down)) : Head(down) # Message("removed", e)
           /\ removing' \subseteq removing
<1>1. /\ down \in Seq(Messages) /\ down # <<>>  BY DEF TypeOK, Arrive
<1>2. 1 \in DOMAIN down /\ down[1] = Head(down) /\ Head(down) \in Messages  BY <1>1
<1>3. PICK m \in Messages : m = Head(down)  BY <1>2
<1>4. /\ known' = Received(m)
      /\ removing' = IF m.type = "ack" THEN removing \ {m.entry} ELSE removing
  BY <1>3 DEF Arrive
<1>5. m.type \in {"all", "added", "removed", "ack"}  BY MessageFields
<1>6. CASE m.type = "all"
  <2>1. known' = Brought(m) /\ removing' = removing  BY <1>4, <1>6 DEF Received, Brought
  <2> QED  BY <1>1, <1>2, <1>3, <2>1 DEF View
<1>7. CASE m.type = "added"
  <2>1. known' = known \cup Brought(m) /\ removing' = removing
    BY <1>4, <1>7 DEF Received, Brought
  <2>2. \A e : m # Message("removed", e)  BY <1>7, BroughtIs
  <2> QED  BY <1>1, <1>2, <1>3, <2>1, <2>2 DEF View
<1>8. CASE m.type = "removed"
  <2>1. known' = known \ {m.entry} /\ removing' = removing
    BY <1>4, <1>8 DEF Received
  <2>2. \A e : m = Message("removed", e) => e = m.entry  BY BroughtIs
  <2> QED  BY <1>1, <1>2, <1>3, <2>1, <2>2 DEF View
<1>9. CASE m.type = "ack"
  <2>1. known' = known /\ removing' = removing \ {m.entry}
    BY <1>4, <1>9 DEF Received
  <2>2. \A e : m # Message("removed", e)  BY <1>9, BroughtIs
  <2>3. m.entry \notin known
    <3>1. ~Lost(down, m.entry, 0, 1)  BY <1>1 DEF Lost
    <3> QED  BY <1>2, <1>3, <1>9, <3>1 DEF Traced, Acked
  <2> QED  BY <1>1, <1>2, <1>3, <2>1, <2>2, <2>3 DEF View
<1> QED  BY <1>5, <1>6, <1>7, <1>8, <1>9

\* A message arrives: its entries are new, its loss is final.
LEMMA ArriveTraced ==
    ASSUME TypeOK, TypeOK', Traced, Arrive
    PROVE  Traced'
<1>1. UNCHANGED <<images, last, listen, up, deleted, screen, observers, grid, detail>>
  BY ArriveSets
<1>2. PICK m \in Messages : m = Head(down)  BY ViewGrows
<1>3. /\ 1 \in DOMAIN down /\ down[1] = m
      /\ known' \subseteq known \cup Brought(m)
      /\ View' \subseteq View \cup Brought(m)
      /\ \A e \in known' \ Brought(m) : m # Message("removed", e)
      /\ removing' \subseteq removing
  BY <1>2, ViewGrows
<1>4. down \in Seq(Messages) /\ down # <<>> /\ down' = Tail(down)
  BY DEF TypeOK, Arrive
<1>5. DOMAIN down = 1 .. Len(down) /\ Len(down) \in Nat \ {0}  BY <1>4
<1>6. DOMAIN down' = 1 .. Len(down) - 1 /\ Len(down') = Len(down) - 1
  BY <1>4, <1>5
<1>7. \A i \in DOMAIN down' : i \in Nat /\ i + 1 \in DOMAIN down /\ down'[i] = down[i + 1]
  BY <1>4, <1>5, <1>6
<1>8. Brought(m) \subseteq (1 .. last) \ Seen  BY <1>3 DEF Traced, Fresh
<1>9. Waits(main') \subseteq Waits(main) \cup Brought(m)  BY <1>3, ArriveSets
<1>10. Seen' \subseteq Seen \cup Brought(m)  BY <1>1, <1>3, <1>9 DEF Seen
<1>11. \A i \in DOMAIN down' : Brought(down'[i]) \cap Brought(m) = {}
  <2>1. \A i \in DOMAIN down' : 1 < i + 1  BY <1>5, <1>6
  <2> QED  BY <1>3, <1>7, <2>1 DEF Traced, Fresh
<1>12. Fresh'
  <2>1. images' \subseteq 1 .. last' /\ Seen' \subseteq 1 .. last'
    BY <1>1, <1>8, <1>10 DEF Traced, Fresh
  <2>2. \A i \in DOMAIN down' : Brought(down'[i]) \subseteq (1 .. last') \ Seen'
    BY <1>1, <1>7, <1>10, <1>11 DEF Traced, Fresh
  <2>3. \A i, j \in DOMAIN down' : i < j => Brought(down'[i]) \cap Brought(down'[j]) = {}
    <3>1. \A i, j \in DOMAIN down' : i < j => i + 1 < j + 1  BY <1>7
    <3> QED  BY <1>7, <3>1 DEF Traced, Fresh
  <2>4. listen' = "on"  BY <1>1, <1>4 DEF Traced, Fresh
  <2> QED  BY <2>1, <2>2, <2>3, <2>4 DEF Fresh
<1>13. ASSUME NEW x, NEW i \in Nat, NEW j \in Int
       PROVE  /\ Lost(down, x, i + 1, j + 1) => Lost(down', x, i, j)
              /\ Lost(down, x, 0, j + 1) =>
                     m = Message("removed", x) \/ Lost(down', x, 0, j)
  <2>1. /\ Lost(down, x, i + 1, j + 1) => Lost(Tail(down), x, i, j)
        /\ Lost(down, x, 0, j + 1) =>
               Head(down) = Message("removed", x) \/ Lost(Tail(down), x, 0, j)
    BY <1>4, LostTail
  <2> QED  BY <1>2, <1>4, <2>1
<1>14. Losses'
  <2>1. Len(down') + 1 \in Int /\ Len(down) + 1 = (Len(down') + 1) + 1  BY <1>5, <1>6
  <2>2. ASSUME NEW x \in known' \ images' PROVE Lost(down', x, 0, Len(down') + 1)
    <3>1. CASE x \in Brought(m)
      <4>1. Lost(down, x, 1, Len(down) + 1)
        BY <1>1, <1>3, <2>2, <3>1 DEF Traced, Losses
      <4>2. Lost(down, x, 0 + 1, (Len(down') + 1) + 1)  BY <2>1, <4>1
      <4> QED  BY <1>13, <2>1, <4>2
    <3>2. CASE x \notin Brought(m)
      <4>1. Lost(down, x, 0, (Len(down') + 1) + 1)
        BY <1>1, <1>3, <2>1, <2>2, <3>2 DEF Traced, Losses
      <4>2. m # Message("removed", x)  BY <1>3, <2>2, <3>2
      <4> QED  BY <1>13, <2>1, <4>1, <4>2
    <3> QED  BY <3>1, <3>2
  <2>3. ASSUME NEW i \in DOMAIN down', NEW x \in Brought(down'[i]) \ images'
        PROVE  Lost(down', x, i, Len(down') + 1)
    <3>1. Lost(down, x, i + 1, (Len(down') + 1) + 1)
      BY <1>1, <1>7, <2>1, <2>3 DEF Traced, Losses
    <3>2. i \in Nat  BY <1>7
    <3> QED  BY <1>13, <2>1, <3>1, <3>2
  <2> QED  BY <2>2, <2>3 DEF Losses
<1>15. deleted \cap Brought(m) = {} /\ ToSet(grid) \cap Brought(m) = {}
  BY <1>8 DEF Seen
<1>16. Acked'
  <2>1. deleted' \cap View' = {} /\ removing' \subseteq deleted' /\ ToSet(up') \subseteq deleted'
    BY <1>1, <1>3, <1>15 DEF Traced, Acked
  <2>2. ASSUME NEW i \in DOMAIN down', down'[i].type = "ack"
        PROVE  /\ down'[i].entry \in deleted'
               /\ down'[i].entry \in known' => Lost(down', down'[i].entry, 0, i)
    <3>1. PICK x : x = down'[i].entry  OBVIOUS
    <3>2. /\ i \in Int /\ i + 1 \in DOMAIN down
          /\ down[i + 1].type = "ack" /\ down[i + 1].entry = x
      BY <1>7, <2>2, <3>1
    <3>3. x \in deleted /\ (x \in known => Lost(down, x, 0, i + 1))
      BY <3>2 DEF Traced, Acked
    <3>4. ASSUME x \in known' PROVE Lost(down', x, 0, i)
      <4>1. x \notin Brought(m) /\ x \in known  BY <1>3, <1>15, <3>3, <3>4
      <4>2. m # Message("removed", x)  BY <1>3, <3>4, <4>1
      <4>3. Lost(down, x, 0, i + 1)  BY <3>3, <4>1
      <4> QED  BY <1>13, <3>2, <4>2, <4>3
    <3> QED  BY <1>1, <3>1, <3>3, <3>4
  <2> QED  BY <2>1, <2>2 DEF Acked
<1>17. Hidden'  BY <1>1, <1>9, <1>15, ArriveSets DEF Traced, Hidden
<1>18. Covered'
  <2>1. observers # 0 => Waits(main') = Waits(main) \cup (View' \ View)
    BY ArriveSets
  <2> QED  BY <1>1, <2>1, ArriveSets DEF Traced, Covered
<1> QED  BY <1>12, <1>14, <1>16, <1>17, <1>18 DEF Traced

\* Nothing is known at first.
LEMMA InitTraced == Init => Traced
<1> SUFFICES ASSUME Init PROVE Traced  OBVIOUS
<1>1. ToSet(<<>>) = {} /\ Waits(<<>>) = {} /\ DOMAIN <<>> = {}
  BY ShortSet, WaitsShort, ShortSeq
<1>2. Seen = {} /\ View = {} /\ known = {} /\ deleted = {} /\ removing = {}
  BY <1>1 DEF Init, Seen, View
<1>3. Fresh  BY <1>1, <1>2, SizesAssumption DEF Init, Fresh
<1>4. Losses  BY <1>1, <1>2 DEF Init, Losses
<1>5. Acked  BY <1>1, <1>2 DEF Init, Acked
<1>6. Hidden  BY <1>1, <1>2 DEF Init, Hidden
<1>7. Covered  BY DEF Init, Covered
<1> QED  BY <1>3, <1>4, <1>5, <1>6, <1>7 DEF Traced

\* A step keeps track of the entries.
LEMMA NextTraced == TypeOK /\ TypeOK' /\ Traced /\ [Next]_vars => Traced'
<1> SUFFICES ASSUME TypeOK, TypeOK', Traced, [Next]_vars PROVE Traced'  OBVIOUS
<1>1. CASE Database
  BY <1>1, ListenTraced, RemovalTraced, ArriveTraced DEF Database
<1>2. CASE \E e \in Entries : OtherDeletes(e)
  BY <1>2, DeletesTraced
<1>3. CASE \/ Pictured \/ UNCHANGED vars
           \/ \E p \in Pictures : Uploaded(p) \/ UploadFails(p)
  BY <1>3, PictureTraced
<1> QED  BY <1>1, <1>2, <1>3, UserTraced, MainQueueTraced, SavesTraced DEF Next

(***************************************************************************)
(* A picture deleted on this device is not in the grid the user comes back *)
(* to, nor ever after, whatever the order in which the server confirms the *)
(* removal and tells of those of other devices                             *)
(* (DetailController.swift:99-105).                                        *)
(***************************************************************************)
THEOREM DeletedAlwaysGone == Spec => []DeletedGone
<1>1. Traced => DeletedGone  BY DEF Traced, Hidden, DeletedGone
<1> QED  BY <1>1, InitTypes, NextTypes, InitTraced, NextTraced, PTL DEF Spec

(***************************************************************************)
(* When nothing is queued the grid has every entry the client has, however *)
(* often it was emptied, refilled and told of new entries.                 *)
(***************************************************************************)
THEOREM NothingEverMissed == Spec => []NothingMissed
<1>1. Traced => NothingMissed
  <2>1. ~Asks(<<>>) /\ Waits(<<>>) = {}  BY WaitsShort
  <2> QED  BY <2>1 DEF Traced, Covered, NothingMissed
<1> QED  BY <1>1, InitTypes, NextTypes, InitTraced, NextTraced, PTL DEF Spec

-----------------------------------------------------------------------------
(***************************************************************************)
(* How often an entry is in the grid and on the queue.                     *)
(***************************************************************************)
At(s, x) == {i \in DOMAIN s : s[i] = x}

\* A sequence has an element a number of times.
LEMMA TimesNat ==
    ASSUME NEW S, NEW s \in Seq(S), NEW x
    PROVE  IsFiniteSet(At(s, x)) /\ Times(s, x) = Cardinality(At(s, x)) /\ Times(s, x) \in Nat
<1>1. PICK n \in Nat : n = Len(s)  OBVIOUS
<1>2. At(s, x) \subseteq 1 .. n  BY <1>1 DEF At
<1>3. IsFiniteSet(1 .. n)  BY FS_Interval
<1>4. IsFiniteSet(At(s, x))  BY <1>2, <1>3, FS_Subset
<1> QED  BY <1>4, FS_CardinalityType DEF Times, At

\* An element that is not there is there no time.
LEMMA TimesNone ==
    ASSUME NEW S, NEW s \in Seq(S), NEW x, x \notin ToSet(s)
    PROVE  Times(s, x) = 0
<1>1. At(s, x) = {}  BY DEF At, ToSet
<1> QED  BY <1>1, FS_EmptySet DEF Times, At

\* One element.
LEMMA TimesOne ==
    ASSUME NEW x, NEW y
    PROVE  Times(<<y>>, x) = IF y = x THEN 1 ELSE 0
<1>1. At(<<y>>, x) = IF y = x THEN {1} ELSE {}  BY ShortSeq DEF At
<1> QED  BY <1>1, FS_EmptySet, FS_Singleton DEF Times, At

\* The times of a sequence are those of its two parts.
LEMMA TimesParts ==
    ASSUME NEW S, NEW s \in Seq(S), NEW r \in Seq(S), NEW t \in Seq(S), NEW x,
           Len(s) = Len(r) + Len(t),
           \A i \in 1 .. Len(r) : s[i] = r[i],
           \A i \in 1 .. Len(t) : s[Len(r) + i] = t[i]
    PROVE  Times(s, x) = Times(r, x) + Times(t, x)
<1>1. PICK k \in Nat, n \in Nat : k = Len(r) /\ n = Len(t)  OBVIOUS
<1>2. DOMAIN s = 1 .. k + n /\ DOMAIN r = 1 .. k /\ DOMAIN t = 1 .. n  BY <1>1
<1> PICK A, B, C : A = At(r, x) /\ B = At(t, x) /\ C = {k + i : i \in B}  OBVIOUS
<1> PICK f : f = [i \in B |-> k + i]  OBVIOUS
<1>3. IsFiniteSet(A) /\ IsFiniteSet(B)  BY TimesNat
<1>4. B \subseteq 1 .. n /\ A \subseteq 1 .. k  BY <1>2 DEF At
<1>5. IsFiniteSet(C) /\ Cardinality(C) = Cardinality(B)
  <2>1. /\ f \in [B -> C] /\ (\A a, b \in B : f[a] = f[b] => a = b)
        /\ \A c \in C : \E b \in B : f[b] = c
    BY <1>4
  <2>2. ExistsBijection(B, C)
    <3>1. f \in Bijection(B, C)
      BY <2>1 DEF Bijection, Injection, Surjection, IsInjective
    <3> QED  BY <3>1 DEF ExistsBijection
  <2> QED  BY <1>3, <2>2, FS_Bijection
<1>6. At(s, x) = A \cup C
  <2>1. ASSUME NEW i \in At(s, x) PROVE i \in A \cup C
    <3>1. i \in 1 .. k + n /\ s[i] = x  BY <1>2, <2>1 DEF At
    <3>2. CASE i <= k
      <4>1. i \in 1 .. k  BY <3>1, <3>2
      <4> QED  BY <1>1, <1>2, <3>1, <4>1 DEF At
    <3>3. CASE i > k
      <4>1. i - k \in 1 .. n /\ k + (i - k) = i  BY <3>1, <3>3
      <4>2. t[i - k] = s[i]  BY <1>1, <4>1
      <4> QED  BY <1>2, <3>1, <4>1, <4>2 DEF At
    <3> QED  BY <3>1, <3>2, <3>3
  <2>2. ASSUME NEW i \in A PROVE i \in At(s, x)
    <3>1. i \in 1 .. k /\ r[i] = x  BY <1>2, <2>2 DEF At
    <3>2. i \in 1 .. k + n  BY <3>1
    <3> QED  BY <1>1, <1>2, <3>1, <3>2 DEF At
  <2>3. ASSUME NEW i \in B PROVE k + i \in At(s, x)
    <3>1. i \in 1 .. n /\ t[i] = x  BY <1>2, <2>3 DEF At
    <3>2. k + i \in 1 .. k + n  BY <3>1
    <3> QED  BY <1>1, <1>2, <3>1, <3>2 DEF At
  <2> QED  BY <2>1, <2>2, <2>3
<1>7. A \cap C = {}  BY <1>4
<1>8. Cardinality(A \cup C) = Cardinality(A) + Cardinality(C)
  <2>1. Cardinality(A \cap C) = 0  BY <1>7, FS_EmptySet
  <2>2. Cardinality(A) \in Nat /\ Cardinality(C) \in Nat  BY <1>3, <1>5, FS_CardinalityType
  <2>3. Cardinality(A \cup C) = Cardinality(A) + Cardinality(C) - Cardinality(A \cap C)
    <3>1. IsFiniteSet(A) /\ IsFiniteSet(C)  BY <1>3, <1>5
    <3> QED  BY ONLY <3>1, FS_Union
  <2> QED  BY <2>1, <2>2, <2>3
<1>9. /\ Times(s, x) = Cardinality(At(s, x))
      /\ Times(r, x) = Cardinality(A) /\ Times(t, x) = Cardinality(B)
  BY DEF Times, At
<1> QED  BY <1>5, <1>6, <1>8, <1>9

\* One sequence behind another.
LEMMA TimesJoin ==
    ASSUME NEW S, NEW r \in Seq(S), NEW t \in Seq(S), NEW x
    PROVE  Times(r \o t, x) = Times(r, x) + Times(t, x)
<1>1. r \o t \in Seq(S)  OBVIOUS
<1>2. /\ Len(r \o t) = Len(r) + Len(t)
      /\ \A i \in 1 .. Len(r) : (r \o t)[i] = r[i]
      /\ \A i \in 1 .. Len(t) : (r \o t)[Len(r) + i] = t[i]
  OBVIOUS
<1>3. PICK s \in Seq(S) : s = r \o t  BY <1>1
<1>4. /\ Len(s) = Len(r) + Len(t)
      /\ \A i \in 1 .. Len(r) : s[i] = r[i]
      /\ \A i \in 1 .. Len(t) : s[Len(r) + i] = t[i]
  BY <1>2, <1>3
<1>5. Times(s, x) = Times(r, x) + Times(t, x)  BY <1>4, TimesParts
<1> QED  BY <1>3, <1>5

\* The head, and the others.
LEMMA TimesTail ==
    ASSUME NEW S, NEW s \in Seq(S), s # <<>>, NEW x
    PROVE  Times(s, x) = (IF Head(s) = x THEN 1 ELSE 0) + Times(Tail(s), x)
<1>1. Head(s) \in S /\ Tail(s) \in Seq(S)  BY HeadTypes
<1>2. PICK h \in S, t \in Seq(S) : h = Head(s) /\ t = Tail(s)  BY <1>1
<1>3. <<h>> \in Seq(S)  OBVIOUS
<1>4. PICK r \in Seq(S) : r = <<h>>  BY <1>3
<1>5. Len(r) = 1 /\ r[1] = h  BY <1>4
<1>6. Len(s) \in Nat \ {0} /\ s[1] = h /\ Len(t) = Len(s) - 1  BY <1>2
<1>7. \A i \in 1 .. Len(t) : s[1 + i] = t[i]  BY <1>2
<1>8. /\ Len(s) = Len(r) + Len(t)
      /\ \A i \in 1 .. Len(r) : s[i] = r[i]
      /\ \A i \in 1 .. Len(t) : s[Len(r) + i] = t[i]
  BY <1>5, <1>6, <1>7
<1>9. Times(s, x) = Times(r, x) + Times(t, x)  BY <1>8, TimesParts
<1> QED  BY <1>2, <1>4, <1>9, TimesOne

\* An entry that does not wait on a queue has no block on it.
LEMMA TimesAbsent ==
    ASSUME NEW q \in Seq(Blocks), NEW e \in Entries, e \notin Waits(q)
    PROVE  Times(q, Added(e)) = 0
<1>1. Added(e) \notin ToSet(q)  BY DEF Waits
<1> QED  BY <1>1, TimesNone

\* The blocks of new entries.
LEMMA TimesEvents ==
    ASSUME NEW new \in SUBSET Entries, NEW n \in Nat, NEW e \in Entries
    PROVE  /\ Times(Events(new, n), Added(e)) \in Nat
           /\ Times(Events(new, n), Added(e)) <= n
           /\ e \notin new => Times(Events(new, n), Added(e)) = 0
<1>1. PICK E \in Seq(Blocks) : E = Events(new, n)  BY EventsOf
<1>2. Times(E, Added(e)) \in Nat /\ Times(E, Added(e)) = Cardinality(At(E, Added(e)))
  BY TimesNat
<1>3. CASE e \in new
  <2>1. At(E, Added(e)) = Runs(new, n, e)  BY <1>1 DEF At, Runs
  <2> QED  BY <1>1, <1>2, <1>3, <2>1, EventsOf
<1>4. CASE e \notin new
  <2>1. e \notin Waits(E)  BY <1>1, <1>4, WaitsEvents
  <2> QED  BY <1>1, <1>4, <2>1, TimesAbsent
<1> QED  BY <1>3, <1>4

\* An appearance empties the grid and adds no block of an entry.
LEMMA UserCopies ==
    ASSUME TypeOK, CopiesBounded, User, NEW e \in Entries
    PROVE  Times(grid', e) + Times(main', Added(e)) <= observers'
<1>1. main \in Seq(Blocks) /\ grid \in Seq(Entries) /\ observers \in Nat  BY DEF TypeOK
<1>2. Times(grid, e) \in Nat /\ Times(main, Added(e)) \in Nat  BY <1>1, TimesNat
<1>3. Times(grid, e) + Times(main, Added(e)) <= observers  BY DEF CopiesBounded
<1>4. Times(<<>>, e) = 0 /\ Times(<<>>, Added(e)) = 0
  <2>1. <<>> \in Seq(Entries) /\ <<>> \in Seq(Blocks) /\ ToSet(<<>>) = {}  BY ShortSet
  <2> QED  BY <2>1, TimesNone
<1>5. ASSUME NEW bs \in Seq(Blocks), e \notin Waits(bs), Appear(bs), observers' = observers
      PROVE  Times(grid', e) + Times(main', Added(e)) <= observers'
  <2>1. PICK o \in Blocks : o = Block("observe")  BY BlockTypes
  <2>2. <<o>> \in Seq(Blocks)  OBVIOUS
  <2>3. PICK ob \in Seq(Blocks) : ob = <<o>>  BY <2>2
  <2>4. Waits(ob) = {}  BY <2>1, <2>3, WaitsShort
  <2>5. PICK q : q = main \o ob  OBVIOUS
  <2>6. q \in Seq(Blocks)  BY <1>1, <2>4, <2>5, WaitsMore
  <2>7. Times(ob, Added(e)) = 0 /\ Times(bs, Added(e)) = 0  BY <1>5, <2>4, TimesAbsent
  <2>8. Times(q, Added(e)) = Times(main, Added(e)) + 0  BY <1>1, <2>5, <2>7, TimesJoin
  <2>9. Times(q \o bs, Added(e)) = Times(q, Added(e)) + 0  BY <2>6, <2>7, TimesJoin
  <2>10. main' = q \o bs /\ grid' = <<>>  BY <1>5, <2>1, <2>3, <2>5 DEF Appear
  <2> QED  BY <1>1, <1>2, <1>3, <1>4, <1>5, <2>8, <2>9, <2>10
<1>6. <<>> \in Seq(Blocks) /\ Waits(<<>>) = {}  BY WaitsShort
<1>7. CASE ShowProfile
  <2>1. PICK a \in Blocks, o \in Blocks : a = Block("getName") /\ o = Block("observe")
    BY BlockTypes
  <2>2. <<a>> \in Seq(Blocks) /\ <<o>> \in Seq(Blocks)  OBVIOUS
  <2>3. PICK p \in Seq(Blocks), r \in Seq(Blocks) : p = <<a>> /\ r = <<o>>  BY <2>2
  <2>4. a.type # "added"  BY <2>1 DEF Block
  <2>5. Waits(p) = {} /\ Waits(r) = {}  BY <2>1, <2>3, <2>4, WaitsShort
  <2>6. Times(p, Added(e)) = 0 /\ Times(r, Added(e)) = 0  BY <2>5, TimesAbsent
  <2>7. Times(p \o r, Added(e)) = 0 + 0  BY <2>6, TimesJoin
  <2>8. main' = p \o r /\ grid' = <<>> /\ observers' = 0
    BY <1>7, <2>1, <2>3 DEF ShowProfile
  <2> QED  BY <1>4, <2>7, <2>8
<1>8. CASE LeaveProfile
  <2>1. main' = <<>> /\ grid' = <<>> /\ observers' = 0  BY <1>8 DEF LeaveProfile, Quiet
  <2> QED  BY <1>4, <2>1
<1>9. CASE OpenDetail \/ HandleProfileTap
  <2>1. UNCHANGED <<main, grid, observers>>  BY <1>9 DEF OpenDetail, HandleProfileTap, gallery
  <2> QED  BY <1>3, <2>1
<1>10. CASE Dismiss \/ DeleteUserImage
  <2>1. Appear(<<>>) /\ observers' = observers  BY <1>10 DEF Dismiss, DeleteUserImage
  <2> QED  BY <1>5, <1>6, <2>1
<1>11. CASE Choose
  <2>1. PICK p \in Pictures : Appear(<<Upload(p)>>)  BY <1>11 DEF Choose
  <2>2. PICK u \in Blocks : u = Upload(p)  BY BlockTypes
  <2>3. <<u>> \in Seq(Blocks) /\ u.type # "added"  BY <2>2 DEF Upload
  <2>4. Waits(<<u>>) = {}  BY <2>3, WaitsShort
  <2>5. observers' = observers  BY <1>11 DEF Choose
  <2> QED  BY <1>5, <2>1, <2>2, <2>3, <2>4, <2>5
<1> QED  BY <1>7, <1>8, <1>9, <1>10, <1>11 DEF User

\* A block becomes a row; a new observer is told of every entry once.
LEMMA MainQueueCopies ==
    ASSUME TypeOK, CopiesBounded, MainQueue, NEW e \in Entries
    PROVE  Times(grid', e) + Times(main', Added(e)) <= observers'
<1>1. main \in Seq(Blocks) /\ grid \in Seq(Entries) /\ observers \in Nat
      /\ View \in SUBSET Entries
  BY DEF TypeOK, View
<1>2. PICK g \in Nat, m \in Nat : g = Times(grid, e) /\ m = Times(main, Added(e))
  BY <1>1, TimesNat
<1>3. g + m <= observers  BY <1>2 DEF CopiesBounded
<1>4. ASSUME main # <<>>
      PROVE  /\ Tail(main) \in Seq(Blocks) /\ Times(Tail(main), Added(e)) \in Nat
             /\ m = (IF Head(main) = Added(e) THEN 1 ELSE 0) + Times(Tail(main), Added(e))
  <2>1. Tail(main) \in Seq(Blocks)  BY <1>1, <1>4
  <2>2. Times(Tail(main), Added(e)) \in Nat  BY <2>1, TimesNat
  <2>3. Times(main, Added(e)) =
            (IF Head(main) = Added(e) THEN 1 ELSE 0) + Times(Tail(main), Added(e))
    BY <1>1, <1>4, TimesTail
  <2> QED  BY <1>2, <2>1, <2>2, <2>3
<1>5. CASE RunObserve
  <2>1. main # <<>>  BY <1>5 DEF RunObserve, Next1
  <2>2. PICK q \in Seq(Blocks), n \in Nat : q = Tail(main) /\ n = Times(q, Added(e)) /\ n <= m
    <3>1. PICK q \in Seq(Blocks) : q = Tail(main)  BY <1>4, <2>1
    <3>2. PICK n \in Nat : n = Times(q, Added(e))  BY <1>4, <2>1, <3>1
    <3>3. m = (IF Head(main) = Added(e) THEN 1 ELSE 0) + n  BY <1>4, <2>1, <3>1, <3>2
    <3>4. n <= m
      <4>1. m = 1 + n \/ m = 0 + n  BY <3>3
      <4> QED  BY <4>1
    <3> QED  BY <3>1, <3>2, <3>4
  <2>3. PICK v \in SUBSET Entries : v = View  BY <1>1
  <2>4. PICK E \in Seq(Blocks) : E = Events(v, 1)  BY EventsOf
  <2>5. PICK k \in Nat : k = Times(E, Added(e)) /\ k <= 1
    <3>1. 1 \in Nat  OBVIOUS
    <3>2. Times(Events(v, 1), Added(e)) \in Nat /\ Times(Events(v, 1), Added(e)) <= 1
      BY <3>1, TimesEvents
    <3> QED  BY <2>4, <3>2
  <2>6. Times(q \o E, Added(e)) = n + k  BY <2>2, <2>5, TimesJoin
  <2>7. main' = q \o E /\ observers' = observers + 1 /\ grid' = grid
    BY <1>5, <2>2, <2>3, <2>4 DEF RunObserve
  <2>8. Times(grid', e) = g /\ Times(main', Added(e)) = n + k  BY <1>2, <2>6, <2>7
  <2>9. g + (n + k) <= observers + 1  BY <1>1, <1>3, <2>2, <2>5
  <2> QED  BY <2>7, <2>8, <2>9
<1>6. CASE RunAdded
  <2>1. main # <<>> /\ Head(main).type = "added"  BY <1>6 DEF RunAdded, Next1
  <2>2. PICK d \in Entries : d = Head(main).entry /\ Head(main) = Added(d)
    <3>1. Head(main) \in Blocks  BY <1>1, <2>1, HeadTypes
    <3> QED  BY <2>1, <3>1, BlockFields
  <2>3. <<d>> \in Seq(Entries)  OBVIOUS
  <2>4. PICK r \in Seq(Entries) : r = <<d>>  BY <2>3
  <2>5. Times(r, e) = IF d = e THEN 1 ELSE 0  BY <2>4, TimesOne
  <2>6. grid' = grid \o r  BY <1>1, <1>6, <2>2, <2>4 DEF RunAdded
  <2>7. Times(grid', e) = g + (IF d = e THEN 1 ELSE 0)
    BY <1>1, <1>2, <2>5, <2>6, TimesJoin
  <2>8. main' = Tail(main) /\ observers' = observers  BY <1>6 DEF RunAdded
  <2>9. Head(main) = Added(e) <=> d = e  BY <2>2, AddedIs
  <2>10. PICK n \in Nat : n = Times(main', Added(e)) /\ m = (IF d = e THEN 1 ELSE 0) + n
    BY <1>4, <2>1, <2>8, <2>9
  <2>11. Times(grid', e) + Times(main', Added(e)) = g + m
    <3>1. CASE d = e
      <4>1. Times(grid', e) = g + 1 /\ m = 1 + n  BY <2>7, <2>10, <3>1
      <4> QED  BY <2>10, <4>1
    <3>2. CASE d # e
      <4>1. Times(grid', e) = g + 0 /\ m = 0 + n  BY <2>7, <2>10, <3>2
      <4> QED  BY <2>10, <4>1
    <3> QED  BY <3>1, <3>2
  <2> QED  BY <1>3, <2>8, <2>11
<1>7. CASE Layout
  <2>1. PICK c \in Blocks : c = Cells(Len(grid))
    <3>1. Len(grid) \in Nat  BY <1>1
    <3> QED  BY <3>1, BlockTypes
  <2>2. <<c>> \in Seq(Blocks) /\ c.type = "cells"  BY <2>1 DEF Cells
  <2>3. PICK r \in Seq(Blocks) : r = <<c>>  BY <2>2
  <2>4. Times(r, Added(e)) = 0
    <3>1. Waits(r) = {}  BY <2>2, <2>3, WaitsShort
    <3> QED  BY <3>1, TimesAbsent
  <2>5. Times(main \o r, Added(e)) = m + 0  BY <1>1, <1>2, <2>4, TimesJoin
  <2>6. main' = main \/ main' = main \o r
    BY <1>1, <1>7, <2>1, <2>3 DEF Layout
  <2>7. UNCHANGED <<grid, observers>>  BY <1>7 DEF Layout
  <2>8. Times(main', Added(e)) = m
    <3>1. CASE main' = main  BY <1>2, <3>1
    <3>2. CASE main' = main \o r  BY <2>5, <3>2
    <3> QED  BY <2>6, <3>1, <3>2
  <2> QED  BY <1>2, <1>3, <2>7, <2>8
<1>8. CASE RunCells \/ RunGetName \/ RunUpload
  <2>1. main # <<>> /\ main' = Tail(main) /\ UNCHANGED <<grid, observers>>
    BY <1>8 DEF RunCells, RunGetName, RunUpload, Next1, gallery
  <2>2. PICK n \in Nat : n = Times(main', Added(e)) /\ n <= m  BY <1>4, <2>1
  <2> QED  BY <1>1, <1>2, <1>3, <2>1, <2>2
<1> QED  BY <1>5, <1>6, <1>7, <1>8 DEF MainQueue

\* An entry that is new in the view has no copy yet.
LEMMA ArriveCopies ==
    ASSUME TypeOK, TypeOK', Traced, CopiesBounded, Arrive, NEW e \in Entries
    PROVE  Times(grid', e) + Times(main', Added(e)) <= observers'
<1>1. /\ main \in Seq(Blocks) /\ grid \in Seq(Entries) /\ observers \in Nat
      /\ View' \ View \in SUBSET Entries
  BY DEF TypeOK, View
<1>2. PICK g \in Nat, m \in Nat : g = Times(grid, e) /\ m = Times(main, Added(e))
  BY <1>1, TimesNat
<1>3. g + m <= observers  BY <1>2 DEF CopiesBounded
<1>4. PICK v \in SUBSET Entries : v = View' \ View  BY <1>1
<1>5. PICK n \in Nat : n = observers  BY <1>1
<1>6. PICK E \in Seq(Blocks) : E = Events(v, n)  BY EventsOf
<1>7. PICK k \in Nat : k = Times(E, Added(e)) /\ k <= n /\ (e \notin v => k = 0)
  BY <1>6, TimesEvents
<1>8. Times(main \o E, Added(e)) = m + k  BY <1>1, <1>2, <1>7, TimesJoin
<1>9. main' = main \o E /\ UNCHANGED <<grid, observers>>
  BY <1>4, <1>5, <1>6 DEF Arrive, gallery
<1>10. e \in v => g = 0 /\ m = 0
  <2>1. SUFFICES ASSUME e \in v PROVE g = 0 /\ m = 0  OBVIOUS
  <2>2. e \in Brought(Head(down))  BY <1>4, <2>1, ViewGrows
  <2>3. e \notin Seen  BY <2>2, ViewGrows DEF Traced, Fresh
  <2>4. e \notin ToSet(grid) /\ e \notin Waits(main)  BY <2>3 DEF Seen
  <2> QED  BY <1>1, <1>2, <2>4, TimesNone, TimesAbsent
<1>11. Times(grid', e) = g /\ Times(main', Added(e)) = m + k  BY <1>2, <1>8, <1>9
<1>12. g + (m + k) <= observers
  <2>1. CASE e \in v  BY <1>5, <1>7, <1>10, <2>1
  <2>2. CASE e \notin v
    <3>1. k = 0  BY <1>7, <2>2
    <3> QED  BY <1>3, <3>1
  <2> QED  BY <2>1, <2>2
<1> QED  BY <1>9, <1>11, <1>12

\* Nothing is in the grid at first.
LEMMA InitCopies == Init => CopiesBounded
<1>1. <<>> \in Seq(Entries) /\ <<>> \in Seq(Blocks) /\ ToSet(<<>>) = {}  BY ShortSet
<1>2. \A e \in Entries : Times(<<>>, e) = 0 /\ Times(<<>>, Added(e)) = 0
  BY <1>1, TimesNone
<1> QED  BY <1>2 DEF Init, CopiesBounded

\* A step makes no copy too many.
LEMMA NextCopies ==
    TypeOK /\ TypeOK' /\ Traced /\ CopiesBounded /\ [Next]_vars => CopiesBounded'
<1> SUFFICES ASSUME TypeOK, TypeOK', Traced, CopiesBounded, [Next]_vars PROVE CopiesBounded'
  OBVIOUS
<1>1. CASE User \/ MainQueue \/ Arrive
  BY <1>1, UserCopies, MainQueueCopies, ArriveCopies DEF CopiesBounded
<1>2. CASE UNCHANGED <<main, grid, observers>>
  BY <1>2 DEF CopiesBounded
<1> QED  BY <1>1, <1>2, OtherSets DEF Next, Database

(***************************************************************************)
(* An entry is in the grid at most once for every observer the controller  *)
(* has added, however messages, blocks and appearances fall                *)
(* (ProfileController.swift:70-78): what is new in the client's view has   *)
(* never been in the grid nor on the queue, so each observer is told once. *)
(***************************************************************************)
THEOREM CopiesAlwaysBounded == Spec => []CopiesBounded
<1> QED
  BY InitTypes, NextTypes, InitTraced, NextTraced, InitCopies, NextCopies, PTL DEF Spec
=============================================================================
