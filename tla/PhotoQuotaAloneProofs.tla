----------------------- MODULE PhotoQuotaAloneProofs -----------------------
(***************************************************************************)
(* A proof that PhotoQuotaAlone implements QuotaCounter, for any limit and *)
(* photos and however often the connection breaks.                         *)
(***************************************************************************)
EXTENDS PhotoQuotaAlone, PhotoQuotaProofs

\* What PhotoQuotaAlone is about: one device, whose user waits for each answer,
\* whose process is not killed and whose connection does not break while a
\* confirmation is held back.
Careful ==
    /\ Devices = {Device} /\ ~Overlapping /\ ~Withheld
    /\ Budget["kill"] = 0

\* The paths of the writes that name a limit.
Limiting == {"record", "photoLimit"}

-----------------------------------------------------------------------------
(***************************************************************************)
(* The limit after writes.                                                 *)
(***************************************************************************)
\* The last write that names a limit decides.
LEMMA LimitLast ==
    ASSUME NEW r, NEW S, NEW ws \in Seq(S), NEW i \in DOMAIN ws, IsLast(ws, i, Limiting)
    PROVE  LimitAfter(r, ws) = ws[i].limit
<1>1. DOMAIN ws = 1..Len(ws) /\ Len(ws) \in Nat  BY LenProperties
<1>2. Touched(ws, Limiting)  BY DEF Touched
<1> PICK k : k = Last(ws, Limiting)  OBVIOUS
<1>3. k \in DOMAIN ws /\ IsLast(ws, k, Limiting)  BY DEF Last
<1>4. k <= i /\ i <= k /\ k \in Nat /\ i \in Nat  BY <1>1, <1>3 DEF IsLast
<1>5. k = i  BY <1>4
<1> QED  BY <1>2, <1>5 DEF LimitAfter, Limiting

\* When none does it is the record's.
LEMMA LimitNone ==
    ASSUME NEW r, NEW ws, \A i \in DOMAIN ws : ws[i].at \notin Limiting
    PROVE  LimitAfter(r, ws) = r.limit
BY DEF LimitAfter, Touched, IsLast, Limiting

\* One of the two is the case.
LEMMA LimitEither ==
    ASSUME NEW S, NEW ws \in Seq(S)
    PROVE  \/ \A i \in DOMAIN ws : ws[i].at \notin Limiting
           \/ \E i \in DOMAIN ws : IsLast(ws, i, Limiting)
BY TouchedBy DEF Touched

\* One write more.
LEMMA LimitSet ==
    ASSUME NEW r, NEW S, NEW ws \in Seq(S), NEW x \in S
    PROVE  LimitAfter(r, ws \o <<x>>)
              = IF x.at \in Limiting THEN x.limit ELSE LimitAfter(r, ws)
<1> PICK c : c = ws \o <<x>>  OBVIOUS
<1> PICK n : n = Len(ws)  OBVIOUS
<1>1. /\ n \in Nat /\ DOMAIN ws = 1..n /\ c \in Seq(S) /\ DOMAIN c = 1..(n + 1)
      /\ c[n + 1] = x /\ \A i \in 1..n : c[i] = ws[i]
  OBVIOUS
<1>2. CASE x.at \in Limiting
  <2>1. IsLast(c, n + 1, Limiting) /\ n + 1 \in DOMAIN c  BY <1>1, <1>2 DEF IsLast
  <2>2. LimitAfter(r, c) = c[n + 1].limit  BY ONLY <1>1, <2>1, LimitLast
  <2> QED  BY <1>1, <1>2, <2>2
<1>3. CASE x.at \notin Limiting
  <2>1. CASE \A i \in DOMAIN ws : ws[i].at \notin Limiting
    <3>1. \A i \in DOMAIN c : c[i].at \notin Limiting
      <4> SUFFICES ASSUME NEW i \in 1..(n + 1) PROVE c[i].at \notin Limiting  BY <1>1
      <4>1. i \in 1..n \/ i = n + 1  BY <1>1
      <4> QED  BY <1>1, <1>3, <2>1, <4>1
    <3> QED  BY <1>3, <2>1, <3>1, LimitNone
  <2>2. ASSUME NEW i \in DOMAIN ws, IsLast(ws, i, Limiting)
        PROVE  LimitAfter(r, c) = LimitAfter(r, ws)
    <3>1. i \in DOMAIN c /\ c[i] = ws[i]  BY <1>1
    <3>2. \A j \in DOMAIN c : c[j].at \in Limiting => j \in 1..n  BY <1>1, <1>3
    <3>3. IsLast(c, i, Limiting)  BY <1>1, <2>2, <3>1, <3>2 DEF IsLast
    <3> QED  BY <1>1, <2>2, <3>1, <3>3, LimitLast
  <2> QED  BY <1>3, <2>1, <2>2, LimitEither
<1> QED  BY <1>2, <1>3

\* So after one write.
LEMMA LimitApplied ==
    ASSUME NEW r, NEW S, NEW w \in S
    PROVE  Apply(r, w).limit = IF w.at \in Limiting THEN w.limit ELSE r.limit
<1> PICK e : e = <<>>  OBVIOUS
<1>1. e \in Seq(S) /\ e \o <<w>> = <<w>>  OBVIOUS
<1>2. LimitAfter(r, e) = r.limit  BY LimitNone
<1>3. LimitAfter(r, e \o <<w>>) = IF w.at \in Limiting THEN w.limit ELSE LimitAfter(r, e)
  BY <1>1, LimitSet
<1> QED  BY <1>1, <1>2, <1>3 DEF Apply, Overlay

\* The limit depends on the record's only.
LEMMA LimitBase ==
    ASSUME NEW r, NEW t, NEW ws, r.limit = t.limit
    PROVE  LimitAfter(r, ws) = LimitAfter(t, ws)
BY DEF LimitAfter

-----------------------------------------------------------------------------
(***************************************************************************)
(* What was served.                                                        *)
(***************************************************************************)
\* q is the limit the first n of the writes leave, if one of them names any.
Settled(ws, n, q) ==
    \A i \in 1..n :
        ws[i].at \in Limiting /\ (\A j \in 1..n : ws[j].at \in Limiting => j <= i)
            => ws[i].limit = q

\* Served writes can be taken from what is laid over the record.
LEMMA SettledDropped ==
    ASSUME NEW r, NEW S, NEW ws \in Seq(S), NEW n \in 0..Len(ws), NEW k \in 0..n,
           Settled(ws, n, r.limit),
           NEW vs \in Seq(S), Len(vs) = Len(ws) - k, \A i \in 1..Len(vs) : vs[i] = ws[i + k]
    PROVE  LimitAfter(r, vs) = LimitAfter(r, ws) /\ Settled(vs, n - k, r.limit)
<1> PICK m : m = Len(ws)  OBVIOUS
<1>1. /\ m \in Nat /\ DOMAIN ws = 1..m /\ n \in Nat /\ k \in Nat /\ k <= n /\ n <= m
      /\ DOMAIN vs = 1..(m - k) /\ \A i \in 1..(m - k) : vs[i] = ws[i + k]
  BY LenProperties
<1>2. \A i \in 1..(m - k) : i + k \in 1..m /\ vs[i] = ws[i + k]  BY <1>1
<1>3. \A j \in 1..m : j <= k \/ (j - k \in 1..(m - k) /\ vs[j - k] = ws[j])
  <2> SUFFICES ASSUME NEW j \in 1..m, ~ (j <= k)
               PROVE  j - k \in 1..(m - k) /\ vs[j - k] = ws[j]
    OBVIOUS
  <2>1. j - k \in 1..(m - k) /\ (j - k) + k = j  BY <1>1
  <2> QED  BY <1>1, <2>1
<1>4. ASSUME NEW i \in DOMAIN vs, IsLast(vs, i, Limiting)
      PROVE  LimitAfter(r, vs) = LimitAfter(r, ws)
  <2>1. i \in 1..(m - k) /\ i + k \in 1..m /\ vs[i] = ws[i + k]  BY <1>1, <1>2
  <2>2. ASSUME NEW j \in 1..m, ws[j].at \in Limiting  PROVE j <= i + k
    <3>1. CASE j <= k  BY <1>1, <2>1, <3>1
    <3>2. CASE ~ (j <= k)
      <4>1. j - k \in DOMAIN vs /\ vs[j - k] = ws[j]  BY <1>1, <1>3, <3>2
      <4>2. j - k <= i  BY <1>4, <2>2, <4>1 DEF IsLast
      <4> QED  BY <1>1, <2>1, <4>2
    <3> QED  BY <3>1, <3>2
  <2>3. IsLast(ws, i + k, Limiting) /\ i + k \in DOMAIN ws
    BY <1>1, <1>4, <2>1, <2>2 DEF IsLast
  <2>4. LimitAfter(r, ws) = ws[i + k].limit  BY <2>3, LimitLast
  <2>5. LimitAfter(r, vs) = vs[i].limit  BY <1>4, LimitLast
  <2> QED  BY <2>1, <2>4, <2>5
<1>5. ASSUME \A i \in DOMAIN vs : vs[i].at \notin Limiting
      PROVE  LimitAfter(r, vs) = LimitAfter(r, ws)
  <2>1. LimitAfter(r, vs) = r.limit  BY <1>5, LimitNone
  <2>2. CASE \A i \in DOMAIN ws : ws[i].at \notin Limiting
    BY <2>1, <2>2, LimitNone
  <2>3. ASSUME NEW i \in DOMAIN ws, IsLast(ws, i, Limiting)
        PROVE  LimitAfter(r, ws) = r.limit
    <3>1. i \in 1..m /\ ws[i].at \in Limiting  BY <1>1, <2>3 DEF IsLast
    <3>2. i <= k  BY <1>1, <1>3, <1>5, <3>1
    <3>3. i \in 1..n /\ \A j \in 1..n : j \in DOMAIN ws  BY <1>1, <3>1, <3>2
    <3>4. ws[i].limit = r.limit  BY <2>3, <3>1, <3>3 DEF Settled, IsLast
    <3> QED  BY <2>3, <3>4, LimitLast
  <2> QED  BY <2>1, <2>2, <2>3, LimitEither
<1>6. Settled(vs, n - k, r.limit)
  <2> SUFFICES ASSUME NEW i \in 1..(n - k), vs[i].at \in Limiting,
                      \A j \in 1..(n - k) : vs[j].at \in Limiting => j <= i
               PROVE  vs[i].limit = r.limit
    BY DEF Settled
  <2>1. i \in 1..(m - k) /\ i + k \in 1..n /\ vs[i] = ws[i + k]  BY <1>1
  <2>2. ASSUME NEW j \in 1..n, ws[j].at \in Limiting  PROVE j <= i + k
    <3>1. CASE j <= k  BY <1>1, <2>1, <3>1
    <3>2. CASE ~ (j <= k)
      <4>1. j - k \in 1..(n - k) /\ vs[j - k] = ws[j]  BY <1>1, <1>3, <3>2
      <4>2. j - k <= i  BY <2>2, <4>1
      <4> QED  BY <1>1, <2>1, <4>2
    <3> QED  BY <3>1, <3>2
  <2> QED  BY <2>1, <2>2 DEF Settled
<1> QED  BY <1>4, <1>5, <1>6, LimitEither

\* The next write is served.
LEMMA SettledServed ==
    ASSUME NEW r, NEW t, NEW S, NEW ws \in Seq(S), NEW n \in Nat, n + 1 <= Len(ws),
           Settled(ws, n, r.limit),
           t.limit = IF ws[n + 1].at \in Limiting THEN ws[n + 1].limit ELSE r.limit
    PROVE  LimitAfter(t, ws) = LimitAfter(r, ws) /\ Settled(ws, n + 1, t.limit)
<1>1. Len(ws) \in Nat /\ DOMAIN ws = 1..Len(ws) /\ n + 1 \in DOMAIN ws  BY LenProperties
<1>2. CASE ws[n + 1].at \in Limiting
  <2>1. t.limit = ws[n + 1].limit  BY <1>2
  <2>2. ASSUME NEW i \in 1..(n + 1), \A j \in 1..(n + 1) : ws[j].at \in Limiting => j <= i
        PROVE  i = n + 1
    <3>1. n + 1 <= i  BY <1>1, <1>2, <2>2
    <3> QED  BY <3>1
  <2>3. Settled(ws, n + 1, t.limit)  BY <2>1, <2>2 DEF Settled
  <2>4. PICK i \in DOMAIN ws : IsLast(ws, i, Limiting)  BY <1>1, <1>2, LimitEither
  <2>5. LimitAfter(t, ws) = ws[i].limit /\ LimitAfter(r, ws) = ws[i].limit
    BY <2>4, LimitLast
  <2> QED  BY <2>3, <2>5
<1>3. CASE ws[n + 1].at \notin Limiting
  <2>1. t.limit = r.limit  BY <1>3
  <2>2. LimitAfter(t, ws) = LimitAfter(r, ws)  BY <2>1, LimitBase
  <2>3. \A i \in 1..(n + 1) : ws[i].at \in Limiting => i \in 1..n  BY <1>3
  <2>4. \A i \in 1..n : i \in 1..(n + 1)  OBVIOUS
  <2>5. Settled(ws, n + 1, t.limit)  BY <2>1, <2>3, <2>4 DEF Settled
  <2> QED  BY <2>2, <2>5
<1> QED  BY <1>2, <1>3

\* New writes are behind those served.
LEMMA SettledMore ==
    ASSUME NEW S, NEW ws \in Seq(S), NEW xs \in Seq(S), NEW n \in 0..Len(ws), NEW q,
           Settled(ws, n, q)
    PROVE  Settled(ws \o xs, n, q)
<1> PICK c : c = ws \o xs  OBVIOUS
<1>1. \A i \in 1..n : c[i] = ws[i]
  BY ConcatProperties, LenProperties
<1> QED  BY <1>1 DEF Settled

-----------------------------------------------------------------------------
(***************************************************************************)
(* What the server says of the record.                                     *)
(***************************************************************************)
\* A record on its way has the limit q that is stored now, or a write behind
\* it, served and not confirmed, names one.
Told(dn, ws, q) ==
    \A i \in DOMAIN dn : dn[i].type = "push" /\ dn[i].write.at = "record" =>
        \/ dn[i].write.limit = q
        \/ \E j \in DOMAIN ws : /\ Number(dn, {"ack"}, i) < j /\ j <= Count(dn, {"ack"})
                                /\ ws[j].at \in Limiting

LEMMA ToldNothing == \A ws, q : Told(<<>>, ws, q)
BY DEF Told

\* New writes change nothing of it.
LEMMA ToldMore ==
    ASSUME NEW dn, NEW S, NEW ws \in Seq(S), NEW xs \in Seq(S), NEW q, Told(dn, ws, q)
    PROVE  Told(dn, ws \o xs, q)
<1> PICK c : c = ws \o xs  OBVIOUS
<1>1. \A j \in DOMAIN ws : j \in DOMAIN c /\ c[j] = ws[j]
  BY ConcatProperties, LenProperties
<1> QED  BY <1>1 DEF Told

\* The first message arrives; a confirmation takes the first write away.
LEMMA ToldTail ==
    ASSUME NEW D, NEW dn \in Seq(D), dn # <<>>, NEW S, NEW ws \in Seq(S), NEW q, Told(dn, ws, q),
           NEW vs \in Seq(S), NEW k \in Nat, k = (IF Head(dn).type = "ack" THEN 1 ELSE 0),
           Len(vs) = Len(ws) - k, \A i \in 1..Len(vs) : vs[i] = ws[i + k]
    PROVE  Told(Tail(dn), vs, q)
<1> PICK A : A = {"ack"}  OBVIOUS
<1> PICK tl : tl = Tail(dn)  OBVIOUS
<1>1. /\ Len(dn) \in Nat /\ DOMAIN dn = 1..Len(dn) /\ tl \in Seq(D) /\ Len(tl) = Len(dn) - 1
      /\ DOMAIN tl = 1..(Len(dn) - 1) /\ \A i \in 1..(Len(dn) - 1) : tl[i] = dn[i + 1]
  BY HeadTailProperties, LenProperties, EmptySeq
<1>2. DOMAIN ws = 1..Len(ws) /\ Len(ws) \in Nat /\ DOMAIN vs = 1..Len(vs) /\ Len(vs) \in Nat
  BY LenProperties
<1>3. (IF Head(dn).type \in A THEN 1 ELSE 0) = k  OBVIOUS
<1>4. Count(dn, A) = k + Count(tl, A) /\ Count(tl, A) \in Nat
  BY <1>1, <1>3, CountTail, CountType
<1>5. ASSUME NEW i \in DOMAIN tl, tl[i].type = "push", tl[i].write.at = "record",
             tl[i].write.limit # q
      PROVE  \E j \in DOMAIN vs : Number(tl, A, i) < j /\ j <= Count(tl, A) /\ vs[j].at \in Limiting
  <2>1. i \in Nat /\ i + 1 \in DOMAIN dn /\ tl[i] = dn[i + 1] /\ i + 1 <= Len(dn)  BY <1>1
  <2>2. Number(dn, A, i + 1) = k + Number(tl, A, i) /\ Number(tl, A, i) \in Nat
    <3>1. Number(dn, A, i + 1) = (IF Head(dn).type \in A THEN 1 ELSE 0) + Number(Tail(dn), A, i)
      BY <2>1, NumberTail
    <3> QED  BY <1>3, <2>1, <3>1, NumberType
  <2>3. PICK j \in DOMAIN ws : /\ Number(dn, A, i + 1) < j /\ j <= Count(dn, A)
                               /\ ws[j].at \in Limiting
    BY <1>5, <2>1 DEF Told
  <2> PICK h : h = j - k  OBVIOUS
  <2> PICK a, b, y, z : /\ a = Number(tl, A, i) /\ b = Count(tl, A)
                        /\ y = Number(dn, A, i + 1) /\ z = Count(dn, A)
    OBVIOUS
  <2>7. a \in Nat /\ b \in Nat /\ y = k + a /\ z = k + b /\ y < j /\ j <= z /\ j \in 1..Len(ws)
    BY <1>2, <1>4, <2>2, <2>3
  <2>4. h \in 1..Len(vs) /\ h + k = j /\ a < h /\ h <= b
    BY ONLY <1>2, <2>7, h = j - k, k \in Nat, Len(vs) = Len(ws) - k
  <2>5. vs[h] = ws[j]  BY <2>4
  <2>6. Number(tl, A, i) < h /\ h <= Count(tl, A)  BY <2>4
  <2> QED  BY <1>2, <2>3, <2>4, <2>5, <2>6
<1> QED  BY <1>5 DEF Told

\* The whole record is told as it is stored.
LEMMA ToldRecord ==
    ASSUME NEW D, NEW dn \in Seq(D), NEW m \in D, NEW l \in D, NEW ws, NEW q, Told(dn, ws, q),
           m.type = "push", m.write.limit = q, l.type = "listening"
    PROVE  Told(dn \o <<m, l>>, ws, q)
<1> PICK A : A = {"ack"}  OBVIOUS
<1> PICK es : es = <<m, l>>  OBVIOUS
<1> PICK c : c = dn \o es  OBVIOUS
<1>1. es \in Seq(D) /\ Len(es) = 2 /\ es[1] = m /\ es[2] = l  OBVIOUS
<1>2. /\ Len(dn) \in Nat /\ DOMAIN dn = 1..Len(dn) /\ c \in Seq(D) /\ DOMAIN c = 1..(Len(dn) + 2)
      /\ \A i \in 1 .. Len(dn) + 2 : c[i] = IF i <= Len(dn) THEN dn[i] ELSE es[i - Len(dn)]
  BY <1>1, ConcatProperties, LenProperties
<1>3. Count(es, A) = 0
  <2>1. Count(<<m, l>>, A) = (IF m.type \in A THEN 1 ELSE 0) + (IF l.type \in A THEN 1 ELSE 0)
    BY ONLY CountFew, Zenon
  <2>2. (IF m.type \in A THEN 1 ELSE 0) = 0 /\ (IF l.type \in A THEN 1 ELSE 0) = 0  OBVIOUS
  <2> QED  BY <2>1, <2>2
<1>4. Count(c, A) = Count(dn, A)
  <2>1. Count(c, A) = Count(dn, A) + Count(es, A)
    <3>1. es \in Seq(D)  BY <1>1
    <3> QED  BY ONLY <3>1, dn \in Seq(D), c = dn \o es, CountConcat
  <2>2. Count(dn, A) \in Nat  BY CountType
  <2> QED  BY <1>3, <2>1, <2>2
<1>5. \A i \in DOMAIN dn : c[i] = dn[i] /\ Number(c, A, i) = Number(dn, A, i)
  <2> SUFFICES ASSUME NEW i \in DOMAIN dn PROVE c[i] = dn[i] /\ Number(c, A, i) = Number(dn, A, i)
    OBVIOUS
  <2>1. i \in 0..Len(dn) /\ i \in 1 .. Len(dn) + 2 /\ i <= Len(dn)  BY <1>2
  <2>2. Number(c, A, i) = Number(dn, A, i)  BY <1>1, <2>1, NumberFront
  <2> QED  BY <1>2, <2>1, <2>2
<1>6. ASSUME NEW i \in DOMAIN c, i \notin DOMAIN dn  PROVE c[i] = m \/ c[i] = l
  <2>1. i - Len(dn) \in {1, 2} /\ ~ (i <= Len(dn))  BY <1>2, <1>6
  <2> QED  BY <1>1, <1>2, <2>1
<1>7. ASSUME NEW i \in DOMAIN c, c[i].type = "push", c[i].write.at = "record", c[i].write.limit # q
      PROVE  \E j \in DOMAIN ws : Number(c, A, i) < j /\ j <= Count(c, A) /\ ws[j].at \in Limiting
  <2>1. i \in DOMAIN dn  BY <1>6, <1>7
  <2> QED  BY <1>4, <1>5, <1>7, <2>1 DEF Told
<1> QED  BY <1>7 DEF Told

\* A write is served: it is told where the record is listened to, and confirmed.
LEMMA ToldPut ==
    ASSUME NEW D, NEW dn \in Seq(D), NEW S, NEW ws \in Seq(S), NEW q, Told(dn, ws, q),
           NEW w, Count(dn, {"ack"}) + 1 \in DOMAIN ws, w = ws[Count(dn, {"ack"}) + 1],
           NEW m \in D, m.type = "push", m.write = w, NEW ps \in {<<>>, <<m>>},
           NEW a \in D, a.type = "ack",
           NEW p, p = IF w.at \in Limiting THEN w.limit ELSE q
    PROVE  Told((dn \o ps) \o <<a>>, ws, p)
<1> PICK A : A = {"ack"}  OBVIOUS
<1> PICK n : n = Count(dn, A)  OBVIOUS
<1> PICK e : e = dn \o ps  OBVIOUS
<1> PICK f : f = <<a>>  OBVIOUS
<1> PICK c : c = e \o f  OBVIOUS
<1>0. ps \in Seq(D) /\ Len(ps) \in {0, 1} /\ \A i \in 1..Len(ps) : ps[i] = m
  <2>1. CASE ps = <<>>  BY <2>1
  <2>2. CASE ps = <<m>>  BY <2>2
  <2> QED  BY <2>1, <2>2
<1>1. /\ n \in Nat /\ Len(dn) \in Nat /\ DOMAIN dn = 1..Len(dn)
      /\ e \in Seq(D) /\ Len(e) = Len(dn) + Len(ps) /\ DOMAIN e = 1..Len(e) /\ Len(e) \in Nat
      /\ \A i \in 1 .. Len(dn) + Len(ps) : e[i] = IF i <= Len(dn) THEN dn[i] ELSE ps[i - Len(dn)]
  BY <1>0, CountType, ConcatProperties, LenProperties
<1>2. c \in Seq(D) /\ DOMAIN c = 1..(Len(e) + 1) /\ c[Len(e) + 1] = a /\ \A i \in 1..Len(e) : c[i] = e[i]
  BY <1>1
<1>3. Count(e, A) = n
  <2>1. Count(ps, A) = 0
    <3>1. Count(<<>>, A) = 0 /\ Count(<<m>>, A) = IF m.type \in A THEN 1 ELSE 0
      BY CountFew
    <3>2. m.type \notin A  OBVIOUS
    <3>3. Count(<<m>>, A) = 0  BY <3>1, <3>2
    <3>4. ps = <<>> \/ ps = <<m>>  OBVIOUS
    <3> QED  BY ONLY <3>1, <3>3, <3>4
  <2>2. Count(e, A) = Count(dn, A) + Count(ps, A)  BY <1>0, CountConcat
  <2> QED  BY <1>1, <2>1, <2>2
<1>4. Count(c, A) = n + 1
  <2>1. f \in Seq(D) /\ Count(f, A) = 1
    <3>1. Count(<<a>>, A) = IF a.type \in A THEN 1 ELSE 0  BY CountFew
    <3> QED  BY <3>1
  <2>2. Count(c, A) = Count(e, A) + Count(f, A)
    <3>1. e \in Seq(D)  BY <1>1
    <3> QED  BY ONLY <2>1, <3>1, c = e \o f, CountConcat
  <2> QED  BY <1>3, <2>1, <2>2
<1>5. ASSUME NEW i \in 1..Len(e)
      PROVE  Number(c, A, i) = Number(e, A, i) /\ Number(c, A, i) \in Nat /\ Number(c, A, i) <= n
  <2>1. i \in 0..Len(e) /\ i \in Nat /\ f \in Seq(D)  BY <1>1
  <2>2. Number(c, A, i) = Number(e, A, i)
    <3>1. e \in Seq(D)  BY <1>1
    <3> QED  BY ONLY <2>1, <3>1, c = e \o f, NumberFront
  <2>3. Number(e, A, i) <= Number(e, A, Len(e)) /\ Number(e, A, i) \in Nat
    BY <1>1, <2>1, NumberGrows, NumberType
  <2> QED  BY <1>3, <2>2, <2>3 DEF Count
<1>6. ASSUME NEW i \in DOMAIN c, c[i].type = "push"  PROVE i \in 1..Len(e) /\ c[i] = e[i]
  <2>1. i # Len(e) + 1 /\ i \in 1..(Len(e) + 1)  BY <1>2, <1>6
  <2>2. i \in 1..Len(e)
    <3>1. Len(e) \in Nat  BY <1>1
    <3> QED  BY ONLY <2>1, <3>1
  <2> QED  BY <1>2, <2>2
<1>7. CASE w.at \in Limiting
  <2>1. ASSUME NEW i \in DOMAIN c, c[i].type = "push"
        PROVE  \E j \in DOMAIN ws : Number(c, A, i) < j /\ j <= Count(c, A) /\ ws[j].at \in Limiting
    <3>1. Number(c, A, i) < n + 1
      <4>1. Number(c, A, i) \in Nat /\ Number(c, A, i) <= n  BY <1>5, <1>6, <2>1
      <4> QED  BY <1>1, <4>1
    <3>2. n + 1 \in DOMAIN ws /\ ws[n + 1].at \in Limiting /\ n + 1 <= Count(c, A)
      BY <1>1, <1>4, <1>7
    <3> QED  BY <3>1, <3>2
  <2> QED  BY <2>1 DEF Told
<1>8. CASE w.at \notin Limiting
  <2>1. p = q  BY <1>8
  <2>2. ASSUME NEW i \in DOMAIN c, c[i].type = "push", c[i].write.at = "record", c[i].write.limit # q
        PROVE  \E j \in DOMAIN ws : Number(c, A, i) < j /\ j <= Count(c, A) /\ ws[j].at \in Limiting
    <3>1. i \in 1..Len(e) /\ c[i] = e[i]  BY <1>6, <2>2
    <3>2. i <= Len(dn)
      <4> SUFFICES ASSUME ~ (i <= Len(dn)) PROVE FALSE  OBVIOUS
      <4>1. i - Len(dn) \in 1..Len(ps) /\ e[i] = ps[i - Len(dn)]  BY <1>0, <1>1, <3>1
      <4>2. c[i] = m  BY <1>0, <3>1, <4>1
      <4> QED  BY <1>8, <2>2, <4>2 DEF Limiting
    <3>3. i \in DOMAIN dn /\ i \in 0..Len(dn) /\ c[i] = dn[i]  BY <1>0, <1>1, <3>1, <3>2
    <3>4. Number(c, A, i) = Number(dn, A, i)
      <4>1. Number(e, A, i) = Number(dn, A, i)  BY <1>0, <3>3, NumberFront
      <4> QED  BY <1>5, <3>1, <4>1
    <3>5. PICK j \in DOMAIN ws : Number(dn, A, i) < j /\ j <= n /\ ws[j].at \in Limiting
      BY <2>2, <3>3 DEF Told
    <3>6. j \in Nat  BY LenProperties
    <3>7. j <= Count(c, A)  BY <1>1, <1>4, <3>5, <3>6
    <3> QED  BY <3>4, <3>5, <3>7
  <2> QED  BY <2>1, <2>2 DEF Told
<1> QED  BY <1>7, <1>8

\* A write that names a limit hides the record under it.
LEMMA LimitFree ==
    ASSUME NEW r, NEW t, NEW S, NEW ws \in Seq(S), NEW j \in DOMAIN ws, ws[j].at \in Limiting
    PROVE  LimitAfter(r, ws) = LimitAfter(t, ws)
<1>1. PICK i \in DOMAIN ws : IsLast(ws, i, Limiting)  BY LimitEither
<1>2. LimitAfter(r, ws) = ws[i].limit /\ LimitAfter(t, ws) = ws[i].limit  BY <1>1, LimitLast
<1> QED  BY <1>2

-----------------------------------------------------------------------------
(***************************************************************************)
(* The invariant: a confirmed write is held back only while a listen is    *)
(* not answered, what was served is what the record says, and so is the    *)
(* whole record that the server sends, but for the writes behind it.       *)
(***************************************************************************)
InStep(r, dn, ak, ws, l, un) ==
    /\ ~l \/ un = 0 => ak = <<>>
    /\ Settled(ak \o ws, Len(ak) + Count(dn, {"ack"}), r.limit)
    /\ Told(dn, ws, r.limit)

\* At most one read is under way, and the event it waits for has the limit q.
OneRead(mn, wt, ld, q) ==
    \/ mn = <<>> /\ wt = <<>> /\ ~ld
    \/ mn = <<>> /\ \E op \in Ops : wt = <<op>>
    \/ wt = <<>> /\ \E b \in BlockOf(Quota) : mn = <<b>> /\ b.snap.limit = q

Steady == InStep(record, down[Device], acked[Device], writes[Device],
                 linked[Device], unanswered[Device])
Single == OneRead(main[Device], waiting[Device], loaded[Device], Seen.limit)

AloneInv == TypeOK /\ Blind /\ Sent /\ Steady /\ Single

\* The confirmations on their way are for writes of ws, and w is the next behind them.
Confirms(dn, ws) == Count(dn, {"ack"}) <= Len(ws)
NextOf(dn, ws, w) == Count(dn, {"ack"}) + 1 <= Len(ws) /\ w = ws[Count(dn, {"ack"}) + 1]

\* Writes set.
LEMMA StepSaid ==
    ASSUME NEW r, NEW D, NEW dn \in Seq(D), NEW S, NEW ak \in Seq(S), NEW ws \in Seq(S),
           NEW xs \in Seq(S), NEW l, NEW un, InStep(r, dn, ak, ws, l, un), Confirms(dn, ws)
    PROVE  InStep(r, dn, ak, ws \o xs, l, un)
<1>1. ak \o (ws \o xs) = (ak \o ws) \o xs
  BY ONLY ak \in Seq(S), ws \in Seq(S), xs \in Seq(S), ConcatAssociative
<1> PICK n, ps : n = Len(ak) + Count(dn, {"ack"}) /\ ps = ak \o ws  OBVIOUS
<1>2. ps \in Seq(S) /\ Len(ps) = Len(ak) + Len(ws) /\ Len(ak) \in Nat /\ Len(ws) \in Nat
  BY ConcatProperties, LenProperties
<1>3. n \in 0..Len(ps)
  <2>1. Count(dn, {"ack"}) \in Nat  BY CountType
  <2> QED  BY <1>2, <2>1 DEF Confirms
<1>4. Settled(ps \o xs, n, r.limit)  BY <1>2, <1>3, SettledMore DEF InStep
<1>5. Told(dn, ws \o xs, r.limit)  BY ToldMore DEF InStep
<1> QED  BY <1>1, <1>4, <1>5 DEF InStep

\* A listen sent.
LEMMA StepAsked ==
    ASSUME NEW r, NEW dn, NEW ak, NEW ws, NEW l, NEW un \in Nat, InStep(r, dn, ak, ws, l, un)
    PROVE  InStep(r, dn, ak, ws, l, un + 1)
BY DEF InStep

\* The write served next, among the writes on their way.
LEMMA NextAmong ==
    ASSUME NEW S, NEW ak \in Seq(S), NEW ws \in Seq(S), NEW k \in Nat, k + 1 <= Len(ws)
    PROVE  /\ Len(ak) + k \in Nat /\ Len(ak) + k + 1 <= Len(ak \o ws)
           /\ ak \o ws \in Seq(S) /\ (ak \o ws)[Len(ak) + k + 1] = ws[k + 1]
<1>1. /\ Len(ak) \in Nat /\ Len(ws) \in Nat /\ ak \o ws \in Seq(S)
      /\ Len(ak \o ws) = Len(ak) + Len(ws)
      /\ \A i \in 1 .. Len(ak) + Len(ws) :
            (ak \o ws)[i] = IF i <= Len(ak) THEN ak[i] ELSE ws[i - Len(ak)]
  BY ConcatProperties, LenProperties
<1> PICK n : n = Len(ak) + k + 1  OBVIOUS
<1>2. n \in 1 .. Len(ak) + Len(ws) /\ ~ (n <= Len(ak)) /\ n - Len(ak) = k + 1
  BY <1>1
<1>3. (ak \o ws)[n] = ws[k + 1]  BY ONLY <1>1, <1>2
<1> QED  BY <1>1, <1>3

\* The next write served.
LEMMA StepServed ==
    ASSUME NEW r, NEW D, NEW dn \in Seq(D), NEW S, NEW ak \in Seq(S), NEW ws \in Seq(S),
           NEW l, NEW un, InStep(r, dn, ak, ws, l, un), NEW w \in S, NextOf(dn, ws, w),
           NEW m \in D, m.type = "push", m.write = w, NEW ps \in {<<>>, <<m>>},
           NEW a \in D, a.type = "ack"
    PROVE  InStep(Apply(r, w), (dn \o ps) \o <<a>>, ak, ws, l, un)
<1> PICK A, c, n, t, k : /\ A = {"ack"} /\ c = ak \o ws /\ n = Len(ak) + Count(dn, {"ack"})
                         /\ t = Apply(r, w) /\ k = Count(dn, {"ack"})
  OBVIOUS
<1>1. /\ Len(ak) \in Nat /\ Len(ws) \in Nat /\ k \in Nat /\ c \in Seq(S)
      /\ Len(c) = Len(ak) + Len(ws) /\ DOMAIN ws = 1..Len(ws)
      /\ \A i \in 1 .. Len(ak) + Len(ws) : c[i] = IF i <= Len(ak) THEN ak[i] ELSE ws[i - Len(ak)]
  BY ConcatProperties, LenProperties, CountType
<1>2. n \in Nat /\ n + 1 <= Len(c) /\ n = Len(ak) + k /\ k + 1 \in DOMAIN ws /\ w = ws[k + 1]
  BY <1>1 DEF NextOf
<1>3. c[n + 1] = w
  <2>1. n + 1 \in 1 .. Len(ak) + Len(ws) /\ ~ (n + 1 <= Len(ak)) /\ (n + 1) - Len(ak) = k + 1
    BY <1>1, <1>2
  <2> QED  BY <1>1, <1>2, <2>1
<1>4. t.limit = IF w.at \in Limiting THEN w.limit ELSE r.limit  BY LimitApplied
<1>5. Settled(c, n + 1, t.limit)
  <2>1. Settled(c, n, r.limit)  BY DEF InStep
  <2>2. t.limit = IF c[n + 1].at \in Limiting THEN c[n + 1].limit ELSE r.limit
    BY ONLY <1>3, <1>4
  <2>3. c \in Seq(S)  BY <1>1
  <2> QED  BY ONLY <1>2, <2>1, <2>2, <2>3, SettledServed
<1>6. Told((dn \o ps) \o <<a>>, ws, t.limit)
  <2>1. Told(dn, ws, r.limit)  BY DEF InStep
  <2>2. Count(dn, {"ack"}) + 1 \in DOMAIN ws /\ w = ws[Count(dn, {"ack"}) + 1]  BY <1>2
  <2> QED  BY <1>4, <2>1, <2>2, ToldPut
<1>7. Count((dn \o ps) \o <<a>>, A) = k + 1
  <2> PICK e, f : e = dn \o ps /\ f = <<a>>  OBVIOUS
  <2>1. ps \in Seq(D) /\ f \in Seq(D) /\ e \in Seq(D)
    <3>1. <<>> \in Seq(D) /\ <<m>> \in Seq(D) /\ <<a>> \in Seq(D)  OBVIOUS
    <3>2. ps = <<>> \/ ps = <<m>>  OBVIOUS
    <3>3. ps \in Seq(D)  BY <3>1, <3>2
    <3> QED  BY <3>1, <3>3, ConcatProperties
  <2>2. Count(ps, A) = 0 /\ Count(f, A) = 1
    <3>1. /\ Count(<<>>, A) = 0
          /\ Count(<<m>>, A) = (IF m.type \in A THEN 1 ELSE 0)
          /\ Count(<<a>>, A) = (IF a.type \in A THEN 1 ELSE 0)
      BY CountFew
    <3>2. m.type \notin A /\ a.type \in A  OBVIOUS
    <3>3. Count(<<m>>, A) = 0 /\ Count(<<a>>, A) = 1  BY ONLY <3>1, <3>2
    <3>4. ps = <<>> \/ ps = <<m>>  OBVIOUS
    <3> QED  BY ONLY <3>1, <3>3, <3>4, f = <<a>>
  <2>3. Count(e, A) = Count(dn, A) + Count(ps, A)
    BY ONLY <2>1, dn \in Seq(D), e = dn \o ps, CountConcat
  <2>4. Count(e \o f, A) = Count(e, A) + Count(f, A)
    BY ONLY <2>1, CountConcat
  <2> QED  BY <1>1, <2>2, <2>3, <2>4
<1>8. Len(ak) + Count((dn \o ps) \o <<a>>, {"ack"}) = n + 1  BY <1>1, <1>2, <1>7
<1>9. ~l \/ un = 0 => ak = <<>>  BY DEF InStep
<1> QED  BY <1>5, <1>6, <1>8, <1>9 DEF InStep

\* The record sent.
LEMMA StepTold ==
    ASSUME NEW r, NEW D, NEW dn \in Seq(D), NEW S, NEW ak \in Seq(S), NEW ws \in Seq(S),
           NEW l, NEW un, InStep(r, dn, ak, ws, l, un),
           NEW m \in D, m.type = "push", m.write.limit = r.limit, NEW b \in D, b.type = "listening"
    PROVE  InStep(r, dn \o <<m, b>>, ak, ws, l, un)
<1> PICK A, es : A = {"ack"} /\ es = <<m, b>>  OBVIOUS
<1>1. Told(dn \o <<m, b>>, ws, r.limit)
  <2>1. Told(dn, ws, r.limit)  BY DEF InStep
  <2> QED  BY <2>1, ToldRecord
<1>2. Count(dn \o es, A) = Count(dn, A)
  <2>1. es \in Seq(D)  OBVIOUS
  <2>2. Count(<<m, b>>, A) = (IF m.type \in A THEN 1 ELSE 0) + (IF b.type \in A THEN 1 ELSE 0)
    BY ONLY CountFew, Zenon
  <2>3. m.type \notin A /\ b.type \notin A  OBVIOUS
  <2>4. Count(es, A) = 0  BY ONLY <2>2, <2>3, es = <<m, b>>
  <2>5. Count(dn \o es, A) = Count(dn, A) + Count(es, A)
    BY ONLY <2>1, dn \in Seq(D), CountConcat
  <2>6. Count(dn, A) \in Nat  BY CountType
  <2> QED  BY <2>4, <2>5, <2>6
<1> QED  BY <1>1, <1>2 DEF InStep

\* A message of the server arrived that confirms nothing.
LEMMA StepTaken ==
    ASSUME NEW r, NEW D, NEW dn \in Seq(D), dn # <<>>, NEW S, NEW ak \in Seq(S), NEW ws \in Seq(S),
           NEW l, NEW un, InStep(r, dn, ak, ws, l, un), Head(dn).type # "ack"
    PROVE  InStep(r, Tail(dn), ak, ws, l, un)
<1> PICK A : A = {"ack"}  OBVIOUS
<1>1. Count(Tail(dn), A) = Count(dn, A)
  <2>1. Count(dn, A) = (IF Head(dn).type \in A THEN 1 ELSE 0) + Count(Tail(dn), A)  BY CountTail
  <2>2. Tail(dn) \in Seq(D)  BY HeadTailProperties
  <2>3. Count(Tail(dn), A) \in Nat  BY <2>2, CountType
  <2>4. Head(dn).type \notin A  OBVIOUS
  <2> QED  BY <2>1, <2>3, <2>4
<1>2. Told(Tail(dn), ws, r.limit)
  <2>1. Told(dn, ws, r.limit)  BY DEF InStep
  <2> PICK k : k = 0  OBVIOUS
  <2>2. /\ k \in Nat /\ k = (IF Head(dn).type = "ack" THEN 1 ELSE 0)
        /\ Len(ws) = Len(ws) - k /\ \A i \in 1..Len(ws) : ws[i] = ws[i + k]
    BY LenProperties
  <2> QED  BY <2>1, <2>2, ToldTail
<1> QED  BY <1>1, <1>2 DEF InStep

\* Confirmed and not held back: the oldest write is no longer laid over.
LEMMA StepFreed ==
    ASSUME NEW r, NEW D, NEW dn \in Seq(D), dn # <<>>, NEW S, NEW ws \in Seq(S), ws # <<>>,
           NEW l, NEW un, InStep(r, dn, <<>>, ws, l, un),
           Head(dn).type = "ack", Confirms(dn, ws)
    PROVE  /\ InStep(r, Tail(dn), <<>>, Tail(ws), l, un)
           /\ LimitAfter(r, <<>> \o Tail(ws)) = LimitAfter(r, <<>> \o ws)
<1> PICK A, n, vs, e, tl : /\ A = {"ack"} /\ n = Count(dn, {"ack"}) /\ vs = Tail(ws) /\ e = <<>>
                           /\ tl = Tail(dn)
  OBVIOUS
<1>1. vs \in Seq(S) /\ Len(vs) = Len(ws) - 1 /\ \A i \in 1..Len(vs) : vs[i] = ws[i + 1]
  BY HeadTailProperties, LenProperties
<1>2. e \o ws = ws /\ e \o vs = vs /\ Len(e) = 0  BY <1>1, ConcatEmptySeq
<1>3. n = 1 + Count(tl, A) /\ Count(tl, A) \in Nat
  <2>1. Count(dn, A) = (IF Head(dn).type \in A THEN 1 ELSE 0) + Count(tl, A)  BY CountTail
  <2>2. tl \in Seq(D)  BY HeadTailProperties
  <2>3. Count(tl, A) \in Nat  BY <2>2, CountType
  <2>4. Head(dn).type \in A  OBVIOUS
  <2> QED  BY <2>1, <2>3, <2>4
<1>4. n \in 0..Len(ws) /\ 1 \in 0..n /\ n - 1 = Count(tl, A)
  <2>1. Len(ws) \in Nat /\ n <= Len(ws)  BY LenProperties DEF Confirms
  <2> QED  BY ONLY <1>3, <2>1
<1>5. Settled(ws, n, r.limit)
  <2>1. Settled(e \o ws, Len(e) + Count(dn, {"ack"}), r.limit)  BY DEF InStep
  <2>2. Len(e) + Count(dn, {"ack"}) = n  BY <1>2, <1>3
  <2> QED  BY <1>2, <2>1, <2>2
<1>6. LimitAfter(r, vs) = LimitAfter(r, ws) /\ Settled(vs, n - 1, r.limit)
  BY <1>1, <1>4, <1>5, SettledDropped
<1>7. Told(tl, vs, r.limit)
  <2>1. Told(dn, ws, r.limit)  BY DEF InStep
  <2> PICK k : k = 1  OBVIOUS
  <2>2. k \in Nat /\ k = (IF Head(dn).type = "ack" THEN 1 ELSE 0)  OBVIOUS
  <2>3. Len(vs) = Len(ws) - k /\ \A i \in 1..Len(vs) : vs[i] = ws[i + k]  BY <1>1
  <2> QED  BY <1>1, <2>1, <2>2, <2>3, ToldTail
<1>8. Len(e) + Count(tl, {"ack"}) = n - 1  BY <1>2, <1>3, <1>4
<1>9. Settled(e \o vs, Len(e) + Count(tl, {"ack"}), r.limit)  BY <1>2, <1>6, <1>8
<1> QED  BY <1>2, <1>6, <1>7, <1>9 DEF InStep

\* Confirmed and held back: it moves behind those held back before.
LEMMA StepHeld ==
    ASSUME NEW r, NEW D, NEW dn \in Seq(D), dn # <<>>, NEW S, NEW ak \in Seq(S),
           NEW ws \in Seq(S), ws # <<>>, NEW un, un # 0, InStep(r, dn, ak, ws, TRUE, un),
           Head(dn).type = "ack"
    PROVE  /\ InStep(r, Tail(dn), Append(ak, Head(ws)), Tail(ws), TRUE, un)
           /\ Append(ak, Head(ws)) \o Tail(ws) = ak \o ws
<1> PICK A, vs, h, tl, bk : /\ A = {"ack"} /\ vs = Tail(ws) /\ h = Head(ws)
                            /\ tl = Tail(dn) /\ bk = Append(ak, Head(ws))
  OBVIOUS
<1>1. /\ vs \in Seq(S) /\ Len(vs) = Len(ws) - 1 /\ \A i \in 1..Len(vs) : vs[i] = ws[i + 1]
      /\ h \in S
  BY HeadTailProperties, LenProperties
<1>2. bk \in Seq(S) /\ Len(bk) = Len(ak) + 1 /\ Len(ak) \in Nat  BY <1>1, AppendProperties, LenProperties
<1>3. bk \o vs = ak \o ws
  <2> PICK f : f = <<h>>  OBVIOUS
  <2>1. bk = ak \o f
    <3>1. Append(ak, h) = ak \o <<h>>  BY <1>1, AppendIsConcat
    <3> QED  BY ONLY <3>1, bk = Append(ak, Head(ws)), h = Head(ws), f = <<h>>
  <2>2. f \o vs = ws
    <3>1. <<h>> \o Tail(ws) = ws  OBVIOUS
    <3> QED  BY ONLY <3>1, f = <<h>>, vs = Tail(ws)
  <2>3. f \in Seq(S)  BY <1>1
  <2>4. (ak \o f) \o vs = ak \o (f \o vs)
    <3>1. vs \in Seq(S)  BY ONLY <1>1
    <3> QED  BY ONLY <2>3, <3>1, ak \in Seq(S), ConcatAssociative
  <2> QED  BY ONLY <2>1, <2>2, <2>4
<1>4. Count(dn, A) = 1 + Count(tl, A) /\ Count(tl, A) \in Nat
  <2>1. Count(dn, A) = (IF Head(dn).type \in A THEN 1 ELSE 0) + Count(tl, A)  BY CountTail
  <2>2. tl \in Seq(D)  BY HeadTailProperties
  <2>3. Count(tl, A) \in Nat  BY <2>2, CountType
  <2>4. Head(dn).type \in A  OBVIOUS
  <2> QED  BY <2>1, <2>3, <2>4
<1>5. Len(bk) + Count(tl, A) = Len(ak) + Count(dn, A)
  BY ONLY <1>2, <1>4
<1>6. Told(tl, vs, r.limit)
  <2>1. Told(dn, ws, r.limit)  BY DEF InStep
  <2> PICK k : k = 1  OBVIOUS
  <2>2. k \in Nat /\ k = (IF Head(dn).type = "ack" THEN 1 ELSE 0)  OBVIOUS
  <2>3. Len(vs) = Len(ws) - k /\ \A i \in 1..Len(vs) : vs[i] = ws[i + k]  BY <1>1
  <2> QED  BY <1>1, <2>1, <2>2, <2>3, ToldTail
<1>7. Settled(bk \o vs, Len(bk) + Count(tl, A), r.limit)
  <2>1. Settled(ak \o ws, Len(ak) + Count(dn, A), r.limit)  BY DEF InStep
  <2> QED  BY <1>3, <1>5, <2>1
<1> QED  BY <1>3, <1>6, <1>7 DEF InStep

\* The last listen answered: what was held back is no longer laid over.
LEMMA StepAnswered ==
    ASSUME NEW r, NEW D, NEW dn \in Seq(D), dn # <<>>, NEW S, NEW ak \in Seq(S), NEW ws \in Seq(S),
           NEW l, NEW un, NEW k, InStep(r, dn, ak, ws, l, un), Head(dn).type = "listening",
           Confirms(dn, ws)
    PROVE  /\ InStep(r, Tail(dn), <<>>, ws, l, k)
           /\ LimitAfter(r, <<>> \o ws) = LimitAfter(r, ak \o ws)
<1> PICK c, e, a, n : c = ak \o ws /\ e = <<>> /\ a = Len(ak) /\ n = Len(ak) + Count(dn, {"ack"})
  OBVIOUS
<1>1. /\ a \in Nat /\ Len(ws) \in Nat /\ c \in Seq(S) /\ Len(c) = a + Len(ws)
      /\ \A i \in 1 .. a + Len(ws) : c[i] = IF i <= a THEN ak[i] ELSE ws[i - a]
  BY ConcatProperties, LenProperties
<1>2. Count(dn, {"ack"}) \in Nat  BY CountType
<1>3. n \in 0..Len(c) /\ a \in 0..n /\ Len(ws) = Len(c) - a /\ n - a = Count(dn, {"ack"})
  BY <1>1, <1>2 DEF Confirms
<1>4. \A i \in 1..Len(ws) : ws[i] = c[i + a]
  <2> SUFFICES ASSUME NEW i \in 1..Len(ws) PROVE ws[i] = c[i + a]  OBVIOUS
  <2> PICK x : x = i + a  OBVIOUS
  <2>1. x \in 1 .. a + Len(ws) /\ ~ (x <= a) /\ x - a = i  BY <1>1
  <2> QED  BY <1>1, <2>1
<1>5. Settled(c, n, r.limit)  BY DEF InStep
<1>6. LimitAfter(r, ws) = LimitAfter(r, c) /\ Settled(ws, n - a, r.limit)
  BY <1>1, <1>3, <1>4, <1>5, SettledDropped
<1>7. InStep(r, Tail(dn), ak, ws, l, un)  BY StepTaken
<1>8. Count(Tail(dn), {"ack"}) = Count(dn, {"ack"})
  <2> PICK A : A = {"ack"}  OBVIOUS
  <2>1. Count(dn, A) = (IF Head(dn).type \in A THEN 1 ELSE 0) + Count(Tail(dn), A)  BY CountTail
  <2>2. Tail(dn) \in Seq(D)  BY HeadTailProperties
  <2>3. Count(Tail(dn), A) \in Nat  BY <2>2, CountType
  <2>4. Head(dn).type \notin A  OBVIOUS
  <2> QED  BY <2>1, <2>3, <2>4
<1>9. e \o ws = ws /\ Len(e) = 0  BY ConcatEmptySeq
<1>10. Len(e) + Count(Tail(dn), {"ack"}) = n - a  BY <1>2, <1>3, <1>8, <1>9
<1>11. Settled(e \o ws, Len(e) + Count(Tail(dn), {"ack"}), r.limit)  BY <1>6, <1>9, <1>10
<1> QED  BY <1>6, <1>7, <1>9, <1>11 DEF InStep

\* Nothing on the connection and nothing held back.
LEMMA StepBroken ==
    ASSUME NEW r, NEW S, NEW ws \in Seq(S), NEW l, NEW un
    PROVE  InStep(r, <<>>, <<>>, ws, l, un)
<1>1. Count(<<>>, {"ack"}) = 0  BY CountFew
<1>2. Len(<<>>) + Count(<<>>, {"ack"}) = 0  BY <1>1
<1>3. Settled(<<>> \o ws, 0, r.limit)  BY DEF Settled
<1> QED  BY <1>2, <1>3, ToldNothing DEF InStep

-----------------------------------------------------------------------------
(***************************************************************************)
(* The steps of the device.                                                *)
(***************************************************************************)
\* The types the lemmas above ask for.
LEMMA AloneTypes ==
    ASSUME AloneInv, Device \in Devices
    PROVE  /\ down[Device] \in Seq(DownMessageOf(Quota)) /\ up[Device] \in Seq(UpMessageOf(Quota))
           /\ acked[Device] \in Seq(LimitedWrites) /\ writes[Device] \in Seq(LimitedWrites)
           /\ main[Device] \in Seq(BlockOf(Quota)) /\ waiting[Device] \in Seq(Ops)
           /\ linked[Device] \in BOOLEAN /\ loaded[Device] \in BOOLEAN
           /\ unanswered[Device] \in Nat /\ record \in Record /\ cache[Device] \in Record
           /\ Confirms(down[Device], writes[Device])
<1>1. /\ down[Device] \in Seq(DownMessageOf(Quota)) /\ up[Device] \in Seq(UpMessageOf(Quota))
      /\ acked[Device] \in Seq(LimitedWrites) /\ writes[Device] \in Seq(LimitedWrites)
      /\ main[Device] \in Seq(BlockOf(Quota)) /\ waiting[Device] \in Seq(Ops)
      /\ linked[Device] \in BOOLEAN /\ loaded[Device] \in BOOLEAN
      /\ record \in Record /\ cache[Device] \in Record
  BY DEF AloneInv, TypeOK, ControlOK, LimitsIn, Blind, Record
<1>2. Connected(linked[Device], up[Device], down[Device], writes[Device], unanswered[Device])
  BY DEF AloneInv, Sent
<1>3. /\ Count(down[Device], {"ack"}) \in Nat /\ Count(down[Device], {"listening"}) \in Nat
      /\ Count(up[Device], {"listen"}) \in Nat /\ Count(up[Device], {"put"}) \in Nat
      /\ Len(writes[Device]) \in Nat
  BY <1>1, CountType
<1>4. unanswered[Device] \in Nat  BY <1>2, <1>3 DEF Connected, Counted
<1>5. Confirms(down[Device], writes[Device])
  <2>1. CASE linked[Device]  BY <1>2, <1>3, <2>1 DEF Connected, Matched, Confirms
  <2>2. CASE ~linked[Device]
    <3>1. down[Device] = <<>>  BY <1>2, <2>2 DEF Connected
    <3>2. Count(<<>>, {"ack"}) = 0  BY CountFew
    <3> QED  BY <1>3, <3>1, <3>2 DEF Confirms
  <2> QED  BY <2>1, <2>2
<1> QED  BY <1>1, <1>4, <1>5

\* What is seen of the record is its limit after the writes laid over it.
LEMMA SeenLimit ==
    /\ Seen.limit = LimitAfter(record, acked[Device] \o writes[Device])
    /\ Seen.limit' = LimitAfter(record', acked'[Device] \o writes'[Device])
BY DEF Seen, Overlay, Pending

\* A read is under way at most: its event, if there is one, has the limit seen.
LEMMA OneBlock ==
    ASSUME AloneInv, main[Device] # <<>>
    PROVE  /\ waiting[Device] = <<>> /\ Len(main[Device]) = 1 /\ Tail(main[Device]) = <<>>
           /\ Snap(Device).limit = Seen.limit /\ Snap(Device) \in Record
<1>1. PICK b \in BlockOf(Quota) : main[Device] = <<b>> /\ b.snap.limit = Seen.limit
  BY DEF AloneInv, Single, OneRead
<1>2. Len(<<b>>) = 1 /\ Tail(<<b>>) = <<>> /\ Head(<<b>>) = b  OBVIOUS
<1> QED  BY <1>1, <1>2 DEF AloneInv, Single, OneRead, Snap, BlockOf, Record

\* The user asks: the event, if it comes at once, has the limit seen.
LEMMA ObserveAlone ==
    ASSUME AloneInv, Device \in Devices, ~ViewOpen(Device), NEW op \in Ops,
           Observe(Device, op), UNCHANGED record
    PROVE  Steady' /\ Single' /\ Seen.limit' = Seen.limit
<1>1. /\ UNCHANGED <<linked, down, writes, acked, loaded, cache, record>>
      /\ unanswered'[Device] \in {unanswered[Device], unanswered[Device] + 1}
  BY DEF Observe, AloneInv, TypeOK, ControlOK
<1>2. Seen.limit' = Seen.limit  BY <1>1, SeenLimit
<1>3. Steady'
  <2>1. unanswered[Device] \in Nat  BY AloneTypes
  <2>2. Steady  BY DEF AloneInv
  <2> QED  BY <1>1, <2>1, <2>2, StepAsked DEF Steady
<1>4. main[Device] = <<>> /\ waiting[Device] = <<>> /\ ~loaded[Device]
  <2>1. main[Device] = <<>> /\ waiting[Device] = <<>>  BY DEF ViewOpen
  <2>2. \A x : <<x>> # <<>>  OBVIOUS
  <2> QED  BY <2>1, <2>2 DEF AloneInv, Single, OneRead
<1>5. CASE Complete(Device)
  <2> PICK b : b = [op |-> op, snap |-> Local(Device)]  OBVIOUS
  <2>1. main' = [main EXCEPT ![Device] = Append(@, b)] /\ waiting' = waiting
    BY <1>5 DEF Observe
  <2>2. main'[Device] = <<b>> /\ waiting'[Device] = <<>>
    BY <1>4, <2>1 DEF AloneInv, TypeOK, LimitsIn
  <2>3. b \in BlockOf(Quota)  BY LocalIn DEF AloneInv, TypeOK, BlockOf
  <2>4. b.snap.limit = Seen.limit
    <3>1. /\ Pending(Device) \in Seq(LimitedWrites)
          /\ Touched(Pending(Device), {"record"})
      BY <1>4, <1>5, Knowing DEF AloneInv, Complete
    <3>2. PICK j \in DOMAIN Pending(Device) : Pending(Device)[j].at = "record"
      BY <3>1 DEF Touched, IsLast
    <3>3. LimitAfter(cache[Device], Pending(Device)) = LimitAfter(record, Pending(Device))
      BY <3>1, <3>2, LimitFree DEF Limiting
    <3> QED  BY <3>3 DEF Local, Seen, Overlay
  <2> QED  BY <1>2, <1>3, <2>2, <2>3, <2>4 DEF Single, OneRead
<1>6. CASE ~Complete(Device)
  <2>1. main'[Device] = <<>> /\ waiting'[Device] = <<op>>
    BY <1>4, <1>6 DEF Observe, AloneInv, TypeOK, ControlOK
  <2> QED  BY <1>2, <1>3, <2>1 DEF Single, OneRead
<1> QED  BY <1>5, <1>6

\* The callback of the one read, which closes the view and sets values.
LEMMA FireAlone ==
    ASSUME AloneInv, Device \in Devices, main[Device] # <<>>, NEW xs \in Seq(LimitedWrites),
           Fire(Device, xs), UNCHANGED record
    PROVE  /\ Steady' /\ Single'
           /\ Seen.limit' = LimitAfter(record, (acked[Device] \o writes[Device]) \o xs)
<1>1. /\ UNCHANGED <<linked, down, acked, unanswered, waiting, record>>
      /\ writes'[Device] = writes[Device] \o xs
      /\ main'[Device] = Tail(main[Device])
      /\ loaded'[Device] = (loaded[Device] /\ ~ (Len(main[Device]) = 1 /\ waiting[Device] = <<>>))
  BY DEF Fire, SetValue, AloneInv, TypeOK, ControlOK, LimitsIn
<1>2. waiting[Device] = <<>> /\ Len(main[Device]) = 1 /\ Tail(main[Device]) = <<>>
  BY OneBlock
<1>3. Single'  BY <1>1, <1>2 DEF Single, OneRead
<1> PICK r, dn, ak, ws, l, n :
           /\ r = record /\ dn = down[Device] /\ ak = acked[Device] /\ ws = writes[Device]
           /\ l = linked[Device] /\ n = unanswered[Device]
  OBVIOUS
<1>4. /\ dn \in Seq(DownMessageOf(Quota)) /\ ak \in Seq(LimitedWrites) /\ ws \in Seq(LimitedWrites)
      /\ Confirms(dn, ws)
  BY AloneTypes
<1>5. InStep(r, dn, ak, ws, l, n)  BY DEF AloneInv, Steady
<1>6. /\ InStep(r, dn, ak, ws \o xs, l, n)
      /\ ak \o (ws \o xs) = (ak \o ws) \o xs
  <2>1. InStep(r, dn, ak, ws \o xs, l, n)  BY <1>4, <1>5, StepSaid
  <2>2. ak \o (ws \o xs) = (ak \o ws) \o xs
    <3> PICK S : S = LimitedWrites  OBVIOUS
    <3>1. ak \in Seq(S) /\ ws \in Seq(S) /\ xs \in Seq(S)
      BY ONLY <1>4, xs \in Seq(LimitedWrites), S = LimitedWrites
    <3> QED  BY ONLY <3>1, ConcatAssociative
  <2> QED  BY <2>1, <2>2
<1>7. Steady'  BY <1>1, <1>6 DEF Steady
<1>8. Seen.limit' = LimitAfter(record, ak \o (ws \o xs))  BY <1>1, SeenLimit
<1> QED  BY <1>3, <1>6, <1>7, <1>8

\* No value set.
LEMMA SeenNothing ==
    ASSUME AloneInv, Device \in Devices
    PROVE  LimitAfter(record, (acked[Device] \o writes[Device]) \o <<>>) = Seen.limit
<1>1. acked[Device] \in Seq(LimitedWrites) /\ writes[Device] \in Seq(LimitedWrites)
  BY AloneTypes
<1>2. acked[Device] \o writes[Device] \in Seq(LimitedWrites)  BY <1>1, ConcatProperties
<1>3. (acked[Device] \o writes[Device]) \o <<>> = acked[Device] \o writes[Device]
  BY <1>2, ConcatEmptySeq
<1> QED  BY <1>3, SeenLimit

\* One value set.
LEMMA SeenSet ==
    ASSUME AloneInv, Device \in Devices, NEW x \in LimitedWrites
    PROVE  LimitAfter(record, (acked[Device] \o writes[Device]) \o <<x>>)
              = IF x.at \in Limiting THEN x.limit ELSE Seen.limit
<1>1. acked[Device] \in Seq(LimitedWrites) /\ writes[Device] \in Seq(LimitedWrites)
  BY AloneTypes
<1>2. acked[Device] \o writes[Device] \in Seq(LimitedWrites)  BY <1>1, ConcatProperties
<1>3. LimitAfter(record, (acked[Device] \o writes[Device]) \o <<x>>)
         = IF x.at \in Limiting THEN x.limit ELSE LimitAfter(record, acked[Device] \o writes[Device])
  BY <1>2, LimitSet
<1> QED  BY <1>3, SeenLimit

\* What a callback does to the limit seen.
CounterStep ==
    \/ UNCHANGED <<granted, denied>> /\ Seen.limit' = Seen.limit
    \/ UNCHANGED <<granted, denied>> /\ Seen.limit = Missing /\ Seen.limit' = Limit
    \/ /\ Seen.limit > 0 /\ Seen.limit' = Seen.limit - 1
       /\ granted' = granted + 1 /\ denied' = denied
    \/ /\ Seen.limit = 0 /\ Seen.limit' = 0
       /\ granted' = granted /\ denied' = denied + 1

Good == Steady' /\ Single' /\ CounterStep

\* The callbacks.
LEMMA CallbackAlone ==
    ASSUME AloneInv, Device \in Devices, Callback(Device)
    PROVE  Good
<1>1. main[Device] # <<>>
  BY DEF Callback, SetupCallback, GetNameCallback, Grant, Deny, NoAnswer, BadCast, Fires
<1>2. Snap(Device).limit = Seen.limit /\ Snap(Device) \in Record  BY <1>1, OneBlock
<1>3. <<>> \in Seq(LimitedWrites)  BY EmptySeq
<1>4. ASSUME Fire(Device, <<>>), UNCHANGED record
      PROVE  Steady' /\ Single' /\ Seen.limit' = Seen.limit
  BY <1>1, <1>3, <1>4, FireAlone, SeenNothing
<1>5. ASSUME NEW x \in LimitedWrites, x.at \in Limiting, Fire(Device, <<x>>), UNCHANGED record
      PROVE  Steady' /\ Single' /\ Seen.limit' = x.limit
  <2>1. <<x>> \in Seq(LimitedWrites)  OBVIOUS
  <2>2. /\ Steady' /\ Single'
        /\ Seen.limit' = LimitAfter(record, (acked[Device] \o writes[Device]) \o <<x>>)
    BY <1>1, <1>5, <2>1, FireAlone
  <2> QED  BY <1>5, <2>2, SeenSet
<1>6. CASE SetupCallback(Device)
  <2>1. UNCHANGED <<record, granted, denied>>  BY <1>6 DEF SetupCallback, server, ghosts
  <2>2. CASE Snap(Device) = NoRecord
    <3>1. Fire(Device, <<FirstRecord>>)  BY <1>6, <2>2 DEF SetupCallback
    <3>2. FirstRecord.at \in Limiting /\ FirstRecord.limit = Limit
      BY DEF FirstRecord, WholeRecord, Limiting
    <3>3. Steady' /\ Single' /\ Seen.limit' = Limit
      BY <1>5, <2>1, <3>1, <3>2, ClientWrites
    <3>4. Seen.limit = Missing  BY <1>2, <2>2 DEF NoRecord
    <3> QED  BY <2>1, <3>3, <3>4 DEF Good, CounterStep
  <2>3. CASE Snap(Device) # NoRecord
    <3>1. Fire(Device, <<>>)  BY <1>6, <2>3 DEF SetupCallback
    <3> QED  BY <1>4, <2>1, <3>1 DEF Good, CounterStep
  <2> QED  BY <2>2, <2>3
<1>7. CASE GetNameCallback(Device) \/ NoAnswer(Device)
  <2>1. Fire(Device, <<>>) /\ UNCHANGED <<record, granted, denied>>
    BY <1>7 DEF GetNameCallback, NoAnswer, server, ghosts
  <2> QED  BY <1>4, <2>1 DEF Good, CounterStep
<1>8. CASE Grant(Device)
  <2> PICK q, x : q = Seen.limit /\ x = SetPhotoLimit(q - 1)  OBVIOUS
  <2>1. /\ q > 0 /\ Fire(Device, <<x>>) /\ UNCHANGED <<record, denied>> /\ granted' = granted + 1
    BY <1>2, <1>8 DEF Grant, server
  <2>2. q \in Quota  BY <1>2 DEF Record, RecordOf
  <2>3. q - 1 \in 0..Limit  BY <2>1, <2>2, LimitAssumption DEF Quota, Missing
  <2>4. x \in LimitedWrites /\ x.at \in Limiting /\ x.limit = q - 1
    BY <2>3, ClientWrites DEF SetPhotoLimit, Limiting
  <2>5. Steady' /\ Single' /\ Seen.limit' = q - 1  BY <1>5, <2>1, <2>4
  <2> QED  BY <2>1, <2>5 DEF Good, CounterStep
<1>9. CASE Deny(Device)
  <2>1. /\ Snap(Device).limit # Missing /\ Snap(Device).limit <= 0
        /\ Fire(Device, <<>>) /\ UNCHANGED <<record, granted>> /\ denied' = denied + 1
    BY <1>9 DEF Deny, server
  <2>2. Snap(Device).limit = 0
    BY <1>2, <2>1, LimitAssumption DEF Record, RecordOf, Quota, Missing
  <2>3. Steady' /\ Single' /\ Seen.limit' = Seen.limit  BY <1>4, <2>1
  <2> QED  BY <1>2, <2>1, <2>2, <2>3 DEF Good, CounterStep
<1>10. CASE BadCast(Device)
  <2>1. /\ record' = record /\ granted' = granted /\ denied' = denied
        /\ down'[Device] = <<>> /\ acked'[Device] = <<>> /\ writes'[Device] = <<>>
        /\ main'[Device] = <<>> /\ waiting'[Device] = <<>> /\ loaded'[Device] = FALSE
    BY <1>10 DEF BadCast, Restart, AloneInv, TypeOK, ControlOK, LimitsIn
  <2>2. Steady'  BY <1>3, <2>1, StepBroken DEF Steady
  <2>3. Single'  BY <2>1 DEF Single, OneRead
  <2> PICK ps : ps = acked[Device] \o writes[Device]  OBVIOUS
  <2>4. ps \in Seq(LimitedWrites)
    <3>1. acked[Device] \in Seq(LimitedWrites) /\ writes[Device] \in Seq(LimitedWrites)
      BY AloneTypes
    <3> QED  BY <3>1, ConcatProperties
  <2>5. LimitAfter(record, ps) = Missing
    BY <1>2, <1>10, SeenLimit DEF BadCast
  <2>6. record.limit = Missing
    <3>1. ASSUME NEW i \in DOMAIN ps, IsLast(ps, i, Limiting)  PROVE FALSE
      <4>1. ps[i] \in LimitedWrites  BY ONLY <2>4, i \in DOMAIN ps, ElementOfSeq, LenProperties
      <4>3. ps[i].at # "child"  BY <3>1 DEF IsLast, Limiting
      <4>2. ps[i].limit = Missing  BY <2>4, <2>5, <3>1, LimitLast
      <4> QED  BY <4>1, <4>2, <4>3 DEF LimitedWrites, Limited
    <3>2. \A i \in DOMAIN ps : ps[i].at \notin Limiting  BY <2>4, <3>1, LimitEither
    <3> QED  BY <2>5, <3>2, LimitNone
  <2>7. Seen.limit' = Missing
    <3> PICK e : e = <<>>  OBVIOUS
    <3>1. e \o e = e  OBVIOUS
    <3>2. LimitAfter(record, e) = record.limit  BY LimitNone
    <3> QED  BY <2>1, <2>6, <3>1, <3>2, SeenLimit
  <2>8. Seen.limit = Missing  BY <2>5, SeenLimit
  <2> QED  BY <2>1, <2>2, <2>3, <2>7, <2>8 DEF Good, CounterStep
<1> QED  BY <1>6, <1>7, <1>8, <1>9, <1>10 DEF Callback

\* A step that changes nothing of this.
LEMMA IdleAlone ==
    ASSUME AloneInv, UNCHANGED <<record, down, acked, writes, linked, unanswered>>,
           UNCHANGED <<main, waiting, loaded, granted, denied>>
    PROVE  Good
<1>1. Seen.limit' = Seen.limit  BY SeenLimit
<1> QED  BY <1>1 DEF AloneInv, Steady, Single, Good, CounterStep

\* The user's operations.
LEMMA UserAlone ==
    ASSUME AloneInv, Device \in Devices, ~Overlapping, User(Device)
    PROVE  Good
<1>1. CASE SetupUser(Device) \/ GetName(Device)
  <2>1. Op("setupUser") \in Ops /\ Op("getName") \in Ops  BY DEF Op, Ops
  <2>2. ~ViewOpen(Device) /\ UNCHANGED <<record, granted, denied>>
    BY <1>1 DEF SetupUser, GetName, Ready, server, ghosts
  <2>3. Steady' /\ Single' /\ Seen.limit' = Seen.limit
    BY <1>1, <2>1, <2>2, ObserveAlone DEF SetupUser, GetName
  <2> QED  BY <2>2, <2>3 DEF Good, CounterStep
<1>2. CASE Process(Device)
  <2>1. PhotoLimit(photo[Device]) \in Ops
    BY <1>2 DEF Process, AloneInv, TypeOK, ControlOK, PhotoLimit, Ops
  <2>2. ~ViewOpen(Device) /\ UNCHANGED <<record, granted, denied>>
    BY <1>2 DEF Process, Ready, server, ghosts
  <2>3. Steady' /\ Single' /\ Seen.limit' = Seen.limit
    BY <1>2, <2>1, <2>2, ObserveAlone DEF Process
  <2> QED  BY <2>2, <2>3 DEF Good, CounterStep
<1>3. CASE Update(Device)
  <2> PICK r, dn, ak, ws, l, n, xs :
           /\ r = record /\ dn = down[Device] /\ ak = acked[Device] /\ ws = writes[Device]
           /\ l = linked[Device] /\ n = unanswered[Device] /\ xs = <<SetChild>>
    OBVIOUS
  <2>1. /\ UNCHANGED <<record, down, acked, linked, unanswered, main, waiting, loaded>>
        /\ UNCHANGED <<granted, denied>> /\ writes'[Device] = ws \o xs
    BY <1>3 DEF Update, SetValue, server, view, ghosts, AloneInv, TypeOK, LimitsIn
  <2>2. /\ dn \in Seq(DownMessageOf(Quota)) /\ ak \in Seq(LimitedWrites) /\ ws \in Seq(LimitedWrites)
        /\ Confirms(dn, ws)
    BY AloneTypes
  <2>3. xs \in Seq(LimitedWrites)  BY ClientWrites
  <2>4. InStep(r, dn, ak, ws, l, n)  BY DEF AloneInv, Steady
  <2>5. InStep(r, dn, ak, ws \o xs, l, n)  BY <2>2, <2>3, <2>4, StepSaid
  <2>6. Steady'  BY <2>1, <2>5 DEF Steady
  <2>7. Seen.limit' = Seen.limit
    <3>1. ak \o (ws \o xs) = (ak \o ws) \o xs
      BY ONLY <2>2, <2>3, ConcatAssociative
    <3>2. LimitAfter(record, (ak \o ws) \o <<SetChild>>) = Seen.limit
      <4>1. SetChild \in LimitedWrites /\ SetChild.at \notin Limiting
        BY ClientWrites DEF SetChild, Limiting
      <4> QED  BY <4>1, SeenSet
    <3> QED  BY <2>1, <3>1, <3>2, SeenLimit
  <2>8. Single'  BY <2>1, <2>7 DEF AloneInv, Single
  <2> QED  BY <2>1, <2>6, <2>7, <2>8 DEF Good, CounterStep
<1>4. CASE Cancel(Device) \/ \E p \in Photos : OpenPhoto(Device, p)
  BY <1>4, IdleAlone DEF Cancel, OpenPhoto, server, wire, client, view, ghosts
<1> QED  BY <1>1, <1>2, <1>3, <1>4 DEF User

\* The first put on its way is the next of the writes.
LEMMA FirstPut ==
    ASSUME NEW S, NEW u \in Seq(S), u # <<>>, Head(u).type = "put",
           NEW D, NEW dn \in Seq(D), NEW W, NEW ws \in Seq(W), Matched(u, dn, ws)
    PROVE  NextOf(dn, ws, Head(u).write) /\ Head(u).write \in W
<1> PICK P, k : P = {"put"} /\ k = Count(dn, {"ack"})  OBVIOUS
<1>1. Number(u, P, 1) = 1
  <2>1. Number(u, P, 0 + 1) = Number(u, P, 0) + (IF u[0 + 1].type \in P THEN 1 ELSE 0)
    BY NumberNext
  <2>2. Head(u) = u[1]  OBVIOUS
  <2> QED  BY <2>1, <2>2, NumberNone
<1>2. Count(u, P) >= 1 /\ Count(u, P) \in Nat
  <2>1. Count(u, P) = (IF Head(u).type \in P THEN 1 ELSE 0) + Count(Tail(u), P)  BY CountTail
  <2>2. Tail(u) \in Seq(S)  BY HeadTailProperties
  <2>3. Count(Tail(u), P) \in Nat  BY <2>2, CountType
  <2> QED  BY <2>1, <2>3
<1>3. k \in Nat /\ Len(ws) \in Nat  BY CountType
<1>4. k + Count(u, P) = Len(ws)  BY DEF Matched
<1>5. k + 1 \in 1..Len(ws)  BY ONLY <1>2, <1>3, <1>4
<1>6. Head(u).write = ws[k + 1]
  <2>1. 1 \in DOMAIN u /\ Head(u) = u[1]  OBVIOUS
  <2>2. u[1].write = ws[k + Number(u, P, 1)]  BY <2>1 DEF Matched
  <2> QED  BY <1>1, <2>1, <2>2
<1>7. ws[k + 1] \in W  BY <1>5
<1> QED  BY <1>3, <1>5, <1>6, <1>7 DEF NextOf

\* The server's steps.
LEMMA ServeAlone ==
    ASSUME AloneInv, Device \in Devices, Serve(Device)
    PROVE  Good
<1> PICK r, dn, ak, ws, l, n :
         /\ r = record /\ dn = down[Device] /\ ak = acked[Device] /\ ws = writes[Device]
         /\ l = linked[Device] /\ n = unanswered[Device]
  OBVIOUS
<1> DEFINE D == DownMessageOf(Quota)
<1>1. /\ dn \in Seq(D) /\ ak \in Seq(LimitedWrites) /\ ws \in Seq(LimitedWrites)
      /\ up[Device] \in Seq(UpMessageOf(Quota)) /\ r \in Record
  BY AloneTypes
<1>2. InStep(r, dn, ak, ws, l, n)  BY DEF AloneInv, Steady
<1>3. /\ UNCHANGED <<acked, writes, linked, unanswered, main, waiting, loaded, granted, denied>>
      /\ linked[Device] /\ up[Device] # <<>>
  BY DEF Serve, ServePut, ServeListen, ServeUnlisten, Receives, client, view, ghosts
<1>4. ASSUME Seen.limit' = Seen.limit, Steady'  PROVE Good
  BY <1>3, <1>4 DEF AloneInv, Single, Good, CounterStep
<1>5. CASE ServePut(Device)
  <2> PICK w : w = Head(up[Device]).write  OBVIOUS
  <2>1. /\ record' = Apply(record, w)
        /\ down'[Device] = down[Device] \o (IF listening[Device] THEN <<Push(w)>> ELSE <<>>)
                                        \o <<Msg("ack")>>
    BY <1>5 DEF ServePut
  <2>2. NextOf(dn, ws, w) /\ w \in LimitedWrites
    <3>1. Matched(up[Device], dn, ws)  BY <1>3 DEF AloneInv, Sent, Connected
    <3>2. Head(up[Device]).type = "put"  BY <1>5 DEF ServePut, Receives
    <3> HIDE DEF D
    <3> QED  BY <1>1, <1>3, <3>1, <3>2, FirstPut
  <2>3. LimitAfter(Apply(r, w), ak \o ws) = LimitAfter(r, ak \o ws)
    <3> PICK k, t, c, i :
           /\ k = Count(dn, {"ack"}) /\ t = Apply(r, w) /\ c = ak \o ws /\ i = Len(ak) + k
      OBVIOUS
    <3>1. k \in Nat  BY ONLY k = Count(dn, {"ack"}), <1>1, CountType
    <3>2. k + 1 <= Len(ws) /\ w = ws[k + 1]
      BY ONLY <2>2, k = Count(dn, {"ack"}) DEF NextOf
    <3>3. i \in Nat /\ i + 1 <= Len(c) /\ c \in Seq(LimitedWrites) /\ c[i + 1] = w
      BY ONLY <1>1, <3>1, <3>2, c = ak \o ws, i = Len(ak) + k, NextAmong
    <3>4. Settled(c, i, r.limit)
      BY <1>2 DEF InStep
    <3>5. t.limit = IF w.at \in Limiting THEN w.limit ELSE r.limit
      BY ONLY t = Apply(r, w), LimitApplied
    <3>6. t.limit = IF c[i + 1].at \in Limiting THEN c[i + 1].limit ELSE r.limit
      BY ONLY <3>3, <3>5
    <3>7. LimitAfter(t, c) = LimitAfter(r, c)
      BY ONLY <3>3, <3>4, <3>6, SettledServed
    <3> QED  BY ONLY <3>7, t = Apply(r, w), c = ak \o ws
  <2> PICK m, a : m = Push(w) /\ a = Msg("ack")  OBVIOUS
  <2>4. m \in D /\ m.type = "push" /\ m.write = w /\ a \in D /\ a.type = "ack"
    BY <2>2 DEF Push, Msg, DownMessageOf, LimitedWrites
  <2>5. PICK ps \in {<<>>, <<m>>} : down'[Device] = (dn \o ps) \o <<a>>
    BY <2>1
  <2> HIDE DEF D
  <2>6. InStep(Apply(r, w), (dn \o ps) \o <<a>>, ak, ws, l, n)
    BY ONLY <1>1, <1>2, <2>2, <2>4, ps \in {<<>>, <<m>>}, StepServed
  <2>7. Steady'  BY <1>3, <2>1, <2>5, <2>6 DEF Steady
  <2>8. Seen.limit' = Seen.limit  BY <1>3, <2>1, <2>3, SeenLimit
  <2> QED  BY <1>4, <2>7, <2>8
<1>6. CASE ServeListen(Device)
  <2> PICK m, b : m = Push(WholeRecord(record)) /\ b = Msg("listening")  OBVIOUS
  <2>1. record' = record /\ down'[Device] = dn \o <<m, b>>
    BY <1>6 DEF ServeListen, AloneInv, TypeOK, LimitsIn
  <2>2. /\ m \in D /\ m.type = "push" /\ m.write.limit = r.limit
        /\ b \in D /\ b.type = "listening"
    <3>1. WholeRecord(record) \in WriteOf(Quota) /\ WholeRecord(record).limit = r.limit
      BY <1>1 DEF WholeRecord, WriteOf, Record, RecordOf
    <3> QED  BY <3>1 DEF Push, Msg, DownMessageOf
  <2> HIDE DEF D
  <2>3. InStep(r, dn \o <<m, b>>, ak, ws, l, n)  BY <1>1, <1>2, <2>2, StepTold
  <2>4. Steady'  BY <1>3, <2>1, <2>3 DEF Steady
  <2>5. Seen.limit' = Seen.limit  BY <1>3, <2>1, SeenLimit
  <2> QED  BY <1>4, <2>4, <2>5
<1>7. CASE ServeUnlisten(Device)
  <2>1. record' = record /\ down' = down  BY <1>7 DEF ServeUnlisten
  <2> QED  BY <1>3, <2>1, IdleAlone
<1> QED  BY <1>5, <1>6, <1>7 DEF Serve

\* The record that the server sends first, under the writes laid over it, has
\* the limit that is stored.
LEMMA FirstPush ==
    ASSUME NEW r, NEW c, NEW D, NEW dn \in Seq(D), dn # <<>>, NEW S, NEW ak \in Seq(S),
           NEW ws \in Seq(S), Told(dn, ws, r.limit),
           Head(dn).type = "push", Head(dn).write.at = "record", c.limit = Head(dn).write.limit
    PROVE  LimitAfter(c, ak \o ws) = LimitAfter(r, ak \o ws)
<1> PICK ps : ps = ak \o ws  OBVIOUS
<1>1. 1 \in DOMAIN dn /\ Head(dn) = dn[1]  OBVIOUS
<1>2. CASE c.limit = r.limit  BY <1>2, LimitBase
<1>3. ASSUME NEW j \in DOMAIN ws, ws[j].at \in Limiting
      PROVE  LimitAfter(c, ps) = LimitAfter(r, ps)
  <2> PICK x, a : x = a + j /\ a = Len(ak)  OBVIOUS
  <2>1. /\ a \in Nat /\ Len(ws) \in Nat /\ DOMAIN ws = 1..Len(ws) /\ ps \in Seq(S)
        /\ DOMAIN ps = 1 .. a + Len(ws)
        /\ \A i \in 1 .. a + Len(ws) : ps[i] = IF i <= a THEN ak[i] ELSE ws[i - a]
    BY ConcatProperties, LenProperties
  <2>2. x \in 1 .. a + Len(ws) /\ ~ (x <= a) /\ x - a = j  BY <2>1
  <2>3. x \in DOMAIN ps /\ ps[x] = ws[j]  BY <2>1, <2>2
  <2> QED  BY <1>3, <2>1, <2>3, LimitFree
<1>4. c.limit = r.limit \/ \E j \in DOMAIN ws : ws[j].at \in Limiting
  BY <1>1 DEF Told
<1> QED  BY <1>2, <1>3, <1>4

\* The server's messages arrive.
LEMMA ArriveAlone ==
    ASSUME AloneInv, Device \in Devices, Arrive(Device)
    PROVE  Good
<1> PICK r, dn, ak, ws, l, n :
         /\ r = record /\ dn = down[Device] /\ ak = acked[Device] /\ ws = writes[Device]
         /\ l = linked[Device] /\ n = unanswered[Device]
  OBVIOUS
<1>1. /\ dn \in Seq(DownMessageOf(Quota)) /\ ak \in Seq(LimitedWrites)
      /\ ws \in Seq(LimitedWrites) /\ n \in Nat /\ Confirms(dn, ws)
  BY AloneTypes
<1>2. InStep(r, dn, ak, ws, l, n)  BY DEF AloneInv, Steady
<1>3. /\ UNCHANGED <<record, linked, granted, denied>> /\ l /\ dn # <<>>
      /\ down'[Device] = Tail(dn)
  BY DEF Arrive, ArrivePush, ArriveAck, ArriveListening, Arrives, server, ghosts,
         AloneInv, TypeOK, LimitsIn
<1>4. ASSUME Seen.limit' = Seen.limit, Steady', UNCHANGED <<main, waiting, loaded>>
      PROVE  Good
  BY <1>3, <1>4 DEF AloneInv, Single, Good, CounterStep
<1>5. CASE ArrivePush(Device)
  <2>1. Head(dn).type = "push" /\ UNCHANGED <<writes, acked, unanswered>>
    BY <1>5 DEF ArrivePush, Arrives, client
  <2>2. InStep(r, Tail(dn), ak, ws, l, n)
    <3>1. Head(dn).type # "ack"  BY <2>1
    <3> QED  BY <1>1, <1>2, <1>3, <3>1, StepTaken
  <2>3. Steady'  BY <1>3, <2>1, <2>2 DEF Steady
  <2>4. Seen.limit' = Seen.limit  BY <1>3, <2>1, SeenLimit
  <2>5. CASE UNCHANGED view
    BY <1>4, <2>3, <2>4, <2>5 DEF view
  <2> PICK w, c, snap : /\ w = Head(dn).write /\ c = Apply(cache[Device], w)
                        /\ snap = Overlay(c, Pending(Device))
    OBVIOUS
  <2>6. CASE /\ ViewOpen(Device) /\ (loaded[Device] \/ w.at = "record")
             /\ main' = [main EXCEPT ![Device] = @ \o
                            [i \in DOMAIN waiting[Device] |->
                                [op |-> waiting[Device][i], snap |-> snap]]]
             /\ waiting' = [waiting EXCEPT ![Device] = <<>>]
    <3>1. /\ waiting'[Device] = <<>>
          /\ main'[Device] = main[Device] \o [i \in DOMAIN waiting[Device] |->
                                [op |-> waiting[Device][i], snap |-> snap]]
      BY <2>6 DEF AloneInv, TypeOK, ControlOK, LimitsIn
    <3>2. CASE waiting[Device] = <<>>
      <4>1. [i \in DOMAIN waiting[Device] |-> [op |-> waiting[Device][i], snap |-> snap]] = <<>>
        BY <3>2
      <4>2. main'[Device] = main[Device] \o <<>>  BY <3>1, <4>1
      <4>3. main[Device] \in Seq(BlockOf(Quota))  BY AloneTypes
      <4>4. main'[Device] = main[Device]  BY <4>2, <4>3, ConcatEmptySeq
      <4>5. main[Device] # <<>>  BY <2>6, <3>2 DEF ViewOpen
      <4>6. \E b \in BlockOf(Quota) : main[Device] = <<b>> /\ b.snap.limit = Seen.limit
        BY <4>5 DEF AloneInv, Single, OneRead
      <4>7. Single'  BY <2>4, <3>1, <4>4, <4>6 DEF Single, OneRead
      <4> QED  BY <1>3, <2>3, <2>4, <4>7 DEF Good, CounterStep
    <3>3. CASE waiting[Device] # <<>>
      <4>1. PICK op \in Ops : main[Device] = <<>> /\ waiting[Device] = <<op>>
        BY <3>3 DEF AloneInv, Single, OneRead
      <4> PICK b : b = [op |-> op, snap |-> snap]  OBVIOUS
      <4>2. main'[Device] = <<b>>
        <5>1. DOMAIN <<op>> = {1} /\ <<op>>[1] = op  OBVIOUS
        <5>2. [i \in DOMAIN waiting[Device] |-> [op |-> waiting[Device][i], snap |-> snap]]
                 = [i \in {1} |-> b]
          BY <4>1, <5>1
        <5>3. [i \in {1} |-> b] = <<b>>  OBVIOUS
        <5>4. <<>> \o <<b>> = <<b>>  OBVIOUS
        <5> QED  BY <3>1, <4>1, <5>2, <5>3, <5>4
      <4>3. b \in BlockOf(Quota)
        <5>1. w \in WriteOf(Quota)
          <6>1. Head(dn) \in DownMessageOf(Quota)  BY <1>1, <1>3
          <6> QED  BY <2>1, <6>1, MessagesIn
        <5>2. LimitsIn(Quota) /\ cache[Device] \in RecordOf(Quota)
          BY DEF AloneInv, TypeOK, LimitsIn
        <5>3. c \in RecordOf(Quota)  BY <5>1, <5>2, ApplyIn
        <5>4. snap \in RecordOf(Quota)  BY <5>2, <5>3, LocalIn
        <5> QED  BY <5>4 DEF BlockOf
      <4>4. snap.limit = Seen.limit
        <5>1. ~loaded[Device]
          BY <3>3 DEF AloneInv, Blind, WaitingIsBlind, Complete
        <5>2. w.at = "record"  BY <2>6, <5>1
        <5>3. c.limit = w.limit
          <6>1. w.at \in Limiting  BY <5>2 DEF Limiting
          <6> QED  BY <6>1, LimitApplied, w \in {w}
        <5>4. Told(dn, ws, r.limit)  BY <1>2 DEF InStep
        <5>5. LimitAfter(c, ak \o ws) = LimitAfter(r, ak \o ws)
          BY <1>1, <1>3, <2>1, <5>2, <5>3, <5>4, FirstPush
        <5> QED  BY <5>5, SeenLimit DEF Overlay, Pending
      <4>5. Single'  BY <2>4, <3>1, <4>2, <4>3, <4>4 DEF Single, OneRead
      <4> QED  BY <1>3, <2>3, <2>4, <4>5 DEF Good, CounterStep
    <3> QED  BY <3>2, <3>3
  <2> QED  BY <1>5, <2>5, <2>6 DEF ArrivePush
<1>6. CASE ArriveAck(Device)
  <2>1. Head(dn).type = "ack" /\ UNCHANGED <<unanswered, main, waiting, loaded>>
    BY <1>6 DEF ArriveAck, Arrives, view
  <2>2. ws # <<>>
    <3>1. Matched(up[Device], dn, ws) /\ up[Device] \in Seq(UpMessageOf(Quota))
      BY <1>3, AloneTypes DEF AloneInv, Sent, Connected
    <3> QED  BY <1>1, <1>3, <2>1, <3>1, MatchedAck
  <2>3. /\ writes'[Device] = Tail(ws)
        /\ acked'[Device] = IF n = 0 THEN ak ELSE Append(ak, Head(ws))
    BY <1>6, <2>2 DEF ArriveAck, AloneInv, TypeOK, LimitsIn
  <2>4. CASE n = 0
    <3>1. ak = <<>>  BY <1>2, <2>4 DEF InStep
    <3>2. /\ InStep(r, Tail(dn), <<>>, Tail(ws), l, n)
          /\ LimitAfter(r, <<>> \o Tail(ws)) = LimitAfter(r, <<>> \o ws)
      <4>1. InStep(r, dn, <<>>, ws, l, n)  BY <1>2, <3>1
      <4> QED  BY <1>1, <1>3, <2>1, <2>2, <4>1, StepFreed
    <3>3. Steady'  BY <1>3, <2>1, <2>3, <2>4, <3>1, <3>2 DEF Steady
    <3>4. Seen.limit' = Seen.limit  BY <1>3, <2>3, <2>4, <3>1, <3>2, SeenLimit
    <3> QED  BY <1>4, <2>1, <3>3, <3>4
  <2>5. CASE n # 0
    <3>1. InStep(r, dn, ak, ws, TRUE, n) /\ l = TRUE
      <4>1. l = TRUE  BY <1>3, AloneTypes
      <4> QED  BY <1>2, <4>1
    <3>2. /\ InStep(r, Tail(dn), Append(ak, Head(ws)), Tail(ws), TRUE, n)
          /\ Append(ak, Head(ws)) \o Tail(ws) = ak \o ws
      <4>1. Head(dn).type = "ack"  BY <2>1
      <4>2. InStep(r, Tail(dn), Append(ak, Head(ws)), Tail(ws), TRUE, n)
        BY ONLY <1>1, <1>3, <2>2, <2>5, <3>1, <4>1, StepHeld
      <4>3. Append(ak, Head(ws)) \o Tail(ws) = ak \o ws
        BY ONLY <1>1, <1>3, <2>2, <2>5, <3>1, <4>1, StepHeld
      <4> QED  BY ONLY <4>2, <4>3
    <3>3. Steady'  BY <1>3, <2>1, <2>3, <2>5, <3>1, <3>2 DEF Steady
    <3>4. Seen.limit' = Seen.limit  BY <1>3, <2>3, <2>5, <3>2, SeenLimit
    <3> QED  BY <1>4, <2>1, <3>3, <3>4
  <2> QED  BY <2>4, <2>5
<1>7. CASE ArriveListening(Device)
  <2>1. /\ Head(dn).type = "listening" /\ UNCHANGED <<writes, main, waiting, loaded>>
        /\ unanswered'[Device] = n - 1
        /\ acked'[Device] = IF n = 1 THEN <<>> ELSE ak
    BY <1>7 DEF ArriveListening, Arrives, view, AloneInv, TypeOK, ControlOK, LimitsIn
  <2>2. CASE n = 1
    <3> PICK k : k = n - 1  OBVIOUS
    <3>1. /\ InStep(r, Tail(dn), <<>>, ws, l, k)
          /\ LimitAfter(r, <<>> \o ws) = LimitAfter(r, ak \o ws)
      <4>1. Head(dn).type = "listening"  BY <2>1
      <4>2. InStep(r, Tail(dn), <<>>, ws, l, k)
        BY ONLY <1>1, <1>2, <1>3, <4>1, StepAnswered
      <4>3. LimitAfter(r, <<>> \o ws) = LimitAfter(r, ak \o ws)
        BY ONLY <1>1, <1>2, <1>3, <4>1, StepAnswered
      <4> QED  BY ONLY <4>2, <4>3
    <3>2. Steady'  BY <1>3, <2>1, <2>2, <3>1 DEF Steady
    <3>3. Seen.limit' = Seen.limit  BY <1>3, <2>1, <2>2, <3>1, SeenLimit
    <3> QED  BY <1>4, <2>1, <3>2, <3>3
  <2>3. CASE n # 1
    <3>1. InStep(r, Tail(dn), ak, ws, l, n)
      <4>1. Head(dn).type # "ack"  BY <2>1
      <4> QED  BY <1>1, <1>2, <1>3, <4>1, StepTaken
    <3>2. InStep(r, Tail(dn), ak, ws, l, n - 1)
      <4>1. n - 1 # 0  BY <1>1, <2>3
      <4> QED  BY <1>3, <3>1, <4>1 DEF InStep
    <3>3. Steady'  BY <1>3, <2>1, <2>3, <3>2 DEF Steady
    <3>4. Seen.limit' = Seen.limit  BY <1>3, <2>1, <2>3, SeenLimit
    <3> QED  BY <1>4, <2>1, <3>3, <3>4
  <2> QED  BY <2>2, <2>3
<1> QED  BY <1>5, <1>6, <1>7 DEF Arrive

\* The connection breaks, with nothing held back, and comes back.
LEMMA LinkAlone ==
    ASSUME AloneInv, Device \in Devices, ~Withheld, Drop(Device) \/ Reconnect(Device)
    PROVE  Good
<1>1. /\ UNCHANGED <<record, writes, acked, main, waiting, loaded, granted, denied>>
      /\ acked[Device] = <<>> /\ down'[Device] = <<>>
  <2>1. CASE Drop(Device)
    BY <2>1 DEF Drop, view, ghosts, AloneInv, TypeOK, LimitsIn
  <2>2. CASE Reconnect(Device)
    <3>1. ~linked[Device] /\ UNCHANGED <<record, down, writes, acked, view, ghosts>>
      BY <2>2 DEF Reconnect, server
    <3>2. down[Device] = <<>>  BY <3>1 DEF AloneInv, Sent, Connected
    <3>3. acked[Device] = <<>>  BY <3>1 DEF AloneInv, Steady, InStep
    <3> QED  BY <3>1, <3>2, <3>3 DEF view, ghosts
  <2> QED  BY <2>1, <2>2
<1>2. Steady'
  <2>1. writes[Device] \in Seq(LimitedWrites)  BY AloneTypes
  <2> QED  BY <1>1, <2>1, StepBroken DEF Steady
<1>3. Seen.limit' = Seen.limit  BY <1>1, SeenLimit
<1> QED  BY <1>1, <1>2, <1>3 DEF AloneInv, Single, Good, CounterStep

\* Every step.
LEMMA NextAlone == Careful /\ AloneInv /\ [Next]_vars => Good
<1> SUFFICES ASSUME Careful, AloneInv, [Next]_vars  PROVE Good
  OBVIOUS
<1>1. Devices = {Device} /\ Device \in Devices /\ ~Overlapping /\ ~Withheld  BY DEF Careful
<1>2. CASE UNCHANGED vars
  BY <1>2, IdleAlone DEF vars, server, wire, client, view, ghosts
<1>3. CASE Answer(Device)
  BY <1>3, IdleAlone DEF Answer, Detected, server, wire, client, view, ghosts
<1>4. ~Kill(Device)
  BY DEF Kill, Spend, Careful, AloneInv, TypeOK, ControlOK, Inputs
<1> QED
  BY <1>1, <1>2, <1>3, <1>4, UserAlone, CallbackAlone, ServeAlone, ArriveAlone, LinkAlone DEF Next

\* At first nothing is set and the server said nothing.
LEMMA InitAlone == ASSUME Device \in Devices  PROVE Init => Steady /\ Single /\ Remaining = Limit
<1> SUFFICES ASSUME Init  PROVE Steady /\ Single /\ Remaining = Limit
  OBVIOUS
<1>1. /\ acked[Device] = <<>> /\ writes[Device] = <<>> /\ down[Device] = <<>>
      /\ main[Device] = <<>> /\ waiting[Device] = <<>> /\ ~loaded[Device]
      /\ record.limit \in {Limit, Missing}
  BY DEF Init, NoRecord
<1> PICK e : e = <<>>  OBVIOUS
<1>2. e \in Seq(LimitedWrites) /\ e \o e = e  BY EmptySeq
<1>3. Steady  BY <1>1, <1>2, StepBroken DEF Steady
<1>4. LimitAfter(record, e) = record.limit  BY LimitNone
<1>5. Seen.limit = record.limit  BY <1>1, <1>2, <1>4, SeenLimit
<1> QED  BY <1>1, <1>3, <1>5 DEF Single, OneRead, Remaining

\* The invariant holds in every reachable state.
LEMMA AlwaysAlone == Careful => (Spec => []AloneInv)
<1> SUFFICES ASSUME Careful  PROVE Spec => []AloneInv
  OBVIOUS
<1>1. Device \in Devices  BY DEF Careful
<1> DEFINE Base == TypeOK /\ Blind /\ Sent
<1>2. Spec => []Base
  BY TypeCorrect, InitBlind, NextBlind, AlwaysSent, PTL DEF Spec
<1>3. Init => Steady /\ Single  BY <1>1, InitAlone
<1>4. Base /\ Steady /\ Single /\ [Next]_vars => Steady' /\ Single'
  BY NextAlone DEF AloneInv, Good
<1>5. Spec => [](Steady /\ Single)
  <2> HIDE DEF Base
  <2> QED  BY <1>2, <1>3, <1>4, PTL DEF Spec
<1>6. Base /\ Steady /\ Single => AloneInv  BY DEF AloneInv
<1> QED  BY <1>2, <1>5, <1>6, PTL

\* Every step is one of the counter's, or leaves the counter as it is.
LEMMA CounterSteps ==
    Careful /\ AloneInv /\ [Next]_vars => [Counter!Next]_(Counter!counter)
<1> SUFFICES ASSUME Careful, AloneInv, [Next]_vars  PROVE [Counter!Next]_(Counter!counter)
  OBVIOUS
<1>1. CounterStep  BY NextAlone DEF Good
<1>2. Seen.limit \in Quota
  <2>1. Device \in Devices /\ LimitsIn(Quota)  BY DEF Careful, AloneInv, TypeOK
  <2>2. Overlay(record, Pending(Device)) \in RecordOf(Quota)
    BY <2>1, LocalIn DEF LimitsIn
  <2> QED  BY <2>2 DEF Seen, RecordOf
<1> PICK q : q = Seen.limit  OBVIOUS
<1>3. /\ q \in Int /\ Limit \in Nat /\ Limit > 0 /\ Missing = -2
      /\ q = Missing \/ q >= 0
  BY <1>2, LimitAssumption DEF Quota, Missing
<1>4. /\ Remaining = IF q = Missing THEN Limit ELSE q
      /\ Remaining' = IF Seen.limit' = Missing THEN Limit ELSE Seen.limit'
  BY DEF Remaining
<1>5. CASE UNCHANGED <<granted, denied>> /\ Seen.limit' = Seen.limit
  BY <1>4, <1>5 DEF Counter!counter
<1>6. CASE UNCHANGED <<granted, denied>> /\ Seen.limit = Missing /\ Seen.limit' = Limit
  <2>1. Remaining' = Remaining  BY <1>3, <1>4, <1>6
  <2> QED  BY <1>6, <2>1 DEF Counter!counter
<1>7. CASE /\ Seen.limit > 0 /\ Seen.limit' = Seen.limit - 1
           /\ granted' = granted + 1 /\ denied' = denied
  <2>1. Remaining = q /\ Remaining' = q - 1 /\ q > 0  BY <1>3, <1>4, <1>7
  <2> QED  BY <1>7, <2>1 DEF Counter!Next, Counter!Grant
<1>8. CASE /\ Seen.limit = 0 /\ Seen.limit' = 0
           /\ granted' = granted /\ denied' = denied + 1
  <2>1. Remaining = 0 /\ Remaining' = 0  BY <1>3, <1>4, <1>8
  <2> QED  BY <1>8, <2>1 DEF Counter!Next, Counter!Deny
<1> QED  BY <1>1, <1>5, <1>6, <1>7, <1>8 DEF CounterStep

\* For a careful user alone on one device photoLimit is an atomic counter, for any
\* limit, photos and numbers of operations, and however often the connection breaks:
\* every photo granted takes one, and one is denied only when none is left.
THEOREM AloneCountsExactly == Careful => (Spec => CountsExactly)
<1> SUFFICES ASSUME Careful  PROVE Spec => CountsExactly
  OBVIOUS
<1>1. Init => Counter!Init
  BY InitAlone DEF Careful, Counter!Init, Init
<1>2. Spec => []AloneInv  BY AlwaysAlone
<1>3. AloneInv /\ [Next]_vars => [Counter!Next]_(Counter!counter)  BY CounterSteps
<1> QED  BY <1>1, <1>2, <1>3, PTL DEF Spec, CountsExactly, Counter!Spec
=============================================================================
