------------------------- MODULE EsmpMeaningProofs -------------------------
(***************************************************************************)
(* Proofs that EsmpParser finds what EsmpDocument says a document means:   *)
(* it accepts exactly the legal documents, and emits exactly the readings  *)
(* of their points, in order. The argument is an invariant, Knowing, that  *)
(* ties the parser's locals to the part of the document before its cursor; *)
(* it is kept token by token, because the meaning of a token can be        *)
(* computed from that of the token before it.                              *)
(***************************************************************************)
EXTENDS EsmpProofs, WellFoundedInduction, SequenceTheorems, FiniteSetTheorems

-----------------------------------------------------------------------------
(* Batches: concatenating them is concatenating one more at a time.        *)

(* f is what FlattenSeq computes from the batches s.                       *)
Flattens(f, s) == f = [i \in 1 .. Len(s) |-> IF i = 1 THEN s[i] ELSE f[i - 1] \o s[i]]

LEMMA SmallestExists ==
    ASSUME NEW S \in SUBSET Nat, S # {}
    PROVE  \E n \in S : \A m \in S : n <= m
<1> DEFINE R == OpToRel(<, Nat)
<1>1. PICK x \in S : \A y \in S : <<y, x>> \notin R
  <2>1. IsWellFoundedOn(R, Nat)
    BY NatLessThanWellFounded
  <2> HIDE DEF R
  <2> QED
    BY <2>1, WFMin
<1>2. \A y \in S : x <= y
  <2> SUFFICES ASSUME NEW y \in S, y < x PROVE FALSE
    OBVIOUS
  <2>1. <<y, x>> \in R
    BY DEF OpToRel
  <2> QED
    BY <1>1, <2>1
<1> QED
  BY <1>2

LEMMA OneFlattening ==
    ASSUME NEW s, Len(s) \in Nat, NEW f, NEW g, Flattens(f, s), Flattens(g, s)
    PROVE  f = g
<1> DEFINE D == 1 .. Len(s)
<1> DEFINE Bad == {i \in D : f[i] # g[i]}
<1>1. f = [i \in D |-> f[i]] /\ g = [i \in D |-> g[i]]
  BY DEF Flattens
<1>2. \A i \in D : /\ f[i] = IF i = 1 THEN s[i] ELSE f[i - 1] \o s[i]
                   /\ g[i] = IF i = 1 THEN s[i] ELSE g[i - 1] \o s[i]
  BY Zenon DEF Flattens
<1>3. SUFFICES ASSUME Bad # {} PROVE FALSE
  BY <1>1
<1>4. PICK n \in Bad : \A m \in Bad : n <= m
  <2>1. Bad \in SUBSET Nat
    OBVIOUS
  <2> QED
    BY <1>3, <2>1, SmallestExists
<1>5. n # 1
  BY <1>2, <1>4
<1>6. n - 1 \in D /\ n - 1 \notin Bad
  BY <1>4, <1>5
<1> QED
  BY <1>2, <1>4, <1>5, <1>6

LEMMA FlatteningExists ==
    ASSUME NEW s, Len(s) \in Nat
    PROVE  \E f : Flattens(f, s)
<1> DEFINE Upto(f, m) == f = [i \in 1 .. m |-> IF i = 1 THEN s[i] ELSE f[i - 1] \o s[i]]
<1> DEFINE Bad == {m \in Nat : ~ \E f : Upto(f, m)}
<1>1. SUFFICES ASSUME Bad # {} PROVE FALSE
  <2>1. Len(s) \notin Bad
    BY <1>1
  <2> QED
    BY <2>1 DEF Flattens
<1>2. PICK m \in Bad : \A k \in Bad : m <= k
  BY <1>1, SmallestExists
<1>3. m # 0
  <2>1. Upto([i \in 1 .. 0 |-> <<>>], 0)
    OBVIOUS
  <2> QED
    BY <1>2, <2>1
<1>4. m \in Nat /\ m - 1 \in Nat /\ m - 1 \notin Bad
  <2>1. m \in Nat
    BY <1>2
  <2> HIDE DEF Bad
  <2> QED
    BY <1>2, <1>3, <2>1
<1>5. PICK f : Upto(f, m - 1)
  BY <1>4
<1> DEFINE Last1 == IF m = 1 THEN s[m] ELSE f[m - 1] \o s[m]
<1> DEFINE g == [i \in 1 .. m |-> IF i = m THEN Last1 ELSE f[i]]
<1>6. \A i \in 1 .. m : g[i] = IF i = 1 THEN s[i] ELSE g[i - 1] \o s[i]
  <2> SUFFICES ASSUME NEW i \in 1 .. m PROVE g[i] = IF i = 1 THEN s[i] ELSE g[i - 1] \o s[i]
    OBVIOUS
  <2>1. CASE i = m
    BY <1>4, <2>1
  <2>2. CASE i # m
    <3>1. i \in 1 .. m - 1 /\ (i # 1 => i - 1 \in 1 .. m /\ i - 1 # m)
      BY <1>4, <2>2
    <3>2. f[i] = IF i = 1 THEN s[i] ELSE f[i - 1] \o s[i]
      BY <1>5, <3>1
    <3> QED
      BY <2>2, <3>1, <3>2
  <2> QED
    BY <2>1, <2>2
<1>7. Upto(g, m)
  <2> HIDE DEF Last1
  <2>1. g = [i \in 1 .. m |-> g[i]]
    OBVIOUS
  <2> HIDE DEF g
  <2> QED
    BY <1>6, <2>1
<1> QED
  BY <1>2, <1>7

LEMMA FlattenIs ==
    ASSUME NEW s, Len(s) \in Nat, Len(s) # 0, NEW f, Flattens(f, s)
    PROVE  FlattenSeq(s) = f[Len(s)]
<1> DEFINE F == CHOOSE h : h = [i \in 1 .. Len(s) |-> IF i = 1 THEN s[i] ELSE h[i - 1] \o s[i]]
<1>1. FlattenSeq(s) = F[Len(s)]
  BY DEF FlattenSeq
<1>2. Flattens(F, s)
  BY DEF Flattens
<1> HIDE DEF F
<1> QED
  BY <1>1, <1>2, OneFlattening

LEMMA FlattenType ==
    ASSUME NEW X, NEW s \in Seq(Seq(X))
    PROVE  FlattenSeq(s) \in Seq(X)
<1>1. CASE Len(s) = 0
  BY <1>1 DEF FlattenSeq
<1>2. CASE Len(s) # 0
  <2>1. PICK f : Flattens(f, s)
    BY FlatteningExists
  <2> DEFINE Bad == {i \in 1 .. Len(s) : f[i] \notin Seq(X)}
  <2>2. SUFFICES ASSUME Bad # {} PROVE FALSE
    <3>1. Len(s) \in 1 .. Len(s)
      BY <1>2
    <3>2. f[Len(s)] \in Seq(X)
      BY <2>2, <3>1
    <3> QED
      BY <1>2, <2>1, <3>2, FlattenIs
  <2>3. PICK i \in Bad : \A j \in Bad : i <= j
    <3>1. Bad \in SUBSET Nat
      OBVIOUS
    <3> QED
      BY <2>2, <3>1, SmallestExists
  <2>4. f[i] = IF i = 1 THEN s[i] ELSE f[i - 1] \o s[i]
    BY <2>1, <2>3, Zenon DEF Flattens
  <2>5. i # 1
    BY <2>3, <2>4
  <2>6. i - 1 \in 1 .. Len(s) /\ i - 1 \notin Bad
    BY <2>3, <2>5
  <2>7. f[i - 1] \in Seq(X) /\ s[i] \in Seq(X)
    BY <2>3, <2>6
  <2>8. f[i - 1] \o s[i] \in Seq(X)
    BY <2>7
  <2> QED
    BY <2>3, <2>4, <2>5, <2>8
<1> QED
  BY <1>1, <1>2

LEMMA FlattenAppend ==
    ASSUME NEW X, NEW s \in Seq(Seq(X)), NEW r \in Seq(X)
    PROVE  FlattenSeq(Append(s, r)) = FlattenSeq(s) \o r
<1> DEFINE t == Append(s, r)
<1> DEFINE n == Len(s)
<1>1. t \in Seq(Seq(X)) /\ Len(t) = n + 1 /\ t[n + 1] = r /\ \A i \in 1 .. n : t[i] = s[i]
  OBVIOUS
<1> HIDE DEF t
<1>2. PICK f : Flattens(f, t)
  <2>1. Len(t) \in Nat
    BY <1>1
  <2> QED
    BY <2>1, FlatteningExists
<1>3. FlattenSeq(t) = f[n + 1]
  BY <1>1, <1>2, FlattenIs
<1>4. \A i \in 1 .. n + 1 : f[i] = IF i = 1 THEN t[i] ELSE f[i - 1] \o t[i]
  BY <1>1, <1>2, Zenon DEF Flattens
<1>5. CASE n = 0
  <2>1. f[n + 1] = r
    BY <1>1, <1>4, <1>5
  <2>2. FlattenSeq(s) = <<>>
    BY <1>5 DEF FlattenSeq
  <2> QED
    BY <1>3, <2>1, <2>2 DEF t
<1>6. CASE n # 0
  <2> DEFINE g == [i \in 1 .. n |-> f[i]]
  <2>1. \A i \in 1 .. n : g[i] = IF i = 1 THEN s[i] ELSE g[i - 1] \o s[i]
    <3> SUFFICES ASSUME NEW i \in 1 .. n PROVE g[i] = IF i = 1 THEN s[i] ELSE g[i - 1] \o s[i]
      OBVIOUS
    <3>1. i \in 1 .. n + 1 /\ t[i] = s[i] /\ (i # 1 => i - 1 \in 1 .. n)
      BY <1>1
    <3> QED
      BY <1>4, <3>1
  <2>2. g = [i \in 1 .. n |-> g[i]]
    OBVIOUS
  <2>3. g[n] = f[n]
    BY <1>6
  <2> HIDE DEF g
  <2>4. Flattens(g, s)
    BY <2>1, <2>2 DEF Flattens
  <2>5. FlattenSeq(s) = f[n]
    BY <1>6, <2>3, <2>4, FlattenIs
  <2>6. f[n + 1] = f[n] \o r
    <3>1. n + 1 \in 1 .. n + 1 /\ n + 1 # 1 /\ (n + 1) - 1 = n
      BY <1>6
    <3> QED
      BY <1>1, <1>4, <3>1
  <2> QED
    BY <1>3, <2>5, <2>6 DEF t
<1> QED
  BY <1>5, <1>6
-----------------------------------------------------------------------------
(* The parser stands where the document nests.                             *)
Stands(d, i, l) ==
    /\ l \in {"document", "series", "period"}
    /\ Encloser(d, "series", i) # 0 <=> l # "document"
    /\ InPeriod(d, i) <=> l = "period"

(* The element at around token i has shown a token el.                     *)
Shown(d, at, el, i) == \E j \in Encloser(d, at, i) .. i - 1 : d[j].el = el

(* The locals of parseTimeSeries hold the last scalars of the series, and  *)
(* whether it has shown a Period.                                          *)
SeriesTold(d, i, s) ==
    /\ \A el \in Scalars : s.scalar[el] = SeriesVal(d, el, i)
    /\ s.periodSeen <=> Shown(d, "series", "period", i)

(* The locals of parsePeriod hold its meter, its last interval and         *)
(* resolution, and whether it has shown a Point, which then had all of     *)
(* them.                                                                   *)
PeriodTold(d, i, p) ==
    /\ p.meter = MeterOf(d, i)
    /\ p.start = PeriodNum(d, "timeInterval", i)
    /\ p.resolution = PeriodNum(d, "resolution", i)
    /\ p.haveStart <=> PeriodLeaves(d, "timeInterval", i) # {}
    /\ p.haveRes <=> PeriodLeaves(d, "resolution", i) # {}
    /\ p.pointSeen <=> Shown(d, "period", "Point", i)

(* The tokens before i are those of a legal document.                      *)
LegalBefore(d, i) ==
    \A j \in 1 .. i - 1 : LegalLeaf(d, j) /\ (j \in PointsAt(d) => LegalPoint(d, j))

PointsBefore(d, i) == {j \in PointsAt(d) : j < i}

Located == WellNested(doc) /\ Stands(doc, pos, level)
SeriesKnown == level # "document" => SeriesTold(doc, pos, series)
PeriodKnown ==
    level = "period" =>
        series.periodSeen /\ PeriodTold(doc, pos, period) /\ (period.pointSeen => PointContext)
Counted == total = Cardinality(PointsBefore(doc, pos))
Unfinished == result = "running" => \A j \in 1 .. pos - 1 : doc[j].el # "root"
Knowing == Located /\ SeriesKnown /\ PeriodKnown /\ LegalBefore(doc, pos) /\ Counted /\ Unfinished

Decided ==
    /\ result = "ok" => pos = Len(doc) + 1 /\ doc # <<>> /\ Is(doc[Len(doc)], "root", "close") /\ batch = <<>>
    /\ result = "malformed" => ~Legal(doc)
-----------------------------------------------------------------------------
(* Documents: how the meaning of the token i + 1 follows from that of i.   *)
LEMMA MaxIs ==
    ASSUME NEW S \in SUBSET Int, NEW n \in S, \A m \in S : m <= n
    PROVE  Max(S) = n
<1>1. \A m \in S : n >= m
  OBVIOUS
<1>2. ASSUME NEW x \in S, \A m \in S : x >= m PROVE x = n
  BY <1>2
<1> QED
  BY <1>1, <1>2 DEF Max

LEMMA LargestIsMax ==
    ASSUME NEW b \in Nat, NEW S \in SUBSET (0 .. b), S # {}
    PROVE  Max(S) \in S /\ \A n \in S : n <= Max(S)
<1> DEFINE T == {b - n : n \in S}
<1>1. T \in SUBSET Nat /\ T # {}
  <2>1. \A n \in S : b - n \in Nat
    OBVIOUS
  <2>2. \A t \in T : t \in Nat
    BY <2>1
  <2>3. PICK n \in S : TRUE
    OBVIOUS
  <2>4. b - n \in T
    BY <2>3
  <2> QED
    BY <2>2, <2>4
<1>2. PICK t \in T : \A u \in T : t <= u
  BY <1>1, SmallestExists
<1>3. PICK x \in S : t = b - x
  BY <1>2
<1>4. \A n \in S : n <= x
  <2> SUFFICES ASSUME NEW n \in S PROVE n <= x
    OBVIOUS
  <2>1. b - x <= b - n
    BY <1>2, <1>3
  <2> QED
    BY <2>1
<1>5. S \in SUBSET Int
  OBVIOUS
<1> QED
  BY <1>3, <1>4, <1>5, MaxIs

LEMMA EncloserType ==
    ASSUME NEW d, NEW el, NEW i \in Nat \ {0}
    PROVE  /\ Encloser(d, el, i) \in 0 .. i - 1
           /\ Encloser(d, el, i) # 0 => Encloser(d, el, i) \in Opened(d, el, i)
<1> DEFINE S == {0} \cup Opened(d, el, i)
<1>1. i - 1 \in Nat /\ S \in SUBSET (0 .. i - 1) /\ S # {}
  BY DEF Opened
<1>2. Encloser(d, el, i) \in S
  BY <1>1, LargestIsMax DEF Encloser
<1> QED
  BY <1>1, <1>2

LEMMA NothingEncloses == ASSUME NEW d, NEW el PROVE Encloser(d, el, 1) = 0
<1>1. Opened(d, el, 1) = {}
  BY DEF Opened
<1> QED
  BY <1>1, MaxIs DEF Encloser

(* A start tag encloses what follows, an end tag encloses nothing, another *)
(* token changes nothing.                                                  *)
LEMMA EncloserStep ==
    ASSUME NEW d, NEW el, NEW i \in Nat \ {0}
    PROVE  /\ Is(d[i], el, "open") => Encloser(d, el, i + 1) = i
           /\ Is(d[i], el, "close") => Encloser(d, el, i + 1) = 0
           /\ ~Is(d[i], el, "open") /\ ~Is(d[i], el, "close") => Encloser(d, el, i + 1) = Encloser(d, el, i)
<1> DEFINE O == Opened(d, el, i)
<1> DEFINE N == Opened(d, el, i + 1)
<1>0. i \in 1 .. i + 1 - 1 /\ 1 .. (i + 1) - 1 = (1 .. i - 1) \cup {i}
  OBVIOUS
<1>1. CASE Is(d[i], el, "open")
  <2>1. i \in N
    BY <1>0, <1>1 DEF Opened, Is
  <2>2. {0} \cup N \in SUBSET Int /\ \A m \in {0} \cup N : m <= i
    BY DEF Opened
  <2>3. Max({0} \cup N) = i
    BY <2>1, <2>2, MaxIs
  <2> QED
    BY <1>1, <2>3 DEF Encloser, Is
<1>2. CASE Is(d[i], el, "close")
  <2>1. \A j \in 1 .. (i + 1) - 1 : i \in j .. (i + 1) - 1
    OBVIOUS
  <2>2. N = {}
    BY <1>2, <2>1 DEF Opened
  <2> HIDE DEF N
  <2>3. Max({0} \cup N) = 0
    BY <2>2, MaxIs
  <2> QED
    BY <1>2, <2>3 DEF Encloser, Is, N
<1>3. CASE ~Is(d[i], el, "open") /\ ~Is(d[i], el, "close")
  <2>1. \A j \in 1 .. i - 1 : j .. (i + 1) - 1 = (j .. i - 1) \cup {i}
    OBVIOUS
  <2>2. N = O
    <3>1. ASSUME NEW j \in 1 .. i - 1
          PROVE  (\E k \in j .. (i + 1) - 1 : Is(d[k], el, "close")) <=> \E k \in j .. i - 1 : Is(d[k], el, "close")
      <4>1. j .. (i + 1) - 1 = (j .. i - 1) \cup {i}
        BY <2>1
      <4> QED
        BY <1>3, <4>1
    <3>2. \A j \in N : j \in 1 .. i - 1
      BY <1>0, <1>3 DEF Opened
    <3>3. \A j \in O : j \in 1 .. (i + 1) - 1
      BY <1>0 DEF Opened
    <3> QED
      BY <3>1, <3>2, <3>3, Zenon DEF Opened
  <2> QED
    BY <1>3, <2>2 DEF Encloser
<1> QED
  BY <1>1, <1>2, <1>3

LEMMA TokenAt == ASSUME NEW d \in Seq(Tokens), NEW i \in 1 .. Len(d) PROVE d[i] \in Tokens
  OBVIOUS

(* The level a token leads to.                                             *)
LevelAfter(t, l) ==
    CASE t.el = "series" -> IF t.val = "open" THEN "series" ELSE "document"
      [] t.el = "period" -> IF t.val = "open" THEN "period" ELSE "series"
      [] OTHER -> l

(* Where a token that opens or closes an element can stand.                *)
LEMMA TokenFits ==
    ASSUME NEW d, WellNested(d), NEW i \in 1 .. Len(d), NEW l, Stands(d, i, l)
    PROVE  /\ d[i].el = "series" =>
                 \/ Is(d[i], "series", "open") /\ l = "document"
                 \/ Is(d[i], "series", "close") /\ l = "series"
           /\ d[i].el = "period" =>
                 \/ Is(d[i], "period", "open") /\ l = "series"
                 \/ Is(d[i], "period", "close") /\ l = "period"
           /\ d[i].el = "root" => Is(d[i], "root", "close") /\ l = "document" /\ i = Len(d)
<1>1. l \in {"document", "series", "period"}
  BY DEF Stands
<1>2. (Encloser(d, "series", i) # 0 <=> l # "document") /\ (InPeriod(d, i) <=> l = "period")
  BY DEF Stands
<1>3. CASE d[i].el = "series"
  BY <1>1, <1>2, <1>3 DEF WellNested, InSeries, Is
<1>4. CASE d[i].el = "period"
  BY <1>1, <1>2, <1>4 DEF WellNested, Is
<1>5. CASE d[i].el = "root"
  BY <1>1, <1>2, <1>5 DEF WellNested, Is
<1> QED
  BY <1>3, <1>4, <1>5

LEMMA StandsStep ==
    ASSUME NEW d \in Seq(Tokens), WellNested(d), NEW i \in 1 .. Len(d), NEW l, Stands(d, i, l)
    PROVE  Stands(d, i + 1, LevelAfter(d[i], l))
<1>0. i \in Nat \ {0}
  OBVIOUS
<1>1. l \in {"document", "series", "period"}
  BY DEF Stands
<1>2. (Encloser(d, "series", i) # 0 <=> l # "document") /\ (Encloser(d, "period", i) # 0 <=> l = "period")
  BY DEF Stands, InPeriod
<1>3. CASE d[i].el = "series"
  BY <1>0, <1>2, <1>3, TokenFits, EncloserStep DEF Stands, InPeriod, LevelAfter, Is
<1>4. CASE d[i].el = "period"
  BY <1>0, <1>2, <1>4, TokenFits, EncloserStep DEF Stands, InPeriod, LevelAfter, Is
<1>5. CASE d[i].el \notin {"series", "period"}
  BY <1>0, <1>1, <1>2, <1>5, EncloserStep DEF Stands, InPeriod, LevelAfter, Is
<1> QED
  BY <1>3, <1>4, <1>5

(* What the leaves of the series and of the period around a token become.  *)
LEMMA SeriesLeavesStep ==
    ASSUME NEW d, NEW i \in Nat \ {0}, NEW el
    PROVE  /\ d[i].el # "series" =>
                 SeriesLeaves(d, el, i + 1) =
                    SeriesLeaves(d, el, i) \cup (IF d[i].el = el /\ InSeries(d, i) THEN {i} ELSE {})
           /\ Is(d[i], "series", "open") /\ el # "series" => SeriesLeaves(d, el, i + 1) = {}
<1> DEFINE E == Encloser(d, "series", i)
<1>1. E \in 0 .. i - 1
  BY EncloserType
<1>2. ASSUME d[i].el # "series"
      PROVE  SeriesLeaves(d, el, i + 1) =
                SeriesLeaves(d, el, i) \cup (IF d[i].el = el /\ InSeries(d, i) THEN {i} ELSE {})
  <2>1. Encloser(d, "series", i + 1) = E
    BY <1>2, EncloserStep DEF Is
  <2>2. E .. (i + 1) - 1 = (E .. i - 1) \cup {i}
    BY <1>1
  <2> HIDE DEF E
  <2> QED
    BY <2>1, <2>2 DEF SeriesLeaves, E
<1>3. ASSUME Is(d[i], "series", "open"), el # "series"
      PROVE  SeriesLeaves(d, el, i + 1) = {}
  <2>1. Encloser(d, "series", i + 1) = i
    BY <1>3, EncloserStep
  <2>2. i .. (i + 1) - 1 = {i} /\ d[i].el # el
    BY <1>3 DEF Is
  <2> QED
    BY <2>1, <2>2 DEF SeriesLeaves
<1> QED
  BY <1>2, <1>3

LEMMA PeriodLeavesStep ==
    ASSUME NEW d, NEW i \in Nat \ {0}, NEW el
    PROVE  /\ d[i].el # "period" =>
                 PeriodLeaves(d, el, i + 1) = PeriodLeaves(d, el, i) \cup (IF d[i].el = el THEN {i} ELSE {})
           /\ Is(d[i], "period", "open") /\ el # "period" => PeriodLeaves(d, el, i + 1) = {}
<1> DEFINE E == Encloser(d, "period", i)
<1>1. E \in 0 .. i - 1
  BY EncloserType
<1>2. ASSUME d[i].el # "period"
      PROVE  PeriodLeaves(d, el, i + 1) = PeriodLeaves(d, el, i) \cup (IF d[i].el = el THEN {i} ELSE {})
  <2>1. Encloser(d, "period", i + 1) = E
    BY <1>2, EncloserStep DEF Is
  <2>2. E .. (i + 1) - 1 = (E .. i - 1) \cup {i}
    BY <1>1
  <2> HIDE DEF E
  <2> QED
    BY <2>1, <2>2 DEF PeriodLeaves, E
<1>3. ASSUME Is(d[i], "period", "open"), el # "period"
      PROVE  PeriodLeaves(d, el, i + 1) = {}
  <2>1. Encloser(d, "period", i + 1) = i
    BY <1>3, EncloserStep
  <2>2. i .. (i + 1) - 1 = {i} /\ d[i].el # el
    BY <1>3 DEF Is
  <2> QED
    BY <2>1, <2>2 DEF PeriodLeaves
<1> QED
  BY <1>2, <1>3

(* The value in force is that of the last of them.                         *)
LEMMA LastAdded ==
    ASSUME NEW i \in Nat, NEW S \in SUBSET (0 .. i - 1)
    PROVE  Max(S \cup {i}) = i
<1>1. S \cup {i} \in SUBSET Int /\ \A m \in S \cup {i} : m <= i
  OBVIOUS
<1> QED
  BY <1>1, MaxIs

LEMMA SeriesValStep ==
    ASSUME NEW d, NEW i \in Nat \ {0}, NEW el
    PROVE  /\ d[i].el # "series" =>
                 SeriesVal(d, el, i + 1) = IF d[i].el = el /\ InSeries(d, i) THEN d[i].val ELSE SeriesVal(d, el, i)
           /\ Is(d[i], "series", "open") /\ el # "series" => SeriesVal(d, el, i + 1) = ""
<1>1. SeriesLeaves(d, el, i) \in SUBSET (0 .. i - 1)
  BY EncloserType DEF SeriesLeaves
<1>2. Max(SeriesLeaves(d, el, i) \cup {i}) = i
  BY <1>1, LastAdded
<1>3. CASE d[i].el # "series"
  <2>1. CASE d[i].el = el /\ InSeries(d, i)
    <3>1. SeriesLeaves(d, el, i + 1) = SeriesLeaves(d, el, i) \cup {i}
      BY <1>3, <2>1, SeriesLeavesStep
    <3>2. SeriesVal(d, el, i + 1) = d[i].val
      BY <1>2, <3>1 DEF SeriesVal
    <3> QED
      BY <1>3, <2>1, <3>2 DEF Is
  <2>2. CASE ~(d[i].el = el /\ InSeries(d, i))
    <3>1. SeriesLeaves(d, el, i + 1) = SeriesLeaves(d, el, i)
      <4>1. SeriesLeaves(d, el, i + 1) = SeriesLeaves(d, el, i) \cup {}
        BY <1>3, <2>2, SeriesLeavesStep
      <4> QED
        BY <4>1
    <3>2. SeriesVal(d, el, i + 1) = SeriesVal(d, el, i)
      BY <3>1 DEF SeriesVal
    <3> QED
      BY <1>3, <2>2, <3>2 DEF Is
  <2> QED
    BY <2>1, <2>2
<1>4. CASE Is(d[i], "series", "open")
  BY <1>4, SeriesLeavesStep DEF SeriesVal, Is
<1> QED
  BY <1>3, <1>4

LEMMA PeriodNumStep ==
    ASSUME NEW d, NEW i \in Nat \ {0}, NEW el
    PROVE  /\ d[i].el # "period" =>
                 PeriodNum(d, el, i + 1) = IF d[i].el = el THEN d[i].num ELSE PeriodNum(d, el, i)
           /\ Is(d[i], "period", "open") /\ el # "period" => PeriodNum(d, el, i + 1) = 0
<1>1. PeriodLeaves(d, el, i) \in SUBSET (0 .. i - 1)
  BY EncloserType DEF PeriodLeaves
<1>2. Max(PeriodLeaves(d, el, i) \cup {i}) = i
  BY <1>1, LastAdded
<1>3. CASE d[i].el # "period"
  <2>1. CASE d[i].el = el
    <3>1. PeriodLeaves(d, el, i + 1) = PeriodLeaves(d, el, i) \cup {i}
      BY <1>3, <2>1, PeriodLeavesStep
    <3>2. PeriodNum(d, el, i + 1) = d[i].num
      BY <1>2, <3>1 DEF PeriodNum
    <3> QED
      BY <1>3, <2>1, <3>2 DEF Is
  <2>2. CASE ~(d[i].el = el)
    <3>1. PeriodLeaves(d, el, i + 1) = PeriodLeaves(d, el, i)
      <4>1. PeriodLeaves(d, el, i + 1) = PeriodLeaves(d, el, i) \cup {}
        BY <1>3, <2>2, PeriodLeavesStep
      <4> QED
        BY <4>1
    <3>2. PeriodNum(d, el, i + 1) = PeriodNum(d, el, i)
      BY <3>1 DEF PeriodNum
    <3> QED
      BY <1>3, <2>2, <3>2 DEF Is
  <2> QED
    BY <2>1, <2>2
<1>4. CASE Is(d[i], "period", "open")
  BY <1>4, PeriodLeavesStep DEF PeriodNum, Is
<1> QED
  BY <1>3, <1>4

(* Whether the element has shown a token el.                               *)
LEMMA ShownStep ==
    ASSUME NEW d, NEW i \in Nat \ {0}, NEW at, NEW el
    PROVE  /\ d[i].el # at => (Shown(d, at, el, i + 1) <=> Shown(d, at, el, i) \/ d[i].el = el)
           /\ Is(d[i], at, "open") /\ el # at => ~Shown(d, at, el, i + 1)
<1> DEFINE E == Encloser(d, at, i)
<1>1. E \in 0 .. i - 1
  BY EncloserType
<1>2. CASE d[i].el # at
  <2>1. Encloser(d, at, i + 1) = E
    BY <1>2, EncloserStep DEF Is
  <2>2. E .. (i + 1) - 1 = (E .. i - 1) \cup {i}
    BY <1>1
  <2> HIDE DEF E
  <2>3. (\E k \in E .. (i + 1) - 1 : d[k].el = el) <=> (\E k \in E .. i - 1 : d[k].el = el) \/ d[i].el = el
    BY <2>2
  <2> QED
    BY <1>2, <2>1, <2>3 DEF E, Is, Shown
<1>3. CASE Is(d[i], at, "open") /\ el # at
  <2>1. Encloser(d, at, i + 1) = i
    BY <1>3, EncloserStep
  <2>2. i .. (i + 1) - 1 = {i} /\ d[i].el # el
    BY <1>3 DEF Is
  <2> QED
    BY <1>3, <2>1, <2>2 DEF Is, Shown
<1> QED
  BY <1>2, <1>3 DEF Is
-----------------------------------------------------------------------------
(* What the parser knows, from one token to the next.                      *)
LEMMA SeriesOpens ==
    ASSUME NEW d, NEW i \in Nat \ {0}, Is(d[i], "series", "open")
    PROVE  SeriesTold(d, i + 1, NewSeries)
<1>1. \A el \in Scalars : el # "series" /\ NewSeries.scalar[el] = ""
  BY DEF NewSeries, Scalars
<1>2. \A el \in Scalars : SeriesVal(d, el, i + 1) = ""
  BY <1>1, SeriesValStep
<1>3. ~ Shown(d, "series", "period", i + 1)
  BY ShownStep
<1>4. NewSeries.periodSeen = FALSE
  BY DEF NewSeries
<1> QED
  BY <1>1, <1>2, <1>3, <1>4 DEF SeriesTold

LEMMA SeriesReads ==
    ASSUME NEW d, NEW i \in Nat \ {0}, InSeries(d, i), d[i].el \in Scalars,
           NEW s \in [scalar : [Scalars -> Text], periodSeen : BOOLEAN], SeriesTold(d, i, s)
    PROVE  SeriesTold(d, i + 1, [s EXCEPT !.scalar[d[i].el] = d[i].val])
<1> DEFINE n == [s EXCEPT !.scalar[d[i].el] = d[i].val]
<1>1. d[i].el # "series" /\ d[i].el # "period"
  BY DEF Scalars
<1>2. /\ n.periodSeen = s.periodSeen
      /\ \A el \in Scalars : n.scalar[el] = IF d[i].el = el THEN d[i].val ELSE s.scalar[el]
  OBVIOUS
<1> HIDE DEF n
<1>3. ASSUME NEW el \in Scalars PROVE n.scalar[el] = SeriesVal(d, el, i + 1)
  <2>1. SeriesVal(d, el, i + 1) = IF d[i].el = el THEN d[i].val ELSE SeriesVal(d, el, i)
    BY <1>1, SeriesValStep
  <2>2. s.scalar[el] = SeriesVal(d, el, i)
    BY DEF SeriesTold
  <2> QED
    BY <1>2, <2>1, <2>2
<1>4. n.periodSeen <=> Shown(d, "series", "period", i + 1)
  BY <1>1, <1>2, ShownStep DEF SeriesTold
<1>5. SeriesTold(d, i + 1, n)
  BY <1>3, <1>4 DEF SeriesTold
<1> QED
  BY <1>5 DEF n

(* A token that is neither a scalar of the series nor ends it says nothing *)
(* of it, but a Period is noted.                                           *)
LEMMA SeriesKeeps ==
    ASSUME NEW d, NEW i \in Nat \ {0}, d[i].el # "series", ~(InSeries(d, i) /\ d[i].el \in Scalars),
           NEW s, SeriesTold(d, i, s), NEW n, n.scalar = s.scalar,
           n.periodSeen <=> s.periodSeen \/ d[i].el = "period"
    PROVE  SeriesTold(d, i + 1, n)
<1>1. \A el \in Scalars : SeriesVal(d, el, i + 1) = SeriesVal(d, el, i)
  BY SeriesValStep
<1>2. n.periodSeen <=> Shown(d, "series", "period", i + 1)
  BY ShownStep DEF SeriesTold
<1> QED
  BY <1>1, <1>2 DEF SeriesTold

LEMMA MeterKeeps ==
    ASSUME NEW d, NEW i \in Nat \ {0}, d[i].el # "series", ~(InSeries(d, i) /\ d[i].el \in Scalars)
    PROVE  MeterOf(d, i + 1) = MeterOf(d, i)
<1>1. \A el \in Scalars : SeriesVal(d, el, i + 1) = SeriesVal(d, el, i)
  BY SeriesValStep
<1> QED
  BY <1>1 DEF MeterOf, Scalars

LEMMA PeriodOpens ==
    ASSUME NEW d, NEW i \in Nat \ {0}, Is(d[i], "period", "open")
    PROVE  PeriodTold(d, i + 1, [NewPeriod EXCEPT !.meter = MeterOf(d, i)])
<1> DEFINE n == [NewPeriod EXCEPT !.meter = MeterOf(d, i)]
<1>1. /\ n.meter = MeterOf(d, i) /\ n.start = 0 /\ n.resolution = 0
      /\ n.haveStart = FALSE /\ n.haveRes = FALSE /\ n.pointSeen = FALSE
  BY DEF NewPeriod
<1> HIDE DEF n
<1>2. n.meter = MeterOf(d, i + 1)
  BY <1>1, MeterKeeps DEF Is, Scalars
<1>3. \A el \in {"timeInterval", "resolution"} : PeriodNum(d, el, i + 1) = 0 /\ PeriodLeaves(d, el, i + 1) = {}
  BY PeriodNumStep, PeriodLeavesStep
<1>4. ~ Shown(d, "period", "Point", i + 1)
  BY ShownStep
<1>5. PeriodTold(d, i + 1, n)
  BY <1>1, <1>2, <1>3, <1>4 DEF PeriodTold
<1> QED
  BY <1>5 DEF n

(* A token inside the period: its interval, its resolution and its Points  *)
(* are noted, anything else leaves the locals alone.                       *)
LEMMA PeriodReads ==
    ASSUME NEW d, NEW i \in Nat \ {0}, InPeriod(d, i), d[i].el \notin {"series", "period"},
           NEW p, PeriodTold(d, i, p), NEW n, n.meter = p.meter,
           n.start = IF d[i].el = "timeInterval" THEN d[i].num ELSE p.start,
           n.haveStart <=> p.haveStart \/ d[i].el = "timeInterval",
           n.resolution = IF d[i].el = "resolution" THEN d[i].num ELSE p.resolution,
           n.haveRes <=> p.haveRes \/ d[i].el = "resolution",
           n.pointSeen <=> p.pointSeen \/ d[i].el = "Point"
    PROVE  PeriodTold(d, i + 1, n)
<1>1. n.meter = MeterOf(d, i + 1)
  BY MeterKeeps DEF InSeries, PeriodTold
<1>2. n.start = PeriodNum(d, "timeInterval", i + 1) /\ n.resolution = PeriodNum(d, "resolution", i + 1)
  BY PeriodNumStep DEF PeriodTold
<1>3. ASSUME NEW el
      PROVE  PeriodLeaves(d, el, i + 1) # {} <=> PeriodLeaves(d, el, i) # {} \/ d[i].el = el
  <2>1. PeriodLeaves(d, el, i + 1) = PeriodLeaves(d, el, i) \cup (IF d[i].el = el THEN {i} ELSE {})
    BY PeriodLeavesStep
  <2> QED
    BY <2>1
<1>4. n.pointSeen <=> Shown(d, "period", "Point", i + 1)
  BY ShownStep DEF PeriodTold
<1> QED
  BY <1>1, <1>2, <1>3, <1>4 DEF PeriodTold

(* The points so far.                                                      *)
LEMMA PointsFinite ==
    ASSUME NEW d \in Seq(Tokens)
    PROVE  /\ IsFiniteSet(PointsAt(d)) /\ Cardinality(PointsAt(d)) \in Nat
           /\ \A S \in SUBSET PointsAt(d) : /\ IsFiniteSet(S) /\ Cardinality(S) \in Nat
                                            /\ Cardinality(S) <= Cardinality(PointsAt(d))
<1>1. IsFiniteSet(1 .. Len(d))
  BY FS_Interval
<1>2. PointsAt(d) \in SUBSET (1 .. Len(d))
  BY DEF PointsAt
<1>3. IsFiniteSet(PointsAt(d))
  BY <1>1, <1>2, FS_Subset
<1> QED
  BY <1>3, FS_Subset, FS_CardinalityType

LEMMA PointsBeforeStep ==
    ASSUME NEW d \in Seq(Tokens), NEW i \in 1 .. Len(d)
    PROVE  /\ Cardinality(PointsBefore(d, i)) \in Nat
           /\ i \notin PointsAt(d) => PointsBefore(d, i + 1) = PointsBefore(d, i)
           /\ i \in PointsAt(d) => /\ Rank(d, i) = Cardinality(PointsBefore(d, i)) + 1
                                   /\ Cardinality(PointsBefore(d, i + 1)) = Cardinality(PointsBefore(d, i)) + 1
                                   /\ Cardinality(PointsBefore(d, i)) + 1 <= Cardinality(PointsAt(d))
<1> DEFINE B == PointsBefore(d, i)
<1>0. \A j \in PointsAt(d) : j \in Int
  BY DEF PointsAt
<1>1. B \in SUBSET PointsAt(d) /\ i \notin B
  BY DEF PointsBefore
<1>2. IsFiniteSet(B) /\ Cardinality(B) \in Nat
  BY <1>1, PointsFinite
<1>3. ASSUME i \notin PointsAt(d) PROVE PointsBefore(d, i + 1) = B
  BY <1>0, <1>3 DEF PointsBefore
<1>4. ASSUME i \in PointsAt(d)
      PROVE  PointsBefore(d, i + 1) = B \cup {i} /\ {j \in PointsAt(d) : j <= i} = B \cup {i}
  <2>1. \A j \in PointsAt(d) : (j < i + 1 <=> j < i \/ j = i) /\ (j <= i <=> j < i \/ j = i)
    BY <1>0
  <2> QED
    BY <1>4, <2>1, Zenon DEF PointsBefore
<1>5. Cardinality(B \cup {i}) = Cardinality(B) + 1
  <2> HIDE DEF B
  <2> QED
    BY <1>1, <1>2, FS_AddElement
<1>6. ASSUME i \in PointsAt(d) PROVE Cardinality(B \cup {i}) <= Cardinality(PointsAt(d))
  <2>1. B \cup {i} \in SUBSET PointsAt(d)
    BY <1>1, <1>6
  <2> HIDE DEF B
  <2> QED
    BY <2>1, PointsFinite
<1> QED
  BY <1>2, <1>3, <1>4, <1>5, <1>6 DEF Rank

(* A point further on has a greater rank.                                  *)
LEMMA RankGrows ==
    ASSUME NEW d \in Seq(Tokens), NEW i \in 1 .. Len(d) + 1, NEW j \in PointsAt(d)
    PROVE  /\ Rank(d, j) \in Nat \ {0}
           /\ j < i => Rank(d, j) <= Cardinality(PointsBefore(d, i))
           /\ j >= i => Rank(d, j) > Cardinality(PointsBefore(d, i))
<1> DEFINE R == {k \in PointsAt(d) : k <= j}
<1> DEFINE B == PointsBefore(d, i)
<1>0. \A k \in PointsAt(d) : k \in Int
  BY DEF PointsAt
<1>1. R \in SUBSET PointsAt(d) /\ B \in SUBSET PointsAt(d) /\ j \in R
  BY <1>0 DEF PointsBefore
<1>2. IsFiniteSet(R) /\ IsFiniteSet(B) /\ Cardinality(R) \in Nat /\ Cardinality(B) \in Nat
  BY <1>1, PointsFinite
<1>3. j < i => R \in SUBSET B
  BY <1>0 DEF PointsBefore
<1>4. j >= i => B \in SUBSET (R \ {j})
  BY <1>0 DEF PointsBefore
<1>5. Rank(d, j) = Cardinality(R)
  BY DEF Rank
<1> HIDE DEF R, B
<1>6. IsFiniteSet(R \ {j}) /\ Cardinality(R \ {j}) = Cardinality(R) - 1
  BY <1>1, <1>2, FS_RemoveElement
<1>7. Cardinality(R \ {j}) \in Nat
  BY <1>6, FS_CardinalityType
<1>8. j < i => Cardinality(R) <= Cardinality(B)
  BY <1>2, <1>3, FS_Subset
<1>9. j >= i => Cardinality(B) <= Cardinality(R \ {j})
  BY <1>4, <1>6, FS_Subset
<1> QED
  BY <1>2, <1>5, <1>6, <1>7, <1>8, <1>9 DEF B
-----------------------------------------------------------------------------
(* The steps that read a token, and the others, which leave all of the     *)
(* parser's state but its result alone.                                    *)
ScalarRead == SeriesScalar /\ ScalarAllowed /\ Token.val # "bad"
PeriodScalarRead == PeriodScalar /\ ~period.pointSeen /\ Token.val # "bad"
PointRead ==
    /\ PeriodPoint
    /\ period.pointSeen \/ PointContext
    /\ Token.val # "bad" /\ ~(Token.num < 1) /\ ~TooMany
Read ==
    \/ DocumentToken \/ FinishDocument \/ ScalarRead \/ OpenPeriod \/ SeriesOther
    \/ PeriodScalarRead \/ PointRead \/ PeriodOther
Stays ==
    /\ UNCHANGED <<doc, pos, level, series, period, batch, total, emitted>>
    /\ result' = "running" => result = "running"

LEMMA ReadsOrStays == ASSUME [Next]_vars PROVE Read \/ Stays
<1>1. CASE Truncated \/ DocumentCancelled
  BY <1>1 DEF Truncated, DocumentCancelled, Return, Stays
<1>2. CASE DocumentToken \/ FinishDocument \/ OpenPeriod \/ SeriesOther \/ PeriodOther
  BY <1>2 DEF Read
<1>3. CASE SeriesScalar
  BY <1>3 DEF SeriesScalar, Return, Stays, Read, ScalarRead
<1>4. CASE PeriodScalar
  BY <1>4 DEF PeriodScalar, Return, Stays, Read, PeriodScalarRead
<1>5. CASE PeriodPoint
  BY <1>5 DEF PeriodPoint, Return, Stays, Read, PointRead
<1>6. CASE Cancel \/ Done \/ UNCHANGED vars
  BY <1>6 DEF Cancel, Done, vars, Stays
<1> QED
  BY <1>1, <1>2, <1>3, <1>4, <1>5, <1>6 DEF Next, Parse

LEMMA PointReadAppends == ASSUME PointRead PROVE AppendPoint(Token.num)
  BY DEF PointRead, PeriodPoint

LEMMA ReadMoves ==
    ASSUME CursorType, Read
    PROVE  result = "running" /\ pos \in 1 .. Len(doc) /\ doc' = doc /\ pos' = pos + 1
<1>1. pos <= Len(doc) => pos \in 1 .. Len(doc)
  BY DEF CursorType
<1>2. CASE DocumentToken \/ FinishDocument
  BY <1>1, <1>2 DEF DocumentToken, FinishDocument, Running, Advance, At
<1>3. CASE ScalarRead
  BY <1>1, <1>3 DEF ScalarRead, SeriesScalar, Running, Advance
<1>4. CASE OpenPeriod \/ SeriesOther \/ PeriodOther
  BY <1>1, <1>4 DEF OpenPeriod, SeriesOther, PeriodOther, Running, Advance, At
<1>5. CASE PeriodScalarRead
  BY <1>1, <1>5 DEF PeriodScalarRead, PeriodScalar, Running, Advance
<1>6. CASE PointRead
  BY <1>1, <1>6, PointReadAppends DEF PointRead, PeriodPoint, AppendPoint, Running, Advance
<1> QED
  BY <1>2, <1>3, <1>4, <1>5, <1>6 DEF Read

(* Which level and which tokens each of them is about.                     *)
LEMMA Levels ==
    ASSUME CursorType, Located, Read
    PROVE  /\ level' = LevelAfter(Token, level)
           /\ level = "document" <=> DocumentToken \/ FinishDocument
           /\ level = "series" <=> ScalarRead \/ OpenPeriod \/ SeriesOther
           /\ level = "period" <=> PeriodScalarRead \/ PointRead \/ PeriodOther
<1> DEFINE t == doc[pos]
<1>1. pos \in 1 .. Len(doc)
  BY ReadMoves
<1>2. /\ t.el = "series" =>
            \/ Is(t, "series", "open") /\ level = "document"
            \/ Is(t, "series", "close") /\ level = "series"
      /\ t.el = "period" =>
            \/ Is(t, "period", "open") /\ level = "series"
            \/ Is(t, "period", "close") /\ level = "period"
      /\ t.el = "root" => Is(t, "root", "close") /\ level = "document" /\ pos = Len(doc)
  BY <1>1, TokenFits DEF Located
<1>3. \A el, val : At(el, val) <=> Is(t, el, val)
  BY <1>1 DEF At, Is, Token, CursorType
<1>4. Token = t
  BY DEF Token
<1> HIDE DEF t
<1>5. CASE DocumentToken
  <2>1. level = "document" /\ level' = IF At("series", "open") THEN "series" ELSE "document"
    BY <1>5 DEF DocumentToken, Running
  <2> QED
    BY <1>2, <1>3, <1>4, <1>5, <2>1
       DEF LevelAfter, Is, ScalarRead, SeriesScalar, OpenPeriod, SeriesOther, PeriodScalarRead, PeriodScalar,
           PointRead, PeriodPoint, PeriodOther, Running
<1>6. CASE FinishDocument
  <2>1. level = "document" /\ level' = level /\ At("root", "close")
    BY <1>6 DEF FinishDocument, Running
  <2> QED
    BY <1>2, <1>3, <1>4, <1>6, <2>1
       DEF LevelAfter, Is, ScalarRead, SeriesScalar, OpenPeriod, SeriesOther, PeriodScalarRead, PeriodScalar,
           PointRead, PeriodPoint, PeriodOther, Running
<1>7. CASE ScalarRead \/ OpenPeriod \/ SeriesOther
  <2>1. level = "series"
    BY <1>7 DEF ScalarRead, SeriesScalar, OpenPeriod, SeriesOther, Running
  <2>2. level' = LevelAfter(Token, level)
    <3>1. CASE ScalarRead
      BY <1>4, <2>1, <3>1 DEF ScalarRead, SeriesScalar, LevelAfter, Scalars
    <3>2. CASE OpenPeriod
      BY <1>3, <1>4, <2>1, <3>2 DEF OpenPeriod, LevelAfter, Is
    <3>3. CASE SeriesOther
      BY <1>2, <1>3, <1>4, <2>1, <3>3 DEF SeriesOther, LevelAfter, Is
    <3> QED
      BY <1>7, <3>1, <3>2, <3>3
  <2> QED
    BY <1>7, <2>1, <2>2
       DEF DocumentToken, FinishDocument, PeriodScalarRead, PeriodScalar, PointRead, PeriodPoint, PeriodOther, Running
<1>8. CASE PeriodScalarRead \/ PointRead \/ PeriodOther
  <2>1. level = "period"
    BY <1>8 DEF PeriodScalarRead, PeriodScalar, PointRead, PeriodPoint, PeriodOther, Running
  <2>2. level' = LevelAfter(Token, level)
    <3>1. CASE PeriodScalarRead
      BY <1>4, <2>1, <3>1 DEF PeriodScalarRead, PeriodScalar, LevelAfter
    <3>2. CASE PointRead
      BY <1>4, <2>1, <3>2, PointReadAppends DEF PointRead, PeriodPoint, AppendPoint, LevelAfter
    <3>3. CASE PeriodOther
      BY <1>2, <1>3, <1>4, <2>1, <3>3 DEF PeriodOther, LevelAfter, Is
    <3> QED
      BY <1>8, <3>1, <3>2, <3>3
  <2> QED
    BY <1>8, <2>1, <2>2
       DEF DocumentToken, FinishDocument, ScalarRead, SeriesScalar, OpenPeriod, SeriesOther, Running
<1> QED
  BY <1>5, <1>6, <1>7, <1>8 DEF Read

(* Where the token stands, in terms of the level.                          *)
LEMMA TokenPlace ==
    ASSUME CursorType, Located, Read
    PROVE  /\ Token = doc[pos] /\ doc[pos] \in Tokens /\ pos \in Nat \ {0}
           /\ InSeries(doc, pos) <=> level = "series"
           /\ InPeriod(doc, pos) <=> level = "period"
           /\ doc[pos].el = "series" => level # "period"
           /\ doc[pos].el = "series" /\ level = "series" => level' = "document"
           /\ doc[pos].el = "period" => level # "document"
           /\ doc[pos].el = "period" /\ level = "series" => Is(doc[pos], "period", "open")
           /\ doc[pos].el = "period" /\ level = "period" => level' = "series"
           /\ doc[pos].el = "root" => Is(doc[pos], "root", "close") /\ level = "document" /\ pos = Len(doc)
<1>1. pos \in 1 .. Len(doc)
  BY ReadMoves
<1>2. doc[pos] \in Tokens /\ pos \in Nat \ {0}
  BY <1>1 DEF CursorType
<1>3. /\ level \in {"document", "series", "period"}
      /\ Encloser(doc, "series", pos) # 0 <=> level # "document"
      /\ InPeriod(doc, pos) <=> level = "period"
  BY DEF Located, Stands
<1>4. level' = LevelAfter(doc[pos], level)
  BY Levels DEF Token
<1> QED
  BY <1>1, <1>2, <1>3, <1>4, TokenFits DEF Located, InSeries, Token, LevelAfter, Is

LEMMA LocatedStep == ASSUME CursorType, Located, Read PROVE Located'
<1>1. pos \in 1 .. Len(doc) /\ doc' = doc /\ pos' = pos + 1
  BY ReadMoves
<1>2. Stands(doc, pos + 1, LevelAfter(doc[pos], level))
  BY <1>1, StandsStep DEF Located, CursorType
<1>3. level' = LevelAfter(doc[pos], level)
  BY Levels DEF Token
<1> QED
  BY <1>1, <1>2, <1>3 DEF Located

LEMMA SeriesKnownStep ==
    ASSUME CursorType, LocalsType, Located, SeriesKnown, PeriodKnown, Read
    PROVE  SeriesKnown'
<1>1. doc' = doc /\ pos' = pos + 1
  BY ReadMoves
<1>2. SUFFICES ASSUME level' # "document" PROVE SeriesTold(doc, pos + 1, series')
  BY <1>1 DEF SeriesKnown
<1>3. level \in {"document", "series", "period"}
  BY DEF Located, Stands
<1>4. CASE level = "document"
  <2>1. DocumentToken
    <3>1. ~FinishDocument
      BY <1>2, <1>4 DEF FinishDocument
    <3> QED
      BY <1>4, <3>1, Levels
  <2>2. Is(doc[pos], "series", "open") /\ series' = NewSeries
    BY <1>2, <1>4, <2>1 DEF DocumentToken, At, Is, Token
  <2> QED
    BY <2>2, SeriesOpens, TokenPlace
<1>5. CASE level = "series" /\ ScalarRead
  <2>1. series' = [series EXCEPT !.scalar[doc[pos].el] = doc[pos].val] /\ doc[pos].el \in Scalars
    BY <1>5 DEF ScalarRead, SeriesScalar, Token
  <2>2. SeriesTold(doc, pos, series) /\ InSeries(doc, pos)
    BY <1>5, TokenPlace DEF SeriesKnown
  <2>3. series \in [scalar : [Scalars -> Text], periodSeen : BOOLEAN]
    BY DEF LocalsType
  <2> QED
    BY <2>1, <2>2, <2>3, SeriesReads, TokenPlace
<1>6. CASE level # "document" /\ ~ScalarRead
  <2>1. SeriesTold(doc, pos, series)
    BY <1>6 DEF SeriesKnown
  <2>2. doc[pos].el # "series"
    BY <1>2, <1>3, <1>6, TokenPlace
  <2>3. ~(InSeries(doc, pos) /\ doc[pos].el \in Scalars)
    <3>1. CASE level = "series"
      <4>1. OpenPeriod \/ SeriesOther
        BY <1>6, <3>1, Levels
      <4> QED
        BY <4>1 DEF OpenPeriod, SeriesOther, At, Token, Scalars
    <3>2. CASE level = "period"
      BY <3>2, TokenPlace
    <3> QED
      BY <1>3, <1>6, <3>1, <3>2
  <2>4. series'.scalar = series.scalar /\ (series'.periodSeen <=> series.periodSeen \/ doc[pos].el = "period")
    <3>0. series \in [scalar : [Scalars -> Text], periodSeen : BOOLEAN]
      BY DEF LocalsType
    <3>1. CASE OpenPeriod
      <4>1. series' = [series EXCEPT !.periodSeen = TRUE] /\ doc[pos].el = "period"
        BY <3>1 DEF OpenPeriod, At, Token
      <4> QED
        BY <3>0, <4>1
    <3>2. CASE SeriesOther
      <4>1. level = "series" /\ series' = series /\ ~At("period", "open")
        BY <3>2 DEF SeriesOther, Running
      <4>2. doc[pos].el # "period"
        BY <4>1, TokenPlace, ReadMoves DEF At, Is, CursorType
      <4> QED
        BY <4>1, <4>2
    <3>3. CASE level = "period"
      <4>1. series' = series
        BY <3>3, Levels, PointReadAppends DEF PeriodScalarRead, PeriodScalar, AppendPoint, PeriodOther
      <4>2. series.periodSeen
        BY <3>3 DEF PeriodKnown
      <4> QED
        BY <4>1, <4>2
    <3> QED
      BY <1>3, <1>6, <3>1, <3>2, <3>3, Levels
  <2>5. pos \in Nat \ {0}
    BY TokenPlace
  <2> QED
    BY <2>1, <2>2, <2>3, <2>4, <2>5, SeriesKeeps
<1> QED
  BY <1>3, <1>4, <1>5, <1>6, Levels

LEMMA PeriodKnownStep ==
    ASSUME CursorType, LocalsType, Located, SeriesKnown, PeriodKnown, Read
    PROVE  PeriodKnown'
<1>1. doc' = doc /\ pos' = pos + 1 /\ pos \in Nat \ {0}
  BY ReadMoves, TokenPlace
<1> DEFINE Context == /\ period'.meter # "" /\ series'.scalar["unit"] # ""
                      /\ period'.haveStart /\ period'.haveRes
<1>2. SUFFICES ASSUME level' = "period"
               PROVE  series'.periodSeen /\ PeriodTold(doc, pos + 1, period') /\ (period'.pointSeen => Context)
  BY <1>1 DEF PeriodKnown, PointContext
<1>3. period \in [meter : Text, start : Int, resolution : Int, haveStart : BOOLEAN,
                  haveRes : BOOLEAN, pointSeen : BOOLEAN]
  BY DEF LocalsType
<1>4. CASE OpenPeriod
  <2>1. Is(doc[pos], "period", "open") /\ level = "series"
    BY <1>4 DEF OpenPeriod, At, Token, Is, Running
  <2>2. MeterID = MeterOf(doc, pos)
    BY <2>1 DEF SeriesKnown, SeriesTold, MeterID, MeterOf, Scalars
  <2>3. period' = [NewPeriod EXCEPT !.meter = MeterOf(doc, pos)] /\ series' = [series EXCEPT !.periodSeen = TRUE]
    BY <1>4, <2>2 DEF OpenPeriod
  <2>4. PeriodTold(doc, pos + 1, period')
    BY <1>1, <2>1, <2>3, PeriodOpens
  <2>5. period'.pointSeen = FALSE
    BY <2>3 DEF NewPeriod
  <2>6. series'.periodSeen
    BY <2>3 DEF LocalsType
  <2> QED
    BY <2>4, <2>5, <2>6
<1>5. CASE level = "period"
  <2>1. series' = series /\ series.periodSeen /\ PeriodTold(doc, pos, period) /\ (period.pointSeen => PointContext)
    BY <1>5, Levels, PointReadAppends DEF PeriodScalarRead, PeriodScalar, AppendPoint, PeriodOther, PeriodKnown
  <2>2. InPeriod(doc, pos) /\ doc[pos].el \notin {"series", "period"}
    BY <1>2, <1>5, TokenPlace
  <2>3. /\ period'.meter = period.meter
        /\ period'.start = IF doc[pos].el = "timeInterval" THEN doc[pos].num ELSE period.start
        /\ period'.haveStart <=> period.haveStart \/ doc[pos].el = "timeInterval"
        /\ period'.resolution = IF doc[pos].el = "resolution" THEN doc[pos].num ELSE period.resolution
        /\ period'.haveRes <=> period.haveRes \/ doc[pos].el = "resolution"
        /\ period'.pointSeen <=> period.pointSeen \/ doc[pos].el = "Point"
    <3>1. CASE PeriodScalarRead
      <4>1. /\ doc[pos].el \in {"timeInterval", "resolution"}
            /\ period' = IF doc[pos].el = "timeInterval"
                         THEN [period EXCEPT !.start = doc[pos].num, !.haveStart = TRUE]
                         ELSE [period EXCEPT !.resolution = doc[pos].num, !.haveRes = TRUE]
        BY <3>1 DEF PeriodScalarRead, PeriodScalar, Token
      <4> QED
        BY <1>3, <4>1
    <3>2. CASE PointRead
      <4>1. doc[pos].el = "Point" /\ period' = [period EXCEPT !.pointSeen = TRUE]
        BY <3>2, PointReadAppends DEF PointRead, PeriodPoint, AppendPoint, Token
      <4> QED
        BY <1>3, <4>1
    <3>3. CASE PeriodOther
      <4>1. doc[pos].el \notin {"timeInterval", "resolution", "Point"} /\ period' = period
        BY <3>3 DEF PeriodOther, Token
      <4> QED
        BY <4>1
    <3> QED
      BY <1>5, <3>1, <3>2, <3>3, Levels
  <2>4. PeriodTold(doc, pos + 1, period')
    BY <1>1, <2>1, <2>2, <2>3, PeriodReads
  <2>5. period'.pointSeen => Context
    <3>1. CASE period.pointSeen
      BY <2>1, <2>3, <3>1 DEF PointContext
    <3>2. CASE ~period.pointSeen /\ doc[pos].el = "Point"
      <4>1. PointRead
        BY <1>5, <3>2, Levels DEF PeriodScalarRead, PeriodScalar, PeriodOther, Token
      <4>2. PointContext
        BY <3>2, <4>1 DEF PointRead
      <4> QED
        BY <2>1, <2>3, <4>2 DEF PointContext
    <3> QED
      BY <2>3, <3>1, <3>2
  <2> QED
    BY <2>1, <2>4, <2>5
<1>6. OpenPeriod \/ level = "period"
  <2>1. level # "document"
    BY <1>2, Levels DEF DocumentToken, FinishDocument
  <2>2. ~ScalarRead /\ ~SeriesOther
    BY <1>2 DEF ScalarRead, SeriesScalar, SeriesOther, Running
  <2> QED
    BY <2>1, <2>2, Levels DEF Located, Stands
<1> QED
  BY <1>4, <1>5, <1>6

(* A token that was read is one of a legal document.                       *)
LEMMA TokenIsLegal ==
    ASSUME CursorType, LocalsType, Located, SeriesKnown, PeriodKnown, Read
    PROVE  LegalLeaf(doc, pos) /\ (pos \in PointsAt(doc) => LegalPoint(doc, pos))
<1>1. pos \in 1 .. Len(doc) /\ pos \in Nat \ {0}
  BY ReadMoves
<1>2. Encloser(doc, "series", pos) \in 0 .. pos - 1 /\ Encloser(doc, "period", pos) \in 0 .. pos - 1
  BY <1>1, EncloserType
<1>3. /\ Encloser(doc, "series", pos) .. pos = (Encloser(doc, "series", pos) .. pos - 1) \cup {pos}
      /\ Encloser(doc, "period", pos) .. pos = (Encloser(doc, "period", pos) .. pos - 1) \cup {pos}
  BY <1>1, <1>2
<1>4. doc[pos].el \in Scalars /\ InSeries(doc, pos) =>
         doc[pos].val # "bad" /\ \A j \in Encloser(doc, "series", pos) .. pos : doc[j].el # "period"
  <2> SUFFICES ASSUME doc[pos].el \in Scalars, InSeries(doc, pos)
               PROVE  doc[pos].val # "bad" /\ \A j \in Encloser(doc, "series", pos) .. pos : doc[j].el # "period"
    OBVIOUS
  <2>1. level = "series"
    BY TokenPlace
  <2>2. ScalarRead
    BY <2>1, Levels DEF OpenPeriod, SeriesOther, At, Token, Scalars
  <2>3. doc[pos].val # "bad" /\ ~series.periodSeen
    BY <2>2 DEF ScalarRead, ScalarAllowed, Token
  <2>4. ~Shown(doc, "series", "period", pos)
    BY <2>1, <2>3 DEF SeriesKnown, SeriesTold
  <2>5. doc[pos].el # "period"
    BY DEF Scalars
  <2> QED
    BY <1>3, <2>3, <2>4, <2>5 DEF Shown
<1>5. doc[pos].el \in {"timeInterval", "resolution"} /\ InPeriod(doc, pos) =>
         doc[pos].val # "bad" /\ \A j \in Encloser(doc, "period", pos) .. pos : doc[j].el # "Point"
  <2> SUFFICES ASSUME doc[pos].el \in {"timeInterval", "resolution"}, InPeriod(doc, pos)
               PROVE  doc[pos].val # "bad" /\ \A j \in Encloser(doc, "period", pos) .. pos : doc[j].el # "Point"
    OBVIOUS
  <2>1. level = "period"
    BY TokenPlace
  <2>2. PeriodScalarRead
    BY <2>1, Levels DEF PointRead, PeriodPoint, PeriodOther, Token
  <2>3. doc[pos].val # "bad" /\ ~period.pointSeen
    BY <2>2 DEF PeriodScalarRead, Token
  <2>4. ~Shown(doc, "period", "Point", pos)
    BY <2>1, <2>3 DEF PeriodKnown, PeriodTold
  <2>5. doc[pos].el # "Point"
    OBVIOUS
  <2> QED
    BY <1>3, <2>3, <2>4, <2>5 DEF Shown
<1>6. ASSUME pos \in PointsAt(doc) PROVE LegalPoint(doc, pos)
  <2>1. level = "period" /\ doc[pos].el = "Point"
    BY <1>6, TokenPlace DEF PointsAt
  <2>2. PointRead
    BY <2>1, Levels DEF PeriodScalarRead, PeriodScalar, PeriodOther, Token
  <2>3. PointContext /\ doc[pos].val # "bad" /\ ~(doc[pos].num < 1)
    BY <2>1, <2>2 DEF PointRead, PeriodKnown, Token
  <2>4. doc[pos].num >= 1
    <3>1. doc[pos].num \in Int
      BY TokenPlace DEF Tokens
    <3> QED
      BY <2>3, <3>1
  <2>5. /\ period.meter = MeterOf(doc, pos) /\ series.scalar["unit"] = SeriesVal(doc, "unit", pos)
        /\ period.haveStart <=> PeriodLeaves(doc, "timeInterval", pos) # {}
        /\ period.haveRes <=> PeriodLeaves(doc, "resolution", pos) # {}
    BY <2>1 DEF PeriodKnown, PeriodTold, SeriesKnown, SeriesTold, Scalars
  <2> QED
    BY <2>3, <2>4, <2>5 DEF LegalPoint, PointContext
<1> QED
  BY <1>4, <1>5, <1>6 DEF LegalLeaf

LEMMA LegalBeforeStep ==
    ASSUME CursorType, LocalsType, Knowing, Read
    PROVE  LegalBefore(doc, pos)'
<1>1. doc' = doc /\ pos' = pos + 1 /\ pos \in Nat \ {0}
  BY ReadMoves, TokenPlace DEF Knowing
<1>2. \A j \in 1 .. (pos + 1) - 1 : j \in 1 .. pos - 1 \/ j = pos
  BY <1>1
<1> QED
  BY <1>1, <1>2, TokenIsLegal DEF Knowing, LegalBefore

(* The points counted, and read, are those before the cursor.              *)
LEMMA PointsRead ==
    ASSUME CursorType, Located, Read
    PROVE  PointRead <=> pos \in PointsAt(doc)
<1>1. pos \in PointsAt(doc) <=> doc[pos].el = "Point" /\ level = "period"
  BY ReadMoves, TokenPlace DEF PointsAt
<1>2. PointRead => doc[pos].el = "Point" /\ level = "period"
  BY DEF PointRead, PeriodPoint, Running, Token
<1>3. doc[pos].el = "Point" => ~PeriodScalarRead /\ ~PeriodOther
  BY DEF PeriodScalarRead, PeriodScalar, PeriodOther, Token
<1> QED
  BY <1>1, <1>2, <1>3, Levels

LEMMA OthersKeepRows ==
    ASSUME Read, ~PointRead
    PROVE  total' = total /\ (FinishDocument \/ UNCHANGED <<batch, emitted>>)
  BY DEF Read, DocumentToken, FinishDocument, ScalarRead, SeriesScalar, OpenPeriod, SeriesOther,
         PeriodScalarRead, PeriodScalar, PeriodOther

LEMMA CountedStep == ASSUME CursorType, Located, Counted, Read PROVE Counted'
<1>1. doc' = doc /\ pos' = pos + 1 /\ pos \in 1 .. Len(doc) /\ doc \in Seq(Tokens)
  BY ReadMoves DEF CursorType
<1>2. CASE PointRead
  <2>1. total' = total + 1
    BY <1>2, PointReadAppends DEF AppendPoint
  <2> QED
    BY <1>1, <1>2, <2>1, PointsRead, PointsBeforeStep DEF Counted
<1>3. CASE ~PointRead
  BY <1>1, <1>3, OthersKeepRows, PointsRead, PointsBeforeStep DEF Counted
<1> QED
  BY <1>2, <1>3

LEMMA UnfinishedStep == ASSUME CursorType, Located, Unfinished, Read PROVE Unfinished'
<1>1. doc' = doc /\ pos' = pos + 1 /\ pos \in Nat \ {0} /\ result = "running"
  BY ReadMoves, TokenPlace
<1>2. ASSUME result' = "running" PROVE doc[pos].el # "root"
  <2>1. ~FinishDocument
    BY <1>2 DEF FinishDocument
  <2>2. ~At("root", "close") \/ level # "document"
    BY <2>1, Levels DEF DocumentToken
  <2> QED
    BY <2>2, TokenPlace, ReadMoves DEF At, Is, CursorType
<1>3. \A j \in 1 .. (pos + 1) - 1 : j \in 1 .. pos - 1 \/ j = pos
  BY <1>1
<1> QED
  BY <1>1, <1>2, <1>3 DEF Unfinished

LEMMA KnowingInit == ASSUME Init PROVE Knowing
<1>1. doc \in Docs /\ doc \in Seq(Tokens) /\ pos = 1 /\ level = "document" /\ total = 0
  BY DocsAssumption DEF Init
<1>2. Located
  BY <1>1, NestingAssumption, NothingEncloses DEF Located, Stands, InPeriod
<1>3. PointsBefore(doc, 1) = {}
  BY <1>1 DEF PointsBefore, PointsAt
<1>4. Counted
  BY <1>1, <1>3, FS_EmptySet DEF Counted
<1>5. 1 .. pos - 1 = {}
  BY <1>1
<1> QED
  BY <1>1, <1>2, <1>4, <1>5 DEF Knowing, SeriesKnown, PeriodKnown, LegalBefore, Unfinished

LEMMA KnowingStep == ASSUME CursorType, LocalsType, Knowing, [Next]_vars PROVE Knowing'
<1>1. CASE Read
  BY <1>1, LocatedStep, SeriesKnownStep, PeriodKnownStep, LegalBeforeStep, CountedStep, UnfinishedStep DEF Knowing
<1>2. CASE Stays
  BY <1>2 DEF Stays, Knowing, Located, SeriesKnown, PeriodKnown, PointContext, Counted, Unfinished
<1> QED
  BY <1>1, <1>2, ReadsOrStays

(* Between two tokens the parser knows the part of the document it has     *)
(* read, and that part was legal (esmp.go:73-219).                         *)
THEOREM Knows == Spec => []Knowing
<1>1. Init => Knowing
  BY KnowingInit
<1>2. TypeOK /\ Knowing /\ [Next]_vars => Knowing'
  BY KnowingStep DEF TypeOK
<1> QED
  BY <1>1, <1>2, TypeCorrect, PTL DEF Spec

-----------------------------------------------------------------------------
(* What the parser decides.                                                *)
LEMMA Halts == ASSUME [Next]_vars, result # "running" PROVE UNCHANGED vars
  BY DEF Next, Parse, Truncated, DocumentCancelled, DocumentToken, FinishDocument, SeriesScalar, OpenPeriod,
         SeriesOther, PeriodScalar, PeriodPoint, PeriodOther, Cancel, Done, Running

(* A document is refused because of what it is.                            *)
LEMMA Refuses ==
    ASSUME TypeOK, Knowing, [Next]_vars, result = "running", result' = "malformed"
    PROVE  ~Legal(doc) /\ doc' = doc
<1>0. CursorType /\ LocalsType /\ RowsType /\ doc \in Seq(Tokens) /\ pos \in Nat \ {0} /\ Located
  BY DEF TypeOK, CursorType, Knowing
<1>1. ASSUME NEW i \in 1 .. Len(doc), ~LegalLeaf(doc, i) \/ (i \in PointsAt(doc) /\ ~LegalPoint(doc, i))
      PROVE  ~Legal(doc)
  BY <1>1 DEF Legal
<1>2. pos <= Len(doc) => pos \in 1 .. Len(doc)
  BY <1>0
<1>3. /\ Encloser(doc, "series", pos) # 0 <=> level # "document"
      /\ InPeriod(doc, pos) <=> level = "period"
  BY <1>0 DEF Located, Stands
<1>4. CASE Truncated
  <2>1. doc' = doc /\ pos > Len(doc)
    BY <1>4 DEF Truncated, Return
  <2>2. doc # <<>> => doc[Len(doc)].el # "root"
    <3>1. doc # <<>> => Len(doc) \in 1 .. pos - 1
      BY <1>0, <2>1
    <3> QED
      BY <3>1 DEF Knowing, Unfinished
  <2> QED
    BY <2>1, <2>2 DEF Legal, Is
<1>5. CASE SeriesScalar
  <2>1. pos \in 1 .. Len(doc) /\ level = "series" /\ doc[pos].el \in Scalars /\ doc' = doc
        /\ (series.periodSeen \/ doc[pos].val = "bad")
    BY <1>2, <1>5 DEF SeriesScalar, Running, Token, ScalarAllowed, Return
  <2>2. InSeries(doc, pos)
    BY <1>3, <2>1 DEF InSeries
  <2>3. ASSUME series.periodSeen PROVE \E j \in Encloser(doc, "series", pos) .. pos : doc[j].el = "period"
    <3>1. Shown(doc, "series", "period", pos)
      BY <2>1, <2>3 DEF Knowing, SeriesKnown, SeriesTold
    <3>2. \A j \in Encloser(doc, "series", pos) .. pos - 1 : j \in Encloser(doc, "series", pos) .. pos
      BY <1>0, EncloserType
    <3> QED
      BY <3>1, <3>2 DEF Shown
  <2>4. ~LegalLeaf(doc, pos)
    BY <2>1, <2>2, <2>3 DEF LegalLeaf
  <2> QED
    BY <1>1, <2>1, <2>4
<1>6. CASE PeriodScalar
  <2>1. pos \in 1 .. Len(doc) /\ level = "period" /\ doc[pos].el \in {"timeInterval", "resolution"} /\ doc' = doc
        /\ (period.pointSeen \/ doc[pos].val = "bad")
    BY <1>2, <1>6 DEF PeriodScalar, Running, Token, Return
  <2>2. InPeriod(doc, pos)
    BY <1>3, <2>1
  <2>3. ASSUME period.pointSeen PROVE \E j \in Encloser(doc, "period", pos) .. pos : doc[j].el = "Point"
    <3>1. Shown(doc, "period", "Point", pos)
      BY <2>1, <2>3 DEF Knowing, PeriodKnown, PeriodTold
    <3>2. \A j \in Encloser(doc, "period", pos) .. pos - 1 : j \in Encloser(doc, "period", pos) .. pos
      BY <1>0, EncloserType
    <3> QED
      BY <3>1, <3>2 DEF Shown
  <2>4. ~LegalLeaf(doc, pos)
    BY <2>1, <2>2, <2>3 DEF LegalLeaf
  <2> QED
    BY <1>1, <2>1, <2>4
<1>7. CASE PeriodPoint
  <2>1. pos \in 1 .. Len(doc) /\ level = "period" /\ doc[pos].el = "Point" /\ doc[pos] \in Tokens
    BY <1>0, <1>2, <1>7 DEF PeriodPoint, Running, Token
  <2>2. \/ ~period.pointSeen /\ ~PointContext
        \/ doc[pos].val = "bad" \/ doc[pos].num < 1 \/ TooMany
    <3>1. ~AppendPoint(Token.num)
      BY <1>7 DEF AppendPoint
    <3> QED
      BY <1>7, <3>1 DEF PeriodPoint, Token
  <2>3. doc' = doc
    BY <1>7 DEF PeriodPoint, AppendPoint, Return
  <2>4. pos \in PointsAt(doc)
    BY <1>3, <2>1 DEF PointsAt
  <2>5. CASE ~PointContext \/ doc[pos].val = "bad" \/ doc[pos].num < 1
    <3>1. doc[pos].num \in Int
      BY <2>1 DEF Tokens
    <3>2. /\ period.meter = MeterOf(doc, pos) /\ series.scalar["unit"] = SeriesVal(doc, "unit", pos)
          /\ period.haveStart <=> PeriodLeaves(doc, "timeInterval", pos) # {}
          /\ period.haveRes <=> PeriodLeaves(doc, "resolution", pos) # {}
      BY <2>1 DEF Knowing, PeriodKnown, PeriodTold, SeriesKnown, SeriesTold, Scalars
    <3>3. doc[pos].num < 1 => ~(doc[pos].num >= 1)
      BY <3>1
    <3>4. ~LegalPoint(doc, pos)
      BY <2>5, <3>2, <3>3, Zenon DEF LegalPoint, PointContext
    <3> QED
      BY <1>1, <2>1, <2>3, <2>4, <3>4
  <2>6. CASE TooMany
    <3>1. total + 1 <= Cardinality(PointsAt(doc))
      BY <1>0, <2>1, <2>4, PointsBeforeStep DEF Knowing, Counted
    <3>2. total + 1 > MaxReadings /\ total \in Nat /\ Cardinality(PointsAt(doc)) \in Nat
      BY <1>0, <2>6, BoundsAssumption, PointsFinite DEF TooMany, RowsType
    <3>3. ~(Cardinality(PointsAt(doc)) <= MaxReadings)
      BY <3>1, <3>2, BoundsAssumption
    <3> QED
      BY <2>3, <3>3 DEF Legal
  <2> QED
    BY <2>2, <2>5, <2>6
<1> QED
  BY <1>4, <1>5, <1>6, <1>7
     DEF Next, Parse, DocumentCancelled, DocumentToken, FinishDocument, OpenPeriod, SeriesOther, PeriodOther,
         Cancel, Done, vars, Return

(* It is accepted when its root element has ended and the last batch is    *)
(* emitted.                                                                *)
LEMMA Accepts ==
    ASSUME TypeOK, Located, [Next]_vars, result = "running", result' = "ok"
    PROVE  /\ doc' = doc /\ pos' = Len(doc) + 1 /\ batch' = <<>>
           /\ doc # <<>> /\ Is(doc[Len(doc)], "root", "close")
<1>1. CursorType
  BY DEF TypeOK
<1>2. FinishDocument
  BY DEF Next, Parse, Truncated, DocumentCancelled, DocumentToken, SeriesScalar, OpenPeriod, SeriesOther,
         PeriodScalar, PeriodPoint, AppendPoint, PeriodOther, Cancel, Done, vars, Return
<1>3. Read /\ doc' = doc /\ pos' = pos + 1 /\ pos \in 1 .. Len(doc)
  BY <1>1, <1>2, ReadMoves DEF Read
<1>4. pos = Len(doc) /\ Is(doc[Len(doc)], "root", "close")
  <2>1. doc[pos].el = "root"
    BY <1>2 DEF FinishDocument, At, Token
  <2> QED
    BY <1>1, <1>3, <2>1, TokenPlace
<1>5. batch' = <<>>
  <2>1. PICK ok \in BOOLEAN : Flush(batch, ok) /\ result' = IF batch = <<>> \/ ok THEN "ok" ELSE "emit failed"
    BY <1>2 DEF FinishDocument
  <2>2. batch = <<>> \/ ok
    BY <2>1
  <2> QED
    BY <2>1, <2>2 DEF Flush
<1>6. doc # <<>>
  BY <1>1, <1>3 DEF CursorType
<1> QED
  BY <1>3, <1>4, <1>5, <1>6

LEMMA DecidedStep == ASSUME TypeOK, Knowing, Decided, [Next]_vars PROVE Decided'
<1>1. CASE result # "running"
  BY <1>1, Halts DEF Decided, vars
<1>2. CASE result = "running"
  <2>1. ASSUME result' = "ok"
        PROVE  pos' = Len(doc') + 1 /\ doc' # <<>> /\ Is(doc'[Len(doc')], "root", "close") /\ batch' = <<>>
    BY <1>2, <2>1, Accepts DEF Knowing
  <2>2. ASSUME result' = "malformed" PROVE ~Legal(doc')
    BY <1>2, <2>2, Refuses
  <2> QED
    BY <2>1, <2>2 DEF Decided
<1> QED
  BY <1>1, <1>2

(* The parser accepts exactly the legal documents, for every document,     *)
(* batch size and limit (esmp.go:63-73, 136-147).                          *)
THEOREM ParsesExactlyLegal == Spec => []AcceptsExactlyLegal
<1>1. Init => Decided
  BY DEF Init, Decided
<1>2. TypeOK /\ Knowing /\ Decided /\ [Next]_vars => Decided'
  BY DecidedStep
<1>3. TypeOK /\ Knowing /\ Decided => AcceptsExactlyLegal
  <2> SUFFICES ASSUME TypeOK, Knowing, Decided, result = "ok"
               PROVE  Legal(doc) /\ batch = <<>> /\ total = Cardinality(PointsAt(doc))
    BY DEF Decided, AcceptsExactlyLegal
  <2>1. doc \in Seq(Tokens) /\ pos = Len(doc) + 1 /\ doc # <<>> /\ Is(doc[Len(doc)], "root", "close") /\ batch = <<>>
    BY DEF TypeOK, CursorType, Decided
  <2>2. \A i \in 1 .. Len(doc) : LegalLeaf(doc, i) /\ (i \in PointsAt(doc) => LegalPoint(doc, i))
    BY <2>1 DEF Knowing, LegalBefore
  <2>3. PointsBefore(doc, pos) = PointsAt(doc)
    BY <2>1 DEF PointsBefore, PointsAt
  <2>4. total = Cardinality(PointsAt(doc))
    BY <2>3 DEF Knowing, Counted
  <2>5. total <= MaxReadings
    BY BoundsAssumption DEF TypeOK, RowsType
  <2>6. \A i \in PointsAt(doc) : LegalPoint(doc, i)
    BY <2>2 DEF PointsAt
  <2> QED
    BY <2>1, <2>2, <2>4, <2>5, <2>6 DEF Legal
<1> QED
  BY <1>1, <1>2, <1>3, TypeCorrect, Knows, PTL DEF Spec

-----------------------------------------------------------------------------
(* What the parser emits.                                                  *)
RowsSoFar == Stored \o batch

(* The row at the rank of every point read is that point's reading.        *)
RowsInOrder ==
    /\ Len(RowsSoFar) = total
    /\ \A i \in PointsBefore(doc, pos) : RowsSoFar[Rank(doc, i)] = ReadingAt(doc, i)

LEMMA RowsAreReadings ==
    ASSUME RowsType
    PROVE  Stored \in Seq(Readings) /\ batch \in Seq(Readings) /\ RowsSoFar \in Seq(Readings)
<1>1. Stored \in Seq(Readings) /\ batch \in Seq(Readings)
  BY FlattenType DEF RowsType, Stored
<1> QED
  BY <1>1 DEF RowsSoFar

(* A flush moves readings from the batch to the emitted ones.              *)
LEMMA FlushKeepsRows ==
    ASSUME RowsType, NEW rows \in Seq(Readings), NEW ok, Flush(rows, ok)
    PROVE  RowsSoFar' = Stored \o rows
<1>1. CASE rows = <<>> \/ ~ok
  BY <1>1 DEF Flush, RowsSoFar, Stored
<1>2. CASE ~(rows = <<>> \/ ~ok)
  <2>1. emitted' = Append(emitted, rows) /\ batch' = <<>>
    BY <1>2 DEF Flush
  <2>2. FlattenSeq(Append(emitted, rows)) = Stored \o rows
    BY FlattenAppend DEF RowsType, Stored
  <2>3. RowsSoFar' = (Stored \o rows) \o <<>>
    BY <2>1, <2>2 DEF RowsSoFar, Stored
  <2>4. Stored \o rows \in Seq(Readings)
    BY RowsAreReadings
  <2> QED
    BY <2>3, <2>4
<1> QED
  BY <1>1, <1>2

LEMMA RightReading ==
    ASSUME CursorType, Located, SeriesKnown, PeriodKnown, PointRead
    PROVE  Reading(Token.num) = ReadingAt(doc, pos)
<1>1. level = "period" /\ Token = doc[pos]
  BY DEF PointRead, PeriodPoint, Running, Token
<1>2. /\ period.meter = MeterOf(doc, pos)
      /\ period.start = PeriodNum(doc, "timeInterval", pos)
      /\ period.resolution = PeriodNum(doc, "resolution", pos)
      /\ series.scalar["unit"] = SeriesVal(doc, "unit", pos)
      /\ series.scalar["businessType"] = SeriesVal(doc, "businessType", pos)
  BY <1>1 DEF PeriodKnown, PeriodTold, SeriesKnown, SeriesTold, Scalars
<1>3. IntervalStart(Token.num) =
         PeriodNum(doc, "timeInterval", pos) + (doc[pos].num - 1) * PeriodNum(doc, "resolution", pos)
  BY <1>1, <1>2, Zenon DEF IntervalStart
<1>4. Quality(Token.val) = CASE doc[pos].val = "A02" -> "missing" [] doc[pos].val = "A03" -> "estimated"
                             [] OTHER -> "measured"
  BY <1>1, Zenon DEF Quality
<1> QED
  BY <1>2, <1>3, <1>4, Zenon DEF Reading, ReadingAt, Direction

LEMMA RowsInOrderStep == ASSUME TypeOK, Knowing, RowsInOrder, [Next]_vars PROVE RowsInOrder'
<1>0. CursorType /\ LocalsType /\ RowsType /\ Located /\ doc \in Seq(Tokens)
  BY DEF TypeOK, CursorType, Knowing
<1>1. CASE Stays
  BY <1>1 DEF Stays, RowsInOrder, RowsSoFar, Stored
<1>2. CASE Read /\ ~PointRead
  <2>1. doc' = doc /\ pos' = pos + 1 /\ pos \in 1 .. Len(doc) /\ total' = total
    BY <1>0, <1>2, ReadMoves, OthersKeepRows
  <2>2. PointsBefore(doc, pos + 1) = PointsBefore(doc, pos)
    BY <1>0, <1>2, <2>1, PointsRead, PointsBeforeStep
  <2>3. RowsSoFar' = RowsSoFar
    <3>1. CASE FinishDocument
      <4>1. PICK ok \in BOOLEAN : Flush(batch, ok)
        BY <3>1 DEF FinishDocument
      <4> QED
        BY <1>0, <4>1, FlushKeepsRows DEF RowsType, RowsSoFar
    <3>2. CASE UNCHANGED <<batch, emitted>>
      BY <3>2 DEF RowsSoFar, Stored
    <3> QED
      BY <1>2, <3>1, <3>2, OthersKeepRows
  <2> QED
    BY <2>1, <2>2, <2>3 DEF RowsInOrder
<1>3. CASE PointRead
  <2> DEFINE r == Reading(Token.num)
  <2>1. Read /\ doc' = doc /\ pos' = pos + 1 /\ pos \in 1 .. Len(doc) /\ pos \in PointsAt(doc)
    BY <1>0, <1>3, ReadMoves, PointsRead DEF Read
  <2>2. r \in Readings /\ r = ReadingAt(doc, pos)
    <3>1. Token.num \in Int
      BY <1>0, <2>1, TokenPlace DEF Tokens
    <3> QED
      BY <1>0, <1>3, <3>1, ReadingType, RightReading DEF Knowing
  <2> HIDE DEF r
  <2>3. RowsSoFar' = Append(RowsSoFar, r) /\ total' = total + 1
    <3>1. total' = total + 1 /\ AppendPoint(Token.num)
      BY <1>3, PointReadAppends DEF AppendPoint
    <3>2. Append(batch, r) \in Seq(Readings) /\ Stored \o Append(batch, r) = Append(RowsSoFar, r)
      BY <1>0, <2>2, RowsAreReadings DEF RowsSoFar
    <3>3. CASE \E ok \in BOOLEAN : Flush(Append(batch, r), ok)
      BY <1>0, <3>1, <3>2, <3>3, FlushKeepsRows
    <3>4. CASE batch' = Append(batch, r) /\ emitted' = emitted
      BY <3>1, <3>2, <3>4 DEF RowsSoFar, Stored
    <3> QED
      BY <3>1, <3>3, <3>4 DEF AppendPoint, r
  <2>4. \A i \in PointsBefore(doc, pos + 1) : i \in PointsBefore(doc, pos) \/ i = pos
    <3>1. \A i \in PointsAt(doc) : i < pos + 1 => i < pos \/ i = pos
      BY <2>1 DEF PointsAt
    <3> QED
      BY <3>1 DEF PointsBefore
  <2>5. Rank(doc, pos) = total + 1 /\ total \in Nat /\ Len(RowsSoFar) = total
    BY <1>0, <2>1, PointsBeforeStep DEF Knowing, Counted, RowsInOrder
  <2>6. \A i \in PointsBefore(doc, pos) : Rank(doc, i) \in 1 .. total
    <3> SUFFICES ASSUME NEW i \in PointsBefore(doc, pos) PROVE Rank(doc, i) \in 1 .. total
      OBVIOUS
    <3>1. i \in PointsAt(doc) /\ i < pos /\ pos \in 1 .. Len(doc) + 1
      BY <2>1 DEF PointsBefore
    <3>2. Rank(doc, i) \in Nat \ {0} /\ Rank(doc, i) <= total
      BY <1>0, <3>1, RankGrows DEF Knowing, Counted
    <3> QED
      BY <2>5, <3>2
  <2>7. /\ Len(RowsSoFar') = total + 1 /\ RowsSoFar'[total + 1] = r
        /\ \A n \in 1 .. total : RowsSoFar'[n] = RowsSoFar[n]
    BY <1>0, <2>2, <2>3, <2>5, RowsAreReadings
  <2>8. ASSUME NEW i \in PointsBefore(doc, pos + 1) PROVE RowsSoFar'[Rank(doc, i)] = ReadingAt(doc, i)
    <3>1. CASE i = pos
      BY <2>2, <2>5, <2>7, <3>1
    <3>2. CASE i \in PointsBefore(doc, pos)
      BY <2>6, <2>7, <3>2 DEF RowsInOrder
    <3> QED
      BY <2>4, <3>1, <3>2
  <2> QED
    BY <2>1, <2>3, <2>7, <2>8 DEF RowsInOrder
<1> QED
  BY <1>1, <1>2, <1>3, ReadsOrStays

(* The readings come out in the order of the points, each once and as the  *)
(* document means it, for every document, batch size and limit             *)
(* (esmp.go:147-275).                                                      *)
THEOREM EmitsWhatIsMeant == Spec => []EmitsReadingsInOrder
<1>1. Init => RowsInOrder
  <2> SUFFICES ASSUME Init PROVE RowsInOrder
    OBVIOUS
  <2>1. emitted = <<>> /\ batch = <<>> /\ total = 0 /\ pos = 1
    BY DEF Init
  <2>2. Stored = <<>>
    BY <2>1 DEF Stored, FlattenSeq
  <2>3. RowsSoFar = <<>>
    BY <2>1, <2>2 DEF RowsSoFar
  <2>4. PointsBefore(doc, pos) = {}
    BY <2>1 DEF PointsBefore, PointsAt
  <2> QED
    BY <2>1, <2>3, <2>4 DEF RowsInOrder
<1>2. TypeOK /\ Knowing /\ RowsInOrder /\ [Next]_vars => RowsInOrder'
  BY RowsInOrderStep
<1>3. TypeOK /\ Knowing /\ RowsInOrder => EmitsReadingsInOrder
  <2> SUFFICES ASSUME TypeOK, Knowing, RowsInOrder PROVE EmitsReadingsInOrder
    OBVIOUS
  <2>1. doc \in Seq(Tokens) /\ pos \in 1 .. Len(doc) + 1 /\ total = Cardinality(PointsBefore(doc, pos))
    BY DEF TypeOK, CursorType, Knowing, Counted
  <2>2. PointsBefore(doc, pos) \in SUBSET PointsAt(doc)
    BY DEF PointsBefore
  <2>3. total <= Cardinality(PointsAt(doc)) /\ total \in Nat
    BY <2>1, <2>2, PointsFinite
  <2>4. ASSUME NEW i \in PointsAt(doc), Rank(doc, i) <= total PROVE i \in PointsBefore(doc, pos)
    <3>1. i \in Int /\ pos \in Int
      BY <2>1 DEF PointsAt
    <3>2. ~(i >= pos)
      BY <2>1, <2>3, <2>4, RankGrows
    <3> QED
      BY <3>1, <3>2 DEF PointsBefore
  <2> QED
    BY <2>3, <2>4 DEF RowsInOrder, EmitsReadingsInOrder, RowsSoFar
<1> QED
  BY <1>1, <1>2, <1>3, TypeCorrect, Knows, PTL DEF Spec

-----------------------------------------------------------------------------
(* Which readings a batch holds depends on the document alone: every run   *)
(* over it, however it ends, emits the same batches (esmp.go:246-250).     *)
BatchesAreFixed ==
    \A n \in 1 .. Len(emitted) : \A k \in 1 .. Len(emitted[n]) : \A i \in PointsAt(doc) :
        Rank(doc, i) = (n - 1) * BatchRows + k => emitted[n][k] = ReadingAt(doc, i)

(* While the parser runs, whole batches have been emitted.                 *)
Aligned == result = "running" => Len(Stored) = Len(emitted) * BatchRows

LEMMA Emits ==
    ASSUME TypeOK, [Next]_vars
    PROVE  \/ emitted' = emitted /\ (result' = "running" => result = "running")
           \/ /\ result = "running"
              /\ \E rows \in Seq(Readings) : /\ emitted' = Append(emitted, rows) /\ batch' = <<>>
                                             /\ result' = "running" => Len(rows) >= BatchRows
<1>0. CursorType /\ LocalsType /\ RowsType
  BY DEF TypeOK
<1>1. CASE Stays
  BY <1>1 DEF Stays
<1>2. CASE Read /\ ~PointRead /\ ~FinishDocument
  BY <1>0, <1>2, ReadMoves, OthersKeepRows
<1>3. CASE FinishDocument
  <2>1. PICK ok \in BOOLEAN : Flush(batch, ok) /\ result' = IF batch = <<>> \/ ok THEN "ok" ELSE "emit failed"
    BY <1>3 DEF FinishDocument
  <2>2. result = "running" /\ result' # "running"
    BY <1>3, <2>1 DEF FinishDocument, Running
  <2> QED
    BY <1>0, <2>1, <2>2 DEF Flush, RowsType
<1>4. CASE PointRead
  <2> DEFINE rows == Append(batch, Reading(Token.num))
  <2>1. AppendPoint(Token.num) /\ result = "running"
    BY <1>4, PointReadAppends DEF PointRead, PeriodPoint, Running
  <2>2. rows \in Seq(Readings)
    <3>1. Token \in Tokens
      BY <1>0, <1>4, TokenType DEF PointRead, PeriodPoint
    <3>2. Token.num \in Int
      BY <3>1 DEF Tokens
    <3> QED
      BY <1>0, <3>2, ReadingType DEF RowsType
  <2>3. CASE Full(rows)
    <3>1. PICK ok \in BOOLEAN : Flush(rows, ok)
      BY <2>1, <2>3 DEF AppendPoint
    <3>2. Len(rows) >= BatchRows
      BY <2>3 DEF Full
    <3> QED
      BY <2>1, <2>2, <3>1, <3>2 DEF Flush
  <2>4. CASE ~Full(rows)
    BY <2>1, <2>4 DEF AppendPoint
  <2> QED
    BY <2>3, <2>4
<1> QED
  BY <1>1, <1>2, <1>3, <1>4, ReadsOrStays DEF Read

(* For every document, batch size and limit, the k-th row of the n-th      *)
(* batch is the reading of the same point in every run (esmp.go:246-250).  *)
THEOREM SameBatchesAlways == Spec => []BatchesAreFixed
<1>1. Init => Aligned /\ BatchesAreFixed
  <2> SUFFICES ASSUME Init PROVE Aligned /\ BatchesAreFixed
    OBVIOUS
  <2>1. emitted = <<>> /\ Stored = <<>>
    BY DEF Init, Stored, FlattenSeq
  <2> QED
    BY <2>1, BoundsAssumption DEF Aligned, BatchesAreFixed
<1>2. /\ TypeOK /\ Aligned /\ BatchesAreFixed /\ [Next]_vars
      /\ EmitsReadingsInOrder' /\ BatchesAreBounded'
      => Aligned' /\ BatchesAreFixed'
  <2> SUFFICES ASSUME TypeOK, Aligned, BatchesAreFixed, [Next]_vars, EmitsReadingsInOrder', BatchesAreBounded'
               PROVE  Aligned' /\ BatchesAreFixed'
    OBVIOUS
  <2>0. RowsType /\ emitted \in Seq(Seq(Readings)) /\ Stored \in Seq(Readings) /\ BatchRows \in Nat \ {0}
    BY RowsAreReadings, BoundsAssumption DEF TypeOK, RowsType
  <2>1. doc' = doc
    <3>1. CursorType
      BY DEF TypeOK
    <3> QED
      BY <3>1, ReadsOrStays, ReadMoves DEF Stays
  <2>2. CASE emitted' = emitted /\ (result' = "running" => result = "running")
    BY <2>1, <2>2 DEF Aligned, BatchesAreFixed, Stored
  <2>3. ASSUME result = "running", NEW rows \in Seq(Readings), emitted' = Append(emitted, rows), batch' = <<>>,
               result' = "running" => Len(rows) >= BatchRows
        PROVE  Aligned' /\ BatchesAreFixed'
    <3> DEFINE m == Len(emitted)
    <3>1. Len(emitted') = m + 1 /\ emitted'[m + 1] = rows /\ m \in Nat /\ \A n \in 1 .. m : emitted'[n] = emitted[n]
      BY <2>0, <2>3
    <3>2. Stored' = Stored \o rows
      BY <2>0, <2>3, FlattenAppend DEF Stored
    <3>3. Len(Stored) = m * BatchRows
      BY <2>3 DEF Aligned
    <3>4. Len(rows) <= BatchRows /\ Len(rows) \in Nat
      BY <2>0, <2>3, <3>1 DEF BatchesAreBounded
    <3>5. Aligned'
      <4> SUFFICES ASSUME result' = "running" PROVE Len(Stored') = Len(emitted') * BatchRows
        BY DEF Aligned
      <4>1. Len(rows) = BatchRows
        BY <2>0, <2>3, <3>4
      <4>2. Len(Stored') = m * BatchRows + BatchRows
        <5>1. Len(Stored') = Len(Stored) + Len(rows)
          BY <2>0, <3>2
        <5> QED
          BY <3>3, <4>1, <5>1
      <4>3. (m + 1) * BatchRows = m * BatchRows + BatchRows
        BY <2>0, <3>1
      <4> QED
        BY <3>1, <4>2, <4>3
    <3>6. Stored' \o batch' = Stored \o rows
      BY <2>0, <2>3, <3>2
    <3>7. ASSUME NEW k \in 1 .. Len(rows), NEW i \in PointsAt(doc), Rank(doc, i) = m * BatchRows + k
          PROVE  rows[k] = ReadingAt(doc, i)
      <4>1. Rank(doc, i) = Len(Stored) + k /\ Rank(doc, i) <= Len(Stored \o rows)
        BY <2>0, <3>3, <3>7
      <4>2. (Stored \o rows)[Rank(doc, i)] = ReadingAt(doc, i)
        BY <2>1, <3>6, <4>1 DEF EmitsReadingsInOrder
      <4>3. (Stored \o rows)[Len(Stored) + k] = rows[k]
        BY <2>0, <3>7
      <4> QED
        BY <4>1, <4>2, <4>3
    <3>8. BatchesAreFixed'
      <4> SUFFICES ASSUME NEW n \in 1 .. m + 1, NEW k \in 1 .. Len(emitted'[n]), NEW i \in PointsAt(doc),
                          Rank(doc, i) = (n - 1) * BatchRows + k
                   PROVE  emitted'[n][k] = ReadingAt(doc, i)
        BY <2>1, <3>1 DEF BatchesAreFixed
      <4>1. CASE n = m + 1
        <5>1. (n - 1) * BatchRows = m * BatchRows
          BY <3>1, <4>1
        <5> QED
          BY <3>1, <3>7, <4>1, <5>1
      <4>2. CASE n # m + 1
        <5>1. n \in 1 .. m
          BY <3>1, <4>2
        <5> QED
          BY <3>1, <5>1 DEF BatchesAreFixed
      <4> QED
        BY <4>1, <4>2
    <3> QED
      BY <3>5, <3>8
  <2> QED
    BY <2>2, <2>3, Emits
<1> QED
  BY <1>1, <1>2, TypeCorrect, BoundedBatches, EmitsWhatIsMeant, PTL DEF Spec
=============================================================================
