------------------------- MODULE TradeDecisionProofs -------------------------
(***************************************************************************)
(* Proofs about TradeDecision: zones of a window share no candle and only  *)
(* ever get worse, a signal has passed every gate and its stop lies behind *)
(* the touched zone, and its size is the largest one within the limits.    *)
(***************************************************************************)
EXTENDS TradeDecision, FiniteSetTheorems, SequenceTheorems, TLAPS

-----------------------------------------------------------------------------
(* Finite sets of numbers                                                   *)

\* A finite set has no endless chain of smaller and smaller subsets.
LEMMA Smallest ==
  ASSUME NEW D, IsFiniteSet(D), NEW T, T \subseteq SUBSET D, T # {}
  PROVE  \E S \in T : \A R \in T : R \subseteq S => R = S
<1>1. \E S \in T : \A R \in T : ~(<<R, S>> \in StrictSubsetOrdering(D))
  BY FS_FiniteSubsetsOfFinite, FS_StrictSubsetOrderingWellFounded, WFMin
<1> QED
  BY <1>1 DEF StrictSubsetOrdering

\* Induction over the numbers, for a set of them.
LEMMA Counting ==
  ASSUME NEW P \in SUBSET Nat, 0 \in P, \A n \in P : n + 1 \in P
  PROVE  P = Nat
<1> SUFFICES ASSUME NEW N \in Nat \ P PROVE FALSE
  OBVIOUS
<1> DEFINE D == 0 .. N
           T == {0 .. n : n \in D \ P}
<1>1. IsFiniteSet(D)
  BY FS_Interval
<1>2. T \subseteq SUBSET D /\ T # {}
  OBVIOUS
<1>3. \E S \in T : \A R \in T : R \subseteq S => R = S
  <2> HIDE DEF T, D
  <2> QED
    BY <1>1, <1>2, Smallest
<1>4. PICK n \in D \ P : \A m \in D \ P : 0 .. m \subseteq 0 .. n => 0 .. m = 0 .. n
  <2>1. PICK S \in T : \A R \in T : R \subseteq S => R = S
    BY <1>3
  <2>2. PICK n \in D \ P : S = 0 .. n
    OBVIOUS
  <2>3. \A m \in D \ P : 0 .. m \in T
    OBVIOUS
  <2> HIDE DEF T, D
  <2> QED
    BY <2>1, <2>2, <2>3
<1>5. n \in Nat /\ n # 0
  OBVIOUS
<1>6. n - 1 \in D \ P
  <2>1. n - 1 \in D /\ (n - 1) + 1 = n
    BY <1>5
  <2> QED
    BY <2>1
<1>7. 0 .. n - 1 \subseteq 0 .. n /\ n \in 0 .. n /\ n \notin 0 .. n - 1
  BY <1>5
<1> QED
  BY <1>4, <1>6, <1>7

\* Of finitely many numbers one is the largest,
LEMMA LargestOf ==
  ASSUME NEW I, IsFiniteSet(I), I # {}, NEW f \in [I -> Int]
  PROVE  \E j \in I : \A k \in I : f[k] <= f[j]
<1> DEFINE Above(j) == {k \in I : f[k] > f[j]}
           T == {Above(j) : j \in I}
<1>1. T \subseteq SUBSET I /\ T # {}
  <2>1. ASSUME NEW S \in T PROVE S \in SUBSET I
    <3>1. PICK j \in I : S = Above(j)
      OBVIOUS
    <3> QED
      BY <3>1
  <2>2. PICK j \in I : TRUE
    OBVIOUS
  <2>3. Above(j) \in T
    OBVIOUS
  <2> HIDE DEF T
  <2> QED
    BY <2>1, <2>3
<1>2. PICK S \in T : \A R \in T : R \subseteq S => R = S
  <2> HIDE DEF T
  <2> QED
    BY <1>1, Smallest
<1>3. PICK j \in I : S = Above(j)
  OBVIOUS
<1>4. ASSUME NEW k \in I, f[k] > f[j] PROVE FALSE
  <2>1. Above(k) \subseteq Above(j)
    <3> SUFFICES ASSUME NEW x \in I, f[x] > f[k] PROVE f[x] > f[j]
      OBVIOUS
    <3>1. f[x] \in Int /\ f[k] \in Int /\ f[j] \in Int
      OBVIOUS
    <3> QED
      BY <1>4, <3>1
  <2>2. Above(k) \in T
    OBVIOUS
  <2>3. Above(k) = Above(j)
    BY <1>2, <1>3, <2>1, <2>2
  <2>4. k \in Above(j) /\ k \notin Above(k)
    BY <1>4
  <2> QED
    BY <2>3, <2>4
<1>5. ASSUME NEW k \in I PROVE f[k] <= f[j]
  <2>1. f[k] \in Int /\ f[j] \in Int /\ ~(f[k] > f[j])
    BY <1>4
  <2> QED
    BY <2>1
<1> QED
  BY <1>5

\* ... and one is the smallest.
LEMMA SmallestOf ==
  ASSUME NEW I, IsFiniteSet(I), I # {}, NEW f \in [I -> Int]
  PROVE  \E j \in I : \A k \in I : f[j] <= f[k]
<1> DEFINE g == [i \in I |-> -f[i]]
<1>1. g \in [I -> Int] /\ \A i \in I : f[i] \in Int /\ g[i] = -f[i]
  OBVIOUS
<1> HIDE DEF g
<1>2. PICK j \in I : \A k \in I : g[k] <= g[j]
  BY <1>1, LargestOf
<1>3. ASSUME NEW k \in I PROVE f[j] <= f[k]
  <2>1. f[j] \in Int /\ f[k] \in Int /\ -f[k] <= -f[j]
    BY <1>1, <1>2
  <2> QED
    BY <2>1
<1> QED
  BY <1>3

LEMMA MaxOfSet ==
  ASSUME NEW S \in SUBSET Int, IsFiniteSet(S), S # {}
  PROVE  Max(S) \in S /\ \A x \in S : x <= Max(S)
<1> DEFINE f == [x \in S |-> x]
<1>1. f \in [S -> Int] /\ \A x \in S : f[x] = x
  OBVIOUS
<1> HIDE DEF f
<1>2. PICK j \in S : \A k \in S : f[k] <= f[j]
  BY <1>1, LargestOf
<1>3. \A k \in S : j >= k
  BY <1>1, <1>2
<1>4. Max(S) \in S /\ \A x \in S : Max(S) >= x
  BY <1>3 DEF Max
<1> QED
  BY <1>4

LEMMA MinOfSet ==
  ASSUME NEW S \in SUBSET Int, IsFiniteSet(S), S # {}
  PROVE  Min(S) \in S /\ \A x \in S : Min(S) <= x
<1> DEFINE f == [x \in S |-> x]
<1>1. f \in [S -> Int] /\ \A x \in S : f[x] = x
  OBVIOUS
<1> HIDE DEF f
<1>2. PICK j \in S : \A k \in S : f[j] <= f[k]
  BY <1>1, SmallestOf
<1>3. \A k \in S : j <= k
  BY <1>1, <1>2
<1> QED
  BY <1>3 DEF Min

\* The same for the values of finitely many indices.
LEMMA ExtremeValues ==
  ASSUME NEW I, IsFiniteSet(I), I # {}, NEW f \in [I -> Int],
         NEW S, S = {f[i] : i \in I}
  PROVE  Max(S) \in Int /\ Min(S) \in Int
<1>1. \E j \in I : \A k \in I : f[k] <= f[j]
  BY LargestOf
<1>2. \E x \in S : \A y \in S : x >= y
  BY <1>1
<1>3. \E j \in I : \A k \in I : f[j] <= f[k]
  BY SmallestOf
<1>4. \E x \in S : \A y \in S : x <= y
  BY <1>3
<1>5. Max(S) \in S /\ Min(S) \in S
  BY <1>2, <1>4 DEF Max, Min
<1> QED
  BY <1>5

LEMMA OfTwo ==
  ASSUME NEW a \in Int, NEW b \in Int
  PROVE  /\ Max({a, b}) = IF a > b THEN a ELSE b
         /\ Min({a, b}) = IF a > b THEN b ELSE a
<1>1. IsFiniteSet({a, b})
  <2>1. IsFiniteSet({} \cup {a})
    BY FS_EmptySet, FS_AddElement
  <2>2. IsFiniteSet(({} \cup {a}) \cup {b})
    BY <2>1, FS_AddElement
  <2>3. ({} \cup {a}) \cup {b} = {a, b}
    OBVIOUS
  <2> QED
    BY <2>2, <2>3
<1>2. /\ Max({a, b}) \in {a, b} /\ a <= Max({a, b}) /\ b <= Max({a, b})
      /\ Min({a, b}) \in {a, b} /\ Min({a, b}) <= a /\ Min({a, b}) <= b
  <2> DEFINE S == {a, b}
  <2>1. S \in SUBSET Int /\ S # {} /\ a \in S /\ b \in S
    OBVIOUS
  <2>2. IsFiniteSet(S)
    BY <1>1
  <2>3. Max(S) \in S /\ Min(S) \in S /\ \A x \in S : x <= Max(S) /\ Min(S) <= x
    <3> HIDE DEF S
    <3> QED
      BY <2>1, <2>2, MaxOfSet, MinOfSet
  <2> QED
    BY <2>1, <2>3
<1> QED
  BY <1>2

-----------------------------------------------------------------------------
(* Candles and their bodies                                                 *)

Candle == [open : Int, high : Int, low : Int, close : Int]

LEMMA BodyIsNat ==
  ASSUME NEW c \in Candle
  PROVE  Body(c) \in Nat
<1>1. c.open \in Int /\ c.close \in Int
  BY DEF Candle
<1> QED
  BY <1>1, OfTwo DEF Body

Pick(S) == CHOOSE x \in S : TRUE

\* The sum of the bodies of a sequence, as its fold computes it.
Bodies(s) == CHOOSE f : f = [S \in SUBSET DOMAIN s |->
                IF S = {} THEN 0 ELSE Body(s[Pick(S)]) + f[S \ {Pick(S)}]]

LEMMA BodiesDefined ==
  ASSUME NEW s \in Seq(Candle), NEW D, D = DOMAIN s
  PROVE  /\ Bodies(s) \in [SUBSET D -> Nat]
         /\ Bodies(s)[{}] = 0
         /\ \A S \in SUBSET D :
              S # {} => Bodies(s)[S] = Body(s[Pick(S)]) + Bodies(s)[S \ {Pick(S)}]
<1> DEFINE Small(n) == {S \in SUBSET D : Cardinality(S) <= n}
           Adds(f, S) == f[S] = IF S = {} THEN 0 ELSE Body(s[Pick(S)]) + f[S \ {Pick(S)}]
           P == {n \in Nat : \E f \in [Small(n) -> Nat] : \A S \in Small(n) : Adds(f, S)}
<1>1. IsFiniteSet(D)
  BY FS_Interval
<1>0. ASSUME NEW x \in D PROVE Body(s[x]) \in Nat
  <2>1. s[x] \in Candle
    OBVIOUS
  <2> QED
    BY <2>1, BodyIsNat
<1>2. ASSUME NEW S \in SUBSET D
      PROVE  /\ IsFiniteSet(S) /\ Cardinality(S) \in Nat
             /\ Cardinality(S) <= Cardinality(D)
             /\ S # {} => /\ Pick(S) \in S
                          /\ Cardinality(S \ {Pick(S)}) = Cardinality(S) - 1
                          /\ Cardinality(S) # 0
  <2>1. IsFiniteSet(S) /\ Cardinality(S) \in Nat /\ Cardinality(S) <= Cardinality(D)
    BY <1>1, FS_Subset, FS_CardinalityType
  <2>2. ASSUME S # {}
        PROVE  /\ Pick(S) \in S /\ Cardinality(S \ {Pick(S)}) = Cardinality(S) - 1
               /\ Cardinality(S) # 0
    <3>1. Pick(S) \in S
      BY <2>2 DEF Pick
    <3> QED
      BY <2>1, <2>2, <3>1, FS_RemoveElement, FS_EmptySet
  <2> QED
    BY <2>1, <2>2
<1>3. 0 \in P
  <2> DEFINE f == [S \in Small(0) |-> 0]
  <2>1. ASSUME NEW S \in Small(0) PROVE S = {}
    <3>1. S \in SUBSET D /\ Cardinality(S) <= 0
      OBVIOUS
    <3>2. Cardinality(S) \in Nat /\ (S # {} => Cardinality(S) # 0)
      BY <1>2, <3>1
    <3> QED
      BY <3>1, <3>2
  <2>2. f \in [Small(0) -> Nat] /\ \A S \in Small(0) : Adds(f, S)
    BY <2>1
  <2> QED
    BY <2>2
<1>4. ASSUME NEW n \in P PROVE n + 1 \in P
  <2>1. n \in Nat
    OBVIOUS
  <2>2. PICK f \in [Small(n) -> Nat] : \A S \in Small(n) : Adds(f, S)
    OBVIOUS
  <2> DEFINE g == [S \in Small(n + 1) |-> IF S = {} THEN 0 ELSE Body(s[Pick(S)]) + f[S \ {Pick(S)}]]
  <2>3. ASSUME NEW S \in Small(n + 1), S # {}
        PROVE  /\ S \ {Pick(S)} \in Small(n) /\ S \ {Pick(S)} \in Small(n + 1)
               /\ Pick(S) \in D
    <3>1. S \in SUBSET D /\ Cardinality(S) <= n + 1
      OBVIOUS
    <3>2. /\ Pick(S) \in S /\ Cardinality(S) \in Nat
          /\ Cardinality(S \ {Pick(S)}) = Cardinality(S) - 1
      BY <1>2, <2>3, <3>1
    <3>3. Cardinality(S) - 1 <= n /\ Cardinality(S) - 1 <= n + 1
      BY <2>1, <3>1, <3>2
    <3> QED
      BY <3>1, <3>2, <3>3
  <2>4. ASSUME NEW S \in Small(n) PROVE S \in Small(n + 1) /\ g[S] = f[S]
    <3>1. S \in Small(n + 1)
      <4>1. S \in SUBSET D /\ Cardinality(S) <= n
        OBVIOUS
      <4>2. Cardinality(S) \in Nat
        BY <1>2, <4>1
      <4>3. Cardinality(S) <= n + 1
        BY <2>1, <4>1, <4>2
      <4> QED
        BY <4>1, <4>3
    <3>2. Adds(f, S)
      BY <2>2
    <3> QED
      BY <3>1, <3>2
  <2>5. g \in [Small(n + 1) -> Nat]
    <3>1. ASSUME NEW S \in Small(n + 1), S # {} PROVE Body(s[Pick(S)]) + f[S \ {Pick(S)}] \in Nat
      <4>1. Body(s[Pick(S)]) \in Nat /\ f[S \ {Pick(S)}] \in Nat
        BY <1>0, <2>3, <3>1
      <4> QED
        BY <4>1
    <3> QED
      BY <3>1
  <2>6. ASSUME NEW S \in Small(n + 1) PROVE Adds(g, S)
    BY <2>3, <2>4
  <2>7. n + 1 \in Nat
    BY <2>1
  <2> HIDE DEF g
  <2> QED
    BY <2>5, <2>6, <2>7
<1>5. P = Nat
  <2>1. P \in SUBSET Nat
    OBVIOUS
  <2> HIDE DEF P
  <2> QED
    BY <1>3, <1>4, <2>1, Counting
<1>6. Cardinality(D) \in P
  BY <1>1, <1>5, FS_CardinalityType
<1>7. Small(Cardinality(D)) = SUBSET D
  BY <1>2
<1>8. PICK f \in [SUBSET D -> Nat] : \A S \in SUBSET D : Adds(f, S)
  BY <1>6, <1>7
<1>9. f = [S \in SUBSET D |-> IF S = {} THEN 0 ELSE Body(s[Pick(S)]) + f[S \ {Pick(S)}]]
  BY <1>8
<1>10. Bodies(s) = [S \in SUBSET D |->
                   IF S = {} THEN 0 ELSE Body(s[Pick(S)]) + Bodies(s)[S \ {Pick(S)}]]
  BY <1>9 DEF Bodies
<1> DEFINE h == Bodies(s)
<1>11. \A S \in SUBSET D : Adds(h, S)
  BY <1>10
<1>12. h \in [SUBSET D -> Nat]
  <2> DEFINE T == {S \in SUBSET D : h[S] \notin Nat}
  <2>1. ASSUME T # {} PROVE FALSE
    <3>1. PICK S \in T : \A R \in T : R \subseteq S => R = S
      <4>1. T \subseteq SUBSET D
        OBVIOUS
      <4> HIDE DEF T
      <4> QED
        BY <1>1, <2>1, <4>1, Smallest
    <3>2. S \in SUBSET D /\ S # {} /\ Pick(S) \in S
      <4>1. S \in SUBSET D /\ h[S] \notin Nat
        BY <3>1
      <4>2. Adds(h, {})
        <5>1. {} \in SUBSET D
          OBVIOUS
        <5> HIDE DEF Adds, h
        <5> QED
          BY <1>11, <5>1
      <4>3. h[{}] = 0
        BY <4>2
      <4>4. S # {}
        <5> HIDE DEF h
        <5>1. ASSUME S = {} PROVE h[S] = 0
          BY <4>3, <5>1
        <5> QED
          BY <4>1, <5>1
      <4> QED
        BY <1>2, <4>1, <4>4
    <3>3. S \ {Pick(S)} \notin T
      BY <3>1, <3>2
    <3>4. h[S \ {Pick(S)}] \in Nat /\ Body(s[Pick(S)]) \in Nat
      BY <1>0, <3>2, <3>3
    <3>5. h[S] = Body(s[Pick(S)]) + h[S \ {Pick(S)}]
      BY <1>11, <3>2
    <3>6. h[S] \in Nat
      BY <3>4, <3>5
    <3> QED
      BY <3>1, <3>6
  <2>2. h = [S \in SUBSET D |-> h[S]]
    BY <1>10
  <2> QED
    BY <2>1, <2>2
<1> QED
  BY <1>11, <1>12

LEMMA Numbers ==
  /\ Atr \in Nat /\ ImpulseBody \in Nat /\ BreakBuffer \in Nat /\ Mitigation \in Nat
  /\ MaxBase \in Nat /\ MaxZones \in Nat /\ WarmUp \in Nat
  /\ AvgWindow \in Nat /\ AvgWindow > 0 /\ AvgWindow \div 2 \in Nat
<1>1. /\ Atr \in Nat /\ ImpulseBody \in Nat /\ BreakBuffer \in Nat /\ Mitigation \in Nat
      /\ MaxBase \in Nat /\ MaxZones \in Nat /\ WarmUp \in Nat
  BY ZonesAssumption
<1>2. PICK n \in 1 .. 10 : AvgWindow = 2 * n
  BY ZonesAssumption
<1>3. AvgWindow \in Nat /\ AvgWindow > 0 /\ AvgWindow \div 2 \in Nat
  BY <1>2
<1> QED
  BY <1>1, <1>3

LEMMA BodySumIsNat ==
  ASSUME NEW b \in Seq(Candle), NEW i \in 1 .. Len(b)
  PROVE  BodySum(b, i) \in Nat
<1> DEFINE h  == AvgWindow \div 2
           lo == Max({1, i - h})
           hi == Min({Len(b), i + h - 1})
           s  == SubSeq(b, lo, hi)
<1>1. h \in Nat
  BY Numbers
<1>2. lo \in Int /\ lo >= 1 /\ hi \in Int /\ hi <= Len(b)
  <2> HIDE DEF h
  <2>1. PICK x \in Int, y \in Int, z \in Int : x = i - h /\ y = i + h - 1 /\ z = Len(b)
    BY <1>1
  <2>2. lo = Max({1, x}) /\ hi = Min({z, y})
    BY <2>1
  <2>3. /\ Max({1, x}) = IF 1 > x THEN 1 ELSE x
        /\ Min({z, y}) = IF z > y THEN y ELSE z
    <3>1. 1 \in Int
      OBVIOUS
    <3>2. Max({1, x}) = IF 1 > x THEN 1 ELSE x
      BY <3>1, OfTwo
    <3>3. Min({z, y}) = IF z > y THEN y ELSE z
      BY OfTwo
    <3> QED
      BY <3>2, <3>3
  <2> HIDE DEF lo, hi
  <2> QED
    BY <2>1, <2>2, <2>3
<1>3. s \in Seq(Candle)
  <2> HIDE DEF lo, hi
  <2>1. \A k \in lo .. hi : b[k] \in Candle
    BY <1>2
  <2> QED
    BY <1>2, <2>1, SubSeqProperties
<1>4. BodySum(b, i) = Bodies(s)[DOMAIN s]
  BY DEF BodySum, FoldSeq, FoldFunction, FoldFunctionOnSet, MapThenFoldSet, Bodies, Pick
<1> HIDE DEF s
<1>5. Bodies(s) \in [SUBSET DOMAIN s -> Nat]
  BY <1>3, BodiesDefined
<1> QED
  BY <1>4, <1>5

-----------------------------------------------------------------------------
(* Bases and zones                                                          *)

LEMMA BaseIsQuiet ==
  ASSUME NEW b, NEW i \in Nat \ {0}
  PROVE  /\ BaseLength(b, i) \in Nat
         /\ BaseLength(b, i) <= MaxBase /\ BaseLength(b, i) <= i - 1
         /\ \A j \in i - BaseLength(b, i) .. i - 1 : Quiet(b, j)
<1> DEFINE m == Min({MaxBase, i - 1})
           K == {k \in 0 .. m : \A j \in i - k .. i - 1 : Quiet(b, j)}
<1>1. m \in Nat /\ m <= MaxBase /\ m <= i - 1
  BY Numbers, OfTwo
<1>2. 0 \in K
  <2> HIDE DEF m
  <2> QED
    BY <1>1
<1>3. IsFiniteSet(K) /\ K \in SUBSET Int
  <2>1. IsFiniteSet(0 .. m)
    BY <1>1, FS_Interval
  <2>2. K \subseteq 0 .. m /\ 0 .. m \subseteq Int
    BY <1>1
  <2> HIDE DEF K, m
  <2> QED
    BY <2>1, <2>2, FS_Subset
<1>4. BaseLength(b, i) \in K
  <2>1. BaseLength(b, i) = Max(K)
    BY DEF BaseLength
  <2> HIDE DEF K
  <2> QED
    BY <1>2, <1>3, <2>1, MaxOfSet
<1> HIDE DEF m
<1> QED
  BY <1>1, <1>4, Numbers

ZoneState == {"fresh", "tested", "mitigated", "broken"}

Zone == [kind : {"supply", "demand"}, top : Int, bottom : Int, origin : Nat,
         score : Nat, state : ZoneState, touches : Nat]

\* Only a zone that has not been touched is fresh.
Untouched(z) == z.state = "fresh" => z.touches = 0

LEMMA NewZoneType ==
  ASSUME NEW b \in Seq(Candle), NEW i \in 1 .. Len(b)
  PROVE  /\ NewZone(b, i) \in Zone
         /\ NewZone(b, i).state = "fresh" /\ NewZone(b, i).touches = 0
         /\ NewZone(b, i).origin = i /\ NewZone(b, i).score = BaseLength(b, i)
<1> DEFINE n == BaseLength(b, i)
           I == (i - n) .. i
           high == [j \in I |-> b[j].high]
           low  == [j \in I |-> b[j].low]
<1>1. n \in Nat /\ n <= i - 1
  BY BaseIsQuiet
<1> HIDE DEF n
<1>2. IsFiniteSet(I) /\ I # {} /\ I \subseteq 1 .. Len(b)
  <2>1. i - n \in Int /\ i \in I
    BY <1>1
  <2>2. IsFiniteSet(I)
    BY <1>1, <2>1, FS_Interval
  <2>3. I \subseteq 1 .. Len(b)
    BY <1>1
  <2> QED
    BY <2>1, <2>2, <2>3
<1>3. high \in [I -> Int] /\ low \in [I -> Int]
  <2>1. ASSUME NEW j \in I PROVE b[j].high \in Int /\ b[j].low \in Int
    <3>1. b[j] \in Candle
      BY <1>2
    <3> QED
      BY <3>1 DEF Candle
  <2> QED
    BY <2>1
<1>4. Max({b[j].high : j \in I}) \in Int
  <2>1. {b[j].high : j \in I} = {high[j] : j \in I}
    OBVIOUS
  <2> HIDE DEF I, high
  <2> QED
    BY <1>2, <1>3, <2>1, ExtremeValues
<1>5. Min({b[j].low : j \in I}) \in Int
  <2>1. {b[j].low : j \in I} = {low[j] : j \in I}
    OBVIOUS
  <2> HIDE DEF I, low
  <2> QED
    BY <1>2, <1>3, <2>1, ExtremeValues
<1>6. NewZone(b, i) =
        [kind   |-> IF b[i].close < b[i].open THEN "supply" ELSE "demand",
         top    |-> Max({b[j].high : j \in I}),
         bottom |-> Min({b[j].low : j \in I}),
         origin |-> i, score |-> n, state |-> "fresh", touches |-> 0]
  BY DEF NewZone, n
<1> HIDE DEF I
<1> QED
  BY <1>1, <1>4, <1>5, <1>6 DEF Zone, ZoneState, n

-----------------------------------------------------------------------------
(* The scan of a window                                                     *)

\* What the scan finds from candle i on, given what it finds from later ones on.
Follow(b, f, i) ==
  IF i >= Len(b) THEN <<>>
  ELSE IF ~Impulse(b, i) THEN f[i + 1]
  ELSE (IF BaseLength(b, i) > 0 THEN <<NewZone(b, i)>> ELSE <<>>)
       \o f[i + BaseLength(b, i) + 1]

Scan(b) == CHOOSE f : f = [i \in 1 .. Len(b) + MaxBase + 1 |-> Follow(b, f, i)]

LEMMA ZonesAreScanned ==
  ASSUME NEW b
  PROVE  BuildZones(b) =
           IF Len(b) < WarmUp + 5 THEN <<>>
           ELSE SubSeq(Scan(b)[WarmUp + 2],
                       Max({1, Len(Scan(b)[WarmUp + 2]) - MaxZones + 1}),
                       Len(Scan(b)[WarmUp + 2]))
BY Zenon DEF BuildZones, Scan, Follow

LEMMA FollowLooksAhead ==
  ASSUME NEW b \in Seq(Candle), NEW i \in 1 .. Len(b) + MaxBase + 1, NEW f, NEW g,
         \A j \in 1 .. Len(b) + MaxBase + 1 : j > i => f[j] = g[j]
  PROVE  Follow(b, f, i) = Follow(b, g, i)
<1>1. CASE i >= Len(b)
  BY <1>1 DEF Follow
<1>2. CASE ~(i >= Len(b))
  <2> DEFINE n == BaseLength(b, i)
  <2>1. n \in Nat /\ n <= MaxBase /\ MaxBase \in Nat
    BY BaseIsQuiet, Numbers
  <2> HIDE DEF n
  <2>2. f[i + 1] = g[i + 1] /\ f[i + n + 1] = g[i + n + 1]
    <3>1. i \in Nat /\ Len(b) \in Nat /\ i < Len(b)
      BY <1>2, Numbers
    <3>2. i + 1 \in 1 .. Len(b) + MaxBase + 1 /\ i + 1 > i
      BY <2>1, <3>1
    <3>3. i + n + 1 \in 1 .. Len(b) + MaxBase + 1 /\ i + n + 1 > i
      BY <2>1, <3>1
    <3> QED
      BY <3>2, <3>3
  <2> QED
    BY <2>2 DEF Follow, n
<1> QED
  BY <1>1, <1>2

\* The recursion is defined, from the last candle backwards.
LEMMA ScanDefined ==
  ASSUME NEW b \in Seq(Candle)
  PROVE  \A i \in 1 .. Len(b) + MaxBase + 1 : Scan(b)[i] = Follow(b, Scan(b), i)
<1> DEFINE N == Len(b) + MaxBase + 1
           D == 1 .. N
           Follows(f, k) == \A i \in D : i > N - k => f[i] = Follow(b, f, i)
           P == {k \in Nat : \E f : f = [i \in D |-> f[i]] /\ Follows(f, k)}
<1>1. N \in Nat
  BY Numbers
<1>2. 0 \in P
  <2> DEFINE f == [i \in D |-> <<>>]
  <2>1. f = [i \in D |-> f[i]]
    OBVIOUS
  <2>2. Follows(f, 0)
    <3> HIDE DEF f, N
    <3> QED
      BY <1>1
  <2> HIDE DEF f, D, Follows
  <2> QED
    BY <2>1, <2>2
<1>3. ASSUME NEW k \in P PROVE k + 1 \in P
  <2>1. k \in Nat
    OBVIOUS
  <2>2. PICK f : f = [i \in D |-> f[i]] /\ Follows(f, k)
    OBVIOUS
  <2> DEFINE g == [i \in D |-> IF i = N - k THEN Follow(b, f, i) ELSE f[i]]
  <2>3. g = [i \in D |-> g[i]]
    OBVIOUS
  <2>4. ASSUME NEW i \in D, i > N - (k + 1) PROVE g[i] = Follow(b, g, i)
    <3>1. ASSUME NEW j \in D, j > i PROVE f[j] = g[j]
      <4>1. j # N - k
        <5> HIDE DEF N
        <5> QED
          BY <1>1, <2>1, <2>4, <3>1
      <4> QED
        BY <4>1
    <3>2. Follow(b, f, i) = Follow(b, g, i)
      <4> HIDE DEF g
      <4> QED
        BY <3>1, FollowLooksAhead
    <3>3. g[i] = Follow(b, f, i)
      <4>1. CASE i = N - k
        BY <4>1
      <4>2. CASE i # N - k
        <5>1. i > N - k
          <6> HIDE DEF N
          <6> QED
            BY <1>1, <2>1, <2>4, <4>2
        <5>2. f[i] = Follow(b, f, i)
          <6> HIDE DEF N, D
          <6> QED
            BY <2>2, <5>1
        <5> QED
          BY <4>2, <5>2
      <4> QED
        BY <4>1, <4>2
    <3> QED
      BY <3>2, <3>3
  <2>5. Follows(g, k + 1)
    <3> HIDE DEF g
    <3> QED
      BY <2>4
  <2>6. k + 1 \in Nat
    BY <2>1
  <2> HIDE DEF g, Follows, D
  <2> QED
    BY <2>3, <2>5, <2>6
<1>4. P = Nat
  <2>1. P \in SUBSET Nat
    OBVIOUS
  <2> HIDE DEF P
  <2> QED
    BY <1>2, <1>3, <2>1, Counting
<1>5. PICK f : f = [i \in D |-> f[i]] /\ Follows(f, N)
  <2>1. N \in P
    BY <1>1, <1>4
  <2> HIDE DEF Follows, D, N
  <2> QED
    BY <2>1
<1>6. \A i \in D : f[i] = Follow(b, f, i)
  <2> HIDE DEF N
  <2> QED
    BY <1>1, <1>5
<1>7. f = [i \in D |-> Follow(b, f, i)]
  BY <1>5, <1>6
<1>8. Scan(b) = [i \in D |-> Follow(b, Scan(b), i)]
  BY <1>7 DEF Scan
<1> DEFINE h == Scan(b)
<1>9. h = [i \in D |-> Follow(b, h, i)]
  BY <1>8
<1>10. \A i \in D : h[i] = Follow(b, h, i)
  <2> HIDE DEF h, D
  <2> QED
    BY <1>9
<1> QED
  BY <1>10

\* What holds of the zones found from candle i on: each is the one that an impulse
\* behind it leaves, and they are in the order of their impulses.
Good(b, s, i) ==
  /\ s \in Seq(Zone)
  /\ \A k \in DOMAIN s :
       LET o == s[k].origin
       IN /\ o \in i .. Len(b) - 1 /\ Impulse(b, o)
          /\ s[k] = NewZone(b, o)
  /\ \A k, l \in DOMAIN s : k < l => s[k].origin < s[l].origin

LEMMA GoodEarlier ==
  ASSUME NEW b \in Seq(Candle), NEW i \in Nat, NEW m \in Nat, i <= m, NEW s, Good(b, s, m)
  PROVE  Good(b, s, i)
<1>1. ASSUME NEW k \in DOMAIN s PROVE s[k].origin \in i .. Len(b) - 1
  <2>1. s[k].origin \in m .. Len(b) - 1
    BY DEF Good
  <2> QED
    BY <2>1
<1> QED
  BY <1>1 DEF Good

LEMMA GoodWithFirst ==
  ASSUME NEW b \in Seq(Candle), NEW i \in 1 .. Len(b) - 1, Impulse(b, i),
         NEW m \in Nat, i < m, NEW s, Good(b, s, m)
  PROVE  Good(b, <<NewZone(b, i)>> \o s, i)
<1> DEFINE z == NewZone(b, i)
           t == <<z>> \o s
<1>1. s \in Seq(Zone)
  BY DEF Good
<1>2. z \in Zone /\ z.origin = i
  BY NewZoneType
<1> HIDE DEF z
<1>3. <<z>> \in Seq(Zone) /\ Len(<<z>>) = 1
  BY <1>2
<1>4. t \in Seq(Zone) /\ Len(t) = Len(s) + 1 /\ t[1] = z
  BY <1>1, <1>3
<1>5. ASSUME NEW k \in DOMAIN t, k # 1 PROVE k - 1 \in DOMAIN s /\ t[k] = s[k - 1]
  BY <1>1, <1>3, <1>4, <1>5
<1> HIDE DEF t
<1>6. ASSUME NEW k \in DOMAIN t
      PROVE  /\ t[k].origin \in i .. Len(b) - 1 /\ Impulse(b, t[k].origin)
             /\ t[k] = NewZone(b, t[k].origin)
  <2>1. CASE k = 1
    <3>1. t[k] = z /\ z = NewZone(b, i) /\ i \in i .. Len(b) - 1
      BY <1>4, <2>1 DEF z
    <3> QED
      BY <1>2, <3>1
  <2>2. CASE k # 1
    <3>1. k - 1 \in DOMAIN s /\ t[k] = s[k - 1]
      BY <1>5, <2>2
    <3>2. /\ s[k - 1].origin \in m .. Len(b) - 1 /\ Impulse(b, s[k - 1].origin)
          /\ s[k - 1] = NewZone(b, s[k - 1].origin)
      BY <3>1 DEF Good
    <3>3. s[k - 1].origin \in i .. Len(b) - 1
      BY <3>2
    <3> QED
      BY <3>1, <3>2, <3>3
  <2> QED
    BY <2>1, <2>2
<1>7. ASSUME NEW k \in DOMAIN t, NEW l \in DOMAIN t, k < l
      PROVE  t[k].origin < t[l].origin
  <2>1. k \in Nat /\ l \in Nat /\ k >= 1 /\ l # 1
    BY <1>4, <1>7
  <2>2. l - 1 \in DOMAIN s /\ t[l] = s[l - 1]
    BY <1>5, <2>1
  <2>3. CASE k = 1
    <3>1. s[l - 1].origin \in m .. Len(b) - 1
      BY <2>2 DEF Good
    <3>2. t[k].origin = i
      BY <1>2, <1>4, <2>3
    <3> QED
      BY <2>2, <3>1, <3>2
  <2>4. CASE k # 1
    <3>1. k - 1 \in DOMAIN s /\ t[k] = s[k - 1]
      BY <1>5, <2>4
    <3>2. k - 1 < l - 1
      BY <1>7, <2>1
    <3>3. s[k - 1].origin < s[l - 1].origin
      BY <2>2, <3>1, <3>2 DEF Good
    <3> QED
      BY <2>2, <3>1, <3>3
  <2> QED
    BY <2>3, <2>4
<1>8. Good(b, t, i)
  BY <1>4, <1>6, <1>7 DEF Good
<1> QED
  BY <1>8 DEF t, z

\* By induction from the end of the window.
LEMMA ScanIsGood ==
  ASSUME NEW b \in Seq(Candle), NEW i \in 1 .. Len(b) + MaxBase + 1
  PROVE  Good(b, Scan(b)[i], i)
<1> DEFINE N == Len(b) + MaxBase + 1
           f == Scan(b)
           P == {k \in Nat : \A j \in 1 .. N : j > N - k => Good(b, f[j], j)}
<1>1. N \in Nat /\ Len(b) \in Nat /\ MaxBase \in Nat
  BY Numbers
<1>2. \A j \in 1 .. N : f[j] = Follow(b, f, j)
  BY ScanDefined
<1>3. 0 \in P
  <2> HIDE DEF f, N
  <2> QED
    BY <1>1
<1>4. ASSUME NEW k \in P PROVE k + 1 \in P
  <2>1. k \in Nat /\ \A j \in 1 .. N : j > N - k => Good(b, f[j], j)
    OBVIOUS
  <2>2. ASSUME NEW j \in 1 .. N, j = N - k PROVE Good(b, f[j], j)
    <3> HIDE DEF P, f
    <3>1. f[j] = Follow(b, f, j)
      BY <1>2
    <3>2. CASE j >= Len(b)
      <4>1. f[j] = <<>>
        BY <3>1, <3>2 DEF Follow
      <4> QED
        BY <4>1 DEF Good
    <3>3. CASE ~(j >= Len(b))
      <4> DEFINE n == BaseLength(b, j)
      <4>1. j \in Nat /\ j \in 1 .. Len(b) - 1
        BY <1>1, <3>3
      <4>2. n \in Nat /\ n <= MaxBase
        BY <4>1, BaseIsQuiet
      <4> HIDE DEF n
      <4>3. ASSUME NEW q \in 0 .. n
            PROVE  j + q + 1 \in Nat /\ j < j + q + 1 /\ Good(b, f[j + q + 1], j + q + 1)
        <5>1. j + q + 1 \in 1 .. N /\ j + q + 1 > N - k
          BY <1>1, <2>1, <2>2, <4>1, <4>2
        <5>2. Good(b, f[j + q + 1], j + q + 1)
          <6> HIDE DEF N
          <6> QED
            BY <2>1, <5>1
        <5> QED
          BY <4>1, <5>2
      <4>4. CASE ~Impulse(b, j)
        <5>1. f[j] = f[j + 1]
          BY <3>1, <3>3, <4>4 DEF Follow
        <5>2. 0 \in 0 .. n /\ j + 0 + 1 = j + 1
          BY <4>1, <4>2
        <5>3. j + 1 \in Nat /\ j <= j + 1 /\ Good(b, f[j + 1], j + 1)
          BY <4>1, <4>3, <5>2
        <5> QED
          BY <4>1, <5>1, <5>3, GoodEarlier
      <4>5. CASE Impulse(b, j)
        <5> DEFINE m == j + n + 1
                   s == f[m]
        <5>1. m \in Nat /\ j < m /\ Good(b, s, m)
          BY <4>2, <4>3
        <5>2. f[j] = (IF n > 0 THEN <<NewZone(b, j)>> ELSE <<>>) \o s
          BY <3>1, <3>3, <4>5 DEF Follow, n
        <5> HIDE DEF m, s
        <5>3. CASE n > 0
          BY <4>1, <4>5, <5>1, <5>2, <5>3, GoodWithFirst
        <5>4. CASE ~(n > 0)
          <6>1. s \in Seq(Zone)
            BY <5>1 DEF Good
          <6>2. f[j] = s
            BY <5>2, <5>4, <6>1
          <6>3. j <= m
            BY <4>1, <5>1
          <6> QED
            BY <4>1, <5>1, <6>2, <6>3, GoodEarlier
        <5> QED
          BY <5>3, <5>4
      <4> QED
        BY <4>4, <4>5
    <3> QED
      BY <3>2, <3>3
  <2>3. ASSUME NEW j \in 1 .. N, j > N - (k + 1) PROVE Good(b, f[j], j)
    <3>1. j = N - k \/ j > N - k
      BY <1>1, <2>1, <2>3
    <3> QED
      BY <2>1, <2>2, <3>1
  <2> HIDE DEF f, N
  <2> QED
    BY <2>1, <2>3
<1>5. P = Nat
  <2>1. P \in SUBSET Nat
    OBVIOUS
  <2> HIDE DEF P
  <2> QED
    BY <1>3, <1>4, <2>1, Counting
<1>6. N \in P
  BY <1>1, <1>5
<1>7. i \in 1 .. N /\ i > N - N
  BY <1>1
<1> HIDE DEF f, N
<1>8. Good(b, f[i], i)
  BY <1>6, <1>7
<1> QED
  BY <1>8 DEF f

LEMMA BuiltIsGood ==
  ASSUME NEW b \in Seq(Candle)
  PROVE  Good(b, BuildZones(b), 1)
<1>1. CASE Len(b) < WarmUp + 5
  <2>1. BuildZones(b) = <<>>
    BY <1>1, ZonesAreScanned
  <2> QED
    BY <2>1 DEF Good
<1>2. CASE ~(Len(b) < WarmUp + 5)
  <2> DEFINE s == Scan(b)[WarmUp + 2]
             lo == Max({1, Len(s) - MaxZones + 1})
             t == SubSeq(s, lo, Len(s))
  <2>1. WarmUp + 2 \in 1 .. Len(b) + MaxBase + 1 /\ 1 <= WarmUp + 2
    BY <1>2, Numbers
  <2>2. Good(b, s, 1)
    <3>1. Good(b, s, WarmUp + 2)
      BY <2>1, ScanIsGood
    <3> HIDE DEF s
    <3>2. WarmUp + 2 \in Nat /\ 1 \in Nat
      BY Numbers
    <3> QED
      BY <2>1, <3>1, <3>2, GoodEarlier
  <2>3. BuildZones(b) = t
    BY <1>2, ZonesAreScanned, Zenon
  <2> HIDE DEF s
  <2>4. s \in Seq(Zone) /\ Len(s) \in Nat
    BY <2>2 DEF Good
  <2>5. lo \in Int /\ lo >= 1
    <3>1. PICK x \in Int : x = Len(s) - MaxZones + 1
      <4> HIDE DEF lo
      <4>1. PICK l \in Nat, m \in Nat : l = Len(s) /\ m = MaxZones
        BY <2>4, Numbers
      <4>2. l - m + 1 \in Int
        OBVIOUS
      <4> QED
        BY <4>1, <4>2
    <3>2. lo = Max({1, x}) /\ 1 \in Int
      BY <3>1
    <3>3. Max({1, x}) = IF 1 > x THEN 1 ELSE x
      BY <3>2, OfTwo
    <3> QED
      BY <3>2, <3>3
  <2> HIDE DEF lo
  <2>6. /\ t \in Seq(Zone)
        /\ Len(t) = IF lo <= Len(s) THEN Len(s) - lo + 1 ELSE 0
        /\ \A k \in 1 .. Len(s) - lo + 1 : t[k] = s[lo + k - 1]
    <3>1. \A k \in lo .. Len(s) : s[k] \in Zone
      BY <2>4, <2>5
    <3> QED
      BY <2>4, <2>5, <3>1, SubSeqProperties
  <2>7. ASSUME NEW k \in DOMAIN t PROVE lo + k - 1 \in DOMAIN s /\ t[k] = s[lo + k - 1]
    <3> HIDE DEF t
    <3>1. k \in 1 .. Len(t)
      BY <2>6
    <3>2. k \in 1 .. Len(s) - lo + 1
      BY <2>4, <2>5, <2>6, <3>1
    <3>3. lo + k - 1 \in 1 .. Len(s)
      BY <2>4, <2>5, <3>2
    <3> QED
      BY <2>4, <2>6, <3>2, <3>3
  <2> HIDE DEF t
  <2>8. ASSUME NEW k \in DOMAIN t
        PROVE  /\ t[k].origin \in 1 .. Len(b) - 1 /\ Impulse(b, t[k].origin)
               /\ t[k] = NewZone(b, t[k].origin)
    <3>1. lo + k - 1 \in DOMAIN s /\ t[k] = s[lo + k - 1]
      BY <2>7
    <3> DEFINE q == lo + k - 1
    <3> HIDE DEF q
    <3>2. q \in DOMAIN s /\ t[k] = s[q]
      BY <3>1 DEF q
    <3>3. /\ s[q].origin \in 1 .. Len(b) - 1 /\ Impulse(b, s[q].origin)
          /\ s[q] = NewZone(b, s[q].origin)
      BY <2>2, <3>2 DEF Good
    <3> QED
      BY <3>2, <3>3
  <2>9. ASSUME NEW k \in DOMAIN t, NEW l \in DOMAIN t, k < l
        PROVE  t[k].origin < t[l].origin
    <3>1. k \in Int /\ l \in Int
      BY <2>6
    <3>2. PICK p \in DOMAIN s : p = lo + k - 1 /\ t[k] = s[p]
      BY <2>7
    <3>3. PICK q \in DOMAIN s : q = lo + l - 1 /\ t[l] = s[q]
      BY <2>7
    <3>4. p < q
      BY <2>5, <2>9, <3>1, <3>2, <3>3
    <3>5. s[p].origin < s[q].origin
      BY <2>2, <3>4 DEF Good
    <3> QED
      BY <3>2, <3>3, <3>5
  <2>10. Good(b, t, 1)
    BY <2>6, <2>8, <2>9 DEF Good
  <2> QED
    BY <2>3, <2>10
<1> QED
  BY <1>1, <1>2

\* A window's zones are new ones.
LEMMA BuiltZones ==
  ASSUME NEW b \in Seq(Candle)
  PROVE  /\ BuildZones(b) \in Seq(Zone)
         /\ \A k \in DOMAIN BuildZones(b) :
              BuildZones(b)[k].state = "fresh" /\ BuildZones(b)[k].touches = 0
<1> DEFINE s == BuildZones(b)
<1>1. Good(b, s, 1)
  BY BuiltIsGood
<1> HIDE DEF s
<1>2. s \in Seq(Zone)
  BY <1>1 DEF Good
<1>3. ASSUME NEW k \in DOMAIN s PROVE s[k].state = "fresh" /\ s[k].touches = 0
  <2>1. PICK o \in 1 .. Len(b) - 1 : s[k] = NewZone(b, o)
    BY <1>1 DEF Good
  <2>2. o \in 1 .. Len(b)
    OBVIOUS
  <2> QED
    BY <2>1, <2>2, NewZoneType
<1> QED
  BY <1>2, <1>3 DEF s

\* An impulse is no quiet candle: its body is larger than the mean, a quiet one's is
\* not.
LEMMA ImpulseIsNotQuiet ==
  ASSUME NEW b \in Seq(Candle), NEW i \in 1 .. Len(b), Impulse(b, i)
  PROVE  ~Quiet(b, i)
<1>1. b[i] \in Candle
  OBVIOUS
<1>2. PICK B \in Nat, S \in Nat : B = Body(b[i]) /\ S = BodySum(b, i)
  BY <1>1, BodyIsNat, BodySumIsNat
<1>3. B > ImpulseBody /\ ImpulseBody \in Nat /\ 2 * AvgWindow * B > 3 * S
  BY <1>2, Numbers DEF Impulse
<1>4. PICK M \in Nat : M = AvgWindow * B
  BY Numbers
<1>5. 2 * AvgWindow * B = 2 * M
  BY <1>4, Numbers
<1>6. ~(M <= S)
  BY <1>3, <1>5
<1> QED
  BY <1>2, <1>4, <1>6 DEF Quiet

\* The base of a zone ends before its impulse, and no earlier impulse is in it.
LEMMA NoCandleTwice ==
  ASSUME NEW b \in Seq(Candle),
         NEW i \in DOMAIN BuildZones(b), NEW j \in DOMAIN BuildZones(b), i < j,
         NEW y, NEW z, y = BuildZones(b)[i], z = BuildZones(b)[j]
  PROVE  (y.origin - y.score .. y.origin) \cap (z.origin - z.score .. z.origin) = {}
<1>1. Good(b, BuildZones(b), 1)
  BY BuiltIsGood
<1>2. y.origin < z.origin
  BY <1>1 DEF Good
<1>3. PICK p \in 1 .. Len(b) - 1 : p = y.origin /\ Impulse(b, p) /\ y = NewZone(b, p)
  BY <1>1 DEF Good
<1>4. PICK q \in 1 .. Len(b) - 1 : q = z.origin /\ Impulse(b, q) /\ z = NewZone(b, q)
  BY <1>1 DEF Good
<1>5. PICK n \in Nat : n = z.score /\ \A k \in q - n .. q - 1 : Quiet(b, k)
  <2>1. q \in 1 .. Len(b) /\ q \in Nat \ {0}
    OBVIOUS
  <2>2. z.score = BaseLength(b, q)
    BY <1>4, <2>1, NewZoneType
  <2> QED
    BY <2>1, <2>2, BaseIsQuiet
<1>6. p \notin q - n .. q - 1
  <2>1. p \in 1 .. Len(b)
    OBVIOUS
  <2>2. ~Quiet(b, p)
    BY <1>3, <2>1, ImpulseIsNotQuiet
  <2> QED
    BY <1>5, <2>2
<1>7. p < q - n
  BY <1>2, <1>3, <1>4, <1>6
<1>8. \A x \in y.origin - y.score .. y.origin : x \notin z.origin - z.score .. z.origin
  <2>1. ASSUME NEW x \in y.origin - y.score .. y.origin, x \in z.origin - z.score .. z.origin
        PROVE  FALSE
    <3>1. PICK m \in Nat : m = y.score
      <4>1. p \in 1 .. Len(b) /\ p \in Nat \ {0}
        OBVIOUS
      <4>2. y.score = BaseLength(b, p)
        BY <1>3, <4>1, NewZoneType
      <4> QED
        BY <4>1, <4>2, BaseIsQuiet
    <3>2. x \in p - m .. p /\ x \in q - n .. q
      BY <1>3, <1>4, <1>5, <2>1, <3>1
    <3> QED
      BY <1>7, <3>2
  <2> QED
    BY <2>1
<1> QED
  BY <1>8

-----------------------------------------------------------------------------
(* The lifecycle of a zone                                                  *)

LEMMA Ranks ==
  /\ Rank("fresh") = 1 /\ Rank("tested") = 2 /\ Rank("mitigated") = 3 /\ Rank("broken") = 4
<1> DEFINE names == <<"fresh", "tested", "mitigated", "broken">>
<1>1. /\ names[1] = "fresh" /\ names[2] = "tested" /\ names[3] = "mitigated"
      /\ names[4] = "broken"
  OBVIOUS
<1>2. ASSUME NEW state, NEW m \in 1 .. 4, state = names[m],
             \A n \in 1 .. 4 : n # m => names[n] # names[m]
      PROVE  Rank(state) = m
  <2>1. \E n \in 1 .. 4 : state = names[n]
    BY <1>2
  <2>2. Rank(state) \in 1 .. 4 /\ state = names[Rank(state)]
    BY <2>1 DEF Rank
  <2> HIDE DEF names
  <2> QED
    BY <1>2, <2>2
<1>3. \A m, n \in 1 .. 4 : n # m => names[n] # names[m]
  OBVIOUS
<1>4. ASSUME NEW m \in 1 .. 4 PROVE Rank(names[m]) = m
  <2> HIDE DEF names
  <2> QED
    BY <1>2, <1>3
<1>5. Rank(names[1]) = 1 /\ Rank(names[2]) = 2 /\ Rank(names[3]) = 3 /\ Rank(names[4]) = 4
  <2> HIDE DEF names
  <2> QED
    BY <1>4
<1> QED
  BY <1>1, <1>5

LEMMA AdvanceIsForward ==
  ASSUME NEW z \in Zone, NEW c
  PROVE  /\ Advance(z, c) \in Zone
         /\ Rank(Advance(z, c).state) >= Rank(z.state)
         /\ z.state = "broken" => Advance(z, c) = z
         /\ Untouched(z) => Untouched(Advance(z, c))
<1>1. z.state \in ZoneState /\ z.touches \in Nat
  BY DEF Zone
<1> DEFINE t == TouchedState(z, c)
<1>2. z.state # "broken" => t \in ZoneState \ {"fresh"} /\ Rank(t) >= Rank(z.state)
  BY <1>1, Ranks DEF TouchedState, ZoneState
<1> HIDE DEF t
<1>3. Rank(z.state) \in 1 .. 4
  BY <1>1, Ranks DEF ZoneState
<1>4. CASE z.state = "broken"
  BY <1>3, <1>4 DEF Advance
<1>5. CASE z.state # "broken" /\ Breaks(z, c)
  <2>1. Advance(z, c) = [z EXCEPT !.state = "broken"]
    BY <1>5 DEF Advance
  <2>2. Advance(z, c) \in Zone /\ Advance(z, c).state = "broken"
    BY <2>1 DEF Zone, ZoneState
  <2>3. Rank(Advance(z, c).state) >= Rank(z.state)
    BY <1>3, <2>2, Ranks
  <2> QED
    BY <1>5, <2>2, <2>3 DEF Untouched
<1>6. CASE z.state # "broken" /\ ~Breaks(z, c) /\ Touches(z, c)
  <2>1. Advance(z, c) = [z EXCEPT !.touches = z.touches + 1, !.state = t]
    BY <1>6 DEF Advance, t
  <2>2. z.touches + 1 \in Nat /\ t \in ZoneState
    BY <1>1, <1>2, <1>6
  <2>3. Advance(z, c) \in Zone /\ Advance(z, c).state = t
    BY <2>1, <2>2 DEF Zone
  <2> QED
    BY <1>2, <1>6, <2>3 DEF Untouched
<1>7. CASE z.state # "broken" /\ ~Breaks(z, c) /\ ~Touches(z, c)
  BY <1>3, <1>7 DEF Advance
<1> QED
  BY <1>4, <1>5, <1>6, <1>7

-----------------------------------------------------------------------------
(* The zones of a row                                                       *)

\* The zones of s that are not broken.
Kept(s) == CHOOSE f : f = [i \in 0 .. Len(s) |->
             IF i = 0 THEN <<>>
             ELSE IF s[i].state = "broken" THEN f[i - 1]
             ELSE Append(f[i - 1], s[i])]

LEMMA RowZonesAreKept == RowZones = Kept(BuildZones(bars))[Len(BuildZones(bars))]
BY Zenon DEF RowZones, Kept

\* New zones are all kept: the recursion has one solution, the prefixes of the list.
LEMMA NewOnesAreKept ==
  ASSUME NEW s \in Seq(Zone), \A i \in DOMAIN s : s[i].state # "broken"
  PROVE  Kept(s)[Len(s)] = s
<1> DEFINE D == 0 .. Len(s)
           Keeps(f, i) == f[i] = IF i = 0 THEN <<>>
                                 ELSE IF s[i].state = "broken" THEN f[i - 1]
                                 ELSE Append(f[i - 1], s[i])
           g == [i \in D |-> SubSeq(s, 1, i)]
<1>1. ASSUME NEW i \in D
      PROVE  IF i = 0 THEN SubSeq(s, 1, i) = <<>>
             ELSE /\ i - 1 \in D
                  /\ SubSeq(s, 1, i) = Append(SubSeq(s, 1, i - 1), s[i])
                  /\ s[i].state # "broken"
  <2>1. CASE i = 0
    BY <2>1, SubSeqEmpty
  <2>2. CASE i # 0
    <3>1. i \in 1 .. Len(s) /\ 1 \in 1 .. Len(s) /\ i - 1 \in D
      BY <2>2
    <3>2. SubSeq(s, 1, i) = SubSeq(s, 1, i - 1) \o <<s[i]>>
      BY <3>1, SubSeqRecursiveSecond
    <3>3. SubSeq(s, 1, i - 1) \in Seq(Zone) /\ s[i] \in Zone
      BY <3>1
    <3>4. SubSeq(s, 1, i - 1) \o <<s[i]>> = Append(SubSeq(s, 1, i - 1), s[i])
      BY <3>3, AppendIsConcat
    <3>5. s[i].state # "broken"
      BY <3>1
    <3> QED
      BY <2>2, <3>1, <3>2, <3>4, <3>5
  <2> QED
    BY <2>1, <2>2
<1>2. \A i \in D : Keeps(g, i)
  <2>1. ASSUME NEW i \in D PROVE Keeps(g, i)
    BY <1>1
  <2> QED
    BY <2>1
<1>3. g = [i \in D |-> IF i = 0 THEN <<>>
                       ELSE IF s[i].state = "broken" THEN g[i - 1]
                       ELSE Append(g[i - 1], s[i])]
  <2> HIDE DEF D
  <2> QED
    BY <1>2
<1> DEFINE h == Kept(s)
<1>4. h = [i \in D |-> IF i = 0 THEN <<>>
                       ELSE IF s[i].state = "broken" THEN h[i - 1]
                       ELSE Append(h[i - 1], s[i])]
  <2> HIDE DEF g
  <2> QED
    BY <1>3 DEF Kept
<1>5. \A i \in D : Keeps(h, i)
  <2> HIDE DEF h, D
  <2> QED
    BY <1>4
<1> HIDE DEF h
<1> DEFINE P == {i \in Nat : i \in D => h[i] = SubSeq(s, 1, i)}
<1>6. 0 \in P
  <2>1. h[0] = <<>> /\ SubSeq(s, 1, 0) = <<>>
    BY <1>1, <1>5
  <2> QED
    BY <2>1
<1>7. ASSUME NEW i \in P PROVE i + 1 \in P
  <2>1. i \in Nat /\ i + 1 \in Nat /\ i + 1 # 0 /\ (i + 1) - 1 = i
    OBVIOUS
  <2>2. ASSUME i + 1 \in D PROVE h[i + 1] = SubSeq(s, 1, i + 1)
    <3>1. i \in D
      BY <2>1, <2>2
    <3>2. h[i] = SubSeq(s, 1, i)
      BY <3>1
    <3>3. /\ SubSeq(s, 1, i + 1) = Append(SubSeq(s, 1, i), s[i + 1])
          /\ s[i + 1].state # "broken"
      BY <1>1, <2>1, <2>2
    <3>4. Keeps(h, i + 1)
      BY <1>5, <2>2
    <3> QED
      BY <2>1, <3>2, <3>3, <3>4
  <2> QED
    BY <2>1, <2>2
<1>8. P = Nat
  <2>1. P \in SUBSET Nat
    OBVIOUS
  <2> HIDE DEF P
  <2> QED
    BY <1>6, <1>7, <2>1, Counting
<1>9. h[Len(s)] = SubSeq(s, 1, Len(s))
  <2>1. Len(s) \in Nat /\ Len(s) \in D
    OBVIOUS
  <2>2. Len(s) \in P
    BY <1>8, <2>1
  <2> QED
    BY <2>1, <2>2
<1>10. SubSeq(s, 1, Len(s)) = s
  BY SubSeqFull
<1> QED
  BY <1>9, <1>10 DEF h

LEMMA RowHoldsNewZones ==
  ASSUME bars \in Seq(Candle)
  PROVE  /\ RowZones \in Seq(Zone)
         /\ \A i \in DOMAIN RowZones : RowZones[i].state = "fresh"
<1> DEFINE s == BuildZones(bars)
<1>1. s \in Seq(Zone) /\ \A i \in DOMAIN s : s[i].state = "fresh"
  BY BuiltZones
<1>2. RowZones = Kept(s)[Len(s)]
  BY RowZonesAreKept
<1> HIDE DEF s
<1>3. Kept(s)[Len(s)] = s
  BY <1>1, NewOnesAreKept
<1> QED
  BY <1>1, <1>2, <1>3

-----------------------------------------------------------------------------
(* The inductive invariant                                                  *)

TypeInv ==
  /\ closed \in Nat
  /\ bars \in Seq(Candle) /\ (closed > 0 => bars # <<>>)
  /\ zones \in Seq(Zone) /\ \A i \in DOMAIN zones : Untouched(zones[i])

\* A feature row of production: its zones are new ones.
Row(ltf) ==
  /\ ltf.close \in Int /\ ltf.atr = Atr
  /\ ltf.zones \in Seq(Zone) /\ \A i \in DOMAIN ltf.zones : ltf.zones[i].state = "fresh"

\* A signal is what the engine makes of the row and the context it is kept with.
DecisionInv ==
  signal # None =>
    Row(basis.ltf) /\ Fires(basis.ltf, basis.market) /\ signal = BuildSignal(basis.ltf)

SizeInv ==
  size # None =>
    /\ signal # None /\ size.account \in Accounts /\ size.spec \in Specs
    /\ size.result = ComputeLots(signal, size.account, size.spec)

IInv == TypeInv /\ DecisionInv /\ SizeInv

LEMMA WindowMoves ==
  ASSUME NEW b \in Seq(Candle), NEW c \in Candle,
         NEW w, w = SubSeq(Append(b, c), Max({1, Len(Append(b, c)) - WindowBars + 1}),
                           Len(Append(b, c)))
  PROVE  w \in Seq(Candle) /\ w # <<>>
<1> DEFINE all == Append(b, c)
           lo == Max({1, Len(all) - WindowBars + 1})
<1>1. all \in Seq(Candle) /\ Len(all) \in Nat /\ Len(all) >= 1
  OBVIOUS
<1>2. w = SubSeq(all, lo, Len(all))
  OBVIOUS
<1> HIDE DEF all
<1>3. lo \in Int /\ lo >= 1 /\ lo <= Len(all)
  <2>1. PICK l \in Nat, m \in Nat \ {0} : l = Len(all) /\ m = WindowBars
    BY <1>1, DecisionAssumption
  <2>2. l - m + 1 \in Int /\ 1 \in Int
    OBVIOUS
  <2>3. PICK x \in Int : x = l - m + 1
    BY <2>2
  <2>4. lo = Max({1, x})
    BY <2>1, <2>3
  <2>5. Max({1, x}) = IF 1 > x THEN 1 ELSE x
    BY <2>2, OfTwo
  <2> HIDE DEF lo
  <2> QED
    BY <1>1, <2>1, <2>3, <2>4, <2>5
<1> HIDE DEF lo
<1>4. \A k \in lo .. Len(all) : all[k] \in Candle
  BY <1>1, <1>3
<1>5. PICK n \in Nat : n = Len(all)
  BY <1>1
<1>6. /\ SubSeq(all, lo, n) \in Seq(Candle)
      /\ Len(SubSeq(all, lo, n)) = IF lo <= n THEN n - lo + 1 ELSE 0
  BY <1>3, <1>4, <1>5, SubSeqProperties
<1>7. w = SubSeq(all, lo, n)
  BY <1>2, <1>5
<1>8. Len(w) # 0 /\ w \in Seq(Candle)
  <2>1. PICK t : t = SubSeq(all, lo, n)
    OBVIOUS
  <2>2. t \in Seq(Candle) /\ Len(t) = IF lo <= n THEN n - lo + 1 ELSE 0
    BY <1>6, <2>1
  <2>3. w = t
    BY <1>7, <2>1
  <2>4. Len(t) # 0
    BY <1>3, <1>5, <2>2
  <2> QED
    BY <2>2, <2>3, <2>4
<1>9. ASSUME NEW t \in Seq(Candle), Len(t) # 0 PROVE t # <<>>
  BY <1>9
<1> QED
  BY <1>8, <1>9

LEMMA ZonesAdvance ==
  ASSUME NEW s \in Seq(Zone), NEW c
  PROVE  /\ AdvanceAll(s, c) \in Seq(Zone)
         /\ \A i \in DOMAIN s : AdvanceAll(s, c)[i] = Advance(s[i], c)
         /\ DOMAIN AdvanceAll(s, c) = DOMAIN s
<1>1. \A i \in DOMAIN s : Advance(s[i], c) \in Zone
  BY AdvanceIsForward
<1> QED
  BY <1>1, SeqDef DEF AdvanceAll

\* The four kinds of steps, seen from the whole state.
LEMMA Steps ==
  ASSUME [Next]_vars
  PROVE  \/ UNCHANGED vars
         \/ \E c \in Candles : BarCloses(c)
         \/ Rebuild
         \/ closed = WindowBars /\ \E rsi \in Rsis, ema \in Emas : \E market :
              Evaluate(Snapshot(RowZones, rsi, ema), market)
         \/ \E a \in Accounts, s \in Specs : SizePosition(a, s)
BY DEF Next

LEMMA NextType == TypeInv /\ [Next]_vars => TypeInv'
<1> SUFFICES ASSUME TypeInv, [Next]_vars PROVE TypeInv'
  OBVIOUS
<1>1. CASE \E c \in Candles : BarCloses(c)
  <2>1. PICK c \in Candles : BarCloses(c)
    BY <1>1
  <2>2. c \in Candle
    BY DecisionAssumption DEF Candle
  <2>3. closed' \in Nat
    BY <2>1 DEF BarCloses, TypeInv
  <2>4. bars' \in Seq(Candle) /\ bars' # <<>>
    <3>1. bars' = SubSeq(Append(bars, c), Max({1, Len(Append(bars, c)) - WindowBars + 1}),
                         Len(Append(bars, c)))
      BY <2>1 DEF BarCloses
    <3>2. bars \in Seq(Candle)
      BY DEF TypeInv
    <3> QED
      BY <2>2, <3>1, <3>2, WindowMoves
  <2>5. zones' \in Seq(Zone) /\ \A i \in DOMAIN zones' : Untouched(zones'[i])
    <3>1. zones \in Seq(Zone) /\ \A i \in DOMAIN zones : Untouched(zones[i])
      BY DEF TypeInv
    <3>2. zones' = AdvanceAll(zones, c)
      BY <2>1 DEF BarCloses
    <3>3. /\ zones' \in Seq(Zone) /\ DOMAIN zones' = DOMAIN zones
          /\ \A i \in DOMAIN zones : zones'[i] = Advance(zones[i], c)
      BY <3>1, <3>2, ZonesAdvance
    <3>4. ASSUME NEW i \in DOMAIN zones PROVE Untouched(zones'[i])
      <4>1. zones[i] \in Zone /\ Untouched(zones[i]) /\ zones'[i] = Advance(zones[i], c)
        BY <3>1, <3>3
      <4> QED
        BY <4>1, AdvanceIsForward
    <3> QED
      BY <3>3, <3>4
  <2> QED
    BY <2>3, <2>4, <2>5 DEF TypeInv
<1>2. CASE Rebuild
  <2>1. zones' = BuildZones(bars) /\ UNCHANGED <<closed, bars>>
    BY <1>2 DEF Rebuild
  <2>2. bars \in Seq(Candle)
    BY DEF TypeInv
  <2> DEFINE s == BuildZones(bars)
  <2>3. s \in Seq(Zone) /\ \A i \in DOMAIN s : s[i].state = "fresh" /\ s[i].touches = 0
    BY <2>2, BuiltZones
  <2>4. zones' = s
    BY <2>1
  <2> HIDE DEF s
  <2>5. zones' \in Seq(Zone) /\ \A i \in DOMAIN zones' : Untouched(zones'[i])
    BY <2>3, <2>4 DEF Untouched
  <2> QED
    BY <2>1, <2>5 DEF TypeInv
<1>3. CASE UNCHANGED <<closed, bars, zones>>
  BY <1>3 DEF TypeInv
<1> QED
  BY <1>1, <1>2, <1>3, Steps DEF vars, Evaluate, SizePosition

LEMMA NextDecision == TypeInv /\ DecisionInv /\ [Next]_vars => DecisionInv'
<1> SUFFICES ASSUME TypeInv, DecisionInv, [Next]_vars PROVE DecisionInv'
  OBVIOUS
<1>1. CASE signal' = None
  BY <1>1 DEF DecisionInv
<1>2. ASSUME NEW rsi \in Rsis, NEW ema \in Emas, NEW market, closed = WindowBars,
             Evaluate(Snapshot(RowZones, rsi, ema), market)
      PROVE  DecisionInv'
  <2> DEFINE ltf == Snapshot(RowZones, rsi, ema)
  <2>1. /\ basis' = [ltf |-> ltf, market |-> market] /\ Fires(ltf, market)
        /\ signal' = BuildSignal(ltf)
    BY <1>2 DEF Evaluate
  <2>2. Row(ltf)
    <3>1. bars \in Seq(Candle) /\ Len(bars) \in 1 .. Len(bars)
      BY <1>2, DecisionAssumption DEF TypeInv
    <3>2. bars[Len(bars)].close \in Int
      <4>1. bars[Len(bars)] \in Candle
        BY <3>1
      <4> QED
        BY <4>1 DEF Candle
    <3>3. RowZones \in Seq(Zone) /\ \A i \in DOMAIN RowZones : RowZones[i].state = "fresh"
      BY <3>1, RowHoldsNewZones
    <3> QED
      BY <3>2, <3>3 DEF Snapshot, Row
  <2> HIDE DEF ltf
  <2>3. basis'.ltf = ltf /\ basis'.market = market
    BY <2>1
  <2> QED
    BY <2>1, <2>2, <2>3 DEF DecisionInv, Row
<1>3. CASE UNCHANGED <<basis, signal>>
  BY <1>3 DEF DecisionInv, Row
<1>4. CASE \E c \in Candles : BarCloses(c)
  BY <1>1, <1>4 DEF BarCloses, Forget
<1>5. CASE Rebuild
  BY <1>1, <1>5 DEF Rebuild, Forget
<1>6. CASE UNCHANGED vars \/ \E a \in Accounts, s \in Specs : SizePosition(a, s)
  BY <1>3, <1>6 DEF vars, SizePosition
<1> QED
  BY <1>2, <1>4, <1>5, <1>6, Steps

LEMMA NextSize == SizeInv /\ [Next]_vars => SizeInv'
<1> SUFFICES ASSUME SizeInv, [Next]_vars PROVE SizeInv'
  OBVIOUS
<1>1. CASE size' = None
  BY <1>1 DEF SizeInv
<1>2. ASSUME NEW a \in Accounts, NEW s \in Specs, SizePosition(a, s) PROVE SizeInv'
  <2>1. /\ size' = [account |-> a, spec |-> s, result |-> ComputeLots(signal, a, s)]
        /\ signal' = signal /\ signal # None
    BY <1>2 DEF SizePosition
  <2>2. size'.account = a /\ size'.spec = s /\ size'.result = ComputeLots(signal, a, s)
    BY <2>1
  <2> QED
    BY <2>1, <2>2 DEF SizeInv
<1>3. CASE UNCHANGED vars
  BY <1>3 DEF vars, SizeInv
<1>4. CASE \E c \in Candles : BarCloses(c)
  BY <1>1, <1>4 DEF BarCloses, Forget
<1>5. CASE Rebuild
  BY <1>1, <1>5 DEF Rebuild, Forget
<1>6. CASE \E rsi \in Rsis, ema \in Emas : \E market :
              Evaluate(Snapshot(RowZones, rsi, ema), market)
  BY <1>1, <1>6 DEF Evaluate
<1> QED
  BY <1>2, <1>3, <1>4, <1>5, <1>6, Steps

LEMMA Inductive == Spec => []IInv
<1>1. Init => IInv
  <2> SUFFICES ASSUME Init PROVE IInv
    OBVIOUS
  <2>1. closed = 0 /\ bars = <<>> /\ zones = <<>> /\ signal = None /\ size = None
    BY DEF Init
  <2>2. TypeInv
    BY <2>1 DEF TypeInv
  <2>3. DecisionInv /\ SizeInv
    BY <2>1 DEF DecisionInv, SizeInv
  <2> QED
    BY <2>2, <2>3 DEF IInv
<1>2. IInv /\ [Next]_vars => IInv'
  BY NextType, NextDecision, NextSize DEF IInv
<1> QED
  BY <1>1, <1>2, PTL DEF Spec

-----------------------------------------------------------------------------
(* What a signal is made of                                                 *)

\* In a row of new zones, the touched zone is the first one that contains the
\* price, and it is the one whose edge the stop is set behind.
LEMMA TouchedZone ==
  ASSUME NEW ltf, Row(ltf), Touched(ltf) # NoTouch
  PROVE  \E i \in DOMAIN ltf.zones :
           /\ i = Min({k \in DOMAIN ltf.zones : Holds(ltf.zones[k], ltf.close)})
           /\ Holds(ltf.zones[i], ltf.close)
           /\ Touched(ltf) = ltf.zones[i].kind
           /\ ZoneEdge(Touched(ltf), ltf) = IF Touched(ltf) = "demand"
                                            THEN ltf.zones[i].bottom ELSE ltf.zones[i].top
<1> DEFINE D == DOMAIN ltf.zones
           hits == {k \in D : Holds(ltf.zones[k], ltf.close)}
           same == {k \in D : /\ ltf.zones[k].kind = Touched(ltf)
                              /\ Holds(ltf.zones[k], ltf.close)}
           i == Min(hits)
<1>1. D = 1 .. Len(ltf.zones) /\ Len(ltf.zones) \in Nat
  BY DEF Row
<1>2. IsFiniteSet(D) /\ D \subseteq Int
  <2>1. IsFiniteSet(1 .. Len(ltf.zones))
    BY <1>1, FS_Interval
  <2> HIDE DEF D
  <2> QED
    BY <1>1, <2>1
<1>3. {k \in D : Active(ltf.zones[k]) /\ Holds(ltf.zones[k], ltf.close)} = hits
  BY DEF Active, Row
<1>4. Touched(ltf) = IF hits = {} THEN NoTouch ELSE ltf.zones[Min(hits)].kind
  BY <1>3 DEF Touched
<1>5. hits # {} /\ Touched(ltf) = ltf.zones[i].kind
  BY <1>4
<1>6. i \in hits /\ \A k \in hits : i <= k
  <2>1. hits \subseteq D
    OBVIOUS
  <2> HIDE DEF hits, D
  <2> QED
    BY <1>2, <1>5, <2>1, FS_Subset, MinOfSet
<1>7. i \in D /\ Holds(ltf.zones[i], ltf.close)
  <2> HIDE DEF i
  <2> QED
    BY <1>6
<1>8. i \in same /\ same \subseteq hits
  <2> HIDE DEF i
  <2> QED
    BY <1>5, <1>7
<1>9. Min(same) = i
  <2>1. same \subseteq D /\ same # {}
    BY <1>8
  <2>2. Min(same) \in same /\ \A k \in same : Min(same) <= k
    <3> HIDE DEF same, D, hits, i
    <3> QED
      BY <1>2, <2>1, FS_Subset, MinOfSet
  <2> HIDE DEF same, i, hits, D
  <2>3. Min(same) <= i /\ i <= Min(same) /\ Min(same) \in Int /\ i \in Int
    BY <1>2, <1>6, <1>7, <1>8, <2>1, <2>2
  <2> QED
    BY <2>3
<1>10. ZoneEdge(Touched(ltf), ltf) = IF Touched(ltf) = "demand"
                                     THEN ltf.zones[i].bottom ELSE ltf.zones[i].top
  <2>1. ZoneEdge(Touched(ltf), ltf) =
          IF same = {} THEN ltf.close
          ELSE IF Touched(ltf) = "demand" THEN ltf.zones[Min(same)].bottom
                                          ELSE ltf.zones[Min(same)].top
    BY DEF ZoneEdge
  <2> HIDE DEF same, i, hits
  <2> QED
    BY <1>8, <1>9, <2>1
<1> HIDE DEF i
<1> QED
  BY <1>5, <1>7, <1>10 DEF i

LEMMA DecidedZone ==
  ASSUME NEW ltf, Row(ltf), NEW market, Fires(ltf, market)
  PROVE  Touched(ltf) \in {"supply", "demand"}
<1>1. Touched(ltf) # NoTouch
  BY DEF Fires, Blocked
<1>2. PICK i \in DOMAIN ltf.zones : Touched(ltf) = ltf.zones[i].kind
  BY <1>1, TouchedZone
<1>3. ltf.zones[i] \in Zone
  BY DEF Row
<1> QED
  BY <1>2, <1>3 DEF Zone

LEMMA GatesHold == DecisionInv => HardGatesPassed
<1> SUFFICES ASSUME DecisionInv, signal # None
             PROVE  LET ltf    == basis.ltf
                        market == basis.market
                        buy    == signal.direction = "BUY"
                    IN /\ \E i \in DOMAIN ltf.zones :
                            /\ ltf.zones[i].kind = (IF buy THEN "demand" ELSE "supply")
                            /\ ltf.zones[i].bottom <= ltf.close
                            /\ ltf.close <= ltf.zones[i].top
                       /\ \/ /\ market.trend = (IF buy THEN "up" ELSE "down")
                             /\ market.regime = (IF buy THEN "S1_trend_up" ELSE "S2_trend_down")
                          \/ AllowS0Fade /\ market.regime \in
                               {"S0_range", IF buy THEN "S1_trend_up" ELSE "S2_trend_down"}
                       /\ market.pWin > MinPWin
  BY DEF HardGatesPassed
<1> DEFINE ltf == basis.ltf
           market == basis.market
           kind == Touched(ltf)
           d == signal.direction
<1>1. Row(ltf) /\ Fires(ltf, market) /\ signal = BuildSignal(ltf)
  BY DEF DecisionInv
<1>2. kind # NoTouch /\ kind \in {"supply", "demand"}
  <2> HIDE DEF ltf, market
  <2> QED
    BY <1>1, DecidedZone DEF Fires, Blocked
<1>3. d = DirectionOf(kind)
  BY <1>1 DEF BuildSignal
<1> HIDE DEF ltf, market
<1>4. PICK i \in DOMAIN ltf.zones : kind = ltf.zones[i].kind /\ Holds(ltf.zones[i], ltf.close)
  BY <1>1, <1>2, TouchedZone
<1> DEFINE in == Inputs(ltf, market)
<1>5. /\ in.direction = DirectionOf(kind) /\ in.trend = market.trend
      /\ in.regime = ResolveRegime(market.regime) /\ in.pWin = market.pWin
  BY DEF Inputs
<1>6. RegimeOk(in.direction, in.regime) /\ MetaOk(in.pWin)
  BY <1>1 DEF Fires, Passed
<1>7. /\ ResolveRegime(market.regime) # "unknown"
      /\ Aligned(DirectionOf(kind), market.trend) \/ AllowS0Fade
  BY <1>1 DEF Fires, Blocked
<1> HIDE DEF in
<1>8. in.regime = market.regime
  BY <1>5, <1>7 DEF ResolveRegime
<1> HIDE DEF kind, d
<1>9. market.pWin > MinPWin
  BY <1>5, <1>6 DEF MetaOk
<1>10. CASE kind = "demand"
  <2>1. d = "BUY" /\ DirectionOf(kind) = "BUY"
    BY <1>3, <1>10 DEF DirectionOf
  <2>2. market.regime = "S1_trend_up" \/ Fading(market.regime)
    BY <1>5, <1>6, <1>8, <2>1 DEF RegimeOk
  <2>3. market.trend = "up" \/ AllowS0Fade
    BY <1>7, <2>1 DEF Aligned
  <2>4. \/ market.trend = "up" /\ market.regime = "S1_trend_up"
        \/ AllowS0Fade /\ market.regime \in {"S0_range", "S1_trend_up"}
    BY <2>2, <2>3 DEF Fading
  <2> QED
    BY <1>4, <1>9, <1>10, <2>1, <2>4 DEF Holds, ltf, market, d
<1>11. CASE kind = "supply"
  <2>1. d = "SELL" /\ DirectionOf(kind) = "SELL"
    BY <1>3, <1>11 DEF DirectionOf
  <2>2. market.regime = "S2_trend_down" \/ Fading(market.regime)
    BY <1>5, <1>6, <1>8, <2>1 DEF RegimeOk
  <2>3. market.trend = "down" \/ AllowS0Fade
    BY <1>7, <2>1 DEF Aligned
  <2>4. \/ market.trend = "down" /\ market.regime = "S2_trend_down"
        \/ AllowS0Fade /\ market.regime \in {"S0_range", "S2_trend_down"}
    BY <2>2, <2>3 DEF Fading
  <2> QED
    BY <1>4, <1>9, <1>11, <2>1, <2>4 DEF Holds, ltf, market, d
<1> QED
  BY <1>2, <1>10, <1>11

\* Prices that the code divides exactly: the ATR is a positive number of whole tenths,
\* and the multiples of it and of the risk are positive.
ExactPrices ==
  /\ Atr > 0 /\ Atr % 10 = 0 /\ SlBuffer > 0
  /\ 0 < RR1 /\ RR1 < RR2

LEMMA Distances ==
  ASSUME ExactPrices
  PROVE  \E t \in Nat \ {0}, u \in Nat \ {0} :
           Atr = 10 * t /\ Atr \div 10 = t /\ (SlBuffer * Atr) \div 10 = u
<1>1. Atr \in Nat /\ SlBuffer \in Nat
  BY Numbers, EngineAssumption
<1>2. PICK t \in Nat : Atr = 10 * t
  BY <1>1 DEF ExactPrices
<1>3. t # 0 /\ Atr \div 10 = t
  BY <1>2 DEF ExactPrices
<1>4. PICK s \in Nat : s = SlBuffer /\ s > 0
  BY <1>1 DEF ExactPrices
<1>5. PICK u \in Nat : u = s * t
  OBVIOUS
<1>6. u # 0
  BY <1>3, <1>4, <1>5
<1>7. s * (10 * t) = 10 * u
  BY <1>5
<1>8. (10 * u) \div 10 = u
  OBVIOUS
<1>9. (SlBuffer * Atr) \div 10 = u
  BY <1>2, <1>4, <1>7, <1>8
<1> QED
  BY <1>2, <1>3, <1>6, <1>9

\* A multiple of a positive number is positive, and the larger multiple is larger.
LEMMA Multiples ==
  ASSUME NEW a \in Nat, NEW b \in Nat, 0 < a, a < b, NEW d \in Nat, 0 < d
  PROVE  0 < a * d /\ a * d < b * d /\ a * d \in Nat /\ b * d \in Nat
<1>1. PICK e \in Nat : b = a + e /\ e > 0
  <2>1. \A x, y \in Nat : x < y => y - x \in Nat /\ y = x + (y - x) /\ y - x > 0
    OBVIOUS
  <2> QED
    BY <2>1
<1>2. b * d = a * d + e * d
  BY <1>1
<1>3. a * d \in Nat /\ e * d \in Nat /\ a * d > 0 /\ e * d > 0
  BY <1>1
<1> QED
  BY <1>2, <1>3

LEMMA StopHolds == ExactPrices /\ DecisionInv => StopBeyondZone
<1> SUFFICES ASSUME ExactPrices, DecisionInv, signal # None
             PROVE  LET ltf  == basis.ltf
                        zone == ltf.zones[Min({i \in DOMAIN ltf.zones :
                                   /\ ltf.zones[i].bottom <= ltf.close
                                   /\ ltf.close <= ltf.zones[i].top})]
                    IN IF signal.direction = "BUY"
                       THEN /\ signal.sl < zone.bottom
                            /\ 10 * (signal.entry - signal.sl) >= Atr
                            /\ signal.entry < signal.tp1 /\ signal.tp1 < signal.tp2
                       ELSE /\ signal.sl > zone.top
                            /\ 10 * (signal.sl - signal.entry) >= Atr
                            /\ signal.entry > signal.tp1 /\ signal.tp1 > signal.tp2
  BY DEF StopBeyondZone
<1> DEFINE ltf == basis.ltf
           kind == Touched(ltf)
           hits == {k \in DOMAIN ltf.zones : Holds(ltf.zones[k], ltf.close)}
           zone == ltf.zones[Min(hits)]
<1>1. Row(ltf) /\ Fires(ltf, basis.market) /\ signal = BuildSignal(ltf)
  BY DEF DecisionInv
<1>2. kind # NoTouch /\ kind \in {"supply", "demand"}
  <2> HIDE DEF ltf
  <2> QED
    BY <1>1, DecidedZone DEF Fires, Blocked
<1>3. hits = {i \in DOMAIN ltf.zones :
                ltf.zones[i].bottom <= ltf.close /\ ltf.close <= ltf.zones[i].top}
  BY DEF Holds
<1> HIDE DEF ltf
<1>4. /\ zone \in Zone /\ ZoneEdge(kind, ltf) = IF kind = "demand" THEN zone.bottom ELSE zone.top
  <2>1. PICK i \in DOMAIN ltf.zones :
           i = Min(hits) /\ ZoneEdge(kind, ltf) = IF kind = "demand"
                              THEN ltf.zones[i].bottom ELSE ltf.zones[i].top
    BY <1>1, <1>2, TouchedZone
  <2>2. ltf.zones[i] \in Zone
    BY <1>1 DEF Row
  <2> HIDE DEF hits, kind
  <2> QED
    BY <2>1, <2>2
<1> HIDE DEF zone
<1>5. PICK e \in Int, bottom \in Int, top \in Int :
        e = ltf.close /\ bottom = zone.bottom /\ top = zone.top
  BY <1>1, <1>4 DEF Row, Zone
<1>6. PICK t \in Nat \ {0}, u \in Nat \ {0} :
           Atr = 10 * t /\ Atr \div 10 = t /\ (SlBuffer * Atr) \div 10 = u
  BY Distances
<1>7. ltf.atr = Atr
  BY <1>1 DEF Row
<1>8. PICK r1 \in Nat, r2 \in Nat : r1 = RR1 /\ r2 = RR2 /\ 0 < r1 /\ r1 < r2
  BY EngineAssumption DEF ExactPrices
<1> DEFINE sl == StopOf(kind, ltf)
<1>9. /\ signal.direction = DirectionOf(kind) /\ signal.entry = e /\ signal.sl = sl
      /\ signal.tp1 = e + r1 * (e - sl) /\ signal.tp2 = e + r2 * (e - sl)
  BY <1>1, <1>5, <1>8 DEF BuildSignal, TargetOf
<1> HIDE DEF kind
<1>10. CASE kind = "demand"
  <2>1. sl = Smaller(bottom - u, e - t)
    BY <1>4, <1>5, <1>6, <1>7, <1>10 DEF StopOf
  <2> HIDE DEF sl
  <2>2. sl \in Int /\ sl < bottom /\ sl <= e - t
    BY <1>5, <1>6, <2>1 DEF Smaller
  <2>3. PICK d \in Nat : d = e - sl /\ d >= t /\ 0 < d
    BY <1>5, <1>6, <2>2
  <2>4. 0 < r1 * d /\ r1 * d < r2 * d /\ r1 * d \in Nat /\ r2 * d \in Nat
    BY <1>8, <2>3, Multiples
  <2>5. PICK x \in Nat, y \in Nat : x = r1 * d /\ y = r2 * d /\ 0 < x /\ x < y
    BY <2>4
  <2>6. signal.tp1 = e + x /\ signal.tp2 = e + y
    BY <1>9, <2>3, <2>5
  <2>7. e < e + x /\ e + x < e + y
    BY <1>5, <2>5
  <2>8. 10 * d >= Atr
    BY <1>6, <2>3
  <2>9. signal.direction = "BUY"
    BY <1>9, <1>10 DEF DirectionOf
  <2> QED
    BY <1>3, <1>5, <1>9, <2>2, <2>3, <2>6, <2>7, <2>8, <2>9 DEF zone, ltf
<1>11. CASE kind = "supply"
  <2>1. sl = Larger(top + u, e + t)
    BY <1>4, <1>5, <1>6, <1>7, <1>11 DEF StopOf
  <2> HIDE DEF sl
  <2>2. sl \in Int /\ sl > top /\ sl >= e + t
    BY <1>5, <1>6, <2>1 DEF Larger
  <2>3. PICK d \in Nat : d = sl - e /\ d >= t /\ 0 < d
    BY <1>5, <1>6, <2>2
  <2>4. 0 < r1 * d /\ r1 * d < r2 * d /\ r1 * d \in Nat /\ r2 * d \in Nat
    BY <1>8, <2>3, Multiples
  <2>5. PICK x \in Nat, y \in Nat : x = r1 * d /\ y = r2 * d /\ 0 < x /\ x < y
    BY <2>4
  <2>6. signal.tp1 = e - x /\ signal.tp2 = e - y
    <3>1. e - sl = -d
      BY <1>5, <2>2, <2>3
    <3>2. r1 * (-d) = -x /\ r2 * (-d) = -y
      BY <1>8, <2>3, <2>5
    <3>3. e + (-x) = e - x /\ e + (-y) = e - y
      BY <1>5, <2>5
    <3> QED
      BY <1>9, <3>1, <3>2, <3>3
  <2>7. e > e - x /\ e - x > e - y
    BY <1>5, <2>5
  <2>8. 10 * d >= Atr
    BY <1>6, <2>3
  <2>9. signal.direction # "BUY"
    BY <1>9, <1>11 DEF DirectionOf
  <2> QED
    BY <1>3, <1>5, <1>9, <2>2, <2>3, <2>6, <2>7, <2>8, <2>9 DEF zone, ltf
<1> QED
  BY <1>2, <1>10, <1>11

-----------------------------------------------------------------------------
(* Sizes                                                                    *)

LEMMA LargerProduct ==
  ASSUME NEW x \in Nat, NEW y \in Nat, x <= y, NEW z \in Nat
  PROVE  x * z \in Nat /\ y * z \in Nat /\ x * z <= y * z
<1>1. PICK e \in Nat : y = x + e
  <2>1. \A p, q \in Nat : p <= q => q - p \in Nat /\ q = p + (q - p)
    OBVIOUS
  <2> QED
    BY <2>1
<1>2. y * z = x * z + e * z /\ x * z \in Nat /\ e * z \in Nat
  BY <1>1
<1> QED
  BY <1>2

LEMMA Quotient ==
  ASSUME NEW x \in Nat, NEW y \in Nat \ {0}
  PROVE  /\ x \div y \in Nat
         /\ (x \div y) * y \in Nat /\ (x \div y) * y <= x /\ x < (x \div y) * y + y
OBVIOUS

LEMMA Multiple ==
  ASSUME NEW x \in Nat, NEW y \in Nat \ {0}, x % y = 0
  PROVE  \E k \in Nat : x = k * y
<1>1. x \div y \in Nat
  OBVIOUS
<1>2. x = y * (x \div y)
  OBVIOUS
<1>3. y * (x \div y) = (x \div y) * y
  BY <1>1
<1> QED
  BY <1>1, <1>2, <1>3

\* Of two multiples, the smaller one is a step below the other.
LEMMA NextMultiple ==
  ASSUME NEW k \in Nat, NEW l \in Nat, NEW y \in Nat \ {0}, k * y < l * y
  PROVE  k * y + y <= l * y
<1>1. k < l
  <2>1. ASSUME l <= k PROVE FALSE
    <3>1. l * y <= k * y /\ l * y \in Nat /\ k * y \in Nat
      BY <2>1, LargerProduct
    <3> QED
      BY <3>1
  <2> QED
    BY <2>1
<1>2. (k + 1) * y <= l * y
  <2>1. k + 1 \in Nat /\ k + 1 <= l
    BY <1>1
  <2> QED
    BY <2>1, LargerProduct
<1>3. (k + 1) * y = k * y + y
  OBVIOUS
<1> QED
  BY <1>2, <1>3

\* FloorToStep is the largest multiple of the step up to the volume.
LEMMA FloorIsLargest ==
  ASSUME NEW q \in Nat, NEW y \in Nat \ {0}
  PROVE  /\ FloorToStep(q, y) \in Nat /\ FloorToStep(q, y) <= q
         /\ \A v \in Nat : v <= q /\ v % y = 0 => v <= FloorToStep(q, y)
<1> DEFINE j == q \div y
<1>1. j \in Nat /\ j * y \in Nat /\ j * y <= q /\ q < j * y + y
  BY Quotient
<1> HIDE DEF j
<1>2. ASSUME NEW v \in Nat, v <= q, v % y = 0 PROVE v <= j * y
  <2>1. PICK k \in Nat : v = k * y
    BY <1>2, Multiple
  <2>2. ASSUME j * y < k * y PROVE FALSE
    <3>1. j * y + y <= k * y
      BY <1>1, <2>2, NextMultiple
    <3>2. k * y \in Nat /\ k * y <= q
      BY <1>2, <2>1
    <3> QED
      BY <1>1, <3>1, <3>2
  <2>3. k * y \in Nat
    BY <2>1
  <2> QED
    BY <1>1, <2>1, <2>2, <2>3
<1>3. FloorToStep(q, y) = j * y
  BY DEF FloorToStep, j
<1> QED
  BY <1>1, <1>2, <1>3

\* A quotient by the loss per unit: no volume above it fits the risk amount.
LEMMA BoughtVolume ==
  ASSUME NEW amount \in Nat, NEW loss \in Nat \ {0}
  PROVE  /\ amount \div loss \in Nat
         /\ \A v \in Nat : v <= amount \div loss <=> v * loss <= amount
<1> DEFINE q == amount \div loss
<1>1. q \in Nat /\ q * loss \in Nat /\ q * loss <= amount /\ amount < q * loss + loss
  BY Quotient
<1> HIDE DEF q
<1>2. ASSUME NEW v \in Nat, v <= q PROVE v * loss <= amount
  <2>1. v * loss \in Nat /\ v * loss <= q * loss
    BY <1>1, <1>2, LargerProduct
  <2> QED
    BY <1>1, <2>1
<1>3. ASSUME NEW v \in Nat, v * loss <= amount PROVE v <= q
  <2>1. ASSUME q + 1 <= v PROVE FALSE
    <3>1. q + 1 \in Nat
      BY <1>1
    <3>2. (q + 1) * loss \in Nat /\ (q + 1) * loss <= v * loss /\ v * loss \in Nat
      BY <2>1, <3>1, LargerProduct
    <3>3. (q + 1) * loss = q * loss + loss
      BY <1>1
    <3> QED
      BY <1>1, <1>3, <3>2, <3>3
  <2> QED
    BY <1>1, <2>1
<1> QED
  BY <1>1, <1>2, <1>3 DEF q

LEMMA DistanceIsNat ==
  ASSUME NEW a \in Int, NEW b \in Int
  PROVE  Distance(a, b) \in Nat
BY DEF Distance

Account == [balance : Int, free : Int]
SymbolSpec == [min : Nat, max : Nat, step : Nat \ {0}, stops : Nat, margin : Nat]

\* The sized volume, before the margin is looked at: within the risk and the maximum,
\* and, but for a maximum that is no multiple of the step, the largest multiple that is.
LEMMA VolumeOfRisk ==
  ASSUME NEW g, NEW a \in Account, NEW s \in SymbolSpec,
         RiskAmount(a) \in Nat, LossPerUnit(g) \in Nat \ {0},
         NEW V, V = RiskSized(g, a, s)
  PROVE  /\ V \in Nat /\ V <= s.max
         /\ \A v \in Nat : v <= V => v * LossPerUnit(g) <= RiskAmount(a)
         /\ \A v \in Nat : v % s.step = 0 /\ v <= s.max
                           /\ v * LossPerUnit(g) <= RiskAmount(a) => v <= V
<1> PICK step \in Nat \ {0}, max \in Nat : step = s.step /\ max = s.max
  BY DEF SymbolSpec
<1> PICK amount \in Nat, loss \in Nat \ {0} : amount = RiskAmount(a) /\ loss = LossPerUnit(g)
  OBVIOUS
<1> DEFINE q == amount \div loss
           w == FloorToStep(q, step)
<1>1. q \in Nat /\ \A v \in Nat : v <= q <=> v * loss <= amount
  BY BoughtVolume
<1> HIDE DEF q
<1>2. w \in Nat /\ w <= q /\ \A v \in Nat : v <= q /\ v % step = 0 => v <= w
  BY <1>1, FloorIsLargest
<1>3. V = Min({w, max})
  BY DEF RiskSized, WithinRisk, q
<1> HIDE DEF w
<1>4. V = IF w > max THEN max ELSE w
  <2>1. PICK x \in Int, y \in Int : x = w /\ y = max
    BY <1>2
  <2>2. Min({x, y}) = IF x > y THEN y ELSE x
    BY OfTwo
  <2> QED
    BY <1>3, <2>1, <2>2
<1>5. V \in Nat /\ V <= max /\ V <= w
  BY <1>2, <1>4
<1>6. ASSUME NEW v \in Nat, v <= V PROVE v * loss <= amount
  <2>1. v <= q
    BY <1>1, <1>2, <1>5, <1>6
  <2> QED
    BY <1>1, <2>1
<1>7. ASSUME NEW v \in Nat, v % step = 0, v <= max, v * loss <= amount PROVE v <= V
  <2>1. v <= w
    BY <1>1, <1>2, <1>7
  <2> QED
    BY <1>2, <1>4, <1>7, <2>1
<1> QED
  BY <1>5, <1>6, <1>7

\* The margin loop ends at the largest of its volumes that the margin covers or that
\* is not above the minimum.
LEMMA VolumeOfMargin ==
  ASSUME NEW a \in Account, NEW s \in SymbolSpec, NEW V \in Nat,
         NEW final, final = MarginSized(V, a, s)
  PROVE  /\ final \in Nat /\ final <= V
         /\ final * s.margin <= MarginBudget(a) \/ final <= s.min
         /\ \A v \in LoopVolumes(V, s.step) :
              v * s.margin <= MarginBudget(a) \/ v <= s.min => v <= final
<1> PICK step \in Nat \ {0}, min \in Nat : step = s.step /\ min = s.min
  BY DEF SymbolSpec
<1> DEFINE L == LoopVolumes(V, step)
           S == {v \in L : v * s.margin <= MarginBudget(a) \/ v <= min}
<1>1. L \subseteq 0 .. V /\ 0 \in L
  BY DEF LoopVolumes
<1>2. IsFiniteSet(0 .. V)
  BY FS_Interval
<1>3. 0 \in S /\ S \subseteq 0 .. V
  <2> HIDE DEF L
  <2>1. 0 <= min
    OBVIOUS
  <2>2. S \subseteq L
    OBVIOUS
  <2>3. 0 \in S
    BY <1>1, <2>1
  <2> QED
    BY <1>1, <2>2, <2>3
<1>4. final = Max(S)
  BY DEF MarginSized
<1>5. Max(S) \in S /\ \A v \in S : v <= Max(S)
  <2>1. S \in SUBSET Int /\ S # {}
    <3> HIDE DEF S
    <3>1. 0 .. V \in SUBSET Int
      OBVIOUS
    <3> QED
      BY <1>3, <3>1
  <2>2. IsFiniteSet(S)
    <3> HIDE DEF S
    <3> QED
      BY <1>2, <1>3, FS_Subset
  <2> HIDE DEF S
  <2> QED
    BY <2>1, <2>2, MaxOfSet
<1>6. final \in S /\ final \in 0 .. V
  <2> HIDE DEF S
  <2> QED
    BY <1>3, <1>4, <1>5
<1>7. \A v \in S : v <= final
  <2> HIDE DEF S
  <2> QED
    BY <1>4, <1>5
<1> HIDE DEF L
<1>8. \A v \in L : v * s.margin <= MarginBudget(a) \/ v <= min => v <= final
  BY <1>7
<1>9. final * s.margin <= MarginBudget(a) \/ final <= min
  BY <1>6
<1> QED
  BY <1>6, <1>8, <1>9 DEF L

\* compute_lots, for every signal, account and spec.
LEMMA SizedVolume ==
  ASSUME NEW g, g.entry \in Int, g.sl \in Int, g.tp1 \in Int,
         NEW a \in Account, NEW s \in SymbolSpec,
         NEW r, r = ComputeLots(g, a, s)
  PROVE  /\ r.lots > 0 =>
              /\ r.lots * LossPerUnit(g) <= RiskAmount(a)
              /\ r.lots * s.margin <= MarginBudget(a)
              /\ s.min <= r.lots /\ r.lots <= s.max
              /\ Distance(g.entry, g.tp1) >= s.stops
              /\ Distance(g.entry, g.sl) >= s.stops
         /\ r.status \notin {"invalid_input", "stops_level"}
              /\ RiskSized(g, a, s) % s.step = 0 =>
              \A v \in r.lots + 1 .. s.max :
                v % s.step = 0 =>
                  ~(/\ v * LossPerUnit(g) <= RiskAmount(a)
                    /\ v * s.margin <= MarginBudget(a) /\ s.min <= v)
<1> DEFINE V == RiskSized(g, a, s)
           final == MarginSized(V, a, s)
<1> PICK step \in Nat \ {0}, min \in Nat, max \in Nat, margin \in Nat, stops \in Nat :
      step = s.step /\ min = s.min /\ max = s.max /\ margin = s.margin /\ stops = s.stops
  BY DEF SymbolSpec
<1> PICK balance \in Int, free \in Int : balance = a.balance /\ free = a.free
  BY DEF Account
<1>1. CASE \/ InvalidInput(g, a) \/ StopsViolated(g, s) \/ LossPerUnit(g) = 0
  <2>1. r.lots = 0 /\ r.status \in {"invalid_input", "stops_level"}
    BY <1>1 DEF ComputeLots, Reject
  <2> QED
    BY <2>1
<1>2. CASE ~InvalidInput(g, a) /\ ~StopsViolated(g, s) /\ LossPerUnit(g) # 0
  <2>1. LossPerUnit(g) \in Nat \ {0}
    <3>1. PICK d \in Nat, t \in Nat : d = Distance(g.entry, g.sl) /\ t = TickValue
      BY DistanceIsNat, SizingAssumption
    <3>2. d * t \in Nat
      OBVIOUS
    <3> QED
      BY <1>2, <3>1, <3>2 DEF LossPerUnit
  <2>2. RiskAmount(a) \in Nat
    <3>1. balance > 0
      BY <1>2 DEF InvalidInput
    <3>2. PICK p \in Nat : p = RiskPerMille
      BY SizingAssumption
    <3>3. balance * p \in Nat
      BY <3>1
    <3>4. (balance * p) \div 1000 \in Nat
      BY <3>3
    <3> QED
      BY <3>2, <3>4 DEF RiskAmount
  <2>3. MarginBudget(a) \in Int
    <3>1. PICK p \in Nat : p = MarginUsage
      BY SizingAssumption
    <3>2. free * p \in Int
      OBVIOUS
    <3>3. (free * p) \div 100 \in Int
      BY <3>2
    <3> QED
      BY <3>1, <3>3 DEF MarginBudget
  <2>4. PICK loss \in Nat \ {0}, amount \in Nat, budget \in Int :
          loss = LossPerUnit(g) /\ amount = RiskAmount(a) /\ budget = MarginBudget(a)
    BY <2>1, <2>2, <2>3
  <2>5. /\ V \in Nat /\ V <= max
        /\ \A v \in Nat : v <= V => v * loss <= amount
        /\ \A v \in Nat : v % step = 0 /\ v <= max /\ v * loss <= amount => v <= V
    BY <2>1, <2>2, <2>4, VolumeOfRisk
  <2>6. r = IF V < min THEN Reject("risk_too_small")
            ELSE IF final * margin > budget THEN Reject("margin")
            ELSE IF final < min THEN Reject("risk_too_small")
            ELSE [status |-> IF WithinRisk(g, a, s) > max
                             THEN "capped_by_volume_max" ELSE "ok",
                  lots   |-> final]
    BY <1>2, <2>4 DEF ComputeLots
  <2> HIDE DEF V
  <2>7. /\ final \in Nat /\ final <= V
        /\ final * margin <= budget \/ final <= min
        /\ \A v \in LoopVolumes(V, step) : v * margin <= budget \/ v <= min => v <= final
    BY <2>4, <2>5, VolumeOfMargin
  <2> HIDE DEF final
  <2>8. /\ Distance(g.entry, g.tp1) >= stops /\ Distance(g.entry, g.sl) >= stops
    <3>1. Distance(g.entry, g.tp1) \in Nat /\ Distance(g.entry, g.sl) \in Nat
      BY DistanceIsNat
    <3>2. ~(Distance(g.entry, g.sl) < stops) /\ ~(Distance(g.entry, g.tp1) < stops)
      BY <1>2 DEF StopsViolated
    <3> QED
      BY <3>1, <3>2
  <2>9. ASSUME r.lots > 0
        PROVE  /\ r.lots * loss <= amount /\ r.lots * margin <= budget
               /\ min <= r.lots /\ r.lots <= max
    <3>1. r.lots = final /\ ~(final * margin > budget) /\ ~(final < min)
      BY <2>6, <2>9 DEF Reject
    <3>2. final * margin \in Int
      BY <2>7
    <3>3. final * margin <= budget
      BY <3>1, <3>2
    <3>4. final * loss <= amount
      BY <2>5, <2>7
    <3>5. min <= final /\ final <= max
      BY <2>5, <2>7, <3>1
    <3> QED
      BY <3>1, <3>3, <3>4, <3>5
  <2>10. ASSUME V % step = 0, NEW v \in Nat, v % step = 0, v > r.lots, v <= max,
                v * loss <= amount, v * margin <= budget, min <= v
         PROVE  FALSE
    <3>1. v <= V
      BY <2>5, <2>10
    <3>2. ~(V < min)
      BY <2>5, <2>10, <3>1
    <3>3. v \in LoopVolumes(V, step)
      <4>1. CASE v = V
        BY <4>1 DEF LoopVolumes
      <4>2. CASE v < V
        <5>1. PICK k \in Nat, l \in Nat : v = k * step /\ V = l * step
          <6>1. \E k \in Nat : v = k * step
            BY <2>10, Multiple
          <6>2. \E l \in Nat : V = l * step
            BY <2>5, <2>10, Multiple
          <6> QED
            BY <6>1, <6>2
        <5>2. v + step <= V
          BY <4>2, <5>1, NextMultiple
        <5>3. v \in 0 .. V - step
          BY <2>5, <5>2
        <5> QED
          BY <2>10, <5>3 DEF LoopVolumes
      <4> QED
        BY <2>5, <3>1, <4>1, <4>2
    <3>4. v <= final
      BY <2>7, <2>10, <3>3
    <3>5. CASE final * margin > budget
      <4>1. final <= min
        <5>1. final * margin \in Int
          BY <2>7
        <5> QED
          BY <2>7, <3>5, <5>1
      <4>2. v = final
        BY <2>7, <2>10, <3>4, <4>1
      <4>3. v * margin \in Int
        OBVIOUS
      <4> QED
        BY <2>10, <3>5, <4>2, <4>3
    <3>6. CASE ~(final * margin > budget)
      <4>1. ~(final < min)
        BY <2>7, <2>10, <3>4
      <4>2. r.lots = final
        BY <2>6, <3>2, <3>6, <4>1
      <4> QED
        BY <2>7, <2>10, <3>4, <4>2
    <3> QED
      BY <3>5, <3>6
  <2>11. r.lots \in Nat
    BY <2>6, <2>7 DEF Reject
  <2>12. ASSUME V % step = 0, NEW v \in r.lots + 1 .. max, v % step = 0,
                v * loss <= amount, v * margin <= budget, min <= v
         PROVE  FALSE
    <3>1. v \in Nat /\ v > r.lots /\ v <= max
      BY <2>11
    <3> QED
      BY <2>10, <2>12, <3>1
  <2> QED
    BY <2>4, <2>8, <2>9, <2>12 DEF V
<1> QED
  BY <1>1, <1>2

LEMMA SignalPrices ==
  ASSUME NEW ltf, Row(ltf), NEW market, Fires(ltf, market), NEW g, g = BuildSignal(ltf)
  PROVE  g.entry \in Int /\ g.sl \in Int /\ g.tp1 \in Int
<1> DEFINE kind == Touched(ltf)
<1>1. kind \in {"supply", "demand"} /\ kind # NoTouch
  BY DecidedZone DEF Fires, Blocked
<1>2. PICK edge \in Int : edge = ZoneEdge(kind, ltf)
  <2>1. PICK i \in DOMAIN ltf.zones :
           ZoneEdge(kind, ltf) = IF kind = "demand"
                                 THEN ltf.zones[i].bottom ELSE ltf.zones[i].top
    BY <1>1, TouchedZone
  <2>2. ltf.zones[i] \in Zone
    BY DEF Row
  <2>3. ltf.zones[i].bottom \in Int /\ ltf.zones[i].top \in Int
    BY <2>2 DEF Zone
  <2> HIDE DEF kind
  <2> QED
    BY <2>1, <2>3
<1>3. PICK buffer \in Int, least \in Int :
        buffer = (SlBuffer * ltf.atr) \div 10 /\ least = ltf.atr \div 10
  <2>1. PICK x \in Nat, y \in Nat : x = SlBuffer /\ y = ltf.atr
    BY Numbers, EngineAssumption DEF Row
  <2>2. x * y \in Nat
    OBVIOUS
  <2>3. (x * y) \div 10 \in Int /\ y \div 10 \in Int
    BY <2>2
  <2> QED
    BY <2>1, <2>3
<1>4. PICK e \in Int : e = ltf.close
  BY DEF Row
<1>5. PICK sl \in Int : sl = StopOf(kind, ltf)
  <2>1. StopOf(kind, ltf) = IF kind = "demand" THEN Smaller(edge - buffer, e - least)
                                               ELSE Larger(edge + buffer, e + least)
    BY <1>2, <1>3, <1>4 DEF StopOf
  <2>2. Smaller(edge - buffer, e - least) \in Int /\ Larger(edge + buffer, e + least) \in Int
    BY DEF Smaller, Larger
  <2> HIDE DEF kind
  <2> QED
    BY <2>1, <2>2
<1>6. PICK r \in Nat : r = RR1
  BY EngineAssumption
<1>7. g.entry = e /\ g.sl = sl /\ g.tp1 = e + r * (e - sl)
  BY <1>4, <1>5, <1>6 DEF BuildSignal, TargetOf
<1>8. e + r * (e - sl) \in Int
  OBVIOUS
<1> QED
  BY <1>7, <1>8

LEMMA SizesHold == DecisionInv /\ SizeInv => SizeIsRight
<1> SUFFICES ASSUME DecisionInv, SizeInv, size # None PROVE SizeIsRight
  BY DEF SizeIsRight, SizeWithinLimits, LargestSize
<1>1. PICK a, s, r : a = size.account /\ s = size.spec /\ r = size.result
  OBVIOUS
<1>2. signal # None /\ a \in Accounts /\ s \in Specs /\ r = ComputeLots(signal, a, s)
  BY <1>1 DEF SizeInv
<1>3. a \in Account /\ s \in SymbolSpec
  BY <1>2, DecisionAssumption DEF Account, SymbolSpec
<1>4. signal.entry \in Int /\ signal.sl \in Int /\ signal.tp1 \in Int
  BY <1>2, SignalPrices DEF DecisionInv
<1>5. r.lots > 0 =>
        /\ r.lots * LossPerUnit(signal) <= RiskAmount(a)
        /\ r.lots * s.margin <= MarginBudget(a)
        /\ s.min <= r.lots /\ r.lots <= s.max
        /\ Distance(signal.entry, signal.tp1) >= s.stops
        /\ Distance(signal.entry, signal.sl) >= s.stops
  BY <1>2, <1>3, <1>4, SizedVolume
<1>6. r.status \notin {"invalid_input", "stops_level"}
        /\ RiskSized(signal, a, s) % s.step = 0 =>
        \A v \in r.lots + 1 .. s.max :
          v % s.step = 0 =>
            ~(/\ v * LossPerUnit(signal) <= RiskAmount(a)
              /\ v * s.margin <= MarginBudget(a) /\ s.min <= v)
  BY <1>2, <1>3, <1>4, SizedVolume
<1>7. SizeWithinLimits
  BY <1>1, <1>5 DEF SizeWithinLimits, Fits
<1>8. LargestSize
  BY <1>1, <1>6 DEF LargestSize, Fits
<1> QED
  BY <1>7, <1>8 DEF SizeIsRight

-----------------------------------------------------------------------------
(* The theorems                                                             *)

\* No candle of a window belongs to two of its zones: ZoneEngine.build_zones
\* (zones.py) jumps ahead after an impulse, and what it jumps over is not the base
\* of a later one.
THEOREM CandlesAreNotShared == Spec => []ZonesShareNoCandle
<1>1. TypeInv => ZonesShareNoCandle
  <2> SUFFICES ASSUME TypeInv,
                      NEW i \in DOMAIN BuildZones(bars), NEW j \in DOMAIN BuildZones(bars),
                      i # j,
                      NEW y, NEW z, y = BuildZones(bars)[i], z = BuildZones(bars)[j]
               PROVE  (y.origin - y.score .. y.origin) \cap (z.origin - z.score .. z.origin) = {}
    BY DEF ZonesShareNoCandle
  <2>1. bars \in Seq(Candle)
    BY DEF TypeInv
  <2>2. i \in Int /\ j \in Int
    <3>1. BuildZones(bars) \in Seq(Zone)
      BY <2>1, BuiltZones
    <3> QED
      BY <3>1
  <2>3. CASE i < j
    BY <2>1, <2>3, NoCandleTwice
  <2>4. CASE j < i
    <3>1. (z.origin - z.score .. z.origin) \cap (y.origin - y.score .. y.origin) = {}
      BY <2>1, <2>4, NoCandleTwice
    <3> QED
      BY <3>1
  <2> QED
    BY <2>2, <2>3, <2>4
<1> QED
  BY <1>1, Inductive, PTL DEF IInv

\* Under the bars that close, a zone only ever gets worse, a broken one is final and
\* a fresh one has not been touched (ZoneEngine.update, zones.py), whatever the
\* candles and however long the engine is kept.
THEOREM ZonesOnlyGetWorse == Spec => LifecycleForward
<1>1. ASSUME TypeInv, [Next]_vars, closed' # closed, NEW i \in DOMAIN zones
      PROVE  /\ Rank(zones'[i].state) >= Rank(zones[i].state)
             /\ zones[i].state = "broken" => zones'[i] = zones[i]
             /\ zones'[i].state = "fresh" => zones'[i].touches = 0
  <2>1. PICK c \in Candles : BarCloses(c)
    BY <1>1, Steps DEF vars, Rebuild, Evaluate, SizePosition
  <2>2. zones \in Seq(Zone) /\ Untouched(zones[i]) /\ zones[i] \in Zone
    BY <1>1 DEF TypeInv
  <2>3. zones'[i] = Advance(zones[i], c)
    BY <2>1, <2>2, ZonesAdvance DEF BarCloses
  <2> QED
    BY <2>2, <2>3, AdvanceIsForward DEF Untouched
<1>2. TypeInv /\ [Next]_vars =>
        [closed' # closed => \A i \in DOMAIN zones :
           /\ Rank(zones'[i].state) >= Rank(zones[i].state)
           /\ zones[i].state = "broken" => zones'[i] = zones[i]
           /\ zones'[i].state = "fresh" => zones'[i].touches = 0]_vars
  BY <1>1
<1> QED
  BY <1>2, Inductive, PTL DEF IInv, Spec, LifecycleForward

\* Rule 3 of scoring.py:11 decides nothing: a candidate that comes as far as the
\* score and has passed the hard gates has five of seven points, so that with the
\* default minimum of 4.5 it fires whatever BBMA and divergence say.
THEOREM ConfirmationsDecideNothing ==
  ASSUME MinScoreHalves <= 10, ~AllowS0Fade, NEW ltf, NEW market, ~Blocked(ltf, market),
         NEW bbma \in BOOLEAN, NEW divergence \in BOOLEAN
  PROVE  Passed([Inputs(ltf, market) EXCEPT !.bbma = bbma, !.divergence = divergence])
           <=> Fires(ltf, market)
<1> DEFINE in == Inputs(ltf, market)
           other == [in EXCEPT !.bbma = bbma, !.divergence = divergence]
<1>1. /\ other.direction = in.direction /\ other.kind = in.kind /\ other.trend = in.trend
      /\ other.regime = in.regime /\ other.pWin = in.pWin
  BY DEF Inputs
<1>2. Aligned(in.direction, in.trend)
  BY DEF Blocked, Inputs
<1> DEFINE Hard == ZoneMatches(in) /\ RegimeOk(in.direction, in.regime) /\ MetaOk(in.pWin)
<1>3. ZoneMatches(other) = ZoneMatches(in)
  BY <1>1 DEF ZoneMatches
<1> HIDE DEF in, other
<1>4. ASSUME Hard PROVE 2 * Score(in) >= MinScoreHalves
  <2>1. Weight(1, in.bbma) \in {0, 1} /\ Weight(1, in.divergence) \in {0, 1}
    BY DEF Weight
  <2>2. /\ Weight(2, ZoneMatches(in)) = 2
        /\ Weight(1, Aligned(in.direction, in.trend) \/ Fading(in.regime)) = 1
        /\ Weight(1, RegimeOk(in.direction, in.regime)) = 1 /\ Weight(1, MetaOk(in.pWin)) = 1
    BY <1>2, <1>4 DEF Weight
  <2>3. Score(in) \in Nat /\ Score(in) >= 5
    BY <2>1, <2>2 DEF Score
  <2> QED
    BY <2>3, EngineAssumption
<1>5. ASSUME Hard PROVE 2 * Score(other) >= MinScoreHalves
  <2>1. Weight(1, other.bbma) \in {0, 1} /\ Weight(1, other.divergence) \in {0, 1}
    BY DEF Weight
  <2>2. /\ Weight(2, ZoneMatches(other)) = 2
        /\ Weight(1, Aligned(other.direction, other.trend) \/ Fading(other.regime)) = 1
        /\ Weight(1, RegimeOk(other.direction, other.regime)) = 1
        /\ Weight(1, MetaOk(other.pWin)) = 1
    BY <1>1, <1>2, <1>3, <1>5 DEF Weight
  <2>3. Score(other) \in Nat /\ Score(other) >= 5
    BY <2>1, <2>2 DEF Score
  <2> QED
    BY <2>3, EngineAssumption
<1>6. Passed(in) <=> Hard
  BY <1>4 DEF Passed
<1>7. Passed(other) <=> Hard
  BY <1>1, <1>3, <1>5 DEF Passed
<1>8. Fires(ltf, market) <=> Passed(in)
  BY DEF Fires, in
<1> QED
  BY <1>6, <1>7, <1>8 DEF other, in

\* Every signal has passed the four hard gates of SignalEngine.evaluate (engine.py),
\* as they stand in the row and the context it was made from: the zone, the trend
\* with the regime, and the probability, which is that of rising also for a SELL.
THEOREM GatesArePassed == Spec => []HardGatesPassed
<1>1. IInv => HardGatesPassed
  BY GatesHold DEF IInv
<1> QED
  BY <1>1, Inductive, PTL

\* Where prices are divided exactly and the configured multiples are positive, the
\* stop of _build_signal (engine.py) is behind the touched zone and a tenth of the
\* ATR away, with the targets in order on the other side.
THEOREM StopIsBehindTheZone ==
  ASSUME ExactPrices
  PROVE  Spec => []StopBeyondZone
<1>1. IInv => StopBeyondZone
  BY StopHolds DEF IInv
<1> QED
  BY <1>1, Inductive, PTL

\* compute_lots (vix_core.risk) exceeds neither the risk, the margin nor the broker's
\* limits, and leaves no larger volume on the table, whatever the account and spec.
THEOREM SizesAreRight == Spec => []SizeIsRight
<1>1. IInv => SizeIsRight
  BY SizesHold DEF IInv
<1> QED
  BY <1>1, Inductive, PTL
=============================================================================
