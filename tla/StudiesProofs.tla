---------------------------- MODULE StudiesProofs ----------------------------
(***************************************************************************)
(* Theorems about the studies, for any candle lists.                       *)
(*                                                                         *)
(* A sell condition reads the list at the places of the past: every one is *)
(* compared with the same condition of the list cut at the candle.         *)
(***************************************************************************)
EXTENDS Studies, FiniteSetTheorems, SequenceTheorems, NaturalsInduction, WellFoundedInduction, TLAPS

-----------------------------------------------------------------------------
(* The least and the greatest of a set of numbers. *)

LEMMA LeastNumber ==
    ASSUME NEW S, S \subseteq Nat, S # {}
    PROVE  \E m \in S : \A x \in S : m <= x
<1> DEFINE Less == {p \in Nat \X Nat : p[1] < p[2]}
<1>1. IsWellFoundedOn(Less, Nat)
  BY NatLessThanWellFounded DEF OpToRel
<1>2. PICK m \in S : \A k \in S : ~(<<k, m>> \in Less)
  BY <1>1, WFMin
<1>3. \A k \in S : m <= k
  <2> TAKE k \in S
  <2>1. k \in Nat /\ m \in Nat /\ <<k, m>> \notin Less
    BY <1>2
  <2>2. ~(k < m)
    BY <2>1
  <2> QED BY <2>1, <2>2
<1> QED BY <1>3

LEMMA LowestFound ==
    ASSUME NEW S, S \subseteq Int, NEW m \in S, \A x \in S : m <= x
    PROVE  LowestOf(S) = m
<1>1. LowestOf(S) \in S /\ \A x \in S : LowestOf(S) <= x
  BY DEF LowestOf
<1>2. LowestOf(S) \in Int /\ m \in Int /\ LowestOf(S) <= m /\ m <= LowestOf(S)
  BY <1>1
<1> QED BY <1>2

LEMMA HighestFound ==
    ASSUME NEW S, S \subseteq Int, NEW m \in S, \A x \in S : x <= m
    PROVE  HighestOf(S) = m
<1>1. HighestOf(S) \in S /\ \A x \in S : x <= HighestOf(S)
  BY DEF HighestOf
<1>2. HighestOf(S) \in Int /\ m \in Int /\ HighestOf(S) <= m /\ m <= HighestOf(S)
  BY <1>1
<1> QED BY <1>2

LEMMA LowestIs ==
    ASSUME NEW a \in Int, NEW S, S \subseteq Int, S # {}, \A x \in S : a <= x
    PROVE  LowestOf(S) \in S /\ \A x \in S : LowestOf(S) <= x
<1> DEFINE T == {x - a : x \in S}
<1>1. T \subseteq Nat /\ T # {}
  <2>1. \A x \in S : x - a \in Nat
    OBVIOUS
  <2> QED BY <2>1
<1>2. PICK t \in T : \A y \in T : t <= y
  BY <1>1, LeastNumber
<1>3. PICK m \in S : t = m - a
  BY <1>2
<1>4. \A x \in S : m <= x
  <2> TAKE x \in S
  <2>1. m - a <= x - a
    BY <1>2, <1>3
  <2> QED BY <2>1
<1> QED BY <1>4, LowestFound

LEMMA HighestIs ==
    ASSUME NEW b \in Int, NEW S, S \subseteq Int, S # {}, \A x \in S : x <= b
    PROVE  HighestOf(S) \in S /\ \A x \in S : x <= HighestOf(S)
<1> DEFINE T == {b - x : x \in S}
<1>1. T \subseteq Nat /\ T # {}
  <2>1. \A x \in S : b - x \in Nat
    OBVIOUS
  <2> QED BY <2>1
<1>2. PICK t \in T : \A y \in T : t <= y
  BY <1>1, LeastNumber
<1>3. PICK m \in S : t = b - m
  BY <1>2
<1>4. \A x \in S : x <= m
  <2> TAKE x \in S
  <2>1. b - m <= b - x
    BY <1>2, <1>3
  <2> QED BY <2>1
<1> QED BY <1>4, HighestFound

LEMMA HighestOfTwo ==
    ASSUME NEW a \in Int, NEW b \in Int
    PROVE  HighestOf({a, b}) \in {a, b} /\ a <= HighestOf({a, b}) /\ b <= HighestOf({a, b})
<1>1. CASE a <= b
  <2>1. HighestOf({a, b}) = b
    BY <1>1, HighestFound
  <2> QED BY <1>1, <2>1
<1>2. CASE b <= a
  <2>1. HighestOf({a, b}) = a
    BY <1>2, HighestFound
  <2> QED BY <1>2, <2>1
<1> QED BY <1>1, <1>2

\* A number that stands at some positions has a bound there.
LEMMA Bounded ==
    ASSUME NEW n \in Nat, NEW R, R \subseteq 0..n, NEW F, \A j \in R : F[j] \in Int
    PROVE  \E b \in Int : \A j \in R : F[j] <= b /\ -b <= F[j]
<1> DEFINE B(b, m) == b \in Int /\ \A j \in R : j <= m => F[j] <= b /\ -b <= F[j]
           S == {m \in 0..n : \A b : ~B(b, m)}
<1>1. S = {}
  <2> SUFFICES ASSUME S # {} PROVE FALSE
    OBVIOUS
  <2>1. S \subseteq Nat
    OBVIOUS
  <2> HIDE DEF S
  <2>2. PICK m \in S : \A x \in S : m <= x
    BY <2>1, LeastNumber
  <2>3. m \in 0..n /\ \A b : ~B(b, m)
    BY <2>2 DEF S
  <2>4. PICK old \in Int : \A j \in R : j < m => F[j] <= old /\ -old <= F[j]
    <3>1. CASE m = 0
      BY <3>1
    <3>2. CASE m # 0
      <4>1. m - 1 \in 0..n /\ m - 1 \notin S
        BY <2>2, <2>3, <3>2
      <4>2. PICK b : B(b, m - 1)
        BY <4>1 DEF S
      <4> QED BY <4>2, <2>3
    <3> QED BY <3>1, <3>2
  <2>5. CASE m \notin R
    <3>1. B(old, m)
      BY <2>3, <2>4, <2>5
    <3> QED BY <3>1, <2>3
  <2>6. CASE m \in R
    <3> DEFINE size == IF F[m] < 0 THEN -F[m] ELSE F[m]
               new == IF old < size THEN size ELSE old
    <3>1. new \in Int /\ F[m] <= new /\ -new <= F[m] /\ old <= new
      BY <2>6
    <3>2. B(new, m)
      <4> SUFFICES ASSUME NEW j \in R, j <= m PROVE F[j] <= new /\ -new <= F[j]
        BY <3>1
      <4> HIDE DEF new
      <4>1. CASE j = m
        BY <4>1, <3>1
      <4>2. CASE j # m
        <5>1. j < m /\ F[j] \in Int
          BY <4>2, <2>3
        <5> QED BY <5>1, <2>4, <3>1
      <4> QED BY <4>1, <4>2
    <3> QED BY <3>2, <2>3
  <2> QED BY <2>5, <2>6
<1>2. \E b : B(b, n)
  <2>1. n \in 0..n
    OBVIOUS
  <2> QED BY <1>1, <2>1
<1> QED BY <1>2

-----------------------------------------------------------------------------
(* The sell conditions. *)

\* A position on its list.
OnSellTape == \E t \in SellTapes : candles = t.candles /\ holding = t.holding

LEMMA SellTapeFacts ==
    ASSUME OnSellTape
    PROVE  /\ Last \in Nat /\ DOMAIN candles = 0..Last
           /\ \A j \in 0..Last : /\ C(j).open \in Int /\ C(j).high \in Int /\ C(j).close \in Int
                                 /\ C(j).low \in Nat
           /\ bought \in 0..Last /\ mainBox \in Int /\ holding.mainAt \in Int
           /\ holding.pen \in 0..Last /\ holding.known \in Nat /\ holding.defAt \in 0..bought
<1>1. PICK t \in SellTapes : candles = t.candles /\ holding = t.holding
  BY DEF OnSellTape
<1>2. IsFiniteSet(DOMAIN candles) /\ DOMAIN candles = 0..Last /\ bought \in 0..Last
  BY <1>1, PositionAssumption DEF Last, bought
<1>3. Last \in Nat
  <2>1. Cardinality(DOMAIN candles) \in Nat
    BY <1>2, FS_CardinalityType
  <2>2. Last \in Int
    BY <2>1 DEF Last
  <2> QED BY <2>2, <1>2
<1>4. \A j \in 0..Last : /\ \A f \in {"open", "high", "close"} : candles[j][f] \in Int
                         /\ candles[j].low \in Nat
  BY <1>1, PositionAssumption DEF Last
<1>5. \A j \in 0..Last : candles[j].open \in Int /\ candles[j].high \in Int /\ candles[j].close \in Int
  BY <1>4
<1>6. /\ mainBox \in Int /\ holding.mainAt \in Int /\ holding.pen \in 0..Last /\ holding.known \in Nat
      /\ holding.defAt \in 0..bought
  BY <1>1, PositionAssumption DEF Last, bought, mainBox
<1> QED BY <1>2, <1>3, <1>4, <1>5, <1>6 DEF C

\* What a condition says depends on the list and the position alone.
LEMMA SellSignalsStay ==
    ASSUME UNCHANGED <<candles, holding>>, NEW i
    PROVE  SellSignals(i)' = SellSignals(i)
<1>2. IsCriticalFailure(i)' <=> IsCriticalFailure(i)
  BY DEF IsCriticalFailure, IsReversedArrangement, C, Set, Lost, PanicSelling, IsNegative,
         bought, Total, CrashUnrecovered, Under, mainBox
<1>3. IsGapUpTakeProfit(i)' <=> IsGapUpTakeProfit(i)
  BY DEF IsGapUpTakeProfit, buyPrice, C, bought
<1>4. IsBBUpperBreakoutProfit(i)' <=> IsBBUpperBreakoutProfit(i)
  BY DEF IsBBUpperBreakoutProfit, Set, buyPrice, C, Gained
<1>5. IsMainBoxBreakdownFailure(i)' <=> IsMainBoxBreakdownFailure(i)
  BY DEF IsMainBoxBreakdownFailure, Under, mainBox, C, IsNegative, bought
<1>6. IsMainBoxPersistentBreakdown(i)' <=> IsMainBoxPersistentBreakdown(i)
  BY DEF IsMainBoxPersistentBreakdown, Held, bought, Under, mainBox, C, Set
<1>7. IsMainBoxRecoveryFailure(i)' <=> IsMainBoxRecoveryFailure(i)
  BY DEF IsMainBoxRecoveryFailure, Under, mainBox, C, IsPartialReversal, Bullish, Held, bought,
         Set
<1>8. IsMainBoxBreakdownWithBB(i)' <=> IsMainBoxBreakdownWithBB(i)
  BY DEF IsMainBoxBreakdownWithBB, Set, C, Under, mainBox, bought
<1>9. IsWeakFoundationFailure(i)' <=> IsWeakFoundationFailure(i)
  BY DEF IsWeakFoundationFailure, C, IsNegative, bought
<1>10. IsTrendEntryFailure1(i)' <=> IsTrendEntryFailure1(i)
  BY DEF IsTrendEntryFailure1, C, Bullish, EventHigh, Top
<1>11. IsTrendEntryFailure2(i)' <=> IsTrendEntryFailure2(i)
  BY DEF IsTrendEntryFailure2, C, Top, LastOscillo, Crossings, SideBefore
<1>12. IsStopLoss(i)' <=> IsStopLoss(i)
  BY DEF IsStopLoss, Set, buyPrice, C, Lost, bought
<1>13. IsAdaptiveStopLoss(i)' <=> IsAdaptiveStopLoss(i)
  BY DEF IsAdaptiveStopLoss, buyPrice, CalculateAdaptiveStopLossThreshold, BoxFactor, Set,
         mainBox, VolatilityFactor, bought, MoreVolatile, Last, C, DayReturns
<1>14. IsTimeDelayedStopLoss(i)' <=> IsTimeDelayedStopLoss(i)
  BY DEF IsTimeDelayedStopLoss, IsStopLoss, Set, buyPrice, C, Lost, bought
<1>15. IsEarlyDrop(i)' <=> IsEarlyDrop(i)
  BY DEF IsEarlyDrop, Set, buyPrice, C, Lost, bought
<1>16. IsEarlyMainBoxBreak(i)' <=> IsEarlyMainBoxBreak(i)
  BY DEF IsEarlyMainBoxBreak, IsPartialReversal, C, Under, mainBox, Set, bought
<1>17. IsBBSqueezeExpansionWarning(i)' <=> IsBBSqueezeExpansionWarning(i)
  BY DEF IsBBSqueezeExpansionWarning, Set, C
<1>18. IsMA5MA20DeadCross(i)' <=> IsMA5MA20DeadCross(i)
  BY DEF IsMA5MA20DeadCross, C, IsNegative, HasTwoBoxesAfterBuy, bought, Turns
<1>19. IsConsecutiveNegativeCandles(i)' <=> IsConsecutiveNegativeCandles(i)
  BY DEF IsConsecutiveNegativeCandles, Set, IsNegative, C, Held, bought, Under, mainBox
<1>20. IsMAReversalBoxPattern(i)' <=> IsMAReversalBoxPattern(i)
  BY DEF IsMAReversalBoxPattern, Set, C, IsPartialReversal
<1> QED
  BY <1>2, <1>3, <1>4, <1>5, <1>6, <1>7, <1>8, <1>9, <1>10, <1>11, <1>12, <1>13, <1>14, <1>15, <1>16, <1>17, <1>18, <1>19, <1>20 DEF SellSignals, Conditions

\* The list cut at the candle of the loop has the same candles up to it, so that everything that
\* is said of one of them stays.
LEMMA TodayHelpers ==
    ASSUME OnSellTape, pos \in bought..Last
    PROVE  /\ Today!bought = bought /\ Today!buyPrice = buyPrice /\ Today!mainBox = mainBox
           /\ Today!Set = Set
           /\ \A j \in 0..pos : Today!C(j) = C(j)
           /\ \A j \in 0..pos : Today!Bullish(j) <=> Bullish(j)
           /\ \A j \in 0..pos : Today!IsNegative(j) <=> IsNegative(j)
           /\ \A j \in 0..pos : Today!IsPartialReversal(j) <=> IsPartialReversal(j)
           /\ \A j \in 0..pos : Today!IsReversedArrangement(j) <=> IsReversedArrangement(j)
           /\ \A j \in 0..pos : Today!Under(j) <=> Under(j)
           /\ \A S : Today!HighestOf(S) = HighestOf(S) /\ Today!LowestOf(S) = LowestOf(S)
           /\ \A v, base, pct : Today!Lost(v, base, pct) <=> Lost(v, base, pct)
           /\ \A v, base, pct : Today!Gained(v, base, pct) <=> Gained(v, base, pct)
           /\ \A j : Today!Held(j) = Held(j)
           /\ \A S : Today!Cardinality(S) = Cardinality(S)
<1>1. Today!bought = bought /\ Today!buyPrice = buyPrice /\ Today!mainBox = mainBox /\ Today!Set = Set
  BY DEF Today!bought, Today!buyPrice, Today!mainBox, Today!Set, bought, buyPrice, mainBox, Set
<1>2. \A j \in 0..pos : Today!C(j) = C(j)
  BY DEF Today!C, C
<1>3. \A j \in 0..pos : Today!Bullish(j) <=> Bullish(j)
  BY <1>2 DEF Today!Bullish, Bullish
<1>4. \A j \in 0..pos : Today!IsNegative(j) <=> IsNegative(j)
  BY <1>2 DEF Today!IsNegative, IsNegative
<1>5. \A j \in 0..pos : Today!IsPartialReversal(j) <=> IsPartialReversal(j)
  BY <1>2 DEF Today!IsPartialReversal, IsPartialReversal
<1>6. \A j \in 0..pos : Today!IsReversedArrangement(j) <=> IsReversedArrangement(j)
  BY <1>2 DEF Today!IsReversedArrangement, IsReversedArrangement
<1>7. \A j \in 0..pos : Today!Under(j) <=> Under(j)
  BY <1>1, <1>2 DEF Today!Under, Under
<1>8. \A S : Today!HighestOf(S) = HighestOf(S) /\ Today!LowestOf(S) = LowestOf(S)
  BY DEF Today!HighestOf, HighestOf, Today!LowestOf, LowestOf
<1>9. \A v, base, pct : Today!Lost(v, base, pct) <=> Lost(v, base, pct)
  BY DEF Today!Lost, Lost
<1>10. \A v, base, pct : Today!Gained(v, base, pct) <=> Gained(v, base, pct)
  BY DEF Today!Gained, Gained
<1>11. \A j : Today!Held(j) = Held(j)
  BY <1>1 DEF Today!Held, Held
<1>12. \A S : Today!Cardinality(S) = Cardinality(S)
  BY DEF Today!Cardinality, Cardinality
<1> QED BY <1>1, <1>2, <1>3, <1>4, <1>5, <1>6, <1>7, <1>8, <1>9, <1>10, <1>11, <1>12

\* Extremes and sums over days that have passed, and the last crossing of the DefBox price.
LEMMA TodayRanges ==
    ASSUME OnSellTape, pos \in bought..Last
    PROVE  /\ \A span \in SUBSET (0..pos) : Today!Top("high", span) = Top("high", span)
           /\ \A j \in 0..pos : Today!Total("volume", bought, j) = Total("volume", bought, j)
           /\ \A line, cut :
                (\A j \in 0..pos : cut[j] = line[j])
                  => Today!LastOscillo(cut, holding.pen, pos) = LastOscillo(line, holding.pen, pos)
<1>1. /\ \A j \in 0..pos : Today!C(j) = C(j) /\ (Today!Bullish(j) <=> Bullish(j))
      /\ \A S : Today!HighestOf(S) = HighestOf(S) /\ Today!LowestOf(S) = LowestOf(S)
  BY TodayHelpers
<1>2. bought \in Nat /\ holding.pen \in Nat /\ pos \in Nat
  BY SellTapeFacts
<1>3. \A span \in SUBSET (0..pos) : Today!Top("high", span) = Top("high", span)
  <2> TAKE span \in SUBSET (0..pos)
  <2>1. {Today!C(j)["high"] : j \in span} = {C(j)["high"] : j \in span}
    BY <1>1
  <2> QED BY <2>1, <1>1 DEF Today!Top, Top
<1>4. \A j \in 0..pos : Today!Total("volume", bought, j) = Total("volume", bought, j)
  <2> TAKE n \in 0..pos
  <2>1. [j \in bought..n |-> Today!C(j)["volume"]] = [j \in bought..n |-> C(j)["volume"]]
    BY <1>1, <1>2
  <2>2. \A val : Today!SumOf(val, bought, n) = SumOf(val, bought, n)
    BY DEF Today!SumOf, SumOf
  <2> QED BY <2>1, <2>2 DEF Today!Total, Total
<1>5. ASSUME NEW line, NEW cut, \A j \in 0..pos : cut[j] = line[j]
      PROVE  Today!LastOscillo(cut, holding.pen, pos) = LastOscillo(line, holding.pen, pos)
  <2> DEFINE pen == holding.pen
  <2>1. \A i \in pen..pos : Today!SideBefore(cut, pen, i) = SideBefore(line, pen, i)
    <3> TAKE i \in pen..pos
    <3> DEFINE off == {j \in pen..(i - 1) : C(j).close # line[j]}
    <3>1. {j \in pen..(i - 1) : Today!C(j).close # cut[j]} = off
      BY <1>1, <1>2, <1>5
    <3>2. off = {} \/ HighestOf(off) \in off
      <4>1. off \subseteq Int /\ i - 1 \in Int /\ \A x \in off : x <= i - 1
        BY <1>2
      <4> HIDE DEF off
      <4> QED BY <4>1, HighestIs
    <3>3. off = {} \/ HighestOf(off) \in 0..pos
      BY <3>2, <1>2
    <3> HIDE DEF off
    <3>4. off = {} \/ /\ Today!C(HighestOf(off)) = C(HighestOf(off))
                      /\ cut[HighestOf(off)] = line[HighestOf(off)]
      BY <3>3, <1>1, <1>5
    <3>5. SideBefore(line, pen, i) = IF off = {} THEN 0
                                     ELSE IF C(HighestOf(off)).close > line[HighestOf(off)] THEN 1 ELSE -1
      BY DEF SideBefore, off
    <3>6. Today!SideBefore(cut, pen, i) = IF off = {} THEN 0
                                     ELSE IF Today!C(HighestOf(off)).close > cut[HighestOf(off)] THEN 1 ELSE -1
      BY <3>1, <1>1 DEF Today!SideBefore
    <3> QED BY <3>4, <3>5, <3>6
  <2>2. Today!Crossings(cut, pen, pos) = Crossings(line, pen, pos)
    BY <2>1, <1>1, <1>2, <1>5 DEF Today!Crossings, Crossings
  <2> QED BY <2>2, <1>1 DEF Today!LastOscillo, LastOscillo
<1> QED BY <1>3, <1>4, <1>5

\* Every condition but the adaptive stop reads the past alone.
LEMMA TodaySays ==
    ASSUME OnSellTape, pos \in (bought + 1)..Last
    PROVE  Today!SellSignals(pos) \ {"IsAdaptiveStopLoss"} = SellSignals(pos) \ {"IsAdaptiveStopLoss"}
<1>1. /\ bought \in Nat /\ pos \in Nat /\ bought < pos /\ pos \in 0..pos /\ pos \in bought..Last
      /\ \A j \in 0..pos : j \in Int
  BY SellTapeFacts
<1>2. /\ Today!bought = bought /\ Today!buyPrice = buyPrice /\ Today!mainBox = mainBox
      /\ Today!Set = Set
      /\ \A j \in 0..pos : Today!C(j) = C(j)
      /\ \A j \in 0..pos : Today!Bullish(j) <=> Bullish(j)
      /\ \A j \in 0..pos : Today!IsNegative(j) <=> IsNegative(j)
      /\ \A j \in 0..pos : Today!IsPartialReversal(j) <=> IsPartialReversal(j)
      /\ \A j \in 0..pos : Today!IsReversedArrangement(j) <=> IsReversedArrangement(j)
      /\ \A j \in 0..pos : Today!Under(j) <=> Under(j)
      /\ \A S : Today!HighestOf(S) = HighestOf(S) /\ Today!LowestOf(S) = LowestOf(S)
      /\ \A v, base, pct : Today!Lost(v, base, pct) <=> Lost(v, base, pct)
      /\ \A v, base, pct : Today!Gained(v, base, pct) <=> Gained(v, base, pct)
      /\ \A j : Today!Held(j) = Held(j)
      /\ \A S : Today!Cardinality(S) = Cardinality(S)
  BY <1>1, TodayHelpers
<1>3. Held(pos) \subseteq 0..pos /\ Held(pos - 1) \subseteq 0..pos /\ pos - 1 \in 0..pos
      /\ Today!C(pos) = C(pos) /\ Today!C(pos - 1) = C(pos - 1)
  BY <1>1, <1>2 DEF Held
<1>4. Today!CrashUnrecovered(pos) <=> CrashUnrecovered(pos)
  <2> DEFINE crashes == {j \in (pos - 2)..pos : j >= 0 /\ Lost(C(j).close, C(j).open, Set.crash)}
  <2>1. {j \in (pos - 2)..pos : j >= 0 /\ Today!Lost(Today!C(j).close, Today!C(j).open, Today!Set.crash)} = crashes
    BY <1>1, <1>2
  <2>2. crashes \subseteq 0..pos /\ crashes \subseteq Int /\ \A x \in crashes : x <= pos
    BY <1>1
  <2> HIDE DEF crashes
  <2>3. crashes # {} => HighestOf(crashes) \in 0..pos
    BY <1>1, <2>2, HighestIs
  <2>4. crashes # {} => \A j \in (HighestOf(crashes) + 1)..pos : j \in 0..pos
    BY <1>1, <2>3
  <2>5. CrashUnrecovered(pos) <=>
          crashes # {} /\ pos - HighestOf(crashes) >= 3 /\ \A j \in (HighestOf(crashes) + 1)..pos : Under(j)
    BY DEF CrashUnrecovered, crashes
  <2>6. Today!CrashUnrecovered(pos) <=>
          crashes # {} /\ pos - HighestOf(crashes) >= 3 /\ \A j \in (HighestOf(crashes) + 1)..pos : Today!Under(j)
    BY <1>2, <2>1 DEF Today!CrashUnrecovered
  <2> QED BY <1>2, <2>4, <2>5, <2>6
<1>5. Today!PanicSelling(pos) <=> PanicSelling(pos)
  BY <1>1, <1>2, <1>3, TodayRanges DEF Today!PanicSelling, PanicSelling
<1>6. Set.dropDays \in Nat /\ Set.lowCandles \in Nat /\ Set.delay \in Nat
  BY PositionAssumption DEF Set
<1>7. Today!IsCriticalFailure(pos) <=> IsCriticalFailure(pos)
  <2>1. pos >= Set.dropDays => pos - Set.dropDays \in 0..pos
    BY <1>1, <1>6
  <2>2. (\A j \in (pos - Set.reversalDays + 1)..pos : j >= 0 /\ Today!IsReversedArrangement(j))
          <=> \A j \in (pos - Set.reversalDays + 1)..pos : j >= 0 /\ IsReversedArrangement(j)
    BY <1>1, <1>2
  <2> QED BY <1>1, <1>2, <1>3, <1>4, <1>5, <2>1, <2>2 DEF Today!IsCriticalFailure, IsCriticalFailure
<1>8. Today!IsGapUpTakeProfit(pos) <=> IsGapUpTakeProfit(pos)
  BY <1>2, <1>3 DEF Today!IsGapUpTakeProfit, IsGapUpTakeProfit
<1>9. Today!IsBBUpperBreakoutProfit(pos) <=> IsBBUpperBreakoutProfit(pos)
  BY <1>2, <1>3 DEF Today!IsBBUpperBreakoutProfit, IsBBUpperBreakoutProfit
<1>10. Today!IsMainBoxBreakdownFailure(pos) <=> IsMainBoxBreakdownFailure(pos)
  BY <1>1, <1>2 DEF Today!IsMainBoxBreakdownFailure, IsMainBoxBreakdownFailure
<1>11. Today!IsMainBoxPersistentBreakdown(pos) <=> IsMainBoxPersistentBreakdown(pos)
  <2> DEFINE under == {j \in Held(pos) : Under(j)}
  <2>1. {j \in Today!Held(pos) : Today!Under(j)} = under
    BY <1>2, <1>3
  <2> HIDE DEF under
  <2>2. Today!IsMainBoxPersistentBreakdown(pos) <=>
          pos > bought + Set.persistent /\ 2 * Cardinality(under) > Cardinality(Held(pos))
    BY <1>2, <2>1 DEF Today!IsMainBoxPersistentBreakdown
  <2>3. IsMainBoxPersistentBreakdown(pos) <=>
          pos > bought + Set.persistent /\ 2 * Cardinality(under) > Cardinality(Held(pos))
    BY DEF IsMainBoxPersistentBreakdown, under
  <2> QED BY <2>2, <2>3
<1>12. Today!IsMainBoxRecoveryFailure(pos) <=> IsMainBoxRecoveryFailure(pos)
  BY <1>1, <1>2, <1>3 DEF Today!IsMainBoxRecoveryFailure, IsMainBoxRecoveryFailure
<1>13. Today!IsMainBoxBreakdownWithBB(pos) <=> IsMainBoxBreakdownWithBB(pos)
  BY <1>1, <1>2, <1>3 DEF Today!IsMainBoxBreakdownWithBB, IsMainBoxBreakdownWithBB
<1>14. Today!IsWeakFoundationFailure(pos) <=> IsWeakFoundationFailure(pos)
  <2>1. pos = bought + 2 => Today!C(pos - 2) = C(pos - 2)
    BY <1>1, <1>2
  <2> QED BY <1>1, <1>2, <1>3, <2>1 DEF Today!IsWeakFoundationFailure, IsWeakFoundationFailure
<1>15. Today!IsTrendEntryFailure1(pos) <=> IsTrendEntryFailure1(pos)
  <2> DEFINE span == HighestOf({0, pos - 3 * (pos - holding.mainAt)})..holding.defAt
  <2>1. Today!EventHigh(pos) = IF span = {} THEN 0 ELSE Today!Top("high", span)
    BY <1>2 DEF Today!EventHigh
  <2>2. EventHigh(pos) = IF span = {} THEN 0 ELSE Top("high", span)
    BY DEF EventHigh
  <2>3. span # {} => span \in SUBSET (0..pos)
    <3>1. holding.mainAt \in Int /\ holding.defAt \in 0..bought
      BY SellTapeFacts
    <3>2. pos - 3 * (pos - holding.mainAt) \in Int
      BY <1>1, <3>1
    <3> DEFINE x == pos - 3 * (pos - holding.mainAt)
    <3>3. HighestOf({0, x}) \in Nat
      <4> HIDE DEF x
      <4>1. x \in Int
        BY <3>2 DEF x
      <4>2. HighestOf({0, x}) \in {0, x} /\ 0 <= HighestOf({0, x})
        BY <4>1, HighestOfTwo
      <4> QED BY <4>1, <4>2
    <3> QED BY <1>1, <3>1, <3>3
  <2>4. Today!EventHigh(pos) = EventHigh(pos)
    BY <1>1, <2>1, <2>2, <2>3, TodayRanges
  <2> QED BY <1>1, <1>2, <1>3, <2>4 DEF Today!IsTrendEntryFailure1, IsTrendEntryFailure1
<1>16. Today!IsTrendEntryFailure2(pos) <=> IsTrendEntryFailure2(pos)
  <2> DEFINE line == [j \in DOMAIN candles |-> holding.def]
             cut == [j \in 0..pos |-> holding.def]
             last == LastOscillo(line, holding.pen, pos)
             span == holding.pen..(last - 1)
  <2>1. DOMAIN candles = 0..Last /\ holding.pen \in 0..Last /\ Last \in Nat
    BY SellTapeFacts
  <2>2. \A j \in 0..pos : cut[j] = line[j]
    BY <1>1, <2>1
  <2>3. Today!LastOscillo(cut, holding.pen, pos) = last
    BY <1>1, <2>2, TodayRanges
  <2>4. pos - last \in 1..2 /\ last \in Int => span \in SUBSET (0..pos)
    BY <1>1, <2>1
  <2>5. last \in Int
    <3> DEFINE K == Crossings(line, holding.pen, pos) \cup {0}
    <3>1. K \subseteq Int /\ K # {} /\ \A x \in K : x <= pos
      BY <1>1, <2>1 DEF Crossings
    <3> HIDE DEF K
    <3>2. HighestOf(K) \in K
      BY <1>1, <3>1, HighestIs
    <3> QED BY <3>1, <3>2 DEF LastOscillo, K
  <2> HIDE DEF last, cut
  <2>6. pos - last \in 1..2 => Today!Top("high", span) = Top("high", span)
    BY <1>1, <2>4, <2>5, TodayRanges
  <2>7. [j \in DOMAIN [k \in 0..pos |-> candles[k]] |-> holding.def] = cut
    BY DEF cut
  <2>8. Today!IsTrendEntryFailure2(pos) <=>
          LET high == IF span = {} THEN 0 ELSE Today!Top("high", span)
          IN  /\ pos - last \in 1..2 /\ pos >= 1
              /\ C(pos - 1).high >= high /\ C(pos - 1).open < high
              /\ C(pos).open > high /\ C(pos).close < high
    BY <1>3, <2>3, <2>7 DEF Today!IsTrendEntryFailure2
  <2>9. IsTrendEntryFailure2(pos) <=>
          LET high == IF span = {} THEN 0 ELSE Top("high", span)
          IN  /\ pos - last \in 1..2 /\ pos >= 1
              /\ C(pos - 1).high >= high /\ C(pos - 1).open < high
              /\ C(pos).open > high /\ C(pos).close < high
    BY DEF IsTrendEntryFailure2, last
  <2> QED BY <2>6, <2>8, <2>9
<1>17. Today!IsStopLoss(pos) <=> IsStopLoss(pos)
  BY <1>1, <1>2, <1>3 DEF Today!IsStopLoss, IsStopLoss
<1>18. Today!IsTimeDelayedStopLoss(pos) <=> IsTimeDelayedStopLoss(pos)
  <2>1. \A j \in 0..pos : Today!IsStopLoss(j) <=> IsStopLoss(j)
    BY <1>2 DEF Today!IsStopLoss, IsStopLoss
  <2>2. Set.delay \in Nat
    BY PositionAssumption DEF Set
  <2>3. pos - Set.delay >= bought => \A j \in (pos - Set.delay + 1)..pos : j \in 0..pos
    BY <1>1, <2>2
  <2> QED BY <1>1, <1>2, <2>1, <2>3 DEF Today!IsTimeDelayedStopLoss, IsTimeDelayedStopLoss
<1>19. Today!IsEarlyDrop(pos) <=> IsEarlyDrop(pos)
  BY <1>1, <1>2, <1>3 DEF Today!IsEarlyDrop, IsEarlyDrop
<1>20. Today!IsEarlyMainBoxBreak(pos) <=> IsEarlyMainBoxBreak(pos)
  BY <1>1, <1>2, <1>3 DEF Today!IsEarlyMainBoxBreak, IsEarlyMainBoxBreak
<1>21. Today!IsBBSqueezeExpansionWarning(pos) <=> IsBBSqueezeExpansionWarning(pos)
  <2> DEFINE tight == {j \in (pos - Set.squeezeLookback)..(pos - 1) :
                         j >= 0 /\ C(j).width # 0 /\ C(j).width < Set.squeezeWidth}
  <2>1. {j \in (pos - Today!Set.squeezeLookback)..(pos - 1) :
           j >= 0 /\ Today!C(j).width # 0 /\ Today!C(j).width < Today!Set.squeezeWidth} = tight
    BY <1>1, <1>2
  <2>2. tight \subseteq 0..pos
    BY <1>1
  <2> HIDE DEF tight
  <2>3. pos >= Set.lowCandles => (pos - Set.lowCandles + 1)..pos \subseteq 0..pos
    BY <1>1, <1>6
  <2>4. IsBBSqueezeExpansionWarning(pos) <=>
          /\ pos >= Set.lowCandles
          /\ \E j \in tight : 2 * C(pos).width >= 3 * C(j).width
          /\ C(pos).percent < Set.lowPercent
          /\ \A j \in (pos - Set.lowCandles + 1)..pos : C(j).percent < Set.lowPercent
    BY DEF IsBBSqueezeExpansionWarning, tight
  <2>5. Today!IsBBSqueezeExpansionWarning(pos) <=>
          /\ pos >= Set.lowCandles
          /\ \E j \in tight : 2 * C(pos).width >= 3 * Today!C(j).width
          /\ C(pos).percent < Set.lowPercent
          /\ \A j \in (pos - Set.lowCandles + 1)..pos : Today!C(j).percent < Set.lowPercent
    BY <1>2, <1>3, <2>1 DEF Today!IsBBSqueezeExpansionWarning
  <2> QED BY <1>2, <2>2, <2>3, <2>4, <2>5
<1>22. Today!IsMA5MA20DeadCross(pos) <=> IsMA5MA20DeadCross(pos)
  <2>1. Today!Turns(pos) = Turns(pos) /\ Turns(pos) \subseteq 0..pos
    <3>1. holding.known \in Nat
      BY SellTapeFacts
    <3>2. \A j \in (holding.known + 1)..pos : j \in 0..pos
      BY <1>1, <3>1
    <3> QED BY <1>2, <3>2 DEF Today!Turns, Turns
  <2>2. {h \in Today!Turns(pos) : Today!C(h).box.at > Today!bought}
          = {h \in Turns(pos) : C(h).box.at > bought}
    BY <1>2, <2>1
  <2>3. Today!HasTwoBoxesAfterBuy(pos) <=> HasTwoBoxesAfterBuy(pos)
    BY <1>2, <2>1, <2>2 DEF Today!HasTwoBoxesAfterBuy, HasTwoBoxesAfterBuy
  <2>4. pos >= 2 => \A j \in (pos - 2)..(pos - 1) : Today!C(j) = C(j)
    BY <1>1, <1>2
  <2> QED BY <1>1, <1>2, <1>3, <2>3, <2>4 DEF Today!IsMA5MA20DeadCross, IsMA5MA20DeadCross
<1>23. Today!IsConsecutiveNegativeCandles(pos) <=> IsConsecutiveNegativeCandles(pos)
  <2> DEFINE negative == {j \in Held(pos) : j > pos - Set.negativeLookback /\ IsNegative(j)}
  <2>1. {j \in Today!Held(pos) : j > pos - Today!Set.negativeLookback /\ Today!IsNegative(j)} = negative
    BY <1>2, <1>3
  <2> HIDE DEF negative
  <2>2. Today!IsConsecutiveNegativeCandles(pos) <=>
          /\ C(pos).close < C(pos).ma5 /\ C(pos).grad < 0 /\ Today!Under(pos)
          /\ Cardinality(negative) >= Set.negatives
    BY <1>2, <1>3, <2>1 DEF Today!IsConsecutiveNegativeCandles
  <2>3. IsConsecutiveNegativeCandles(pos) <=>
          /\ C(pos).close < C(pos).ma5 /\ C(pos).grad < 0 /\ Under(pos)
          /\ Cardinality(negative) >= Set.negatives
    BY DEF IsConsecutiveNegativeCandles, negative
  <2> QED BY <1>1, <1>2, <2>2, <2>3
<1>24. Today!IsMAReversalBoxPattern(pos) <=> IsMAReversalBoxPattern(pos)
  <2>1. {h \in 0..pos : Today!C(h).box.type = "resistance"} = {h \in 0..pos : C(h).box.type = "resistance"}
    BY <1>2
  <2>2. {Today!C(j).box.at : j \in {h \in 0..pos : Today!C(h).box.type = "resistance"}}
          = {C(j).box.at : j \in {h \in 0..pos : C(h).box.type = "resistance"}}
    BY <1>2, <2>1
  <2> QED BY <1>1, <1>2, <1>3, <2>2 DEF Today!IsMAReversalBoxPattern, IsMAReversalBoxPattern
<1> QED
  BY <1>7, <1>8, <1>9, <1>10, <1>11, <1>12, <1>13, <1>14, <1>15, <1>16, <1>17, <1>18, <1>19, <1>20,
     <1>21, <1>22, <1>23, <1>24 DEF Today!SellSignals, Today!Conditions, SellSignals, Conditions

\* What the loop has noted of a position are the conditions of its days.
SellInv ==
    IF lab = "sell"
    THEN /\ OnSellTape /\ pos \in bought..Last
         /\ raised \in Seq({SellSignals(i) : i \in Int}) /\ Len(raised) = pos - bought
         /\ \A k \in 1..(pos - bought) : raised[k] = SellSignals(bought + k)
    ELSE raised = << >>

LEMMA SellInvHolds == Spec => []SellInv
<1>1. Init => SellInv
  <2> SUFFICES ASSUME Init PROVE SellInv
    OBVIOUS
  <2>1. CASE lab = "sell"
    <3>1. SellInit
      BY <2>1 DEF Init
    <3>2. OnSellTape /\ pos = bought /\ raised = << >>
      BY <3>1 DEF SellInit, OnSellTape, bought
    <3>3. pos \in bought..Last /\ Len(raised) = pos - bought /\ 1..(pos - bought) = {}
      BY <3>2, SellTapeFacts
    <3> QED BY <2>1, <3>2, <3>3 DEF SellInv
  <2>2. CASE lab # "sell"
    BY <2>2 DEF Init, NoHolding, SellInv
  <2> QED BY <2>1, <2>2
<1>2. SellInv /\ [Next]_vars => SellInv'
  <2> SUFFICES ASSUME SellInv, [Next]_vars PROVE SellInv'
    OBVIOUS
  <2>1. CASE lab = "sell" /\ Next
    <3>1. SellStep /\ lab' = lab
      BY <2>1 DEF Next
    <3>2. UNCHANGED <<candles, holding>> /\ bought' = bought /\ Last' = Last
      BY <3>1 DEF SellStep, bought, Last
    <3>3. \A i : SellSignals(i)' = SellSignals(i)
      BY <3>2, SellSignalsStay
    <3> DEFINE All == {SellSignals(i) : i \in Int}
    <3>4. /\ OnSellTape /\ pos \in bought..Last /\ bought \in Nat /\ Last \in Nat
          /\ raised \in Seq(All) /\ Len(raised) = pos - bought
          /\ \A k \in 1..(pos - bought) : raised[k] = SellSignals(bought + k)
      BY <2>1, SellTapeFacts DEF SellInv
    <3>5. pos' = pos + 1 /\ pos' \in bought..Last /\ raised' = Append(raised, SellSignals(pos'))
      BY <3>1, <3>4 DEF SellStep
    <3>6. SellSignals(pos') \in All
      BY <3>4, <3>5
    <3> HIDE DEF All
    <3>7. /\ raised' \in Seq(All) /\ Len(raised') = pos' - bought
          /\ \A k \in 1..(pos' - bought) : raised'[k] = IF k <= pos - bought THEN raised[k] ELSE SellSignals(pos')
      BY <3>4, <3>5, <3>6, AppendProperties
    <3>8. \A k \in 1..(pos' - bought) : raised'[k] = SellSignals(bought + k)
      <4> TAKE k \in 1..(pos' - bought)
      <4>1. CASE k <= pos - bought
        BY <4>1, <3>4, <3>5, <3>7
      <4>2. CASE ~(k <= pos - bought)
        <5>1. bought + k = pos'
          BY <4>2, <3>4, <3>5
        <5> QED BY <4>2, <3>7, <5>1
      <4> QED BY <4>1, <4>2
    <3>9. OnSellTape'
      BY <3>2, <3>4 DEF OnSellTape
    <3>10. \A k \in 1..(pos' - bought) : raised'[k] = SellSignals(bought + k)'
      BY <3>2, <3>3, <3>8
    <3>11. {SellSignals(i)' : i \in Int} = All
      BY <3>3 DEF All
    <3> QED BY <2>1, <3>1, <3>2, <3>5, <3>7, <3>9, <3>10, <3>11 DEF SellInv
  <2>2. CASE lab # "sell" /\ Next
    BY <2>2 DEF Next, SellInv, sellVars
  <2>3. CASE UNCHANGED vars
    <3>1. UNCHANGED <<lab, candles, pos, holding, raised>>
      BY <2>3 DEF vars, sellVars
    <3>2. \A i : SellSignals(i)' = SellSignals(i)
      BY <3>1, SellSignalsStay
    <3>3. bought' = bought /\ Last' = Last
      BY <3>1 DEF bought, Last
    <3>4. lab = "sell" => \A k \in 1..(pos - bought) : raised'[k] = SellSignals(bought + k)'
      BY <3>1, <3>2, <3>3 DEF SellInv
    <3>5. OnSellTape <=> OnSellTape'
      BY <3>1 DEF OnSellTape
    <3>6. {SellSignals(i)' : i \in Int} = {SellSignals(i) : i \in Int}
      BY <3>2
    <3> QED BY <3>1, <3>3, <3>4, <3>5, <3>6 DEF SellInv
  <2> QED BY <2>1, <2>2, <2>3
<1> QED BY <1>1, <1>2, PTL DEF Spec

\* The days on which a condition held, by its definition.
LEMMA DaysFound ==
    ASSUME SellInv, lab = "sell"
    PROVE  /\ DOMAIN raised = 1..(pos - bought) /\ bought \in Nat /\ Last \in Nat /\ pos \in bought..Last
           /\ \A k \in Int : k \in DaysOf("IsStopLoss") <=> k \in DOMAIN raised /\ IsStopLoss(bought + k)
           /\ \A k \in Int : k \in DaysOf("IsTimeDelayedStopLoss")
                                <=> k \in DOMAIN raised /\ IsTimeDelayedStopLoss(bought + k)
           /\ \A k \in Int : k \in DaysOf("IsWeakFoundationFailure")
                                <=> k \in DOMAIN raised /\ IsWeakFoundationFailure(bought + k)
           /\ \A k \in Int : k \in DaysOf("IsTrendEntryFailure1")
                                <=> k \in DOMAIN raised /\ IsTrendEntryFailure1(bought + k)
<1>1. /\ DOMAIN raised = 1..(pos - bought) /\ bought \in Nat /\ Last \in Nat /\ pos \in bought..Last
      /\ \A k \in DOMAIN raised : raised[k] = SellSignals(bought + k)
  BY SellTapeFacts DEF SellInv
<1>2. ASSUME NEW i
      PROVE  /\ "IsStopLoss" \in SellSignals(i) <=> IsStopLoss(i)
             /\ "IsTimeDelayedStopLoss" \in SellSignals(i) <=> IsTimeDelayedStopLoss(i)
             /\ "IsWeakFoundationFailure" \in SellSignals(i) <=> IsWeakFoundationFailure(i)
             /\ "IsTrendEntryFailure1" \in SellSignals(i) <=> IsTrendEntryFailure1(i)
  BY DEF SellSignals, Conditions
<1> QED BY <1>1, <1>2 DEF DaysOf

LEMMA DelayedAgreesAlways ==
    ASSUME SellInv, lab = "sell"
    PROVE  DelayedAgrees
<1>1. /\ DOMAIN raised = 1..(pos - bought) /\ bought \in Nat /\ Last \in Nat /\ pos \in bought..Last
      /\ \A k \in Int : k \in DaysOf("IsStopLoss") <=> k \in DOMAIN raised /\ IsStopLoss(bought + k)
      /\ \A k \in Int : k \in DaysOf("IsTimeDelayedStopLoss")
                           <=> k \in DOMAIN raised /\ IsTimeDelayedStopLoss(bought + k)
  BY DaysFound
<1>2. Set.delay \in Nat
  BY PositionAssumption DEF Set
<1> DEFINE delay == Set.delay
<1>3. SUFFICES ASSUME NEW k \in 1..(pos - bought)
               PROVE  IsTimeDelayedStopLoss(bought + k) <=>
                        k >= delay /\ \A d \in 0..(delay - 1) : (k - d) \in DaysOf("IsStopLoss")
  BY <1>1 DEF DelayedAgrees
<1>4. CASE delay = 0
  BY <1>4, <1>1 DEF IsTimeDelayedStopLoss
<1>5. CASE delay # 0
  <2>1. IsTimeDelayedStopLoss(bought + k) <=>
          k >= delay /\ \A j \in (bought + k - delay + 1)..(bought + k) : IsStopLoss(j)
    BY <1>1, <1>2, <1>5 DEF IsTimeDelayedStopLoss
  <2>2. k >= delay => \A d \in 0..(delay - 1) : (k - d) \in DaysOf("IsStopLoss") <=> IsStopLoss(bought + k - d)
    <3> SUFFICES ASSUME k >= delay, NEW d \in 0..(delay - 1)
                 PROVE  (k - d) \in DaysOf("IsStopLoss") <=> IsStopLoss(bought + k - d)
      OBVIOUS
    <3>1. k - d \in 1..(pos - bought) /\ k - d \in Int /\ bought + (k - d) = bought + k - d
      BY <1>1, <1>2
    <3> QED BY <1>1, <3>1
  <2>3. ASSUME \A j \in (bought + k - delay + 1)..(bought + k) : IsStopLoss(j)
        PROVE  \A d \in 0..(delay - 1) : IsStopLoss(bought + k - d)
    <3> TAKE d \in 0..(delay - 1)
    <3>1. bought + k - d \in (bought + k - delay + 1)..(bought + k)
      BY <1>1, <1>2
    <3> QED BY <2>3, <3>1
  <2>4. ASSUME \A d \in 0..(delay - 1) : IsStopLoss(bought + k - d)
        PROVE  \A j \in (bought + k - delay + 1)..(bought + k) : IsStopLoss(j)
    <3> TAKE j \in (bought + k - delay + 1)..(bought + k)
    <3>1. bought + k - j \in 0..(delay - 1) /\ bought + k - (bought + k - j) = j
      BY <1>1, <1>2
    <3> QED BY <2>4, <3>1
  <2> QED BY <2>1, <2>2, <2>3, <2>4
<1> QED BY <1>4, <1>5

LEMMA WeakFoundationOnceAlways ==
    ASSUME SellInv, lab = "sell"
    PROVE  WeakFoundationOnce
<1>1. /\ DOMAIN raised = 1..(pos - bought) /\ bought \in Nat /\ Last \in Nat /\ pos \in bought..Last
      /\ \A k \in Int : k \in DaysOf("IsWeakFoundationFailure")
                           <=> k \in DOMAIN raised /\ IsWeakFoundationFailure(bought + k)
  BY DaysFound
<1>2. \A j \in 0..Last : C(j).close \in Int
  BY SellTapeFacts DEF SellInv
<1> DEFINE D == DaysOf("IsWeakFoundationFailure")
<1>3. D \subseteq {1, 2}
  <2> SUFFICES ASSUME NEW k \in D PROVE k \in {1, 2}
    OBVIOUS
  <2>1. k \in 1..(pos - bought) /\ k \in Int
    BY <1>1 DEF DaysOf
  <2>2. IsWeakFoundationFailure(bought + k)
    BY <1>1, <2>1
  <2> QED BY <1>1, <2>1, <2>2 DEF IsWeakFoundationFailure
<1>4. ~(1 \in D /\ 2 \in D)
  <2> SUFFICES ASSUME 1 \in D, 2 \in D PROVE FALSE
    OBVIOUS
  <2>1. /\ IsWeakFoundationFailure(bought + 1) /\ IsWeakFoundationFailure(bought + 2)
        /\ 1 \in 1..(pos - bought)
    BY <1>1
  <2>2. C(bought + 1).close <= C(bought).close /\ C(bought + 1).close > C(bought).close
    <3> DEFINE one == bought + 1
               two == bought + 2
    <3>1. /\ one # bought + 2 /\ two # bought + 1 /\ one - 1 = bought
          /\ two - 1 = one /\ two - 2 = bought
      BY <1>1
    <3>2. IsWeakFoundationFailure(one) /\ IsWeakFoundationFailure(two)
      BY <2>1
    <3> HIDE DEF one, two
    <3>3. C(one).close <= C(one - 1).close
      BY <3>1, <3>2 DEF IsWeakFoundationFailure
    <3>4. C(two - 1).close > C(two - 2).close
      BY <3>1, <3>2 DEF IsWeakFoundationFailure
    <3> QED BY <3>1, <3>3, <3>4 DEF one
  <2>3. C(bought + 1).close \in Int /\ C(bought).close \in Int
    BY <1>1, <1>2, <2>1
  <2> QED BY <2>2, <2>3
<1>5. D = {} \/ D = {1} \/ D = {2}
  BY <1>3, <1>4
<1>6. Cardinality(D) <= 1
  BY <1>5, FS_EmptySet, FS_Singleton
<1> QED BY <1>6 DEF WeakFoundationOnce

LEMMA EventHighIsNumber ==
    ASSUME OnSellTape, NEW i \in 0..Last, i >= bought
    PROVE  EventHigh(i) \in Int
<1>1. /\ Last \in Nat /\ bought \in 0..Last /\ holding.mainAt \in Int /\ holding.defAt \in 0..bought
      /\ \A j \in 0..Last : C(j).high \in Int
  BY SellTapeFacts
<1> DEFINE x == i - 3 * (i - holding.mainAt)
           span == HighestOf({0, x})..holding.defAt
           H == {C(j).high : j \in span}
<1>2. x \in Int
  BY <1>1
<1> HIDE DEF x
<1>3. HighestOf({0, x}) \in {0, x} /\ 0 <= HighestOf({0, x})
  BY <1>2, HighestOfTwo
<1>4. span \subseteq 0..Last
  BY <1>1, <1>2, <1>3
<1>5. CASE span = {}
  BY <1>5 DEF EventHigh, x
<1>6. CASE span # {}
  <2> HIDE DEF span
  <2> DEFINE F == [j \in span |-> C(j).high]
  <2>1. \A j \in span : F[j] \in Int
    BY <1>1, <1>4
  <2>2. PICK b \in Int : \A j \in span : F[j] <= b /\ -b <= F[j]
    <3> HIDE DEF F
    <3> QED BY <1>1, <1>4, <2>1, Bounded
  <2>3. H \subseteq Int /\ H # {} /\ \A y \in H : y <= b
    BY <1>6, <2>1, <2>2
  <2> HIDE DEF H
  <2>4. HighestOf(H) \in Int
    BY <2>3, HighestIs
  <2>5. EventHigh(i) = HighestOf(H)
    BY <1>6 DEF EventHigh, Top, H, span, x
  <2> QED BY <2>4, <2>5
<1> QED BY <1>5, <1>6

LEMMA TrendFailuresApartAlways ==
    ASSUME SellInv, lab = "sell"
    PROVE  TrendFailuresApart
<1>1. /\ DOMAIN raised = 1..(pos - bought) /\ bought \in Nat /\ Last \in Nat /\ pos \in bought..Last
      /\ \A k \in Int : k \in DaysOf("IsTrendEntryFailure1")
                           <=> k \in DOMAIN raised /\ IsTrendEntryFailure1(bought + k)
  BY DaysFound
<1>2. OnSellTape /\ \A j \in 0..Last : C(j).open \in Int /\ C(j).close \in Int
  BY SellTapeFacts DEF SellInv
<1>3. SUFFICES ASSUME NEW k \in 1..(pos - bought), k + 1 \in 1..(pos - bought),
                      IsTrendEntryFailure1(bought + k), IsTrendEntryFailure1(bought + k + 1)
               PROVE  FALSE
  <2>1. \A k \in 1..(pos - bought) : k \in Int /\ k + 1 \in Int /\ bought + (k + 1) = bought + k + 1
    BY <1>1
  <2> QED BY <1>1, <2>1 DEF TrendFailuresApart
<1> DEFINE i == bought + k
<1>4. i \in 0..Last /\ i >= bought /\ i + 1 - 1 = i
  BY <1>1
<1> HIDE DEF i
<1>5. EventHigh(i) \in Int /\ C(i).open \in Int /\ C(i).close \in Int
  BY <1>2, <1>4, EventHighIsNumber
<1>6. C(i).open > EventHigh(i) /\ C(i).close < EventHigh(i)
  BY <1>3 DEF IsTrendEntryFailure1, i
<1>7. IsTrendEntryFailure1(i + 1)
  BY <1>3 DEF i
<1>8. C(i).close > C(i).open
  BY <1>4, <1>7 DEF IsTrendEntryFailure1, Bullish
<1> QED BY <1>5, <1>6, <1>8

LEMMA DeepDropStaysAlways ==
    ASSUME SellInv, lab = "sell"
    PROVE  DeepDropStays
<1>1. /\ Last \in Nat /\ bought \in 0..Last /\ mainBox \in Int /\ pos \in bought..Last
      /\ \A j \in 0..Last : C(j).low \in Nat
  BY SellTapeFacts DEF SellInv
<1>2. SUFFICES ASSUME NEW j \in Held(pos), (mainBox - C(j).low) * 100 >= Set.highDrop * mainBox
               PROVE  EvaluateRecoveryPotential(pos) # "high"
  BY DEF DeepDropStays
<1> DEFINE L == {C(n).low : n \in Held(pos)}
           low == LowestOf(L)
<1>3. Held(pos) \subseteq 0..Last /\ pos > bought
  BY <1>1 DEF Held
<1>4. L \subseteq Int /\ L # {} /\ C(j).low \in L /\ \A y \in L : 0 <= y
  BY <1>1, <1>3
<1> HIDE DEF L
<1>5. low \in L /\ \A y \in L : low <= y
  <2>1. \E a \in Int : \A y \in L : a <= y
    BY <1>4
  <2> QED BY <1>4, <2>1, LowestIs
<1>6. low \in Int /\ 0 <= low /\ low <= C(j).low /\ C(j).low \in Int
  BY <1>4, <1>5
<1>7. LowestAfterBuy(pos) = low
  BY <1>3 DEF LowestAfterBuy, Bottom, L
<1> HIDE DEF low
<1> DEFINE drop == Set.highDrop * mainBox
<1>8. drop \in Int /\ (mainBox = 0 => drop = 0)
  <2>1. Set.highDrop \in Int
    BY PositionAssumption DEF Set
  <2> QED BY <1>1, <2>1
<1>9. (mainBox - C(j).low) * 100 >= drop
  BY <1>2
<1> HIDE DEF drop
<1>10. (mainBox - low) * 100 >= drop
  BY <1>1, <1>6, <1>8, <1>9
<1>11. mainBox = 0 => low = 0
  BY <1>6, <1>8, <1>10
<1>12. ~((mainBox = 0 \/ (mainBox - low) * 100 < drop) /\ low # 0)
  BY <1>1, <1>6, <1>8, <1>10, <1>11
<1> QED BY <1>7, <1>12 DEF EvaluateRecoveryPotential, drop

\* The price conditions of a position: none but the adaptive stop looks ahead, the delayed stop
\* is a run of stop days, a weak foundation shows once, entries do not fail twice running, a deep
\* drop is not forgotten (stg/sell_conditions_registry.go:34, cond/sell_adaptive_stop.go:120,
\* sell_loss_cutting.go:23, sell_recovery.go:215).
THEOREM SellIsSound == Spec => []SellSound
<1>1. SellInv => SellSound
  <2> SUFFICES ASSUME SellInv PROVE SellSound
    OBVIOUS
  <2>1. CASE lab = "sell"
    <3>1. SoldByThePast
      <4>1. SUFFICES ASSUME raised # << >>
                     PROVE  raised[Len(raised)] \ {"IsAdaptiveStopLoss"}
                              = Today!SellSignals(pos) \ {"IsAdaptiveStopLoss"}
        BY DEF SoldByThePast
      <4>2. /\ OnSellTape /\ pos \in bought..Last /\ raised \in Seq({SellSignals(i) : i \in Int})
            /\ Len(raised) = pos - bought /\ bought \in Nat /\ Last \in Nat
            /\ \A k \in 1..(pos - bought) : raised[k] = SellSignals(bought + k)
        BY <2>1, SellTapeFacts DEF SellInv
      <4>3. Len(raised) # 0
        BY <4>1, <4>2, EmptySeq
      <4>4. pos \in (bought + 1)..Last /\ raised[Len(raised)] = SellSignals(pos)
        <5>1. pos - bought \in 1..(pos - bought) /\ bought + (pos - bought) = pos
          BY <4>2, <4>3
        <5> QED BY <4>2, <5>1
      <4> QED BY <4>2, <4>4, TodaySays
    <3> QED BY <2>1, <3>1, DelayedAgreesAlways, WeakFoundationOnceAlways, TrendFailuresApartAlways,
               DeepDropStaysAlways DEF SellSound
  <2>2. CASE lab # "sell"
    <3>1. raised = << >> /\ DOMAIN raised = {}
      BY <2>2 DEF SellInv
    <3>2. DaysOf("IsWeakFoundationFailure") = {}
      BY <3>1 DEF DaysOf
    <3>3. WeakFoundationOnce
      BY <3>2, FS_EmptySet DEF WeakFoundationOnce
    <3> QED BY <2>2, <3>1, <3>3 DEF SellSound, SoldByThePast, DelayedAgrees, TrendFailuresApart, DeepDropStays
  <2> QED BY <2>1, <2>2
<1> QED BY <1>1, SellInvHolds, PTL

-----------------------------------------------------------------------------
(* The buy conditions along one DefBox. *)

Sequence(s) == \E S : s \in Seq(S)

\* Appending to any sequence.
LEMMA AppendAny ==
    ASSUME NEW s, Sequence(s), NEW e
    PROVE  /\ Sequence(Append(s, e)) /\ Len(s) \in Nat /\ DOMAIN s = 1..Len(s)
           /\ Len(Append(s, e)) = Len(s) + 1 /\ DOMAIN Append(s, e) = 1..(Len(s) + 1)
           /\ \A i \in 1..Len(s) : Append(s, e)[i] = s[i]
           /\ Append(s, e)[Len(s) + 1] = e
<1>1. PICK S : s \in Seq(S)
  BY DEF Sequence
<1> DEFINE T == S \cup {e}
<1>2. s \in Seq(T) /\ e \in T
  BY <1>1, SeqMonotonic
<1> HIDE DEF T
<1>3. Append(s, e) \in Seq(T)
  BY <1>2, AppendProperties
<1>4. /\ Len(s) \in Nat /\ DOMAIN s = 1..Len(s) /\ Len(Append(s, e)) = Len(s) + 1
      /\ \A i \in 1..Len(s) : Append(s, e)[i] = s[i]
      /\ Append(s, e)[Len(s) + 1] = e
  BY <1>2, AppendProperties, LenProperties
<1>5. DOMAIN Append(s, e) = 1..(Len(s) + 1)
  BY <1>3, <1>4, LenProperties
<1> QED BY <1>3, <1>4, <1>5 DEF Sequence

\* The box the dam is counted from.
LastMainBox == view.boxes[view.links[Len(view.links)]]

\* A DefBox on its list, and the boxes that came after it.
OnViewTape ==
    \E t \in ViewTapes :
      /\ candles = t.candles
      /\ DOMAIN view = {"boxes", "def", "links"} /\ view.def = t.view.def /\ view.links = t.view.links
      /\ Sequence(view.boxes) /\ Len(t.view.boxes) <= Len(view.boxes)
      /\ \A k \in DOMAIN t.view.boxes : view.boxes[k] = t.view.boxes[k]

LEMMA ViewTapeFacts ==
    ASSUME OnViewTape
    PROVE  /\ Last \in Nat /\ DOMAIN candles = 0..Last
           /\ \A j \in 0..Last : C(j).open \in Int /\ C(j).close \in Nat
           /\ DOMAIN view.boxes = 1..Len(view.boxes) /\ Len(view.boxes) \in Nat
           /\ view.def \in DOMAIN view.boxes /\ view.links[1] \in DOMAIN view.boxes
           /\ view.links[Len(view.links)] \in DOMAIN view.boxes
           /\ DefBox.curve \in 0..Last /\ defAt \in Nat /\ defPrice \in Int
           /\ mainAt \in Nat /\ LastMainBox.at \in Nat
<1>1. PICK t \in ViewTapes :
        /\ candles = t.candles
        /\ view.def = t.view.def /\ view.links = t.view.links
        /\ Sequence(view.boxes) /\ Len(t.view.boxes) <= Len(view.boxes)
        /\ \A k \in DOMAIN t.view.boxes : view.boxes[k] = t.view.boxes[k]
  BY DEF OnViewTape
<1> DEFINE boxes == t.view.boxes
           Turn == [type : {"support", "resistance"}, at : Nat, curve : Nat, price : Int]
<1>2. /\ IsFiniteSet(DOMAIN candles) /\ DOMAIN candles = 0..Last
      /\ \A j \in 0..Last : candles[j].open \in Int /\ candles[j].close \in Nat
      /\ boxes \in Seq(Turn) /\ view.def \in DOMAIN boxes /\ view.links \in Seq(DOMAIN boxes)
      /\ view.links # << >> /\ boxes[view.def].curve \in 0..Last
  BY <1>1, ViewAssumption DEF Last
<1>3. Last \in Nat
  <2>1. Cardinality(DOMAIN candles) \in Nat
    BY <1>2, FS_CardinalityType
  <2>2. Last \in Int
    BY <2>1 DEF Last
  <2>3. \E x \in 0..Last : TRUE
    BY <1>2
  <2> QED BY <2>2, <2>3
<1> HIDE DEF Turn
<1>4. /\ Len(boxes) \in Nat /\ DOMAIN boxes = 1..Len(boxes)
      /\ \A k \in DOMAIN boxes : boxes[k] \in Turn
      /\ DOMAIN view.boxes = 1..Len(view.boxes) /\ Len(view.boxes) \in Nat
  <2>1. Len(boxes) \in Nat /\ boxes \in [1..Len(boxes) -> Turn]
    BY <1>2, LenProperties
  <2>2. DOMAIN view.boxes = 1..Len(view.boxes) /\ Len(view.boxes) \in Nat
    BY <1>1, LenProperties DEF Sequence
  <2> QED BY <2>1, <2>2
<1>5. \A k \in DOMAIN boxes : boxes[k].at \in Nat /\ boxes[k].price \in Int
  BY <1>4 DEF Turn
<1>6. view.links[1] \in DOMAIN boxes /\ view.links[Len(view.links)] \in DOMAIN boxes
  <2>1. Len(view.links) \in Nat /\ Len(view.links) # 0 /\ view.links \in [1..Len(view.links) -> DOMAIN boxes]
    BY <1>2, LenProperties, EmptySeq
  <2> QED BY <2>1
<1>7. \A k \in DOMAIN boxes : k \in DOMAIN view.boxes /\ view.boxes[k] = boxes[k]
  BY <1>1, <1>4
<1> QED BY <1>2, <1>3, <1>4, <1>5, <1>6, <1>7 DEF C, DefBox, defAt, defPrice, MainBox, mainAt, LastMainBox

\* What the conditions say of a candle depends on the list, the DefBox and its main boxes.
LEMMA ViewStays ==
    ASSUME candles' = candles, defAt' = defAt, defPrice' = defPrice, mainAt' = mainAt,
           LastMainBox' = LastMainBox, NEW i
    PROVE  /\ HasPullbackOrCorrection(i)' <=> HasPullbackOrCorrection(i)
           /\ HasLowTouchedMa20(i)' <=> HasLowTouchedMa20(i)
           /\ GetMultiDefboxDamCount(i)' = GetMultiDefboxDamCount(i)
           /\ IsMainboxCloserThanCurrentPosition(i)' <=> IsMainboxCloserThanCurrentPosition(i)
           /\ IsDefBoxBreakout(i)' <=> IsDefBoxBreakout(i)
           /\ IsDefBoxBreakdown(i)' <=> IsDefBoxBreakdown(i)
           /\ IsMa20NearMa60WithSimpleValidation(i)' <=> IsMa20NearMa60WithSimpleValidation(i)
           /\ IsMa20NearMa60WithComplexValidation(i)' <=> IsMa20NearMa60WithComplexValidation(i)
           /\ EvaluateMainBoxPositionBasedTiming(i)' <=> EvaluateMainBoxPositionBasedTiming(i)
           /\ EvaluateMainBoxPositionBasedTimingLess(i)' <=> EvaluateMainBoxPositionBasedTimingLess(i)
           /\ RefusedByPierce(i)' <=> RefusedByPierce(i)
<1>1. HasPullbackOrCorrection(i)' <=> HasPullbackOrCorrection(i)
  BY DEF HasPullbackOrCorrection, Bullish, C
<1>2. HasLowTouchedMa20(i)' <=> HasLowTouchedMa20(i)
  BY DEF HasLowTouchedMa20, C
<1>3. GetMultiDefboxDamCount(i)' = GetMultiDefboxDamCount(i)
  BY DEF GetMultiDefboxDamCount, LastMainBox, OverDef, C
<1>4. IsMainboxCloserThanCurrentPosition(i)' <=> IsMainboxCloserThanCurrentPosition(i)
  BY DEF IsMainboxCloserThanCurrentPosition, interMainDef
<1>5. (IsDefBoxBreakout(i)' <=> IsDefBoxBreakout(i)) /\ (IsDefBoxBreakdown(i)' <=> IsDefBoxBreakdown(i))
  BY DEF IsDefBoxBreakout, IsDefBoxBreakdown, C
<1>6. IsMa20NearMa60WithSimpleValidation(i)' <=> IsMa20NearMa60WithSimpleValidation(i)
  BY DEF IsMa20NearMa60WithSimpleValidation, Ma60Holds, SignificantGap, C
<1>7. IsMa20NearMa60WithComplexValidation(i)' <=> IsMa20NearMa60WithComplexValidation(i)
  BY DEF IsMa20NearMa60WithComplexValidation, Between, Ma60Holds, SignificantGap, C
<1>8. IsMaSpreadExcessive(i)' <=> IsMaSpreadExcessive(i)
  BY DEF IsMaSpreadExcessive, C
<1>9. CountHighBreakouts(i)' = CountHighBreakouts(i)
  <2>1. \A a, b : Pairs(a, b)' = Pairs(a, b)
    BY DEF Pairs, OverDef, C
  <2> QED BY <2>1 DEF CountHighBreakouts, C
<1>10. EvaluateMainBoxPositionBasedTiming(i)' <=> EvaluateMainBoxPositionBasedTiming(i)
  BY <1>2, <1>8, <1>9 DEF EvaluateMainBoxPositionBasedTiming
<1>11. EvaluateMainBoxPositionBasedTimingLess(i)' <=> EvaluateMainBoxPositionBasedTimingLess(i)
  BY <1>8 DEF EvaluateMainBoxPositionBasedTimingLess
<1>12. RefusedByPierce(i)' <=> RefusedByPierce(i)
  <2>1. \A a : Cross20(a, i)' = Cross20(a, i)
    BY DEF Cross20, Crossings, SideBefore, C
  <2>2. \A a, b : TurnsDownIn(a, b)' <=> TurnsDownIn(a, b)
    BY DEF TurnsDownIn, C
  <2>3. CrossMVCheck(i)' = CrossMVCheck(i)
    BY DEF CrossMVCheck, C
  <2>4. PiercingLimitBreakthrough(i)' <=> PiercingLimitBreakthrough(i)
    BY <2>2 DEF PiercingLimitBreakthrough, C
  <2>5. \A a, b : EvaluateUpwardMomentum(a, b, i)' <=> EvaluateUpwardMomentum(a, b, i)
    BY <2>3 DEF EvaluateUpwardMomentum, Bearish, Bullish, C
  <2>6. CountPricesBelowMa60(i)' = CountPricesBelowMa60(i)
    BY DEF CountPricesBelowMa60, C
  <2>7. NoGradientReversal(i)' <=> NoGradientReversal(i)
    BY <2>1, <2>2 DEF NoGradientReversal, C
  <2>8. ConsistentUpTrend(i)' <=> ConsistentUpTrend(i)
    BY <2>1, <2>3 DEF ConsistentUpTrend, Bearish, Bullish, C
  <2> QED BY <2>1, <2>4, <2>5, <2>6, <2>7, <2>8 DEF RefusedByPierce
<1> QED BY <1>1, <1>2, <1>3, <1>4, <1>5, <1>6, <1>7, <1>10, <1>11, <1>12

\* An entry holds what the conditions say of its candle.
Told(m, i) ==
    /\ m.HasPullbackOrCorrection <=> HasPullbackOrCorrection(i)
    /\ m.HasLowTouchedMa20 <=> HasLowTouchedMa20(i)
    /\ m.MultiDefDamCountMax2 <=> GetMultiDefboxDamCount(i) <= 2
    /\ m.IsMainboxCloserThanCurrentPosition <=> IsMainboxCloserThanCurrentPosition(i)
    /\ m.IsDefBoxBreakout <=> IsDefBoxBreakout(i)
    /\ m.IsDefBoxBreakdown <=> IsDefBoxBreakdown(i)
    /\ m.IsMa20NearMa60Simple <=> IsMa20NearMa60WithSimpleValidation(i)
    /\ m.IsMa20NearMa60Complex <=> IsMa20NearMa60WithComplexValidation(i)
    /\ m.MainBoxPositionBasedTiming <=> EvaluateMainBoxPositionBasedTiming(i)
    /\ m.MainBoxPositionBasedTimingLess <=> EvaluateMainBoxPositionBasedTimingLess(i)
    /\ "pierce" \in m.refusals <=> RefusedByPierce(i)
    /\ m.refusals \subseteq {"pierce", "support"}

LEMMA BuyConditionsTell ==
    ASSUME NEW i
    PROVE  Told(BuyConditions(i), i) /\ ("support" \in BuyConditions(i).refusals => RefusedBySupport(i))
BY DEF Told, BuyConditions, Refusals

LEMMA EntryTells ==
    /\ \A m, i : i = pos /\ m = BuyConditions(pos) => Told(m, i)
    /\ "support" \in BuyConditions(pos).refusals => RefusedBySupport(pos)
BY BuyConditionsTell

\* The entries tell of their candles; a box that came after the DefBox is in a candle.
ViewInv ==
    IF lab = "view"
    THEN /\ OnViewTape /\ Sequence(met)
         /\ pos \in DefBox.curve..Last /\ pos = DefBox.curve + Len(met)
         /\ \A k \in 1..Len(met) : \A m, i : m = met[k] /\ i = DefBox.curve + k => Told(m, i)
         /\ \A k \in DOMAIN view.boxes :
              \/ view.boxes[k].curve <= DefBox.curve
              \/ view.boxes[k].curve <= pos /\ C(view.boxes[k].curve).box.type # "none"
         /\ \A k \in DOMAIN view.boxes : view.boxes[k].curve \in Nat
         /\ met # << >> /\ "support" \in met[Len(met)].refusals => RefusedBySupport(pos)
    ELSE met = << >>

\* A box that is added leaves the DefBox and its main boxes where they are.
LEMMA ViewBoxesStay ==
    ASSUME OnViewTape, lab = "view", Next
    PROVE  /\ ViewStep /\ lab' = lab /\ OnViewTape'
           /\ DefBox' = DefBox /\ MainBox' = MainBox /\ LastMainBox' = LastMainBox
           /\ defAt' = defAt /\ defPrice' = defPrice /\ mainAt' = mainAt /\ Last' = Last
           /\ \/ view'.boxes = view.boxes
              \/ view'.boxes = Append(view.boxes, BoxOf(pos')) /\ C(pos').box.type # "none"
<1>1. ViewStep /\ lab' = lab
  BY DEF Next
<1>2. candles' = candles /\ Last' = Last
  BY <1>1 DEF ViewStep, Last
<1>3. PICK t \in ViewTapes :
        /\ candles = t.candles
        /\ DOMAIN view = {"boxes", "def", "links"} /\ view.def = t.view.def /\ view.links = t.view.links
        /\ Sequence(view.boxes) /\ Len(t.view.boxes) <= Len(view.boxes)
        /\ \A k \in DOMAIN t.view.boxes : view.boxes[k] = t.view.boxes[k]
  BY DEF OnViewTape
<1>4. /\ DOMAIN view.boxes = 1..Len(view.boxes) /\ Len(view.boxes) \in Nat
      /\ view.def \in DOMAIN view.boxes /\ view.links[1] \in DOMAIN view.boxes
      /\ view.links[Len(view.links)] \in DOMAIN view.boxes
  BY ViewTapeFacts
<1>5. /\ DOMAIN view' = {"boxes", "def", "links"} /\ view'.def = view.def /\ view'.links = view.links
      /\ \/ view'.boxes = view.boxes
         \/ view'.boxes = Append(view.boxes, BoxOf(pos')) /\ C(pos').box.type # "none"
  <2>1. CASE C(pos').box.type = "none"
    BY <1>1, <1>3, <2>1 DEF ViewStep
  <2>2. CASE C(pos').box.type # "none"
    <3>1. view' = [view EXCEPT !.boxes = Append(@, BoxOf(pos'))]
      BY <1>1, <2>2 DEF ViewStep
    <3> QED BY <1>3, <2>2, <3>1
  <2> QED BY <2>1, <2>2
<1>6. /\ Sequence(view'.boxes) /\ Len(view.boxes) <= Len(view'.boxes)
      /\ \A k \in DOMAIN view.boxes : view'.boxes[k] = view.boxes[k]
  <2>1. CASE view'.boxes = view.boxes
    BY <1>3, <1>4, <2>1
  <2>2. CASE view'.boxes = Append(view.boxes, BoxOf(pos'))
    <3>1. /\ Sequence(view'.boxes) /\ Len(view'.boxes) = Len(view.boxes) + 1
          /\ \A k \in 1..Len(view.boxes) : view'.boxes[k] = view.boxes[k]
      BY <1>3, <2>2, AppendAny
    <3> QED BY <1>4, <3>1
  <2> QED BY <1>5, <2>1, <2>2
<1>7. Len(t.view.boxes) \in Nat /\ DOMAIN t.view.boxes = 1..Len(t.view.boxes)
  <2> DEFINE Turn == [type : {"support", "resistance"}, at : Nat, curve : Nat, price : Int]
  <2>1. t.view.boxes \in Seq(Turn)
    BY ViewAssumption
  <2> HIDE DEF Turn
  <2> QED BY <2>1, LenProperties
<1>8. OnViewTape'
  <2>1. \A k \in DOMAIN t.view.boxes : view'.boxes[k] = t.view.boxes[k]
    BY <1>3, <1>4, <1>6, <1>7
  <2>2. Len(t.view.boxes) <= Len(view'.boxes)
    <3>1. Len(view'.boxes) \in Nat
      BY <1>6, LenProperties DEF Sequence
    <3> QED BY <1>3, <1>4, <1>6, <1>7, <3>1
  <2>3. Sequence(view.boxes)' 
    BY <1>6 DEF Sequence
  <2> QED BY <1>2, <1>3, <1>5, <1>6, <2>1, <2>2, <2>3 DEF OnViewTape
<1>9. DefBox' = DefBox /\ MainBox' = MainBox /\ LastMainBox' = LastMainBox
  BY <1>4, <1>5, <1>6 DEF DefBox, MainBox, LastMainBox
<1>10. defAt' = defAt /\ defPrice' = defPrice /\ mainAt' = mainAt
  BY <1>9 DEF defAt, defPrice, mainAt
<1> QED BY <1>1, <1>2, <1>5, <1>8, <1>9, <1>10

LEMMA ViewInvHolds == Spec => []ViewInv
<1>1. Init => ViewInv
  <2> SUFFICES ASSUME Init PROVE ViewInv
    OBVIOUS
  <2>1. CASE lab = "view"
    <3>1. PICK t \in ViewTapes : candles = t.candles /\ view = t.view
      BY <2>1 DEF Init, ViewInit
    <3> DEFINE Turn == [type : {"support", "resistance"}, at : Nat, curve : Nat, price : Int]
    <3>2. /\ view \in [boxes : Seq(Turn), def : DOMAIN view.boxes, links : Seq(DOMAIN view.boxes)]
          /\ \A k \in DOMAIN view.boxes : view.boxes[k].curve <= view.boxes[view.def].curve
      BY <3>1, ViewAssumption
    <3>3. view.boxes \in Seq(Turn) /\ DOMAIN view = {"boxes", "def", "links"}
      BY <3>2
    <3> HIDE DEF Turn
    <3>4. Len(view.boxes) \in Nat /\ DOMAIN view.boxes = 1..Len(view.boxes)
          /\ \A k \in DOMAIN view.boxes : view.boxes[k] \in Turn
      BY <3>3, LenProperties
    <3>5. Sequence(view.boxes) /\ OnViewTape
      BY <3>1, <3>3, <3>4 DEF Sequence, OnViewTape
    <3>6. pos = DefBox.curve /\ met = << >> /\ Len(met) = 0 /\ Sequence(met)
      BY <2>1, EmptySeq DEF Init, ViewInit, Sequence
    <3>7. DefBox.curve \in 0..Last /\ Last \in Nat
      BY <3>5, ViewTapeFacts
    <3>8. \A k \in DOMAIN view.boxes : view.boxes[k].curve \in Nat /\ view.boxes[k].curve <= DefBox.curve
      BY <3>2, <3>4 DEF Turn, DefBox
    <3>9. pos \in DefBox.curve..Last /\ pos = DefBox.curve + Len(met) /\ 1..Len(met) = {}
      BY <3>6, <3>7
    <3> QED BY <2>1, <3>5, <3>6, <3>8, <3>9 DEF ViewInv
  <2>2. CASE lab # "view"
    BY <2>2 DEF Init, NoView, ViewInv
  <2> QED BY <2>1, <2>2
<1>2. ViewInv /\ [Next]_vars => ViewInv'
  <2> SUFFICES ASSUME ViewInv, [Next]_vars PROVE ViewInv'
    OBVIOUS
  <2>1. CASE lab = "view" /\ Next
    <3>1. /\ OnViewTape /\ Sequence(met)
          /\ pos \in DefBox.curve..Last /\ pos = DefBox.curve + Len(met)
          /\ \A k \in 1..Len(met) : \A m, i : m = met[k] /\ i = DefBox.curve + k => Told(m, i)
          /\ \A k \in DOMAIN view.boxes :
               \/ view.boxes[k].curve <= DefBox.curve
               \/ view.boxes[k].curve <= pos /\ C(view.boxes[k].curve).box.type # "none"
          /\ \A k \in DOMAIN view.boxes : view.boxes[k].curve \in Nat
      BY <2>1 DEF ViewInv
    <3>2. /\ ViewStep /\ lab' = lab /\ OnViewTape'
          /\ DefBox' = DefBox /\ LastMainBox' = LastMainBox
          /\ defAt' = defAt /\ defPrice' = defPrice /\ mainAt' = mainAt /\ Last' = Last
          /\ \/ view'.boxes = view.boxes
             \/ view'.boxes = Append(view.boxes, BoxOf(pos')) /\ C(pos').box.type # "none"
      BY <2>1, <3>1, ViewBoxesStay
    <3>3. /\ candles' = candles /\ pos < Last /\ pos' = pos + 1
          /\ met' = Append(met, BuyConditions(pos)')
      BY <3>2 DEF ViewStep
    <3>4. /\ DefBox.curve \in Nat /\ Last \in Nat
          /\ Sequence(view.boxes) /\ DOMAIN view.boxes = 1..Len(view.boxes) /\ Len(view.boxes) \in Nat
      BY <3>1, ViewTapeFacts DEF OnViewTape
    <3>5. pos' \in DefBox.curve..Last
      BY <3>1, <3>3, <3>4
    <3>6. /\ Sequence(met') /\ Len(met) \in Nat /\ Len(met') = Len(met) + 1
          /\ \A k \in 1..Len(met) : met'[k] = met[k]
          /\ met'[Len(met) + 1] = BuyConditions(pos)'
      BY <3>1, <3>3, AppendAny
    <3>7. pos' = DefBox.curve + Len(met')
      <4>1. pos = DefBox.curve + Len(met)
        BY <3>1
      <4> QED BY <3>3, <3>4, <3>6, <4>1
    <3>8. (\A k \in 1..Len(met) : \A m, i : m = met[k] /\ i = DefBox.curve + k => Told(m, i))'
      <4>1. ASSUME NEW m, NEW i PROVE Told(m, i)' <=> Told(m, i)
        BY <3>2, <3>3, ViewStays DEF Told
      <4>2. (\A m, i : i = pos /\ m = BuyConditions(pos) => Told(m, i))'
        BY EntryTells, PTL
      <4>3. SUFFICES ASSUME NEW k \in 1..Len(met'), NEW m, NEW i,
                            m = met'[k], i = DefBox.curve + k
                     PROVE  Told(m, i)'
        BY <3>2
      <4>4. CASE k <= Len(met)
        <5>1. Told(m, i)
          BY <3>1, <3>6, <4>3, <4>4
        <5> QED BY <4>1, <5>1
      <4>5. CASE k = Len(met) + 1
        <5>1. m = BuyConditions(pos)' /\ i = pos'
          BY <3>1, <3>3, <3>4, <3>6, <4>3, <4>5
        <5> QED BY <4>2, <5>1
      <4> QED BY <3>6, <4>4, <4>5
    <3>9. "support" \in met'[Len(met')].refusals => RefusedBySupport(pos)'
      <4>1. ("support" \in BuyConditions(pos).refusals => RefusedBySupport(pos))'
        BY EntryTells, PTL
      <4> QED BY <3>6, <4>1
    <3>10. \A k \in DOMAIN view'.boxes :
             /\ view'.boxes[k].curve \in Nat
             /\ \/ view'.boxes[k].curve <= DefBox.curve
                \/ view'.boxes[k].curve <= pos' /\ C(view'.boxes[k].curve).box.type # "none"
      <4>1. \A k \in DOMAIN view.boxes :
             /\ view.boxes[k].curve \in Nat
             /\ \/ view.boxes[k].curve <= DefBox.curve
                \/ view.boxes[k].curve <= pos' /\ C(view.boxes[k].curve).box.type # "none"
        BY <3>1, <3>3, <3>4
      <4>2. CASE view'.boxes = view.boxes
        BY <4>1, <4>2
      <4>3. CASE view'.boxes = Append(view.boxes, BoxOf(pos')) /\ C(pos').box.type # "none"
        <5>1. DOMAIN view'.boxes = 1..(Len(view.boxes) + 1) /\ view'.boxes[Len(view.boxes) + 1] = BoxOf(pos')
              /\ \A k \in 1..Len(view.boxes) : view'.boxes[k] = view.boxes[k]
          BY <3>4, <4>3, AppendAny
        <5>2. BoxOf(pos').curve = pos' /\ pos' \in Nat
          BY <3>4, <3>5 DEF BoxOf
        <5> QED BY <3>4, <4>1, <4>3, <5>1, <5>2
      <4> QED BY <3>2, <4>2, <4>3
    <3>11. (\A k \in DOMAIN view.boxes :
              \/ view.boxes[k].curve <= DefBox.curve
              \/ view.boxes[k].curve <= pos /\ C(view.boxes[k].curve).box.type # "none")'
      BY <3>2, <3>3, <3>10 DEF C
    <3>12. Sequence(met)'
      BY <3>6 DEF Sequence
    <3> QED BY <2>1, <3>2, <3>5, <3>7, <3>8, <3>9, <3>10, <3>11, <3>12 DEF ViewInv
  <2>2. CASE lab # "view" /\ Next
    BY <2>2 DEF Next, ViewInv, viewVars
  <2>3. CASE UNCHANGED vars
    <3>1. UNCHANGED <<lab, candles, pos, view, met>>
      BY <2>3 DEF vars, viewVars
    <3>2. UNCHANGED <<defAt, defPrice, mainAt, DefBox, LastMainBox, Last>>
      BY <3>1 DEF defAt, defPrice, mainAt, DefBox, MainBox, LastMainBox, Last
    <3>3. ASSUME NEW m, NEW i PROVE Told(m, i)' <=> Told(m, i)
      BY <3>1, <3>2, ViewStays DEF Told
    <3>4. OnViewTape <=> OnViewTape'
      BY <3>1 DEF OnViewTape, Sequence
    <3>5. RefusedBySupport(pos)' <=> RefusedBySupport(pos)
      BY <3>1, <3>2 DEF RefusedBySupport, TurnsDownIn, C
    <3>6. Sequence(met)' <=> Sequence(met)
      BY <3>1 DEF Sequence
    <3>7. CASE lab = "view"
      BY <3>1, <3>2, <3>3, <3>4, <3>5, <3>6, <3>7 DEF ViewInv, C
    <3>8. CASE lab # "view"
      BY <3>1, <3>8 DEF ViewInv
    <3> QED BY <3>7, <3>8
  <2> QED BY <2>1, <2>2, <2>3
<1> QED BY <1>1, <1>2, PTL DEF Spec

LEMMA ViewFacts ==
    ASSUME ViewInv, lab = "view"
    PROVE  /\ OnViewTape /\ Now \in Nat /\ DOMAIN met = 1..Now /\ pos = DefBox.curve + Now
           /\ DefBox.curve \in Nat /\ Last \in Nat /\ pos <= Last /\ pos \in Nat
           /\ \A k \in 1..Now : /\ DayOf(k) \in Nat /\ DayOf(k) <= pos /\ DayOf(k) = DefBox.curve + k
                                /\ Told(met[k], DayOf(k))
           /\ \A j \in 0..Last : C(j).open \in Int /\ C(j).close \in Nat
           /\ defAt \in Nat /\ defPrice \in Int /\ mainAt \in Nat /\ LastMainBox.at \in Nat
<1>1. /\ OnViewTape /\ Sequence(met) /\ pos \in DefBox.curve..Last /\ pos = DefBox.curve + Len(met)
      /\ \A k \in 1..Len(met) : Told(met[k], DefBox.curve + k)
  BY DEF ViewInv
<1>2. /\ DefBox.curve \in Nat /\ Last \in Nat /\ \A j \in 0..Last : C(j).open \in Int /\ C(j).close \in Nat
      /\ defAt \in Nat /\ defPrice \in Int /\ mainAt \in Nat /\ LastMainBox.at \in Nat
  BY <1>1, ViewTapeFacts
<1>3. Len(met) \in Nat /\ DOMAIN met = 1..Len(met)
  BY <1>1, LenProperties DEF Sequence
<1>4. /\ Now \in Nat /\ DOMAIN met = 1..Now /\ pos = DefBox.curve + Now
  BY <1>1, <1>3 DEF Now
<1>5. \A k \in 1..Now : DayOf(k) = DefBox.curve + k /\ Told(met[k], DayOf(k))
  BY <1>1 DEF Now, DayOf
<1>6. pos <= Last /\ pos \in Nat
  BY <1>1, <1>2
<1>7. \A k \in 1..Now : DayOf(k) \in Nat /\ DayOf(k) <= pos
  BY <1>2, <1>4, <1>5
<1> QED BY <1>1, <1>2, <1>4, <1>5, <1>6, <1>7

\* A span that begins at one place grows with its end.
LEMMA CountGrows ==
    ASSUME NEW a \in Int, NEW i \in Int, NEW n \in Int, i <= n
    PROVE  /\ Cardinality({j \in a..i : OverDef(j)}) <= Cardinality({j \in a..n : OverDef(j)})
           /\ Cardinality({j \in a..i : C(j).open > defPrice}) <= Cardinality({j \in a..n : C(j).open > defPrice})
           /\ Cardinality({j \in a..i : OverDef(j)}) \in Nat /\ Cardinality({j \in a..n : OverDef(j)}) \in Nat
           /\ Cardinality({j \in a..i : C(j).open > defPrice}) \in Nat
           /\ Cardinality({j \in a..n : C(j).open > defPrice}) \in Nat
<1> DEFINE X == {j \in a..i : OverDef(j)}
           Y == {j \in a..n : OverDef(j)}
           U == {j \in a..i : C(j).open > defPrice}
           V == {j \in a..n : C(j).open > defPrice}
<1>1. IsFiniteSet(a..n)
  BY FS_Interval
<1>2. Y \in SUBSET (a..n) /\ V \in SUBSET (a..n) /\ X \in SUBSET Y /\ U \in SUBSET V
  OBVIOUS
<1> HIDE DEF X, Y, U, V
<1>3. IsFiniteSet(Y) /\ IsFiniteSet(V)
  BY <1>1, <1>2, FS_Subset
<1>4. /\ IsFiniteSet(X) /\ Cardinality(X) <= Cardinality(Y)
      /\ IsFiniteSet(U) /\ Cardinality(U) <= Cardinality(V)
  BY <1>2, <1>3, FS_Subset
<1>5. Cardinality(X) \in Nat /\ Cardinality(Y) \in Nat /\ Cardinality(U) \in Nat /\ Cardinality(V) \in Nat
  BY <1>3, <1>4, FS_CardinalityType
<1> QED BY <1>4, <1>5 DEF X, Y, U, V

LEMMA EvidenceAccumulatesAlways ==
    ASSUME ViewInv, lab = "view"
    PROVE  EvidenceAccumulates
<1>1. /\ Now \in Nat /\ DOMAIN met = 1..Now
      /\ \A k \in 1..Now : DayOf(k) \in Nat /\ DayOf(k) = DefBox.curve + k /\ Told(met[k], DayOf(k))
      /\ defAt \in Nat /\ mainAt \in Nat /\ LastMainBox.at \in Nat /\ DefBox.curve \in Nat
  BY ViewFacts
<1>2. SUFFICES ASSUME NEW k \in 1..Now
               PROVE  /\ met[k].HasPullbackOrCorrection => met[Now].HasPullbackOrCorrection
                      /\ met[k].HasLowTouchedMa20 => met[Now].HasLowTouchedMa20
                      /\ met[Now].MultiDefDamCountMax2 => met[k].MultiDefDamCountMax2
                      /\ met[Now].IsMainboxCloserThanCurrentPosition => met[k].IsMainboxCloserThanCurrentPosition
  BY <1>1 DEF EvidenceAccumulates
<1> DEFINE i == DayOf(k)
           n == DayOf(Now)
<1>3. Now \in 1..Now
  BY <1>1
<1>4. i \in Nat /\ n \in Nat /\ i <= n /\ Told(met[k], i) /\ Told(met[Now], n)
  BY <1>1, <1>3
<1> HIDE DEF i, n
<1>5. HasPullbackOrCorrection(i) => HasPullbackOrCorrection(n)
  BY <1>1, <1>4 DEF HasPullbackOrCorrection
<1>6. HasLowTouchedMa20(i) => HasLowTouchedMa20(n)
  BY <1>1, <1>4 DEF HasLowTouchedMa20
<1>7. GetMultiDefboxDamCount(i) <= GetMultiDefboxDamCount(n)
      /\ GetMultiDefboxDamCount(i) \in Nat /\ GetMultiDefboxDamCount(n) \in Nat
  <2> DEFINE a == LastMainBox.at
  <2>1. a \in Int /\ i - 1 \in Int /\ n - 1 \in Int /\ i - 1 <= n - 1
    BY <1>1, <1>4
  <2>2. GetMultiDefboxDamCount(i)
          = Cardinality({j \in a..(i - 1) : OverDef(j)}) + Cardinality({j \in a..(i - 1) : C(j).open > defPrice})
    BY DEF GetMultiDefboxDamCount, LastMainBox
  <2>3. GetMultiDefboxDamCount(n)
          = Cardinality({j \in a..(n - 1) : OverDef(j)}) + Cardinality({j \in a..(n - 1) : C(j).open > defPrice})
    BY DEF GetMultiDefboxDamCount, LastMainBox
  <2> HIDE DEF a
  <2> DEFINE closes(x) == Cardinality({j \in a..(x - 1) : OverDef(j)})
             opens(x) == Cardinality({j \in a..(x - 1) : C(j).open > defPrice})
  <2>4. /\ closes(i) <= closes(n) /\ opens(i) <= opens(n)
        /\ closes(i) \in Nat /\ closes(n) \in Nat /\ opens(i) \in Nat /\ opens(n) \in Nat
    BY <2>1, CountGrows
  <2>5. GetMultiDefboxDamCount(i) = closes(i) + opens(i) /\ GetMultiDefboxDamCount(n) = closes(n) + opens(n)
    BY <2>2, <2>3
  <2> HIDE DEF closes, opens
  <2> QED BY <2>4, <2>5
<1>8. IsMainboxCloserThanCurrentPosition(n) => IsMainboxCloserThanCurrentPosition(i)
  BY <1>1, <1>4 DEF IsMainboxCloserThanCurrentPosition, interMainDef
<1>9. GetMultiDefboxDamCount(n) <= 2 => GetMultiDefboxDamCount(i) <= 2
  BY <1>7
<1> QED BY <1>4, <1>5, <1>6, <1>8, <1>9 DEF Told

\* Between two days on either side of a line there is one that crosses it.
LEMMA CrossedBetween ==
    ASSUME NEW F, NEW a \in Nat, NEW b \in Nat, a < b, ~F[a], F[b]
    PROVE  \E m \in (a + 1)..b : F[m] /\ ~F[m - 1]
<1> DEFINE S == {m \in (a + 1)..b : F[m]}
<1>1. S \subseteq Nat /\ b \in S
  OBVIOUS
<1> HIDE DEF S
<1>2. PICK m \in S : \A x \in S : m <= x
  BY <1>1, LeastNumber
<1>3. m \in (a + 1)..b /\ F[m]
  BY <1>2 DEF S
<1>4. m - 1 = a \/ m - 1 \in (a + 1)..b
  BY <1>3
<1>5. ~(m <= m - 1)
  BY <1>3
<1>6. ~F[m - 1]
  BY <1>2, <1>4, <1>5 DEF S
<1> QED BY <1>3, <1>6

LEMMA CrossingsSeenAlways ==
    ASSUME ViewInv, lab = "view"
    PROVE  CrossingsSeen
<1>1. /\ Now \in Nat /\ DOMAIN met = 1..Now /\ DefBox.curve \in Nat /\ Last \in Nat /\ pos \in Nat
      /\ \A k \in 1..Now : /\ DayOf(k) \in Nat /\ DayOf(k) = DefBox.curve + k /\ Told(met[k], DayOf(k))
                           /\ DayOf(k) <= pos
      /\ pos <= Last /\ defPrice \in Int
      /\ \A j \in 0..Last : C(j).close \in Nat
  BY ViewFacts
<1>2. SUFFICES ASSUME NEW k \in 1..Now, k < Now
               PROVE  /\ C(DayOf(k)).close < defPrice /\ C(DayOf(Now)).close >= defPrice
                           => \E m \in (k + 1)..Now : met[m].IsDefBoxBreakout
                      /\ C(DayOf(k)).close >= defPrice /\ C(DayOf(Now)).close < defPrice
                           => \E m \in (k + 1)..Now : met[m].IsDefBoxBreakdown
  BY <1>1 DEF CrossingsSeen
<1>3. \A m \in (k + 1)..Now : /\ m \in 1..Now /\ m - 1 \in 1..Now /\ DayOf(m) > 0 /\ DayOf(m) - 1 = DayOf(m - 1)
                              /\ C(DayOf(m)).close \in Nat /\ C(DayOf(m - 1)).close \in Nat
  <2> TAKE m \in (k + 1)..Now
  <2>1. m \in 1..Now /\ m - 1 \in 1..Now
    BY <1>1
  <2>2. DayOf(m) = DefBox.curve + m /\ DayOf(m - 1) = DefBox.curve + (m - 1)
    BY <1>1, <2>1
  <2>3. DayOf(m) \in 0..Last /\ DayOf(m - 1) \in 0..Last
    BY <1>1, <2>1
  <2>4. m \in Int /\ m >= 2
    BY <1>1
  <2>5. DayOf(m) > 0 /\ DayOf(m) - 1 = DayOf(m - 1)
    <3>1. DefBox.curve \in Nat
      BY <1>1
    <3> QED BY <2>2, <2>4, <3>1
  <2> QED BY <1>1, <2>1, <2>3, <2>5
<1>4. ASSUME C(DayOf(k)).close < defPrice, C(DayOf(Now)).close >= defPrice
      PROVE  \E m \in (k + 1)..Now : met[m].IsDefBoxBreakout
  <2> DEFINE F == [m \in k..Now |-> C(DayOf(m)).close >= defPrice]
  <2>1. \A m \in k..Now : F[m] <=> C(DayOf(m)).close >= defPrice
    OBVIOUS
  <2> HIDE DEF F
  <2>2. ~F[k] /\ F[Now]
    <3>1. C(DayOf(k)).close \in Nat
      BY <1>1
    <3> QED BY <1>1, <1>2, <1>4, <2>1, <3>1
  <2>3. PICK m \in (k + 1)..Now : F[m] /\ ~F[m - 1]
    BY <1>1, <1>2, <2>2, CrossedBetween
  <2>4. m \in k..Now /\ m - 1 \in k..Now
    BY <1>1
  <2>5. C(DayOf(m)).close >= defPrice /\ C(DayOf(m) - 1).close < defPrice
    BY <1>1, <1>3, <2>1, <2>3, <2>4
  <2>6. IsDefBoxBreakout(DayOf(m))
    BY <1>3, <2>5 DEF IsDefBoxBreakout
  <2> QED BY <1>1, <1>3, <2>6 DEF Told
<1>5. ASSUME C(DayOf(k)).close >= defPrice, C(DayOf(Now)).close < defPrice
      PROVE  \E m \in (k + 1)..Now : met[m].IsDefBoxBreakdown
  <2> DEFINE F == [m \in k..Now |-> C(DayOf(m)).close < defPrice]
  <2>1. \A m \in k..Now : F[m] <=> C(DayOf(m)).close < defPrice
    OBVIOUS
  <2> HIDE DEF F
  <2>2. ~F[k] /\ F[Now]
    <3>1. C(DayOf(k)).close \in Nat
      BY <1>1
    <3> QED BY <1>1, <1>2, <1>5, <2>1, <3>1
  <2>3. PICK m \in (k + 1)..Now : F[m] /\ ~F[m - 1]
    BY <1>1, <1>2, <2>2, CrossedBetween
  <2>4. m \in k..Now /\ m - 1 \in k..Now
    BY <1>1
  <2>5. C(DayOf(m)).close < defPrice /\ C(DayOf(m) - 1).close >= defPrice
    BY <1>1, <1>3, <2>1, <2>3, <2>4
  <2>6. defPrice # 0
    BY <1>1, <1>3, <2>5
  <2>7. IsDefBoxBreakdown(DayOf(m))
    BY <1>3, <2>5, <2>6 DEF IsDefBoxBreakdown
  <2> QED BY <1>1, <1>3, <2>7 DEF Told
<1> QED BY <1>4, <1>5

LEMMA StrictFormsAreStricterAlways ==
    ASSUME ViewInv, lab = "view"
    PROVE  StrictFormsAreStricter
<1> SUFFICES ASSUME met # << >> PROVE StrictFormsAreStricter
  BY DEF StrictFormsAreStricter
<1> DEFINE i == DayOf(Now)
<1>1. i \in Nat /\ Told(met[Now], i) /\ mainAt \in Nat
  <2>1. Now # 0
    BY EmptySeq DEF ViewInv, Sequence, Now
  <2>2. Now \in Nat /\ \A k \in 1..Now : DayOf(k) \in Nat /\ Told(met[k], DayOf(k))
    BY ViewFacts
  <2>3. Now \in 1..Now
    BY <2>1, <2>2
  <2> QED BY <2>2, <2>3, ViewFacts
<1> HIDE DEF i
<1>2. IsMa20NearMa60WithSimpleValidation(i) => IsMa20NearMa60WithComplexValidation(i)
  BY DEF IsMa20NearMa60WithSimpleValidation, IsMa20NearMa60WithComplexValidation
<1>3. EvaluateMainBoxPositionBasedTimingLess(i) /\ ~EvaluateMainBoxPositionBasedTiming(i)
        => i - mainAt <= ViewSpans.near /\ CountHighBreakouts(i) # 0
  BY DEF EvaluateMainBoxPositionBasedTimingLess, EvaluateMainBoxPositionBasedTiming
<1>4. CountHighBreakouts(i) \in Nat
  <2> DEFINE back == mainAt - ViewSpans.first
             first == HighestOf({0, back})
             pairs == {j \in first..(i - 1) : j > 0 /\ OverDef(j) /\ OverDef(j - 1)}
             highs == {j \in mainAt..(i - 1) : C(j).high * 100 > 102 * defPrice}
  <2>1. back \in Int
    BY <1>1, ViewAssumption
  <2>2. first \in Int
    <3> HIDE DEF back
    <3>1. first \in {0, back}
      BY <2>1, HighestOfTwo
    <3> HIDE DEF first
    <3> QED BY <2>1, <3>1
  <2>3. IsFiniteSet(first..(i - 1)) /\ IsFiniteSet(mainAt..(i - 1))
    <3>1. i - 1 \in Int /\ mainAt \in Int
      BY <1>1
    <3> HIDE DEF first
    <3> QED BY <2>2, <3>1, FS_Interval
  <2>4. pairs \in SUBSET (first..(i - 1)) /\ highs \in SUBSET (mainAt..(i - 1))
    OBVIOUS
  <2>5. CountHighBreakouts(i) = Cardinality(pairs) + Cardinality(highs)
    BY DEF CountHighBreakouts, Pairs
  <2> HIDE DEF pairs, highs, first
  <2>6. Cardinality(pairs) \in Nat /\ Cardinality(highs) \in Nat
    BY <2>3, <2>4, FS_Subset, FS_CardinalityType
  <2> QED BY <2>5, <2>6
<1>5. CountHighBreakouts(i) # 0 => CountHighBreakouts(i) > 0
  BY <1>4
<1> QED BY <1>1, <1>2, <1>3, <1>5 DEF StrictFormsAreStricter, Told, i

\* The first crossing of a span stays its first when the span grows.
LEMMA FirstCrossing ==
    ASSUME NEW a \in Nat, NEW i \in Nat, NEW n \in Nat, i <= n
    PROVE  /\ FirstOf(Cross20(a, i)) \in Nat
           /\ FirstOf(Cross20(a, i)) > 0 => FirstOf(Cross20(a, n)) = FirstOf(Cross20(a, i))
<1> DEFINE A == Cross20(a, i)
           B == Cross20(a, n)
<1>1. A \subseteq a..i /\ B \subseteq a..n /\ A \subseteq B /\ \A x \in B : x <= i => x \in A
  BY DEF Cross20, Crossings
<1> HIDE DEF A, B
<1>2. CASE A = {}
  BY <1>2 DEF FirstOf, A
<1>3. CASE A # {}
  <2> DEFINE m == LowestOf(A)
  <2>1. a \in Int /\ A \subseteq Int /\ \A x \in A : a <= x
    BY <1>1
  <2>2. m \in A /\ \A x \in A : m <= x
    BY <1>3, <2>1, LowestIs
  <2> HIDE DEF m
  <2>3. m \in Nat /\ m \in B /\ B \subseteq Int
    BY <1>1, <2>2
  <2>4. \A x \in B : m <= x
    <3> TAKE x \in B
    <3>1. x \in Int /\ m \in Int /\ m <= i
      BY <1>1, <2>2
    <3>2. CASE x <= i
      BY <1>1, <2>2, <3>2
    <3>3. CASE ~(x <= i)
      BY <3>1, <3>3
    <3> QED BY <3>2, <3>3
  <2>5. LowestOf(B) = m
    BY <2>3, <2>4, LowestFound
  <2>6. FirstOf(A) = m /\ FirstOf(B) = m
    BY <1>3, <2>3, <2>5 DEF FirstOf, m
  <2> QED BY <2>3, <2>6 DEF A, B
<1> QED BY <1>2, <1>3

\* A gradient that turns down late turns down in every longer span.
LEMMA TurnsDownSooner ==
    ASSUME NEW a \in Int, NEW b \in Int, a <= b, NEW n \in Int, TurnsDownIn(b, n)
    PROVE  TurnsDownIn(a, n)
<1>1. PICK j \in (b + 1)..n : C(j - 1).grad >= 0 /\ C(j).grad < 0
  BY DEF TurnsDownIn
<1>2. j \in (a + 1)..n
  OBVIOUS
<1> QED BY <1>1, <1>2 DEF TurnsDownIn

LEMMA RefusalLiftedAlways ==
    ASSUME ViewInv, lab = "view"
    PROVE  RefusalLifted
<1>1. /\ Now \in Nat /\ DOMAIN met = 1..Now /\ pos = DefBox.curve + Now /\ pos \in Nat
      /\ DefBox.curve \in Nat /\ defAt \in Nat
      /\ \A k \in 1..Now : /\ DayOf(k) \in Nat /\ DayOf(k) = DefBox.curve + k /\ DayOf(k) <= pos
                           /\ Told(met[k], DayOf(k))
  BY ViewFacts
<1> SUFFICES ASSUME NEW k \in 1..Now, met[k].refusals \cap met[Now].refusals # {}
             PROVE  LET since == HighestOf({DayOf(k), FirstOf(Cross20(defAt, DayOf(k))) + 1})
                    IN  \/ ~TurnsDownIn(since, DayOf(Now))
                        \/ \E j \in (DayOf(k) + 1)..DayOf(Now) : C(j).box.type # "none"
  BY <1>1 DEF RefusalLifted
<1> DEFINE i == DayOf(k)
           first == FirstOf(Cross20(defAt, i))
           since == HighestOf({i, first + 1})
<1>2. Now \in 1..Now /\ k \in Nat
  BY <1>1
<1>3. DayOf(Now) = pos /\ Told(met[Now], pos)
  BY <1>1, <1>2
<1>4. i \in Nat /\ i <= pos /\ i = DefBox.curve + k /\ Told(met[k], i)
  BY <1>1
<1> HIDE DEF i
<1>5. first \in Nat /\ (first > 0 => FirstOf(Cross20(defAt, pos)) = first)
  BY <1>1, <1>4, FirstCrossing
<1> HIDE DEF first
<1>6. since \in Int /\ i <= since /\ first + 1 <= since
  BY <1>4, <1>5, HighestOfTwo
<1> HIDE DEF since
<1>7. "pierce" \in met[k].refusals \cap met[Now].refusals \/ "support" \in met[Now].refusals
  BY <1>4 DEF Told
<1>8. CASE "pierce" \in met[k].refusals \cap met[Now].refusals
  <2>1. RefusedByPierce(i) /\ RefusedByPierce(pos)
    BY <1>3, <1>4, <1>8 DEF Told
  <2>2. first > 0
    BY <2>1 DEF RefusedByPierce, NoGradientReversal, first
  <2> DEFINE start == IF C(first).grad > 0 THEN first + 1 ELSE first
  <2>3. ~TurnsDownIn(start, pos)
    BY <1>5, <2>1, <2>2 DEF RefusedByPierce, NoGradientReversal
  <2>4. start \in Int /\ start <= since /\ pos \in Int
    BY <1>1, <1>5, <1>6
  <2> HIDE DEF start
  <2>5. ~TurnsDownIn(since, pos)
    BY <1>6, <2>3, <2>4, TurnsDownSooner
  <2> QED BY <1>3, <2>5 DEF since, first, i
<1>9. CASE "support" \in met[Now].refusals
  <2> DEFINE last == Len(view.boxes)
             curve == view.boxes[last].curve
  <2>1. met # << >> /\ Now = Len(met)
    BY <1>1, <1>2, EmptySeq DEF Now
  <2>2. RefusedBySupport(pos)
    BY <1>9, <2>1 DEF ViewInv
  <2>3. last \in DOMAIN view.boxes
    <3>1. OnViewTape
      BY ViewFacts
    <3>2. DOMAIN view.boxes = 1..last /\ last \in Nat /\ view.def \in DOMAIN view.boxes
      BY <3>1, ViewTapeFacts
    <3> QED BY <3>2
  <2>4. /\ curve \in Nat
        /\ curve <= DefBox.curve \/ (curve <= pos /\ C(curve).box.type # "none")
    BY <2>3 DEF ViewInv
  <2>5. ~TurnsDownIn(curve - 1, pos)
    BY <2>2 DEF RefusedBySupport
  <2> HIDE DEF curve
  <2>6. CASE curve > i
    <3>1. ~(curve <= DefBox.curve) /\ curve \in (i + 1)..pos
      BY <1>1, <1>2, <1>4, <2>4, <2>6
    <3> QED BY <1>3, <2>4, <3>1 DEF i
  <2>7. CASE ~(curve > i)
    <3> DEFINE before == curve - 1
    <3>1. before \in Int /\ before <= since /\ ~TurnsDownIn(before, pos) /\ pos \in Int
      BY <1>1, <1>4, <1>6, <2>4, <2>5, <2>7
    <3> HIDE DEF before
    <3>2. ~TurnsDownIn(since, pos)
      BY <1>6, <3>1, TurnsDownSooner
    <3> QED BY <1>3, <3>2 DEF since, first, i
  <2> QED BY <2>6, <2>7
<1> QED BY <1>7, <1>8, <1>9

\* Along one DefBox evidence accumulates, the closes do not change sides unseen, the strict forms
\* are the stricter ones but near the main box, and a refusal is lifted when the gradient turns
\* (cond/buy_conditions.go:9, buy_conditions_extra.go:20, 90, 227, buy_oscillator.go:230, 285).
THEOREM ViewIsSound == Spec => []ViewSound
<1>1. ViewInv => ViewSound
  <2> SUFFICES ASSUME ViewInv PROVE ViewSound
    OBVIOUS
  <2>1. CASE lab = "view"
    BY <2>1, EvidenceAccumulatesAlways, CrossingsSeenAlways, StrictFormsAreStricterAlways,
       RefusalLiftedAlways DEF ViewSound
  <2>2. CASE lab # "view"
    <3>1. met = << >> /\ DOMAIN met = {}
      BY <2>2 DEF ViewInv
    <3> QED BY <3>1 DEF ViewSound, EvidenceAccumulates, CrossingsSeen, StrictFormsAreStricter, RefusalLifted
  <2> QED BY <2>1, <2>2
<1> QED BY <1>1, ViewInvHolds, PTL

-----------------------------------------------------------------------------
(* The triggers on events. *)

OnEventTape == \E t \in EventTapes : candles = t.candles /\ defbox = t.defbox

LEMMA EventTapeFacts ==
    ASSUME OnEventTape
    PROVE  /\ Last \in Nat /\ defbox.price \in Int
           /\ \A j \in 0..Last : /\ C(j).close \in Int /\ C(j).low \in Int /\ C(j).high \in Int
                                 /\ C(j).lower \in Int /\ C(j).percent \in Int
                                 /\ C(j).ma60 \in Int /\ C(j).ma120 \in Int
<1>1. PICK t \in EventTapes : candles = t.candles /\ defbox = t.defbox
  BY DEF OnEventTape
<1>2. /\ IsFiniteSet(DOMAIN candles) /\ DOMAIN candles = 0..Last /\ DOMAIN candles # {}
      /\ \A j \in 0..Last : \A f \in {"close", "low", "high", "lower", "percent", "ma60", "ma120"} :
           candles[j][f] \in Int
      /\ defbox.price \in Int
  BY <1>1, EventAssumption DEF Last
<1>3. Last \in Nat
  <2>1. Cardinality(DOMAIN candles) \in Nat
    BY <1>2, FS_CardinalityType
  <2>2. Last \in Int
    BY <2>1 DEF Last
  <2> QED BY <1>2, <2>2
<1> QED BY <1>2, <1>3 DEF C

\* The events of a candle, one by one.
Happens(n, i) ==
    \/ n = "BBLowerBreakdown" /\ IsBBLowerBreakdown(i)
    \/ n = "BBLowerReentry" /\ IsBBLowerReentry(i)
    \/ n = "BBSqueezeBreakout" /\ IsBBSqueezeBreakout(i)
    \/ n = "Stg6PullbackTouch" /\ Becomes(IsStg6State, i)
    \/ n = "Stg11MA60Breakdown" /\ IsStg11Breakdown(i)
    \/ n = "Stg11MA60FirstTouch" /\ IsStg11Touch(i)
    \/ n = "Stg9ApexPerch" /\ Becomes(IsStg9State, i)
    \/ n = "Stg7GCAccel" /\ Becomes(IsStg7State, i)
    \/ n = "Stg14Oversold" /\ IsStg14Oversold(i)
    \/ n = "DefBoxApproach" /\ IsDefBoxApproach(i)

EventNames == {"BBLowerBreakdown", "BBLowerReentry", "BBSqueezeBreakout", "Stg6PullbackTouch",
               "Stg11MA60Breakdown", "Stg11MA60FirstTouch", "Stg9ApexPerch", "Stg7GCAccel",
               "Stg14Oversold", "DefBoxApproach"}

LEMMA HappeningIs ==
    \A k : Happening(k) = {n \in EventNames : Happens(n, k)}
<1> SUFFICES ASSUME NEW k PROVE Happening(k) = {n \in EventNames : Happens(n, k)}
  OBVIOUS
<1>1. ASSUME NEW n PROVE n \in Happening(k) <=> n \in EventNames /\ Happens(n, k)
  BY DEF Happening, Happens, EventNames
<1>2. \A n : n \in Happening(k) => n \in EventNames
  BY <1>1
<1> QED BY <1>1, <1>2 DEF Happening, EventNames

\* What happens at a candle depends on the list and its DefBox.
LEMMA EventsStay ==
    ASSUME candles' = candles, defbox' = defbox, NEW i
    PROVE  /\ Happening(i)' = Happening(i)
           /\ FindDoubleBump(i)' = FindDoubleBump(i)
           /\ IsFirstPierce120(i)' <=> IsFirstPierce120(i)
<1>1. \A j : C(j)' = C(j) /\ (Bullish(j)' <=> Bullish(j)) /\ (Aligned(j)' <=> Aligned(j))
             /\ (BothValid(j)' <=> BothValid(j))
  BY DEF C, Bullish, Aligned, BothValid, Valid
<1>2. \A f, R : Top(f, R)' = Top(f, R) /\ Bottom(f, R)' = Bottom(f, R)
  BY <1>1 DEF Top, Bottom
<1>3. \A f, a, b : Total(f, a, b)' = Total(f, a, b)
  BY <1>1 DEF Total
<1>4. /\ IsBBLowerBreakdown(i)' <=> IsBBLowerBreakdown(i)
      /\ IsBBLowerReentry(i)' <=> IsBBLowerReentry(i)
      /\ IsBBSqueezeBreakout(i)' <=> IsBBSqueezeBreakout(i)
  BY <1>1 DEF IsBBLowerBreakdown, IsBBLowerReentry, IsBBSqueezeBreakout, HasRecentSqueeze
<1>5. \A j : IsStg6State(j)' <=> IsStg6State(j)
  BY <1>1, <1>2 DEF IsStg6State
<1>6. IsFirstAt60(i)' <=> IsFirstAt60(i)
  BY <1>1 DEF IsFirstAt60
<1>7. \A j : IsStg9State(j)' <=> IsStg9State(j)
  BY <1>1, <1>2 DEF IsStg9State
<1>8. \A j : IsStg7State(j)' <=> IsStg7State(j)
  BY <1>1 DEF IsStg7State
<1>9. IsStg14Oversold(i)' <=> IsStg14Oversold(i)
  BY <1>1 DEF IsStg14Oversold
<1>10. IsDefBoxApproach(i)' <=> IsDefBoxApproach(i)
  BY <1>1 DEF IsDefBoxApproach
<1>11. (IsStg11Touch(i)' <=> IsStg11Touch(i)) /\ (IsStg11Breakdown(i)' <=> IsStg11Breakdown(i))
  BY <1>1, <1>6 DEF IsStg11Touch, IsStg11Breakdown
<1>12. Happening(i)' = Happening(i)
  <2>1. /\ Becomes(IsStg6State, i)' <=> Becomes(IsStg6State, i)
        /\ Becomes(IsStg9State, i)' <=> Becomes(IsStg9State, i)
        /\ Becomes(IsStg7State, i)' <=> Becomes(IsStg7State, i)
    BY <1>5, <1>7, <1>8 DEF Becomes
  <2>2. (\A k : Happening(k) = {n \in EventNames : Happens(n, k)})'
    BY HappeningIs, PTL
  <2>3. \A n : Happens(n, i)' <=> Happens(n, i)
    BY <1>4, <1>9, <1>10, <1>11, <2>1 DEF Happens
  <2> QED BY <2>2, <2>3, HappeningIs
<1>13. FindDoubleBump(i)' = FindDoubleBump(i)
  BY <1>1, <1>2, <1>3 DEF FindDoubleBump
<1>14. IsFirstPierce120(i)' <=> IsFirstPierce120(i)
  BY <1>1 DEF IsFirstPierce120
<1> QED BY <1>12, <1>13, <1>14

\* An event is over on the next candle.
LEMMA NotTwiceRunning ==
    ASSUME OnEventTape, NEW i \in 0..Last, i + 1 \in 0..Last,
           NEW n \in Happening(i), n # "Stg14Oversold"
    PROVE  n \notin Happening(i + 1)
<1>1. /\ C(i).close \in Int /\ C(i).low \in Int /\ C(i).lower \in Int /\ C(i).percent \in Int /\ C(i).ma60 \in Int
      /\ defbox.price \in Int /\ Last \in Nat /\ i + 1 - 1 = i /\ i \in Int
  BY EventTapeFacts
<1>2. Happens(n, i) /\ (n \in Happening(i + 1) => Happens(n, i + 1)) /\ n \in EventNames
  BY HappeningIs
<1>3. CASE n = "BBLowerBreakdown"
  BY <1>1, <1>3, <1>2 DEF Happens, IsBBLowerBreakdown
<1>4. CASE n = "BBLowerReentry"
  BY <1>1, <1>4, <1>2 DEF Happens, IsBBLowerReentry
<1>5. CASE n = "BBSqueezeBreakout"
  BY <1>1, <1>5, <1>2, EventAssumption DEF Happens, IsBBSqueezeBreakout
<1>6. CASE n = "Stg6PullbackTouch"
  BY <1>1, <1>6, <1>2 DEF Happens, Becomes
<1>7. CASE n = "Stg11MA60Breakdown"
  BY <1>1, <1>7, <1>2 DEF Happens, IsStg11Breakdown
<1>8. CASE n = "Stg11MA60FirstTouch"
  <2>1. IsStg11Touch(i)
    BY <1>8, <1>2 DEF Happens
  <2>2. C(i).low <= C(i).ma60
    BY <2>1 DEF IsStg11Touch
  <2>3. ~(C(i).low > C(i).ma60)
    BY <1>1, <2>2
  <2>4. ~IsFirstAt60(i + 1)
    <3>1. \A x : IsFirstAt60(x) => \A j \in (x - Spans.aligned11)..(x - 1) : C(j).low > C(j).ma60
      BY DEF IsFirstAt60
    <3> DEFINE x == i + 1
    <3>2. i \in (x - Spans.aligned11)..(x - 1)
      BY <1>1, EventAssumption
    <3> HIDE DEF x
    <3>3. ~IsFirstAt60(x)
      BY <2>3, <3>1, <3>2
    <3> QED BY <3>3 DEF x
  <2> QED BY <1>8, <1>2, <2>4 DEF Happens, IsStg11Touch
<1>9. CASE n = "Stg9ApexPerch"
  BY <1>1, <1>9, <1>2 DEF Happens, Becomes
<1>10. CASE n = "Stg7GCAccel"
  BY <1>1, <1>10, <1>2 DEF Happens, Becomes
<1>11. CASE n = "DefBoxApproach"
  BY <1>1, <1>11, <1>2 DEF Happens, IsDefBoxApproach
<1> QED BY <1>3, <1>4, <1>5, <1>6, <1>7, <1>8, <1>9, <1>10, <1>11, <1>2 DEF EventNames

\* An event of a trigger, and what a bump says of the candles up to i.
Event(n, i) == [name |-> n, pos |-> i]
Bumps == {"DoubleBumpRetest", "DoubleBumpBreakout2"}
Over(b, i) == {j \in (b + 1)..i : C(j).close > C(b - 1).high}

\* What waits with the bump found at b, at candle i.
BumpWaits(x, i) ==
    /\ x = [pos |-> x.pos, closes |-> x.closes, state |-> x.state]
    /\ x.pos \in 1..i /\ x.state \in FindDoubleBump(x.pos)
    /\ \A j \in (x.pos + 1)..i : FindDoubleBump(j) = {}
    /\ x.closes = Cardinality(Over(x.pos, i))

\* At f the last bump before it has been passed once at most.
Spent(f) ==
    LET arm == HighestOf({j \in 1..(f - 1) : FindDoubleBump(j) # {}})
    IN  Cardinality(Over(arm, f)) <= 1

\* The events are those of the candles that have been seen; a waiting bump has counted its closes.
EventInv ==
    IF lab = "events"
    THEN /\ OnEventTape /\ pos \in 0..Last
         /\ \A k \in 1..pos : \A n \in Happening(k) : Event(n, k) \in events
         /\ \A e \in events : /\ e = Event(e.name, e.pos) /\ e.pos \in 1..pos
                              /\ e.name \in ArmedNames \/ e.name \in Happening(e.pos)
         /\ \A n \in Bumps : \A x \in waiting[n] : BumpWaits(x, pos)
         /\ \A e \in events : e.name \in Bumps => Spent(e.pos)
    ELSE events = {}

LEMMA BumpFound ==
    ASSUME NEW i, NEW s \in FindDoubleBump(i)
    PROVE  s.high = C(i - 1).high
BY DEF FindDoubleBump

LEMMA FinitelyOver ==
    ASSUME NEW b \in Int, NEW i \in Int
    PROVE  IsFiniteSet(Over(b, i)) /\ Cardinality(Over(b, i)) \in Nat
<1>1. IsFiniteSet((b + 1)..i)
  <2>1. b + 1 \in Int
    OBVIOUS
  <2> QED BY <2>1, FS_Interval
<1>2. Over(b, i) \in SUBSET ((b + 1)..i)
  BY DEF Over
<1> QED BY <1>1, <1>2, FS_Subset, FS_CardinalityType

\* A bump that waits counts one close a day.
LEMMA BumpCounts ==
    ASSUME NEW x, NEW i \in Nat, BumpWaits(x, i), FindDoubleBump(i + 1) = {}, NEW n \in Bumps
    PROVE  BumpWaits(Counted(x, n, i + 1), i + 1) /\ Counted(x, n, i + 1).pos = x.pos
<1> DEFINE b == x.pos
           y == Counted(x, n, i + 1)
           over == C(i + 1).close > C(b - 1).high
<1>1. /\ x = [pos |-> x.pos, closes |-> x.closes, state |-> x.state]
      /\ b \in 1..i /\ x.state \in FindDoubleBump(b)
      /\ \A j \in (b + 1)..i : FindDoubleBump(j) = {}
      /\ x.closes = Cardinality(Over(b, i))
  BY DEF BumpWaits
<1>2. x.state.high = C(b - 1).high
  BY <1>1, BumpFound
<1>3. y = IF over THEN [x EXCEPT !.closes = @ + 1] ELSE x
  <2>1. n # "Stg2Inverted120Retreat" /\ i + 1 > b
    BY <1>1 DEF Bumps
  <2> QED BY <1>2, <2>1 DEF Counted
<1>4. /\ y = [pos |-> y.pos, closes |-> y.closes, state |-> y.state] /\ y.pos = b /\ y.state = x.state
      /\ y.closes = IF over THEN x.closes + 1 ELSE x.closes
  <2> HIDE DEF y, over
  <2>1. CASE over
    <3>1. y = [pos |-> x.pos, closes |-> x.closes + 1, state |-> x.state]
      BY <1>1, <1>3, <2>1
    <3> QED BY <2>1, <3>1
  <2>2. CASE ~over
    BY <1>1, <1>3, <2>2
  <2> QED BY <2>1, <2>2
<1>5. IsFiniteSet(Over(b, i)) /\ Cardinality(Over(b, i)) \in Nat
  BY <1>1, FinitelyOver
<1>6. Cardinality(Over(b, i + 1)) = IF over THEN Cardinality(Over(b, i)) + 1 ELSE Cardinality(Over(b, i))
  <2>1. b \in Int /\ (b + 1)..(i + 1) = ((b + 1)..i) \cup {i + 1} /\ i + 1 \notin Over(b, i)
    BY <1>1 DEF Over
  <2>2. CASE over
    <3>1. Over(b, i + 1) = Over(b, i) \cup {i + 1}
      BY <2>1, <2>2 DEF Over
    <3> QED BY <1>5, <2>1, <2>2, <3>1, FS_AddElement
  <2>3. CASE ~over
    <3>1. Over(b, i + 1) = Over(b, i)
      BY <2>1, <2>3 DEF Over
    <3> QED BY <2>3, <3>1
  <2> QED BY <2>2, <2>3
<1>7. \A j \in (b + 1)..(i + 1) : FindDoubleBump(j) = {}
  <2> TAKE j \in (b + 1)..(i + 1)
  <2>1. j = i + 1 \/ j \in (b + 1)..i
    BY <1>1
  <2> QED BY <1>1, <2>1
<1>8. b \in 1..(i + 1)
  BY <1>1
<1> HIDE DEF over
<1> QED BY <1>1, <1>4, <1>6, <1>7, <1>8 DEF BumpWaits

\* A trigger on a bump fires before the bump is spent.
LEMMA FiresUnspent ==
    ASSUME NEW x, NEW i \in Nat, BumpWaits(x, i), NEW n \in Bumps, FiresArmed(x, n, i)
    PROVE  Spent(i)
<1> DEFINE b == x.pos
           S == {j \in 1..(i - 1) : FindDoubleBump(j) # {}}
<1>1. /\ b \in 1..i /\ x.state \in FindDoubleBump(b)
      /\ \A j \in (b + 1)..i : FindDoubleBump(j) = {}
      /\ x.closes = Cardinality(Over(b, i))
  BY DEF BumpWaits
<1>2. i > b /\ (x.closes < 2 \/ x.closes = 1)
  BY DEF FiresArmed, Bumps
<1>3. b \in S /\ S \subseteq Int
  BY <1>1, <1>2
<1>4. \A j \in S : j <= b
  <2> TAKE j \in S
  <2>1. j \notin (b + 1)..i /\ j \in 1..(i - 1)
    BY <1>1
  <2> QED BY <1>1, <2>1
<1>5. HighestOf(S) = b
  <2> HIDE DEF S, b
  <2> QED BY <1>3, <1>4, HighestFound
<1>6. Cardinality(Over(b, i)) \in Nat
  <2>1. b \in Int /\ i \in Int
    BY <1>1
  <2> QED BY <2>1, FinitelyOver
<1>7. Cardinality(Over(b, i)) <= 1
  BY <1>1, <1>2, <1>6
<1> QED BY <1>5, <1>7 DEF Spent

LEMMA EventInvInit == Init => EventInv
<1> SUFFICES ASSUME Init PROVE EventInv
  OBVIOUS
<1>1. CASE lab = "events"
  <2>1. EventInit
    BY <1>1 DEF Init
  <2>2. OnEventTape /\ pos = 0 /\ events = {} /\ waiting = [n \in ArmedNames |-> {}]
    BY <2>1 DEF EventInit, OnEventTape
  <2>3. \A n \in Bumps : waiting[n] = {}
    BY <2>2 DEF Bumps, ArmedNames
  <2>4. pos \in 0..Last
    BY <2>2, EventTapeFacts
  <2> QED BY <1>1, <2>2, <2>3, <2>4 DEF EventInv
<1>2. CASE lab # "events"
  BY <1>2 DEF Init, NoEvents, EventInv
<1> QED BY <1>1, <1>2

\* One candle of the triggers.
LEMMA EventInvMoves ==
    ASSUME EventInv, lab = "events", Next
    PROVE  EventInv'
<1> DEFINE i == pos + 1
           held == [n \in ArmedNames |-> {Counted(x, n, i) : x \in Waiting(waiting[n], n, i)}]
           fired == {n \in ArmedNames : \E x \in held[n] : FiresArmed(x, n, i)}
<1>1. /\ OnEventTape /\ pos \in 0..Last
      /\ \A k \in 1..pos : \A n \in Happening(k) : Event(n, k) \in events
      /\ \A e \in events : /\ e = Event(e.name, e.pos) /\ e.pos \in 1..pos
                           /\ e.name \in ArmedNames \/ e.name \in Happening(e.pos)
      /\ \A n \in Bumps : \A x \in waiting[n] : BumpWaits(x, pos)
      /\ \A e \in events : e.name \in Bumps => Spent(e.pos)
  BY DEF EventInv
<1>2. /\ lab' = lab /\ pos < Last /\ pos' = i
      /\ events' = events \cup {Event(n, i) : n \in Happening(i) \cup fired}
      /\ waiting' = [n \in ArmedNames |-> IF n \in fired THEN {} ELSE held[n]]
      /\ candles' = candles /\ defbox' = defbox
  <2>1. EventStep /\ lab' = lab
    BY DEF Next
  <2> QED BY <2>1 DEF EventStep, Event
<1>3. i \in 1..Last /\ pos \in Nat /\ i \in Nat
  BY <1>1, <1>2, EventTapeFacts
<1>4. /\ \A k : Happening(k)' = Happening(k) /\ FindDoubleBump(k)' = FindDoubleBump(k)
      /\ OnEventTape' /\ Last' = Last
  <2>1. Last' = Last /\ OnEventTape'
    BY <1>1, <1>2 DEF OnEventTape, Last
  <2> QED BY <1>2, <2>1, EventsStay
<1>5. \A x, k : (BumpWaits(x, k)' <=> BumpWaits(x, k)) /\ (Spent(k)' <=> Spent(k))
  <2>1. \A b, k : Over(b, k)' = Over(b, k)
    BY <1>2 DEF Over, C
  <2> QED BY <1>4, <2>1 DEF BumpWaits, Spent
<1>6. Bumps \subseteq ArmedNames
  BY DEF Bumps, ArmedNames
<1>7. ASSUME NEW n \in Bumps, NEW y \in held[n]
      PROVE  BumpWaits(y, i)
  <2>1. PICK x \in Waiting(waiting[n], n, i) : y = Counted(x, n, i)
    BY <1>6, <1>7
  <2>2. Found(n, i) = FindDoubleBump(i)
    BY DEF Found, Bumps
  <2>3. CASE FindDoubleBump(i) = {}
    <3>1. x \in waiting[n]
      BY <2>1, <2>2, <2>3 DEF Waiting
    <3>2. BumpWaits(x, pos)
      BY <1>1, <3>1
    <3> QED BY <1>3, <2>1, <2>3, <3>2, BumpCounts
  <2>4. CASE FindDoubleBump(i) # {}
    <3> DEFINE s == CHOOSE s \in FindDoubleBump(i) : TRUE
    <3>1. x = [pos |-> i, closes |-> 0, state |-> s] /\ s \in FindDoubleBump(i)
      BY <2>1, <2>2, <2>4 DEF Waiting
    <3> HIDE DEF s
    <3>2. y = x
      BY <1>3, <2>1, <3>1 DEF Counted
    <3>3. (i + 1)..i = {} /\ i \in 1..i
      BY <1>3
    <3>4. Cardinality(Over(i, i)) = 0
      BY <3>3, FS_EmptySet DEF Over
    <3> HIDE DEF i
    <3> QED BY <3>1, <3>2, <3>3, <3>4 DEF BumpWaits
  <2> QED BY <2>3, <2>4
<1>8. \A n \in fired : n \in Bumps => Spent(i)
  <2> TAKE n \in fired
  <2> HAVE n \in Bumps
  <2>1. PICK y \in held[n] : FiresArmed(y, n, i)
    OBVIOUS
  <2>2. BumpWaits(y, i)
    BY <1>7, <2>1
  <2> HIDE DEF i
  <2> QED BY <1>3, <2>1, <2>2, FiresUnspent
<1>9. \A n \in Bumps : \A x \in waiting'[n] : BumpWaits(x, i)
  BY <1>2, <1>6, <1>7
<1> HIDE DEF held
<1>10. \A e \in events' : e \in events \/ \E n \in Happening(i) \cup fired : e = Event(n, i)
  BY <1>2
<1>11. \A n : Event(n, i).name = n /\ Event(n, i).pos = i
  BY DEF Event
<1>12. ASSUME NEW k \in 1..i, NEW n \in Happening(k) PROVE Event(n, k) \in events'
  <2>1. k \in 1..pos \/ k = i
    BY <1>3
  <2> QED BY <1>1, <1>2, <1>12, <2>1
<1>13. ASSUME NEW e \in events'
       PROVE  /\ e = Event(e.name, e.pos) /\ e.pos \in 1..i
              /\ e.name \in ArmedNames \/ e.name \in Happening(e.pos)
              /\ e.name \in Bumps => Spent(e.pos)
  <2>1. CASE e \in events
    <3>1. e.pos \in 1..i
      BY <1>1, <1>3, <2>1
    <3> QED BY <1>1, <2>1, <3>1
  <2>2. ASSUME NEW n \in Happening(i) \cup fired, e = Event(n, i)
        PROVE  /\ e = Event(e.name, e.pos) /\ e.pos \in 1..i
               /\ e.name \in ArmedNames \/ e.name \in Happening(e.pos)
               /\ e.name \in Bumps => Spent(e.pos)
    <3>1. e.name = n /\ e.pos = i /\ i \in 1..i
      BY <1>3, <1>11, <2>2
    <3>2. n \in Bumps => n \notin Happening(i)
      BY HappeningIs DEF Bumps, EventNames
    <3> HIDE DEF i
    <3>3. n \in fired => n \in ArmedNames
      OBVIOUS
    <3> HIDE DEF fired
    <3> QED BY <1>8, <2>2, <3>1, <3>2, <3>3
  <2> QED BY <1>10, <2>1, <2>2
<1> HIDE DEF i, fired
<1>14. i \in 0..Last
  BY <1>3
<1> QED BY <1>2, <1>4, <1>5, <1>9, <1>12, <1>13, <1>14 DEF EventInv, Event

LEMMA EventInvHolds == Spec => []EventInv
<1>1. EventInv /\ [Next]_vars => EventInv'
  <2> SUFFICES ASSUME EventInv, [Next]_vars PROVE EventInv'
    OBVIOUS
  <2>1. CASE lab = "events" /\ Next
    BY <2>1, EventInvMoves
  <2>2. CASE lab # "events" /\ Next
    BY <2>2 DEF Next, EventInv, eventVars
  <2>3. CASE UNCHANGED vars
    <3>1. UNCHANGED <<lab, candles, pos, defbox, events, waiting>>
      BY <2>3 DEF vars, eventVars
    <3>2. \A k : Happening(k)' = Happening(k) /\ FindDoubleBump(k)' = FindDoubleBump(k)
      BY <3>1, EventsStay
    <3>3. \A x, k : (BumpWaits(x, k)' <=> BumpWaits(x, k)) /\ (Spent(k)' <=> Spent(k))
      <4>1. \A b, k : Over(b, k)' = Over(b, k)
        BY <3>1 DEF Over, C
      <4> QED BY <3>2, <4>1 DEF BumpWaits, Spent
    <3>4. (OnEventTape <=> OnEventTape') /\ Last' = Last
      BY <3>1 DEF OnEventTape, Last
    <3> QED BY <3>1, <3>2, <3>3, <3>4 DEF EventInv, Event
  <2> QED BY <2>1, <2>2, <2>3
<1> QED BY <1>1, EventInvInit, PTL DEF Spec

LEMMA TriggersAreEdgesAlways ==
    ASSUME EventInv
    PROVE  TriggersAreEdges
<1> SUFFICES ASSUME lab = "events", NEW e \in events, e.name # "Stg14Oversold", e.name \notin ArmedNames,
                    [name |-> e.name, pos |-> e.pos + 1] \in events
             PROVE  FALSE
  BY DEF TriggersAreEdges
<1>1. /\ OnEventTape /\ pos \in 0..Last
      /\ \A x \in events : x.pos \in 1..pos /\ (x.name \in ArmedNames \/ x.name \in Happening(x.pos))
  BY DEF EventInv
<1>2. Last \in Nat
  BY <1>1, EventTapeFacts
<1> DEFINE n == e.name
           k == e.pos
<1>3. k \in 1..pos /\ k + 1 \in 1..pos /\ n \in Happening(k) /\ n \in Happening(k + 1)
  <2> DEFINE x == [name |-> n, pos |-> k + 1]
  <2>1. x \in events /\ x.name = n /\ x.pos = k + 1
    OBVIOUS
  <2> HIDE DEF x
  <2> QED BY <1>1, <2>1
<1> HIDE DEF n, k
<1>4. k \in 0..Last /\ k + 1 \in 0..Last
  BY <1>1, <1>2, <1>3
<1>5. n # "Stg14Oversold"
  BY DEF n
<1> QED BY <1>1, <1>3, <1>4, <1>5, NotTwiceRunning

LEMMA BandCrossingsAlternateAlways ==
    ASSUME EventInv
    PROVE  BandCrossingsAlternate
<1> SUFFICES ASSUME lab = "events",
                    NEW s \in {"BBLowerBreakdown", "BBLowerReentry"}, NEW i \in At(s), NEW j \in At(s),
                    i < j, \A k \in i..j : Valid(C(k))
             PROVE  \E k \in At(IF s = "BBLowerReentry" THEN "BBLowerBreakdown" ELSE "BBLowerReentry") :
                      i < k /\ k < j
  BY DEF BandCrossingsAlternate
<1>1. /\ OnEventTape /\ pos \in 0..Last
      /\ \A k \in 1..pos : \A n \in Happening(k) : Event(n, k) \in events
      /\ \A x \in events : x.pos \in 1..pos /\ (x.name \in ArmedNames \/ x.name \in Happening(x.pos))
  BY DEF EventInv
<1>2. Last \in Nat /\ \A k \in 0..Last : C(k).close \in Int /\ C(k).lower \in Int
  BY <1>1, EventTapeFacts
<1>3. \A n, k : n \in Happening(k) /\ k \in 1..pos => k \in At(n)
  <2> TAKE n, k
  <2> HAVE n \in Happening(k) /\ k \in 1..pos
  <2>1. Event(n, k) \in events /\ Event(n, k).name = n /\ Event(n, k).pos = k
    BY <1>1 DEF Event
  <2> QED BY <2>1 DEF At
<1>4. /\ i \in 1..pos /\ j \in 1..pos /\ s \in Happening(i) /\ s \in Happening(j)
  <2>1. s \notin ArmedNames
    BY DEF ArmedNames
  <2>2. \A k \in At(s) : k \in 1..pos /\ s \in Happening(k)
    BY <1>1, <2>1 DEF At
  <2> QED BY <2>2
<1>5. Happens(s, i) /\ Happens(s, j)
  BY <1>4, HappeningIs
<1>6. \A k \in i..j : k \in 1..pos /\ k \in 0..Last /\ (k > i => k - 1 \in i..j)
  BY <1>1, <1>2, <1>4
<1>7. \A k \in (i + 1)..j : BothValid(k)
  BY <1>4, <1>6 DEF BothValid
<1>8. i \in Nat /\ j - 1 \in Nat /\ j \in Nat /\ i \in i..j /\ j - 1 \in i..j
  BY <1>4
<1>9. CASE s = "BBLowerBreakdown"
  <2> DEFINE F == [k \in i..j |-> C(k).close >= C(k).lower]
  <2>1. C(i).close < C(i).lower /\ C(j - 1).close >= C(j - 1).lower
    BY <1>5, <1>9 DEF Happens, IsBBLowerBreakdown
  <2>2. \A k \in i..j : F[k] <=> C(k).close >= C(k).lower
    OBVIOUS
  <2> HIDE DEF F
  <2>3. ~F[i] /\ F[j - 1]
    BY <1>2, <1>6, <1>8, <2>1, <2>2
  <2>4. i # j - 1
    BY <2>3
  <2>5. i < j - 1
    BY <1>8, <2>4
  <2>6. PICK k \in (i + 1)..(j - 1) : F[k] /\ ~F[k - 1]
    BY <1>8, <2>3, <2>5, CrossedBetween
  <2>7. k \in i..j /\ k - 1 \in i..j /\ k \in (i + 1)..j /\ i < k /\ k < j
    BY <1>8
  <2>8. C(k).close >= C(k).lower /\ C(k - 1).close < C(k - 1).lower
    BY <1>2, <1>6, <2>2, <2>6, <2>7
  <2>9. "BBLowerReentry" \in Happening(k)
    BY <1>7, <2>7, <2>8, HappeningIs DEF Happens, IsBBLowerReentry, EventNames
  <2> QED BY <1>3, <1>6, <1>9, <2>7, <2>9
<1>10. CASE s = "BBLowerReentry"
  <2> DEFINE F == [k \in i..j |-> C(k).close < C(k).lower]
  <2>1. C(i).close >= C(i).lower /\ C(j - 1).close < C(j - 1).lower
    BY <1>5, <1>10 DEF Happens, IsBBLowerReentry
  <2>2. \A k \in i..j : F[k] <=> C(k).close < C(k).lower
    OBVIOUS
  <2> HIDE DEF F
  <2>3. ~F[i] /\ F[j - 1]
    BY <1>2, <1>6, <1>8, <2>1, <2>2
  <2>4. i # j - 1
    BY <2>3
  <2>5. i < j - 1
    BY <1>8, <2>4
  <2>6. PICK k \in (i + 1)..(j - 1) : F[k] /\ ~F[k - 1]
    BY <1>8, <2>3, <2>5, CrossedBetween
  <2>7. k \in i..j /\ k - 1 \in i..j /\ k \in (i + 1)..j /\ i < k /\ k < j
    BY <1>8
  <2>8. C(k).close < C(k).lower /\ C(k - 1).close >= C(k - 1).lower
    BY <1>2, <1>6, <2>2, <2>6, <2>7
  <2>9. "BBLowerBreakdown" \in Happening(k)
    BY <1>7, <2>7, <2>8, HappeningIs DEF Happens, IsBBLowerBreakdown, EventNames
  <2> QED BY <1>3, <1>6, <1>10, <2>7, <2>9
<1> QED BY <1>9, <1>10

LEMMA PierceIsRareAlways ==
    ASSUME EventInv
    PROVE  PierceIsRare
<1> SUFFICES ASSUME lab = "events", NEW i \in 1..pos, NEW j \in 1..pos, i < j,
                    IsFirstPierce120(i), IsFirstPierce120(j), ~(j - i > Spans.inverted)
             PROVE  FALSE
  BY DEF PierceIsRare
<1>1. OnEventTape /\ pos \in 0..Last
  BY DEF EventInv
<1>2. Last \in Nat /\ i \in 0..Last /\ i \in Int /\ j \in Int /\ Spans.inverted \in Int
      /\ C(i).high \in Int /\ C(i).ma120 \in Int
  <2>1. Last \in Nat
    BY <1>1, EventTapeFacts
  <2>2. i \in 0..Last
    BY <1>1, <2>1
  <2> QED BY <1>1, <2>1, <2>2, EventTapeFacts, EventAssumption
<1>3. i \in (j - Spans.inverted)..(j - 1)
  BY <1>2
<1>4. C(i).high < C(i).ma120
  BY <1>3 DEF IsFirstPierce120
<1>5. C(i).high > C(i).ma120
  BY DEF IsFirstPierce120
<1> QED BY <1>2, <1>4, <1>5

LEMMA BumpIsSpentAlways ==
    ASSUME EventInv
    PROVE  BumpIsSpent
<1> SUFFICES ASSUME lab = "events", NEW n \in Bumps, NEW f \in At(n) PROVE Spent(f)
  BY DEF BumpIsSpent, Bumps, Spent, Over
<1>1. \A e \in events : e.name \in Bumps => Spent(e.pos)
  BY DEF EventInv
<1> QED BY <1>1 DEF At

-----------------------------------------------------------------------------
(* The box list along the tape. *)

BoxFields == {"kind", "type", "at", "price", "curve", "links"}

\* A list of boxes, each known by candle i.
Listed(list, i) ==
    /\ Sequence(list)
    /\ \A k \in DOMAIN list :
         /\ DOMAIN list[k] = BoxFields
         /\ list[k].curve \in 0..i /\ list[k].at \in 0..i /\ list[k].price \in Int
         /\ list[k].type \in {"resistance", "support"}
         /\ list[k].links \in Seq(DOMAIN list)

\* What is said of a box stays, but for a turning point that becomes a main box and for links.
SameBox(b, c) ==
    /\ c.type = b.type /\ c.at = b.at /\ c.price = b.price /\ c.curve = b.curve
    /\ IsDef(c) <=> IsDef(b)

\* Candle i has only added boxes of its own.
Grown(old, new, i) ==
    /\ Listed(new, i)
    /\ Len(old) <= Len(new)
    /\ \A k \in 1..Len(old) : SameBox(old[k], new[k])
    /\ \A k \in (Len(old) + 1)..Len(new) : new[k].curve = i

LEMMA ListedFacts ==
    ASSUME NEW list, NEW i, Listed(list, i)
    PROVE  Len(list) \in Nat /\ DOMAIN list = 1..Len(list)
BY LenProperties DEF Listed, Sequence

LEMMA GrownSame ==
    ASSUME NEW list, NEW i \in Nat, Listed(list, i)
    PROVE  Grown(list, list, i)
BY ListedFacts DEF Grown, SameBox

LEMMA GrownOn ==
    ASSUME NEW i, NEW a, NEW b, NEW c, Listed(a, i), Grown(a, b, i), Grown(b, c, i)
    PROVE  Grown(a, c, i)
<1>1. Len(a) \in Nat /\ Len(b) \in Nat /\ Len(c) \in Nat
  BY ListedFacts DEF Grown
<1>2. Len(a) <= Len(b) /\ Len(b) <= Len(c)
  BY DEF Grown
<1>3. \A k \in 1..Len(a) : SameBox(a[k], c[k])
  <2> TAKE k \in 1..Len(a)
  <2>1. k \in 1..Len(b)
    BY <1>1, <1>2
  <2> QED BY <2>1 DEF Grown, SameBox
<1>4. \A k \in (Len(a) + 1)..Len(c) : c[k].curve = i
  <2> TAKE k \in (Len(a) + 1)..Len(c)
  <2>1. CASE k \in (Len(a) + 1)..Len(b)
    <3>1. k \in 1..Len(b)
      BY <1>1, <2>1
    <3> QED BY <2>1, <3>1 DEF Grown, SameBox
  <2>2. CASE k \in (Len(b) + 1)..Len(c)
    BY <2>2 DEF Grown
  <2> QED BY <1>1, <2>1, <2>2
<1> QED BY <1>1, <1>2, <1>3, <1>4 DEF Grown

LEMMA ListedAppend ==
    ASSUME NEW list, NEW i \in Nat, Listed(list, i),
           NEW kind, NEW type \in {"resistance", "support"}, NEW at \in 0..i, NEW price \in Int,
           NEW links \in Seq(DOMAIN list)
    PROVE  Grown(list, Append(list, Boxes!Box(kind, type, at, price, i, links)), i)
<1> DEFINE b == Boxes!Box(kind, type, at, price, i, links)
           new == Append(list, b)
           N == Len(list)
<1>1. /\ Sequence(new) /\ N \in Nat /\ DOMAIN list = 1..N
      /\ Len(new) = N + 1 /\ DOMAIN new = 1..(N + 1)
      /\ \A k \in 1..N : new[k] = list[k]
      /\ new[N + 1] = b
  BY AppendAny DEF Listed
<1>2. DOMAIN b = BoxFields /\ b.curve = i /\ b.at = at /\ b.type = type /\ b.price = price /\ b.links = links
      /\ i \in 0..i
  BY DEF Boxes!Box, BoxFields
<1>7. \A s \in Seq(DOMAIN list) : s \in Seq(DOMAIN new)
  <2> DEFINE A == DOMAIN list
             B == DOMAIN new
  <2>1. A \subseteq B
    BY <1>1
  <2> HIDE DEF A, B
  <2>2. \A s \in Seq(A) : s \in Seq(B)
    BY <2>1, SeqDef
  <2> QED BY <2>2 DEF A, B
<1> HIDE DEF new, b, N
<1>3. \A k \in 1..(N + 1) : k \in 1..N \/ k = N + 1
  BY <1>1
<1>4. Listed(new, i)
  <2>1. \A k \in 1..N : new[k] = list[k] /\ k \in DOMAIN list
    BY <1>1
  <2> QED BY <1>1, <1>2, <1>3, <1>7, <2>1 DEF Listed
<1>5. \A k \in (N + 1)..(N + 1) : new[k].curve = i
  BY <1>1, <1>2
<1>6. N <= N + 1
  BY <1>1
<1> QED BY <1>1, <1>4, <1>5, <1>6 DEF Grown, SameBox, N, new, b

\* A box that is marked, or linked to one more.
LEMMA ListedMark ==
    ASSUME NEW list, NEW i \in Nat, Listed(list, i), NEW j, NEW f \in {"kind", "links"}, NEW v,
           j \in DOMAIN list /\ f = "kind" => (v = "def" <=> IsDef(list[j])),
           j \in DOMAIN list /\ f = "links" => v \in Seq(DOMAIN list)
    PROVE  Grown(list, [list EXCEPT ![j] = [list[j] EXCEPT ![f] = v]], i)
<1> DEFINE new == [list EXCEPT ![j] = [list[j] EXCEPT ![f] = v]]
           N == Len(list)
<1>1. N \in Nat /\ DOMAIN list = 1..N
  BY ListedFacts
<1>2. ASSUME NEW k \in 1..N
      PROVE  /\ DOMAIN new[k] = BoxFields /\ SameBox(list[k], new[k])
             /\ new[k].curve \in 0..i /\ new[k].at \in 0..i /\ new[k].price \in Int
             /\ new[k].type \in {"resistance", "support"} /\ new[k].links \in Seq(1..N)
  <2>1. /\ DOMAIN list[k] = BoxFields
        /\ list[k].curve \in 0..i /\ list[k].at \in 0..i /\ list[k].price \in Int
        /\ list[k].type \in {"resistance", "support"} /\ list[k].links \in Seq(1..N)
    BY <1>1 DEF Listed
  <2>2. CASE k # j
    <3>1. new[k] = list[k]
      BY <1>1, <2>2
    <3> QED BY <2>1, <3>1 DEF SameBox
  <2>3. CASE k = j
    <3>1. new[k] = [list[k] EXCEPT ![f] = v]
      BY <1>1, <2>3
    <3> HIDE DEF new
    <3>2. DOMAIN new[k] = BoxFields /\ \A g \in BoxFields : g # f => new[k][g] = list[k][g]
      BY <2>1, <3>1
    <3>3. new[k][f] = v
      BY <2>1, <3>1 DEF BoxFields
    <3>4. IsDef(new[k]) <=> IsDef(list[k])
      <4>1. CASE f = "kind"
        BY <1>1, <2>3, <3>3, <4>1 DEF IsDef
      <4>2. CASE f = "links"
        BY <3>2, <4>2 DEF IsDef, BoxFields
      <4> QED BY <4>1, <4>2
    <3>5. new[k].links \in Seq(1..N)
      <4>1. CASE f = "kind"
        BY <2>1, <3>2, <4>1 DEF BoxFields
      <4>2. CASE f = "links"
        BY <1>1, <2>3, <3>3, <4>2
      <4> QED BY <4>1, <4>2
    <3> QED BY <2>1, <3>2, <3>4, <3>5 DEF SameBox, BoxFields
  <2> QED BY <2>2, <2>3
<1>3. new \in Seq({list[k] : k \in 1..N} \cup {new[k] : k \in 1..N}) /\ Len(new) = N
  <2> DEFINE T == {list[k] : k \in 1..N} \cup {new[k] : k \in 1..N}
  <2>1. DOMAIN new = 1..N /\ \A k \in 1..N : new[k] \in T
    BY <1>1
  <2>2. new = [k \in 1..N |-> new[k]]
    BY <1>1
  <2> HIDE DEF new, T
  <2>3. [k \in 1..N |-> new[k]] \in [1..N -> T]
    BY <2>1
  <2>4. new \in Seq(T)
    BY <1>1, <2>2, <2>3, SeqDef
  <2>5. Len(new) = N
    BY <1>1, <2>1, <2>4, LenProperties
  <2> QED BY <2>4, <2>5 DEF T
<1>4. Sequence(new) /\ DOMAIN new = 1..N
  BY <1>1, <1>3 DEF Sequence
<1> HIDE DEF new
<1>5. Listed(new, i)
  BY <1>2, <1>4 DEF Listed
<1>6. (N + 1)..N = {}
  BY <1>1
<1>7. Len(new) = N /\ N <= N
  BY <1>1, <1>3
<1> HIDE DEF N
<1>8. Grown(list, new, i)
  BY <1>2, <1>5, <1>6, <1>7 DEF Grown, N
<1> QED BY <1>8 DEF new

\* What is new are DefBoxes.
OnlyDefs(old, new, i) ==
    /\ Grown(old, new, i)
    /\ \A k \in (Len(old) + 1)..Len(new) : IsDef(new[k]) /\ new[k].type = "resistance"

LEMMA OnlyDefsOn ==
    ASSUME NEW i, NEW a, NEW b, NEW c, Listed(a, i), OnlyDefs(a, b, i), OnlyDefs(b, c, i)
    PROVE  OnlyDefs(a, c, i)
<1>1. Len(a) \in Nat /\ Len(b) \in Nat /\ Len(c) \in Nat /\ Len(a) <= Len(b) /\ Len(b) <= Len(c)
  BY ListedFacts DEF OnlyDefs, Grown
<1>2. ASSUME NEW k \in (Len(a) + 1)..Len(c)
      PROVE  IsDef(c[k]) /\ c[k].type = "resistance"
  <2>1. CASE k \in (Len(b) + 1)..Len(c)
    BY <2>1 DEF OnlyDefs
  <2>2. CASE k \notin (Len(b) + 1)..Len(c)
    <3>1. k \in (Len(a) + 1)..Len(b) /\ k \in 1..Len(b)
      BY <1>1, <2>2
    <3> QED BY <3>1 DEF OnlyDefs, Grown, SameBox
  <2> QED BY <2>1, <2>2
<1>3. Grown(a, c, i)
  BY GrownOn DEF OnlyDefs
<1> QED BY <1>2, <1>3 DEF OnlyDefs

\* A list of the same length has nothing new.
LEMMA OnlyDefsSame ==
    ASSUME NEW old, NEW new, NEW i, Listed(old, i), Grown(old, new, i), DOMAIN new = DOMAIN old
    PROVE  OnlyDefs(old, new, i)
<1>1. /\ Len(old) \in Nat /\ Len(new) \in Nat
      /\ DOMAIN old = 1..Len(old) /\ DOMAIN new = 1..Len(new) /\ Len(old) <= Len(new)
  BY ListedFacts DEF Grown
<1>2. Len(new) \in 1..Len(old) \/ Len(new) = 0
  BY <1>1
<1>3. (Len(old) + 1)..Len(new) = {}
  BY <1>1, <1>2
<1> QED BY <1>3 DEF OnlyDefs

LEMMA TouchGrows ==
    ASSUME NEW list, NEW i \in Nat, Listed(list, i), NEW j \in DOMAIN list, NEW p, p.at \in 0..i
    PROVE  OnlyDefs(list, Boxes!TouchBox(list, j, p, i), i)
<1> DEFINE kind == IF list[j].kind = "def" THEN list[j].kind ELSE "main"
           marked == [list EXCEPT ![j] = [list[j] EXCEPT !["kind"] = kind]]
           e == Boxes!FindExistingDefBoxAtPosition(marked, p.at)
           links == IF \E k \in DOMAIN marked[e].links : marked[e].links[k] = j
                    THEN marked[e].links ELSE Append(marked[e].links, j)
           linked == [marked EXCEPT ![e] = [marked[e] EXCEPT !["links"] = links]]
           more == Append(marked, Boxes!Box("def", "resistance", p.at, list[j].price, i, <<j>>))
<1>1. Boxes!TouchBox(list, j, p, i)
        = IF e > 0 THEN linked
          ELSE IF Boxes!ShouldUpdateDefBox(marked, p.at, list[j].price) THEN more ELSE marked
  BY Zenon DEF Boxes!TouchBox
<1>2. kind = "def" <=> IsDef(list[j])
  BY DEF IsDef
<1> HIDE DEF kind
<1>3. Grown(list, marked, i)
  BY <1>2, ListedMark
<1>4. Listed(marked, i)
  BY <1>3 DEF Grown
<1>8. DOMAIN marked = DOMAIN list
  OBVIOUS
<1> HIDE DEF marked, e
<1>9. e \in DOMAIN marked => links \in Seq(DOMAIN marked)
  <2> DEFINE D == DOMAIN marked
  <2>1. e \in D => marked[e].links \in Seq(D)
    BY <1>4 DEF Listed
  <2>2. j \in D
    BY <1>8
  <2> HIDE DEF D
  <2>3. e \in D => Append(marked[e].links, j) \in Seq(D)
    BY <2>1, <2>2, AppendProperties
  <2> QED BY <2>1, <2>3 DEF D
<1> HIDE DEF links
<1>5. Grown(marked, linked, i)
  BY <1>4, <1>9, ListedMark
<1>6. Grown(marked, more, i)
  <2>1. list[j].price \in Int /\ <<j>> \in Seq(DOMAIN marked)
    BY <1>8 DEF Listed
  <2> QED BY <1>4, <2>1, ListedAppend
<1>10. DOMAIN linked = DOMAIN marked
  OBVIOUS
<1>11. /\ Len(more) = Len(marked) + 1 /\ Len(marked) \in Nat
       /\ more[Len(marked) + 1] = Boxes!Box("def", "resistance", p.at, list[j].price, i, <<j>>)
  BY <1>4, AppendAny DEF Listed
<1> HIDE DEF linked, more
<1>12. OnlyDefs(marked, more, i)
  <2>1. \A k \in (Len(marked) + 1)..Len(more) : k = Len(marked) + 1
    BY <1>11
  <2>2. IsDef(more[Len(marked) + 1]) /\ more[Len(marked) + 1].type = "resistance"
    BY <1>11 DEF IsDef, Boxes!Box
  <2> QED BY <1>6, <2>1, <2>2 DEF OnlyDefs
<1>13. OnlyDefs(list, marked, i) /\ OnlyDefs(marked, linked, i)
  BY <1>3, <1>4, <1>5, <1>8, <1>10, OnlyDefsSame
<1>7. OnlyDefs(list, linked, i) /\ OnlyDefs(list, more, i)
  BY <1>12, <1>13, OnlyDefsOn
<1> QED BY <1>1, <1>7, <1>13

\* The loop of CheckAndCreateDefBox over the boxes up to n.
Touches(f, list, count, p, i, n) ==
    f = [j \in 0..n |-> IF j = 0 THEN <<list, count>> ELSE Boxes!Damaged(f[j - 1], j, p, i, DamOption)]

LEMMA TouchesFrom ==
    ASSUME NEW list, NEW count, NEW p, NEW i, NEW n \in Nat, NEW f, Touches(f, list, count, p, i, n)
    PROVE  \E g : Touches(g, list, count, p, i, n + 1)
<1> DEFINE g == [j \in 0..(n + 1) |-> IF j = n + 1 THEN Boxes!Damaged(f[n], j, p, i, DamOption) ELSE f[j]]
<1>1. \A j \in 0..n : f[j] = IF j = 0 THEN <<list, count>> ELSE Boxes!Damaged(f[j - 1], j, p, i, DamOption)
  BY DEF Touches
<1>2. \A j \in 0..(n + 1) :
        g[j] = IF j = 0 THEN <<list, count>> ELSE Boxes!Damaged(g[j - 1], j, p, i, DamOption)
  <2> TAKE j \in 0..(n + 1)
  <2>1. CASE j = 0
    BY <1>1, <2>1
  <2>2. CASE j # 0
    <3>1. j - 1 \in 0..n /\ j - 1 # n + 1 /\ (j # n + 1 => j \in 0..n)
      BY <2>2
    <3>2. g[j - 1] = f[j - 1]
      BY <3>1
    <3>3. CASE j = n + 1
      BY <2>2, <3>2, <3>3
    <3>4. CASE j # n + 1
      BY <1>1, <2>2, <3>1, <3>2, <3>4
    <3> QED BY <3>3, <3>4
  <2> QED BY <2>1, <2>2
<1>3. g = [j \in 0..(n + 1) |-> g[j]]
  OBVIOUS
<1> HIDE DEF g
<1>4. g = [j \in 0..(n + 1) |->
             IF j = 0 THEN <<list, count>> ELSE Boxes!Damaged(g[j - 1], j, p, i, DamOption)]
  BY <1>2, <1>3
<1>5. Touches(g, list, count, p, i, n + 1)
  BY <1>4 DEF Touches
<1> QED BY <1>5

LEMMA TouchesExist ==
    ASSUME NEW list, NEW count, NEW p, NEW i, NEW N \in Nat
    PROVE  \E f : Touches(f, list, count, p, i, N)
<1> DEFINE S == {n \in Nat : ~\E f : Touches(f, list, count, p, i, n)}
<1> SUFFICES ASSUME S # {} PROVE FALSE
  BY Zenon
<1>1. PICK m \in S : \A x \in S : m <= x
  BY LeastNumber
<1>2. CASE m = 0
  <2> DEFINE f == [j \in 0..0 |-> <<list, count>>]
  <2>1. f = [j \in 0..0 |-> IF j = 0 THEN <<list, count>> ELSE Boxes!Damaged(f[j - 1], j, p, i, DamOption)]
    OBVIOUS
  <2>2. Touches(f, list, count, p, i, 0)
    BY <2>1 DEF Touches
  <2> QED BY <1>2, <2>2
<1>3. CASE m # 0
  <2>1. m - 1 \in Nat /\ m - 1 \notin S /\ (m - 1) + 1 = m
    BY <1>1, <1>3
  <2>2. PICK f : Touches(f, list, count, p, i, m - 1)
    BY <2>1
  <2>3. \E g : Touches(g, list, count, p, i, m)
    BY <2>1, <2>2, TouchesFrom
  <2> QED BY <2>3
<1> QED BY <1>2, <1>3

LEMMA TouchesGrow ==
    ASSUME NEW list, NEW count, NEW p, NEW i \in Nat, p.at \in 0..i, Listed(list, i), NEW N \in Nat,
           N <= Len(list), NEW f, Touches(f, list, count, p, i, N)
    PROVE  OnlyDefs(list, f[N][1], i)
<1> DEFINE S == {n \in 0..N : ~OnlyDefs(list, f[n][1], i)}
<1>1. \A j \in 0..N : f[j] = IF j = 0 THEN <<list, count>> ELSE Boxes!Damaged(f[j - 1], j, p, i, DamOption)
  BY DEF Touches
<1>2. S = {}
  <2> SUFFICES ASSUME S # {} PROVE FALSE
    OBVIOUS
  <2>1. PICK m \in S : \A x \in S : m <= x
    <3>1. S \subseteq Nat
      OBVIOUS
    <3> HIDE DEF S
    <3> QED BY <3>1, LeastNumber
  <2>2. m # 0
    <3>1. f[0][1] = list
      BY <1>1
    <3> QED BY <2>1, <3>1, GrownSame, OnlyDefsSame
  <2>3. m - 1 \in 0..N /\ m - 1 \notin S
    BY <2>1, <2>2
  <2> DEFINE r == f[m - 1]
  <2>4. OnlyDefs(list, r[1], i) /\ f[m] = Boxes!Damaged(r, m, p, i, DamOption)
    BY <1>1, <2>1, <2>2, <2>3
  <2> HIDE DEF r
  <2>5. Listed(r[1], i)
    BY <2>4 DEF OnlyDefs, Grown
  <2>9. m \in DOMAIN r[1]
    <3>1. Len(list) <= Len(r[1]) /\ Len(list) \in Nat /\ Len(r[1]) \in Nat /\ DOMAIN r[1] = 1..Len(r[1])
      BY <2>4, <2>5, ListedFacts DEF OnlyDefs, Grown
    <3>2. m \in 1..N
      BY <2>1, <2>2
    <3> QED BY <3>1, <3>2
  <2>6. OnlyDefs(r[1], Boxes!TouchBox(r[1], m, p, i), i)
    BY <2>5, <2>9, TouchGrows
  <2>7. f[m][1] = Boxes!TouchBox(r[1], m, p, i) \/ f[m][1] = r[1]
    BY <2>4 DEF Boxes!Damaged
  <2>8. OnlyDefs(list, f[m][1], i)
    BY <2>4, <2>6, <2>7, OnlyDefsOn
  <2> QED BY <2>1, <2>8
<1> QED BY <1>2

\* The first of the highest values of a stretch.
LEMMA FirstHighest ==
    ASSUME NEW a \in Nat, NEW b \in Nat, a <= b, NEW F, \A j \in a..b : F[j] \in Int
    PROVE  \E k \in a..b : \A j \in a..b : F[j] <= F[k] /\ (j < k => F[j] < F[k])
<1> DEFINE V == {F[j] : j \in a..b}
<1>1. PICK m \in Int : \A j \in a..b : F[j] <= m
  <2>1. a..b \subseteq 0..b
    OBVIOUS
  <2> QED BY <2>1, Bounded
<1>2. V \subseteq Int /\ V # {} /\ \A x \in V : x <= m
  <2>1. a \in a..b
    OBVIOUS
  <2> QED BY <1>1, <2>1
<1> HIDE DEF V
<1>3. HighestOf(V) \in V /\ \A x \in V : x <= HighestOf(V)
  BY <1>2, HighestIs
<1> DEFINE S == {j \in a..b : F[j] = HighestOf(V)}
<1>4. S \subseteq Nat /\ S # {}
  BY <1>3 DEF V
<1> HIDE DEF S
<1>5. PICK k \in S : \A x \in S : k <= x
  BY <1>4, LeastNumber
<1>6. k \in a..b /\ F[k] = HighestOf(V)
  BY DEF S
<1>7. \A j \in a..b : F[j] <= F[k] /\ (j < k => F[j] < F[k])
  <2> TAKE j \in a..b
  <2>1. F[j] \in V /\ F[j] <= F[k]
    BY <1>3, <1>6 DEF V
  <2>2. ASSUME j < k PROVE F[j] # F[k]
    <3>1. F[j] = F[k] => j \in S
      BY <1>6 DEF S
    <3> QED BY <1>5, <1>6, <2>2, <3>1
  <2>3. F[j] \in Int /\ F[k] \in Int
    BY <1>6
  <2> QED BY <2>1, <2>2, <2>3
<1> QED BY <1>6, <1>7

LEMMA DirectedFacts ==
    ASSUME Directed(candles)
    PROVE  /\ Last \in Nat /\ Last >= 5 /\ DOMAIN candles = 0..Last
           /\ \A j \in 0..Last :
                C(j).open \in Int /\ C(j).close \in Int /\ C(j).high \in Int /\ C(j).low \in Int
           /\ \A j \in 5..Last : C(j).key \in {-1, 1}
<1>1. PICK n \in DOMAIN candles :
        /\ n >= 5 /\ DOMAIN candles = 0..n
        /\ \A j \in 0..n : \A f \in {"open", "close", "high", "low"} : candles[j][f] \in Int
        /\ \A j \in 5..n : candles[j].key \in {-1, 1}
  BY DEF Directed
<1>2. n \in Nat /\ Cardinality(0..n) = n + 1
  BY <1>1, FS_Interval
<1>3. Last = n
  BY <1>1, <1>2 DEF Last
<1> QED BY <1>1, <1>2, <1>3 DEF C

LEMMA ExtremesAre ==
    ASSUME Directed(candles), NEW i \in 1..Last, NEW start \in Nat
    PROVE  /\ Boxes!FindHighestPrice(start, i) \in {-1} \cup start..(i - 1)
           /\ Boxes!FindLowestPrice(start, i) \in {-1} \cup start..(i - 1)
           /\ start < i => /\ Boxes!FindHighestPrice(start, i) \in start..(i - 1)
                           /\ Boxes!FindLowestPrice(start, i) \in start..(i - 1)
<1>1. Last \in Nat /\ \A j \in 0..Last : C(j).high \in Int /\ C(j).low \in Int
  BY DirectedFacts
<1>2. CASE start >= i
  BY <1>2 DEF Boxes!FindHighestPrice, Boxes!FindLowestPrice
<1>3. CASE ~(start >= i)
  <2> DEFINE R == start..(i - 1)
             F == [j \in R |-> C(j).high]
             G == [j \in R |-> -C(j).low]
  <2>1. i - 1 \in Nat /\ start <= i - 1 /\ \A j \in R : j \in 0..Last
    BY <1>1, <1>3
  <2>2. \A j \in R : /\ F[j] = C(j).high /\ F[j] \in Int /\ C(j).high \in Int
                     /\ G[j] = -C(j).low /\ G[j] \in Int /\ C(j).low \in Int
    BY <1>1, <2>1
  <2> HIDE DEF F, G
  <2>3. \E k \in R : \A j \in R : C(j).high <= C(k).high /\ (j < k => C(j).high < C(k).high)
    <3>1. PICK k \in R : \A j \in R : F[j] <= F[k] /\ (j < k => F[j] < F[k])
      BY <2>1, <2>2, FirstHighest
    <3> QED BY <2>2, <3>1
  <2>4. \E k \in R : \A j \in R : C(j).low >= C(k).low /\ (j < k => C(j).low > C(k).low)
    <3>1. PICK k \in R : \A j \in R : G[j] <= G[k] /\ (j < k => G[j] < G[k])
      BY <2>1, <2>2, FirstHighest
    <3>2. \A j \in R : C(j).low >= C(k).low /\ (j < k => C(j).low > C(k).low)
      <4> TAKE j \in R
      <4>1. -C(j).low <= -C(k).low /\ (j < k => -C(j).low < -C(k).low)
        BY <2>2, <3>1
      <4> QED BY <2>2, <4>1
    <3> QED BY <3>1, <3>2
  <2>5. Boxes!FindHighestPrice(start, i) \in R
    BY <1>3, <2>3 DEF Boxes!FindHighestPrice, C
  <2>6. Boxes!FindLowestPrice(start, i) \in R
    BY <1>3, <2>4 DEF Boxes!FindLowestPrice, C
  <2> QED BY <2>5, <2>6
<1> QED BY <1>2, <1>3

\* A DefBox lies at a candle of the last leg.
LEMMA DefBoxLies ==
    ASSUME Directed(candles), NEW i \in 0..Last, NEW curve \in 0..i
    PROVE  Boxes!FindDefBoxPrices(curve, i).at \in 0..i
<1> DEFINE R == (IF curve > 0 THEN curve - 1 ELSE 0)..i
           top(f) == CHOOSE v \in {candles[j][f] : j \in R} : \A j \in R : candles[j][f] <= v
           at == CHOOSE j \in R : /\ candles[j].high = top("high")
                                  /\ \A k \in R : k < j => candles[k].high < top("high")
           F == [j \in R |-> candles[j].high]
<1>1. Last \in Nat /\ \A j \in 0..Last : candles[j].high \in Int
  BY DirectedFacts DEF C
<1>2. PICK a \in 0..i : R = a..i
  OBVIOUS
<1>3. \A j \in R : j \in 0..i /\ j \in 0..Last
  BY <1>1, <1>2
<1>4. \A j \in R : F[j] = candles[j].high /\ F[j] \in Int
  BY <1>1, <1>3
<1>5. Boxes!FindDefBoxPrices(curve, i).at = at
  <2>1. Boxes!FindDefBoxPrices(curve, i)
          = [high |-> top("high"), close |-> top("close"), open |-> top("open"), at |-> at]
    BY Zenon DEF Boxes!FindDefBoxPrices
  <2> HIDE DEF top, at
  <2> QED BY <2>1
<1> HIDE DEF F, R
<1>6. PICK k \in R : \A j \in R : F[j] <= F[k] /\ (j < k => F[j] < F[k])
  BY <1>1, <1>2, <1>4, FirstHighest
<1>7. top("high") = candles[k].high
  <2>1. candles[k]["high"] \in {candles[j]["high"] : j \in R} /\ \A j \in R : candles[j]["high"] <= candles[k]["high"]
    BY <1>4, <1>6
  <2>2. top("high") \in {candles[j]["high"] : j \in R} /\ \A j \in R : candles[j]["high"] <= top("high")
    BY <2>1
  <2> HIDE DEF top
  <2>3. PICK j \in R : top("high") = candles[j].high
    BY <2>2
  <2>4. candles[k].high <= top("high") /\ top("high") <= candles[k].high
    BY <2>1, <2>2, <2>3
  <2> QED BY <1>4, <2>3, <2>4
<1>8. at \in R
  <2>1. candles[k].high = top("high") /\ \A j \in R : j < k => candles[j].high < top("high")
    BY <1>4, <1>6, <1>7
  <2> HIDE DEF top
  <2> QED BY <2>1
<1> HIDE DEF at
<1> QED BY <1>3, <1>5, <1>8

\* The module of the boxes counts as every other one.
LEMMA BoxesCount == \A S : Boxes!Cardinality(S) = Cardinality(S)
BY Zenon DEF Boxes!Cardinality, Cardinality, Boxes!IsFiniteSet, IsFiniteSet

LEMMA DefBoxGrows ==
    ASSUME Directed(candles), NEW list, NEW count, NEW i \in 1..Last, Listed(list, i)
    PROVE  /\ OnlyDefs(list, Boxes!CheckAndCreateDefBox(list, count, i, DamOption)[1], i)
           /\ ~(C(i - 1).key > 0) \/ list[Len(list)].type # "support"
                => Boxes!CheckAndCreateDefBox(list, count, i, DamOption)[1] = list
<1> DEFINE known == Boxes!Cardinality({j \in DOMAIN list : list[j].at < i})
           p == Boxes!FindDefBoxPrices(list[known].curve, i)
           Entry == /\ Len(list) >= 2 /\ [j \in DOMAIN candles |-> candles[j].key][i - 1] > 0
                    /\ Boxes!IsDefBoxEntryCondition(list, i) /\ known > 0
           F == CHOOSE f : f = [j \in 0..(known - 1) |->
                  IF j = 0 THEN <<list, count>> ELSE Boxes!Damaged(f[j - 1], j, p, i, DamOption)]
<1>1. Boxes!CheckAndCreateDefBox(list, count, i, DamOption) = IF Entry THEN F[known - 1] ELSE <<list, count>>
  BY Zenon DEF Boxes!CheckAndCreateDefBox
<1>5. Entry => known > 0
  OBVIOUS
<1>8. Entry => C(i - 1).key > 0 /\ list[Len(list)].type = "support"
  <2>1. i \in Int /\ Last \in Nat
    BY DirectedFacts
  <2>2. i - 1 \in DOMAIN candles
    BY DirectedFacts
  <2> QED BY <2>2 DEF C, Boxes!IsDefBoxEntryCondition, Boxes!LastOf
<1> HIDE DEF Entry
<1>6. i \in Nat /\ i \in 0..Last
  BY DirectedFacts
<1>7. DOMAIN list = 1..Len(list) /\ Len(list) \in Nat
  BY ListedFacts
<1>2. known \in 0..Len(list)
  <2> DEFINE old == {j \in DOMAIN list : list[j].at < i}
  <2>2. IsFiniteSet(DOMAIN list) /\ Cardinality(DOMAIN list) = Len(list)
    <3> DEFINE n == Len(list)
    <3>1. n \in Nat
      BY <1>7
    <3> HIDE DEF n
    <3>2. IsFiniteSet(1..n) /\ Cardinality(1..n) = n
      BY <3>1, FS_Interval
    <3> QED BY <1>7, <3>2 DEF n
  <2>3. IsFiniteSet(old) /\ Cardinality(old) <= Cardinality(DOMAIN list)
    BY <2>2, FS_Subset
  <2>4. Cardinality(old) \in Nat
    BY <2>3, FS_CardinalityType
  <2>5. known = Cardinality(old)
    BY BoxesCount
  <2> HIDE DEF known, old
  <2> QED BY <1>7, <2>2, <2>3, <2>4, <2>5
<1>3. CASE Entry
  <2>1. known - 1 \in Nat /\ known \in DOMAIN list /\ known - 1 <= Len(list)
    <3> HIDE DEF known
    <3> QED BY <1>2, <1>3, <1>5, <1>7
  <2>4. p.at \in 0..i
    <3> HIDE DEF known
    <3>1. list[known].curve \in 0..i
      BY <2>1 DEF Listed
    <3> QED BY <1>6, <3>1, DefBoxLies
  <2> HIDE DEF known, p
  <2>2. \E f : Touches(f, list, count, p, i, known - 1)
    BY <2>1, TouchesExist
  <2>3. Touches(F, list, count, p, i, known - 1)
    BY <2>2 DEF Touches
  <2> HIDE DEF F
  <2>5. OnlyDefs(list, F[known - 1][1], i)
    BY <1>6, <2>1, <2>3, <2>4, TouchesGrow
  <2> QED BY <1>1, <1>3, <1>8, <2>5
<1> HIDE DEF known, p, F
<1>9. ~Entry => Boxes!CheckAndCreateDefBox(list, count, i, DamOption)[1] = list
  BY <1>1
<1>4. CASE ~Entry
  BY <1>4, <1>6, <1>9, GrownSame, OnlyDefsSame
<1> QED BY <1>3, <1>4, <1>8, <1>9

LEMMA TurnGrows ==
    ASSUME Directed(candles), NEW list, NEW i \in 6..Last, Listed(list, i), NEW from \in Nat
    PROVE  Grown(list, Boxes!AddTurn(list, from, i, C(i).key), i)
<1> DEFINE prev == [j \in DOMAIN candles |-> candles[j].key][i - 1]
           next == C(i).key
           high == Boxes!FindHighestPrice(from, i)
           low == Boxes!FindLowestPrice(from, i)
           new == Boxes!AddTurn(list, from, i, next)
<1>7. Last \in Nat /\ i \in Nat /\ i \in 1..Last
  BY DirectedFacts
<1>1. prev \in {-1, 1} /\ next \in {-1, 1}
  <2>1. i \in 5..Last /\ i - 1 \in 5..Last /\ i - 1 \in DOMAIN candles
    BY <1>7, DirectedFacts
  <2> QED BY <2>1, DirectedFacts DEF C
<1>8. high \in {-1} \cup 0..i /\ low \in {-1} \cup 0..i
  <2>1. \A j \in from..(i - 1) : j \in 0..i
    BY <1>7
  <2> HIDE DEF high, low
  <2> QED BY <1>7, <2>1, ExtremesAre DEF high, low
<1>2. \/ new = list
      \/ high >= 0 /\ new = Boxes!AddHighBox(list, high, i)
      \/ low >= 0 /\ new = Boxes!AddLowBox(list, low, i)
  <2>1. new = CASE next = prev -> list
                [] prev > 0 /\ next # prev -> IF high >= 0 THEN Boxes!AddHighBox(list, high, i) ELSE list
                [] prev < 0 /\ next # prev -> IF low >= 0 THEN Boxes!AddLowBox(list, low, i) ELSE list
    BY Zenon DEF Boxes!AddTurn
  <2> HIDE DEF prev, next, high, low, new
  <2>2. CASE next = prev
    BY <1>1, <2>1, <2>2
  <2>3. CASE prev > 0 /\ next # prev
    BY <1>1, <2>1, <2>3
  <2>4. CASE prev < 0 /\ next # prev
    BY <1>1, <2>1, <2>4
  <2> QED BY <1>1, <2>2, <2>3, <2>4
<1> HIDE DEF new, high, low
<1>9. \A j \in 0..i : candles[j].high \in Int /\ candles[j].low \in Int
  <2>1. \A j \in 0..i : j \in 0..Last
    BY <1>7
  <2> QED BY <2>1, DirectedFacts DEF C
<1>10. << >> \in Seq(DOMAIN list)
  BY EmptySeq
<1>3. high >= 0 => Grown(list, Boxes!AddHighBox(list, high, i), i)
  <2> HAVE high >= 0
  <2>1. high \in 0..i
    BY <1>8
  <2> QED BY <1>7, <1>9, <1>10, <2>1, GrownSame, ListedAppend DEF Boxes!AddHighBox
<1>4. low >= 0 => Grown(list, Boxes!AddLowBox(list, low, i), i)
  <2> HAVE low >= 0
  <2>1. low \in 0..i
    BY <1>8
  <2> QED BY <1>7, <1>9, <1>10, <2>1, GrownSame, ListedAppend DEF Boxes!AddLowBox
<1>5. Grown(list, list, i)
  BY <1>7, GrownSame
<1>6. Grown(list, new, i)
  BY <1>2, <1>3, <1>4, <1>5
<1> QED BY <1>6 DEF new

TrackOK(t, i) == DOMAIN t = {"boxes", "from", "defs"} /\ Listed(t.boxes, i) /\ t.from \in Nat

\* A candle of any of the three loops: boxes only come to the list.
LEMMA TrackGrows ==
    ASSUME Directed(candles), NEW t, NEW i \in 6..Last, TrackOK(t, i), NEW order \in Orders
    PROVE  TrackOK(Track(order, t, i), i) /\ Grown(t.boxes, Track(order, t, i).boxes, i)
<1>8. i \in Nat /\ i \in 1..Last
  BY DirectedFacts
<1>1. ASSUME NEW s, TrackOK(s, i)
      PROVE  TrackOK(WithTurn(s, i), i) /\ Grown(s.boxes, WithTurn(s, i).boxes, i)
  <2> DEFINE l == Boxes!AddTurn(s.boxes, s.from, i, C(i).key)
  <2>1. Grown(s.boxes, l, i)
    BY <1>1, TurnGrows DEF TrackOK
  <2>2. WithTurn(s, i) = [s EXCEPT !.boxes = l]
    BY DEF WithTurn
  <2> HIDE DEF l
  <2> QED BY <1>1, <2>1, <2>2 DEF TrackOK, Grown
<1>2. ASSUME NEW s, TrackOK(s, i)
      PROVE  TrackOK(WithDefBox(s, i), i) /\ Grown(s.boxes, WithDefBox(s, i).boxes, i)
  <2> DEFINE r == Boxes!CheckAndCreateDefBox(s.boxes, s.defs, i, DamOption)
  <2>1. Grown(s.boxes, r[1], i)
    BY <1>2, <1>8, DefBoxGrows DEF TrackOK, OnlyDefs
  <2>2. WithDefBox(s, i) = [s EXCEPT !.boxes = r[1], !.defs = r[2]]
    BY DEF WithDefBox
  <2> HIDE DEF r
  <2> QED BY <1>2, <2>1, <2>2 DEF TrackOK, Grown
<1>3. ASSUME NEW s, TrackOK(s, i)
      PROVE  TrackOK(WithLeg(s, i), i) /\ Grown(s.boxes, WithLeg(s, i).boxes, i)
  <2> DEFINE b == s.boxes[Len(s.boxes)]
             from == IF C(i - 1).key # C(i).key /\ s.boxes # << >> THEN Boxes!CalculateExposition(b) ELSE s.from
  <2>1. WithLeg(s, i) = [s EXCEPT !.from = from]
    BY DEF WithLeg
  <2>2. Grown(s.boxes, s.boxes, i)
    BY <1>3, <1>8, GrownSame DEF TrackOK
  <2>3. from \in Nat
    <3>1. CASE C(i - 1).key # C(i).key /\ s.boxes # << >>
      <4>1. Listed(s.boxes, i) /\ Len(s.boxes) \in Nat /\ DOMAIN s.boxes = 1..Len(s.boxes)
        BY <1>3, ListedFacts DEF TrackOK
      <4>2. Len(s.boxes) # 0
        BY <3>1, <4>1, EmptySeq DEF Listed, Sequence
      <4>3. Len(s.boxes) \in DOMAIN s.boxes
        BY <4>1, <4>2
      <4>4. b.at \in 0..i /\ b.curve \in 0..i
        BY <4>1, <4>3 DEF Listed
      <4> HIDE DEF b
      <4>5. Boxes!CalculateExposition(b) \in Nat
        BY <1>8, <4>4 DEF Boxes!CalculateExposition
      <4> QED BY <3>1, <4>5
    <3>2. CASE ~(C(i - 1).key # C(i).key /\ s.boxes # << >>)
      <4>1. from = s.from
        BY <3>2
      <4> QED BY <1>3, <4>1 DEF TrackOK
    <3> QED BY <3>1, <3>2
  <2> HIDE DEF from
  <2> QED BY <1>3, <2>1, <2>2, <2>3 DEF TrackOK
<1>4. \A a, b, c : Listed(a, i) /\ Grown(a, b, i) /\ Grown(b, c, i) => Grown(a, c, i)
  BY GrownOn
<1>5. CASE order = "plain"
  <2>1. Track(order, t, i) = WithLeg(WithTurn(t, i), i)
    BY <1>5 DEF Track
  <2> QED BY <1>1, <1>3, <1>4, <2>1 DEF TrackOK
<1>6. CASE order = "pattern"
  <2>1. Track(order, t, i) = WithLeg(WithDefBox(WithTurn(t, i), i), i)
    BY <1>6 DEF Track
  <2>2. TrackOK(WithDefBox(WithTurn(t, i), i), i) /\ Grown(t.boxes, WithDefBox(WithTurn(t, i), i).boxes, i)
    BY <1>1, <1>2, <1>4 DEF TrackOK
  <2> QED BY <1>3, <1>4, <2>1, <2>2 DEF TrackOK
<1>7. CASE order = "engine"
  <2>1. Track(order, t, i) = WithLeg(WithTurn(WithDefBox(t, i), i), i)
    BY <1>7 DEF Track
  <2>2. TrackOK(WithTurn(WithDefBox(t, i), i), i) /\ Grown(t.boxes, WithTurn(WithDefBox(t, i), i).boxes, i)
    BY <1>1, <1>2, <1>4 DEF TrackOK
  <2> QED BY <1>3, <1>4, <2>1, <2>2 DEF TrackOK
<1> QED BY <1>5, <1>6, <1>7 DEF Orders

LEMMA EmptyTrackOK ==
    ASSUME NEW i
    PROVE  TrackOK(EmptyTrack, i) /\ EmptyTrack.boxes = << >>
<1>1. << >> \in Seq({}) /\ DOMAIN << >> = {}
  BY EmptySeq, LenProperties
<1>2. Listed(<< >>, i)
  BY <1>1 DEF Listed, Sequence
<1> QED BY <1>2 DEF TrackOK, EmptyTrack

\* A later candle.
LEMMA TrackLater ==
    ASSUME NEW t, NEW i \in Nat, TrackOK(t, i)
    PROVE  TrackOK(t, i + 1)
<1>1. 0..i \subseteq 0..(i + 1)
  OBVIOUS
<1> QED BY <1>1 DEF TrackOK, Listed

LEMMA LastDefBox ==
    ASSUME NEW list, NEW i, Listed(list, i)
    PROVE  LET d == FindLastDefBoxIndex(list)
           IN  /\ d \in 0..Len(list)
               /\ d > 0 => IsDef(list[d])
               /\ \A k \in 1..Len(list) : IsDef(list[k]) => k <= d
<1> DEFINE defs == {k \in DOMAIN list : IsDef(list[k])}
<1>1. DOMAIN list = 1..Len(list) /\ Len(list) \in Nat
  BY ListedFacts
<1>2. FindLastDefBoxIndex(list) = IF defs = {} THEN 0 ELSE HighestOf(defs)
  BY Zenon DEF FindLastDefBoxIndex
<1>3. CASE defs = {}
  BY <1>1, <1>2, <1>3
<1>4. CASE defs # {}
  <2>1. defs \subseteq Int /\ \A k \in defs : k <= Len(list)
    BY <1>1
  <2>3. Len(list) \in Int
    BY <1>1
  <2> HIDE DEF defs
  <2>2. HighestOf(defs) \in defs /\ \A x \in defs : x <= HighestOf(defs)
    BY <1>4, <2>1, <2>3, HighestIs
  <2> QED BY <1>1, <1>2, <1>4, <2>2 DEF defs
<1> QED BY <1>3, <1>4

\* A later DefBox than the last one is of the candle that found it.
LEMMA NewDefBox ==
    ASSUME NEW old, NEW new, NEW i \in Nat, Listed(old, i), Grown(old, new, i)
    PROVE  /\ FindLastDefBoxIndex(old) <= FindLastDefBoxIndex(new)
           /\ FindLastDefBoxIndex(new) > FindLastDefBoxIndex(old)
                => new[FindLastDefBoxIndex(new)].curve = i
<1> DEFINE d == FindLastDefBoxIndex(old)
           e == FindLastDefBoxIndex(new)
<1>1. /\ d \in 0..Len(old) /\ (d > 0 => IsDef(old[d])) /\ \A k \in 1..Len(old) : IsDef(old[k]) => k <= d
      /\ Len(old) \in Nat
  BY LastDefBox, ListedFacts
<1>2. /\ e \in 0..Len(new) /\ (e > 0 => IsDef(new[e])) /\ \A k \in 1..Len(new) : IsDef(new[k]) => k <= e
      /\ Len(new) \in Nat
  BY LastDefBox, ListedFacts DEF Grown
<1> HIDE DEF d, e
<1>3. /\ Len(old) <= Len(new)
      /\ \A k \in 1..Len(old) : IsDef(old[k]) <=> IsDef(new[k])
      /\ \A k \in (Len(old) + 1)..Len(new) : new[k].curve = i
  BY DEF Grown, SameBox
<1>4. d <= e
  <2>1. CASE d = 0
    BY <1>2, <2>1
  <2>2. CASE d > 0
    <3>1. d \in 1..Len(old) /\ d \in 1..Len(new)
      BY <1>1, <1>2, <1>3, <2>2
    <3> QED BY <1>1, <1>2, <1>3, <2>2, <3>1
  <2> QED BY <1>1, <2>1, <2>2
<1>5. ASSUME e > d PROVE new[e].curve = i
  <2>1. e \in 1..Len(new) /\ IsDef(new[e])
    BY <1>1, <1>2, <1>5
  <2>2. e \notin 1..Len(old)
    BY <1>1, <1>2, <1>3, <1>5, <2>1
  <2>3. e \in (Len(old) + 1)..Len(new)
    BY <1>1, <1>2, <2>1, <2>2
  <2> QED BY <1>3, <2>3
<1> QED BY <1>4, <1>5 DEF d, e

-----------------------------------------------------------------------------
(* A W and a DefBox, or the DefBox alone. *)

OnCombinedTape == candles \in CombinedTapes

LEMMA CombinedTapeFacts ==
    ASSUME OnCombinedTape
    PROVE  Directed(candles) /\ Last \in Nat /\ Last >= 5
BY CombinedAssumption, DirectedFacts DEF OnCombinedTape

\* BreakOf, of the candle of a W and the price of its DefBox.
OverIn(signal, price, n) ==
    {j \in (signal + 1)..LowestOf({signal + BreakTimeout, n}) : C(j).close > price}
FirstOver(signal, price, n) ==
    IF OverIn(signal, price, n) = {} THEN 0 ELSE LowestOf(OverIn(signal, price, n))

\* The DefBox is left to the W at candle j, as the list ends at n.
Claims(signal, price, j, n) ==
    /\ signal <= j
    /\ j <= (IF FirstOver(signal, price, n) = 0 THEN signal + BreakTimeout + 1
             ELSE FirstOver(signal, price, n))

LEMMA FirstOverIs ==
    ASSUME NEW signal \in Nat, NEW price, NEW n \in Nat
    PROVE  LET b == FirstOver(signal, price, n)
           IN  \/ /\ b = 0
                  /\ \A j \in (signal + 1)..n : j <= signal + BreakTimeout => ~(C(j).close > price)
               \/ /\ b \in (signal + 1)..n /\ b <= signal + BreakTimeout /\ C(b).close > price
                  /\ \A j \in (signal + 1)..n :
                       j <= signal + BreakTimeout /\ C(j).close > price => b <= j
<1> DEFINE over == OverIn(signal, price, n)
           end == LowestOf({signal + BreakTimeout, n})
<1>1. BreakTimeout \in Nat
  BY CombinedAssumption
<1>2. end \in Int /\ \A j \in Int : j <= end <=> j <= n /\ j <= signal + BreakTimeout
  <2>1. CASE n <= signal + BreakTimeout
    <3>1. end = n
      BY <1>1, <2>1, LowestFound
    <3> HIDE DEF end
    <3> QED BY <1>1, <2>1, <3>1
  <2>2. CASE signal + BreakTimeout <= n
    <3> DEFINE m == signal + BreakTimeout
               S == {m, n}
    <3>2. S \subseteq Int /\ m \in S /\ \A x \in S : m <= x
      BY <1>1, <2>2
    <3>3. LowestOf(S) = m
      <4> HIDE DEF S, m
      <4> QED BY <3>2, LowestFound
    <3>1. end = signal + BreakTimeout
      BY <3>3
    <3> HIDE DEF end
    <3> QED BY <1>1, <2>2, <3>1
  <2> QED BY <1>1, <2>1, <2>2
<1>3. over = {j \in (signal + 1)..end : C(j).close > price}
  BY DEF OverIn
<1>4. FirstOver(signal, price, n) = IF over = {} THEN 0 ELSE LowestOf(over)
  BY DEF FirstOver
<1> HIDE DEF end, over
<1>5. CASE over = {}
  <2>1. \A j \in (signal + 1)..n : j <= signal + BreakTimeout => j \in (signal + 1)..end
    BY <1>2
  <2> QED BY <1>3, <1>4, <1>5, <2>1
<1>6. CASE over # {}
  <2>1. signal + 1 \in Int /\ over \subseteq Int /\ \A x \in over : signal + 1 <= x
    BY <1>3
  <2>2. LowestOf(over) \in over /\ \A x \in over : LowestOf(over) <= x
    BY <1>6, <2>1, LowestIs
  <2>3. \A j : j \in over <=> j \in (signal + 1)..n /\ j <= signal + BreakTimeout /\ C(j).close > price
    BY <1>2, <1>3
  <2> QED BY <1>4, <1>6, <2>2, <2>3
<1> QED BY <1>5, <1>6

\* What a W has claimed stays claimed as the list grows.
LEMMA ClaimsStay ==
    ASSUME NEW signal \in Nat, NEW price, NEW n \in Nat, NEW j \in 0..n, Claims(signal, price, j, n)
    PROVE  Claims(signal, price, j, n + 1)
<1> DEFINE b == FirstOver(signal, price, n)
           c == FirstOver(signal, price, n + 1)
<1>1. BreakTimeout \in Nat
  BY CombinedAssumption
<1>2. \/ /\ b = 0
         /\ \A k \in (signal + 1)..n : k <= signal + BreakTimeout => ~(C(k).close > price)
      \/ /\ b \in (signal + 1)..n /\ b <= signal + BreakTimeout /\ C(b).close > price
         /\ \A k \in (signal + 1)..n :
              k <= signal + BreakTimeout /\ C(k).close > price => b <= k
  BY FirstOverIs
<1>3. \/ /\ c = 0
         /\ \A k \in (signal + 1)..(n + 1) : k <= signal + BreakTimeout => ~(C(k).close > price)
      \/ /\ c \in (signal + 1)..(n + 1) /\ c <= signal + BreakTimeout /\ C(c).close > price
         /\ \A k \in (signal + 1)..(n + 1) :
              k <= signal + BreakTimeout /\ C(k).close > price => c <= k
  BY FirstOverIs
<1>4. signal <= j /\ j <= (IF b = 0 THEN signal + BreakTimeout + 1 ELSE b)
  BY DEF Claims
<1> HIDE DEF b, c
<1>5. j <= (IF c = 0 THEN signal + BreakTimeout + 1 ELSE c)
  <2>1. CASE c = 0
    BY <1>1, <1>2, <1>4, <2>1
  <2>2. CASE c # 0
    <3>1. c \in (signal + 1)..(n + 1) /\ c <= signal + BreakTimeout /\ C(c).close > price
      BY <1>3, <2>2
    <3>2. CASE c = n + 1
      BY <2>2, <3>2
    <3>3. CASE c # n + 1
      <4>1. c \in (signal + 1)..n
        BY <3>1, <3>3
      <4>2. b # 0 /\ b <= c
        BY <1>2, <3>1, <4>1
      <4> QED BY <1>2, <1>4, <2>2, <3>1, <4>2
    <3> QED BY <3>2, <3>3
  <2> QED BY <2>1, <2>2
<1> QED BY <1>4, <1>5 DEF Claims, c

\* A W that still waits has a claim to the candle.
LEMMA WaitingClaims ==
    ASSUME NEW signal \in Nat, NEW price, NEW n \in Nat, signal <= n, n <= signal + BreakTimeout + 1,
           \A j \in (signal + 1)..(n - 1) : ~(C(j).close > price)
    PROVE  Claims(signal, price, n, n)
<1> DEFINE b == FirstOver(signal, price, n)
<1>1. BreakTimeout \in Nat
  BY CombinedAssumption
<1>2. b = 0 \/ (b \in (signal + 1)..n /\ C(b).close > price)
  BY FirstOverIs
<1> HIDE DEF b
<1>3. b = 0 \/ b = n
  <2>1. b \in (signal + 1)..n => b = n \/ b \in (signal + 1)..(n - 1)
    OBVIOUS
  <2> QED BY <1>2, <2>1
<1>4. n <= (IF b = 0 THEN signal + BreakTimeout + 1 ELSE b)
  BY <1>3
<1> QED BY <1>4 DEF Claims, b

\* What the loop keeps: the waiting Ws have not been broken out of, and a close over the DefBox
\* that has not been bought is a W's.
Claimed(d, j) ==
    \E w \in combined.ws : w.def = d /\ Claims(w.signal, combined.track.boxes[d].price, j, pos)

FirstAfter(d, last) ==
    \A j \in (combined.track.boxes[d].curve + 1)..last :
      C(j).close > combined.track.boxes[d].price => Claimed(d, j)

StillWaits(w) ==
    /\ w.def > 0 /\ pos - w.signal <= BreakTimeout
    /\ \A j \in (w.signal + 1)..pos : ~(C(j).close > combined.track.boxes[w.def].price)

CombinedInv ==
    lab = "combined" =>
      LET boxes == combined.track.boxes
      IN  /\ OnCombinedTape /\ pos \in 5..Last
          /\ TrackOK(combined.track, pos)
          /\ combined.current = FindLastDefBoxIndex(boxes)
          /\ \A w \in combined.ws : w.signal \in 0..pos /\ w.def \in 0..Len(boxes)
          /\ \A w \in combined.pending : w \in combined.ws /\ StillWaits(w)
          /\ combined.current > 0 /\ ~combined.broken => FirstAfter(combined.current, pos)
          /\ \A s \in combined.out : s.type = "S1" =>
               s.w.def \in 1..Len(boxes) /\ s.break \in 0..pos /\ FirstAfter(s.w.def, s.break - 1)

LEMMA BreakOfIs ==
    ASSUME NEW w, NEW n
    PROVE  BreakOf(w, n) = FirstOver(w.signal, combined.track.boxes[w.def].price, n)
BY DEF BreakOf, FirstOver, OverIn

LEMMA DefBoxBefore ==
    ASSUME NEW list, NEW i, Listed(list, i), NEW before
    PROVE  FindDefBoxBefore(list, before) \in 0..Len(list)
<1> DEFINE head == {k \in DOMAIN list : \A j \in 1..k : list[j].at < before}
           defs == {k \in head : IsDef(list[k])}
<1>1. DOMAIN list = 1..Len(list) /\ Len(list) \in Nat
  BY ListedFacts
<1>2. FindDefBoxBefore(list, before) = IF defs = {} THEN 0 ELSE HighestOf(defs)
  BY Zenon DEF FindDefBoxBefore
<1>3. Len(list) \in Int /\ defs \subseteq Int /\ \A k \in defs : k <= Len(list) /\ k \in 1..Len(list)
  BY <1>1
<1> HIDE DEF defs
<1>4. CASE defs = {}
  BY <1>1, <1>2, <1>4
<1>5. CASE defs # {}
  <2>1. HighestOf(defs) \in defs
    BY <1>3, <1>5, HighestIs
  <2>2. HighestOf(defs) \in 1..Len(list)
    BY <1>3, <2>1
  <2>3. FindDefBoxBefore(list, before) = HighestOf(defs)
    BY <1>2, <1>5
  <2> QED BY <1>1, <2>2, <2>3
<1> QED BY <1>4, <1>5

LEMMA CombinedInvInit == Init => CombinedInv
<1> SUFFICES ASSUME Init, lab = "combined" PROVE CombinedInv
  BY DEF CombinedInv
<1>1. OnCombinedTape /\ pos = 5 /\ combined = EmptyCombined
  BY DEF Init, CombinedInit, OnCombinedTape, LoopStart, Boxes!First
<1>2. pos \in 5..Last /\ pos \in Nat
  BY <1>1, CombinedTapeFacts
<1>3. /\ combined.track = EmptyTrack /\ combined.current = 0
      /\ combined.ws = {} /\ combined.pending = {} /\ combined.out = {}
  BY <1>1 DEF EmptyCombined
<1>4. TrackOK(combined.track, pos) /\ combined.track.boxes = << >>
  BY <1>3, EmptyTrackOK
<1>5. FindLastDefBoxIndex(combined.track.boxes) = 0
  <2>1. Listed(combined.track.boxes, pos) /\ Len(combined.track.boxes) = 0
    BY <1>4, EmptySeq DEF TrackOK
  <2>2. FindLastDefBoxIndex(combined.track.boxes) \in 0..0
    BY <2>1, LastDefBox
  <2> QED BY <2>2
<1> QED BY <1>1, <1>2, <1>3, <1>4, <1>5 DEF CombinedInv

\* One candle of the combined search.
LEMMA CombinedInvMoves ==
    ASSUME CombinedInv, lab = "combined", Next
    PROVE  CombinedInv'
<1> DEFINE i == pos + 1
           c == combined
           old == c.track.boxes
           next == Track("pattern", c.track, i)
           new == next.boxes
           ws == WsAt(c.track, new, i)
           expecting == c.pending \cup {w \in ws : w.def > 0}
           alone == Alone(c, new, expecting, i)
           done == {w \in expecting : Resolved(new, w, i) # {}}
           out == c.out \cup alone \cup UNION {Resolved(new, w, i) : w \in done}
           e == FindLastDefBoxIndex(new)
           Mine(d, j) == \E w \in c.ws \cup ws : w.def = d /\ Claims(w.signal, new[d].price, j, i)
           Settled(d, last) == \A j \in (new[d].curve + 1)..last : C(j).close > new[d].price => Mine(d, j)
           Waits(w) == /\ w.def > 0 /\ i - w.signal <= BreakTimeout
                       /\ \A j \in (w.signal + 1)..i : ~(C(j).close > new[w.def].price)
<1>1. /\ OnCombinedTape /\ pos \in 5..Last /\ TrackOK(c.track, pos)
      /\ c.current = FindLastDefBoxIndex(old)
      /\ \A w \in c.ws : w.signal \in 0..pos /\ w.def \in 0..Len(old)
      /\ \A w \in c.pending : w \in c.ws /\ StillWaits(w)
      /\ c.current > 0 /\ ~c.broken => FirstAfter(c.current, pos)
      /\ \A s \in c.out : s.type = "S1" =>
           s.w.def \in 1..Len(old) /\ s.break \in 0..pos /\ FirstAfter(s.w.def, s.break - 1)
  BY DEF CombinedInv
<1>2. /\ lab' = lab /\ pos < Last /\ pos' = i /\ candles' = candles
      /\ combined' = Renewed([track |-> next, pending |-> expecting \ done, current |-> c.current,
                              broken |-> c.broken \/ alone # {}, ws |-> c.ws \cup ws, out |-> out], new)
  <2>1. CombinedStep /\ lab' = lab
    BY DEF Next
  <2> QED BY <2>1 DEF CombinedStep
<1>3. /\ pos \in Nat /\ i \in Nat /\ i \in 5..Last /\ pos <= i
      /\ Last \in Nat /\ Directed(candles) /\ i \in 6..Last /\ BreakTimeout \in Nat
  <2>1. Last \in Nat /\ Directed(candles)
    BY <1>1, CombinedTapeFacts
  <2>2. pos \in Nat /\ i \in Nat /\ i \in 5..Last /\ i \in 6..Last /\ pos <= i
    BY <1>1, <1>2, <2>1
  <2> QED BY <2>1, <2>2, CombinedAssumption
<1>4. TrackOK(next, i) /\ Grown(old, new, i)
  <2>1. TrackOK(c.track, i)
    BY <1>1, <1>3, TrackLater
  <2> HIDE DEF i
  <2> QED BY <1>3, <2>1, TrackGrows DEF Orders
<1>5. Listed(old, i) /\ Listed(new, i)
  <2>1. TrackOK(c.track, i)
    BY <1>1, <1>3, TrackLater
  <2> QED BY <1>4, <2>1 DEF TrackOK
<1>6. /\ Len(old) \in Nat /\ Len(new) \in Nat /\ Len(old) <= Len(new)
      /\ DOMAIN old = 1..Len(old) /\ DOMAIN new = 1..Len(new)
      /\ \A k \in 1..Len(old) : new[k].price = old[k].price /\ new[k].curve = old[k].curve
      /\ \A k \in 1..Len(old) : old[k].curve \in 0..pos /\ k \in 1..Len(new)
  <2>1. /\ Len(old) \in Nat /\ Len(new) \in Nat
        /\ DOMAIN old = 1..Len(old) /\ DOMAIN new = 1..Len(new)
    BY <1>5, ListedFacts
  <2>2. Len(old) <= Len(new)
    BY <1>4 DEF Grown
  <2>3. \A k \in 1..Len(old) : old[k].curve \in 0..pos
    BY <1>1, <2>1 DEF TrackOK, Listed
  <2> QED BY <1>4, <2>1, <2>2, <2>3 DEF Grown, SameBox
<1>7. /\ e \in 0..Len(new) /\ c.current \in 0..Len(old) /\ c.current <= e
      /\ e > c.current => new[e].curve = i
  BY <1>1, <1>3, <1>4, <1>5, LastDefBox, NewDefBox
<1>8. \A w \in ws : w.signal = i /\ w.def \in 0..Len(new)
  <2>1. \A w \in ws : w.signal = i /\ \E p : w.def = FindDefBoxBefore(new, p)
    BY DEF WsAt
  <2> HIDE DEF i, ws, new
  <2> QED BY <1>5, <2>1, DefBoxBefore
<1> HIDE DEF next, ws, alone, done, e, new
<1>9. /\ combined'.track = next /\ combined'.pending = expecting \ done
      /\ combined'.ws = c.ws \cup ws /\ combined'.out = out
      /\ combined'.current = e
      /\ IF e > c.current THEN combined'.broken = FALSE ELSE combined'.broken = (c.broken \/ alone # {})
  <2> DEFINE d == [track |-> next, pending |-> expecting \ done, current |-> c.current,
                   broken |-> c.broken \/ alone # {}, ws |-> c.ws \cup ws, out |-> out]
  <2>1. /\ d.track = next /\ d.pending = expecting \ done /\ d.ws = c.ws \cup ws /\ d.out = out
        /\ d.current = c.current /\ d.broken = (c.broken \/ alone # {})
        /\ DOMAIN d = {"track", "pending", "current", "broken", "ws", "out"}
    OBVIOUS
  <2>2. combined' = IF e > c.current THEN [d EXCEPT !.current = e, !.broken = FALSE] ELSE d
    BY <1>2 DEF Renewed, e
  <2> HIDE DEF d, c, expecting, out
  <2>3. CASE e > c.current
    BY <2>1, <2>2, <2>3
  <2>4. CASE ~(e > c.current)
    <3>1. e = c.current
      BY <1>6, <1>7, <2>4 DEF c
    <3> QED BY <2>1, <2>2, <2>4, <3>1
  <2> QED BY <2>3, <2>4
<1>10. combined'.track.boxes = new
  BY <1>9 DEF new
<1>11. \A j : C(j)' = C(j)
  BY <1>2 DEF C
<1>12. \A w \in combined'.ws : w.signal \in 0..i /\ w.def \in 0..Len(new)
  BY <1>1, <1>3, <1>6, <1>8, <1>9
<1>13. ASSUME NEW d \in 1..Len(old), NEW j \in 0..pos, Claimed(d, j)
       PROVE  Mine(d, j)
  <2>1. PICK w \in c.ws : w.def = d /\ Claims(w.signal, old[d].price, j, pos)
    BY <1>13 DEF Claimed
  <2>2. w.signal \in Nat /\ w \in c.ws \cup ws /\ new[d].price = old[d].price
    BY <1>1, <1>3, <1>6, <2>1
  <2>3. Claims(w.signal, new[d].price, j, i)
    BY <1>3, <2>1, <2>2, ClaimsStay
  <2> HIDE DEF i
  <2> QED BY <2>1, <2>2, <2>3
<1>14. ASSUME NEW d \in 1..Len(old), NEW last \in Int, last <= pos, FirstAfter(d, last)
       PROVE  Settled(d, last)
  <2> SUFFICES ASSUME NEW j \in (new[d].curve + 1)..last, C(j).close > new[d].price
               PROVE  Mine(d, j)
    OBVIOUS
  <2>1. new[d].curve = old[d].curve /\ new[d].price = old[d].price /\ old[d].curve \in 0..pos
    BY <1>6
  <2>2. Claimed(d, j)
    BY <1>14, <2>1 DEF FirstAfter
  <2>3. j \in 0..pos
    BY <1>3, <1>14, <2>1
  <2> HIDE DEF Mine
  <2> QED BY <1>13, <2>2, <2>3
<1>15. \A w \in expecting \ done : w \in c.ws \cup ws /\ Waits(w)
  <2> TAKE w \in expecting \ done
  <2>1. w \in expecting /\ Resolved(new, w, i) = {}
    BY DEF done
  <2>2. ~(i - w.signal > BreakTimeout) /\ ~(i > w.signal /\ C(i).close > new[w.def].price)
    BY <2>1 DEF Resolved
  <2>3. CASE w \in c.pending
    <3>1. w \in c.ws /\ w.def > 0 /\ w.signal \in 0..pos /\ w.def \in 0..Len(old)
          /\ \A j \in (w.signal + 1)..pos : ~(C(j).close > old[w.def].price)
      BY <1>1, <2>3 DEF StillWaits
    <3>2. w.def \in 1..Len(old) /\ new[w.def].price = old[w.def].price
      BY <1>6, <3>1
    <3>3. \A j \in (w.signal + 1)..i : ~(C(j).close > new[w.def].price)
      <4> TAKE j \in (w.signal + 1)..i
      <4>1. j = i \/ j \in (w.signal + 1)..pos
        BY <1>3, <3>1
      <4>2. i > w.signal
        BY <1>3, <3>1
      <4> QED BY <2>2, <3>1, <3>2, <4>1, <4>2
    <3>4. i - w.signal <= BreakTimeout
      BY <1>3, <2>2, <3>1
    <3> QED BY <3>1, <3>3, <3>4
  <2>4. CASE w \in ws /\ w.def > 0
    <3>1. w.signal = i /\ (i + 1)..i = {} /\ i - i <= BreakTimeout
      BY <1>3, <1>8, <2>4
    <3> HIDE DEF i
    <3> QED BY <2>4, <3>1
  <2> QED BY <2>1, <2>3, <2>4
\* A close over the current DefBox that does not buy it is the claim of a W.
<1>16. ASSUME c.current > 0, ~c.broken, alone = {}, C(i).close > new[c.current].price
       PROVE  Mine(c.current, i)
  <2>1. PICK w \in expecting : w.def = c.current
    BY <1>16 DEF alone, Alone
  <2>2. CASE w \in c.pending
    <3>1. w \in c.ws /\ w.signal \in 0..pos /\ w.def \in 1..Len(old) /\ pos - w.signal <= BreakTimeout
          /\ \A j \in (w.signal + 1)..pos : ~(C(j).close > old[w.def].price)
      BY <1>1, <1>6, <2>2 DEF StillWaits
    <3>2. new[w.def].price = old[w.def].price
      BY <1>6, <3>1
    <3>3. w.signal \in Nat /\ w.signal <= i /\ i <= w.signal + BreakTimeout + 1 /\ i - 1 = pos
      BY <1>3, <3>1
    <3> HIDE DEF i
    <3>4. Claims(w.signal, new[w.def].price, i, i)
      BY <1>3, <3>1, <3>2, <3>3, WaitingClaims
    <3> QED BY <2>1, <3>1, <3>4
  <2>3. CASE w \in ws
    <3>1. w.signal = i /\ (i + 1)..(i - 1) = {} /\ i <= i /\ i <= i + BreakTimeout + 1
      BY <1>3, <1>8, <2>3
    <3> HIDE DEF i
    <3>2. Claims(w.signal, new[w.def].price, i, i)
      BY <1>3, <3>1, WaitingClaims
    <3> QED BY <2>1, <2>3, <3>2
  <2> QED BY <2>1, <2>2, <2>3
<1>17. c.current > 0 => c.current \in 1..Len(old)
  BY <1>6, <1>7
<1> HIDE DEF Mine
<1>18. combined'.current > 0 /\ ~combined'.broken => Settled(e, i)
  <2> HAVE combined'.current > 0 /\ ~combined'.broken
  <2>1. CASE e > c.current
    <3>1. new[e].curve = i /\ (i + 1)..i = {}
      BY <1>3, <1>7, <2>1
    <3> HIDE DEF i
    <3> QED BY <3>1
  <2>2. CASE ~(e > c.current)
    <3>1. e = c.current /\ c.current > 0 /\ ~c.broken /\ alone = {}
      <4>1. e = c.current
        BY <1>6, <1>7, <2>2
      <4> HIDE DEF c
      <4> QED BY <1>9, <2>2, <4>1
    <3>2. c.current \in 1..Len(old) /\ FirstAfter(c.current, pos) /\ pos \in Int /\ pos <= pos
      BY <1>1, <1>3, <1>17, <3>1
    <3>3. Settled(c.current, pos)
      <4> HIDE DEF Settled, c
      <4> QED BY <1>14, <3>2 DEF c
    <3>4. ASSUME NEW j \in (new[c.current].curve + 1)..i, C(j).close > new[c.current].price
          PROVE  Mine(c.current, j)
      <4>1. new[c.current].curve \in 0..pos
        BY <1>6, <3>2
      <4>2. CASE j = i
        BY <1>16, <3>1, <3>4, <4>2
      <4>3. CASE j # i
        <5>1. j \in (new[c.current].curve + 1)..pos
          BY <1>3, <4>1, <4>3
        <5> QED BY <3>3, <3>4, <5>1
      <4> QED BY <4>2, <4>3
    <3> QED BY <3>1, <3>4
  <2> QED BY <2>1, <2>2
<1>19. ASSUME NEW s \in out, s.type = "S1"
       PROVE  s.w.def \in 1..Len(new) /\ s.break \in 0..i /\ Settled(s.w.def, s.break - 1)
  <2>1. CASE s \in c.out
    <3>1. s.w.def \in 1..Len(old) /\ s.break \in 0..pos /\ FirstAfter(s.w.def, s.break - 1)
      BY <1>1, <1>19, <2>1
    <3>2. s.break - 1 \in Int /\ s.break - 1 <= pos /\ s.break \in 0..i /\ s.w.def \in 1..Len(new)
      BY <1>3, <1>6, <3>1
    <3> HIDE DEF Settled, i
    <3> QED BY <1>14, <3>1, <3>2
  <2>2. CASE s \in alone
    <3>1. s = Signal("S1", [def |-> c.current], i) /\ c.current > 0 /\ ~c.broken
      BY <2>2 DEF alone, Alone
    <3>2. s.w.def = c.current /\ s.break = i
      BY <3>1 DEF Signal
    <3>3. c.current \in 1..Len(old) /\ c.current \in 1..Len(new) /\ FirstAfter(c.current, pos) /\ i - 1 = pos
      BY <1>1, <1>3, <1>6, <1>17, <3>1
    <3>4. pos \in Int /\ pos <= pos /\ i \in 0..i
      BY <1>3
    <3> HIDE DEF Settled, i
    <3> QED BY <1>14, <3>2, <3>3, <3>4
  <2>3. CASE \E w \in done : s \in Resolved(new, w, i)
    <3>1. s.type = "WD"
      BY <2>3 DEF Resolved, Signal
    <3> QED BY <1>19, <3>1
  <2> QED BY <2>1, <2>2, <2>3
<1>20. \A d, j : Claimed(d, j)' <=> Mine(d, j)
  <2>1. \A s, q, n : OverIn(s, q, n)' = OverIn(s, q, n)
    BY <1>2 DEF OverIn, C
  <2>2. \A s, q, n : FirstOver(s, q, n)' = FirstOver(s, q, n)
    BY <2>1 DEF FirstOver
  <2>3. \A s, q, j, n : Claims(s, q, j, n)' <=> Claims(s, q, j, n)
    BY <2>2 DEF Claims
  <2>4. ASSUME NEW d, NEW j PROVE Claimed(d, j)' <=> Mine(d, j)
    <3>1. PICK q, n : q = combined'.track.boxes[d].price /\ n = pos'
      OBVIOUS
    <3>2. Claimed(d, j)' <=> \E w \in combined'.ws : w.def = d /\ Claims(w.signal, q, j, n)'
      BY <3>1 DEF Claimed, Claims, FirstOver, OverIn
    <3> QED BY <1>2, <1>9, <1>10, <2>3, <3>1, <3>2 DEF Mine
  <2> QED BY <2>4
<1>21. \A d, last : FirstAfter(d, last)' <=> Settled(d, last)
  BY <1>10, <1>11, <1>20 DEF FirstAfter
<1>22. \A w : StillWaits(w)' <=> Waits(w)
  BY <1>2, <1>10, <1>11 DEF StillWaits
<1> HIDE DEF Settled, Waits
<1>23. combined'.current > 0 /\ ~combined'.broken => FirstAfter(combined.current, pos)'
  <2>1. PICK d, n : d = e /\ n = i
    OBVIOUS
  <2>2. combined'.current = d /\ pos' = n
    BY <1>2, <1>9, <2>1
  <2>3. combined'.current > 0 /\ ~combined'.broken => FirstAfter(d, n)'
    BY <1>18, <1>21, <2>1
  <2> QED BY <2>2, <2>3 DEF FirstAfter
<1>24. OnCombinedTape' /\ pos' \in 5..Last'
  BY <1>1, <1>2, <1>3 DEF OnCombinedTape, Last
<1>25. TrackOK(combined.track, pos)'
  BY <1>2, <1>4, <1>9 DEF TrackOK, Listed
<1>26. combined'.current = FindLastDefBoxIndex(combined'.track.boxes)
  BY <1>9, <1>10 DEF e
<1>27. \A w \in combined'.ws : w.signal \in 0..pos' /\ w.def \in 0..Len(combined'.track.boxes)
  BY <1>2, <1>10, <1>12
<1>28. \A w \in combined'.pending : w \in combined'.ws /\ StillWaits(w)'
  BY <1>9, <1>15, <1>22
<1>29. \A s \in combined'.out : s.type = "S1" =>
         /\ s.w.def \in 1..Len(combined'.track.boxes) /\ s.break \in 0..pos'
         /\ FirstAfter(s.w.def, s.break - 1)'
  BY <1>2, <1>9, <1>10, <1>19, <1>21
<1> HIDE DEF c, old, expecting, out
<1> QED BY <1>23, <1>24, <1>25, <1>26, <1>27, <1>28, <1>29 DEF CombinedInv

LEMMA CombinedInvHolds == Spec => []CombinedInv
<1>1. CombinedInv /\ [Next]_vars => CombinedInv'
  <2> SUFFICES ASSUME CombinedInv, [Next]_vars PROVE CombinedInv'
    OBVIOUS
  <2>1. CASE lab = "combined" /\ Next
    BY <2>1, CombinedInvMoves
  <2>2. CASE lab # "combined" /\ Next
    BY <2>2 DEF Next, CombinedInv
  <2>3. CASE UNCHANGED vars
    <3>1. lab' = lab /\ candles' = candles /\ pos' = pos /\ combined' = combined
      BY <2>3 DEF vars
    <3>2. \A s, q, n : OverIn(s, q, n)' = OverIn(s, q, n)
      BY <3>1 DEF OverIn, C
    <3>3. \A s, q, n : FirstOver(s, q, n)' = FirstOver(s, q, n)
      BY <3>2 DEF FirstOver
    <3>4. \A s, q, j, n : Claims(s, q, j, n)' <=> Claims(s, q, j, n)
      BY <3>3 DEF Claims
    <3>5. ASSUME NEW d, NEW j PROVE Claimed(d, j)' <=> Claimed(d, j)
      <4>1. PICK q, n : q = combined.track.boxes[d].price /\ n = pos
        OBVIOUS
      <4>2. Claimed(d, j)' <=> \E w \in combined.ws : w.def = d /\ Claims(w.signal, q, j, n)'
        BY <3>1, <4>1 DEF Claimed, Claims, FirstOver, OverIn
      <4> QED BY <3>4, <4>1, <4>2 DEF Claimed
    <3>6. \A d, last : FirstAfter(d, last)' <=> FirstAfter(d, last)
      BY <3>1, <3>5 DEF FirstAfter, C
    <3>7. \A w : StillWaits(w)' <=> StillWaits(w)
      BY <3>1 DEF StillWaits, C
    <3>8. FirstAfter(combined.current, pos)' <=> FirstAfter(combined.current, pos)
      BY <3>1, <3>5 DEF FirstAfter, C
    <3>9. (OnCombinedTape' <=> OnCombinedTape) /\ Last' = Last
      BY <3>1 DEF OnCombinedTape, Last
    <3>10. TrackOK(combined.track, pos)' <=> TrackOK(combined.track, pos)
      BY <3>1 DEF TrackOK, Listed
    <3> QED BY <3>1, <3>6, <3>7, <3>8, <3>9, <3>10 DEF CombinedInv
  <2> QED BY <2>1, <2>2, <2>3
<1> QED BY <1>1, CombinedInvInit, PTL DEF Spec

LEMMA AloneIsFirstAlways ==
    ASSUME CombinedInv
    PROVE  AloneIsFirst
<1> SUFFICES ASSUME lab = "combined", NEW s \in combined.out, s.type = "S1",
                    NEW j \in (combined.track.boxes[s.w.def].curve + 1)..(s.break - 1),
                    C(j).close > combined.track.boxes[s.w.def].price
             PROVE  \E w \in combined.ws :
                      /\ w.def = s.w.def /\ w.signal <= j
                      /\ j <= (IF BreakOf(w, pos) = 0 THEN w.signal + BreakTimeout + 1 ELSE BreakOf(w, pos))
  BY DEF AloneIsFirst
<1>1. FirstAfter(s.w.def, s.break - 1)
  BY DEF CombinedInv
<1>2. PICK w \in combined.ws : /\ w.def = s.w.def
                               /\ Claims(w.signal, combined.track.boxes[w.def].price, j, pos)
  BY <1>1 DEF FirstAfter, Claimed
<1>3. BreakOf(w, pos) = FirstOver(w.signal, combined.track.boxes[w.def].price, pos)
  BY BreakOfIs
<1> QED BY <1>2, <1>3 DEF Claims

\* A trigger fires on the edge of its event: not on the next candle again, a fall through the band
\* and the way back in turn, a pierced average not again while it must stay untouched, a bump not
\* after its second close (trigger_registry.go:8, armed_trigger_registry.go:76).  And a DefBox is
\* bought alone by the first close over it that no W had claimed (combined_analyze.go:101).
THEOREM EventsOnceAlways == Spec => []EventsOnce
<1>1. EventInv /\ CombinedInv => EventsOnce
  BY TriggersAreEdgesAlways, BandCrossingsAlternateAlways, PierceIsRareAlways, BumpIsSpentAlways,
     AloneIsFirstAlways DEF EventsOnce
<1> QED BY <1>1, EventInvHolds, CombinedInvHolds, PTL

-----------------------------------------------------------------------------
(* The retest of a main box. *)

LEMMA RetestFacts ==
    ASSUME candles \in RetestTapes, NEW conf \in RetestConfigs
    PROVE  /\ Directed(candles) /\ Last \in Nat /\ Last >= 5
           /\ conf.runup \in Int /\ conf.gap \in Int /\ conf.maxBars \in Int /\ conf.breakdown \in Int
<1>1. Directed(candles)
  BY RetestAssumption
<1>2. \A f \in {"runup", "gap", "maxBars", "breakdown"} : conf[f] \in Int
  BY RetestAssumption
<1> QED BY <1>1, <1>2, DirectedFacts

\* The highest high of a stretch grows by its last candle.
LEMMA TopOfOne ==
    ASSUME Directed(candles), NEW i \in 0..Last
    PROVE  Top("high", i..i) = C(i).high /\ Top("high", i..i) \in Int
<1>1. i \in Nat /\ C(i).high \in Int
  BY DirectedFacts
<1>2. {C(j)["high"] : j \in i..i} = {C(i).high}
  BY <1>1
<1>3. HighestOf({C(i).high}) = C(i).high
  BY <1>1, HighestFound
<1> QED BY <1>1, <1>2, <1>3 DEF Top

LEMMA TopGrows ==
    ASSUME Directed(candles), NEW b \in Nat, NEW i \in Nat, b <= i, i + 1 <= Last
    PROVE  /\ Top("high", b..i) \in Int
           /\ Top("high", b..(i + 1)) = HighestOf({Top("high", b..i), C(i + 1).high})
<1>1. Last \in Nat /\ \A j \in 0..Last : C(j).high \in Int
  BY DirectedFacts
<1> DEFINE V == {C(j)["high"] : j \in b..i}
           W == {C(j)["high"] : j \in b..(i + 1)}
<1>2. PICK m \in Int : \A j \in b..i : C(j).high <= m
  <2> DEFINE F == [j \in b..i |-> C(j).high]
  <2>1. b..i \subseteq 0..i /\ \A j \in b..i : F[j] = C(j).high /\ F[j] \in Int
    <3>1. \A j \in b..i : j \in 0..Last
      BY <1>1
    <3> QED BY <1>1, <3>1
  <2> HIDE DEF F
  <2>2. PICK n \in Int : \A j \in b..i : F[j] <= n
    BY <2>1, Bounded
  <2> QED BY <2>1, <2>2
<1>3. V \subseteq Int /\ V # {} /\ \A x \in V : x <= m
  <2>1. \A j \in b..i : j \in 0..Last
    BY <1>1
  <2>2. b \in b..i
    OBVIOUS
  <2> QED BY <1>1, <1>2, <2>1, <2>2
<1>4. W = V \cup {C(i + 1).high}
  <2>1. \A j : j \in b..(i + 1) <=> j \in b..i \/ j = i + 1
    OBVIOUS
  <2> QED BY <2>1
<1>5. Top("high", b..i) = HighestOf(V) /\ Top("high", b..(i + 1)) = HighestOf(W)
  BY DEF Top
<1>6. C(i + 1).high \in Int
  BY <1>1
<1> HIDE DEF V, W
<1>7. HighestOf(V) \in V /\ \A x \in V : x <= HighestOf(V)
  BY <1>2, <1>3, HighestIs
<1>8. HighestOf(V) \in Int
  BY <1>3, <1>7
<1> DEFINE top == HighestOf({HighestOf(V), C(i + 1).high})
<1>9. top \in {HighestOf(V), C(i + 1).high} /\ HighestOf(V) <= top /\ C(i + 1).high <= top
  BY <1>6, <1>8, HighestOfTwo
<1> HIDE DEF top
<1>10. W \subseteq Int /\ top \in W /\ \A x \in W : x <= top
  <2>1. W \subseteq Int /\ top \in W /\ top \in Int
    BY <1>3, <1>4, <1>6, <1>7, <1>9
  <2>2. ASSUME NEW x \in V PROVE x <= top
    BY <1>3, <1>7, <1>8, <1>9, <2>1
  <2> QED BY <1>4, <1>9, <2>1, <2>2
<1>11. HighestOf(W) = top
  BY <1>10, HighestFound
<1> QED BY <1>5, <1>8, <1>11 DEF top

CycleFields == {"def", "breakout", "line", "high", "resistance", "support", "supportCurve",
                "arm", "fired", "invalid"}

\* A cycle at candle n.
CycleShape(cy, n) ==
    /\ DOMAIN cy = CycleFields /\ DOMAIN cy.arm = {"A", "B", "C"}
    /\ cy.breakout \in 0..n /\ cy.line \in Int
    /\ cy.resistance \in Int /\ cy.supportCurve \in Int
    /\ cy.arm.A \in Int /\ cy.arm.B \in Int /\ cy.arm.C \in Int

\* The rise by candle j, from the highs of the candles instead of the one the cycle keeps.
RunUpBy(cy, j, conf) == (Top("high", cy.breakout..j) - cy.line) * 100 >= cy.line * conf.runup

ClosesOver(cy, n, conf) ==
    \A j \in (cy.breakout + 1)..n : C(j).close * 100 >= cy.line * (100 - conf.breakdown)

\* A box after the break: a resistance well over the line, a support.
OverBox(b, cy, conf) ==
    /\ ~IsDef(b) /\ b.at > cy.breakout /\ b.type = "resistance"
    /\ b.price * 100 >= cy.line * (100 + conf.gap)
UnderBox(b, cy) == ~IsDef(b) /\ b.at > cy.breakout /\ b.type = "support"

\* What a cycle has noted of the boxes is in the list: a resistance, and a support after it.
Noted(cy, list, n, conf) ==
    /\ cy.resistance >= 0 =>
         \E k \in 1..Len(list) : OverBox(list[k], cy, conf) /\ list[k].at = cy.resistance /\ list[k].curve <= n
    /\ cy.supportCurve > 0 =>
         \E k, m \in 1..Len(list) :
           /\ OverBox(list[k], cy, conf) /\ UnderBox(list[m], cy)
           /\ list[m].at = cy.support /\ list[m].curve = cy.supportCurve
           /\ list[k].at < list[m].at /\ list[k].curve < list[m].curve

\* The arms are retests after the rise, A the first of them; for B a resistance was known.
ArmedBy(cy, list, n, conf) ==
    /\ \A j \in (cy.breakout + 1)..n :
         mainBoxRetestTouched(j, cy.line, conf) /\ RunUpBy(cy, j, conf) =>
           cy.arm.A \in (cy.breakout + 1)..j
    /\ \A g \in {"A", "B"} : cy.arm[g] >= 0 =>
         cy.arm[g] \in (cy.breakout + 1)..n /\ RunUpBy(cy, cy.arm[g], conf)
    /\ cy.arm.B >= 0 =>
         \E k \in 1..Len(list) : OverBox(list[k], cy, conf) /\ list[k].curve <= cy.arm.B
    /\ cy.arm.C >= 0 => cy.supportCurve > 0

CycleOK(cy, list, n, conf) ==
    /\ CycleShape(cy, n)
    /\ ~cy.invalid => /\ cy.high = Top("high", cy.breakout..n) /\ ClosesOver(cy, n, conf)
                      /\ Noted(cy, list, n, conf) /\ ArmedBy(cy, list, n, conf)

\* RetestHeld and RetestWitnessed, of one signal.
HeldOne(s, conf) ==
    /\ s.fire - s.cycle.breakout <= conf.maxBars
    /\ ClosesOver(s.cycle, s.fire, conf)
    /\ s.group \in {"A", "B"} =>
         /\ RunUpBy(s.cycle, s.retest, conf)
         /\ \A j \in (s.cycle.breakout + 1)..(s.retest - 1) :
              mainBoxRetestTouched(j, s.cycle.line, conf) =>
                \/ s.group = "B"
                \/ (Top("high", s.cycle.breakout..j) - s.cycle.line) * 100 < s.cycle.line * conf.runup

SeenOne(s, list, conf) ==
    /\ s.group = "B" =>
         \E k \in 1..Len(list) : OverBox(list[k], s.cycle, conf) /\ list[k].curve <= s.retest
    /\ s.group \in {"C", "C0", "C2"} =>
         \E k, m \in 1..Len(list) :
           /\ OverBox(list[k], s.cycle, conf) /\ UnderBox(list[m], s.cycle)
           /\ list[m].at = s.retest /\ list[k].at < list[m].at
           /\ list[k].curve < list[m].curve /\ list[m].curve <= s.fire

\* The loop at candle n: a group that has signalled has fired in the only cycle of its DefBox.
RetestOK(r, n) ==
    /\ candles \in RetestTapes /\ n \in 5..Last
    /\ DOMAIN r = {"track", "cfg", "cycles", "out"} /\ r.cfg \in RetestConfigs
    /\ TrackOK(r.track, n)
    /\ \A cy \in r.cycles : CycleOK(cy, r.track.boxes, n, r.cfg)
    /\ \A cy, cz \in r.cycles : cy.def = cz.def => cy = cz
    /\ \A s \in r.out :
         /\ HeldOne(s, r.cfg) /\ SeenOne(s, r.track.boxes, r.cfg)
         /\ \E cy \in r.cycles : cy.def = s.cycle.def /\ s.group \in cy.fired
    /\ \A s, t \in r.out : t.group = s.group /\ t.cycle.def = s.cycle.def => t = s

\* Boxes stay what a cycle and a signal take them for.
LEMMA NotedStays ==
    ASSUME NEW old, NEW new, NEW i, Listed(old, i), Grown(old, new, i), NEW conf
    PROVE  /\ \A cy, n : Noted(cy, old, n, conf) => Noted(cy, new, n, conf)
           /\ \A cy, n : ArmedBy(cy, old, n, conf) => ArmedBy(cy, new, n, conf)
           /\ \A s : SeenOne(s, old, conf) => SeenOne(s, new, conf)
<1>1. /\ Len(old) \in Nat /\ Len(new) \in Nat /\ Len(old) <= Len(new)
      /\ \A k \in 1..Len(old) : k \in 1..Len(new) /\ SameBox(old[k], new[k])
  <2>1. Len(old) \in Nat /\ Len(new) \in Nat /\ Len(old) <= Len(new)
    BY ListedFacts DEF Grown
  <2> QED BY <2>1 DEF Grown
<1>2. \A k \in 1..Len(old) : \A cy :
        /\ OverBox(new[k], cy, conf) <=> OverBox(old[k], cy, conf)
        /\ UnderBox(new[k], cy) <=> UnderBox(old[k], cy)
  BY <1>1 DEF SameBox, OverBox, UnderBox
<1>3. \A k \in 1..Len(old) : /\ k \in 1..Len(new)
                             /\ new[k].at = old[k].at /\ new[k].curve = old[k].curve
  BY <1>1 DEF SameBox
<1>4. ASSUME NEW cy, NEW n, Noted(cy, old, n, conf) PROVE Noted(cy, new, n, conf)
  <2>1. cy.resistance >= 0 =>
          \E k \in 1..Len(new) : OverBox(new[k], cy, conf) /\ new[k].at = cy.resistance /\ new[k].curve <= n
    BY <1>2, <1>3, <1>4 DEF Noted
  <2>2. ASSUME cy.supportCurve > 0
        PROVE  \E k, m \in 1..Len(new) :
                 /\ OverBox(new[k], cy, conf) /\ UnderBox(new[m], cy)
                 /\ new[m].at = cy.support /\ new[m].curve = cy.supportCurve
                 /\ new[k].at < new[m].at /\ new[k].curve < new[m].curve
    <3>1. PICK k, m \in 1..Len(old) :
            /\ OverBox(old[k], cy, conf) /\ UnderBox(old[m], cy)
            /\ old[m].at = cy.support /\ old[m].curve = cy.supportCurve
            /\ old[k].at < old[m].at /\ old[k].curve < old[m].curve
      BY <1>4, <2>2 DEF Noted
    <3> QED BY <1>2, <1>3, <3>1
  <2> QED BY <2>1, <2>2 DEF Noted
<1>5. ASSUME NEW cy, NEW n, ArmedBy(cy, old, n, conf) PROVE ArmedBy(cy, new, n, conf)
  <2>1. cy.arm.B >= 0 =>
          \E k \in 1..Len(new) : OverBox(new[k], cy, conf) /\ new[k].curve <= cy.arm.B
    BY <1>2, <1>3, <1>5 DEF ArmedBy
  <2> QED BY <1>5, <2>1 DEF ArmedBy
<1>6. ASSUME NEW s, SeenOne(s, old, conf) PROVE SeenOne(s, new, conf)
  <2>1. s.group = "B" =>
          \E k \in 1..Len(new) : OverBox(new[k], s.cycle, conf) /\ new[k].curve <= s.retest
    BY <1>2, <1>3, <1>6 DEF SeenOne
  <2>2. ASSUME s.group \in {"C", "C0", "C2"}
        PROVE  \E k, m \in 1..Len(new) :
                 /\ OverBox(new[k], s.cycle, conf) /\ UnderBox(new[m], s.cycle)
                 /\ new[m].at = s.retest /\ new[k].at < new[m].at
                 /\ new[k].curve < new[m].curve /\ new[m].curve <= s.fire
    <3>1. PICK k, m \in 1..Len(old) :
            /\ OverBox(old[k], s.cycle, conf) /\ UnderBox(old[m], s.cycle)
            /\ old[m].at = s.retest /\ old[k].at < old[m].at
            /\ old[k].curve < old[m].curve /\ old[m].curve <= s.fire
      BY <1>6, <2>2 DEF SeenOne
    <3> QED BY <1>2, <1>3, <3>1
  <2> QED BY <2>1, <2>2 DEF SeenOne
<1> QED BY <1>4, <1>5, <1>6

\* A cycle that goes on: what it has noted at candle i, and what it arms.
LEMMA WithBoxIs ==
    ASSUME NEW cy, DOMAIN cy = CycleFields, NEW b, NEW i, NEW conf, NEW r, r = WithBox(cy, b, i, conf),
           ~IsDef(b), b.at \in Int, b.type \in {"resistance", "support"}, cy.breakout \in Int
    PROVE  /\ DOMAIN r = CycleFields
           /\ \A f \in CycleFields \ {"resistance", "support", "supportCurve"} : r[f] = cy[f]
           /\ \/ r = cy
              \/ /\ OverBox(b, cy, conf) /\ r.resistance = b.at
                 /\ r.support = cy.support /\ r.supportCurve = cy.supportCurve
              \/ /\ UnderBox(b, cy) /\ cy.resistance >= 0 /\ b.at > cy.resistance
                 /\ r.resistance = cy.resistance /\ r.support = b.at /\ r.supportCurve = i
<1>1. \/ r = cy
      \/ OverBox(b, cy, conf) /\ r = [cy EXCEPT !.resistance = b.at]
      \/ /\ UnderBox(b, cy) /\ cy.resistance >= 0 /\ b.at > cy.resistance
         /\ r = [cy EXCEPT !.support = b.at, !.supportCurve = i]
  <2>1. CASE b.at <= cy.breakout
    BY <2>1 DEF WithBox
  <2>2. CASE ~(b.at <= cy.breakout) /\ b.at > cy.breakout /\ b.type = "resistance"
    BY <2>2 DEF WithBox, OverBox
  <2>3. CASE ~(b.at <= cy.breakout) /\ b.at > cy.breakout /\ b.type = "support"
    BY <2>3 DEF WithBox, UnderBox
  <2> QED BY <2>1, <2>2, <2>3
<1> QED BY <1>1 DEF CycleFields

LEMMA PreparedIs ==
    ASSUME NEW cy, DOMAIN cy = CycleFields, NEW i, NEW conf, NEW r, r = Prepared(cy, i, conf)
    PROVE  /\ DOMAIN r = CycleFields /\ DOMAIN r.arm = {"A", "B", "C"}
           /\ \A f \in CycleFields \ {"arm"} : r[f] = cy[f]
           /\ LET touched == RunUp(cy, conf) /\ mainBoxRetestTouched(i, cy.line, conf)
              IN  /\ r.arm.A = IF cy.arm.A < 0 /\ touched THEN i ELSE cy.arm.A
                  /\ r.arm.B = IF cy.arm.B < 0 /\ touched /\ cy.resistance >= 0 THEN i ELSE cy.arm.B
                  /\ r.arm.C = cy.arm.C \/ (r.arm.C = cy.supportCurve /\ cy.supportCurve > 0)
<1> DEFINE run == RunUp(cy, conf)
           touched == run /\ mainBoxRetestTouched(i, cy.line, conf)
           held == run /\ cy.supportCurve > 0 /\ mainBoxRetestTouched(cy.support, cy.line, conf)
           a == IF cy.arm.A < 0 /\ touched THEN i ELSE cy.arm.A
           b == IF cy.arm.B < 0 /\ touched /\ cy.resistance >= 0 THEN i ELSE cy.arm.B
           c == IF cy.arm.C < 0 /\ held THEN cy.supportCurve ELSE cy.arm.C
<1>1. r = [cy EXCEPT !.arm = [A |-> a, B |-> b, C |-> c]]
  BY DEF Prepared
<1>2. c = cy.arm.C \/ (c = cy.supportCurve /\ cy.supportCurve > 0)
  OBVIOUS
<1> HIDE DEF a, b, c
<1>3. /\ DOMAIN r = CycleFields /\ DOMAIN r.arm = {"A", "B", "C"}
      /\ \A f \in CycleFields \ {"arm"} : r[f] = cy[f]
      /\ r.arm.A = a /\ r.arm.B = b /\ r.arm.C = c
  BY <1>1 DEF CycleFields
<1> QED BY <1>2, <1>3 DEF a, b

\* A signal of a group that fires is of an arm that is set.
LEMMA FiringIs ==
    ASSUME NEW old, NEW cy, NEW i, NEW conf, NEW g \in FiringGroups(old, cy, i, conf)
    PROVE  /\ g \in Groups /\ g \notin cy.fired
           /\ g \in {"A", "B"} => cy.arm[g] >= 0
           /\ g \in {"C", "C0", "C2"} => cy.arm.C >= 0
<1>1. /\ g \in Groups \ cy.fired
      /\ CASE g = "C0" -> old.arm.C < 0 /\ cy.arm.C >= 0 /\ i = cy.supportCurve
           [] g = "C2" -> /\ cy.arm["C"] >= 0 /\ i > cy.arm["C"] /\ i - cy.arm["C"] <= conf.window
                          /\ mainBoxRetestMA5Rebound(i, cy.line, conf)
           [] OTHER -> /\ cy.arm[g] >= 0 /\ i > cy.arm[g] /\ i - cy.arm[g] <= conf.window
                       /\ mainBoxRetestRebound(i, cy.line, conf)
  BY Zenon DEF FiringGroups
<1>2. CASE g = "C0"
  BY <1>1, <1>2
<1>3. CASE g = "C2"
  BY <1>1, <1>3
<1>4. CASE g # "C0" /\ g # "C2"
  <2>1. cy.arm[g] >= 0
    BY <1>1, <1>4
  <2> QED BY <1>1, <1>4, <2>1 DEF Groups
<1> QED BY <1>2, <1>3, <1>4

\* Boxes of the list that became known at candle i.
KnownAt(known, list, i) ==
    \A b \in known : ~IsDef(b) /\ \E k \in 1..Len(list) : b = list[k] /\ list[k].curve = i

\* What a candle makes of a cycle, and the signals it gives.
Progressed(cy, s, list, i, conf) ==
    /\ CycleOK(s.cycle, list, i, conf)
    /\ s.cycle.def = cy.def
    /\ \A x \in s.out : /\ HeldOne(x, conf) /\ SeenOne(x, list, conf)
                        /\ x.cycle.def = cy.def /\ x.group \in s.cycle.fired
                        /\ x.group \notin cy.fired
    /\ \A x, y \in s.out : x.group = y.group => x = y
    /\ \A g \in cy.fired : g \in s.cycle.fired

\* One candle of a cycle.
LEMMA ProgressKeeps ==
    ASSUME NEW n \in Nat, n + 1 <= Last, Directed(candles), NEW conf,
           conf.runup \in Int, conf.gap \in Int, conf.maxBars \in Int, conf.breakdown \in Int,
           NEW list, Listed(list, n + 1), NEW cy, CycleOK(cy, list, n, conf),
           NEW known, KnownAt(known, list, n + 1)
    PROVE  Progressed(cy, Progress(cy, n + 1, known, conf), list, n + 1, conf)
<1> DEFINE i == n + 1
           h == [cy EXCEPT !.high = HighestOf({cy.high, C(i).high})]
           noted == IF known = {} THEN h ELSE WithBox(h, CHOOSE b \in known : TRUE, i, conf)
           armed == Prepared(noted, i, conf)
           firing == FiringGroups(noted, armed, i, conf)
           final == [armed EXCEPT !.fired = armed.fired \cup firing]
           s == Progress(cy, i, known, conf)
<1>1. s = IF cy.invalid THEN [cycle |-> cy, out |-> {}]
          ELSE IF Ended(cy, i, conf) THEN [cycle |-> [cy EXCEPT !.invalid = TRUE], out |-> {}]
          ELSE [cycle |-> final, out |-> {SignalOf(armed, g, i) : g \in firing}]
  BY Zenon DEF Progress
<1>2. CycleShape(cy, n) /\ DOMAIN cy = CycleFields /\ Last \in Nat /\ i \in Nat /\ i \in 0..Last /\ n \in 0..Last
  BY DirectedFacts DEF CycleOK, CycleShape
<1>3. CycleShape(cy, i)
  BY <1>2 DEF CycleShape
<1>4. CASE cy.invalid
  <2>1. s = [cycle |-> cy, out |-> {}]
    BY <1>1, <1>4
  <2> HIDE DEF s, i
  <2> QED BY <1>3, <1>4, <2>1 DEF CycleOK, Progressed, i, s
<1>5. CASE ~cy.invalid /\ Ended(cy, i, conf)
  <2>1. s = [cycle |-> [cy EXCEPT !.invalid = TRUE], out |-> {}]
    BY <1>1, <1>5
  <2>2. /\ s.out = {} /\ s.cycle.invalid /\ CycleShape(s.cycle, i)
        /\ s.cycle.def = cy.def /\ s.cycle.fired = cy.fired
    BY <1>2, <1>3, <2>1 DEF CycleShape, CycleFields
  <2> HIDE DEF s, i
  <2> QED BY <2>2 DEF CycleOK, Progressed, i, s
<1>6. CASE ~cy.invalid /\ ~Ended(cy, i, conf)
  <2> HIDE DEF firing
  <2>1. s = [cycle |-> final, out |-> {SignalOf(armed, g, i) : g \in firing}]
    BY <1>1, <1>6
  <2>2. /\ cy.high = Top("high", cy.breakout..n) /\ ClosesOver(cy, n, conf)
        /\ Noted(cy, list, n, conf) /\ ArmedBy(cy, list, n, conf)
    BY <1>6 DEF CycleOK
  <2>3. /\ cy.breakout \in 0..n /\ cy.line \in Int /\ cy.resistance \in Int /\ cy.supportCurve \in Int
        /\ cy.arm.A \in Int /\ cy.arm.B \in Int /\ cy.arm.C \in Int
    BY <1>2 DEF CycleShape
  <2>4. DOMAIN h = CycleFields /\ \A f \in CycleFields \ {"high"} : h[f] = cy[f]
    BY <1>2 DEF CycleFields
  <2>5. h.high = Top("high", cy.breakout..i) /\ h.breakout = cy.breakout
    <3>1. h.high = HighestOf({cy.high, C(i).high})
      BY <1>2 DEF CycleFields
    <3>2. cy.breakout \in Nat /\ cy.breakout <= n
      BY <2>3
    <3> HIDE DEF h
    <3> QED BY <2>2, <2>4, <3>1, <3>2, TopGrows DEF CycleFields
  <2> HIDE DEF h
\* What the candle notes.
  <2>6. /\ DOMAIN noted = CycleFields
        /\ \A f \in CycleFields \ {"resistance", "support", "supportCurve"} : noted[f] = h[f]
        /\ \/ noted.resistance = h.resistance /\ noted.support = h.support /\ noted.supportCurve = h.supportCurve
           \/ \E k \in 1..Len(list) :
                /\ list[k].curve = i /\ OverBox(list[k], h, conf) /\ noted.resistance = list[k].at
                /\ noted.support = h.support /\ noted.supportCurve = h.supportCurve
           \/ \E k \in 1..Len(list) :
                /\ list[k].curve = i /\ UnderBox(list[k], h) /\ h.resistance >= 0
                /\ list[k].at > h.resistance /\ noted.resistance = h.resistance
                /\ noted.support = list[k].at /\ noted.supportCurve = i
    <3>1. CASE known = {}
      BY <2>4, <3>1
    <3>2. CASE known # {}
      <4> DEFINE b == CHOOSE b \in known : TRUE
      <4>1. b \in known
        BY <3>2
      <4>2. noted = WithBox(h, b, i, conf)
        BY <3>2
      <4> HIDE DEF b, noted
      <4>3. PICK k \in 1..Len(list) : b = list[k] /\ list[k].curve = i /\ ~IsDef(b)
        BY <4>1 DEF KnownAt
      <4>4. b.at \in Int /\ b.type \in {"resistance", "support"} /\ h.breakout \in Int
        <5>1. k \in DOMAIN list
          BY ListedFacts
        <5> QED BY <1>2, <2>3, <2>5, <4>3, <5>1 DEF Listed
      <4> HIDE DEF i
      <4> QED BY <2>4, <4>2, <4>3, <4>4, WithBoxIs
    <3> QED BY <3>1, <3>2
  <2> HIDE DEF noted
\* What it arms.
  <2>7. /\ DOMAIN armed = CycleFields /\ DOMAIN armed.arm = {"A", "B", "C"}
        /\ \A f \in CycleFields \ {"arm"} : armed[f] = noted[f]
        /\ LET touched == RunUp(noted, conf) /\ mainBoxRetestTouched(i, noted.line, conf)
           IN  /\ armed.arm.A = IF noted.arm.A < 0 /\ touched THEN i ELSE noted.arm.A
               /\ armed.arm.B = IF noted.arm.B < 0 /\ touched /\ noted.resistance >= 0 THEN i ELSE noted.arm.B
               /\ armed.arm.C = noted.arm.C \/ (armed.arm.C = noted.supportCurve /\ noted.supportCurve > 0)
    BY <2>6, PreparedIs
  <2> HIDE DEF armed
  <2>8. /\ DOMAIN final = CycleFields /\ \A f \in CycleFields \ {"fired"} : final[f] = armed[f]
        /\ final.fired = armed.fired \cup firing
    BY <2>7 DEF CycleFields
  <2> HIDE DEF final
  <2>9. /\ armed.def = cy.def /\ armed.breakout = cy.breakout /\ armed.line = cy.line
        /\ armed.fired = cy.fired /\ armed.invalid = cy.invalid /\ armed.high = Top("high", cy.breakout..i)
        /\ armed.resistance = noted.resistance /\ armed.support = noted.support
        /\ armed.supportCurve = noted.supportCurve
        /\ noted.line = cy.line /\ noted.arm = cy.arm /\ noted.high = Top("high", cy.breakout..i)
        /\ h.resistance = cy.resistance /\ h.support = cy.support /\ h.supportCurve = cy.supportCurve
        /\ h.breakout = cy.breakout /\ h.line = cy.line
    <3>1. \A f \in CycleFields \ {"arm", "resistance", "support", "supportCurve", "high"} : armed[f] = cy[f]
      BY <2>4, <2>6, <2>7
    <3>2. noted.line = h.line /\ noted.arm = h.arm /\ noted.high = h.high
      BY <2>6 DEF CycleFields
    <3>3. /\ armed.resistance = noted.resistance /\ armed.support = noted.support
          /\ armed.supportCurve = noted.supportCurve /\ armed.high = noted.high
      BY <2>7 DEF CycleFields
    <3>4. /\ h.line = cy.line /\ h.arm = cy.arm /\ h.resistance = cy.resistance /\ h.support = cy.support
          /\ h.supportCurve = cy.supportCurve
      BY <2>4 DEF CycleFields
    <3> QED BY <2>5, <3>1, <3>2, <3>3, <3>4 DEF CycleFields
  <2>10. \A b : /\ OverBox(b, h, conf) <=> OverBox(b, cy, conf)
                /\ OverBox(b, armed, conf) <=> OverBox(b, cy, conf)
                /\ UnderBox(b, h) <=> UnderBox(b, cy)
                /\ UnderBox(b, armed) <=> UnderBox(b, cy)
    BY <2>9 DEF OverBox, UnderBox
  <2>11. \A k \in 1..Len(list) : list[k].at \in Int /\ list[k].at >= 0 /\ list[k].curve \in 0..i
    <3>1. DOMAIN list = 1..Len(list)
      BY ListedFacts
    <3> QED BY <1>2, <3>1 DEF Listed
  <2>12. CycleShape(armed, i)
    <3>1. armed.resistance \in Int /\ armed.supportCurve \in Int /\ noted.resistance \in Int /\ noted.supportCurve \in Int
      BY <1>2, <2>3, <2>6, <2>9, <2>11
    <3>2. armed.arm.A \in Int /\ armed.arm.B \in Int /\ armed.arm.C \in Int
      BY <1>2, <2>3, <2>7, <2>9, <3>1
    <3>3. armed.breakout \in 0..i
      BY <2>3, <2>9
    <3> QED BY <2>3, <2>7, <2>9, <3>1, <3>2, <3>3 DEF CycleShape
  <2>13. ClosesOver(armed, i, conf) /\ i - armed.breakout <= conf.maxBars
    <3>1. ~(i - cy.breakout > conf.maxBars) /\ ~(C(i).close * 100 < cy.line * (100 - conf.breakdown))
      BY <1>6 DEF Ended
    <3>2. C(i).close \in Int
      BY <1>2, DirectedFacts
    <3>3. C(i).close * 100 >= cy.line * (100 - conf.breakdown)
      <4> DEFINE a == C(i).close * 100
                 b == cy.line * (100 - conf.breakdown)
      <4>1. a \in Int /\ b \in Int
        BY <2>3, <3>2
      <4>2. ~(a < b)
        BY <3>1
      <4> HIDE DEF a, b
      <4>3. a >= b
        BY <4>1, <4>2
      <4> QED BY <4>3 DEF a, b
    <3>4. \A j \in (cy.breakout + 1)..i : j = i \/ j \in (cy.breakout + 1)..n
      BY <2>3
    <3>5. ClosesOver(armed, i, conf)
      BY <2>2, <2>9, <3>3, <3>4 DEF ClosesOver
    <3>6. i - armed.breakout <= conf.maxBars
      BY <1>2, <2>3, <2>9, <3>1
    <3> QED BY <3>5, <3>6
  <2>14. Noted(armed, list, i, conf)
    <3>1. ASSUME armed.resistance >= 0
          PROVE  \E k \in 1..Len(list) : /\ OverBox(list[k], armed, conf) /\ list[k].at = armed.resistance
                                         /\ list[k].curve <= i
      <4>1. CASE noted.resistance = h.resistance
        <5>1. PICK k \in 1..Len(list) : OverBox(list[k], cy, conf) /\ list[k].at = cy.resistance
          BY <2>2, <2>9, <3>1, <4>1 DEF Noted
        <5>2. list[k].curve <= i
          BY <1>2, <2>11
        <5> QED BY <2>9, <2>10, <4>1, <5>1, <5>2
      <4>2. CASE \E k \in 1..Len(list) : /\ list[k].curve = i /\ OverBox(list[k], h, conf)
                                         /\ noted.resistance = list[k].at
        BY <1>2, <2>9, <2>10, <4>2
      <4> QED BY <2>6, <4>1, <4>2
    <3>2. ASSUME armed.supportCurve > 0
          PROVE  \E k, m \in 1..Len(list) :
                   /\ OverBox(list[k], armed, conf) /\ UnderBox(list[m], armed)
                   /\ list[m].at = armed.support /\ list[m].curve = armed.supportCurve
                   /\ list[k].at < list[m].at /\ list[k].curve < list[m].curve
      <4>1. CASE noted.support = h.support /\ noted.supportCurve = h.supportCurve
        <5>1. PICK k, m \in 1..Len(list) :
                /\ OverBox(list[k], cy, conf) /\ UnderBox(list[m], cy)
                /\ list[m].at = cy.support /\ list[m].curve = cy.supportCurve
                /\ list[k].at < list[m].at /\ list[k].curve < list[m].curve
          BY <2>2, <2>9, <3>2, <4>1 DEF Noted
        <5> QED BY <2>9, <2>10, <4>1, <5>1
      <4>2. CASE \E m \in 1..Len(list) :
                   /\ list[m].curve = i /\ UnderBox(list[m], h) /\ h.resistance >= 0
                   /\ list[m].at > h.resistance
                   /\ noted.support = list[m].at /\ noted.supportCurve = i
        <5>1. PICK m \in 1..Len(list) :
                /\ list[m].curve = i /\ UnderBox(list[m], h) /\ h.resistance >= 0
                /\ list[m].at > h.resistance
                /\ noted.support = list[m].at /\ noted.supportCurve = i
          BY <4>2
        <5>2. PICK k \in 1..Len(list) : /\ OverBox(list[k], cy, conf) /\ list[k].at = cy.resistance
                                        /\ list[k].curve <= n
          BY <2>2, <2>9, <5>1 DEF Noted
        <5>3. list[k].at < list[m].at /\ list[k].curve < list[m].curve
          BY <2>9, <2>11, <5>1, <5>2
        <5> QED BY <2>9, <2>10, <5>1, <5>2, <5>3
      <4> QED BY <2>6, <4>1, <4>2
    <3> QED BY <3>1, <3>2 DEF Noted
  <2>15. \A j : RunUpBy(armed, j, conf) <=> RunUpBy(cy, j, conf)
    BY <2>9 DEF RunUpBy
  <2>16. /\ cy.breakout + 1 \in Int /\ i \in (cy.breakout + 1)..i
         /\ \A j \in (cy.breakout + 1)..i : j = i \/ j \in (cy.breakout + 1)..n
         /\ \A j \in (cy.breakout + 1)..n : j \in (cy.breakout + 1)..i
    BY <1>2, <2>3
  <2>17. LET touched == mainBoxRetestTouched(i, cy.line, conf) /\ RunUpBy(cy, i, conf)
         IN  /\ armed.arm.A = IF cy.arm.A < 0 /\ touched THEN i ELSE cy.arm.A
             /\ armed.arm.B = IF cy.arm.B < 0 /\ touched /\ noted.resistance >= 0 THEN i ELSE cy.arm.B
             /\ armed.arm.C = cy.arm.C \/ (armed.arm.C = noted.supportCurve /\ noted.supportCurve > 0)
    <3>1. RunUp(noted, conf) <=> RunUpBy(cy, i, conf)
      BY <2>9 DEF RunUp, RunUpBy
    <3> QED BY <2>7, <2>9, <3>1
  <2>18. ArmedBy(armed, list, i, conf)
    <3>1. ASSUME NEW j \in (cy.breakout + 1)..i,
                 mainBoxRetestTouched(j, cy.line, conf), RunUpBy(cy, j, conf)
          PROVE  armed.arm.A \in (cy.breakout + 1)..j
      <4>1. CASE j \in (cy.breakout + 1)..n
        <5>1. cy.arm.A \in (cy.breakout + 1)..j
          BY <2>2, <3>1, <4>1 DEF ArmedBy
        <5>2. ~(cy.arm.A < 0)
          BY <2>3, <5>1
        <5> QED BY <2>17, <5>1, <5>2
      <4>2. CASE j = i
        <5>1. CASE cy.arm.A < 0
          BY <2>16, <2>17, <3>1, <4>2, <5>1
        <5>2. CASE ~(cy.arm.A < 0)
          <6>1. cy.arm["A"] >= 0
            BY <2>3, <5>2
          <6>2. cy.arm.A \in (cy.breakout + 1)..n
            BY <2>2, <6>1 DEF ArmedBy
          <6> QED BY <2>16, <2>17, <4>2, <5>2, <6>2
        <5> QED BY <5>1, <5>2
      <4> QED BY <2>16, <4>1, <4>2
    <3>2. ASSUME NEW g \in {"A", "B"}, armed.arm[g] >= 0
          PROVE  armed.arm[g] \in (cy.breakout + 1)..i /\ RunUpBy(cy, armed.arm[g], conf)
      <4>1. CASE armed.arm[g] = cy.arm[g]
        <5>1. cy.arm[g] \in (cy.breakout + 1)..n /\ RunUpBy(cy, cy.arm[g], conf)
          BY <2>2, <3>2, <4>1 DEF ArmedBy
        <5> QED BY <2>16, <4>1, <5>1
      <4>2. CASE armed.arm[g] = i /\ RunUpBy(cy, i, conf)
        BY <2>16, <4>2
      <4> QED BY <2>17, <4>1, <4>2
    <3>3. ASSUME armed.arm.B >= 0
          PROVE  \E k \in 1..Len(list) : OverBox(list[k], armed, conf) /\ list[k].curve <= armed.arm.B
      <4>1. CASE armed.arm.B = cy.arm.B
        <5>1. PICK k \in 1..Len(list) : OverBox(list[k], cy, conf) /\ list[k].curve <= cy.arm.B
          BY <2>2, <3>3, <4>1 DEF ArmedBy
        <5> QED BY <2>10, <4>1, <5>1
      <4>2. CASE armed.arm.B = i /\ noted.resistance >= 0
        BY <2>9, <2>14, <4>2 DEF Noted
      <4> QED BY <2>17, <4>1, <4>2
    <3>4. armed.arm.C >= 0 => armed.supportCurve > 0
      <4>1. CASE armed.arm.C = cy.arm.C
        <5>1. cy.arm.C >= 0 => cy.supportCurve > 0
          BY <2>2 DEF ArmedBy
        <5>2. noted.supportCurve = cy.supportCurve \/ noted.supportCurve = i
          BY <2>6, <2>9
        <5>3. i > 0
          BY <1>2
        <5> QED BY <2>9, <4>1, <5>1, <5>2, <5>3
      <4> QED BY <2>9, <2>17, <4>1
    <3> QED BY <2>9, <2>15, <3>1, <3>2, <3>3, <3>4 DEF ArmedBy
  <2>19. CycleOK(final, list, i, conf) /\ final.def = cy.def
    <3>1. /\ final.def = armed.def /\ final.breakout = armed.breakout /\ final.line = armed.line
          /\ final.high = armed.high /\ final.resistance = armed.resistance /\ final.support = armed.support
          /\ final.supportCurve = armed.supportCurve /\ final.arm = armed.arm /\ final.invalid = armed.invalid
      BY <2>8 DEF CycleFields
    <3>2. \A b : (OverBox(b, final, conf) <=> OverBox(b, armed, conf)) /\ (UnderBox(b, final) <=> UnderBox(b, armed))
      BY <3>1 DEF OverBox, UnderBox
    <3>3. \A j : RunUpBy(final, j, conf) <=> RunUpBy(armed, j, conf)
      BY <3>1 DEF RunUpBy
    <3>4. CycleShape(final, i) /\ final.high = Top("high", final.breakout..i)
      BY <2>8, <2>9, <2>12, <3>1 DEF CycleShape
    <3>5. ClosesOver(final, i, conf)
      BY <2>13, <3>1 DEF ClosesOver
    <3>6. Noted(final, list, i, conf)
      BY <2>14, <3>1, <3>2 DEF Noted
    <3>7. ArmedBy(final, list, i, conf)
      BY <2>18, <3>1, <3>2, <3>3 DEF ArmedBy
    <3> QED BY <2>9, <3>1, <3>4, <3>5, <3>6, <3>7 DEF CycleOK
\* What it tells.
  <2>20. ASSUME NEW g \in firing
         PROVE  LET x == SignalOf(armed, g, i)
                IN  /\ x.group = g /\ x.cycle = armed /\ x.fire = i
                    /\ x.retest = IF g \in {"A", "B"} THEN armed.arm[g] ELSE armed.support
                    /\ g \notin cy.fired
                    /\ g \in {"A", "B"} => armed.arm[g] >= 0
                    /\ g \in {"C", "C0", "C2"} => armed.arm.C >= 0
    BY <2>9, FiringIs DEF SignalOf, firing
  <2>21. ASSUME NEW g \in firing
         PROVE  HeldOne(SignalOf(armed, g, i), conf)
    <3> DEFINE x == SignalOf(armed, g, i)
    <3>1. /\ x.group = g /\ x.cycle = armed /\ x.fire = i
          /\ g \in {"A", "B"} => x.retest = armed.arm[g] /\ armed.arm[g] >= 0
      BY <2>20
    <3> HIDE DEF x
    <3>2. ASSUME g \in {"A", "B"} PROVE RunUpBy(armed, x.retest, conf)
      BY <2>18, <3>1, <3>2 DEF ArmedBy
    <3>3. ASSUME g = "A", NEW j \in (armed.breakout + 1)..(x.retest - 1),
                 mainBoxRetestTouched(j, armed.line, conf)
          PROVE  (Top("high", armed.breakout..j) - armed.line) * 100 < armed.line * conf.runup
      <4>1. x.retest = armed.arm.A /\ armed.arm.A \in (armed.breakout + 1)..i
        BY <2>18, <3>1, <3>3 DEF ArmedBy
      <4>2. j \in (armed.breakout + 1)..i /\ j < armed.arm.A
        BY <1>2, <2>3, <2>9, <4>1
      <4>3. armed.arm.A \notin (armed.breakout + 1)..j
        BY <1>2, <2>3, <2>9, <4>1, <4>2
      <4>4. ~RunUpBy(armed, j, conf)
        BY <2>18, <3>3, <4>2, <4>3 DEF ArmedBy
      <4>5. Top("high", armed.breakout..j) \in Int
        <5>1. j - 1 \in Nat /\ armed.breakout \in Nat /\ armed.breakout <= j - 1 /\ (j - 1) + 1 <= Last
              /\ (j - 1) + 1 = j /\ C(j).high \in Int
          <6>1. j \in 0..Last
            BY <1>2, <2>3, <2>9, <4>2
          <6> QED BY <1>2, <2>3, <2>9, <4>2, <6>1, DirectedFacts
        <5>2. Top("high", armed.breakout..(j - 1)) \in Int
              /\ Top("high", armed.breakout..j) = HighestOf({Top("high", armed.breakout..(j - 1)), C(j).high})
          BY <5>1, TopGrows
        <5>3. Top("high", armed.breakout..j) \in {Top("high", armed.breakout..(j - 1)), C(j).high}
          BY <5>1, <5>2, HighestOfTwo
        <5> QED BY <5>1, <5>2, <5>3
      <4>6. armed.line \in Int
        BY <2>3, <2>9
      <4> DEFINE a == (Top("high", armed.breakout..j) - armed.line) * 100
                 b == armed.line * conf.runup
      <4>7. a \in Int /\ b \in Int /\ ~(a >= b)
        BY <4>4, <4>5, <4>6 DEF RunUpBy
      <4> HIDE DEF a, b
      <4>8. a < b
        BY <4>7
      <4> QED BY <4>8 DEF a, b
    <3>4. HeldOne(x, conf)
      <4>1. x.fire - x.cycle.breakout <= conf.maxBars /\ ClosesOver(x.cycle, x.fire, conf)
        BY <2>13, <3>1
      <4>2. x.group \in {"A", "B"} => RunUpBy(x.cycle, x.retest, conf)
        BY <3>1, <3>2
      <4>3. ASSUME x.group \in {"A", "B"}, NEW j \in (x.cycle.breakout + 1)..(x.retest - 1),
                   mainBoxRetestTouched(j, x.cycle.line, conf), x.group # "B"
            PROVE  (Top("high", x.cycle.breakout..j) - x.cycle.line) * 100 < x.cycle.line * conf.runup
        BY <3>1, <3>3, <4>3
      <4> QED BY <4>1, <4>2, <4>3 DEF HeldOne
    <3> QED BY <3>4 DEF x
  <2>22. ASSUME NEW g \in firing
         PROVE  SeenOne(SignalOf(armed, g, i), list, conf)
    <3> DEFINE x == SignalOf(armed, g, i)
    <3>1. /\ x.group = g /\ x.cycle = armed /\ x.fire = i
          /\ x.retest = IF g \in {"A", "B"} THEN armed.arm[g] ELSE armed.support
          /\ g \in {"A", "B"} => armed.arm[g] >= 0
          /\ g \in {"C", "C0", "C2"} => armed.arm.C >= 0
      BY <2>20
    <3> HIDE DEF x
    <3>2. ASSUME g = "B"
          PROVE  \E k \in 1..Len(list) : OverBox(list[k], armed, conf) /\ list[k].curve <= x.retest
      BY <2>18, <3>1, <3>2 DEF ArmedBy
    <3>3. ASSUME g \in {"C", "C0", "C2"}
          PROVE  \E k, m \in 1..Len(list) :
                   /\ OverBox(list[k], armed, conf) /\ UnderBox(list[m], armed)
                   /\ list[m].at = x.retest /\ list[k].at < list[m].at
                   /\ list[k].curve < list[m].curve /\ list[m].curve <= i
      <4>1. armed.supportCurve > 0 /\ x.retest = armed.support
        BY <2>18, <3>1, <3>3 DEF ArmedBy
      <4>2. PICK k, m \in 1..Len(list) :
              /\ OverBox(list[k], armed, conf) /\ UnderBox(list[m], armed)
              /\ list[m].at = armed.support /\ list[k].at < list[m].at /\ list[k].curve < list[m].curve
        BY <2>14, <4>1 DEF Noted
      <4>3. list[m].curve <= i
        BY <1>2, <2>11
      <4> QED BY <4>1, <4>2, <4>3
    <3>4. SeenOne(x, list, conf)
      BY <3>1, <3>2, <3>3 DEF SeenOne
    <3> QED BY <3>4 DEF x
  <2>23. s.cycle = final /\ s.out = {SignalOf(armed, g, i) : g \in firing}
    BY <2>1
  <2>24. \A g \in firing : LET x == SignalOf(armed, g, i)
                           IN  x.cycle.def = cy.def /\ x.group = g /\ g \in final.fired /\ g \notin cy.fired
    BY <2>8, <2>9, <2>20
  <2>25. \A g \in cy.fired : g \in final.fired
    BY <2>8, <2>9
  <2> HIDE DEF s, i
  <2>26. /\ CycleOK(s.cycle, list, i, conf) /\ s.cycle.def = cy.def
         /\ \A x \in s.out : /\ HeldOne(x, conf) /\ SeenOne(x, list, conf)
                             /\ x.cycle.def = cy.def /\ x.group \in s.cycle.fired /\ x.group \notin cy.fired
         /\ \A x, y \in s.out : x.group = y.group => x = y
         /\ \A g \in cy.fired : g \in s.cycle.fired
    <3>1. \A x \in s.out : \E g \in firing : x = SignalOf(armed, g, i)
      BY <2>23
    <3>2. \A x \in s.out : /\ HeldOne(x, conf) /\ SeenOne(x, list, conf)
                           /\ x.cycle.def = cy.def /\ x.group \in s.cycle.fired /\ x.group \notin cy.fired
                           /\ x = SignalOf(armed, x.group, i)
      BY <2>21, <2>22, <2>23, <2>24, <3>1
    <3>3. \A x, y \in s.out : x.group = y.group => x = y
      BY <3>2
    <3> QED BY <2>19, <2>23, <2>25, <3>2, <3>3
  <2> QED BY <2>26 DEF Progressed, s, i
<1> QED BY <1>4, <1>5, <1>6

LEMMA StartedIs ==
    ASSUME NEW r, NEW list, NEW i \in Nat, Listed(list, i), NEW def, NEW cy \in Started(r, list, def, i),
           def \in 0..Len(list)
    PROVE  \E line \in Int : cy = NewCycle(def, line, i) /\ def \notin {cz.def : cz \in r.cycles}
<1> DEFINE main == list[list[def].links[1]].price
           line == IF main <= 0 THEN list[def].price ELSE main
<1>1. cy = NewCycle(def, line, i) /\ def > 0 /\ def \notin {cz.def : cz \in r.cycles}
      /\ list[def].links # << >>
  BY DEF Started
<1>2. def \in DOMAIN list /\ DOMAIN list = 1..Len(list) /\ Len(list) \in Nat
  BY <1>1, ListedFacts
<1>3. list[def].links \in Seq(DOMAIN list) /\ list[def].price \in Int
  BY <1>2 DEF Listed
<1>4. list[def].links[1] \in DOMAIN list
  <2> DEFINE l == list[def].links
             D == DOMAIN list
  <2>1. l \in Seq(D) /\ l # << >>
    BY <1>1, <1>3
  <2> HIDE DEF l, D
  <2>2. Len(l) \in Nat /\ Len(l) # 0 /\ \A k \in 1..Len(l) : l[k] \in D
    BY <2>1, EmptySeq, LenProperties, ElementOfSeq
  <2>3. l[1] \in D
    BY <2>2
  <2> QED BY <2>3 DEF l, D
<1>5. main \in Int
  BY <1>4 DEF Listed
<1> QED BY <1>1, <1>3, <1>5

LEMMA NewCycleOK ==
    ASSUME Directed(candles), NEW i \in 0..Last, NEW list, NEW conf, NEW def, NEW line \in Int
    PROVE  CycleOK(NewCycle(def, line, i), list, i, conf) /\ NewCycle(def, line, i).def = def
<1> DEFINE cy == NewCycle(def, line, i)
<1>1. /\ DOMAIN cy = CycleFields /\ DOMAIN cy.arm = {"A", "B", "C"}
      /\ cy.def = def /\ cy.breakout = i /\ cy.line = line /\ cy.high = C(i).high
      /\ cy.resistance = -1 /\ cy.supportCurve = 0
      /\ cy.arm.A = -1 /\ cy.arm.B = -1 /\ cy.arm.C = -1
  BY DEF NewCycle, CycleFields
<1>2. i \in Nat /\ i \in 0..i /\ (i + 1)..i = {}
  BY DirectedFacts
<1>3. \A g \in {"A", "B"} : cy.arm[g] = -1
  BY <1>1
<1> HIDE DEF cy
<1>4. CycleShape(cy, i)
  BY <1>1, <1>2 DEF CycleShape
<1>5. cy.high = Top("high", cy.breakout..i)
  BY <1>1, TopOfOne
<1>6. ClosesOver(cy, i, conf)
  BY <1>1, <1>2 DEF ClosesOver
<1>7. Noted(cy, list, i, conf)
  BY <1>1 DEF Noted
<1>8. ArmedBy(cy, list, i, conf)
  <2>1. \A j \in (cy.breakout + 1)..i : FALSE
    BY <1>1, <1>2
  <2>2. ~(cy.arm.B >= 0) /\ ~(cy.arm.C >= 0) /\ \A g \in {"A", "B"} : ~(cy.arm[g] >= 0)
    BY <1>1, <1>3
  <2> QED BY <2>1, <2>2 DEF ArmedBy
<1> QED BY <1>1, <1>4, <1>5, <1>6, <1>7, <1>8 DEF CycleOK, cy

\* The loop's memory after candle i.
RetestAfter(r, i) ==
    LET next == Track("engine", r.track, i)
        known == {next.boxes[k] : k \in {j \in (Len(r.track.boxes) + 1)..Len(next.boxes) :
                                           ~IsDef(next.boxes[j]) /\ next.boxes[j].curve = i}}
        steps == {Progress(cy, i, known, r.cfg) : cy \in r.cycles}
    IN  [r EXCEPT !.track = next,
                  !.cycles = {s.cycle : s \in steps}
                               \cup Started(r, next.boxes, FindLastDefBoxIndex(next.boxes), i),
                  !.out = @ \cup UNION {s.out : s \in steps}]

LEMMA RetestMoves ==
    ASSUME NEW r, NEW n, RetestOK(r, n), n < Last
    PROVE  RetestOK(RetestAfter(r, n + 1), n + 1)
<1> DEFINE i == n + 1
           old == r.track.boxes
           next == Track("engine", r.track, i)
           new == next.boxes
           known == {new[k] : k \in {j \in (Len(old) + 1)..Len(new) : ~IsDef(new[j]) /\ new[j].curve = i}}
           P(cy) == Progress(cy, i, known, r.cfg)
           steps == {P(cy) : cy \in r.cycles}
           def == FindLastDefBoxIndex(new)
           started == Started(r, new, def, i)
           q == RetestAfter(r, i)
<1>1. /\ candles \in RetestTapes /\ n \in 5..Last
      /\ DOMAIN r = {"track", "cfg", "cycles", "out"} /\ r.cfg \in RetestConfigs
      /\ TrackOK(r.track, n)
      /\ \A cy \in r.cycles : CycleOK(cy, old, n, r.cfg)
      /\ \A cy, cz \in r.cycles : cy.def = cz.def => cy = cz
      /\ \A s \in r.out :
           /\ HeldOne(s, r.cfg) /\ SeenOne(s, old, r.cfg)
           /\ \E cy \in r.cycles : cy.def = s.cycle.def /\ s.group \in cy.fired
      /\ \A s, t \in r.out : t.group = s.group /\ t.cycle.def = s.cycle.def => t = s
  BY DEF RetestOK
<1>2. /\ Directed(candles) /\ Last \in Nat /\ Last >= 5
      /\ r.cfg.runup \in Int /\ r.cfg.gap \in Int /\ r.cfg.maxBars \in Int /\ r.cfg.breakdown \in Int
  BY <1>1, RetestFacts
<1>3. n \in Nat /\ n + 1 <= Last /\ i \in Nat /\ i \in 0..Last /\ i \in 5..Last /\ i \in 6..Last
  BY <1>1, <1>2
<1>4. TrackOK(r.track, i)
  BY <1>1, <1>3, TrackLater
<1> DEFINE conf == r.cfg
<1>5. q = [r EXCEPT !.track = next, !.cycles = {s.cycle : s \in steps} \cup started,
                    !.out = r.out \cup UNION {s.out : s \in steps}]
  BY Zenon DEF RetestAfter
<1> HIDE DEF q, i
<1>6. TrackOK(next, i) /\ Grown(old, new, i)
  BY <1>2, <1>3, <1>4, TrackGrows DEF Orders
<1> HIDE DEF started, next
<1>7. Listed(old, i) /\ Listed(new, i)
  BY <1>4, <1>6 DEF TrackOK
<1>8. KnownAt(known, new, i)
  <2>1. Len(old) \in Nat /\ Len(new) \in Nat
    BY <1>7, ListedFacts
  <2>2. \A k \in (Len(old) + 1)..Len(new) : k \in 1..Len(new)
    BY <2>1
  <2> QED BY <2>2 DEF KnownAt
<1> HIDE DEF known, new
<1>9. /\ \A cy \in r.cycles : CycleOK(cy, new, n, conf)
      /\ \A s \in r.out : SeenOne(s, new, conf)
  <2>1. /\ \A cy, m : Noted(cy, old, m, conf) => Noted(cy, new, m, conf)
        /\ \A cy, m : ArmedBy(cy, old, m, conf) => ArmedBy(cy, new, m, conf)
        /\ \A s : SeenOne(s, old, conf) => SeenOne(s, new, conf)
    <3> HIDE DEF old, conf
    <3> QED BY <1>6, <1>7, NotedStays
  <2> QED BY <1>1, <2>1 DEF CycleOK
<1>10. \A cy \in r.cycles : Progressed(cy, P(cy), new, i, conf)
  <2> TAKE cy \in r.cycles
  <2>1. CycleOK(cy, new, n, conf) /\ Listed(new, n + 1) /\ KnownAt(known, new, n + 1)
    BY <1>7, <1>8, <1>9 DEF i
  <2>2. conf.runup \in Int /\ conf.gap \in Int /\ conf.maxBars \in Int /\ conf.breakdown \in Int
    BY <1>2
  <2> HIDE DEF conf
  <2>3. Progressed(cy, Progress(cy, n + 1, known, conf), new, n + 1, conf)
    BY <1>2, <1>3, <2>1, <2>2, ProgressKeeps
  <2> QED BY <2>3 DEF i, conf
<1>11. def \in 0..Len(new)
  BY <1>7, LastDefBox
<1>12. \A cy \in started : /\ CycleOK(cy, new, i, conf) /\ cy.def = def
                           /\ def \notin {cz.def : cz \in r.cycles}
                           /\ \A cz \in started : cz = cy
  <2> TAKE cy \in started
  <2>1. PICK line \in Int : cy = NewCycle(def, line, i) /\ def \notin {cz.def : cz \in r.cycles}
    <3> HIDE DEF def
    <3> QED BY <1>3, <1>7, <1>11, StartedIs DEF started
  <2>2. CycleOK(cy, new, i, conf) /\ cy.def = def
    <3> HIDE DEF def, conf
    <3> QED BY <1>2, <1>3, <2>1, NewCycleOK
  <2>3. \A cz \in started : cz = cy
    BY Zenon DEF started, Started
  <2> QED BY <2>1, <2>2, <2>3
<1> HIDE DEF P, def
<1> DEFINE cycles == {s.cycle : s \in steps} \cup started
           out == r.out \cup UNION {s.out : s \in steps}
<1>13. /\ \A c \in cycles : c \in started \/ \E cy \in r.cycles : c = P(cy).cycle
       /\ \A cy \in r.cycles : P(cy).cycle \in cycles
       /\ \A x \in out : x \in r.out \/ \E cy \in r.cycles : x \in P(cy).out
  OBVIOUS
<1>14. /\ DOMAIN q = {"track", "cfg", "cycles", "out"} /\ q.cfg = conf /\ q.track = next
       /\ q.cycles = cycles /\ q.out = out
  <2> HIDE DEF cycles, out
  <2> QED BY <1>1, <1>5 DEF cycles, out
<1> HIDE DEF cycles, out, steps
<1>15. \A c \in cycles : CycleOK(c, new, i, conf)
  BY <1>10, <1>12, <1>13 DEF Progressed
<1>16. \A c, d \in cycles : c.def = d.def => c = d
  <2> SUFFICES ASSUME NEW c \in cycles, NEW d \in cycles, c.def = d.def PROVE c = d
    OBVIOUS
  <2>1. CASE c \in started /\ d \in started
    BY <1>12, <2>1
  <2>2. ASSUME NEW a, NEW b, a \in started, NEW cy \in r.cycles, b = P(cy).cycle PROVE a.def # b.def
    BY <1>10, <1>12, <2>2 DEF Progressed
  <2>3. CASE c \notin started /\ d \notin started
    <3>1. PICK cy \in r.cycles, cz \in r.cycles : c = P(cy).cycle /\ d = P(cz).cycle
      BY <1>13, <2>3
    <3>2. cy.def = cz.def
      BY <1>10, <3>1 DEF Progressed
    <3> QED BY <1>1, <3>1, <3>2
  <2> QED BY <1>13, <2>1, <2>2, <2>3
<1>17. ASSUME NEW x \in out
       PROVE  /\ HeldOne(x, conf) /\ SeenOne(x, new, conf)
              /\ \E c \in cycles : c.def = x.cycle.def /\ x.group \in c.fired
  <2>1. CASE x \in r.out
    <3>1. PICK cy \in r.cycles : cy.def = x.cycle.def /\ x.group \in cy.fired
      BY <1>1, <2>1
    <3>2. P(cy).cycle \in cycles /\ P(cy).cycle.def = x.cycle.def /\ x.group \in P(cy).cycle.fired
      BY <1>10, <1>13, <3>1 DEF Progressed
    <3> QED BY <1>1, <1>9, <2>1, <3>2
  <2>2. ASSUME NEW cy \in r.cycles, x \in P(cy).out
        PROVE  /\ HeldOne(x, conf) /\ SeenOne(x, new, conf)
               /\ \E c \in cycles : c.def = x.cycle.def /\ x.group \in c.fired
    <3>1. P(cy).cycle \in cycles /\ P(cy).cycle.def = x.cycle.def /\ x.group \in P(cy).cycle.fired
      BY <1>10, <1>13, <2>2 DEF Progressed
    <3> QED BY <1>10, <2>2, <3>1 DEF Progressed
  <2> QED BY <1>13, <2>1, <2>2
<1>18. \A x, y \in out : y.group = x.group /\ y.cycle.def = x.cycle.def => y = x
  <2>1. ASSUME NEW x \in r.out, NEW cy \in r.cycles, NEW y \in P(cy).out,
               y.group = x.group, y.cycle.def = x.cycle.def
        PROVE  FALSE
    <3>1. PICK cz \in r.cycles : cz.def = x.cycle.def /\ x.group \in cz.fired
      BY <1>1
    <3>2. y.cycle.def = cy.def /\ y.group \notin cy.fired
      BY <1>10 DEF Progressed
    <3>3. cz = cy
      BY <1>1, <2>1, <3>1, <3>2
    <3> QED BY <2>1, <3>1, <3>2, <3>3
  <2>2. ASSUME NEW cy \in r.cycles, NEW cz \in r.cycles, NEW x \in P(cy).out, NEW y \in P(cz).out,
               y.group = x.group, y.cycle.def = x.cycle.def
        PROVE  y = x
    <3>1. y.cycle.def = cz.def /\ x.cycle.def = cy.def
      BY <1>10 DEF Progressed
    <3>2. cy = cz
      BY <1>1, <2>2, <3>1
    <3> QED BY <1>10, <2>2, <3>2 DEF Progressed
  <2> SUFFICES ASSUME NEW x \in out, NEW y \in out, y.group = x.group, y.cycle.def = x.cycle.def
               PROVE  y = x
    OBVIOUS
  <2>3. CASE x \in r.out /\ y \in r.out
    BY <1>1, <2>3
  <2> QED BY <1>13, <2>1, <2>2, <2>3
<1>19. RetestOK(q, i)
  <2>1. q.track.boxes = new
    BY <1>14 DEF new
  <2> QED BY <1>1, <1>3, <1>6, <1>14, <1>15, <1>16, <1>17, <1>18, <2>1 DEF RetestOK, conf
<1> QED BY <1>19 DEF q, i

RetestInv == lab = "retest" => RetestOK(retest, pos)

\* What is said of the loop's memory depends on the list of candles alone.
LEMMA RetestStays ==
    ASSUME candles' = candles, NEW r, NEW n
    PROVE  RetestOK(r, n)' <=> RetestOK(r, n)
<1>1. Last' = Last /\ \A j : C(j)' = C(j)
  BY DEF Last, C
<1>2. \A b, j : Top("high", b..j)' = Top("high", b..j)
  BY DEF Top, C
<1>3. \A j, line, conf : mainBoxRetestTouched(j, line, conf)' <=> mainBoxRetestTouched(j, line, conf)
  BY DEF mainBoxRetestTouched, C
<1>4. \A cy, j, conf : RunUpBy(cy, j, conf)' <=> RunUpBy(cy, j, conf)
  BY <1>2 DEF RunUpBy
<1>5. \A cy, m, conf : ClosesOver(cy, m, conf)' <=> ClosesOver(cy, m, conf)
  BY DEF ClosesOver, C
<1>6. \A cy, list, m, conf : ArmedBy(cy, list, m, conf)' <=> ArmedBy(cy, list, m, conf)
  BY <1>3, <1>4 DEF ArmedBy
<1>7. \A cy, list, m, conf : CycleOK(cy, list, m, conf)' <=> CycleOK(cy, list, m, conf)
  BY <1>2, <1>5, <1>6 DEF CycleOK
<1>8. \A s, conf : HeldOne(s, conf)' <=> HeldOne(s, conf)
  BY <1>2, <1>3, <1>4, <1>5 DEF HeldOne
<1> QED BY <1>1, <1>7, <1>8 DEF RetestOK

LEMMA RetestInvInit == Init => RetestInv
<1> SUFFICES ASSUME Init, lab = "retest" PROVE RetestOK(retest, pos)
  BY DEF RetestInv
<1>1. PICK conf \in RetestConfigs : retest = [track |-> EmptyTrack, cfg |-> conf, cycles |-> {}, out |-> {}]
  BY DEF Init, RetestInit
<1>2. candles \in RetestTapes /\ pos = 5
  BY DEF Init, RetestInit, LoopStart, Boxes!First
<1>3. pos \in 5..Last /\ TrackOK(retest.track, pos)
  <2>1. Last \in Nat /\ Last >= 5
    BY <1>1, <1>2, RetestFacts
  <2> QED BY <1>1, <1>2, <2>1, EmptyTrackOK
<1>4. /\ DOMAIN retest = {"track", "cfg", "cycles", "out"} /\ retest.cfg = conf
      /\ retest.cycles = {} /\ retest.out = {}
  BY <1>1
<1> QED BY <1>2, <1>3, <1>4 DEF RetestOK

LEMMA RetestInvHolds == Spec => []RetestInv
<1>1. RetestInv /\ [Next]_vars => RetestInv'
  <2> SUFFICES ASSUME RetestInv, [Next]_vars PROVE RetestInv'
    OBVIOUS
  <2>1. CASE lab = "retest" /\ Next
    <3>1. RetestStep /\ lab' = lab
      BY <2>1 DEF Next
    <3>2. pos < Last /\ pos' = pos + 1 /\ candles' = candles /\ retest' = RetestAfter(retest, pos + 1)
      BY <3>1 DEF RetestStep, RetestAfter
    <3>3. RetestOK(RetestAfter(retest, pos + 1), pos + 1)
      BY <2>1, <3>2, RetestMoves DEF RetestInv
    <3>4. PICK r, n : r = RetestAfter(retest, pos + 1) /\ n = pos + 1
      OBVIOUS
    <3>5. RetestOK(r, n)'
      BY <3>2, <3>3, <3>4, RetestStays
    <3>6. retest' = r /\ pos' = n
      BY <3>2, <3>4
    <3>7. RetestOK(retest, pos)' <=> RetestOK(r, n)'
      BY <3>6 DEF RetestOK, CycleOK, ClosesOver, ArmedBy, HeldOne, RunUpBy, Top, mainBoxRetestTouched
    <3> QED BY <3>5, <3>7 DEF RetestInv
  <2>2. CASE lab # "retest" /\ Next
    BY <2>2 DEF Next, RetestInv
  <2>3. CASE UNCHANGED vars
    <3>1. lab' = lab /\ candles' = candles /\ pos' = pos /\ retest' = retest
      BY <2>3 DEF vars
    <3>2. PICK r, n : r = retest /\ n = pos
      OBVIOUS
    <3>3. RetestOK(r, n) <=> RetestOK(retest, pos)
      BY <3>2
    <3>4. RetestOK(r, n)' <=> RetestOK(r, n)
      BY <3>1, RetestStays
    <3>5. RetestOK(retest, pos)' <=> RetestOK(r, n)'
      BY <3>1, <3>2 DEF RetestOK, CycleOK, ClosesOver, ArmedBy, HeldOne, RunUpBy, Top, mainBoxRetestTouched
    <3> QED BY <3>1, <3>3, <3>4, <3>5 DEF RetestInv
  <2> QED BY <2>1, <2>2, <2>3
<1> QED BY <1>1, RetestInvInit, PTL DEF Spec

LEMMA RetestHeldAlways ==
    ASSUME RetestInv
    PROVE  RetestHeld /\ RetestWitnessed
<1> SUFFICES ASSUME lab = "retest" PROVE RetestHeld /\ RetestWitnessed
  BY DEF RetestHeld, RetestWitnessed
<1>1. /\ \A s \in retest.out : HeldOne(s, retest.cfg) /\ SeenOne(s, retest.track.boxes, retest.cfg)
      /\ \A s, t \in retest.out : t.group = s.group /\ t.cycle.def = s.cycle.def => t = s
      /\ DOMAIN retest.track.boxes = 1..Len(retest.track.boxes)
  BY ListedFacts DEF RetestInv, RetestOK, TrackOK
<1>2. RetestHeld
  BY <1>1 DEF RetestHeld, HeldOne, RunUpBy, ClosesOver
<1>3. RetestWitnessed
  <2> SUFFICES ASSUME NEW s \in retest.out
               PROVE  LET cy == s.cycle
                          boxes == {b \in {retest.track.boxes[k] : k \in DOMAIN retest.track.boxes} :
                                      ~IsDef(b) /\ b.at > cy.breakout}
                          over == {b \in boxes : /\ b.type = "resistance"
                                                 /\ b.price * 100 >= cy.line * (100 + retest.cfg.gap)}
                      IN  /\ s.group = "B" => \E b \in over : b.curve <= s.retest
                          /\ s.group \in {"C", "C0", "C2"} =>
                               \E b \in over, d \in boxes :
                                 /\ d.type = "support" /\ d.at = s.retest
                                 /\ b.at < d.at /\ b.curve < d.curve /\ d.curve <= s.fire
    BY DEF RetestWitnessed
  <2> DEFINE list == retest.track.boxes
             boxes == {b \in {list[k] : k \in DOMAIN list} : ~IsDef(b) /\ b.at > s.cycle.breakout}
             over == {b \in boxes : /\ b.type = "resistance"
                                    /\ b.price * 100 >= s.cycle.line * (100 + retest.cfg.gap)}
  <2>1. \A k \in 1..Len(list) : /\ OverBox(list[k], s.cycle, retest.cfg) => list[k] \in over
                                /\ UnderBox(list[k], s.cycle) => list[k] \in boxes /\ list[k].type = "support"
    BY <1>1 DEF OverBox, UnderBox
  <2> HIDE DEF over, boxes
  <2>2. SeenOne(s, list, retest.cfg)
    BY <1>1
  <2>3. s.group = "B" => \E b \in over : b.curve <= s.retest
    BY <2>1, <2>2 DEF SeenOne
  <2>4. s.group \in {"C", "C0", "C2"} =>
          \E b \in over, d \in boxes : /\ d.type = "support" /\ d.at = s.retest
                                       /\ b.at < d.at /\ b.curve < d.curve /\ d.curve <= s.fire
    BY <2>1, <2>2 DEF SeenOne
  <2> QED BY <2>3, <2>4 DEF over, boxes
<1> QED BY <1>2, <1>3

-----------------------------------------------------------------------------
(* The descending trendline. *)

\* A plain loop only appends, one box at most and of its candle.
LEMMA PlainAppends ==
    ASSUME Directed(candles), NEW t, NEW i \in 6..Last, DOMAIN t = {"boxes", "from", "defs"}
    PROVE  \/ Track("plain", t, i).boxes = t.boxes
           \/ \E b : b.curve = i /\ Track("plain", t, i).boxes = Append(t.boxes, b)
<1> DEFINE prev == [j \in DOMAIN candles |-> candles[j].key][i - 1]
           next == C(i).key
           high == Boxes!FindHighestPrice(t.from, i)
           low == Boxes!FindLowestPrice(t.from, i)
           new == Boxes!AddTurn(t.boxes, t.from, i, next)
<1>1. prev \in {-1, 1} /\ next \in {-1, 1}
  <2>1. i \in 5..Last /\ i - 1 \in 5..Last /\ i - 1 \in DOMAIN candles
    BY DirectedFacts
  <2> QED BY <2>1, DirectedFacts DEF C
<1>2. \/ new = t.boxes \/ new = Boxes!AddHighBox(t.boxes, high, i) \/ new = Boxes!AddLowBox(t.boxes, low, i)
  <2>1. new = CASE next = prev -> t.boxes
                [] prev > 0 /\ next # prev -> IF high >= 0 THEN Boxes!AddHighBox(t.boxes, high, i) ELSE t.boxes
                [] prev < 0 /\ next # prev -> IF low >= 0 THEN Boxes!AddLowBox(t.boxes, low, i) ELSE t.boxes
    BY Zenon DEF Boxes!AddTurn
  <2> HIDE DEF prev, next, high, low, new
  <2>2. CASE next = prev
    BY <1>1, <2>1, <2>2
  <2>3. CASE prev > 0 /\ next # prev
    BY <1>1, <2>1, <2>3
  <2>4. CASE prev < 0 /\ next # prev
    BY <1>1, <2>1, <2>4
  <2> QED BY <1>1, <2>2, <2>3, <2>4
<1>3. Track("plain", t, i).boxes = new
  <2>1. WithTurn(t, i) = [t EXCEPT !.boxes = new]
    BY DEF WithTurn
  <2> HIDE DEF new
  <2>2. \A s : DOMAIN s = {"boxes", "from", "defs"} => WithLeg(s, i).boxes = s.boxes
    BY DEF WithLeg
  <2>3. DOMAIN WithTurn(t, i) = {"boxes", "from", "defs"} /\ WithTurn(t, i).boxes = new
    BY <2>1
  <2>4. Track("plain", t, i) = WithLeg(WithTurn(t, i), i)
    BY DEF Track
  <2> QED BY <2>2, <2>3, <2>4
<1>4. ASSUME NEW at, NEW kind, NEW type, NEW price
      PROVE  Boxes!Box(kind, type, at, price, i, << >>).curve = i
  BY DEF Boxes!Box
<1>5. Boxes!AddHighBox(t.boxes, high, i) = t.boxes
      \/ \E b : b.curve = i /\ Boxes!AddHighBox(t.boxes, high, i) = Append(t.boxes, b)
  <2> HIDE DEF high
  <2> QED BY <1>4 DEF Boxes!AddHighBox
<1>6. Boxes!AddLowBox(t.boxes, low, i) = t.boxes
      \/ \E b : b.curve = i /\ Boxes!AddLowBox(t.boxes, low, i) = Append(t.boxes, b)
  <2> HIDE DEF low
  <2> QED BY <1>4 DEF Boxes!AddLowBox
<1> HIDE DEF new, high, low
<1> QED BY <1>2, <1>3, <1>5, <1>6

\* The pattern of the boxes k..k+3.
At4(list, k) == [r1 |-> list[k], s1 |-> list[k + 1], r2 |-> list[k + 2], s2 |-> list[k + 3]]

PatternAt(list, k, conf) == buildDescendingTrendlinePattern(SubSeq(list, k, k + 3), conf)

LEMMA PatternIs ==
    ASSUME NEW list, NEW k \in 1..(Len(list) - 3), Len(list) \in Nat, NEW conf, NEW p \in PatternAt(list, k, conf)
    PROVE  p = At4(list, k)
<1> DEFINE w == SubSeq(list, k, k + 3)
           S == {list[j] : j \in k..(k + 3)}
<1>1. \A j \in 1..((k + 3) - k + 1) : w[j] = list[k + j - 1]
  <2>1. \A j \in k..(k + 3) : list[j] \in S
    OBVIOUS
  <2>2. k \in Int /\ k + 3 \in Int
    OBVIOUS
  <2> HIDE DEF S
  <2> QED BY <2>1, <2>2, SubSeqProperties
<1>2. p = [r1 |-> w[1], s1 |-> w[2], r2 |-> w[3], s2 |-> w[4]]
  BY DEF PatternAt, buildDescendingTrendlinePattern
<1> HIDE DEF w
<1>3. w[1] = list[k] /\ w[2] = list[k + 1] /\ w[3] = list[k + 2] /\ w[4] = list[k + 3]
  <2>1. \A j \in {1, 2, 3, 4} : j \in 1..((k + 3) - k + 1)
    OBVIOUS
  <2>2. k + 1 - 1 = k /\ k + 2 - 1 = k + 1 /\ k + 3 - 1 = k + 2 /\ k + 4 - 1 = k + 3
    OBVIOUS
  <2> QED BY <1>1, <2>1, <2>2
<1> QED BY <1>2, <1>3 DEF At4

\* A box more leaves the older patterns as they are.
LEMMA PatternStays ==
    ASSUME NEW list, Sequence(list), NEW b, NEW k \in 1..(Len(list) - 3), NEW conf
    PROVE  PatternAt(Append(list, b), k, conf) = PatternAt(list, k, conf)
<1>1. Len(list) \in Nat /\ \A j \in 1..Len(list) : Append(list, b)[j] = list[j]
  BY AppendAny
<1> DEFINE new == Append(list, b)
           S == {list[j] : j \in k..(k + 3)}
           v == SubSeq(list, k, k + 3)
           w == SubSeq(new, k, k + 3)
<1>2. \A j \in k..(k + 3) : new[j] = list[j] /\ list[j] \in S
  BY <1>1
<1>3. k \in Int /\ k + 3 \in Int
  BY <1>1
<1> HIDE DEF new, S
<1>4. /\ v \in Seq(S) /\ Len(v) = IF k <= k + 3 THEN k + 3 - k + 1 ELSE 0
      /\ \A j \in 1..(k + 3 - k + 1) : v[j] = list[k + j - 1]
  BY <1>2, <1>3, SubSeqProperties
<1>5. /\ w \in Seq(S) /\ Len(w) = IF k <= k + 3 THEN k + 3 - k + 1 ELSE 0
      /\ \A j \in 1..(k + 3 - k + 1) : w[j] = new[k + j - 1]
  BY <1>2, <1>3, SubSeqProperties
<1> HIDE DEF v, w
<1>6. Len(v) = 4 /\ Len(w) = 4 /\ \A j \in 1..4 : v[j] = w[j]
  <2>1. k + 3 - k + 1 = 4 /\ k <= k + 3 /\ \A j \in 1..4 : k + j - 1 \in k..(k + 3)
    BY <1>3
  <2> QED BY <1>2, <1>4, <1>5, <2>1
<1>7. v = w
  BY <1>4, <1>5, <1>6, SeqEqual
<1> QED BY <1>7 DEF PatternAt, v, w, new

\* No pattern of the list that was known before a candle is newer than this one.
Newest(p, list, limit, conf) ==
    \A k \in 1..(Len(list) - 3) : \A q \in PatternAt(list, k, conf) :
      q.s2.curve < limit => q.s2.curve <= p.s2.curve

OverFloor(p, n, conf) ==
    \A j \in (p.s2.curve + 1)..n : C(j).close * 200 >= Floor2(p) * (100 - conf.breakdown)

\* A pattern at candle n.
PatternOK(p, n) ==
    /\ p.s2.curve \in 0..n
    /\ p.r1.at \in Int /\ p.r2.at \in Int
    /\ p.r1.price \in Int /\ p.r2.price \in Int /\ p.s1.price \in Int /\ p.s2.price \in Int

BeforeApex(s) == (s.pos - s.p.r1.at) * Fall2(s.p) < Apex2(s.p)

\* The loop at candle n: what is armed has not signalled.
TrendlineOK(t, n) ==
    /\ candles \in TrendlineTapes /\ n \in 5..Last
    /\ DOMAIN t = {"track", "cfg", "arm", "out"} /\ t.cfg \in TrendlineConfigs
    /\ TrackOK(t.track, n)
    /\ \A p \in t.arm : /\ PatternOK(p, n) /\ OverFloor(p, n, t.cfg)
                        /\ Newest(p, t.track.boxes, n + 1, t.cfg)
                        /\ \A s \in t.out : s.p # p
    /\ \A s \in t.out : /\ s.pos \in 0..n /\ s.p.s2.curve \in Int /\ s.p.s2.curve < s.pos
                        /\ BeforeApex(s) /\ OverFloor(s.p, s.pos, t.cfg)
                        /\ Newest(s.p, t.track.boxes, s.pos, t.cfg)
                        /\ \A u \in t.out : u.p = s.p => u = s

LEMMA ApexAhead ==
    ASSUME NEW p, NEW n, PatternOK(p, n), NEW i \in Int, ~(LineAt(p, i) * 2 <= Floor2(p) * Run(p))
    PROVE  (i - p.r1.at) * Fall2(p) < Apex2(p)
<1> DEFINE a == p.r1.price
           b == p.r2.price
           f == Floor2(p)
           r == Run(p)
           x == i - p.r1.at
<1>1. a \in Int /\ b \in Int /\ f \in Int /\ r \in Int /\ x \in Int
  BY DEF PatternOK, Floor2, Run
<1>2. LineAt(p, i) = a * r + (b - a) * x
  BY DEF LineAt
<1>3. Fall2(p) = 2 * (a - b) /\ Apex2(p) = (2 * a - f) * r
  BY DEF Fall2, Apex2
<1> HIDE DEF a, b, f, r, x
<1>4. ~((a * r + (b - a) * x) * 2 <= f * r)
  BY <1>2 DEF f, r
<1>5. x * (2 * (a - b)) < (2 * a - f) * r
  BY <1>1, <1>4
<1> QED BY <1>3, <1>5 DEF x

\* A pattern is one of the old list, or of the last four boxes and known at the candle.
LEMMA PatternsOfNew ==
    ASSUME NEW old, NEW new, NEW i \in Nat, Listed(old, i), NEW conf,
           new = old \/ \E b : b.curve = i /\ new = Append(old, b),
           NEW k \in 1..(Len(new) - 3), NEW q \in PatternAt(new, k, conf)
    PROVE  \/ k \in 1..(Len(old) - 3) /\ q \in PatternAt(old, k, conf)
           \/ k = Len(new) - 3 /\ Len(new) > Len(old) /\ q.s2.curve = i
<1>1. Sequence(old) /\ Len(old) \in Nat
  BY ListedFacts DEF Listed
<1>2. CASE new = old
  BY <1>2
<1>3. ASSUME NEW b, b.curve = i, new = Append(old, b)
      PROVE  \/ k \in 1..(Len(old) - 3) /\ q \in PatternAt(old, k, conf)
             \/ k = Len(new) - 3 /\ Len(new) > Len(old) /\ q.s2.curve = i
  <2>1. Len(new) = Len(old) + 1 /\ new[Len(old) + 1] = b
    BY <1>1, <1>3, AppendAny
  <2>2. CASE k \in 1..(Len(old) - 3)
    <3>1. PatternAt(new, k, conf) = PatternAt(old, k, conf)
      BY <1>1, <1>3, <2>2, PatternStays
    <3> QED BY <2>2, <3>1
  <2>3. CASE k \notin 1..(Len(old) - 3)
    <3>1. k = Len(new) - 3 /\ k + 3 = Len(old) + 1 /\ Len(new) > Len(old) /\ Len(new) \in Nat
      BY <1>1, <2>1, <2>3
    <3>2. q = At4(new, k)
      BY <3>1, PatternIs
    <3>3. q.s2 = new[k + 3]
      BY <3>2 DEF At4
    <3> QED BY <1>3, <2>1, <3>1, <3>3
  <2> QED BY <2>2, <2>3
<1> QED BY <1>2, <1>3

\* The patterns of a list have boxes of the list.
LEMMA PatternTyped ==
    ASSUME NEW list, NEW n \in Nat, Listed(list, n), NEW k \in 1..(Len(list) - 3), NEW conf,
           NEW p \in PatternAt(list, k, conf)
    PROVE  PatternOK(p, n)
<1>1. Len(list) \in Nat /\ DOMAIN list = 1..Len(list)
  BY ListedFacts
<1>2. /\ p.r1 = list[k] /\ p.s1 = list[k + 1] /\ p.r2 = list[k + 2] /\ p.s2 = list[k + 3]
      /\ k \in DOMAIN list /\ k + 1 \in DOMAIN list /\ k + 2 \in DOMAIN list /\ k + 3 \in DOMAIN list
  <2>1. p = At4(list, k)
    BY <1>1, PatternIs
  <2> QED BY <1>1, <2>1 DEF At4
<1>3. \A j \in DOMAIN list : list[j].at \in 0..n /\ list[j].price \in Int /\ list[j].curve \in 0..n
  BY DEF Listed
<1>4. p.s2.curve \in 0..n
  BY <1>2, <1>3
<1>5. p.r1.at \in Int /\ p.r2.at \in Int
  BY <1>2, <1>3
<1>6. p.r1.price \in Int /\ p.r2.price \in Int /\ p.s1.price \in Int /\ p.s2.price \in Int
  BY <1>2, <1>3
<1> QED BY <1>4, <1>5, <1>6 DEF PatternOK

LEMMA OverFloorOn ==
    ASSUME Directed(candles), NEW n \in Nat, n + 1 <= Last, NEW conf, conf.breakdown \in Int,
           NEW p, PatternOK(p, n), OverFloor(p, n, conf), ~Dropped(p, n + 1, conf)
    PROVE  OverFloor(p, n + 1, conf)
<1>1. \A j \in (p.s2.curve + 1)..(n + 1) : j = n + 1 \/ j \in (p.s2.curve + 1)..n
  BY DEF PatternOK
<1> DEFINE a == C(n + 1).close * 200
           b == Floor2(p) * (100 - conf.breakdown)
<1>2. a \in Int /\ b \in Int
  <2>1. n + 1 \in 0..Last
    BY DirectedFacts
  <2>2. C(n + 1).close \in Int
    BY <2>1, DirectedFacts
  <2>3. Floor2(p) \in Int
    BY DEF Floor2, PatternOK
  <2> QED BY <2>2, <2>3
<1>3. ~(a < b)
  BY DEF Dropped
<1> HIDE DEF a, b
<1>4. a >= b
  BY <1>2, <1>3
<1> QED BY <1>1, <1>4 DEF OverFloor, a, b

\* The loop's memory after candle i.
TrendlineAfter(t, i) ==
    LET next == Track("plain", t.track, i)
        n == Len(next.boxes)
        breaks == Breaks(t.arm, i, t.cfg)
        kept == {p \in t.arm : ~Dropped(p, i, t.cfg)} \ breaks
        formed == IF n > Len(t.track.boxes) /\ n >= 4
                  THEN {p \in buildDescendingTrendlinePattern(SubSeq(next.boxes, n - 3, n), t.cfg) : p.s2.curve = i}
                  ELSE {}
    IN  [t EXCEPT !.track = next, !.arm = NextArm(formed, kept),
                  !.out = @ \cup {[p |-> p, pos |-> i] : p \in breaks}]

LEMMA TrendlineMoves ==
    ASSUME NEW t, NEW n, TrendlineOK(t, n), n < Last
    PROVE  TrendlineOK(TrendlineAfter(t, n + 1), n + 1)
<1> DEFINE i == n + 1
           old == t.track.boxes
           next == Track("plain", t.track, i)
           new == next.boxes
           m == Len(new)
           conf == t.cfg
           breaks == Breaks(t.arm, i, conf)
           kept == {p \in t.arm : ~Dropped(p, i, conf)} \ breaks
           formed == IF m > Len(old) /\ m >= 4
                     THEN {p \in buildDescendingTrendlinePattern(SubSeq(new, m - 3, m), conf) : p.s2.curve = i}
                     ELSE {}
           arm == NextArm(formed, kept)
           told == {[p |-> p, pos |-> i] : p \in breaks}
           q == TrendlineAfter(t, i)
<1>1. /\ candles \in TrendlineTapes /\ n \in 5..Last
      /\ DOMAIN t = {"track", "cfg", "arm", "out"} /\ conf \in TrendlineConfigs
      /\ TrackOK(t.track, n)
      /\ \A p \in t.arm : /\ PatternOK(p, n) /\ OverFloor(p, n, conf)
                          /\ Newest(p, old, n + 1, conf)
                          /\ \A s \in t.out : s.p # p
      /\ \A s \in t.out : /\ s.pos \in 0..n /\ s.p.s2.curve \in Int /\ s.p.s2.curve < s.pos
                          /\ BeforeApex(s) /\ OverFloor(s.p, s.pos, conf)
                          /\ Newest(s.p, old, s.pos, conf)
                          /\ \A u \in t.out : u.p = s.p => u = s
  BY DEF TrendlineOK
<1>2. Directed(candles) /\ Last \in Nat /\ Last >= 5 /\ conf.breakdown \in Int
  BY <1>1, TrendlineAssumption, DirectedFacts
<1>3. n \in Nat /\ n + 1 <= Last /\ i \in Nat /\ i \in 0..Last /\ i \in 5..Last /\ i \in 6..Last
  BY <1>1, <1>2
<1>4. TrackOK(t.track, i)
  BY <1>1, <1>3, TrackLater
<1>5. q = [t EXCEPT !.track = next, !.arm = arm, !.out = t.out \cup told]
  BY Zenon DEF TrendlineAfter
<1> HIDE DEF q, arm, told
<1>6. /\ DOMAIN q = {"track", "cfg", "arm", "out"} /\ q.cfg = conf /\ q.track = next
      /\ q.arm = arm /\ q.out = t.out \cup told
  <2> HIDE DEF next
  <2> QED BY <1>1, <1>5
<1>7. TrackOK(next, i)
  <2> HIDE DEF i
  <2> QED BY <1>2, <1>3, <1>4, TrackGrows DEF Orders
<1>8. new = old \/ \E b : b.curve = i /\ new = Append(old, b)
  <2> HIDE DEF i
  <2> QED BY <1>2, <1>3, <1>4, PlainAppends DEF TrackOK
<1> HIDE DEF next
<1>9. Listed(old, i) /\ Listed(new, i) /\ Len(old) \in Nat /\ m \in Nat
  BY <1>4, <1>7, ListedFacts DEF TrackOK
<1>10. \A k \in 1..(m - 3) : \A p \in PatternAt(new, k, conf) :
         \/ k \in 1..(Len(old) - 3) /\ p \in PatternAt(old, k, conf)
         \/ k = m - 3 /\ m > Len(old) /\ p.s2.curve = i
  <2> HIDE DEF i, old, new, conf
  <2> QED BY <1>3, <1>8, <1>9, PatternsOfNew
<1>11. \A k \in 1..(m - 3) : \A p \in PatternAt(new, k, conf) : PatternOK(p, i)
  <2> HIDE DEF i, new, conf
  <2> QED BY <1>3, <1>9, PatternTyped
<1> HIDE DEF new
<1>12. /\ \A p \in formed : m - 3 \in 1..(m - 3) /\ p \in PatternAt(new, m - 3, conf) /\ p.s2.curve = i
       /\ m > Len(old) /\ m - 3 \in 1..(m - 3) =>
            \A p \in PatternAt(new, m - 3, conf) : p.s2.curve = i => p \in formed
  <2>1. PatternAt(new, m - 3, conf) = buildDescendingTrendlinePattern(SubSeq(new, m - 3, m), conf)
    <3>1. m - 3 + 3 = m
      BY <1>9
    <3> HIDE DEF m
    <3> QED BY <3>1 DEF PatternAt
  <2>2. m >= 4 <=> m - 3 \in 1..(m - 3)
    BY <1>9
  <2> HIDE DEF m
  <2> QED BY <2>1, <2>2
<1>13. \A p \in breaks : /\ p \in t.arm /\ ~Dropped(p, i, conf) /\ i > p.s2.curve
  BY DEF Breaks
<1> HIDE DEF formed, breaks
\* A limit up to the candle is not reached by what the candle forms.
<1>14. ASSUME NEW p, NEW limit, limit <= i, limit \in Int, Newest(p, old, limit, conf)
       PROVE  Newest(p, new, limit, conf)
  <2> SUFFICES ASSUME NEW k \in 1..(m - 3), NEW x \in PatternAt(new, k, conf), x.s2.curve < limit
               PROVE  x.s2.curve <= p.s2.curve
    BY DEF Newest
  <2>1. CASE k \in 1..(Len(old) - 3) /\ x \in PatternAt(old, k, conf)
    BY <1>14, <2>1 DEF Newest
  <2>2. CASE x.s2.curve = i
    BY <1>3, <1>14, <2>2
  <2> QED BY <1>10, <2>1, <2>2
<1>15. ASSUME NEW p \in t.arm, ~Dropped(p, i, conf)
       PROVE  OverFloor(p, i, conf)
  <2> HIDE DEF conf
  <2> QED BY <1>1, <1>2, <1>3, <1>15, OverFloorOn
<1>16. ASSUME NEW p \in arm
       PROVE  /\ PatternOK(p, i) /\ OverFloor(p, i, conf) /\ Newest(p, new, i + 1, conf)
              /\ \A s \in t.out \cup told : s.p # p
  <2>1. CASE formed # {}
    <3>1. p \in formed
      BY <1>16, <2>1 DEF arm, NextArm
    <3>2. PatternOK(p, i) /\ p.s2.curve = i
      BY <1>11, <1>12, <3>1
    <3>3. OverFloor(p, i, conf)
      <4>1. (i + 1)..i = {}
        BY <1>3
      <4> HIDE DEF i
      <4> QED BY <3>2, <4>1 DEF OverFloor
    <3>4. Newest(p, new, i + 1, conf)
      <4> SUFFICES ASSUME NEW k \in 1..(m - 3), NEW x \in PatternAt(new, k, conf)
                   PROVE  x.s2.curve <= p.s2.curve
        BY DEF Newest
      <4>1. x.s2.curve \in 0..i
        BY <1>11 DEF PatternOK
      <4> QED BY <1>3, <3>2, <4>1
    <3>5. \A s \in t.out : s.p # p
      <4>1. \A s \in t.out : s.p.s2.curve \in Int /\ s.p.s2.curve < s.pos /\ s.pos \in 0..n
        BY <1>1
      <4>2. \A s \in t.out : s.p.s2.curve < i
        BY <1>3, <4>1
      <4> QED BY <1>3, <3>2, <4>2
    <3>6. \A s \in told : s.p # p
      <4>1. \A s \in told : \E x \in breaks : s.p = x
        BY DEF told
      <4>2. \A x \in breaks : i > x.s2.curve
        BY <1>13
      <4> QED BY <1>3, <3>2, <4>1, <4>2
    <3> QED BY <3>2, <3>3, <3>4, <3>5, <3>6
  <2>2. CASE formed = {}
    <3>1. p \in t.arm /\ ~Dropped(p, i, conf) /\ p \notin breaks
      BY <1>16, <2>2 DEF arm, NextArm
    <3>2. PatternOK(p, i)
      <4>1. p.s2.curve \in 0..i
        BY <1>1, <1>3, <3>1 DEF PatternOK
      <4> QED BY <1>1, <3>1, <4>1 DEF PatternOK
    <3>3. OverFloor(p, i, conf)
      BY <1>15, <3>1
    <3>4. Newest(p, new, i + 1, conf)
      <4> SUFFICES ASSUME NEW k \in 1..(m - 3), NEW x \in PatternAt(new, k, conf)
                   PROVE  x.s2.curve <= p.s2.curve
        BY DEF Newest
      <4>1. k \in 1..(Len(old) - 3) /\ x \in PatternAt(old, k, conf)
        <5>1. CASE k = m - 3 /\ m > Len(old) /\ x.s2.curve = i
          <6>1. x \in formed
            BY <1>12, <5>1
          <6> QED BY <2>2, <6>1
        <5> QED BY <1>10, <5>1
      <4>2. x.s2.curve < n + 1
        <5>1. Listed(old, n)
          BY <1>1 DEF TrackOK
        <5>2. PatternOK(x, n)
          <6> HIDE DEF old, conf
          <6> QED BY <1>3, <4>1, <5>1, PatternTyped
        <5> QED BY <1>3, <5>2 DEF PatternOK
      <4> QED BY <1>1, <3>1, <4>1, <4>2 DEF Newest
    <3>5. \A s \in told : s.p # p
      BY <3>1 DEF told
    <3> QED BY <1>1, <3>1, <3>2, <3>3, <3>4, <3>5
  <2> QED BY <2>1, <2>2
<1>17. ASSUME NEW s \in t.out \cup told
       PROVE  /\ s.pos \in 0..i /\ s.p.s2.curve \in Int /\ s.p.s2.curve < s.pos
              /\ BeforeApex(s) /\ OverFloor(s.p, s.pos, conf) /\ Newest(s.p, new, s.pos, conf)
              /\ \A u \in t.out \cup told : u.p = s.p => u = s
  <2>1. CASE s \in t.out
    <3>1. /\ s.pos \in 0..n /\ s.p.s2.curve \in Int /\ s.p.s2.curve < s.pos
          /\ BeforeApex(s) /\ OverFloor(s.p, s.pos, conf) /\ Newest(s.p, old, s.pos, conf)
          /\ \A u \in t.out : u.p = s.p => u = s
      BY <1>1, <2>1
    <3>2. s.pos \in 0..i /\ s.pos <= i /\ s.pos \in Int
      BY <1>3, <3>1
    <3>3. Newest(s.p, new, s.pos, conf)
      BY <1>14, <3>1, <3>2
    <3>4. ASSUME NEW u \in told PROVE u.p # s.p
      <4>1. u.p \in t.arm
        BY <1>13 DEF told
      <4> QED BY <1>1, <2>1, <4>1
    <3> QED BY <3>1, <3>2, <3>3, <3>4
  <2>2. CASE s \in told
    <3>1. PICK p \in breaks : s = [p |-> p, pos |-> i]
      BY <2>2 DEF told
    <3>2. s.p = p /\ s.pos = i /\ p \in t.arm /\ ~Dropped(p, i, conf) /\ i > p.s2.curve
      BY <1>13, <3>1
    <3>3. PatternOK(p, n) /\ Newest(p, old, n + 1, conf) /\ \A u \in t.out : u.p # p
      BY <1>1, <3>2
    <3>4. p.s2.curve \in Int /\ p.s2.curve < i
      BY <1>3, <3>2, <3>3 DEF PatternOK
    <3>5. BeforeApex(s)
      <4>1. ~(LineAt(p, i) * 2 <= Floor2(p) * Run(p)) /\ i \in Int
        BY <1>3, <3>2 DEF Dropped
      <4>2. (i - p.r1.at) * Fall2(p) < Apex2(p)
        <5> HIDE DEF i
        <5> QED BY <3>3, <4>1, ApexAhead
      <4> HIDE DEF i
      <4> QED BY <3>2, <4>2 DEF BeforeApex
    <3>6. OverFloor(p, i, conf)
      BY <1>15, <3>2
    <3>7. Newest(p, new, i, conf)
      <4>1. i <= i /\ i \in Int
        BY <1>3
      <4> QED BY <1>14, <3>3, <4>1
    <3>8. \A u \in told : u.p = p => u = s
      BY <3>1 DEF told
    <3>9. i \in 0..i
      BY <1>3
    <3> HIDE DEF i
    <3> QED BY <3>2, <3>3, <3>4, <3>5, <3>6, <3>7, <3>8, <3>9
  <2> QED BY <2>1, <2>2
<1>18. q.track.boxes = new
  BY <1>6 DEF new
<1> HIDE DEF i, conf
<1>19. TrendlineOK(q, i)
  BY <1>1, <1>3, <1>6, <1>7, <1>16, <1>17, <1>18 DEF TrendlineOK, conf
<1> QED BY <1>19 DEF q, i

TrendlineInv == lab = "trendline" => TrendlineOK(trendline, pos)

LEMMA TrendlineStays ==
    ASSUME candles' = candles, NEW t, NEW n
    PROVE  TrendlineOK(t, n)' <=> TrendlineOK(t, n)
<1>1. Last' = Last
  BY DEF Last
<1>2. \A p, m, conf : OverFloor(p, m, conf)' <=> OverFloor(p, m, conf)
  BY DEF OverFloor, C
<1> QED BY <1>1, <1>2 DEF TrendlineOK

LEMMA TrendlineInvInit == Init => TrendlineInv
<1> SUFFICES ASSUME Init, lab = "trendline" PROVE TrendlineOK(trendline, pos)
  BY DEF TrendlineInv
<1>1. PICK conf \in TrendlineConfigs :
        trendline = [track |-> EmptyTrack, cfg |-> conf, arm |-> {}, out |-> {}]
  BY DEF Init, TrendlineInit
<1>2. candles \in TrendlineTapes /\ pos = 5
  BY DEF Init, TrendlineInit, LoopStart, Boxes!First
<1>3. pos \in 5..Last /\ TrackOK(trendline.track, pos)
  <2>1. Last \in Nat /\ Last >= 5
    BY <1>2, TrendlineAssumption, DirectedFacts
  <2> QED BY <1>1, <1>2, <2>1, EmptyTrackOK
<1>4. /\ DOMAIN trendline = {"track", "cfg", "arm", "out"} /\ trendline.cfg = conf
      /\ trendline.arm = {} /\ trendline.out = {}
  BY <1>1
<1> QED BY <1>2, <1>3, <1>4 DEF TrendlineOK

LEMMA TrendlineInvHolds == Spec => []TrendlineInv
<1>1. TrendlineInv /\ [Next]_vars => TrendlineInv'
  <2> SUFFICES ASSUME TrendlineInv, [Next]_vars PROVE TrendlineInv'
    OBVIOUS
  <2>1. CASE lab = "trendline" /\ Next
    <3>1. TrendlineStep /\ lab' = lab
      BY <2>1 DEF Next
    <3>2. /\ pos < Last /\ pos' = pos + 1 /\ candles' = candles
          /\ trendline' = TrendlineAfter(trendline, pos + 1)
      BY <3>1 DEF TrendlineStep, TrendlineAfter
    <3>3. TrendlineOK(TrendlineAfter(trendline, pos + 1), pos + 1)
      BY <2>1, <3>2, TrendlineMoves DEF TrendlineInv
    <3>4. PICK t, n : t = TrendlineAfter(trendline, pos + 1) /\ n = pos + 1
      OBVIOUS
    <3>5. TrendlineOK(t, n)'
      BY <3>2, <3>3, <3>4, TrendlineStays
    <3>6. trendline' = t /\ pos' = n
      BY <3>2, <3>4
    <3>7. TrendlineOK(trendline, pos)' <=> TrendlineOK(t, n)'
      BY <3>6 DEF TrendlineOK, OverFloor
    <3> QED BY <3>5, <3>7 DEF TrendlineInv
  <2>2. CASE lab # "trendline" /\ Next
    BY <2>2 DEF Next, TrendlineInv
  <2>3. CASE UNCHANGED vars
    <3>1. lab' = lab /\ candles' = candles /\ pos' = pos /\ trendline' = trendline
      BY <2>3 DEF vars
    <3>2. PICK t, n : t = trendline /\ n = pos
      OBVIOUS
    <3>3. TrendlineOK(t, n) <=> TrendlineOK(trendline, pos)
      BY <3>2
    <3>4. TrendlineOK(t, n)' <=> TrendlineOK(t, n)
      BY <3>1, TrendlineStays
    <3>5. TrendlineOK(trendline, pos)' <=> TrendlineOK(t, n)'
      BY <3>1, <3>2 DEF TrendlineOK, OverFloor
    <3> QED BY <3>1, <3>3, <3>4, <3>5 DEF TrendlineInv
  <2> QED BY <2>1, <2>2, <2>3
<1> QED BY <1>1, TrendlineInvInit, PTL DEF Spec

LEMMA TrendlineAliveAlways ==
    ASSUME TrendlineInv
    PROVE  TrendlineAlive /\ FreshestPattern
<1> SUFFICES ASSUME lab = "trendline" PROVE TrendlineAlive /\ FreshestPattern
  BY DEF TrendlineAlive, FreshestPattern
<1>1. \A s \in trendline.out :
        /\ BeforeApex(s) /\ OverFloor(s.p, s.pos, trendline.cfg)
        /\ Newest(s.p, trendline.track.boxes, s.pos, trendline.cfg)
        /\ \A u \in trendline.out : u.p = s.p => u = s
  BY DEF TrendlineInv, TrendlineOK
<1>2. TrendlineAlive
  BY <1>1 DEF TrendlineAlive, BeforeApex, OverFloor
<1>3. FreshestPattern
  BY <1>1 DEF FreshestPattern, Newest, PatternAt
<1> QED BY <1>2, <1>3

\* A signal is of something that is still alive.  Of a retest: no close has fallen too far under
\* the line, the rise came before the retest, a group of a DefBox signals once, and what it waited
\* for, a resistance and a support after it, is in the list and was known by then
\* (mainbox_retest_analyze.go:82, 131).  Of a trendline: the break comes before the apex, over the
\* floor, once, of the newest pattern known (descending_trendline_analyze.go:104, 120).
THEOREM ArmsHeldAlways == Spec => []ArmsHeld
<1>1. RetestInv /\ TrendlineInv => ArmsHeld
  BY RetestHeldAlways, TrendlineAliveAlways DEF ArmsHeld
<1> QED BY <1>1, RetestInvHolds, TrendlineInvHolds, PTL

-----------------------------------------------------------------------------
(* The waves. *)

WaveTape == \E s \in WaveStudies : candles = s.candles /\ cfg = Normalize(s.config)

LEMMA WaveTapeFacts ==
    ASSUME WaveTape
    PROVE  /\ Last \in Nat /\ DOMAIN candles = 0..Last
           /\ cfg.volumeWindow \in Int /\ cfg.volumeWindow > 1
           /\ cfg.minLead \in Int /\ cfg.minLead > 0 /\ cfg.maxLead \in Int
<1>1. PICK s \in WaveStudies : candles = s.candles /\ cfg = Normalize(s.config)
  BY DEF WaveTape
<1>2. PICK n \in Nat : DOMAIN candles = 0..n
  <2>1. PICK n \in DOMAIN candles : DOMAIN candles = 0..n
    BY <1>1, WaveAssumption
  <2> QED BY <2>1
<1>3. Cardinality(0..n) = n + 1
  BY <1>2, FS_Interval
<1>4. Last = n
  BY <1>2, <1>3 DEF Last
<1>5. /\ {"volumeWindow", "minLead", "maxLead"} \subseteq DOMAIN s.config
      /\ {"volumeWindow", "minLead", "maxLead"} \subseteq DOMAIN WaveDefault
      /\ \A f \in {"volumeWindow", "minLead", "maxLead"} : s.config[f] \in Int /\ WaveDefault[f] \in Int
      /\ WaveDefault.volumeWindow > 1 /\ WaveDefault.minLead > 0
  BY <1>1, WaveAssumption DEF WaveNumbers
<1>6. CASE s.config = Zero
  BY <1>1, <1>2, <1>4, <1>5, <1>6 DEF Normalize
<1>7. CASE s.config # Zero
  <2>1. cfg.volumeWindow = IF s.config.volumeWindow <= 1 THEN WaveDefault.volumeWindow ELSE s.config.volumeWindow
    BY <1>1, <1>5, <1>7 DEF Normalize, LowerOf, AtLeastTwo, MayBeOff
  <2>2. cfg.minLead = IF s.config.minLead <= 0 THEN WaveDefault.minLead ELSE s.config.minLead
    BY <1>1, <1>5, <1>7 DEF Normalize, LowerOf, AtLeastTwo, MayBeOff
  <2>3. cfg.maxLead \in {WaveDefault.maxLead, s.config.maxLead}
    BY <1>1, <1>5, <1>7 DEF Normalize, LowerOf
  <2> QED BY <1>2, <1>4, <1>5, <2>1, <2>2, <2>3
<1> QED BY <1>6, <1>7

\* A wave reads no box that is not yet known.
LEMMA WaveAfterPast ==
    ASSUME NEW w, NEW i \in Int, NEW n \in Int, NEW m \in Int, 0 <= i, i <= n, i <= m
    PROVE  WaveAfter(w, i, n) = WaveAfter(w, i, m)
<1>1. \A w1 : Eligible(n, w1, i) = Eligible(m, w1, i)
  BY DEF Eligible, TrendBoxes
<1>2. \A w1 : HasBaseBoxes(n, w1, i) <=> HasBaseBoxes(m, w1, i)
  <2> DEFINE at(j) == C(j).box.at
             Base(e) ==
               cfg.pattern = "none" \/
               \E s1, r, s2 \in e :
                 /\ s1 < r /\ r < s2 /\ \A j \in e : j <= s1 \/ j = r \/ s2 <= j
                 /\ C(s1).box.type = "support" /\ C(r).box.type = "resistance" /\ C(s2).box.type = "support"
                 /\ at(s1) < at(r) /\ at(r) < at(s2)
                 /\ cfg.pattern = "srs_support_held" => C(at(s2)).low * 100 >= C(at(s1)).low * cfg.secondSupport
  <2>1. \A k, w1 : HasBaseBoxes(k, w1, i) <=> Base(Eligible(k, w1, i))
    BY Zenon DEF HasBaseBoxes
  <2> HIDE DEF Base
  <2> QED BY <1>1, <2>1
<1>3. \A w1 : IsSecondBreakout(n, w1, i) = IsSecondBreakout(m, w1, i)
  BY <1>2 DEF IsSecondBreakout
<1>4. \A v, c : Advance(v, c, i, n) = Advance(v, c, i, m)
  BY <1>3, Zenon DEF Advance
<1> QED BY <1>4, Zenon DEF WaveAfter

Cycles == [acc : Int, w1 : Int, w2 : Int, w3 : Int]
WaveSignal == [stage : 0..3, pos : Int, cycle : Cycles]
Waves == [accs : SUBSET Int, cycle : Cycles, signals : Seq([stage : 0..3, pos : Int, cycle : Cycles])]

\* A cycle has its waves in their order.
Shaped(c) ==
    /\ c \in Cycles
    /\ c.w1 < 0 => c = NoCycle
    /\ c.w2 >= 0 => c.w1 >= 0
    /\ c.w3 >= 0 => c.w2 >= 0

Added(w, stage, i, c) == Append(w.signals, [stage |-> stage, pos |-> i, cycle |-> c])

\* What a candle does to a cycle that is alive.
LEMMA AdvanceGives ==
    ASSUME NEW w \in Waves, NEW c, Shaped(c), NEW i \in Nat, NEW n, NEW r, r = Advance(w, c, i, n),
           LatestAccumulation(w.accs, i) \in Int
    PROVE  /\ r \in Waves /\ r.accs = w.accs /\ Shaped(r.cycle)
           /\ \/ /\ r.signals = w.signals /\ r.cycle = c
                 /\ c = NoCycle => ~IsBreakout(i) \/ LatestAccumulation(w.accs, i) < 0
              \/ /\ c = NoCycle /\ LatestAccumulation(w.accs, i) >= 0
                 /\ r.cycle.w1 = i /\ r.cycle.w2 < 0
                 /\ r.signals = Added(w, 1, i, r.cycle)
              \/ /\ c # NoCycle /\ c.w2 < 0 /\ r.cycle = [c EXCEPT !.w2 = i]
                 /\ r.signals = Added(w, 2, i, r.cycle)
              \/ /\ c.w2 >= 0 /\ c.w3 < 0 /\ r.cycle = [c EXCEPT !.w3 = i]
                 /\ r.signals = Added(w, 3, i, r.cycle)
              \/ /\ c.w3 >= 0 /\ r.cycle = NoCycle
                 /\ r.signals = Added(w, 0, i, c)
<1> DEFINE a == LatestAccumulation(w.accs, i)
           same == [w EXCEPT !.cycle = c]
<1>1. c \in Cycles /\ NoCycle \in Cycles /\ (c = NoCycle <=> c.w1 < 0)
  BY DEF Shaped, Cycles, NoCycle
<1>2. \A d \in Cycles, stage \in 0..3 :
        LET x == Reach(w, d, stage, i)
        IN  /\ x \in Waves /\ x.accs = w.accs
            /\ x.cycle = IF stage = 0 THEN NoCycle ELSE d
            /\ x.signals = Added(w, stage, i, d)
  <2> TAKE d \in Cycles, stage \in 0..3
  <2>1. [stage |-> stage, pos |-> i, cycle |-> d] \in [stage : 0..3, pos : Int, cycle : Cycles]
    OBVIOUS
  <2>2. Added(w, stage, i, d) \in Seq([stage : 0..3, pos : Int, cycle : Cycles])
    BY <2>1 DEF Added, Waves
  <2> DEFINE y == [w EXCEPT !.cycle = IF stage = 0 THEN NoCycle ELSE d]
  <2>3. y \in Waves /\ y.accs = w.accs /\ y.signals = w.signals /\ y.cycle = IF stage = 0 THEN NoCycle ELSE d
    BY <1>1 DEF Waves
  <2>4. Reach(w, d, stage, i) = [y EXCEPT !.signals = Added(w, stage, i, d)]
    BY DEF Reach, Added, Waves
  <2> HIDE DEF y
  <2> QED BY <2>2, <2>3, <2>4 DEF Waves
<1>3. same \in Waves /\ same.accs = w.accs /\ same.signals = w.signals /\ same.cycle = c
  BY <1>1 DEF Waves
<1> HIDE DEF same
<1>4. CASE c = NoCycle
  <2>1. c.w2 < 0 /\ c.w3 < 0
    BY <1>4 DEF NoCycle
  <2>2. r = IF a >= 0 /\ IsBreakout(i) THEN Reach(w, [NoCycle EXCEPT !.acc = a, !.w1 = i], 1, i) ELSE same
    BY <1>4, <2>1, <1>1 DEF Advance, same, Shaped, Cycles
  <2> DEFINE d == [NoCycle EXCEPT !.acc = a, !.w1 = i]
  <2>3. CASE a >= 0 /\ IsBreakout(i)
    <3>1. a \in Int
      OBVIOUS
    <3> HIDE DEF a
    <3>5. d \in Cycles
      <4>1. [NoCycle EXCEPT !.acc = a] \in Cycles
        BY <1>1, <3>1 DEF Cycles
      <4>2. \A e \in Cycles : [e EXCEPT !.w1 = i] \in Cycles
        BY DEF Cycles
      <4>3. d = [[NoCycle EXCEPT !.acc = a] EXCEPT !.w1 = i]
        OBVIOUS
      <4> QED BY <4>1, <4>2, <4>3
    <3>6. d.w1 = i /\ d.w2 = -1 /\ d.w3 = -1
      BY DEF NoCycle
    <3> HIDE DEF d
    <3>2. d \in Cycles /\ d.w1 = i /\ d.w2 < 0 /\ d.w3 < 0
      BY <3>5, <3>6
    <3>3. r = Reach(w, d, 1, i)
      BY <2>2, <2>3 DEF d
    <3>4. r \in Waves /\ r.accs = w.accs /\ r.cycle = d /\ r.signals = Added(w, 1, i, d)
      BY <1>2, <3>2, <3>3
    <3>7. Shaped(d)
      BY <3>5, <3>6 DEF Shaped
    <3> QED BY <1>4, <2>3, <3>2, <3>4, <3>7 DEF a
  <2>4. CASE ~(a >= 0 /\ IsBreakout(i))
    BY <1>3, <1>4, <2>2, <2>4
  <2> QED BY <2>3, <2>4
<1>5. CASE c # NoCycle /\ c.w2 < 0
  <2>1. c.w3 < 0
    BY <1>5 DEF Shaped, Cycles
  <2>2. r = IF IsSecondBreakout(n, c.w1, i) THEN Reach(w, [c EXCEPT !.w2 = i], 2, i) ELSE same
    BY <1>1, <1>5, <2>1 DEF Advance, same, Cycles
  <2> DEFINE d == [c EXCEPT !.w2 = i]
  <2>3. d \in Cycles /\ d.w1 = c.w1 /\ d.w2 = i /\ d.w3 = c.w3
    BY <1>1 DEF Cycles
  <2> HIDE DEF d
  <2>4. Shaped(d)
    BY <1>1, <1>5, <2>1, <2>3 DEF Shaped, Cycles
  <2>5. CASE IsSecondBreakout(n, c.w1, i)
    <3>1. r \in Waves /\ r.accs = w.accs /\ r.cycle = d /\ r.signals = Added(w, 2, i, d)
      BY <1>2, <2>2, <2>3, <2>5 DEF d
    <3> QED BY <1>5, <2>4, <3>1 DEF d
  <2>6. CASE ~IsSecondBreakout(n, c.w1, i)
    BY <1>3, <1>5, <2>2, <2>6
  <2> QED BY <2>5, <2>6
<1>6. CASE c.w2 >= 0 /\ c.w3 < 0
  <2>1. c # NoCycle /\ ~(c.w2 < 0) /\ ~(c.w3 >= 0)
    BY <1>1, <1>6 DEF Cycles, NoCycle
  <2>2. r = IF IsThirdRebound(c.w2, i) THEN Reach(w, [c EXCEPT !.w3 = i], 3, i) ELSE same
    BY <1>1, <1>6, <2>1 DEF Advance, same, Cycles
  <2> DEFINE d == [c EXCEPT !.w3 = i]
  <2>3. d \in Cycles /\ d.w1 = c.w1 /\ d.w2 = c.w2 /\ d.w3 = i
    BY <1>1 DEF Cycles
  <2> HIDE DEF d
  <2>4. Shaped(d)
    BY <1>1, <1>6, <2>1, <2>3 DEF Shaped, Cycles
  <2>5. CASE IsThirdRebound(c.w2, i)
    <3>1. r \in Waves /\ r.accs = w.accs /\ r.cycle = d /\ r.signals = Added(w, 3, i, d)
      BY <1>2, <2>2, <2>3, <2>5 DEF d
    <3> QED BY <1>6, <2>4, <3>1 DEF d
  <2>6. CASE ~IsThirdRebound(c.w2, i)
    BY <1>3, <1>6, <2>1, <2>2, <2>6
  <2> QED BY <2>5, <2>6
<1>7. CASE c.w3 >= 0
  <2>1. c # NoCycle /\ ~(c.w2 < 0) /\ ~(c.w3 < 0)
    BY <1>1, <1>7 DEF Shaped, Cycles, NoCycle
  <2>2. r = IF IsClimax(c.w3, i) THEN Reach(w, c, 0, i) ELSE same
    BY <1>1, <1>7, <2>1 DEF Advance, same, Cycles
  <2>3. Shaped(NoCycle)
    BY <1>1 DEF Shaped, NoCycle
  <2>4. CASE IsClimax(c.w3, i)
    <3>1. r \in Waves /\ r.accs = w.accs /\ r.cycle = NoCycle /\ r.signals = Added(w, 0, i, c)
      BY <1>1, <1>2, <2>2, <2>4
    <3> QED BY <1>7, <2>3, <3>1
  <2>5. CASE ~IsClimax(c.w3, i)
    BY <1>3, <1>7, <2>1, <2>2, <2>5
  <2> QED BY <2>4, <2>5
<1> QED
  <2>1. c.w2 \in Int /\ c.w3 \in Int
    BY <1>1 DEF Cycles
  <2> QED BY <2>1, <1>4, <1>5, <1>6, <1>7

LEMMA LatestIs ==
    ASSUME NEW i \in Nat, NEW accs, accs \subseteq 0..i
    PROVE  LET a == LatestAccumulation(accs, i)
           IN  /\ a \in Int
               /\ a >= 0 => a \in accs /\ i - a \in cfg.minLead..cfg.maxLead
               /\ a < 0 => \A x \in accs : i - x \notin cfg.minLead..cfg.maxLead
<1> DEFINE fit == {a \in accs : i - a \in cfg.minLead..cfg.maxLead}
<1>1. LatestAccumulation(accs, i) = IF fit = {} THEN -1 ELSE HighestOf(fit)
  BY DEF LatestAccumulation
<1>2. CASE fit = {}
  <2>1. \A x \in accs : i - x \notin cfg.minLead..cfg.maxLead
    BY <1>2
  <2> HIDE DEF fit
  <2> QED BY <1>1, <1>2, <2>1
<1>3. CASE fit # {}
  <2>3. fit \subseteq accs
    OBVIOUS
  <2> HIDE DEF fit
  <2>1. i \in Int /\ fit \subseteq Int /\ \A x \in fit : x <= i
    BY <2>3
  <2>2. HighestOf(fit) \in fit
    BY <1>3, <2>1, HighestIs
  <2>4. HighestOf(fit) \in 0..i /\ HighestOf(fit) \in accs
    BY <2>2, <2>3
  <2>5. i - HighestOf(fit) \in cfg.minLead..cfg.maxLead
    BY <2>2 DEF fit
  <2> QED BY <1>1, <1>3, <2>4, <2>5
<1> QED BY <1>2, <1>3

\* The signals of a loop: in the order of their candles, a second wave follows the first wave
\* of its cycle.
InOrder(signals, i) ==
    /\ \A k \in 1..Len(signals) :
         /\ signals[k].pos \in (cfg.volumeWindow + cfg.minLead)..i
         /\ signals[k].stage = 1 => signals[k].cycle.w1 = signals[k].pos
         /\ signals[k].stage = 2 =>
              k > 1 /\ signals[k - 1].stage = 1 /\ signals[k - 1].cycle.w1 = signals[k].cycle.w1
    /\ \A k, l \in 1..Len(signals) : k < l => signals[k].pos < signals[l].pos

\* The loop after candle i: it knows the accumulations that are not too old, and a cycle that
\* is alive has told of its first wave.
WaveOK(w, i) ==
    /\ w \in Waves /\ Shaped(w.cycle)
    /\ w.accs \subseteq cfg.volumeWindow..i
    /\ \A a \in cfg.volumeWindow..i : IsAccumulation(a) /\ i - a <= cfg.maxLead => a \in w.accs
    /\ InOrder(w.signals, i)
    /\ w.cycle # NoCycle =>
         /\ w.signals # << >>
         /\ w.cycle.w2 < 0 => /\ w.signals[Len(w.signals)].stage = 1
                              /\ w.signals[Len(w.signals)].cycle.w1 = w.cycle.w1

\* BreakoutNotMissed, of candle i.
NotMissed(w, i) ==
    w.cycle = NoCycle =>
      \/ w.signals # << >> /\ w.signals[Len(w.signals)].pos = i
      \/ ~IsBreakout(i)
      \/ ~\E a \in cfg.volumeWindow..i : IsAccumulation(a) /\ i - a \in cfg.minLead..cfg.maxLead

LEMMA InOrderMore ==
    ASSUME WaveTape, NEW signals \in Seq([stage : 0..3, pos : Int, cycle : Cycles]), NEW i \in Nat, NEW s,
           InOrder(signals, i), s \in [stage : 0..3, pos : Int, cycle : Cycles],
           s.pos = i + 1, s.pos >= cfg.volumeWindow + cfg.minLead,
           s.stage = 1 => s.cycle.w1 = s.pos,
           s.stage = 2 => /\ signals # << >> /\ signals[Len(signals)].stage = 1
                          /\ signals[Len(signals)].cycle.w1 = s.cycle.w1
    PROVE  InOrder(Append(signals, s), i + 1)
<1> DEFINE m == Len(signals)
           new == Append(signals, s)
<1>1. /\ m \in Nat /\ Len(new) = m + 1 /\ new[m + 1] = s
      /\ \A k \in 1..m : new[k] = signals[k] /\ signals[k].pos \in Int
      /\ signals # << >> => m > 0
  <2> DEFINE T == [stage : 0..3, pos : Int, cycle : Cycles]
  <2>1. signals \in Seq(T) /\ s \in T
    OBVIOUS
  <2> HIDE DEF T
  <2>5. \A k \in 1..m : signals[k] \in T
    BY <2>1
  <2>2. \A k \in 1..m : signals[k].pos \in Int
    BY <2>5 DEF T
  <2>3. m \in Nat /\ (signals # << >> => m > 0)
    BY <2>1, EmptySeq
  <2>4. Len(new) = m + 1 /\ new[m + 1] = s /\ \A k \in 1..m : new[k] = signals[k]
    BY <2>1, <2>3
  <2> QED BY <2>2, <2>3, <2>4
<1>2. cfg.volumeWindow + cfg.minLead \in Int
  BY WaveTapeFacts
<1> HIDE DEF new, m
<1>3. ASSUME NEW k \in 1..(m + 1)
      PROVE  /\ new[k].pos \in (cfg.volumeWindow + cfg.minLead)..(i + 1)
             /\ new[k].stage = 1 => new[k].cycle.w1 = new[k].pos
             /\ new[k].stage = 2 =>
                  k > 1 /\ new[k - 1].stage = 1 /\ new[k - 1].cycle.w1 = new[k].cycle.w1
  <2>1. CASE k = m + 1
    <3>1. s.stage = 2 => m > 0 /\ new[m].stage = 1 /\ new[m].cycle.w1 = s.cycle.w1
      BY <1>1 DEF m
    <3> QED BY <1>1, <1>2, <2>1, <3>1
  <2>2. CASE k \in 1..m
    <3>1. k > 1 => k - 1 \in 1..m
      BY <1>1, <2>2
    <3>2. /\ signals[k].pos \in (cfg.volumeWindow + cfg.minLead)..i
          /\ signals[k].stage = 1 => signals[k].cycle.w1 = signals[k].pos
          /\ signals[k].stage = 2 =>
               k > 1 /\ signals[k - 1].stage = 1 /\ signals[k - 1].cycle.w1 = signals[k].cycle.w1
      BY <2>2 DEF InOrder, m
    <3> QED BY <1>1, <1>2, <2>2, <3>1, <3>2
  <2> QED BY <1>1, <2>1, <2>2
<1>4. ASSUME NEW k \in 1..(m + 1), NEW l \in 1..(m + 1), k < l PROVE new[k].pos < new[l].pos
  <2>1. k \in 1..m
    BY <1>1, <1>4
  <2>2. new[k].pos = signals[k].pos /\ signals[k].pos \in Int /\ signals[k].pos <= i
    BY <1>1, <1>2, <2>1 DEF InOrder, m
  <2>3. CASE l = m + 1
    BY <1>1, <2>2, <2>3
  <2>4. CASE l \in 1..m
    BY <1>1, <1>4, <2>1, <2>4 DEF InOrder, m
  <2> QED BY <1>1, <2>3, <2>4
<1> QED BY <1>1, <1>3, <1>4 DEF InOrder, new, m

LEMMA WaveMoves ==
    ASSUME WaveTape, NEW w, NEW i \in Nat, i >= cfg.volumeWindow, WaveOK(w, i - 1), NEW n
    PROVE  LET x == WaveAfter(w, i, n)
           IN  /\ WaveOK(x, i) /\ NotMissed(x, i)
               /\ \/ x.signals = w.signals
                  \/ \E s \in WaveSignal : s.pos = i /\ x.signals = Append(w.signals, s)
<1> DEFINE old == {a \in w.accs : i - a > cfg.maxLead}
           kept == w.accs \ old
           live == IF Expired(w.cycle, i) THEN NoCycle ELSE w.cycle
           v == [w EXCEPT !.accs = @ \ old]
           r == Advance(v, live, i, n)
           x == WaveAfter(w, i, n)
           new == IF IsAccumulation(i) THEN {i} ELSE {}
           latest == LatestAccumulation(kept, i)
<1>1. /\ cfg.volumeWindow \in Int /\ cfg.volumeWindow > 1 /\ cfg.minLead \in Int /\ cfg.minLead > 0
      /\ cfg.maxLead \in Int
  BY WaveTapeFacts
<1>2. /\ w \in Waves /\ Shaped(w.cycle) /\ w.accs \subseteq cfg.volumeWindow..(i - 1)
      /\ \A a \in cfg.volumeWindow..(i - 1) : IsAccumulation(a) /\ (i - 1) - a <= cfg.maxLead => a \in w.accs
      /\ InOrder(w.signals, i - 1)
      /\ w.cycle # NoCycle =>
           /\ w.signals # << >>
           /\ w.cycle.w2 < 0 => /\ w.signals[Len(w.signals)].stage = 1
                                /\ w.signals[Len(w.signals)].cycle.w1 = w.cycle.w1
  BY DEF WaveOK
<1>3. v \in Waves /\ v.accs = kept /\ v.signals = w.signals
  BY <1>2 DEF Waves
<1>4. x = [r EXCEPT !.accs = @ \cup new]
  BY DEF WaveAfter
<1>5. Shaped(live) /\ (live = NoCycle \/ live = w.cycle)
  <2>1. Shaped(NoCycle)
    BY DEF Shaped, Cycles, NoCycle
  <2> QED BY <1>2, <2>1
<1>6. /\ kept \subseteq cfg.volumeWindow..(i - 1) /\ kept \subseteq 0..i
      /\ \A a \in cfg.volumeWindow..(i - 1) : IsAccumulation(a) /\ i - a <= cfg.maxLead => a \in kept
  <2>1. kept \subseteq w.accs
    OBVIOUS
  <2>2. ASSUME NEW a \in cfg.volumeWindow..(i - 1), IsAccumulation(a), i - a <= cfg.maxLead PROVE a \in kept
    <3>1. (i - 1) - a <= cfg.maxLead /\ ~(i - a > cfg.maxLead)
      BY <1>1, <2>2
    <3>2. a \in w.accs
      BY <1>2, <2>2, <3>1
    <3> QED BY <3>1, <3>2
  <2> HIDE DEF kept
  <2> QED BY <1>1, <1>2, <2>1, <2>2
<1> HIDE DEF v, live, kept, x
<1>7. /\ latest \in Int
      /\ latest >= 0 => latest \in kept /\ i - latest \in cfg.minLead..cfg.maxLead
      /\ latest < 0 => \A a \in kept : i - a \notin cfg.minLead..cfg.maxLead
  BY <1>6, LatestIs
<1> HIDE DEF latest
<1>8. /\ r \in Waves /\ r.accs = kept /\ Shaped(r.cycle)
      /\ \/ /\ r.signals = w.signals /\ r.cycle = live
            /\ live = NoCycle => ~IsBreakout(i) \/ latest < 0
         \/ /\ live = NoCycle /\ latest >= 0
            /\ r.cycle.w1 = i /\ r.cycle.w2 < 0
            /\ r.signals = Added(v, 1, i, r.cycle)
         \/ /\ live # NoCycle /\ live.w2 < 0 /\ r.cycle = [live EXCEPT !.w2 = i]
            /\ r.signals = Added(v, 2, i, r.cycle)
         \/ /\ live.w2 >= 0 /\ live.w3 < 0 /\ r.cycle = [live EXCEPT !.w3 = i]
            /\ r.signals = Added(v, 3, i, r.cycle)
         \/ /\ live.w3 >= 0 /\ r.cycle = NoCycle
            /\ r.signals = Added(v, 0, i, live)
  <2>1. LatestAccumulation(v.accs, i) \in Int
    BY <1>3, <1>7 DEF latest
  <2>2. LatestAccumulation(v.accs, i) = latest
    BY <1>3 DEF latest
  <2> HIDE DEF r
  <2>3. r = Advance(v, live, i, n)
    BY DEF r
  <2> QED BY <1>3, <1>5, <2>1, <2>2, <2>3, AdvanceGives
<1> HIDE DEF r
<1>9. x \in Waves /\ x.accs = kept \cup new /\ x.cycle = r.cycle /\ x.signals = r.signals
  <2>1. new \subseteq Int
    OBVIOUS
  <2> HIDE DEF new
  <2> QED BY <1>4, <1>8, <2>1 DEF Waves
<1>10. /\ x.accs \subseteq cfg.volumeWindow..i
       /\ \A a \in cfg.volumeWindow..i : IsAccumulation(a) /\ i - a <= cfg.maxLead => a \in x.accs
  <2>1. new \subseteq {i} /\ (IsAccumulation(i) => i \in new)
    OBVIOUS
  <2> HIDE DEF new
  <2>2. \A a \in cfg.volumeWindow..i : a = i \/ a \in cfg.volumeWindow..(i - 1)
    BY <1>1
  <2>3. cfg.volumeWindow..(i - 1) \subseteq cfg.volumeWindow..i /\ i \in cfg.volumeWindow..i
    BY <1>1
  <2> QED BY <1>6, <1>9, <2>1, <2>2, <2>3
<1> DEFINE floor == cfg.volumeWindow + cfg.minLead
           T == [stage : 0..3, pos : Int, cycle : Cycles]
<1>11. /\ floor \in Int /\ i - 1 \in Nat /\ (i - 1) + 1 = i /\ w.signals \in Seq(T)
       /\ Len(w.signals) \in Nat /\ \A k \in 1..Len(w.signals) : w.signals[k] \in T
       /\ w.signals # << >> => Len(w.signals) > 0
  <2>1. w.signals \in Seq(T)
    BY <1>2 DEF Waves
  <2> HIDE DEF T
  <2>2. Len(w.signals) \in Nat /\ (\A k \in 1..Len(w.signals) : w.signals[k] \in T)
        /\ (w.signals # << >> => Len(w.signals) > 0)
    BY <2>1, EmptySeq
  <2> QED BY <1>1, <2>1, <2>2
<1>12. InOrder(w.signals, i)
  <2>1. \A k \in 1..Len(w.signals) : w.signals[k].pos \in floor..i
    <3> TAKE k \in 1..Len(w.signals)
    <3>1. w.signals[k].pos \in floor..(i - 1)
      BY <1>2 DEF InOrder
    <3> HIDE DEF floor
    <3> QED BY <1>11, <3>1
  <2> QED BY <1>2, <2>1 DEF InOrder
<1>13. live # NoCycle =>
         /\ w.signals # << >> /\ i >= floor /\ live = w.cycle
         /\ live.w2 < 0 => /\ w.signals[Len(w.signals)].stage = 1
                           /\ w.signals[Len(w.signals)].cycle.w1 = live.w1
  <2> SUFFICES ASSUME live # NoCycle
               PROVE  /\ w.signals # << >> /\ i >= floor /\ live = w.cycle
                      /\ live.w2 < 0 => /\ w.signals[Len(w.signals)].stage = 1
                                        /\ w.signals[Len(w.signals)].cycle.w1 = live.w1
    OBVIOUS
  <2>1. live = w.cycle /\ w.signals # << >>
    BY <1>2, <1>5
  <2>2. w.signals[1].pos \in floor..i
    <3>1. 1 \in 1..Len(w.signals)
      BY <1>11, <2>1
    <3> QED BY <1>12, <3>1 DEF InOrder
  <2>3. i >= floor
    <3> HIDE DEF floor
    <3> QED BY <1>11, <2>2
  <2> QED BY <1>2, <2>1, <2>3
<1>14. ASSUME NEW stage \in 0..3, NEW c \in Cycles, r.signals = Added(v, stage, i, c), i >= floor,
              stage = 1 => c.w1 = i,
              stage = 2 => live # NoCycle /\ live.w2 < 0 /\ c.w1 = live.w1
       PROVE  /\ InOrder(x.signals, i) /\ x.signals # << >>
              /\ x.signals[Len(x.signals)] = [stage |-> stage, pos |-> i, cycle |-> c]
  <2> DEFINE s == [stage |-> stage, pos |-> i, cycle |-> c]
  <2>1. x.signals = Append(w.signals, s)
    BY <1>3, <1>9, <1>14 DEF Added
  <2>2. s \in T /\ s.pos = (i - 1) + 1 /\ s.stage = stage /\ s.cycle = c
    OBVIOUS
  <2>3. s.stage = 2 => /\ w.signals # << >> /\ w.signals[Len(w.signals)].stage = 1
                       /\ w.signals[Len(w.signals)].cycle.w1 = s.cycle.w1
    BY <1>13, <1>14, <2>2
  <2>4. s.stage = 1 => s.cycle.w1 = s.pos
    BY <1>14
  <2>7. s.pos >= floor
    BY <1>14
  <2> HIDE DEF s
  <2>5. InOrder(Append(w.signals, s), (i - 1) + 1)
    BY <1>2, <1>11, <2>2, <2>3, <2>4, <2>7, InOrderMore
  <2>6. Append(w.signals, s) # << >> /\ Append(w.signals, s)[Len(Append(w.signals, s))] = s
    <3> HIDE DEF T
    <3>1. Len(Append(w.signals, s)) = Len(w.signals) + 1 /\ Append(w.signals, s)[Len(w.signals) + 1] = s
      BY <1>11, <2>2
    <3>2. Append(w.signals, s) \in Seq(T)
      BY <1>11, <2>2
    <3> DEFINE q == Append(w.signals, s)
    <3> HIDE DEF q
    <3>3. q \in Seq(T) /\ Len(q) \in Nat /\ Len(q) > 0 /\ q[Len(q)] = s
      BY <1>11, <3>1, <3>2 DEF q
    <3>4. q # << >>
      BY <3>3, EmptySeq
    <3> QED BY <3>3, <3>4 DEF q
  <2> QED BY <1>11, <2>1, <2>5, <2>6 DEF s
<1>15. live \in Cycles /\ live.w2 \in Int /\ live.w3 \in Int /\ (live.w2 >= 0 => live # NoCycle)
       /\ (live.w3 >= 0 => live.w2 >= 0)
  BY <1>5 DEF Shaped, Cycles, NoCycle
<1>16. /\ InOrder(x.signals, i)
       /\ x.cycle # NoCycle =>
            /\ x.signals # << >>
            /\ x.cycle.w2 < 0 => /\ x.signals[Len(x.signals)].stage = 1
                                 /\ x.signals[Len(x.signals)].cycle.w1 = x.cycle.w1
       /\ NotMissed(x, i)
  <2>1. CASE r.signals = w.signals /\ r.cycle = live /\ (live = NoCycle => ~IsBreakout(i) \/ latest < 0)
    <3>1. live = NoCycle /\ latest < 0 =>
            ~\E a \in cfg.volumeWindow..i : IsAccumulation(a) /\ i - a \in cfg.minLead..cfg.maxLead
      <4> SUFFICES ASSUME latest < 0, NEW a \in cfg.volumeWindow..i, IsAccumulation(a),
                          i - a \in cfg.minLead..cfg.maxLead
                   PROVE  FALSE
        OBVIOUS
      <4>1. a \in cfg.volumeWindow..(i - 1) /\ i - a <= cfg.maxLead
        BY <1>1
      <4> QED BY <1>6, <1>7, <4>1
    <3> QED BY <1>9, <1>12, <1>13, <2>1, <3>1 DEF NotMissed
  <2>2. CASE /\ live = NoCycle /\ latest >= 0 /\ r.cycle.w1 = i /\ r.cycle.w2 < 0
             /\ r.signals = Added(v, 1, i, r.cycle)
    <3>1. i >= floor
      <4>1. latest >= cfg.volumeWindow /\ i - latest >= cfg.minLead
        BY <1>1, <1>6, <1>7, <2>2
      <4> QED BY <1>1, <1>7, <4>1
    <3>2. r.cycle \in Cycles /\ r.cycle # NoCycle
      <4>1. NoCycle.w1 = -1 /\ i # -1
        BY DEF NoCycle
      <4> QED BY <1>8, <2>2, <4>1 DEF Shaped
    <3>3. /\ InOrder(x.signals, i) /\ x.signals # << >>
          /\ x.signals[Len(x.signals)] = [stage |-> 1, pos |-> i, cycle |-> r.cycle]
      BY <1>14, <2>2, <3>1, <3>2
    <3> QED BY <1>9, <3>2, <3>3 DEF NotMissed
  <2>3. CASE /\ live # NoCycle /\ live.w2 < 0 /\ r.cycle = [live EXCEPT !.w2 = i]
             /\ r.signals = Added(v, 2, i, r.cycle)
    <3>1. r.cycle \in Cycles /\ r.cycle.w1 = live.w1 /\ r.cycle.w2 = i
      BY <1>15, <2>3 DEF Cycles
    <3>2. /\ InOrder(x.signals, i) /\ x.signals # << >>
          /\ x.signals[Len(x.signals)] = [stage |-> 2, pos |-> i, cycle |-> r.cycle]
      <4>1. i >= floor
        BY <1>13, <2>3
      <4>2. 2 \in 0..3 /\ 2 # 1
        OBVIOUS
      <4> QED BY <1>14, <2>3, <3>1, <4>1, <4>2
    <3>3. ~(x.cycle.w2 < 0)
      BY <1>9, <3>1
    <3> QED BY <1>9, <3>2, <3>3 DEF NotMissed
  <2>4. CASE /\ live.w2 >= 0 /\ live.w3 < 0 /\ r.cycle = [live EXCEPT !.w3 = i]
             /\ r.signals = Added(v, 3, i, r.cycle)
    <3>1. r.cycle \in Cycles /\ r.cycle.w2 = live.w2
      BY <1>15, <2>4 DEF Cycles
    <3>2. /\ InOrder(x.signals, i) /\ x.signals # << >>
          /\ x.signals[Len(x.signals)] = [stage |-> 3, pos |-> i, cycle |-> r.cycle]
      BY <1>13, <1>14, <1>15, <2>4, <3>1
    <3>3. ~(x.cycle.w2 < 0)
      BY <1>9, <1>15, <2>4, <3>1
    <3> QED BY <1>9, <3>2, <3>3 DEF NotMissed
  <2>5. CASE /\ live.w3 >= 0 /\ r.cycle = NoCycle
             /\ r.signals = Added(v, 0, i, live)
    <3>1. /\ InOrder(x.signals, i) /\ x.signals # << >>
          /\ x.signals[Len(x.signals)] = [stage |-> 0, pos |-> i, cycle |-> live]
      BY <1>13, <1>14, <1>15, <2>5
    <3> QED BY <1>9, <2>5, <3>1 DEF NotMissed
  <2> QED BY <1>8, <2>1, <2>2, <2>3, <2>4, <2>5
<1>17. x.signals = w.signals \/ \E s \in T : s.pos = i /\ x.signals = Append(w.signals, s)
  <2>1. r.cycle \in Cycles /\ live \in Cycles
    BY <1>8, <1>15 DEF Shaped
  <2>2. \A stage \in 0..3, c \in Cycles :
          r.signals = Added(v, stage, i, c) => \E s \in T : s.pos = i /\ x.signals = Append(w.signals, s)
    <3> TAKE stage \in 0..3, c \in Cycles
    <3> HAVE r.signals = Added(v, stage, i, c)
    <3>1. [stage |-> stage, pos |-> i, cycle |-> c] \in T
      OBVIOUS
    <3>2. x.signals = Append(w.signals, [stage |-> stage, pos |-> i, cycle |-> c])
      BY <1>3, <1>9 DEF Added
    <3> QED BY <3>1, <3>2
  <2>3. 0 \in 0..3 /\ 1 \in 0..3 /\ 2 \in 0..3 /\ 3 \in 0..3
    OBVIOUS
  <2> HIDE DEF T
  <2> QED BY <1>8, <1>9, <2>1, <2>2, <2>3
<1> QED BY <1>8, <1>9, <1>10, <1>16, <1>17 DEF WaveOK, x, WaveSignal

\* What is said of the loop's memory depends on the list of candles and the configuration.
LEMMA WavesStay ==
    ASSUME candles' = candles, cfg' = cfg
    PROVE  /\ Last' = Last /\ (WaveTape' <=> WaveTape)
           /\ \A w, i, n : WaveAfter(w, i, n)' = WaveAfter(w, i, n)
           /\ \A w, i : WaveOK(w, i)' <=> WaveOK(w, i)
           /\ \A w, i : NotMissed(w, i)' <=> NotMissed(w, i)
<1>1. \A j : C(j)' = C(j) /\ (Bullish(j)' <=> Bullish(j))
  BY DEF C, Bullish
<1>2. \A f, R : Top(f, R)' = Top(f, R) /\ Bottom(f, R)' = Bottom(f, R)
  BY <1>1 DEF Top, Bottom
<1>3. \A f, a, b : Total(f, a, b)' = Total(f, a, b)
  BY <1>1 DEF Total
<1>4. \A j : IsVolumeZScoreSpike(j)' <=> IsVolumeZScoreSpike(j)
  <2> TAKE j
  <2>1. \A a, b : SumOf([k \in a..b |-> C(k).volume * C(k).volume], a, b)'
                  = SumOf([k \in a..b |-> C(k).volume * C(k).volume], a, b)
    BY <1>1
  <2> QED BY <1>1, <1>3, <2>1 DEF IsVolumeZScoreSpike
<1>5. \A j : IsAccumulation(j)' <=> IsAccumulation(j)
  BY <1>1, <1>3, <1>4 DEF IsAccumulation
<1>6. \A j : IsBreakout(j)' <=> IsBreakout(j)
  BY <1>1, <1>2, <1>4 DEF IsBreakout
<1>7. \A w1, i : PeakOf(w1, i)' = PeakOf(w1, i)
  BY <1>2 DEF PeakOf
<1>8. \A w1, i : IsHighBase(w1, i)' <=> IsHighBase(w1, i)
  <2> TAKE w1, i
  <2>2. {j \in (w1 + 1)..(i - 1) : C(j).close >= C(w1).close}' = {j \in (w1 + 1)..(i - 1) : C(j).close >= C(w1).close}
    BY <1>1
  <2> QED BY <1>1, <1>2, <1>3, <1>7, <2>2 DEF IsHighBase
<1>9. \A n, w1, i : HasBaseBoxes(n, w1, i)' <=> HasBaseBoxes(n, w1, i)
  <2>1. \A n, w1, i : Eligible(n, w1, i)' = Eligible(n, w1, i)
    BY <1>1 DEF Eligible, TrendBoxes
  <2> QED BY <1>1, <2>1 DEF HasBaseBoxes
<1>10. \A n, w1, i : IsSecondBreakout(n, w1, i)' <=> IsSecondBreakout(n, w1, i)
  BY <1>1, <1>6, <1>7, <1>8, <1>9 DEF IsSecondBreakout
<1>11. \A i, k : /\ IsMA20RisingStreak(i, k)' <=> IsMA20RisingStreak(i, k)
                 /\ IsMA20BullishBreakout(i, k)' <=> IsMA20BullishBreakout(i, k)
  BY <1>1 DEF IsMA20RisingStreak, IsMA20BullishBreakout
<1>12. \A w2, i : IsMA20Pullback(w2, i)' <=> IsMA20Pullback(w2, i)
  BY <1>1, <1>3 DEF IsMA20Pullback
<1>13. \A w2, i : IsThirdRebound(w2, i)' <=> IsThirdRebound(w2, i)
  BY <1>1, <1>11, <1>12 DEF IsThirdRebound
<1>14. \A w3, i : IsClimax(w3, i)' <=> IsClimax(w3, i)
  BY <1>1, <1>4 DEF IsClimax
<1>15. \A accs, i : LatestAccumulation(accs, i)' = LatestAccumulation(accs, i)
  BY DEF LatestAccumulation
<1>16. \A c, i : Expired(c, i)' <=> Expired(c, i)
  BY DEF Expired
<1>17. \A w, c, i, n : Advance(w, c, i, n)' = Advance(w, c, i, n)
  <2> TAKE w, c, i, n
  <2>1. \A stage, d : Reach(w, d, stage, i)' = Reach(w, d, stage, i)
    BY DEF Reach
  <2>2. /\ IsBreakout(i)' = IsBreakout(i) /\ IsSecondBreakout(n, c.w1, i)' = IsSecondBreakout(n, c.w1, i)
        /\ IsThirdRebound(c.w2, i)' = IsThirdRebound(c.w2, i) /\ IsClimax(c.w3, i)' = IsClimax(c.w3, i)
    <3>1. /\ IsBreakout(i) \in BOOLEAN /\ IsSecondBreakout(n, c.w1, i) \in BOOLEAN
          /\ IsThirdRebound(c.w2, i) \in BOOLEAN /\ IsClimax(c.w3, i) \in BOOLEAN
      BY DEF IsBreakout, IsSecondBreakout, IsThirdRebound, IsClimax
    <3> QED BY <1>6, <1>10, <1>13, <1>14 DEF IsBreakout, IsSecondBreakout, IsThirdRebound, IsClimax
  <2> QED BY <1>15, <2>1, <2>2, Zenon DEF Advance
<1>18. \A w, i, n : WaveAfter(w, i, n)' = WaveAfter(w, i, n)
  BY <1>5, <1>16, <1>17 DEF WaveAfter
<1>19. \A s, i : InOrder(s, i)' <=> InOrder(s, i)
  BY DEF InOrder
<1>20. \A w, i : WaveOK(w, i)' <=> WaveOK(w, i)
  BY <1>5, <1>19 DEF WaveOK
<1>21. \A w, i : NotMissed(w, i)' <=> NotMissed(w, i)
  BY <1>5, <1>6 DEF NotMissed
<1>22. Last' = Last /\ (WaveTape' <=> WaveTape)
  BY DEF Last, WaveTape
<1> QED BY <1>18, <1>20, <1>21, <1>22

\* The loop of VolumeWaveAnalyze up to candle m of a list that ends at candle n.
Walked(f, n, m) ==
    f = [i \in (cfg.volumeWindow - 1)..m |-> IF i < cfg.volumeWindow THEN EmptyWave ELSE WaveAfter(f[i - 1], i, n)]

WaveInv ==
    lab = "wave" =>
      /\ WaveTape
      /\ pos \in Nat /\ pos >= cfg.volumeWindow - 1 /\ (pos >= cfg.volumeWindow => pos <= Last)
      /\ \E f : Walked(f, Last, pos) /\ wave = f[pos]
      /\ WaveOK(wave, pos)
      /\ pos >= cfg.volumeWindow => NotMissed(wave, pos)

LEMMA WalkedOn ==
    ASSUME WaveTape, NEW n, NEW m \in Nat, m >= cfg.volumeWindow - 1, NEW f, Walked(f, n, m)
    PROVE  \E g : Walked(g, n, m + 1) /\ g[m + 1] = WaveAfter(f[m], m + 1, n)
<1> DEFINE a == cfg.volumeWindow
           g == [i \in (a - 1)..(m + 1) |-> IF i = m + 1 THEN WaveAfter(f[m], m + 1, n) ELSE f[i]]
<1>1. a \in Int /\ a > 1
  BY WaveTapeFacts
<1>2. \A i \in (a - 1)..m : f[i] = IF i < a THEN EmptyWave ELSE WaveAfter(f[i - 1], i, n)
  BY DEF Walked
<1> HIDE DEF a
<1>3. \A i \in (a - 1)..(m + 1) : g[i] = IF i < a THEN EmptyWave ELSE WaveAfter(g[i - 1], i, n)
  <2> TAKE i \in (a - 1)..(m + 1)
  <2>1. CASE i = m + 1
    <3>1. m \in (a - 1)..(m + 1) /\ m # m + 1 /\ i - 1 = m /\ ~(i < a)
      BY <1>1, <2>1 DEF a
    <3>2. g[m] = f[m]
      BY <3>1
    <3> QED BY <2>1, <3>1, <3>2
  <2>2. CASE i # m + 1
    <3>1. i \in (a - 1)..m /\ g[i] = f[i]
      BY <1>1, <2>2
    <3>2. CASE i < a
      BY <1>2, <3>1, <3>2
    <3>3. CASE ~(i < a)
      <4>1. i - 1 \in (a - 1)..(m + 1) /\ i - 1 # m + 1
        BY <1>1, <2>2, <3>3
      <4>2. g[i - 1] = f[i - 1]
        BY <4>1
      <4> QED BY <1>2, <3>1, <3>3, <4>2
    <3> QED BY <3>2, <3>3
  <2> QED BY <2>1, <2>2
<1>4. g = [i \in (a - 1)..(m + 1) |-> g[i]] /\ g[m + 1] = WaveAfter(f[m], m + 1, n)
  <2>1. m + 1 \in (a - 1)..(m + 1)
    BY <1>1 DEF a
  <2> QED BY <2>1
<1> HIDE DEF g
<1>5. g = [i \in (a - 1)..(m + 1) |-> IF i < a THEN EmptyWave ELSE WaveAfter(g[i - 1], i, n)]
  BY <1>3, <1>4
<1> QED BY <1>4, <1>5 DEF Walked, a

LEMMA WaveInvHolds == Spec => []WaveInv
<1>1. Init => WaveInv
  <2> SUFFICES ASSUME Init, lab = "wave" PROVE WaveInv
    BY DEF WaveInv
  <2>1. PICK s \in WaveStudies : candles = s.candles /\ cfg = Normalize(s.config)
    BY DEF Init, WaveInit
  <2>2. wave = EmptyWave /\ pos = cfg.volumeWindow - 1
    BY DEF Init, WaveInit
  <2>3. WaveTape
    BY <2>1 DEF WaveTape
  <2>4. cfg.volumeWindow \in Int /\ cfg.volumeWindow > 1 /\ cfg.minLead \in Int
    BY <2>3, WaveTapeFacts
  <2> DEFINE a == cfg.volumeWindow
             f == [i \in (a - 1)..pos |-> EmptyWave]
  <2>5. Walked(f, Last, pos) /\ wave = f[pos]
    <3>1. pos \in (a - 1)..pos /\ \A i \in (a - 1)..pos : i < a
      BY <2>2, <2>4
    <3>2. f = [i \in (a - 1)..pos |-> IF i < a THEN EmptyWave ELSE WaveAfter(f[i - 1], i, Last)]
      BY <3>1
    <3> QED BY <2>2, <3>1, <3>2 DEF Walked
  <2>6. WaveOK(wave, pos)
    <3>1. /\ EmptyWave.accs = {} /\ EmptyWave.cycle = NoCycle /\ EmptyWave.signals = << >>
          /\ EmptyWave \in Waves /\ Shaped(NoCycle)
      BY DEF EmptyWave, Waves, Shaped, Cycles, NoCycle
    <3>2. InOrder(<< >>, pos)
      BY DEF InOrder
    <3>3. cfg.volumeWindow..pos = {}
      BY <2>2, <2>4
    <3> QED BY <2>2, <3>1, <3>2, <3>3 DEF WaveOK
  <2> QED BY <2>2, <2>3, <2>4, <2>5, <2>6 DEF WaveInv
<1>2. WaveInv /\ [Next]_vars => WaveInv'
  <2> SUFFICES ASSUME WaveInv, [Next]_vars PROVE WaveInv'
    OBVIOUS
  <2>1. CASE lab = "wave" /\ Next
    <3>1. WaveStep /\ lab' = lab
      BY <2>1 DEF Next
    <3>2. /\ pos < Last /\ pos' = pos + 1 /\ candles' = candles /\ cfg' = cfg
          /\ wave' = WaveAfter(wave, pos + 1, Last)
      BY <3>1 DEF WaveStep
    <3>3. /\ WaveTape /\ pos \in Nat /\ pos >= cfg.volumeWindow - 1 /\ WaveOK(wave, pos)
          /\ cfg.volumeWindow \in Int /\ Last \in Nat
      BY <2>1, WaveTapeFacts DEF WaveInv
    <3>4. PICK f : Walked(f, Last, pos) /\ wave = f[pos]
      BY <2>1 DEF WaveInv
    <3>5. PICK g : Walked(g, Last, pos + 1) /\ g[pos + 1] = wave'
      BY <3>2, <3>3, <3>4, WalkedOn
    <3>6. PICK w, n : w = WaveAfter(wave, pos + 1, Last) /\ n = pos + 1
      OBVIOUS
    <3>7. WaveOK(w, n) /\ NotMissed(w, n)
      <4>1. n \in Nat /\ n >= cfg.volumeWindow /\ n - 1 = pos
        BY <3>3, <3>6
      <4> QED BY <3>3, <3>6, <4>1, WaveMoves
    <3>8. /\ Last' = Last /\ WaveTape' /\ WaveOK(w, n)' /\ NotMissed(w, n)'
          /\ \A v, i, m : WaveAfter(v, i, m)' = WaveAfter(v, i, m)
      BY <3>2, <3>3, <3>7, WavesStay
    <3>9. wave' = w /\ pos' = n /\ n \in Nat /\ n >= cfg.volumeWindow - 1 /\ n <= Last
      BY <3>2, <3>3, <3>6
    <3>10. WaveOK(wave, pos)' /\ NotMissed(wave, pos)'
      <4>1. WaveOK(wave, pos)' <=> WaveOK(w, n)'
        BY <3>9 DEF WaveOK, InOrder
      <4>2. NotMissed(wave, pos)' <=> NotMissed(w, n)'
        BY <3>9 DEF NotMissed, IsBreakout, IsVolumeZScoreSpike, Bullish
      <4> QED BY <3>8, <4>1, <4>2
    <3>11. Walked(g, Last, pos)'
      BY <3>2, <3>5, <3>8 DEF Walked
    <3>12. (\E h : Walked(h, Last, pos) /\ wave = h[pos])'
      BY <3>2, <3>5, <3>11
    <3> QED BY <3>1, <3>2, <3>8, <3>9, <3>10, <3>12 DEF WaveInv
  <2>2. CASE lab # "wave" /\ Next
    BY <2>2 DEF Next, WaveInv
  <2>3. CASE UNCHANGED vars
    <3>1. lab' = lab /\ candles' = candles /\ pos' = pos /\ cfg' = cfg /\ wave' = wave
      BY <2>3 DEF vars, waveVars
    <3>2. PICK w, n, k : w = wave /\ n = pos /\ k = Last
      OBVIOUS
    <3>3. /\ Last' = Last /\ (WaveTape' <=> WaveTape)
          /\ WaveOK(w, n)' <=> WaveOK(w, n)
          /\ NotMissed(w, n)' <=> NotMissed(w, n)
          /\ \A v, i, m : WaveAfter(v, i, m)' = WaveAfter(v, i, m)
      BY <3>1, WavesStay
    <3>4. WaveOK(wave, pos)' <=> WaveOK(w, n)'
      BY <3>1, <3>2 DEF WaveOK, InOrder
    <3>5. NotMissed(wave, pos)' <=> NotMissed(w, n)'
      BY <3>1, <3>2 DEF NotMissed, IsBreakout, IsVolumeZScoreSpike, Bullish
    <3>6. \A f : Walked(f, Last, pos)' <=> Walked(f, Last, pos)
      BY <3>1, <3>3 DEF Walked
    <3> QED BY <3>1, <3>2, <3>3, <3>4, <3>5, <3>6 DEF WaveInv
  <2> QED BY <2>1, <2>2, <2>3
<1> QED BY <1>1, <1>2, PTL DEF Spec

\* The list as it was at candle pos is walked over in the same way.
LEMMA WavesOfThePastAlways ==
    ASSUME WaveInv
    PROVE  WavesOfThePast
<1> SUFFICES ASSUME lab = "wave", pos >= cfg.volumeWindow PROVE VolumeWaveAnalyze(pos) = wave.signals
  BY DEF WavesOfThePast
<1>1. /\ WaveTape /\ pos \in Nat /\ pos <= Last /\ Last \in Nat /\ WaveOK(wave, pos)
      /\ cfg.volumeWindow \in Int /\ cfg.volumeWindow > 1 /\ cfg.minLead \in Int
  BY WaveTapeFacts DEF WaveInv
<1>2. PICK f : Walked(f, Last, pos) /\ wave = f[pos]
  BY DEF WaveInv
<1> DEFINE a == cfg.volumeWindow
           W == CHOOSE g : g = [i \in (a - 1)..pos |-> IF i < a THEN EmptyWave ELSE WaveAfter(g[i - 1], i, pos)]
<1>3. VolumeWaveAnalyze(pos) = IF pos + 1 < MinBars THEN << >> ELSE W[pos].signals
  BY Zenon DEF VolumeWaveAnalyze
<1>4. Walked(f, pos, pos)
  <2>1. \A i \in (a - 1)..pos : ~(i < a) => WaveAfter(f[i - 1], i, Last) = WaveAfter(f[i - 1], i, pos)
    <3> TAKE i \in (a - 1)..pos
    <3> HAVE ~(i < a)
    <3>1. i \in Int /\ Last \in Int /\ pos \in Int /\ 0 <= i /\ i <= Last /\ i <= pos
      BY <1>1
    <3> QED BY <3>1, WaveAfterPast
  <2>2. f = [i \in (a - 1)..pos |-> IF i < a THEN EmptyWave ELSE WaveAfter(f[i - 1], i, Last)]
    BY <1>2 DEF Walked
  <2>3. [i \in (a - 1)..pos |-> IF i < a THEN EmptyWave ELSE WaveAfter(f[i - 1], i, Last)]
        = [i \in (a - 1)..pos |-> IF i < a THEN EmptyWave ELSE WaveAfter(f[i - 1], i, pos)]
    BY <2>1
  <2> QED BY <2>2, <2>3 DEF Walked
<1>5. Walked(W, pos, pos)
  BY <1>4 DEF Walked
<1> HIDE DEF W
<1>6. W[pos] = f[pos]
  <2> DEFINE S == {i \in a..pos : W[i] # f[i]}
  <2>1. /\ \A i \in (a - 1)..pos : f[i] = IF i < a THEN EmptyWave ELSE WaveAfter(f[i - 1], i, pos)
        /\ \A i \in (a - 1)..pos : W[i] = IF i < a THEN EmptyWave ELSE WaveAfter(W[i - 1], i, pos)
    BY <1>4, <1>5 DEF Walked
  <2>2. S = {}
    <3> SUFFICES ASSUME S # {} PROVE FALSE
      OBVIOUS
    <3>1. S \subseteq Nat
      BY <1>1
    <3> HIDE DEF S
    <3>2. PICK m \in S : \A x \in S : m <= x
      BY <3>1, LeastNumber
    <3>3. m \in a..pos /\ W[m] # f[m]
      BY <3>2 DEF S
    <3>4. W[m - 1] = f[m - 1]
      <4>1. CASE m = a
        <5>1. m - 1 \in (a - 1)..pos /\ m - 1 < a
          BY <1>1, <3>3, <4>1
        <5> QED BY <2>1, <5>1
      <4>2. CASE m # a
        <5>1. m - 1 \in a..pos /\ ~(m <= m - 1)
          BY <1>1, <3>3, <4>2
        <5>2. m - 1 \notin S
          BY <3>2, <5>1
        <5> QED BY <5>1, <5>2 DEF S
      <4> QED BY <4>1, <4>2
    <3>5. m \in (a - 1)..pos /\ ~(m < a)
      BY <1>1, <3>3
    <3> QED BY <2>1, <3>3, <3>4, <3>5
  <2>3. pos \in a..pos
    BY <1>1
  <2> QED BY <2>2, <2>3
<1>7. pos + 1 < MinBars => wave.signals = << >>
  <2> SUFFICES ASSUME pos + 1 < MinBars, wave.signals # << >> PROVE FALSE
    OBVIOUS
  <2>1. InOrder(wave.signals, pos) /\ wave.signals \in Seq([stage : 0..3, pos : Int, cycle : Cycles])
    BY <1>1 DEF WaveOK, Waves
  <2>2. 1 \in 1..Len(wave.signals)
    <3> DEFINE T == [stage : 0..3, pos : Int, cycle : Cycles]
    <3>1. wave.signals \in Seq(T)
      BY <2>1
    <3> HIDE DEF T
    <3>2. Len(wave.signals) \in Nat /\ Len(wave.signals) # 0
      BY <3>1, EmptySeq
    <3> QED BY <3>2
  <2>3. wave.signals[1].pos \in (cfg.volumeWindow + cfg.minLead)..pos
    BY <2>1, <2>2 DEF InOrder
  <2> QED BY <1>1, <2>3 DEF MinBars
<1> QED BY <1>2, <1>3, <1>6, <1>7

\* The properties of the state.
LEMMA FirstWaveNumbers ==
    ASSUME WaveInv, lab = "wave"
    PROVE  /\ Last \in Nat /\ pos \in Nat
           /\ wave.signals \in Seq([stage : 0..3, pos : Int, cycle : Cycles])
           /\ Len(wave.signals) \in Nat /\ DOMAIN wave.signals = 1..Len(wave.signals)
           /\ InOrder(wave.signals, pos)
           /\ \A k \in DOMAIN wave.signals : wave.signals[k].pos \in 0..pos
<1>1. /\ Last \in Nat /\ pos \in Nat /\ WaveOK(wave, pos)
      /\ cfg.volumeWindow \in Int /\ cfg.volumeWindow > 1 /\ cfg.minLead \in Int /\ cfg.minLead > 0
  BY WaveTapeFacts DEF WaveInv
<1> DEFINE T == [stage : 0..3, pos : Int, cycle : Cycles]
<1>2. wave.signals \in Seq(T)
  BY <1>1 DEF WaveOK, Waves
<1>3. Len(wave.signals) \in Nat /\ DOMAIN wave.signals = 1..Len(wave.signals)
  <2> HIDE DEF T
  <2> QED BY <1>2
<1>4. InOrder(wave.signals, pos)
  BY <1>1 DEF WaveOK
<1>5. \A k \in DOMAIN wave.signals : wave.signals[k].pos \in (cfg.volumeWindow + cfg.minLead)..pos
  BY <1>3, <1>4 DEF InOrder
<1>6. (cfg.volumeWindow + cfg.minLead)..pos \subseteq 0..pos
  BY <1>1
<1> QED BY <1>1, <1>2, <1>3, <1>4, <1>5, <1>6

-----------------------------------------------------------------------------
(* Entries after a pullback. *)

\* The days at which the search after signal k gives way to a later wave.
Limits(signals, k) ==
    {IF signals[k].stage = 1 THEN signals[j].pos - 1 ELSE signals[j].pos :
       j \in {j \in (k + 1)..Len(signals) :
                /\ signals[j].pos > signals[k].pos /\ signals[j].stage = signals[k].stage + 1
                /\ \A h \in (k + 1)..j : signals[h].cycle.w1 = signals[k].cycle.w1}}

LEMMA DeadlineIs ==
    ASSUME NEW signals \in Seq(WaveSignal), NEW k \in DOMAIN signals, NEW end \in Int,
           \A j \in DOMAIN signals : signals[j].pos >= 0
    PROVE  LET d == Deadline(signals, k, end)
           IN  /\ d \in Int /\ d <= end
               /\ Limits(signals, k) \subseteq Int
               /\ \A l \in Limits(signals, k) : d <= l
               /\ d = end \/ d \in Limits(signals, k)
<1> DEFINE L == Limits(signals, k)
           S == {l \in L : l < end}
           d == Deadline(signals, k, end)
<1>1. \A l \in L : l \in Int /\ -1 <= l
  <2> TAKE l \in L
  <2>1. PICK j \in (k + 1)..Len(signals) :
          l = IF signals[k].stage = 1 THEN signals[j].pos - 1 ELSE signals[j].pos
    BY DEF Limits
  <2>2. j \in DOMAIN signals /\ signals[j] \in WaveSignal
    <3>1. Len(signals) \in Nat /\ DOMAIN signals = 1..Len(signals)
      OBVIOUS
    <3>2. j \in DOMAIN signals
      BY <2>1, <3>1
    <3> QED BY <3>2
  <2>3. signals[j].pos \in Int /\ signals[j].pos >= 0
    BY <2>2 DEF WaveSignal
  <2> QED BY <2>1, <2>3
<1>2. d = IF S = {} THEN end ELSE LowestOf(S)
  BY Zenon DEF Deadline, LowestIn, Limits
<1> HIDE DEF d, L
<1>3. CASE S = {}
  <2>1. \A l \in L : ~(l < end)
    BY <1>3
  <2> HIDE DEF S
  <2> QED BY <1>1, <1>2, <1>3, <2>1 DEF L, d
<1>4. CASE S # {}
  <2>1. S \subseteq Int /\ \A l \in S : -1 <= l /\ l < end /\ l \in L
    BY <1>1
  <2>2. \A l \in L : l \in S \/ end <= l
    BY <1>1
  <2> HIDE DEF S
  <2>3. LowestOf(S) \in S /\ \A x \in S : LowestOf(S) <= x
    BY <1>4, <2>1, LowestIs
  <2>4. d \in S /\ d \in Int /\ d < end /\ d \in L /\ \A x \in S : d <= x
    BY <1>2, <1>4, <2>1, <2>3
  <2>5. \A l \in L : d <= l
    BY <1>1, <2>2, <2>4
  <2> QED BY <1>1, <2>4, <2>5 DEF L, d
<1> QED BY <1>3, <1>4

\* The last day of the search, its falls, and what is asked of a rebound.
LastDay(n, s, p) == IF s + p.maxWait >= n THEN n - 1 ELSE s + p.maxWait
Stop(n, signals, k, p) == Deadline(signals, k, LastDay(n, signals[k].pos, p))
Falls(s, d) == {j \in (s + 1)..d : C(j).close < C(j - 1).close \/ ~Bullish(j)}
Fits(s, start, i, p) ==
    /\ i - s >= MinWait(p) /\ ReboundConfirmed(i, p)
    /\ DepthFits(s, i, p) /\ VolumesFit(s, start, i, p)
    /\ StructureHeld(s, i, p) /\ C(i + 1).open > 0

LEMMA ReboundsAre ==
    ASSUME NEW n, NEW signals, NEW k, NEW p, NEW i
    PROVE  LET s == signals[k].pos
               d == Stop(n, signals, k, p)
           IN  i \in Rebounds(n, signals, k, p) <=>
                 /\ signals[k].stage = p.stage /\ s >= 1 /\ s + 2 <= n /\ p.maxWait >= MinWait(p)
                 /\ d >= s + MinWait(p) /\ C(s).volume > 0 /\ Falls(s, d) # {}
                 /\ i \in LowestOf(Falls(s, d))..d /\ Fits(s, LowestOf(Falls(s, d)), i, p)
<1> DEFINE s == signals[k].pos
           d == Stop(n, signals, k, p)
           Guard == /\ signals[k].stage = p.stage /\ s >= 1 /\ s + 2 <= n /\ p.maxWait >= MinWait(p)
                    /\ d >= s + MinWait(p) /\ C(s).volume > 0 /\ Falls(s, d) # {}
<1>1. Rebounds(n, signals, k, p) =
        IF Guard THEN {x \in LowestOf(Falls(s, d))..d : Fits(s, LowestOf(Falls(s, d)), x, p)} ELSE {}
  BY Zenon DEF Rebounds, Falls, Fits, Stop, LastDay
<1> HIDE DEF s, d
<1>2. Guard => (i \in Rebounds(n, signals, k, p) <=>
                  i \in LowestOf(Falls(s, d))..d /\ Fits(s, LowestOf(Falls(s, d)), i, p))
  BY <1>1
<1>3. ~Guard => i \notin Rebounds(n, signals, k, p)
  BY <1>1
<1> HIDE DEF Guard
<1>4. i \in Rebounds(n, signals, k, p) <=>
        Guard /\ i \in LowestOf(Falls(s, d))..d /\ Fits(s, LowestOf(Falls(s, d)), i, p)
  BY <1>2, <1>3
<1> QED BY <1>4 DEF Guard, s, d

LEMMA FallsAre ==
    ASSUME NEW s \in Int, NEW d \in Int, Falls(s, d) # {}
    PROVE  /\ LowestOf(Falls(s, d)) \in Falls(s, d) /\ LowestOf(Falls(s, d)) \in (s + 1)..d
           /\ \A x \in Falls(s, d) : LowestOf(Falls(s, d)) <= x
<1>1. Falls(s, d) \subseteq (s + 1)..d
  BY DEF Falls
<1>2. Falls(s, d) \subseteq Int /\ \A x \in Falls(s, d) : s + 1 <= x
  BY <1>1
<1>3. LowestOf(Falls(s, d)) \in Falls(s, d) /\ \A x \in Falls(s, d) : LowestOf(Falls(s, d)) <= x
  BY <1>2, LowestIs
<1> QED BY <1>1, <1>3

LEMMA StopIs ==
    ASSUME NEW n \in Nat, NEW signals \in Seq(WaveSignal), NEW k \in DOMAIN signals, NEW p \in PullbackConfigs,
           \A j \in DOMAIN signals : signals[j].pos >= 0
    PROVE  /\ signals[k].pos \in Int /\ MinWait(p) \in Int /\ MinWait(p) >= 1 /\ p.maxWait \in Int
           /\ LastDay(n, signals[k].pos, p) \in Int /\ LastDay(n, signals[k].pos, p) <= n - 1
           /\ Stop(n, signals, k, p) \in Int /\ Stop(n, signals, k, p) <= LastDay(n, signals[k].pos, p)
           /\ Limits(signals, k) \subseteq Int
           /\ \A l \in Limits(signals, k) : Stop(n, signals, k, p) <= l
           /\ Stop(n, signals, k, p) = LastDay(n, signals[k].pos, p) \/ Stop(n, signals, k, p) \in Limits(signals, k)
<1>1. signals[k].pos \in Int
  <2>1. signals[k] \in WaveSignal
    OBVIOUS
  <2> QED BY <2>1 DEF WaveSignal
<1>2. p.minWait \in Int /\ p.maxWait \in Int
  BY WaveAssumption
<1>3. MinWait(p) \in Int /\ MinWait(p) >= 1
  BY <1>2 DEF MinWait
<1>4. LastDay(n, signals[k].pos, p) \in Int /\ LastDay(n, signals[k].pos, p) <= n - 1
  BY <1>1, <1>2 DEF LastDay
<1> QED BY <1>1, <1>2, <1>3, <1>4, DeadlineIs DEF Stop

\* A rebound comes after its signal and before the end of the list.
LEMMA ReboundLies ==
    ASSUME NEW n \in Nat, NEW signals \in Seq(WaveSignal), NEW k \in DOMAIN signals, NEW p \in PullbackConfigs,
           \A j \in DOMAIN signals : signals[j].pos >= 0, NEW i \in Rebounds(n, signals, k, p)
    PROVE  /\ i \in Int /\ signals[k].pos + MinWait(p) <= i /\ i <= Stop(n, signals, k, p)
           /\ 0 <= i /\ i <= n - 1 /\ signals[k].stage = p.stage
<1> DEFINE s == signals[k].pos
           d == Stop(n, signals, k, p)
<1>1. /\ s \in Int /\ s >= 0 /\ MinWait(p) \in Int /\ MinWait(p) >= 1 /\ d \in Int /\ d <= n - 1
  <2>1. /\ s \in Int /\ MinWait(p) \in Int /\ MinWait(p) >= 1 /\ d \in Int
        /\ LastDay(n, s, p) \in Int /\ LastDay(n, s, p) <= n - 1 /\ d <= LastDay(n, s, p)
    BY StopIs
  <2>2. s >= 0
    OBVIOUS
  <2> HIDE DEF s, d
  <2> QED BY <2>1, <2>2
<1>2. /\ signals[k].stage = p.stage /\ Falls(s, d) # {}
      /\ i \in LowestOf(Falls(s, d))..d /\ Fits(s, LowestOf(Falls(s, d)), i, p)
  BY ReboundsAre
<1> HIDE DEF s, d
<1>3. LowestOf(Falls(s, d)) \in Int
  BY <1>1, <1>2, FallsAre
<1>4. i \in Int /\ i <= d
  BY <1>1, <1>2, <1>3
<1>5. i - s >= MinWait(p)
  BY <1>2 DEF Fits
<1>6. s + MinWait(p) <= i /\ 0 <= i /\ i <= n - 1
  BY <1>1, <1>4, <1>5
<1> QED BY <1>2, <1>4, <1>6 DEF s, d

\* An entry is filled after its first rebound.
LEMMA EntryIs ==
    ASSUME NEW n \in Nat, NEW signals \in Seq(WaveSignal), NEW p \in PullbackConfigs,
           \A j \in DOMAIN signals : signals[j].pos >= 0, NEW e \in PullbackEntries(n, signals, p)
    PROVE  \E k \in DOMAIN signals :
             /\ e.signal = signals[k] /\ e = [signal |-> signals[k], fire |-> LowestOf(Rebounds(n, signals, k, p))]
             /\ e.fire \in Rebounds(n, signals, k, p) /\ Rebounds(n, signals, k, p) # {}
<1>1. PICK k \in DOMAIN signals :
        /\ Rebounds(n, signals, k, p) # {}
        /\ e = [signal |-> signals[k], fire |-> LowestOf(Rebounds(n, signals, k, p))]
  BY DEF PullbackEntries
<1> DEFINE R == Rebounds(n, signals, k, p)
<1>2. R \subseteq Int /\ \A x \in R : 0 <= x
  BY ReboundLies
<1> HIDE DEF R
<1>3. R # {} => LowestOf(R) \in R
  BY <1>2, LowestIs
<1> QED BY <1>1, <1>3 DEF R

LEMMA FirstWaveFirstAlways ==
    ASSUME WaveInv
    PROVE  FirstWaveFirst
<1> SUFFICES ASSUME lab = "wave", NEW p \in PullbackConfigs, NEW q \in PullbackConfigs, p.stage = 1, q.stage = 2,
                    NEW e \in PullbackEntries(pos, wave.signals, p), NEW f \in PullbackEntries(pos, wave.signals, q),
                    e.signal.cycle.w1 = f.signal.cycle.w1
             PROVE  e.fire + 1 < f.fire
  BY DEF FirstWaveFirst
<1> DEFINE signals == wave.signals
<1>1. /\ pos \in Nat /\ signals \in Seq(WaveSignal) /\ Len(signals) \in Nat
      /\ DOMAIN signals = 1..Len(signals) /\ InOrder(signals, pos)
      /\ \A j \in DOMAIN signals : signals[j].pos \in Int /\ signals[j].pos >= 0
  BY FirstWaveNumbers DEF WaveSignal
<1> HIDE DEF signals
<1>2. PICK k \in DOMAIN signals : e.signal = signals[k] /\ e.fire \in Rebounds(pos, signals, k, p)
  BY <1>1, EntryIs DEF signals
<1>3. PICK j \in DOMAIN signals : f.signal = signals[j] /\ f.fire \in Rebounds(pos, signals, j, q)
  BY <1>1, EntryIs DEF signals
<1>4. e.fire \in Int /\ e.fire <= Stop(pos, signals, k, p) /\ signals[k].stage = 1
  BY <1>1, <1>2, ReboundLies
<1>5. f.fire \in Int /\ signals[j].pos + MinWait(q) <= f.fire /\ signals[j].stage = 2
  BY <1>1, <1>3, ReboundLies
<1>6. j > 1 /\ signals[j - 1].stage = 1 /\ signals[j - 1].cycle.w1 = signals[j].cycle.w1
      /\ signals[k].cycle.w1 = signals[k].pos
  BY <1>1, <1>4, <1>5 DEF InOrder
<1>7. j - 1 \in DOMAIN signals /\ signals[j - 1].pos = signals[k].pos
  <2>1. j - 1 \in 1..Len(signals)
    BY <1>1, <1>6
  <2>2. signals[j - 1].cycle.w1 = signals[j - 1].pos
    BY <1>1, <1>6, <2>1 DEF InOrder
  <2> QED BY <1>1, <1>2, <1>3, <1>6, <2>1, <2>2
<1>8. j = k + 1 /\ signals[k].pos < signals[j].pos
  <2>1. k \in 1..Len(signals) /\ j - 1 \in 1..Len(signals) /\ j \in 1..Len(signals)
    BY <1>1, <1>7
  <2>2. \A a, b \in 1..Len(signals) : a < b => signals[a].pos < signals[b].pos
    BY <1>1 DEF InOrder
  <2>3. ~(k < j - 1) /\ ~(j - 1 < k)
    BY <1>1, <1>7, <2>1, <2>2
  <2>4. j = k + 1
    BY <2>1, <2>3
  <2> QED BY <2>1, <2>2, <2>4
<1>9. signals[j].pos - 1 \in Limits(signals, k)
  <2>1. j \in (k + 1)..Len(signals) /\ \A h \in (k + 1)..j : h = j
    BY <1>1, <1>8
  <2>2. /\ signals[j].pos > signals[k].pos /\ signals[j].stage = signals[k].stage + 1
        /\ \A h \in (k + 1)..j : signals[h].cycle.w1 = signals[k].cycle.w1
    <3>1. signals[j].cycle.w1 = signals[k].cycle.w1
      BY <1>2, <1>3
    <3> QED BY <1>1, <1>4, <1>5, <1>8, <2>1, <3>1
  <2> QED BY <1>4, <2>1, <2>2 DEF Limits
<1>10. Stop(pos, signals, k, p) <= signals[j].pos - 1 /\ Stop(pos, signals, k, p) \in Int
       /\ MinWait(q) \in Int /\ MinWait(q) >= 1
  <2>1. /\ \A l \in Limits(signals, k) : Stop(pos, signals, k, p) <= l
        /\ Stop(pos, signals, k, p) \in Int
    BY <1>1, StopIs
  <2>2. MinWait(q) \in Int /\ MinWait(q) >= 1
    BY <1>1, StopIs
  <2> QED BY <1>9, <2>1, <2>2
<1> QED BY <1>1, <1>4, <1>5, <1>10

\* A list that grows by a candle: the search after a signal sees one day more, or none.
LEMMA ReboundsGrow ==
    ASSUME NEW n \in Nat, NEW signals \in Seq(WaveSignal), NEW k \in DOMAIN signals, NEW p \in PullbackConfigs,
           NEW new \in Seq(WaveSignal), \A j \in DOMAIN new : new[j].pos >= 0,
           \/ new = signals
           \/ \E s \in WaveSignal : s.pos = n + 1 /\ new = Append(signals, s)
    PROVE  /\ Rebounds(n, signals, k, p) \subseteq Rebounds(n + 1, new, k, p)
           /\ Rebounds(n + 1, new, k, p) \ Rebounds(n, signals, k, p) \subseteq {n}
<1> DEFINE s == signals[k].pos
           d == Stop(n, signals, k, p)
           e == Stop(n + 1, new, k, p)
           m == Len(signals)
           l2 == Len(new)
<1>1. /\ m \in Nat /\ DOMAIN signals = 1..m
      /\ l2 \in Nat /\ DOMAIN new = 1..l2 /\ m <= l2
      /\ \A j \in 1..m : j \in 1..l2 /\ new[j] = signals[j]
      /\ \A j \in 1..l2 : j \in 1..m \/ (j = m + 1 /\ new[j].pos = n + 1)
  <2>1. m \in Nat /\ DOMAIN signals = 1..m /\ l2 \in Nat /\ DOMAIN new = 1..l2
    OBVIOUS
  <2>2. \/ new = signals
        \/ l2 = m + 1 /\ (\A j \in 1..m : new[j] = signals[j]) /\ new[m + 1].pos = n + 1
    <3>1. ASSUME NEW x \in WaveSignal, x.pos = n + 1, new = Append(signals, x)
          PROVE  l2 = m + 1 /\ (\A j \in 1..m : new[j] = signals[j]) /\ new[m + 1].pos = n + 1
      <4>1. /\ Len(Append(signals, x)) = m + 1
            /\ \A j \in 1..m : Append(signals, x)[j] = signals[j]
            /\ Append(signals, x)[m + 1] = x
        OBVIOUS
      <4> QED BY <3>1, <4>1
    <3> QED BY <3>1
  <2>3. CASE new = signals
    BY <2>1, <2>3
  <2>4. CASE l2 = m + 1 /\ (\A j \in 1..m : new[j] = signals[j]) /\ new[m + 1].pos = n + 1
    <3> HIDE DEF m, l2
    <3>1. m <= l2 /\ \A j \in 1..l2 : j \in 1..m \/ j = m + 1
      BY <2>1, <2>4
    <3>2. \A j \in 1..m : j \in 1..l2
      BY <2>1, <3>1
    <3> QED BY <2>1, <2>4, <3>1, <3>2
  <2> QED BY <2>2, <2>3, <2>4
<1> HIDE DEF m, l2
<1>2. k \in 1..m /\ k \in DOMAIN new /\ new[k] = signals[k]
      /\ \A j \in DOMAIN signals : signals[j].pos >= 0
  BY <1>1
<1>3. /\ s \in Int /\ s >= 0 /\ MinWait(p) \in Int /\ MinWait(p) >= 1 /\ p.maxWait \in Int
      /\ d \in Int /\ d <= LastDay(n, s, p)
      /\ \A l \in Limits(signals, k) : l \in Int /\ d <= l
      /\ d = LastDay(n, s, p) \/ d \in Limits(signals, k)
  <2>1. s >= 0
    BY <1>2
  <2> QED BY <1>2, <2>1, StopIs
<1>4. /\ n + 1 \in Nat /\ e \in Int /\ e <= LastDay(n + 1, s, p)
      /\ \A l \in Limits(new, k) : l \in Int /\ e <= l
      /\ e = LastDay(n + 1, s, p) \/ e \in Limits(new, k)
  <2>1. n + 1 \in Nat /\ new[k].pos = s
    BY <1>2
  <2> QED BY <1>2, <2>1, StopIs
<1>5. Limits(signals, k) \subseteq Limits(new, k)
  <2> SUFFICES ASSUME NEW l \in Limits(signals, k) PROVE l \in Limits(new, k)
    OBVIOUS
  <2>1. PICK j \in (k + 1)..m :
          /\ signals[j].pos > signals[k].pos /\ signals[j].stage = signals[k].stage + 1
          /\ \A h \in (k + 1)..j : signals[h].cycle.w1 = signals[k].cycle.w1
          /\ l = IF signals[k].stage = 1 THEN signals[j].pos - 1 ELSE signals[j].pos
    BY DEF Limits, m, l2
  <2>4. j \in (k + 1)..l2 /\ j \in 1..m /\ \A h \in (k + 1)..j : h \in 1..m
    BY <1>1, <1>2, <2>1
  <2>2. j \in (k + 1)..l2 /\ new[j] = signals[j] /\ \A h \in (k + 1)..j : new[h] = signals[h]
    BY <1>1, <2>4
  <2>3. \A h \in (k + 1)..j : new[h].cycle.w1 = new[k].cycle.w1
    BY <1>2, <2>1, <2>2
  <2> QED BY <1>2, <2>1, <2>2, <2>3 DEF Limits, m, l2
<1>6. \A l \in Limits(new, k) : l \in Limits(signals, k) \/ l = n \/ l = n + 1
  <2> TAKE l \in Limits(new, k)
  <2>1. PICK j \in (k + 1)..l2 :
          /\ new[j].pos > new[k].pos /\ new[j].stage = new[k].stage + 1
          /\ \A h \in (k + 1)..j : new[h].cycle.w1 = new[k].cycle.w1
          /\ l = IF new[k].stage = 1 THEN new[j].pos - 1 ELSE new[j].pos
    BY DEF Limits, m, l2
  <2>2. CASE j \in 1..m
    <3>4. j \in (k + 1)..m /\ \A h \in (k + 1)..j : h \in 1..m
      BY <1>1, <1>2, <2>1, <2>2
    <3>1. j \in (k + 1)..m /\ new[j] = signals[j] /\ \A h \in (k + 1)..j : new[h] = signals[h]
      BY <1>1, <2>2, <3>4
    <3>2. \A h \in (k + 1)..j : signals[h].cycle.w1 = signals[k].cycle.w1
      BY <1>2, <2>1, <3>1
    <3>3. l \in Limits(signals, k)
      BY <1>2, <2>1, <3>1, <3>2 DEF Limits, m, l2
    <3> QED BY <3>3
  <2>3. CASE j \notin 1..m
    <3>2. j \in 1..l2
      BY <1>1, <1>2, <2>1
    <3>1. new[j].pos = n + 1
      BY <1>1, <2>3, <3>2
    <3> QED BY <2>1, <3>1
  <2> QED BY <2>2, <2>3
<1> HIDE DEF s, d, e
<1>7. d <= e /\ e <= n /\ d <= n - 1 /\ (e # d => d = n - 1 \/ e = n)
      /\ \A i \in Int : i <= e /\ i # n => i <= d
  <2>1. /\ LastDay(n, s, p) \in Int /\ LastDay(n + 1, s, p) \in Int
        /\ LastDay(n, s, p) <= LastDay(n + 1, s, p)
        /\ LastDay(n, s, p) <= n - 1 /\ LastDay(n + 1, s, p) <= n
        /\ LastDay(n, s, p) # LastDay(n + 1, s, p) => LastDay(n, s, p) = n - 1
    BY <1>3 DEF LastDay
  <2>2. d <= n - 1 /\ e <= n
    BY <1>3, <1>4, <2>1
  <2>3. d <= e
    <3>1. CASE e = LastDay(n + 1, s, p)
      BY <1>3, <2>1, <3>1
    <3>2. CASE e \in Limits(new, k)
      <4>1. e \in Limits(signals, k) \/ e = n \/ e = n + 1
        BY <1>6, <3>2
      <4> QED BY <1>3, <1>4, <2>2, <4>1
    <3> QED BY <1>4, <3>1, <3>2
  <2>4. e <= d \/ d = n - 1
    <3>1. CASE d \in Limits(signals, k)
      BY <1>4, <1>5, <3>1
    <3>2. CASE d = LastDay(n, s, p)
      BY <1>3, <1>4, <2>1, <3>2
    <3> QED BY <1>3, <3>1, <3>2
  <2> QED BY <1>3, <1>4, <2>2, <2>3, <2>4
<1>8. Falls(s, d) \subseteq Falls(s, e) /\ \A j \in Falls(s, e) : j # n => j \in Falls(s, d)
  <2>1. (s + 1)..d \subseteq (s + 1)..e
    BY <1>3, <1>4, <1>7
  <2>2. \A j \in (s + 1)..e : j # n => j \in (s + 1)..d
    BY <1>3, <1>4, <1>7
  <2> QED BY <2>1, <2>2 DEF Falls
<1>9. Falls(s, d) # {} => LowestOf(Falls(s, e)) = LowestOf(Falls(s, d))
  <2> SUFFICES ASSUME Falls(s, d) # {} PROVE LowestOf(Falls(s, e)) = LowestOf(Falls(s, d))
    OBVIOUS
  <2>1. /\ LowestOf(Falls(s, d)) \in Falls(s, d) /\ LowestOf(Falls(s, d)) \in (s + 1)..d
        /\ \A x \in Falls(s, d) : LowestOf(Falls(s, d)) <= x
    BY <1>3, FallsAre
  <2>2. \A x \in Falls(s, e) : x \in Int /\ LowestOf(Falls(s, d)) <= x
    <3> TAKE x \in Falls(s, e)
    <3>1. x \in Int
      BY <1>3, <1>4 DEF Falls
    <3>2. CASE x = n
      BY <1>3, <1>7, <2>1, <3>2
    <3>3. CASE x # n
      BY <1>8, <2>1, <3>1, <3>3
    <3> QED BY <3>1, <3>2, <3>3
  <2>3. Falls(s, e) \subseteq Int /\ LowestOf(Falls(s, d)) \in Falls(s, e)
    BY <1>8, <2>1, <2>2
  <2> QED BY <2>2, <2>3, LowestFound
<1> DEFINE Seen(i, size, f) ==
             /\ signals[k].stage = p.stage /\ s >= 1 /\ s + 2 <= size /\ p.maxWait >= MinWait(p)
             /\ f >= s + MinWait(p) /\ C(s).volume > 0 /\ Falls(s, f) # {}
             /\ i \in LowestOf(Falls(s, f))..f /\ Fits(s, LowestOf(Falls(s, f)), i, p)
<1>10. \A i : i \in Rebounds(n, signals, k, p) <=> Seen(i, n, d)
  BY ReboundsAre DEF s, d
<1>11. \A i : i \in Rebounds(n + 1, new, k, p) <=> Seen(i, n + 1, e)
  <2>1. s = new[k].pos /\ e = Stop(n + 1, new, k, p)
    BY <1>2 DEF s, e
  <2>2. \A i : i \in Rebounds(n + 1, new, k, p) <=>
               /\ new[k].stage = p.stage /\ s >= 1 /\ s + 2 <= n + 1 /\ p.maxWait >= MinWait(p)
               /\ e >= s + MinWait(p) /\ C(s).volume > 0 /\ Falls(s, e) # {}
               /\ i \in LowestOf(Falls(s, e))..e /\ Fits(s, LowestOf(Falls(s, e)), i, p)
    <3> DEFINE s1 == new[k].pos
               e1 == Stop(n + 1, new, k, p)
    <3>1. \A i : i \in Rebounds(n + 1, new, k, p) <=>
                 /\ new[k].stage = p.stage /\ s1 >= 1 /\ s1 + 2 <= n + 1 /\ p.maxWait >= MinWait(p)
                 /\ e1 >= s1 + MinWait(p) /\ C(s1).volume > 0 /\ Falls(s1, e1) # {}
                 /\ i \in LowestOf(Falls(s1, e1))..e1 /\ Fits(s1, LowestOf(Falls(s1, e1)), i, p)
      BY ReboundsAre
    <3>2. s1 = s /\ e1 = e
      BY <2>1
    <3> HIDE DEF s1, e1
    <3> QED BY <3>1, <3>2
  <2> QED BY <1>2, <2>2
<1>12. ASSUME NEW i, Seen(i, n, d) PROVE Seen(i, n + 1, e)
  <2>1. Falls(s, e) # {} /\ LowestOf(Falls(s, e)) = LowestOf(Falls(s, d)) /\ LowestOf(Falls(s, d)) \in Int
    BY <1>3, <1>8, <1>9, <1>12, FallsAre
  <2>2. s + 2 <= n + 1 /\ e >= s + MinWait(p)
    BY <1>3, <1>4, <1>7, <1>12
  <2>3. i \in LowestOf(Falls(s, e))..e
    BY <1>3, <1>4, <1>7, <1>12, <2>1
  <2> QED BY <1>12, <2>1, <2>2, <2>3
<1>13. ASSUME NEW i, Seen(i, n + 1, e), i # n PROVE Seen(i, n, d)
  <2>1. LowestOf(Falls(s, e)) \in Falls(s, e) /\ LowestOf(Falls(s, e)) \in (s + 1)..e
    BY <1>3, <1>4, <1>13, FallsAre
  <2>2. i \in Int /\ LowestOf(Falls(s, e)) <= i /\ i <= e /\ i - s >= MinWait(p)
    BY <1>4, <1>13, <2>1 DEF Fits
  <2>3. i <= d
    BY <1>7, <1>13, <2>2
  <2>4. Falls(s, d) # {}
    <3>1. LowestOf(Falls(s, e)) # n
      BY <1>3, <1>4, <1>7, <2>1, <2>2, <2>3
    <3> QED BY <1>8, <2>1, <3>1
  <2>5. LowestOf(Falls(s, e)) = LowestOf(Falls(s, d))
    BY <1>9, <2>4
  <2>6. i \in LowestOf(Falls(s, d))..d
    BY <1>3, <2>1, <2>2, <2>3, <2>5
  <2>7. d >= s + MinWait(p) /\ s + 2 <= n
    BY <1>3, <1>7, <2>2, <2>3
  <2> QED BY <1>13, <2>4, <2>5, <2>6, <2>7
<1> HIDE DEF Seen
<1> QED BY <1>10, <1>11, <1>12, <1>13

LEMMA EntriesGrow ==
    ASSUME NEW n \in Nat, NEW signals \in Seq(WaveSignal), NEW new \in Seq(WaveSignal), NEW p \in PullbackConfigs,
           \A j \in DOMAIN new : new[j].pos >= 0,
           \/ new = signals
           \/ \E s \in WaveSignal : s.pos = n + 1 /\ new = Append(signals, s)
    PROVE  /\ PullbackEntries(n, signals, p) \subseteq PullbackEntries(n + 1, new, p)
           /\ \A e \in PullbackEntries(n + 1, new, p) \ PullbackEntries(n, signals, p) : e.fire + 1 = n + 1
<1> DEFINE R(k) == Rebounds(n, signals, k, p)
           S(k) == Rebounds(n + 1, new, k, p)
<1>1. /\ \A k \in DOMAIN signals : k \in DOMAIN new /\ new[k] = signals[k]
      /\ \A k \in DOMAIN new : k \in DOMAIN signals \/ new[k].pos = n + 1
  <2>1. CASE new = signals
    BY <2>1
  <2>2. ASSUME NEW x \in WaveSignal, x.pos = n + 1, new = Append(signals, x)
        PROVE  /\ \A k \in DOMAIN signals : k \in DOMAIN new /\ new[k] = signals[k]
               /\ \A k \in DOMAIN new : k \in DOMAIN signals \/ new[k].pos = n + 1
    <3> DEFINE m == Len(signals)
    <3>1. m \in Nat /\ DOMAIN signals = 1..m
      OBVIOUS
    <3>2. /\ DOMAIN Append(signals, x) = 1..(m + 1) /\ Append(signals, x)[m + 1] = x
          /\ \A k \in 1..m : Append(signals, x)[k] = signals[k]
      OBVIOUS
    <3> HIDE DEF m
    <3>3. \A k \in 1..(m + 1) : k \in 1..m \/ k = m + 1
      BY <3>1
    <3> QED BY <2>2, <3>1, <3>2, <3>3
  <2> QED BY <2>1, <2>2
<1>2. \A j \in DOMAIN signals : signals[j].pos >= 0
  BY <1>1
<1>3. \A k \in DOMAIN signals : R(k) \subseteq S(k) /\ S(k) \ R(k) \subseteq {n}
  BY ReboundsGrow
<1>4. \A k \in DOMAIN signals : \A i \in R(k) : i \in Int /\ 0 <= i /\ i <= n - 1
  BY <1>2, ReboundLies
<1>5. n + 1 \in Nat
  OBVIOUS
<1>6. \A k \in DOMAIN new : \A i \in S(k) : i \in Int /\ 0 <= i /\ i <= n /\ new[k].pos + MinWait(p) <= i
  <2> SUFFICES ASSUME NEW k \in DOMAIN new, NEW i \in S(k)
               PROVE  i \in Int /\ 0 <= i /\ i <= n /\ new[k].pos + MinWait(p) <= i
    OBVIOUS
  <2>1. i \in Int /\ 0 <= i /\ i <= (n + 1) - 1 /\ new[k].pos + MinWait(p) <= i
    BY <1>5, ReboundLies
  <2> QED BY <2>1
<1>7. \A k \in DOMAIN new : S(k) # {} => k \in DOMAIN signals
  <2> SUFFICES ASSUME NEW k \in DOMAIN new, NEW i \in S(k), k \notin DOMAIN signals PROVE FALSE
    OBVIOUS
  <2>1. new[k].pos = n + 1
    BY <1>1
  <2>2. MinWait(p) \in Int /\ MinWait(p) >= 1
    BY <1>5, StopIs
  <2>3. i \in Int /\ i <= n /\ new[k].pos + MinWait(p) <= i
    BY <1>6
  <2> QED BY <2>1, <2>2, <2>3
<1> HIDE DEF R, S
<1>8. \A k \in DOMAIN signals : R(k) # {} => LowestOf(S(k)) = LowestOf(R(k))
  <2> SUFFICES ASSUME NEW k \in DOMAIN signals, R(k) # {} PROVE LowestOf(S(k)) = LowestOf(R(k))
    OBVIOUS
  <2>1. R(k) \subseteq Int /\ \A x \in R(k) : 0 <= x
    BY <1>4
  <2>2. LowestOf(R(k)) \in R(k) /\ \A x \in R(k) : LowestOf(R(k)) <= x
    BY <2>1, LowestIs
  <2>3. LowestOf(R(k)) \in Int /\ LowestOf(R(k)) <= n - 1
    BY <1>4, <2>2
  <2>4. \A x \in S(k) : x \in Int /\ LowestOf(R(k)) <= x
    <3> TAKE x \in S(k)
    <3>1. x \in R(k) \/ x = n
      BY <1>3
    <3> QED BY <2>1, <2>2, <2>3, <3>1
  <2>5. S(k) \subseteq Int /\ LowestOf(R(k)) \in S(k)
    BY <1>3, <2>2, <2>4
  <2> QED BY <2>4, <2>5, LowestFound
<1>9. ASSUME NEW e \in PullbackEntries(n, signals, p) PROVE e \in PullbackEntries(n + 1, new, p)
  <2>1. PICK k \in DOMAIN signals : R(k) # {} /\ e = [signal |-> signals[k], fire |-> LowestOf(R(k))]
    BY <1>2, EntryIs DEF R
  <2>2. S(k) # {} /\ e = [signal |-> new[k], fire |-> LowestOf(S(k))] /\ k \in DOMAIN new
    BY <1>1, <1>3, <1>8, <2>1
  <2> QED BY <2>2 DEF PullbackEntries, S
<1>10. ASSUME NEW e \in PullbackEntries(n + 1, new, p), e \notin PullbackEntries(n, signals, p)
       PROVE  e.fire + 1 = n + 1
  <2>1. PICK k \in DOMAIN new :
          S(k) # {} /\ e = [signal |-> new[k], fire |-> LowestOf(S(k))] /\ e.fire \in S(k)
    BY <1>5, EntryIs DEF S
  <2>2. k \in DOMAIN signals
    BY <1>7, <2>1
  <2>3. CASE R(k) # {}
    <3>1. e = [signal |-> signals[k], fire |-> LowestOf(R(k))]
      BY <1>1, <1>8, <2>1, <2>2, <2>3
    <3>2. e \in PullbackEntries(n, signals, p)
      BY <2>2, <2>3, <3>1 DEF PullbackEntries, R
    <3> QED BY <1>10, <3>2
  <2>4. CASE R(k) = {}
    BY <1>3, <2>1, <2>2, <2>4
  <2> QED BY <2>3, <2>4
<1> QED BY <1>9, <1>10

\* No signal of a wave depends on a later candle, a candle that breaks out while no cycle is
\* alive starts one, and the entry after a first wave is filled before the one after the second
\* of its cycle is decided (volume_wave_analyze.go:55, 82, volume_wave_pullback.go:179).
THEOREM WavesAreSound == Spec => []WavesSound
<1>1. WaveInv => BreakoutNotMissed
  <2> SUFFICES ASSUME WaveInv, lab = "wave", pos >= cfg.volumeWindow PROVE BreakoutNotMissed
    BY DEF BreakoutNotMissed
  <2> QED BY DEF WaveInv, NotMissed, BreakoutNotMissed
<1>2. WaveInv => WavesSound
  BY <1>1, WavesOfThePastAlways, FirstWaveFirstAlways DEF WavesSound
<1> QED BY <1>2, WaveInvHolds, PTL

\* A list that grows by a candle keeps every entry, and what it adds is filled on the new
\* candle (volume_wave_pullback.go:179).
THEOREM EntriesAreKept == Spec => EntriesKept
<1>1. WaveInv /\ [Next]_vars =>
        [lab = "wave" =>
           \A p \in PullbackConfigs :
             LET before == PullbackEntries(pos, wave.signals, p)
                 after == PullbackEntries(pos', wave'.signals, p)
             IN  before \subseteq after /\ \A e \in after \ before : e.fire + 1 = pos']_pos
  <2> SUFFICES ASSUME WaveInv, [Next]_vars, pos' # pos, lab = "wave", NEW p \in PullbackConfigs
               PROVE  /\ PullbackEntries(pos, wave.signals, p) \subseteq PullbackEntries(pos', wave'.signals, p)
                      /\ \A e \in PullbackEntries(pos', wave'.signals, p) \ PullbackEntries(pos, wave.signals, p) :
                           e.fire + 1 = pos'
    BY Zenon
  <2>1. WaveStep
    BY DEF Next, vars
  <2>2. pos' = pos + 1 /\ wave' = WaveAfter(wave, pos + 1, Last)
    BY <2>1 DEF WaveStep
  <2>3. /\ pos \in Nat /\ wave.signals \in Seq(WaveSignal) /\ WaveTape /\ WaveOK(wave, pos)
        /\ pos >= cfg.volumeWindow - 1
        /\ cfg.volumeWindow \in Int /\ cfg.minLead \in Int /\ cfg.volumeWindow > 1 /\ cfg.minLead > 0
    BY FirstWaveNumbers, WaveTapeFacts DEF WaveInv, WaveSignal
  <2> DEFINE x == WaveAfter(wave, pos + 1, Last)
  <2>4. /\ WaveOK(x, pos + 1)
        /\ \/ x.signals = wave.signals
           \/ \E s \in WaveSignal : s.pos = pos + 1 /\ x.signals = Append(wave.signals, s)
    <3>1. PICK i : i = pos + 1
      OBVIOUS
    <3>2. i \in Nat /\ i >= cfg.volumeWindow /\ i - 1 = pos
      BY <2>3, <3>1
    <3>3. WaveOK(wave, i - 1)
      BY <2>3, <3>2
    <3> QED BY <2>3, <3>1, <3>2, <3>3, WaveMoves
  <2> HIDE DEF x
  <2>5. x.signals \in Seq(WaveSignal) /\ \A j \in DOMAIN x.signals : x.signals[j].pos >= 0
    <3>1. x.signals \in Seq(WaveSignal) /\ InOrder(x.signals, pos + 1)
      BY <2>4 DEF WaveOK, Waves, WaveSignal
    <3>2. \A j \in DOMAIN x.signals : x.signals[j].pos \in (cfg.volumeWindow + cfg.minLead)..(pos + 1)
      BY <3>1 DEF InOrder
    <3> QED BY <2>3, <3>1, <3>2
  <2>6. /\ PullbackEntries(pos, wave.signals, p) \subseteq PullbackEntries(pos + 1, x.signals, p)
        /\ \A e \in PullbackEntries(pos + 1, x.signals, p) \ PullbackEntries(pos, wave.signals, p) :
             e.fire + 1 = pos + 1
    <3> DEFINE old == wave.signals
               new == x.signals
    <3>1. old \in Seq(WaveSignal) /\ new \in Seq(WaveSignal) /\ pos \in Nat
      BY <2>3, <2>5
    <3>2. \A j \in DOMAIN new : new[j].pos >= 0
      BY <2>5
    <3>3. \/ new = old
          \/ \E s \in WaveSignal : s.pos = pos + 1 /\ new = Append(old, s)
      BY <2>4
    <3> HIDE DEF old, new
    <3>4. /\ PullbackEntries(pos, old, p) \subseteq PullbackEntries(pos + 1, new, p)
          /\ \A e \in PullbackEntries(pos + 1, new, p) \ PullbackEntries(pos, old, p) : e.fire + 1 = pos + 1
      BY <3>1, <3>2, <3>3, EntriesGrow
    <3> QED BY <3>4 DEF old, new
  <2> QED BY <2>2, <2>6 DEF x
<1> QED BY <1>1, WaveInvHolds, PTL DEF Spec, EntriesKept

-----------------------------------------------------------------------------
(* Twin implementations. *)

\* The box list after the turn of candle i, and after its DefBox.
Turned(list, from, i) == Boxes!AddTurn(list, from, i, C(i).key)
Defined(list, defs, i) == Boxes!CheckAndCreateDefBox(list, defs, i, DamOption)[1]

BoxesAfter(order, t, i) ==
    CASE order = "plain" -> Turned(t.boxes, t.from, i)
      [] order = "pattern" -> Defined(Turned(t.boxes, t.from, i), t.defs, i)
      [] order = "engine" -> Turned(Defined(t.boxes, t.defs, i), t.from, i)

LEMMA TrackIs ==
    ASSUME NEW order \in Orders, NEW t, DOMAIN t = {"boxes", "from", "defs"}, NEW i
    PROVE  LET next == Track(order, t, i)
               new == next.boxes
           IN  /\ new = BoxesAfter(order, t, i)
               /\ next.from = IF C(i - 1).key # C(i).key /\ new # << >>
                              THEN Boxes!CalculateExposition(new[Len(new)]) ELSE t.from
               /\ NewBox(order, t, i) <=>
                    Len(IF order = "engine" THEN new ELSE Turned(t.boxes, t.from, i)) > Len(t.boxes)
<1>1. ASSUME NEW s, DOMAIN s = {"boxes", "from", "defs"}
      PROVE  /\ DOMAIN WithTurn(s, i) = {"boxes", "from", "defs"}
             /\ WithTurn(s, i).boxes = Turned(s.boxes, s.from, i)
             /\ WithTurn(s, i).from = s.from /\ WithTurn(s, i).defs = s.defs
  <2>1. WithTurn(s, i) = [s EXCEPT !.boxes = Turned(s.boxes, s.from, i)]
    BY DEF WithTurn, Turned
  <2> QED BY <1>1, <2>1
<1>2. ASSUME NEW s, DOMAIN s = {"boxes", "from", "defs"}
      PROVE  /\ DOMAIN WithDefBox(s, i) = {"boxes", "from", "defs"}
             /\ WithDefBox(s, i).boxes = Defined(s.boxes, s.defs, i)
             /\ WithDefBox(s, i).from = s.from
  <2> DEFINE r == Boxes!CheckAndCreateDefBox(s.boxes, s.defs, i, DamOption)
  <2>1. WithDefBox(s, i) = [s EXCEPT !.boxes = r[1], !.defs = r[2]]
    BY DEF WithDefBox
  <2>2. Defined(s.boxes, s.defs, i) = r[1]
    BY DEF Defined
  <2> HIDE DEF r
  <2> QED BY <1>2, <2>1, <2>2
<1>3. ASSUME NEW s, DOMAIN s = {"boxes", "from", "defs"}
      PROVE  /\ WithLeg(s, i).boxes = s.boxes
             /\ WithLeg(s, i).from = IF C(i - 1).key # C(i).key /\ s.boxes # << >>
                                     THEN Boxes!CalculateExposition(s.boxes[Len(s.boxes)]) ELSE s.from
  BY <1>3 DEF WithLeg
<1>4. CASE order = "plain"
  <2> DEFINE s == WithTurn(t, i)
  <2>1. Track(order, t, i) = WithLeg(s, i)
    BY <1>4 DEF Track
  <2>2. /\ DOMAIN s = {"boxes", "from", "defs"} /\ s.boxes = BoxesAfter(order, t, i)
        /\ s.boxes = Turned(t.boxes, t.from, i) /\ s.from = t.from
    BY <1>1, <1>4 DEF BoxesAfter
  <2>3. NewBox(order, t, i) <=> Len(s.boxes) > Len(t.boxes)
    BY <1>4 DEF NewBox
  <2> HIDE DEF s
  <2> QED BY <1>3, <1>4, <2>1, <2>2, <2>3
<1>5. CASE order = "pattern"
  <2> DEFINE q == WithTurn(t, i)
             s == WithDefBox(q, i)
  <2>1. Track(order, t, i) = WithLeg(s, i)
    BY <1>5 DEF Track
  <2>4. /\ DOMAIN q = {"boxes", "from", "defs"} /\ q.boxes = Turned(t.boxes, t.from, i)
        /\ q.from = t.from /\ q.defs = t.defs
    BY <1>1
  <2>3. NewBox(order, t, i) <=> Len(q.boxes) > Len(t.boxes)
    BY <1>5 DEF NewBox
  <2> HIDE DEF q
  <2>2. /\ DOMAIN s = {"boxes", "from", "defs"} /\ s.boxes = BoxesAfter(order, t, i) /\ s.from = t.from
    BY <1>2, <1>5, <2>4 DEF BoxesAfter
  <2> HIDE DEF s
  <2> QED BY <1>3, <1>5, <2>1, <2>2, <2>3, <2>4
<1>6. CASE order = "engine"
  <2> DEFINE q == WithDefBox(t, i)
             s == WithTurn(q, i)
  <2>1. Track(order, t, i) = WithLeg(s, i)
    BY <1>6 DEF Track
  <2>4. /\ DOMAIN q = {"boxes", "from", "defs"} /\ q.boxes = Defined(t.boxes, t.defs, i) /\ q.from = t.from
    BY <1>2
  <2> HIDE DEF q
  <2>2. /\ DOMAIN s = {"boxes", "from", "defs"} /\ s.boxes = BoxesAfter(order, t, i) /\ s.from = t.from
    BY <1>1, <1>6, <2>4 DEF BoxesAfter
  <2> HIDE DEF s
  <2>3. NewBox(order, t, i) <=> Len(Track(order, t, i).boxes) > Len(t.boxes)
    BY <1>6 DEF NewBox
  <2> QED BY <1>3, <1>6, <2>1, <2>2, <2>3
<1> QED BY <1>4, <1>5, <1>6 DEF Orders

\* What a turn adds: the extreme of the leg.
LEMMA TurnIs ==
    ASSUME Directed(candles), NEW list, NEW i \in 6..Last, NEW from \in Nat
    PROVE  LET new == Turned(list, from, i)
               high == Boxes!FindHighestPrice(from, i)
               low == Boxes!FindLowestPrice(from, i)
           IN  \/ /\ C(i - 1).key = C(i).key /\ ~TurnsUp(i) /\ ~TurnsDown(i) /\ new = list
               \/ /\ C(i - 1).key # C(i).key /\ TurnsDown(i) /\ ~TurnsUp(i) /\ ~(C(i - 1).key <= 0)
                  /\ new = IF high >= 0 THEN Boxes!AddHighBox(list, high, i) ELSE list
               \/ /\ C(i - 1).key # C(i).key /\ TurnsUp(i) /\ ~TurnsDown(i) /\ ~(C(i - 1).key > 0)
                  /\ new = IF low >= 0 THEN Boxes!AddLowBox(list, low, i) ELSE list
<1> DEFINE prev == C(i - 1).key
           next == C(i).key
           high == Boxes!FindHighestPrice(from, i)
           low == Boxes!FindLowestPrice(from, i)
           new == Turned(list, from, i)
<1>1. prev \in {-1, 1} /\ next \in {-1, 1} /\ prev = [j \in DOMAIN candles |-> candles[j].key][i - 1]
  <2>1. i \in 5..Last /\ i - 1 \in 5..Last /\ i - 1 \in DOMAIN candles
    BY DirectedFacts
  <2> QED BY <2>1, DirectedFacts DEF C
<1>2. new = CASE next = prev -> list
              [] prev > 0 /\ next # prev -> IF high >= 0 THEN Boxes!AddHighBox(list, high, i) ELSE list
              [] prev < 0 /\ next # prev -> IF low >= 0 THEN Boxes!AddLowBox(list, low, i) ELSE list
  BY <1>1, Zenon DEF Boxes!AddTurn, Turned
<1>3. /\ TurnsUp(i) <=> prev < 0 /\ next > 0
      /\ TurnsDown(i) <=> prev > 0 /\ next < 0
  BY DEF TurnsUp, TurnsDown
<1> HIDE DEF prev, next, high, low, new
<1>4. CASE next = prev
  <2>1. new = list
    BY <1>2, <1>4
  <2> QED BY <1>1, <1>3, <1>4, <2>1 DEF prev, next, new
<1>5. CASE prev = 1 /\ next = -1
  <2>1. new = IF high >= 0 THEN Boxes!AddHighBox(list, high, i) ELSE list
    BY <1>2, <1>5
  <2>2. TurnsDown(i) /\ ~TurnsUp(i) /\ prev # next /\ ~(prev <= 0)
    BY <1>3, <1>5
  <2> QED BY <2>1, <2>2 DEF prev, next, new, high
<1>6. CASE prev = -1 /\ next = 1
  <2>1. new = IF low >= 0 THEN Boxes!AddLowBox(list, low, i) ELSE list
    BY <1>2, <1>6
  <2>2. TurnsUp(i) /\ ~TurnsDown(i) /\ prev # next /\ ~(prev > 0)
    BY <1>3, <1>6
  <2> QED BY <2>1, <2>2 DEF prev, next, new, low
<1> QED BY <1>1, <1>4, <1>5, <1>6

\* The list after the DefBox that the engine looks for before the turn.
BeforeTurn(order, t, i) == IF order = "engine" THEN Defined(t.boxes, t.defs, i) ELSE t.boxes
\* ... and that the pattern loops look for after it.
AfterTurn(order, list, t, i) == IF order = "pattern" THEN Defined(list, t.defs, i) ELSE list

\* A candle of a loop: DefBoxes, the turn, DefBoxes.
LEMMA CandleAdds ==
    ASSUME Directed(candles), NEW order \in Orders, NEW i \in 6..Last, NEW t, TrackOK(t, i)
    PROVE  LET new == Track(order, t, i).boxes
               before == BeforeTurn(order, t, i)
               turned == Turned(before, t.from, i)
           IN  /\ OnlyDefs(t.boxes, before, i)
               /\ Grown(before, turned, i)
               /\ OnlyDefs(turned, new, i)
               /\ new = AfterTurn(order, turned, t, i)
               /\ order = "plain" => before = t.boxes /\ new = turned
               /\ ~(C(i - 1).key > 0) => before = t.boxes /\ new = turned
               /\ turned[Len(turned)].type # "support" => new = turned
               /\ NewBox(order, t, i) <=>
                    Len(IF order = "engine" THEN new ELSE turned) > Len(t.boxes)
<1> DEFINE new == Track(order, t, i).boxes
           before == BeforeTurn(order, t, i)
           turned == Turned(before, t.from, i)
<1>1. i \in Nat /\ i \in 1..Last /\ Listed(t.boxes, i) /\ DOMAIN t = {"boxes", "from", "defs"} /\ t.from \in Nat
  <2>1. i \in Nat /\ i \in 1..Last
    BY DirectedFacts
  <2> QED BY <2>1 DEF TrackOK
<1>2. ASSUME NEW list, Listed(list, i)
      PROVE  /\ OnlyDefs(list, Defined(list, t.defs, i), i)
             /\ ~(C(i - 1).key > 0) \/ list[Len(list)].type # "support" => Defined(list, t.defs, i) = list
  BY <1>1, <1>2, DefBoxGrows DEF Defined
<1>3. \A list : Listed(list, i) => OnlyDefs(list, list, i)
  BY <1>1, GrownSame, OnlyDefsSame
<1>4. OnlyDefs(t.boxes, before, i) /\ (~(C(i - 1).key > 0) => before = t.boxes)
  BY <1>1, <1>2, <1>3 DEF BeforeTurn
<1>5. order # "engine" => before = t.boxes
  BY DEF BeforeTurn
<1>6. Listed(before, i)
  BY <1>4 DEF OnlyDefs, Grown
<1> HIDE DEF before
<1>7. Grown(before, turned, i)
  BY <1>1, <1>6, TurnGrows DEF Turned
<1>8. Listed(turned, i)
  BY <1>7 DEF Grown
<1>9. BoxesAfter(order, t, i) = AfterTurn(order, turned, t, i)
  BY <1>5 DEF BoxesAfter, AfterTurn, before, BeforeTurn, Orders
<1>10. new = AfterTurn(order, turned, t, i)
       /\ (NewBox(order, t, i) <=>
             Len(IF order = "engine" THEN new ELSE Turned(t.boxes, t.from, i)) > Len(t.boxes))
  BY <1>1, <1>9, TrackIs
<1>11. NewBox(order, t, i) <=> Len(IF order = "engine" THEN new ELSE turned) > Len(t.boxes)
  <2> HIDE DEF new
  <2> QED BY <1>5, <1>10
<1> HIDE DEF turned, new
<1>12. /\ OnlyDefs(turned, new, i)
       /\ ~(C(i - 1).key > 0) => new = turned
       /\ turned[Len(turned)].type # "support" => new = turned
       /\ order = "plain" => new = turned
  BY <1>2, <1>3, <1>8, <1>10 DEF AfterTurn
<1> QED BY <1>4, <1>5, <1>7, <1>10, <1>11, <1>12 DEF before, turned, new

-----------------------------------------------------------------------------
(* The W. *)

\* A support is known from candle j on.
SupportAt(list, j) == \E k \in DOMAIN list : list[k].type = "support" /\ list[k].curve = j

\* A new support has become known: what a turn up of the one loop tells is what the last box of
\* the other tells.
LEMMA SupportsAre ==
    ASSUME Directed(candles), NEW order \in Orders, NEW i \in 6..Last, NEW t, TrackOK(t, i - 1)
    PROVE  LET new == Track(order, t, i).boxes
           IN  /\ SupportAt(new, i) => TurnsUp(i) /\ NewBox(order, t, i) /\ new # << >>
                    /\ new[Len(new)].kind = "box" /\ new[Len(new)].type = "support" /\ new[Len(new)].curve = i
               /\ new # << >> /\ new[Len(new)].type = "support" /\ new[Len(new)].curve = i => SupportAt(new, i)
               /\ order # "engine" /\ TurnsUp(i) /\ NewBox(order, t, i) => SupportAt(new, i)
<1> DEFINE old == t.boxes
           new == Track(order, t, i).boxes
           before == BeforeTurn(order, t, i)
           turned == Turned(before, t.from, i)
           low == Boxes!FindLowestPrice(t.from, i)
           high == Boxes!FindHighestPrice(t.from, i)
           b == Boxes!Box("box", "support", low, candles[low].low, i, << >>)
<1>1. /\ i \in Nat /\ i - 1 \in Nat /\ i \in 1..Last /\ TrackOK(t, i)
      /\ Listed(old, i) /\ t.from \in Nat /\ \A k \in DOMAIN old : old[k].curve # i
  <2>1. i \in Nat /\ i - 1 \in Nat /\ (i - 1) + 1 = i /\ i \in 1..Last /\ i \notin 0..(i - 1)
    BY DirectedFacts
  <2>2. TrackOK(t, i)
    <3> DEFINE n == i - 1
    <3>1. n \in Nat /\ TrackOK(t, n) /\ n + 1 = i
      BY <2>1
    <3> HIDE DEF n
    <3>2. TrackOK(t, n + 1)
      BY <3>1, TrackLater
    <3> QED BY <3>1, <3>2
  <2> QED BY <2>1, <2>2 DEF TrackOK, Listed
<1>2. /\ OnlyDefs(old, before, i)
      /\ Grown(before, turned, i)
      /\ OnlyDefs(turned, new, i)
      /\ ~(C(i - 1).key > 0) => before = old /\ new = turned
      /\ NewBox(order, t, i) <=>
           Len(IF order = "engine" THEN new ELSE turned) > Len(old)
  BY <1>1, CandleAdds
<1>3. \/ /\ ~TurnsUp(i) /\ turned = before
      \/ /\ ~TurnsUp(i) /\ turned = (IF high >= 0 THEN Boxes!AddHighBox(before, high, i) ELSE before)
      \/ /\ TurnsUp(i) /\ ~(C(i - 1).key > 0)
         /\ turned = (IF low >= 0 THEN Boxes!AddLowBox(before, low, i) ELSE before)
  <2> HIDE DEF before
  <2> QED BY <1>1, TurnIs
<1>4. Listed(before, i) /\ Listed(turned, i) /\ Listed(new, i)
  BY <1>2 DEF OnlyDefs, Grown
<1> HIDE DEF new, before, turned
<1>5. ASSUME NEW list, NEW more, Listed(list, i), OnlyDefs(list, more, i), ~SupportAt(list, i)
      PROVE  ~SupportAt(more, i)
  <2>1. /\ DOMAIN list = 1..Len(list) /\ DOMAIN more = 1..Len(more) /\ Len(list) \in Nat /\ Len(more) \in Nat
    BY <1>5, ListedFacts DEF OnlyDefs, Grown
  <2> SUFFICES ASSUME NEW k \in DOMAIN more, more[k].type = "support", more[k].curve = i PROVE FALSE
    BY DEF SupportAt
  <2>2. k \notin (Len(list) + 1)..Len(more)
    BY <1>5 DEF OnlyDefs
  <2>3. k \in 1..Len(list)
    BY <2>1, <2>2
  <2>4. list[k].type = "support" /\ list[k].curve = i
    BY <1>5, <2>3 DEF OnlyDefs, Grown, SameBox
  <2> QED BY <1>5, <2>1, <2>3, <2>4 DEF SupportAt
<1>6. ~SupportAt(old, i) /\ ~SupportAt(before, i)
  <2>1. ~SupportAt(old, i)
    BY <1>1 DEF SupportAt
  <2> QED BY <1>1, <1>2, <1>5, <2>1
<1>7. CASE ~TurnsUp(i)
  <2>1. ~SupportAt(turned, i)
    <3>1. CASE turned = before
      BY <1>6, <3>1
    <3>2. CASE turned # before
      <4>1. turned = Append(before, Boxes!Box("box", "resistance", high, candles[high].high, i, << >>))
        BY <1>3, <1>7, <3>2 DEF Boxes!AddHighBox
      <4> DEFINE r == Boxes!Box("box", "resistance", high, candles[high].high, i, << >>)
      <4>2. r.type = "resistance"
        BY DEF Boxes!Box
      <4> HIDE DEF r, high
      <4>3. /\ Len(before) \in Nat /\ DOMAIN before = 1..Len(before)
            /\ DOMAIN turned = 1..(Len(before) + 1)
            /\ \A k \in 1..Len(before) : turned[k] = before[k]
            /\ turned[Len(before) + 1] = r
        BY <1>4, <4>1, AppendAny DEF Listed, r
      <4>4. \A k \in DOMAIN turned : turned[k].type = "support" => k \in DOMAIN before /\ turned[k] = before[k]
        BY <4>2, <4>3
      <4> QED BY <1>6, <4>4 DEF SupportAt
    <3> QED BY <3>1, <3>2
  <2>2. ~SupportAt(new, i)
    BY <1>2, <1>4, <1>5, <2>1
  <2>3. ~(new # << >> /\ new[Len(new)].type = "support" /\ new[Len(new)].curve = i)
    <3>1. ASSUME new # << >> PROVE Len(new) \in DOMAIN new
      <4>1. DOMAIN new = 1..Len(new) /\ Len(new) \in Nat
        BY <1>4, ListedFacts
      <4>2. Len(new) # 0
        BY <1>4, <3>1, EmptySeq DEF Listed, Sequence
      <4> QED BY <4>1, <4>2
    <3> QED BY <2>2, <3>1 DEF SupportAt
  <2> QED BY <1>7, <2>2, <2>3 DEF new
<1>8. CASE TurnsUp(i)
  <2>1. before = old /\ new = turned /\ (turned = old \/ turned = Append(old, b))
    BY <1>2, <1>3, <1>8 DEF Boxes!AddLowBox
  <2>2. NewBox(order, t, i) <=> Len(new) > Len(old)
    BY <1>2, <2>1
  <2>3. b.kind = "box" /\ b.type = "support" /\ b.curve = i
    BY DEF Boxes!Box
  <2>4. Len(old) \in Nat /\ DOMAIN old = 1..Len(old)
    BY <1>1, ListedFacts
  <2> HIDE DEF b, old
  <2>5. CASE turned = old
    <3>1. ~(Len(new) > Len(old))
      BY <2>1, <2>4, <2>5
    <3>2. ~SupportAt(new, i)
      BY <1>6, <2>1, <2>5
    <3>3. new # << >> => Len(new) \in DOMAIN new
      <4>1. new = << >> \/ Len(new) # 0
        BY <1>4, EmptySeq DEF Listed, Sequence
      <4> QED BY <2>1, <2>4, <2>5, <4>1
    <3> QED BY <2>2, <3>1, <3>2, <3>3 DEF SupportAt, new
  <2>6. CASE turned = Append(old, b)
    <3>1. Len(new) = Len(old) + 1 /\ DOMAIN new = 1..(Len(old) + 1) /\ new[Len(old) + 1] = b
      BY <1>1, <2>1, <2>6, AppendAny DEF Listed, old
    <3>2. Len(new) \in DOMAIN new /\ new[Len(new)] = b /\ Len(new) > Len(old) /\ Len(new) # 0
      BY <2>4, <3>1
    <3>3. new # << >>
      BY <3>2, EmptySeq
    <3>4. SupportAt(new, i)
      BY <2>3, <3>2 DEF SupportAt
    <3> QED BY <1>8, <2>2, <2>3, <3>2, <3>3, <3>4 DEF new
  <2> QED BY <2>1, <2>5, <2>6
<1> QED BY <1>7, <1>8

\* The boxes that are known by candle j.
EntriesBy(list, j) == {Point(list[k], k) : k \in {m \in DOMAIN list : list[m].curve <= j}}

\* What a loop has told of a W at candle j follows from the boxes that were known then.
ToldAt(list, j, told) ==
    \E past : /\ Entries(past) = EntriesBy(list, j)
              /\ told = IF SupportAt(list, j) /\ C(j).ma20 > 0 /\ C(j).close < C(j).ma20
                        THEN StrictW(past, j) ELSE {}

LEMMA ToldStays ==
    ASSUME NEW old, NEW new, NEW i \in Nat, Listed(old, i), Grown(old, new, i),
           NEW j \in Nat, j < i, NEW told, ToldAt(old, j, told)
    PROVE  ToldAt(new, j, told)
<1>1. /\ DOMAIN old = 1..Len(old) /\ DOMAIN new = 1..Len(new) /\ Len(old) \in Nat /\ Len(new) \in Nat
      /\ Len(old) <= Len(new)
  BY ListedFacts DEF Grown
<1>2. \A k \in DOMAIN new : new[k].curve <= j => k \in DOMAIN old
  <2> SUFFICES ASSUME NEW k \in DOMAIN new, new[k].curve <= j, k \notin DOMAIN old PROVE FALSE
    OBVIOUS
  <2>1. k \in (Len(old) + 1)..Len(new)
    BY <1>1
  <2>2. new[k].curve = i
    BY <2>1 DEF Grown
  <2> QED BY <2>2
<1>3. \A k \in DOMAIN old : /\ k \in DOMAIN new /\ new[k].curve = old[k].curve /\ new[k].type = old[k].type
                            /\ Point(new[k], k) = Point(old[k], k)
  BY <1>1 DEF Grown, SameBox, Point
<1>4. EntriesBy(new, j) = EntriesBy(old, j)
  BY <1>2, <1>3 DEF EntriesBy
<1>5. SupportAt(new, j) <=> SupportAt(old, j)
  BY <1>2, <1>3 DEF SupportAt
<1> QED BY <1>4, <1>5 DEF ToldAt

LEMMA ToldNow ==
    ASSUME Directed(candles), NEW order \in {"pattern", "engine"}, NEW i \in 6..Last, NEW t, TrackOK(t, i - 1)
    PROVE  LET new == Track(order, t, i).boxes
           IN  ToldAt(new, i, WSignals(order, new, i, NewBox(order, t, i)))
<1> DEFINE new == Track(order, t, i).boxes
           more == NewBox(order, t, i)
           Low == C(i).ma20 > 0 /\ C(i).close < C(i).ma20
<1>1. /\ SupportAt(new, i) => TurnsUp(i) /\ more /\ new # << >>
           /\ new[Len(new)].kind = "box" /\ new[Len(new)].type = "support" /\ new[Len(new)].curve = i
      /\ new # << >> /\ new[Len(new)].type = "support" /\ new[Len(new)].curve = i => SupportAt(new, i)
      /\ order # "engine" /\ TurnsUp(i) /\ more => SupportAt(new, i)
  BY SupportsAre DEF Orders
<1>2. Listed(new, i)
  <2> DEFINE n == i - 1
  <2>1. n \in Nat /\ n + 1 = i
    BY DirectedFacts
  <2> HIDE DEF n
  <2>2. TrackOK(t, n + 1)
    <3>1. TrackOK(t, n)
      BY DEF n
    <3> QED BY <2>1, <3>1, TrackLater
  <2>3. TrackOK(Track(order, t, i), i)
    BY <2>1, <2>2, TrackGrows DEF Orders
  <2> QED BY <2>3 DEF TrackOK
<1> HIDE DEF new, more
<1>3. WSignals(order, new, i, more) = IF SupportAt(new, i) /\ Low THEN StrictW(new, i) ELSE {}
  <2>1. CASE order = "pattern"
    <3>1. WSignals(order, new, i, more) = WGCAnalyze(new, i, more)
      BY <2>1 DEF WSignals
    <3>2. SupportAt(new, i) <=> C(i - 1).key < 0 /\ C(i).key > 0 /\ more
      BY <1>1, <2>1 DEF TurnsUp
    <3>3. WGCAnalyze(new, i, more)
            = IF C(i - 1).key < 0 /\ C(i).key > 0 /\ more /\ C(i).ma20 > 0 /\ C(i).close < C(i).ma20
              THEN StrictW(new, i) ELSE {}
      BY DEF WGCAnalyze, StrictW
    <3> QED BY <3>1, <3>2, <3>3
  <2>2. CASE order = "engine"
    <3>1. WSignals(order, new, i, more) = IsWBottomBoxCompletedEvent(new, i)
      BY <2>2 DEF WSignals
    <3>2. SupportAt(new, i) <=> /\ new # << >> /\ new[Len(new)].kind = "box"
                                /\ new[Len(new)].type = "support" /\ new[Len(new)].curve = i
      BY <1>1
    <3> QED BY <3>1, <3>2 DEF IsWBottomBoxCompletedEvent
  <2> QED BY <2>1, <2>2
<1>4. Entries(new) = EntriesBy(new, i)
  <2>1. i \in Nat /\ \A k \in DOMAIN new : new[k].curve \in 0..i
    BY <1>2, DirectedFacts DEF Listed
  <2>2. \A k \in DOMAIN new : new[k].curve <= i
    BY <2>1
  <2> QED BY <2>2 DEF Entries, EntriesBy
<1>5. ToldAt(new, i, WSignals(order, new, i, more))
  BY <1>3, <1>4 DEF ToldAt
<1> QED BY <1>5 DEF new, more

LEMMA ToldOnce ==
    ASSUME NEW list, NEW j, NEW one, NEW other, ToldAt(list, j, one), ToldAt(list, j, other)
    PROVE  one = other
<1>1. \A a, b : Entries(a) = Entries(b) => StrictW(a, j) = StrictW(b, j)
  <2> TAKE a, b
  <2> HAVE Entries(a) = Entries(b)
  <2>1. FindBBWBottomBoxPattern(a, j) = FindBBWBottomBoxPattern(b, j)
    BY DEF FindBBWBottomBoxPattern
  <2> QED BY <2>1 DEF StrictW
<1> QED BY <1>1 DEF ToldAt

-----------------------------------------------------------------------------
(* The turning points. *)

LEMMA TrendOfDefs ==
    ASSUME NEW old, NEW new, NEW i, Listed(old, i), OnlyDefs(old, new, i)
    PROVE  Trend(new) = Trend(old)
<1>1. /\ DOMAIN old = 1..Len(old) /\ DOMAIN new = 1..Len(new) /\ Len(old) \in Nat /\ Len(new) \in Nat
      /\ Len(old) <= Len(new)
  BY ListedFacts DEF OnlyDefs, Grown
<1>2. \A k \in DOMAIN new : ~IsDef(new[k]) => k \in DOMAIN old
  <2> SUFFICES ASSUME NEW k \in DOMAIN new, ~IsDef(new[k]), k \notin DOMAIN old PROVE FALSE
    OBVIOUS
  <2>1. k \in (Len(old) + 1)..Len(new)
    BY <1>1
  <2> QED BY <2>1 DEF OnlyDefs
<1>3. \A k \in DOMAIN old : /\ k \in DOMAIN new /\ (IsDef(new[k]) <=> IsDef(old[k]))
                            /\ Point(new[k], new[k].curve) = Point(old[k], old[k].curve)
  BY <1>1 DEF OnlyDefs, Grown, SameBox, Point
<1> QED BY <1>2, <1>3 DEF Trend

LEMMA TrendOfTurn ==
    ASSUME NEW list, NEW i, Listed(list, i), NEW b, ~IsDef(b)
    PROVE  Trend(Append(list, b)) = Trend(list) \cup {Point(b, b.curve)}
<1> DEFINE new == Append(list, b)
           n == Len(list)
<1>1. /\ n \in Nat /\ DOMAIN list = 1..n /\ DOMAIN new = 1..(n + 1)
      /\ \A k \in 1..n : new[k] = list[k]
      /\ new[n + 1] = b
  BY AppendAny DEF Listed
<1> HIDE DEF new, n
<1>2. \A k : k \in DOMAIN new <=> k \in DOMAIN list \/ k = n + 1
  BY <1>1
<1>3. \A k \in DOMAIN list : new[k] = list[k]
  BY <1>1
<1>4. Trend(new) = Trend(list) \cup {Point(b, b.curve)}
  BY <1>1, <1>2, <1>3 DEF Trend
<1> QED BY <1>4 DEF new

\* New turning points carry the candle that made them known.
LEMMA TrendGrows ==
    ASSUME NEW old, NEW new, NEW i, Listed(old, i), Grown(old, new, i)
    PROVE  Trend(old) \subseteq Trend(new) /\ \A p \in Trend(new) \ Trend(old) : p.rank = i
<1>1. /\ DOMAIN old = 1..Len(old) /\ DOMAIN new = 1..Len(new) /\ Len(old) \in Nat /\ Len(new) \in Nat
      /\ Len(old) <= Len(new)
  BY ListedFacts DEF Grown
<1>2. \A k \in DOMAIN old : /\ k \in DOMAIN new /\ (IsDef(new[k]) <=> IsDef(old[k]))
                            /\ Point(new[k], new[k].curve) = Point(old[k], old[k].curve)
  BY <1>1 DEF Grown, SameBox, Point
<1>3. \A k \in DOMAIN new : k \notin DOMAIN old => new[k].curve = i
  <2> SUFFICES ASSUME NEW k \in DOMAIN new, k \notin DOMAIN old PROVE new[k].curve = i
    OBVIOUS
  <2>1. k \in (Len(old) + 1)..Len(new)
    BY <1>1
  <2> QED BY <2>1 DEF Grown
<1>4. \A b, r : Point(b, r).rank = r
  BY DEF Point
<1>5. Trend(old) \subseteq Trend(new)
  BY <1>2 DEF Trend
<1>6. ASSUME NEW p \in Trend(new) \ Trend(old) PROVE p.rank = i
  <2>1. PICK k \in DOMAIN new : ~IsDef(new[k]) /\ p = Point(new[k], new[k].curve)
    BY DEF Trend
  <2>2. k \notin DOMAIN old
    BY <1>2, <2>1 DEF Trend
  <2> QED BY <1>3, <1>4, <2>1, <2>2
<1> QED BY <1>5, <1>6

\* The box of the leg that ends at candle i.
LegBox(from, i) ==
    IF TurnsDown(i)
    THEN LET high == Boxes!FindHighestPrice(from, i)
         IN  Boxes!Box("box", "resistance", high, candles[high].high, i, << >>)
    ELSE LET low == Boxes!FindLowestPrice(from, i)
         IN  Boxes!Box("box", "support", low, candles[low].low, i, << >>)

\* A turn ends the leg: its extreme lies after the turning points and gets a box, unless a DefBox
\* has its place and its price.
LEMMA LegEnds ==
    ASSUME Directed(candles), NEW order \in Orders, NEW i \in 6..Last, NEW t, TrackOK(t, i - 1),
           t.from <= i - 1, \A p \in Trend(t.boxes) : p.at < t.from
    PROVE  LET next == Track(order, t, i)
               b == LegBox(t.from, i)
           IN  \/ /\ ~TurnsUp(i) /\ ~TurnsDown(i) /\ OnlyDefs(t.boxes, next.boxes, i) /\ next.from = t.from
                  /\ order = "plain" => next.boxes = t.boxes
               \/ /\ TurnsUp(i) \/ TurnsDown(i)
                  /\ b.at \in t.from..(i - 1)
                  /\ \/ /\ OnlyDefs(t.boxes, next.boxes, i)
                        /\ \E k \in DOMAIN next.boxes :
                             IsDef(next.boxes[k]) /\ next.boxes[k].at = b.at /\ next.boxes[k].price = b.price
                        /\ order = "plain" => next.boxes = t.boxes
                     \/ \E list : /\ OnlyDefs(t.boxes, list, i) /\ next.boxes = Append(list, b)
                                  /\ order = "plain" => list = t.boxes
                                  /\ NewBox(order, t, i) /\ next.from = Boxes!CalculateExposition(b)
<1> DEFINE old == t.boxes
           next == Track(order, t, i)
           new == next.boxes
           before == BeforeTurn(order, t, i)
           turned == Turned(before, t.from, i)
           low == Boxes!FindLowestPrice(t.from, i)
           high == Boxes!FindHighestPrice(t.from, i)
           b == LegBox(t.from, i)
           Replaced == /\ OnlyDefs(old, new, i)
                       /\ \E k \in DOMAIN new : IsDef(new[k]) /\ new[k].at = b.at /\ new[k].price = b.price
                       /\ order = "plain" => new = old
           Appended == \E list : /\ OnlyDefs(old, list, i) /\ new = Append(list, b)
                                 /\ order = "plain" => list = old
                                 /\ NewBox(order, t, i) /\ next.from = Boxes!CalculateExposition(b)
<1>1. /\ i \in Nat /\ i \in 1..Last /\ TrackOK(t, i) /\ i \notin 0..(i - 1)
      /\ Listed(old, i) /\ t.from \in Nat /\ DOMAIN t = {"boxes", "from", "defs"} /\ t.from < i
  <2>1. i \in Nat /\ i - 1 \in Nat /\ (i - 1) + 1 = i /\ i \in 1..Last /\ i \notin 0..(i - 1)
    BY DirectedFacts
  <2>2. TrackOK(t, i)
    <3> DEFINE n == i - 1
    <3>1. n \in Nat /\ TrackOK(t, n) /\ n + 1 = i
      BY <2>1
    <3> HIDE DEF n
    <3>2. TrackOK(t, n + 1)
      BY <3>1, TrackLater
    <3> QED BY <3>1, <3>2
  <2>3. t.from \in Nat
    BY DEF TrackOK
  <2>4. t.from < i
    BY <2>1, <2>3
  <2> QED BY <2>1, <2>2, <2>4 DEF TrackOK
<1>2. /\ OnlyDefs(old, before, i)
      /\ Grown(before, turned, i)
      /\ OnlyDefs(turned, new, i)
      /\ new = AfterTurn(order, turned, t, i)
      /\ order = "plain" => before = old /\ new = turned
      /\ ~(C(i - 1).key > 0) => before = old /\ new = turned
      /\ turned[Len(turned)].type # "support" => new = turned
      /\ NewBox(order, t, i) <=>
           Len(IF order = "engine" THEN new ELSE turned) > Len(old)
  BY <1>1, CandleAdds
<1>3. \/ /\ C(i - 1).key = C(i).key /\ ~TurnsUp(i) /\ ~TurnsDown(i) /\ turned = before
      \/ /\ C(i - 1).key # C(i).key /\ TurnsDown(i) /\ ~TurnsUp(i)
         /\ turned = (IF high >= 0 THEN Boxes!AddHighBox(before, high, i) ELSE before)
      \/ /\ C(i - 1).key # C(i).key /\ TurnsUp(i) /\ ~TurnsDown(i) /\ ~(C(i - 1).key > 0)
         /\ turned = (IF low >= 0 THEN Boxes!AddLowBox(before, low, i) ELSE before)
  <2> HIDE DEF before
  <2> QED BY <1>1, TurnIs
<1>4. next.from = IF C(i - 1).key # C(i).key /\ new # << >>
                  THEN Boxes!CalculateExposition(new[Len(new)]) ELSE t.from
  BY <1>1, TrackIs
<1>5. high \in t.from..(i - 1) /\ low \in t.from..(i - 1) /\ high >= 0 /\ low >= 0
  BY <1>1, ExtremesAre
<1>6. Listed(before, i) /\ Listed(turned, i) /\ Listed(new, i)
  BY <1>2 DEF OnlyDefs, Grown
<1>7. Trend(before) = Trend(old)
  BY <1>1, <1>2, TrendOfDefs
<1> HIDE DEF new, before, turned
\* A last box at the extreme is no turning point: it is a DefBox.
<1>8. ASSUME before # << >>, before[Len(before)].at >= t.from
      PROVE  Len(before) \in DOMAIN before /\ IsDef(before[Len(before)])
  <2>1. DOMAIN before = 1..Len(before) /\ Len(before) \in Nat
    BY <1>6, ListedFacts
  <2>2. Len(before) # 0
    BY <1>6, <1>8, EmptySeq DEF Listed, Sequence
  <2>3. Len(before) \in DOMAIN before
    BY <2>1, <2>2
  <2>4. before[Len(before)].at \in Int
    BY <1>6, <2>3 DEF Listed
  <2>5. ASSUME ~IsDef(before[Len(before)]) PROVE FALSE
    <3>1. Point(before[Len(before)], before[Len(before)].curve) \in Trend(old)
      BY <1>7, <2>3, <2>5 DEF Trend
    <3>2. before[Len(before)].at < t.from
      BY <3>1 DEF Point
    <3> QED BY <1>1, <1>8, <2>4, <3>2
  <2> QED BY <2>3, <2>5
\* A box that is appended is the last one.
<1>9. ASSUME turned = Append(before, b), new = turned, C(i - 1).key # C(i).key
      PROVE  Appended
  <2>1. Len(new) = Len(before) + 1 /\ new[Len(before) + 1] = b /\ Len(before) \in Nat
    BY <1>6, <1>9, AppendAny DEF Listed
  <2>2. new # << >> /\ new[Len(new)] = b
    <3>1. Len(new) # 0
      BY <2>1
    <3> QED BY <2>1, <3>1, EmptySeq
  <2>3. Len(old) <= Len(before) /\ Len(old) \in Nat
    BY <1>1, <1>2, ListedFacts DEF OnlyDefs, Grown
  <2>4. Len(new) > Len(old)
    BY <2>1, <2>3
  <2> HIDE DEF b
  <2>5. NewBox(order, t, i) /\ next.from = Boxes!CalculateExposition(b)
    BY <1>2, <1>4, <1>9, <2>2, <2>4
  <2> QED BY <1>2, <1>9, <2>5
<1>10. CASE ~TurnsUp(i) /\ ~TurnsDown(i)
  <2>1. C(i - 1).key = C(i).key /\ turned = before
    BY <1>3, <1>10
  <2>2. OnlyDefs(old, new, i)
    BY <1>1, <1>2, <2>1, OnlyDefsOn
  <2> QED BY <1>2, <1>4, <1>10, <2>1, <2>2 DEF new
<1>11. CASE TurnsDown(i)
  <2>1. C(i - 1).key # C(i).key /\ turned = Boxes!AddHighBox(before, high, i)
    BY <1>3, <1>5, <1>11
  <2>2. b = Boxes!Box("box", "resistance", high, candles[high].high, i, << >>)
    BY <1>11 DEF LegBox
  <2>3. b.at = high /\ b.price = candles[high].high /\ b.type = "resistance"
    BY <2>2 DEF Boxes!Box
  <2> HIDE DEF b, high
  <2>4. CASE Boxes!LastIs(before, {"box", "def"}, high, candles[high].high)
    <3>1. /\ before # << >> /\ before[Len(before)].at = high /\ before[Len(before)].price = candles[high].high
          /\ turned = before
      BY <2>1, <2>4 DEF Boxes!LastIs, Boxes!LastOf, Boxes!AddHighBox
    <3>2. high >= t.from
      BY <1>1, <1>5
    <3>3. Len(before) \in DOMAIN before /\ IsDef(before[Len(before)])
      BY <1>8, <3>1, <3>2
    <3>4. OnlyDefs(before, new, i)
      BY <1>2, <3>1
    <3>5. /\ Len(before) \in DOMAIN new /\ IsDef(new[Len(before)])
          /\ new[Len(before)].at = b.at /\ new[Len(before)].price = b.price
      <4>1. /\ DOMAIN before = 1..Len(before) /\ DOMAIN new = 1..Len(new)
            /\ Len(before) \in Nat /\ Len(new) \in Nat /\ Len(before) <= Len(new)
        BY <1>6, <3>4, ListedFacts DEF OnlyDefs, Grown
      <4>2. Len(before) \in 1..Len(before) /\ Len(before) \in 1..Len(new)
        BY <3>3, <4>1
      <4>3. SameBox(before[Len(before)], new[Len(before)])
        BY <3>4, <4>2 DEF OnlyDefs, Grown
      <4> QED BY <2>3, <3>1, <3>3, <4>1, <4>2, <4>3 DEF SameBox
    <3>6. OnlyDefs(old, new, i)
      BY <1>1, <1>2, <3>4, OnlyDefsOn
    <3>7. Replaced
      BY <1>2, <3>1, <3>5, <3>6
    <3> QED BY <1>5, <1>11, <2>3, <3>7 DEF new, b
  <2>5. CASE ~Boxes!LastIs(before, {"box", "def"}, high, candles[high].high)
    <3>1. turned = Append(before, b)
      BY <2>1, <2>2, <2>5 DEF Boxes!AddHighBox
    <3>2. turned[Len(turned)] = b
      BY <1>6, <3>1, AppendAny DEF Listed
    <3>3. new = turned
      BY <1>2, <2>3, <3>2
    <3>4. Appended
      BY <1>9, <2>1, <3>1, <3>3
    <3> QED BY <1>5, <1>11, <2>3, <3>4 DEF new, b
  <2> QED BY <2>4, <2>5
<1>12. CASE TurnsUp(i)
  <2>1. C(i - 1).key # C(i).key /\ ~TurnsDown(i) /\ new = turned /\ turned = Boxes!AddLowBox(before, low, i)
    BY <1>2, <1>3, <1>5, <1>12
  <2>2. b = Boxes!Box("box", "support", low, candles[low].low, i, << >>)
    BY <2>1 DEF LegBox
  <2>3. b.at = low
    BY <2>2 DEF Boxes!Box
  <2> HIDE DEF b, low
  <2>4. ~Boxes!LastIs(before, {"box"}, low, candles[low].low)
    <3> SUFFICES ASSUME Boxes!LastIs(before, {"box"}, low, candles[low].low) PROVE FALSE
      OBVIOUS
    <3>1. before # << >> /\ before[Len(before)].at = low /\ before[Len(before)].kind = "box"
      BY DEF Boxes!LastIs, Boxes!LastOf
    <3>2. low >= t.from
      BY <1>1, <1>5
    <3> QED BY <1>8, <3>1, <3>2 DEF IsDef
  <2>5. turned = Append(before, b)
    BY <2>1, <2>2, <2>4 DEF Boxes!AddLowBox
  <2>6. Appended
    BY <1>9, <2>1, <2>5
  <2> QED BY <1>5, <1>12, <2>3, <2>6 DEF new, b
<1> QED BY <1>10, <1>11, <1>12

\* A DefBox stands for a turning point.
Stands(plain, list) ==
    \E p \in Trend(plain) \ Trend(list) :
      \E k \in DOMAIN list : IsDef(list[k]) /\ list[k].at = p.at /\ list[k].price = p.price

LEMMA StandsStay ==
    ASSUME NEW i \in Nat, NEW plain, NEW list, NEW plain2, NEW list2,
           Listed(plain, i), Listed(list, i), \A k \in DOMAIN plain : plain[k].curve # i,
           Grown(plain, plain2, i), Grown(list, list2, i), Stands(plain, list)
    PROVE  Stands(plain2, list2)
<1>1. PICK p \in Trend(plain) \ Trend(list), k \in DOMAIN list :
        IsDef(list[k]) /\ list[k].at = p.at /\ list[k].price = p.price
  BY DEF Stands
<1>2. p.rank # i
  BY <1>1 DEF Trend, Point
<1>3. p \in Trend(plain2) \ Trend(list2)
  BY <1>1, <1>2, TrendGrows
<1>4. k \in DOMAIN list2 /\ IsDef(list2[k]) /\ list2[k].at = p.at /\ list2[k].price = p.price
  <2>1. /\ DOMAIN list = 1..Len(list) /\ DOMAIN list2 = 1..Len(list2) /\ Len(list) \in Nat /\ Len(list2) \in Nat
        /\ Len(list) <= Len(list2)
    BY ListedFacts DEF Grown
  <2> QED BY <1>1, <2>1 DEF Grown, SameBox
<1> QED BY <1>3, <1>4 DEF Stands

\* The loop without DefBoxes: its turning points lie before the leg.
PlainOK(t, i) ==
    /\ TrackOK(t, i)
    /\ \A k \in DOMAIN t.boxes : ~IsDef(t.boxes[k])
    /\ t.from <= i
    /\ \A p \in Trend(t.boxes) : p.at < t.from

LEMMA TrackOn ==
    ASSUME Directed(candles), NEW i \in 6..Last, NEW t, TrackOK(t, i - 1)
    PROVE  /\ i \in Nat /\ TrackOK(t, i) /\ Listed(t.boxes, i)
           /\ \A k \in DOMAIN t.boxes : t.boxes[k].curve # i
<1>1. i \in Nat /\ i - 1 \in Nat /\ (i - 1) + 1 = i /\ i \notin 0..(i - 1)
  BY DirectedFacts
<1>2. TrackOK(t, i)
  <2> DEFINE n == i - 1
  <2>1. n \in Nat /\ TrackOK(t, n) /\ n + 1 = i
    BY <1>1
  <2> HIDE DEF n
  <2>2. TrackOK(t, n + 1)
    BY <2>1, TrackLater
  <2> QED BY <2>1, <2>2
<1> QED BY <1>1, <1>2 DEF TrackOK, Listed

\* What a turn gives in the loop without DefBoxes.
LEMMA PlainLeg ==
    ASSUME Directed(candles), NEW i \in 6..Last, NEW t, PlainOK(t, i - 1)
    PROVE  LET next == Track("plain", t, i)
               b == LegBox(t.from, i)
           IN  /\ \/ /\ ~TurnsUp(i) /\ ~TurnsDown(i)
                     /\ next.boxes = t.boxes /\ next.from = t.from
                  \/ /\ TurnsUp(i) \/ TurnsDown(i)
                     /\ next.boxes = Append(t.boxes, b) /\ next.from = Boxes!CalculateExposition(b)
                     /\ NewBox("plain", t, i)
               /\ PlainOK(next, i)
<1> DEFINE next == Track("plain", t, i)
           b == LegBox(t.from, i)
<1>1. /\ i \in Nat /\ TrackOK(t, i) /\ Listed(t.boxes, i) /\ TrackOK(t, i - 1) /\ t.from \in Nat
      /\ \A k \in DOMAIN t.boxes : ~IsDef(t.boxes[k])
      /\ t.from <= i - 1
      /\ \A p \in Trend(t.boxes) : p.at < t.from
  BY TrackOn DEF PlainOK, TrackOK
<1>2. TrackOK(next, i)
  BY <1>1, TrackGrows DEF Orders
<1>3. \/ /\ ~TurnsUp(i) /\ ~TurnsDown(i) /\ next.from = t.from /\ next.boxes = t.boxes
      \/ /\ TurnsUp(i) \/ TurnsDown(i)
         /\ b.at \in t.from..(i - 1)
         /\ next.boxes = Append(t.boxes, b)
         /\ NewBox("plain", t, i) /\ next.from = Boxes!CalculateExposition(b)
  <2>1. \/ /\ ~TurnsUp(i) /\ ~TurnsDown(i) /\ next.from = t.from /\ next.boxes = t.boxes
        \/ /\ TurnsUp(i) \/ TurnsDown(i)
           /\ b.at \in t.from..(i - 1)
           /\ \/ /\ \E k \in DOMAIN next.boxes : IsDef(next.boxes[k])
                 /\ next.boxes = t.boxes
              \/ \E list : /\ next.boxes = Append(list, b) /\ list = t.boxes
                           /\ NewBox("plain", t, i) /\ next.from = Boxes!CalculateExposition(b)
    BY <1>1, LegEnds DEF Orders
  <2> QED BY <1>1, <2>1
<1>4. b.curve = i /\ ~IsDef(b)
  BY DEF LegBox, Boxes!Box, IsDef
<1> HIDE DEF next, b
<1>5. CASE ~TurnsUp(i) /\ ~TurnsDown(i)
  <2>1. next.from <= i
    BY <1>1, <1>3, <1>5
  <2>2. PlainOK(next, i)
    BY <1>1, <1>2, <1>3, <1>5, <2>1 DEF PlainOK
  <2> QED BY <1>3, <1>5, <2>2 DEF next, b
<1>6. CASE TurnsUp(i) \/ TurnsDown(i)
  <2>1. b.at \in t.from..(i - 1) /\ next.boxes = Append(t.boxes, b) /\ next.from = Boxes!CalculateExposition(b)
    BY <1>3, <1>6
  <2>2. b.at \in Nat /\ b.at < next.from /\ next.from <= i /\ next.from \in Nat
    <3>1. b.at \in Nat /\ b.at < i
      BY <1>1, <2>1
    <3>2. next.from = IF b.at + 1 >= i - 3 THEN b.at + 1 ELSE i - 2
      BY <1>4, <2>1 DEF Boxes!CalculateExposition
    <3> QED BY <1>1, <3>1, <3>2
  <2>3. Trend(next.boxes) = Trend(t.boxes) \cup {Point(b, i)}
    BY <1>1, <1>4, <2>1, TrendOfTurn
  <2>4. \A p \in Trend(next.boxes) : p.at < next.from
    <3> TAKE p \in Trend(next.boxes)
    <3>1. CASE p = Point(b, i)
      BY <2>2, <3>1 DEF Point
    <3>2. CASE p \in Trend(t.boxes)
      <4>1. PICK k \in DOMAIN t.boxes : p = Point(t.boxes[k], t.boxes[k].curve)
        BY <3>2 DEF Trend
      <4>2. p.at \in Int
        BY <1>1, <4>1 DEF Listed, Point
      <4>3. p.at < t.from /\ t.from <= b.at
        BY <1>1, <2>1, <3>2
      <4> QED BY <1>1, <2>2, <4>2, <4>3
    <3> QED BY <2>3, <3>1, <3>2
  <2>5. \A k \in DOMAIN next.boxes : ~IsDef(next.boxes[k])
    <3>1. /\ Len(t.boxes) \in Nat /\ DOMAIN t.boxes = 1..Len(t.boxes)
          /\ DOMAIN next.boxes = 1..(Len(t.boxes) + 1)
          /\ \A k \in 1..Len(t.boxes) : next.boxes[k] = t.boxes[k]
          /\ next.boxes[Len(t.boxes) + 1] = b
      BY <1>1, <2>1, AppendAny DEF Listed
    <3>2. \A k \in DOMAIN next.boxes : k = Len(t.boxes) + 1 \/ k \in 1..Len(t.boxes)
      BY <3>1
    <3> QED BY <1>1, <1>4, <3>1, <3>2
  <2>6. PlainOK(next, i)
    BY <1>2, <2>2, <2>4, <2>5 DEF PlainOK
  <2> QED BY <1>3, <1>6, <2>6 DEF next, b
<1> QED BY <1>5, <1>6

\* The turning points and the legs of two loops.
SameLegs(s, t) == Trend(s.boxes) = Trend(t.boxes) /\ s.from = t.from

\* They stay alike until a DefBox stands for a turning point.
LEMMA LegsAlike ==
    ASSUME Directed(candles), NEW order \in Orders, NEW i \in 6..Last, NEW s, NEW t,
           PlainOK(s, i - 1), TrackOK(t, i - 1), SameLegs(t, s)
    PROVE  \/ Stands(Track("plain", s, i).boxes, Track(order, t, i).boxes)
           \/ /\ SameLegs(Track(order, t, i), Track("plain", s, i))
              /\ TurnsUp(i) \/ TurnsDown(i) => NewBox("plain", s, i) /\ NewBox(order, t, i)
<1> DEFINE plain == Track("plain", s, i)
           next == Track(order, t, i)
           b == LegBox(s.from, i)
<1>1. /\ i \in Nat /\ Listed(t.boxes, i) /\ Listed(s.boxes, i)
      /\ \A k \in DOMAIN t.boxes : t.boxes[k].curve # i
      /\ t.from = s.from /\ Trend(t.boxes) = Trend(s.boxes)
      /\ t.from <= i - 1 /\ \A p \in Trend(t.boxes) : p.at < t.from
  BY TrackOn DEF PlainOK, SameLegs
<1>2. \/ /\ ~TurnsUp(i) /\ ~TurnsDown(i)
         /\ plain.boxes = s.boxes /\ plain.from = s.from
      \/ /\ TurnsUp(i) \/ TurnsDown(i)
         /\ plain.boxes = Append(s.boxes, b) /\ plain.from = Boxes!CalculateExposition(b)
         /\ NewBox("plain", s, i)
  BY PlainLeg
<1>3. \/ /\ ~TurnsUp(i) /\ ~TurnsDown(i) /\ OnlyDefs(t.boxes, next.boxes, i) /\ next.from = t.from
      \/ /\ TurnsUp(i) \/ TurnsDown(i)
         /\ \/ /\ OnlyDefs(t.boxes, next.boxes, i)
               /\ \E k \in DOMAIN next.boxes :
                    IsDef(next.boxes[k]) /\ next.boxes[k].at = b.at /\ next.boxes[k].price = b.price
            \/ \E list : /\ OnlyDefs(t.boxes, list, i) /\ next.boxes = Append(list, b)
                         /\ NewBox(order, t, i) /\ next.from = Boxes!CalculateExposition(b)
  <2>1. b = LegBox(t.from, i)
    BY <1>1
  <2> HIDE DEF b
  <2> QED BY <1>1, <2>1, LegEnds
<1>4. b.curve = i /\ ~IsDef(b)
  BY DEF LegBox, Boxes!Box, IsDef
<1> HIDE DEF plain, next, b
<1>5. CASE ~TurnsUp(i) /\ ~TurnsDown(i)
  <2>1. Trend(next.boxes) = Trend(t.boxes)
    BY <1>1, <1>3, <1>5, TrendOfDefs
  <2>2. SameLegs(next, plain)
    BY <1>1, <1>2, <1>3, <1>5, <2>1 DEF SameLegs
  <2> QED BY <1>5, <2>2 DEF next, plain
<1>6. ASSUME TurnsUp(i) \/ TurnsDown(i), OnlyDefs(t.boxes, next.boxes, i),
             \E k \in DOMAIN next.boxes :
               IsDef(next.boxes[k]) /\ next.boxes[k].at = b.at /\ next.boxes[k].price = b.price
      PROVE  Stands(plain.boxes, next.boxes)
  <2>1. Point(b, i) \in Trend(plain.boxes)
    BY <1>1, <1>2, <1>4, <1>6, TrendOfTurn
  <2>2. Trend(next.boxes) = Trend(t.boxes)
    BY <1>1, <1>6, TrendOfDefs
  <2>3. Point(b, i).rank = i /\ Point(b, i).at = b.at /\ Point(b, i).price = b.price
    BY DEF Point
  <2>4. \A p \in Trend(t.boxes) : p.rank # i
    BY <1>1 DEF Trend, Point
  <2> QED BY <1>6, <2>1, <2>2, <2>3, <2>4 DEF Stands
<1>7. ASSUME TurnsUp(i) \/ TurnsDown(i), NEW list, OnlyDefs(t.boxes, list, i), next.boxes = Append(list, b),
             NewBox(order, t, i), next.from = Boxes!CalculateExposition(b)
      PROVE  SameLegs(next, plain) /\ NewBox("plain", s, i)
  <2>1. Trend(list) = Trend(t.boxes) /\ Listed(list, i)
    BY <1>1, <1>7, TrendOfDefs DEF OnlyDefs, Grown
  <2>2. Trend(next.boxes) = Trend(list) \cup {Point(b, b.curve)}
    BY <1>4, <1>7, <2>1, TrendOfTurn
  <2>3. Trend(plain.boxes) = Trend(s.boxes) \cup {Point(b, b.curve)} /\ NewBox("plain", s, i)
        /\ plain.from = Boxes!CalculateExposition(b)
    BY <1>1, <1>2, <1>4, <1>7, TrendOfTurn
  <2> QED BY <1>1, <1>7, <2>1, <2>2, <2>3 DEF SameLegs
<1> QED BY <1>3, <1>5, <1>6, <1>7 DEF next, plain

-----------------------------------------------------------------------------
(* The arms. *)

\* The analyzers and the triggers see the turning points only.
LEMMA RearmedAlike ==
    ASSUME NEW i \in 6..Last, C(i).ma20 \in Int, C(i).close \in Int,
           NEW order \in Orders, NEW pattern \in Armed, NEW a, NEW list, NEW plain, NEW more, NEW new,
           Trend(list) = Trend(plain), more \in BOOLEAN, new \in BOOLEAN,
           TurnsUp(i) \/ TurnsDown(i) => more /\ new
    PROVE  Rearmed(order, pattern, a, list, i, more) = Rearmed("plain", pattern, a, plain, i, new)
<1>1. FindBBMTopBoxPattern(list, i) = FindBBMTopBoxPattern(plain, i)
  BY DEF FindBBMTopBoxPattern
<1>2. FindHNSPattern(list, i) = FindHNSPattern(plain, i)
  BY DEF FindHNSPattern
<1>3. FindMA20PullbackPattern(list, i) = FindMA20PullbackPattern(plain, i)
  BY DEF FindMA20PullbackPattern
<1> DEFINE m == FindBBMTopBoxPattern(plain, i)
           h == FindHNSPattern(plain, i)
           p == FindMA20PullbackPattern(plain, i)
           Above == C(i).ma20 > 0 /\ C(i).close > C(i).ma20
           Result == CASE pattern = "mtop" ->
                            IF TurnsDown(i) /\ Above /\ m # {} THEN {Arm(i, x) : x \in m} ELSE Unexpired(a, i)
                       [] pattern = "hns" ->
                            IF TurnsDown(i) /\ h # {} THEN {Arm(i, x) : x \in h} ELSE Unexpired(a, i)
                       [] pattern = "pullback" ->
                            IF TurnsUp(i) /\ p # {} THEN {Arm(i, x) : x \in p} ELSE Unexpired(a, i)
<1>4. Above <=> ~(C(i).ma20 <= 0 \/ C(i).close <= C(i).ma20)
  OBVIOUS
<1>5. /\ TurnsDown(i) <=> C(i - 1).key > 0 /\ C(i).key < 0
      /\ TurnsUp(i) <=> C(i - 1).key < 0 /\ C(i).key > 0
  BY DEF TurnsDown, TurnsUp
<1> HIDE DEF m, h, p
\* The analyzer.
<1>6. ASSUME NEW l, NEW n \in BOOLEAN, TurnsUp(i) \/ TurnsDown(i) => n,
             FindBBMTopBoxPattern(l, i) = m, FindHNSPattern(l, i) = h, FindMA20PullbackPattern(l, i) = p
      PROVE  Analyze(pattern, a, l, i, n) = Result
  <2>1. CASE pattern = "mtop"
    <3>1. Analyze(pattern, a, l, i, n) = MPatternAnalyze(a, l, i, n)
      BY <2>1 DEF Analyze
    <3>2. MPatternAnalyze(a, l, i, n)
            = IF TurnsDown(i) /\ n /\ Above /\ m # {} THEN {Arm(i, x) : x \in m} ELSE Unexpired(a, i)
      BY <1>5, <1>6 DEF MPatternAnalyze
    <3> HIDE DEF Above
    <3>3. Result = IF TurnsDown(i) /\ Above /\ m # {} THEN {Arm(i, x) : x \in m} ELSE Unexpired(a, i)
      BY <2>1
    <3> HIDE DEF Result
    <3> QED BY <1>6, <3>1, <3>2, <3>3
  <2>2. CASE pattern = "hns"
    <3>1. Analyze(pattern, a, l, i, n) = HNSAnalyze(a, l, i, n)
      BY <2>2 DEF Analyze
    <3>2. HNSAnalyze(a, l, i, n)
            = IF TurnsDown(i) /\ n /\ h # {} THEN {Arm(i, x) : x \in h} ELSE Unexpired(a, i)
      BY <1>5, <1>6 DEF HNSAnalyze
    <3>3. Result = IF TurnsDown(i) /\ h # {} THEN {Arm(i, x) : x \in h} ELSE Unexpired(a, i)
      BY <2>2
    <3> HIDE DEF Result
    <3> QED BY <1>6, <3>1, <3>2, <3>3
  <2>3. CASE pattern = "pullback"
    <3>1. Analyze(pattern, a, l, i, n) = PullbackAnalyze(a, l, i, n)
      BY <2>3 DEF Analyze
    <3>2. PullbackAnalyze(a, l, i, n)
            = IF TurnsUp(i) /\ n /\ p # {} THEN {Arm(i, x) : x \in p} ELSE Unexpired(a, i)
      BY <1>5, <1>6 DEF PullbackAnalyze
    <3>3. Result = IF TurnsUp(i) /\ p # {} THEN {Arm(i, x) : x \in p} ELSE Unexpired(a, i)
      BY <2>3
    <3> HIDE DEF Result
    <3> QED BY <1>6, <3>1, <3>2, <3>3
  <2> QED BY <2>1, <2>2, <2>3 DEF Armed
\* The trigger.
<1>7. RunArmedTrigger(pattern, a, list, i, more) = Result
  <2> DEFINE found == CheckArm(pattern, list, i, more)
  <2>1. RunArmedTrigger(pattern, a, list, i, more)
          = IF found = {} THEN Unexpired(a, i) ELSE {Arm(i, x) : x \in found}
    BY DEF RunArmedTrigger
  <2>2. CASE pattern = "mtop"
    <3>1. found = IF TurnsDown(i) /\ Above THEN m ELSE {}
      <4>1. found = ArmMTopCollapse(list, i, more)
        BY <2>2 DEF CheckArm
      <4>2. ArmMTopCollapse(list, i, more)
              = IF TurnsDown(i) /\ more /\ ~(C(i).ma20 <= 0 \/ C(i).close <= C(i).ma20) THEN m ELSE {}
        BY <1>1 DEF ArmMTopCollapse, m
      <4> HIDE DEF Above, found
      <4> QED BY <1>4, <4>1, <4>2
    <3> HIDE DEF Above, found
    <3>2. Result = IF TurnsDown(i) /\ Above /\ m # {} THEN {Arm(i, x) : x \in m} ELSE Unexpired(a, i)
      BY <2>2
    <3> HIDE DEF Result
    <3>3. CASE TurnsDown(i) /\ Above
      BY <2>1, <3>1, <3>2, <3>3
    <3>4. CASE ~(TurnsDown(i) /\ Above)
      BY <2>1, <3>1, <3>2, <3>4
    <3> QED BY <3>3, <3>4
  <2>3. CASE pattern = "hns"
    <3>1. found = IF TurnsDown(i) THEN h ELSE {}
      <4>1. found = ArmHNSNecklineBreak(list, i, more)
        BY <2>3 DEF CheckArm
      <4> QED BY <1>2, <4>1 DEF ArmHNSNecklineBreak, h
    <3> HIDE DEF found
    <3>2. Result = IF TurnsDown(i) /\ h # {} THEN {Arm(i, x) : x \in h} ELSE Unexpired(a, i)
      BY <2>3
    <3> HIDE DEF Result
    <3>3. CASE TurnsDown(i)
      BY <2>1, <3>1, <3>2, <3>3
    <3>4. CASE ~TurnsDown(i)
      BY <2>1, <3>1, <3>2, <3>4
    <3> QED BY <3>3, <3>4
  <2>4. CASE pattern = "pullback"
    <3>1. found = IF TurnsUp(i) THEN p ELSE {}
      <4>1. found = ArmMA20PullbackBreakout(list, i, more)
        BY <2>4 DEF CheckArm
      <4> QED BY <1>3, <4>1 DEF ArmMA20PullbackBreakout, p
    <3> HIDE DEF found
    <3>2. Result = IF TurnsUp(i) /\ p # {} THEN {Arm(i, x) : x \in p} ELSE Unexpired(a, i)
      BY <2>4
    <3> HIDE DEF Result
    <3>3. CASE TurnsUp(i)
      BY <2>1, <3>1, <3>2, <3>3
    <3>4. CASE ~TurnsUp(i)
      BY <2>1, <3>1, <3>2, <3>4
    <3> QED BY <3>3, <3>4
  <2> QED BY <2>2, <2>3, <2>4 DEF Armed
<1> HIDE DEF Result
<1>8. Analyze(pattern, a, list, i, more) = Result /\ Analyze(pattern, a, plain, i, new) = Result
  BY <1>1, <1>2, <1>3, <1>6 DEF m, h, p
<1> QED BY <1>7, <1>8 DEF Rearmed

-----------------------------------------------------------------------------
(* The three loops along the tape. *)

\* What loop has told of a W at candle j.
WArms(loop, j) == {f.arm : f \in {g \in fires : g.loop = loop /\ g.pattern = "w" /\ g.pos = j}}

\* A loop has done what the plain one has.
AsPlain(o) ==
    /\ SameLegs(track[o], track["plain"])
    /\ \A p \in Armed : arms[o][p] = arms["plain"][p] /\ Signals(o, p) = Signals("plain", p)

ArmedInv ==
    lab = "armed" =>
      /\ candles \in PatternTapes /\ pos \in 5..Last
      /\ \A o \in Orders : TrackOK(track[o], pos)
      /\ PlainOK(track["plain"], pos)
      /\ \A f \in fires : f.pos \in 6..pos
      /\ \A o \in {"pattern", "engine"} : \A j \in 6..pos : ToldAt(track[o].boxes, j, WArms(o, j))
      /\ \A o \in Orders : Stands(track["plain"].boxes, track[o].boxes) \/ AsPlain(o)

LEMMA PatternTapeFacts ==
    ASSUME candles \in PatternTapes
    PROVE  /\ Directed(candles) /\ Last \in Nat /\ Last >= 5
           /\ \A j \in 5..Last : C(j).ma20 \in Int /\ C(j).close \in Int
<1>1. Directed(candles) /\ \A j \in DOMAIN candles : candles[j].ma20 \in Int
  BY PatternAssumption
<1>2. Last \in Nat /\ Last >= 5 /\ DOMAIN candles = 0..Last /\ \A j \in 0..Last : C(j).close \in Int
  BY <1>1, DirectedFacts
<1>3. \A j \in 5..Last : j \in 0..Last
  BY <1>2
<1> QED BY <1>1, <1>2, <1>3 DEF C

LEMMA ArmedInvInit == Init => ArmedInv
<1> SUFFICES ASSUME Init, lab = "armed" PROVE ArmedInv
  BY DEF ArmedInv
<1>1. /\ candles \in PatternTapes /\ pos = 5 /\ fires = {}
      /\ track = [o \in Orders |-> EmptyTrack]
      /\ arms = [o \in Orders |-> [p \in Armed |-> {}]]
  BY DEF Init, ArmedInit, LoopStart, Boxes!First
<1>2. pos \in 5..Last /\ pos \in Nat /\ 6..pos = {}
  BY <1>1, PatternTapeFacts
<1>3. \A o \in Orders : track[o] = EmptyTrack /\ \A p \in Armed : arms[o][p] = {}
  BY <1>1
<1>4. "plain" \in Orders
  BY DEF Orders
<1>5. PlainOK(EmptyTrack, pos)
  <2>1. TrackOK(EmptyTrack, pos) /\ EmptyTrack.boxes = << >> /\ EmptyTrack.from = 0
    BY EmptyTrackOK DEF EmptyTrack
  <2>2. DOMAIN << >> = {}
    BY EmptySeq, LenProperties
  <2>3. Trend(<< >>) = {}
    BY <2>2 DEF Trend
  <2> QED BY <1>2, <2>1, <2>2, <2>3 DEF PlainOK
<1>6. \A o \in Orders : AsPlain(o)
  BY <1>1, <1>3, <1>4 DEF AsPlain, SameLegs, Signals
<1>7. \A o \in Orders : TrackOK(track[o], pos)
  BY <1>3, <1>5 DEF PlainOK
<1> QED BY <1>1, <1>2, <1>3, <1>4, <1>5, <1>6, <1>7 DEF ArmedInv

\* One candle of the three loops.
LEMMA ArmedInvMoves ==
    ASSUME ArmedInv, lab = "armed", Next
    PROVE  ArmedInv'
<1> DEFINE i == pos + 1
           next == [o \in Orders |-> Track(o, track[o], i)]
           new == [o \in Orders |-> NewBox(o, track[o], i)]
           held == [o \in Orders |-> [p \in Armed |->
                      Rearmed(o, p, arms[o][p], next[o].boxes, i, new[o])]]
           FiredArms == ArmFires(held, i)
           FiredWs == WFires(next, new, i)
           Shots(o, p) == {[pos |-> i, arm |-> x] : x \in FiresNow(held[o][p], p, i)}
<1>1. /\ candles \in PatternTapes /\ pos \in 5..Last
      /\ \A o \in Orders : TrackOK(track[o], pos)
      /\ PlainOK(track["plain"], pos)
      /\ \A f \in fires : f.pos \in 6..pos
      /\ \A o \in {"pattern", "engine"} : \A j \in 6..pos : ToldAt(track[o].boxes, j, WArms(o, j))
      /\ \A o \in Orders : Stands(track["plain"].boxes, track[o].boxes) \/ AsPlain(o)
  BY DEF ArmedInv
<1>2. /\ lab' = lab /\ pos < Last /\ pos' = i /\ candles' = candles
      /\ track' = next
      /\ arms' = [o \in Orders |-> [p \in Armed |-> held[o][p] \ FiresNow(held[o][p], p, i)]]
      /\ fires' = fires \cup FiredArms \cup FiredWs
  <2>1. ArmedStep /\ lab' = lab
    BY DEF Next
  <2>2. pos < Last /\ pos' = i /\ candles' = candles
    BY <2>1 DEF ArmedStep
  <2>3. track' = next
    BY <2>1, Zenon DEF ArmedStep
  <2>4. arms' = [o \in Orders |-> [p \in Armed |-> held[o][p] \ FiresNow(held[o][p], p, i)]]
    BY <2>1, Zenon DEF ArmedStep
  <2>5. fires' = fires \cup FiredArms \cup FiredWs
    BY <2>1, Zenon DEF ArmedStep
  <2> HIDE DEF next, held, new
  <2> QED BY <2>1, <2>2, <2>3, <2>4, <2>5
<1>3. /\ pos \in Nat /\ i \in Nat /\ i \in 6..Last /\ i - 1 = pos /\ Directed(candles)
      /\ C(i).ma20 \in Int /\ C(i).close \in Int
  <2>1. Last \in Nat /\ Directed(candles) /\ \A j \in 5..Last : C(j).ma20 \in Int /\ C(j).close \in Int
    BY <1>1, PatternTapeFacts
  <2>2. pos \in Nat /\ i \in Nat /\ i \in 6..Last /\ i \in 5..Last /\ i - 1 = pos
    BY <1>1, <1>2, <2>1
  <2> QED BY <2>1, <2>2
<1>4. "plain" \in Orders /\ "w" \notin Armed
  BY DEF Orders, Armed
<1>5. \A o \in Orders : /\ next[o] = Track(o, track[o], i) /\ new[o] = NewBox(o, track[o], i)
                        /\ \A p \in Armed : held[o][p] = Rearmed(o, p, arms[o][p], next[o].boxes, i, new[o])
  OBVIOUS
<1>6. \A o \in Orders : new[o] \in BOOLEAN
  BY <1>5 DEF NewBox
<1> HIDE DEF next, new, held
<1>7. /\ track' = next
      /\ \A o \in Orders, p \in Armed : arms'[o][p] = held[o][p] \ FiresNow(held[o][p], p, i)
  BY <1>2
\* Every loop has its track, known by the candle before.
<1>8. \A o \in Orders : TrackOK(track[o], i - 1)
  BY <1>1, <1>3
<1>9. \A o \in Orders : /\ TrackOK(track[o], i) /\ TrackOK(next[o], i)
                        /\ Grown(track[o].boxes, next[o].boxes, i)
                        /\ \A k \in DOMAIN track[o].boxes : track[o].boxes[k].curve # i
  <2> TAKE o \in Orders
  <2> HIDE DEF i
  <2>1. TrackOK(track[o], i) /\ \A k \in DOMAIN track[o].boxes : track[o].boxes[k].curve # i
    BY <1>3, <1>8, TrackOn
  <2> QED BY <1>3, <1>5, <2>1, TrackGrows
<1>10. PlainOK(next["plain"], i)
  <2>1. PlainOK(track["plain"], i - 1)
    BY <1>1, <1>3
  <2> HIDE DEF i
  <2> QED BY <1>3, <1>4, <1>5, <2>1, PlainLeg
\* The signals of this candle.
<1>11. \A f \in FiredArms : /\ f.pos = i /\ f.pattern \in Armed
                            /\ \E x \in FiresNow(held[f.loop][f.pattern], f.pattern, i) : f.arm = x
  BY DEF ArmFires, Fire
<1>12. \A f \in FiredWs : f.pos = i /\ f.pattern = "w"
  BY DEF WFires, Fire
<1>13. \A f \in fires' : f.pos \in 6..i
  <2>1. 6..pos \subseteq 6..i /\ i \in 6..i
    BY <1>3
  <2> HIDE DEF i, FiredArms, FiredWs
  <2> QED BY <1>1, <1>2, <1>11, <1>12, <2>1
<1>14. ASSUME NEW o \in Orders, NEW p \in Armed
       PROVE  Signals(o, p)' = Signals(o, p) \cup Shots(o, p)
  <2>1. Signals(o, p)' = {[pos |-> f.pos, arm |-> f.arm] : f \in {g \in fires' : g.loop = o /\ g.pattern = p}}
    BY DEF Signals
  <2>2. ASSUME NEW f \in FiredArms, f.loop = o, f.pattern = p
        PROVE  [pos |-> f.pos, arm |-> f.arm] \in Shots(o, p)
    <3>1. PICK x \in FiresNow(held[o][p], p, i) : f.arm = x
      BY <1>11, <2>2
    <3> QED BY <1>11, <3>1
  <2>3. ASSUME NEW x \in FiresNow(held[o][p], p, i)
        PROVE  \E f \in FiredArms : f.loop = o /\ f.pattern = p /\ [pos |-> f.pos, arm |-> f.arm] = [pos |-> i, arm |-> x]
    <3>1. Fire(o, p, i, x) \in FiredArms
      <4> DEFINE S == {Fire(o, p, i, y) : y \in FiresNow(held[o][p], p, i)}
                 T == {{Fire(q, r, i, y) : y \in FiresNow(held[q][r], r, i)} : q \in Orders, r \in Armed}
      <4>1. Fire(o, p, i, x) \in S
        OBVIOUS
      <4>2. S \in T
        OBVIOUS
      <4>3. FiredArms = UNION T
        BY DEF ArmFires
      <4> HIDE DEF S, T, FiredArms
      <4> QED BY <4>1, <4>2, <4>3
    <3>2. /\ Fire(o, p, i, x).loop = o /\ Fire(o, p, i, x).pattern = p
          /\ Fire(o, p, i, x).pos = i /\ Fire(o, p, i, x).arm = x
      BY DEF Fire
    <3> HIDE DEF FiredArms, i
    <3> QED BY <3>1, <3>2
  <2>4. \A f \in FiredWs : f.pattern # p
    BY <1>4, <1>12
  <2> HIDE DEF FiredArms, FiredWs
  <2>5. ASSUME NEW s \in Signals(o, p)'
        PROVE  s \in Signals(o, p) \cup Shots(o, p)
    <3>1. PICK f \in fires' : f.loop = o /\ f.pattern = p /\ s = [pos |-> f.pos, arm |-> f.arm]
      BY <2>1
    <3>2. CASE f \in fires
      BY <3>1, <3>2 DEF Signals
    <3>3. CASE f \in FiredArms
      BY <2>2, <3>1, <3>3
    <3> QED BY <1>2, <2>4, <3>1, <3>2, <3>3
  <2>6. ASSUME NEW s \in Signals(o, p)
        PROVE  s \in Signals(o, p)'
    BY <1>2, <2>1 DEF Signals
  <2>7. ASSUME NEW s \in Shots(o, p)
        PROVE  s \in Signals(o, p)'
    <3>1. PICK x \in FiresNow(held[o][p], p, i) : s = [pos |-> i, arm |-> x]
      OBVIOUS
    <3>2. PICK f \in FiredArms : f.loop = o /\ f.pattern = p /\ [pos |-> f.pos, arm |-> f.arm] = s
      BY <2>3, <3>1
    <3> QED BY <1>2, <2>1, <3>2
  <2> HIDE DEF Shots
  <2> QED BY <2>5, <2>6, <2>7
\* A W of the candles before stays; the one of this candle is told.
<1>15. ASSUME NEW o \in {"pattern", "engine"}, NEW j \in 6..i, NEW told, told = WArms(o, j)'
       PROVE  ToldAt(next[o].boxes, j, told)
  <2>1. told = {f.arm : f \in {g \in fires' : g.loop = o /\ g.pattern = "w" /\ g.pos = j}}
    BY <1>15 DEF WArms
  <2>2. o \in Orders
    BY DEF Orders
  <2>3. \A f \in FiredArms : f.pattern # "w"
    BY <1>4, <1>11
  <2>4. CASE j # i
    <3>1. j \in 6..pos /\ j \in Nat /\ j < i
      BY <1>3, <2>4
    <3>2. \A f \in FiredWs : f.pos # j
      BY <1>12, <2>4
    <3> HIDE DEF FiredArms, FiredWs, i
    <3>3. told = WArms(o, j)
      BY <1>2, <2>1, <2>3, <3>2 DEF WArms
    <3>4. ToldAt(track[o].boxes, j, WArms(o, j))
      BY <1>1, <3>1
    <3>5. Listed(track[o].boxes, i) /\ Grown(track[o].boxes, next[o].boxes, i)
      BY <1>9, <2>2 DEF TrackOK
    <3> DEFINE old == track[o].boxes
               list == next[o].boxes
    <3>6. ToldAt(old, j, told) /\ Listed(old, i) /\ Grown(old, list, i)
      BY <3>3, <3>4, <3>5
    <3> HIDE DEF old, list
    <3>7. ToldAt(list, j, told)
      BY <1>3, <3>1, <3>6, ToldStays
    <3> QED BY <3>7 DEF list
  <2>5. CASE j = i
    <3> DEFINE ws == WSignals(o, next[o].boxes, i, new[o])
    <3>1. \A f \in fires : f.pos # i
      BY <1>1, <1>3
    <3>2. \A f \in FiredWs : f.loop = o => f.arm \in ws
      BY DEF WFires, Fire
    <3>3. \A x \in ws : Fire(o, "w", i, x) \in FiredWs
      BY <2>2 DEF WFires
    <3>4. \A x : /\ Fire(o, "w", i, x).loop = o /\ Fire(o, "w", i, x).pattern = "w"
                 /\ Fire(o, "w", i, x).pos = i /\ Fire(o, "w", i, x).arm = x
      BY DEF Fire
    <3> HIDE DEF FiredArms, FiredWs, i, ws
    <3>5. told \subseteq ws
      BY <1>2, <2>1, <2>3, <2>5, <3>1, <3>2
    <3>6. ws \subseteq told
      <4> SUFFICES ASSUME NEW x \in ws PROVE x \in told
        OBVIOUS
      <4> DEFINE f == Fire(o, "w", i, x)
      <4>1. f \in fires' /\ f.loop = o /\ f.pattern = "w" /\ f.pos = j /\ f.arm = x
        BY <1>2, <2>5, <3>3, <3>4
      <4> HIDE DEF f
      <4> QED BY <2>1, <4>1
    <3>7. ToldAt(next[o].boxes, i, ws)
      BY <1>3, <1>5, <1>8, <2>2, ToldNow DEF ws
    <3> QED BY <2>5, <3>5, <3>6, <3>7
  <2> QED BY <2>4, <2>5
\* A DefBox that stands for a turning point stays; without one all loops do the same.
<1>16. ASSUME NEW o \in Orders
       PROVE  Stands(next["plain"].boxes, next[o].boxes) \/ AsPlain(o)'
  <2>1. CASE Stands(track["plain"].boxes, track[o].boxes)
    <3> HIDE DEF i
    <3> QED BY <1>3, <1>4, <1>9, <2>1, StandsStay DEF TrackOK
  <2>2. CASE AsPlain(o)
    <3>1. \/ Stands(next["plain"].boxes, next[o].boxes)
          \/ /\ SameLegs(next[o], next["plain"])
             /\ TurnsUp(i) \/ TurnsDown(i) => new["plain"] /\ new[o]
      <4>1. PlainOK(track["plain"], i - 1) /\ SameLegs(track[o], track["plain"])
        BY <1>1, <1>3, <2>2 DEF AsPlain
      <4> HIDE DEF i
      <4> QED BY <1>3, <1>4, <1>5, <1>8, <4>1, LegsAlike
    <3>2. CASE /\ SameLegs(next[o], next["plain"])
               /\ TurnsUp(i) \/ TurnsDown(i) => new["plain"] /\ new[o]
      <4>1. ASSUME NEW p \in Armed
            PROVE  held[o][p] = held["plain"][p]
        <5>1. arms[o][p] = arms["plain"][p] /\ Trend(next[o].boxes) = Trend(next["plain"].boxes)
          BY <2>2, <3>2 DEF AsPlain, SameLegs
        <5>2. new[o] \in BOOLEAN /\ new["plain"] \in BOOLEAN
          BY <1>4, <1>6
        <5> DEFINE a == arms["plain"][p]
                   list == next[o].boxes
                   plain == next["plain"].boxes
        <5>3. held[o][p] = Rearmed(o, p, a, list, i, new[o]) /\ held["plain"][p] = Rearmed("plain", p, a, plain, i, new["plain"])
          BY <1>4, <1>5, <5>1
        <5>4. Trend(list) = Trend(plain)
          BY <5>1
        <5> HIDE DEF a, list, plain, i
        <5> QED BY <1>3, <3>2, <5>2, <5>3, <5>4, RearmedAlike
      <4>2. ASSUME NEW p \in Armed
            PROVE  arms'[o][p] = arms'["plain"][p] /\ Signals(o, p)' = Signals("plain", p)'
        <5>1. held[o][p] = held["plain"][p]
          BY <4>1
        <5>2. Signals(o, p) = Signals("plain", p)
          BY <2>2 DEF AsPlain
        <5>3. arms'[o][p] = arms'["plain"][p]
          BY <1>4, <1>7, <5>1
        <5>4. Signals(o, p)' = Signals(o, p) \cup Shots(o, p)
              /\ Signals("plain", p)' = Signals("plain", p) \cup Shots("plain", p)
          BY <1>4, <1>14
        <5>5. Shots(o, p) = Shots("plain", p)
          BY <5>1
        <5> QED BY <5>2, <5>3, <5>4, <5>5
      <4>3. SameLegs(track[o], track["plain"])'
        BY <1>7, <3>2 DEF SameLegs, Trend, Point, IsDef
      <4> QED BY <4>2, <4>3 DEF AsPlain
    <3> QED BY <3>1, <3>2
  <2> QED BY <1>1, <2>1, <2>2
<1> HIDE DEF FiredArms, FiredWs
<1>17. candles' \in PatternTapes /\ pos' \in 5..Last'
  <2>1. Last' = Last /\ i \in 5..Last
    BY <1>1, <1>2, <1>3 DEF Last
  <2> QED BY <1>1, <1>2, <2>1
<1>18. \A o \in Orders : TrackOK(track[o], pos)'
  BY <1>2, <1>7, <1>9 DEF TrackOK, Listed
<1>19. PlainOK(track["plain"], pos)'
  BY <1>2, <1>7, <1>10 DEF PlainOK, TrackOK, Listed, Trend, Point, IsDef
<1>20. \A f \in fires' : f.pos \in 6..pos'
  BY <1>2, <1>13
<1>21. \A o \in {"pattern", "engine"} : \A j \in 6..pos' : \A told :
         told = WArms(o, j)' => ToldAt(track'[o].boxes, j, told)
  BY <1>2, <1>7, <1>15
<1>22. \A list, j, told : ToldAt(list, j, told)' <=> ToldAt(list, j, told)
  <2>1. \A list, j : StrictW(list, j)' = StrictW(list, j)
    BY <1>2 DEF StrictW, FindBBWBottomBoxPattern, IsBBWExpanding, BreachLower, BBW, C
  <2> QED BY <1>2, <2>1 DEF ToldAt, C
<1>23. \A o \in Orders : Stands(track["plain"].boxes, track[o].boxes)' \/ AsPlain(o)'
  BY <1>7, <1>16 DEF Stands, Trend, Point, IsDef
<1>24. ASSUME NEW o \in {"pattern", "engine"}, NEW j \in 6..pos'
       PROVE  ToldAt(track[o].boxes, j, WArms(o, j))'
  <2>1. PICK list, told : list = track'[o].boxes /\ told = WArms(o, j)'
    OBVIOUS
  <2>2. ToldAt(list, j, told)'
    BY <1>21, <1>22, <2>1
  <2> QED BY <2>1, <2>2 DEF ToldAt, EntriesBy, SupportAt
<1> QED BY <1>17, <1>18, <1>19, <1>20, <1>23, <1>24 DEF ArmedInv

LEMMA ArmedInvHolds == Spec => []ArmedInv
<1>1. ArmedInv /\ [Next]_vars => ArmedInv'
  <2> SUFFICES ASSUME ArmedInv, [Next]_vars PROVE ArmedInv'
    OBVIOUS
  <2>1. CASE lab = "armed" /\ Next
    BY <2>1, ArmedInvMoves
  <2>2. CASE lab # "armed" /\ Next
    BY <2>2 DEF Next, ArmedInv
  <2>3. CASE UNCHANGED vars
    <3>1. /\ lab' = lab /\ candles' = candles /\ pos' = pos
          /\ track' = track /\ arms' = arms /\ fires' = fires
      BY <2>3 DEF vars, armedVars
    <3>2. Last' = Last
      BY <3>1 DEF Last
    <3>3. \A o \in Orders : /\ TrackOK(track[o], pos)' <=> TrackOK(track[o], pos)
                            /\ Stands(track["plain"].boxes, track[o].boxes)'
                                 <=> Stands(track["plain"].boxes, track[o].boxes)
      BY <3>1 DEF TrackOK, Listed, Stands, Trend, Point, IsDef
    <3>4. PlainOK(track["plain"], pos)' <=> PlainOK(track["plain"], pos)
      BY <3>1 DEF PlainOK, TrackOK, Listed, Trend, Point, IsDef
    <3>5. ASSUME NEW o, NEW j
          PROVE  ToldAt(track[o].boxes, j, WArms(o, j))' <=> ToldAt(track[o].boxes, j, WArms(o, j))
      <4>1. \A past : StrictW(past, j)' = StrictW(past, j)
        BY <3>1 DEF StrictW, FindBBWBottomBoxPattern, IsBBWExpanding, BreachLower, BBW, C
      <4>2. WArms(o, j)' = WArms(o, j)
        BY <3>1 DEF WArms
      <4> QED BY <3>1, <4>1, <4>2 DEF ToldAt, C, EntriesBy, SupportAt
    <3>6. ASSUME NEW o PROVE AsPlain(o)' <=> AsPlain(o)
      <4>1. \A q, p : Signals(q, p)' = Signals(q, p)
        BY <3>1 DEF Signals
      <4>2. SameLegs(track[o], track["plain"])' <=> SameLegs(track[o], track["plain"])
        BY <3>1 DEF SameLegs, Trend, Point, IsDef
      <4> QED BY <3>1, <4>1, <4>2 DEF AsPlain
    <3> QED BY <3>1, <3>2, <3>3, <3>4, <3>5, <3>6 DEF ArmedInv
  <2> QED BY <2>1, <2>2, <2>3
<1> QED BY <1>1, ArmedInvInit, PTL DEF Spec

\* With the same boxes at the end both loops have known the same boxes at every candle.
LEMMA WAgreesAlways ==
    ASSUME ArmedInv
    PROVE  WAgrees
<1> SUFFICES ASSUME lab = "armed", track["engine"].boxes = track["pattern"].boxes
             PROVE  Signals("engine", "w") = Signals("pattern", "w")
  BY DEF WAgrees
<1>1. /\ \A f \in fires : f.pos \in 6..pos
      /\ \A o \in {"pattern", "engine"} : \A j \in 6..pos : ToldAt(track[o].boxes, j, WArms(o, j))
  BY DEF ArmedInv
<1>2. \A j \in 6..pos : WArms("engine", j) = WArms("pattern", j)
  BY <1>1, ToldOnce
<1>3. ASSUME NEW o \in {"pattern", "engine"}, NEW q \in {"pattern", "engine"}
      PROVE  Signals(o, "w") \subseteq Signals(q, "w")
  <2> SUFFICES ASSUME NEW f \in fires, f.loop = o, f.pattern = "w"
               PROVE  \E g \in fires : g.loop = q /\ g.pattern = "w" /\ g.pos = f.pos /\ g.arm = f.arm
    BY DEF Signals
  <2>1. f.pos \in 6..pos /\ f.arm \in WArms(o, f.pos)
    BY <1>1 DEF WArms
  <2>2. f.arm \in WArms(q, f.pos)
    BY <1>2, <2>1
  <2> QED BY <2>2 DEF WArms
<1> QED BY <1>3

\* The turning points, the arms and the signals.
LEMMA LoopsAgreeAlways ==
    ASSUME ArmedInv
    PROVE  NothingLost /\ PatternsAgree
<1> SUFFICES ASSUME lab = "armed", NEW o \in Orders, ~StandIn(o)
             PROVE  /\ Trend(track[o].boxes) = Trend(track["plain"].boxes)
                    /\ \A p \in Armed : Signals(o, p) = Signals("plain", p)
  BY DEF NothingLost, PatternsAgree
<1>1. ~Stands(track["plain"].boxes, track[o].boxes)
  BY DEF StandIn, Stands
<1>2. AsPlain(o)
  BY <1>1 DEF ArmedInv
<1> QED BY <1>2 DEF AsPlain, SameLegs

-----------------------------------------------------------------------------
(* The two halves of the combined search. *)

\* When the break of a W is decided: it has come, or the wait is over.
Decided(signal, price, n) == FirstOver(signal, price, n) # 0 \/ n - signal > BreakTimeout

LEMMA DecidedStays ==
    ASSUME NEW signal \in Nat, NEW price, NEW n \in Nat, Decided(signal, price, n)
    PROVE  Decided(signal, price, n + 1) /\ FirstOver(signal, price, n + 1) = FirstOver(signal, price, n)
<1> DEFINE b == FirstOver(signal, price, n)
           c == FirstOver(signal, price, n + 1)
<1>1. BreakTimeout \in Nat
  BY CombinedAssumption
<1>2. \/ /\ b = 0
         /\ \A k \in (signal + 1)..n : k <= signal + BreakTimeout => ~(C(k).close > price)
      \/ /\ b \in (signal + 1)..n /\ b <= signal + BreakTimeout /\ C(b).close > price
         /\ \A k \in (signal + 1)..n :
              k <= signal + BreakTimeout /\ C(k).close > price => b <= k
  BY FirstOverIs
<1>3. \/ /\ c = 0
         /\ \A k \in (signal + 1)..(n + 1) : k <= signal + BreakTimeout => ~(C(k).close > price)
      \/ /\ c \in (signal + 1)..(n + 1) /\ c <= signal + BreakTimeout /\ C(c).close > price
         /\ \A k \in (signal + 1)..(n + 1) :
              k <= signal + BreakTimeout /\ C(k).close > price => c <= k
  BY FirstOverIs
<1>4. b # 0 \/ n - signal > BreakTimeout
  BY DEF Decided
<1> HIDE DEF b, c
<1>5. c = b
  <2>1. CASE b = 0
    <3>1. n > signal + BreakTimeout
      BY <1>1, <1>4, <2>1
    <3>2. c # 0 => c \in (signal + 1)..n
      BY <1>1, <1>3, <3>1
    <3> QED BY <1>2, <1>3, <2>1, <3>2
  <2>2. CASE b # 0
    <3>1. b \in (signal + 1)..n /\ b \in (signal + 1)..(n + 1)
          /\ b <= signal + BreakTimeout /\ C(b).close > price
      BY <1>2, <2>2
    <3>2. c # 0 /\ c <= b
      BY <1>3, <3>1
    <3>3. c \in (signal + 1)..n
      BY <1>3, <3>1, <3>2
    <3> QED BY <1>2, <1>3, <2>2, <3>1, <3>2, <3>3
  <2> QED BY <2>1, <2>2
<1> QED BY <1>1, <1>4, <1>5 DEF Decided, b, c

\* The break of a W, and its signal.
Broke(w) == FirstOver(w.signal, combined.track.boxes[w.def].price, pos)

HalvesInv ==
    lab = "combined" =>
      /\ \A s \in combined.out : s.type = "WD" =>
           \E w \in combined.ws \ combined.pending : w.def > 0 /\ s = Signal("WD", w, Broke(w))
      /\ \A w \in combined.ws \ combined.pending : w.def > 0 =>
           /\ Signal("WD", w, Broke(w)) \in combined.out
           /\ Decided(w.signal, combined.track.boxes[w.def].price, pos)

LEMMA HalvesInvMoves ==
    ASSUME CombinedInv, HalvesInv, lab = "combined", Next
    PROVE  HalvesInv'
<1> DEFINE i == pos + 1
           c == combined
           old == c.track.boxes
           next == Track("pattern", c.track, i)
           new == next.boxes
           ws == WsAt(c.track, new, i)
           expecting == c.pending \cup {w \in ws : w.def > 0}
           alone == Alone(c, new, expecting, i)
           done == {w \in expecting : Resolved(new, w, i) # {}}
           out == c.out \cup alone \cup UNION {Resolved(new, w, i) : w \in done}
           NewBroke(w) == FirstOver(w.signal, new[w.def].price, i)
<1>1. /\ OnCombinedTape /\ pos \in 5..Last /\ TrackOK(c.track, pos)
      /\ \A w \in c.ws : w.signal \in 0..pos /\ w.def \in 0..Len(old)
      /\ \A w \in c.pending : w \in c.ws /\ StillWaits(w)
  BY DEF CombinedInv
<1>2. /\ lab' = lab /\ pos < Last /\ pos' = i /\ candles' = candles
      /\ combined' = Renewed([track |-> next, pending |-> expecting \ done, current |-> c.current,
                              broken |-> c.broken \/ alone # {}, ws |-> c.ws \cup ws, out |-> out], new)
  <2>1. CombinedStep /\ lab' = lab
    BY DEF Next
  <2> QED BY <2>1 DEF CombinedStep
<1>3. /\ pos \in Nat /\ i \in Nat /\ i \in 6..Last /\ Directed(candles) /\ BreakTimeout \in Nat
  <2>1. Last \in Nat /\ Directed(candles)
    BY <1>1, CombinedTapeFacts
  <2> QED BY <1>1, <1>2, <2>1, CombinedAssumption
<1>4. Grown(old, new, i)
  <2>1. TrackOK(c.track, i)
    BY <1>1, <1>3, TrackLater
  <2> HIDE DEF i
  <2> QED BY <1>3, <2>1, TrackGrows DEF Orders
<1>5. \A w \in c.ws : w.def > 0 => new[w.def].price = old[w.def].price
  <2>1. Len(old) \in Nat
    BY <1>1, ListedFacts DEF TrackOK
  <2>2. \A w \in c.ws : w.def > 0 => w.def \in 1..Len(old)
    BY <1>1, <2>1
  <2> HIDE DEF new
  <2> QED BY <1>4, <2>2 DEF Grown, SameBox
<1>6. \A w \in ws : w.signal = i
  BY DEF WsAt
<1> HIDE DEF next, ws, alone, new
<1>7. /\ combined'.track = next /\ combined'.pending = expecting \ done
      /\ combined'.ws = c.ws \cup ws /\ combined'.out = out
  <2> DEFINE d == [track |-> next, pending |-> expecting \ done, current |-> c.current,
                   broken |-> c.broken \/ alone # {}, ws |-> c.ws \cup ws, out |-> out]
  <2>1. combined' = d \/ \E e : combined' = [d EXCEPT !.current = e, !.broken = FALSE]
    BY <1>2 DEF Renewed
  <2>2. /\ d.track = next /\ d.pending = expecting \ done /\ d.ws = c.ws \cup ws /\ d.out = out
        /\ DOMAIN d = {"track", "pending", "current", "broken", "ws", "out"}
    OBVIOUS
  <2> HIDE DEF d, c, expecting, out, done
  <2> QED BY <2>1, <2>2
<1>8. \A w : Broke(w)' = NewBroke(w)
  <2>1. \A s, q, n : FirstOver(s, q, n)' = FirstOver(s, q, n)
    BY <1>2 DEF FirstOver, OverIn, C
  <2>2. ASSUME NEW w PROVE Broke(w)' = NewBroke(w)
    <3>1. PICK q, n : q = combined'.track.boxes[w.def].price /\ n = pos'
      OBVIOUS
    <3>2. Broke(w)' = FirstOver(w.signal, q, n)'
      BY <3>1 DEF Broke, FirstOver, OverIn
    <3> QED BY <1>2, <1>7, <2>1, <3>1, <3>2 DEF new
  <2> QED BY <2>2
<1>9. \A w : Decided(w.signal, combined.track.boxes[w.def].price, pos)'
               <=> Decided(w.signal, new[w.def].price, i)
  <2>1. ASSUME NEW w
        PROVE  Decided(w.signal, combined.track.boxes[w.def].price, pos)'
                 <=> Decided(w.signal, new[w.def].price, i)
    <3>1. Decided(w.signal, combined.track.boxes[w.def].price, pos)'
            <=> Broke(w)' # 0 \/ pos' - w.signal > BreakTimeout
      BY DEF Decided, Broke, FirstOver, OverIn
    <3> QED BY <1>2, <1>8, <3>1 DEF Decided
  <2> QED BY <2>1
\* What was decided stays so.
<1>10. ASSUME NEW w \in c.ws \ c.pending, w.def > 0
       PROVE  NewBroke(w) = Broke(w) /\ Decided(w.signal, new[w.def].price, i)
  <2>1. Decided(w.signal, old[w.def].price, pos) /\ w.signal \in Nat /\ new[w.def].price = old[w.def].price
    BY <1>1, <1>3, <1>5, <1>10 DEF HalvesInv
  <2> QED BY <1>3, <2>1, DecidedStays DEF Broke
\* A new W waits.
<1>11. \A w \in ws : w.def > 0 => w \in expecting \ done /\ w \notin c.ws
  <2>1. ASSUME NEW w \in ws, w.def > 0
        PROVE  w \in expecting \ done /\ w \notin c.ws
    <3>1. w.signal = i /\ i - i = 0 /\ ~(0 > BreakTimeout) /\ ~(i > i) /\ i \notin 0..pos
      BY <1>3, <1>6, <2>1
    <3> HIDE DEF i
    <3>2. Resolved(new, w, i) = {}
      BY <3>1 DEF Resolved
    <3> QED BY <1>1, <2>1, <3>1, <3>2
  <2> QED BY <2>1
\* What is decided now.
<1>12. ASSUME NEW w \in done
       PROVE  /\ w \in c.ws /\ w \in c.pending /\ w.def > 0
              /\ Resolved(new, w, i) = {Signal("WD", w, NewBroke(w))}
              /\ Decided(w.signal, new[w.def].price, i)
  <2>1. w \in c.pending
    BY <1>11, <1>12
  <2>2. w \in c.ws /\ w.def > 0 /\ w.signal \in 0..pos /\ pos - w.signal <= BreakTimeout
        /\ \A j \in (w.signal + 1)..pos : ~(C(j).close > old[w.def].price)
    BY <1>1, <2>1 DEF StillWaits
  <2> DEFINE q == new[w.def].price
             b == FirstOver(w.signal, q, i)
  <2>3. q = old[w.def].price /\ w.signal \in Nat /\ i > w.signal
    BY <1>3, <1>5, <2>2
  <2>4. \/ /\ b = 0
           /\ \A k \in (w.signal + 1)..i : k <= w.signal + BreakTimeout => ~(C(k).close > q)
        \/ /\ b \in (w.signal + 1)..i /\ b <= w.signal + BreakTimeout /\ C(b).close > q
           /\ \A k \in (w.signal + 1)..i :
                k <= w.signal + BreakTimeout /\ C(k).close > q => b <= k
    BY <1>3, <2>3, FirstOverIs
  <2>5. Resolved(new, w, i) = IF i - w.signal > BreakTimeout THEN {Signal("WD", w, 0)}
                              ELSE IF i > w.signal /\ C(i).close > q THEN {Signal("WD", w, i)} ELSE {}
    BY DEF Resolved
  <2>6. Resolved(new, w, i) # {}
    BY <1>12
  <2>7. b = 0 \/ b = i
    <3>1. \A k \in (w.signal + 1)..i : k = i \/ k \in (w.signal + 1)..pos
      BY <1>3, <2>2
    <3> HIDE DEF q, b
    <3> QED BY <2>2, <2>3, <2>4, <3>1
  <2> HIDE DEF q, b
  <2>8. CASE i - w.signal > BreakTimeout
    <3>1. b # i
      BY <1>3, <2>3, <2>4, <2>8
    <3> QED BY <2>1, <2>2, <2>5, <2>7, <2>8, <3>1 DEF Decided, b, q
  <2>9. CASE ~(i - w.signal > BreakTimeout)
    <3>1. C(i).close > q
      BY <2>5, <2>6, <2>9
    <3>2. i \in (w.signal + 1)..i /\ i <= w.signal + BreakTimeout /\ i # 0
      BY <1>3, <2>3, <2>9
    <3>3. b = i
      <4> HIDE DEF i
      <4>1. b # 0
        BY <2>3, <2>4, <3>1, <3>2
      <4> QED BY <2>7, <4>1
    <3>4. Resolved(new, w, i) = {Signal("WD", w, i)}
      BY <2>3, <2>5, <2>9, <3>1
    <3> QED BY <2>1, <2>2, <3>2, <3>3, <3>4 DEF Decided, b, q
  <2> QED BY <2>8, <2>9
<1>13. \A w \in (c.ws \cup ws) \ (expecting \ done) : w.def > 0 =>
         w \in c.ws \ c.pending \/ w \in done
  BY <1>11
<1>14. \A w \in c.ws \ c.pending : w.def > 0 => w \notin expecting
  BY <1>11
<1> HIDE DEF NewBroke, i
<1>15. ASSUME NEW s \in out, s.type = "WD"
       PROVE  \E w \in (c.ws \cup ws) \ (expecting \ done) : w.def > 0 /\ s = Signal("WD", w, NewBroke(w))
  <2>1. CASE s \in c.out
    <3>1. PICK w \in c.ws \ c.pending : w.def > 0 /\ s = Signal("WD", w, Broke(w))
      BY <1>15, <2>1 DEF HalvesInv
    <3> QED BY <1>10, <1>14, <3>1
  <2>2. CASE s \in alone
    BY <1>15, <2>2 DEF alone, Alone, Signal
  <2>3. CASE \E w \in done : s \in Resolved(new, w, i)
    <3>1. PICK w \in done : s \in Resolved(new, w, i)
      BY <2>3
    <3> QED BY <1>12, <3>1
  <2> QED BY <2>1, <2>2, <2>3
<1>16. ASSUME NEW w \in (c.ws \cup ws) \ (expecting \ done), w.def > 0
       PROVE  Signal("WD", w, NewBroke(w)) \in out /\ Decided(w.signal, new[w.def].price, i)
  <2>1. CASE w \in c.ws \ c.pending
    <3>1. Signal("WD", w, Broke(w)) \in c.out
      BY <1>16, <2>1 DEF HalvesInv
    <3> QED BY <1>10, <1>16, <2>1, <3>1
  <2>2. CASE w \in done
    BY <1>12, <2>2
  <2> QED BY <1>13, <1>16, <2>1, <2>2
<1> HIDE DEF c, out, expecting, done
<1> QED BY <1>7, <1>8, <1>9, <1>15, <1>16 DEF HalvesInv

LEMMA HalvesInvHolds == Spec => []HalvesInv
<1>1. Init => HalvesInv
  <2> SUFFICES ASSUME Init, lab = "combined" PROVE HalvesInv
    BY DEF HalvesInv
  <2>1. combined.ws = {} /\ combined.out = {}
    BY DEF Init, CombinedInit, EmptyCombined
  <2> QED BY <2>1 DEF HalvesInv
<1>2. CombinedInv /\ HalvesInv /\ [Next]_vars => HalvesInv'
  <2> SUFFICES ASSUME CombinedInv, HalvesInv, [Next]_vars PROVE HalvesInv'
    OBVIOUS
  <2>1. CASE lab = "combined" /\ Next
    BY <2>1, HalvesInvMoves
  <2>2. CASE lab # "combined" /\ Next
    BY <2>2 DEF Next, HalvesInv
  <2>3. CASE UNCHANGED vars
    <3>1. lab' = lab /\ candles' = candles /\ pos' = pos /\ combined' = combined
      BY <2>3 DEF vars
    <3>2. \A w : Broke(w)' = Broke(w)
      BY <3>1 DEF Broke, FirstOver, OverIn, C
    <3>3. \A w : Decided(w.signal, combined.track.boxes[w.def].price, pos)'
                   <=> Decided(w.signal, combined.track.boxes[w.def].price, pos)
      BY <3>1 DEF Decided, FirstOver, OverIn, C
    <3> QED BY <3>1, <3>2, <3>3 DEF HalvesInv
  <2> QED BY <2>1, <2>2, <2>3
<1> QED BY <1>1, <1>2, CombinedInvHolds, PTL DEF Spec

\* Whoever still waits has not been broken out of: the loop ahead finds nothing either.
LEMMA TwoHalvesAgreeAlways ==
    ASSUME CombinedInv, HalvesInv
    PROVE  TwoHalvesAgree
<1> SUFFICES ASSUME lab = "combined"
             PROVE  {s \in CombinedAnalyze : s.type = "WD"}
                      = {Signal("WD", w, Broke(w)) : w \in {v \in combined.ws : v.def > 0}}
  BY DEF TwoHalvesAgree, Broke, BreakOf, FirstOver, OverIn
<1>1. /\ pos \in Nat /\ \A w \in combined.ws : w.signal \in 0..pos
      /\ \A w \in combined.pending : w \in combined.ws /\ StillWaits(w)
  <2>1. pos \in 5..Last /\ OnCombinedTape
    BY DEF CombinedInv
  <2> QED BY <2>1, CombinedTapeFacts DEF CombinedInv
<1>2. ASSUME NEW w \in combined.pending
      PROVE  Broke(w) = 0 /\ w.def > 0
  <2>1. w.def > 0 /\ w.signal \in Nat
        /\ \A j \in (w.signal + 1)..pos : ~(C(j).close > combined.track.boxes[w.def].price)
    BY <1>1, <1>2 DEF StillWaits
  <2> QED BY <1>1, <2>1, FirstOverIs DEF Broke
<1>3. \A w, b : Signal("WD", w, b).type = "WD"
  BY DEF Signal
<1>4. ASSUME NEW s \in CombinedAnalyze, s.type = "WD"
      PROVE  \E w \in combined.ws : w.def > 0 /\ s = Signal("WD", w, Broke(w))
  <2>1. CASE s \in combined.out
    BY <1>4, <2>1 DEF HalvesInv
  <2>2. CASE s \notin combined.out
    <3>1. PICK w \in combined.pending : s = Signal("WD", w, 0)
      BY <1>4, <2>2 DEF CombinedAnalyze
    <3> QED BY <1>1, <1>2, <3>1
  <2> QED BY <2>1, <2>2
<1>5. ASSUME NEW w \in combined.ws, w.def > 0
      PROVE  Signal("WD", w, Broke(w)) \in CombinedAnalyze
  <2>1. CASE w \in combined.pending
    BY <1>2, <2>1 DEF CombinedAnalyze
  <2>2. CASE w \notin combined.pending
    BY <1>5, <2>2 DEF CombinedAnalyze, HalvesInv
  <2> QED BY <2>1, <2>2
<1> QED BY <1>3, <1>4, <1>5

\* The twins agree: until a DefBox stands for a turning point, the loops of the analyzers and of the
\* engine know the same turning points and give the same signals on the same arms; the W of the two
\* loops with DefBoxes is the same on the same boxes; and the combined search tells, wherever the
\* list ends, the breaks that the search ahead finds (armed_trigger.go:7, wgc_analyze.go:72,
\* combined_analyze.go:34, wpattern_defbox.go:30).
THEOREM TwinsAgreeAlways == Spec => []TwinsAgree
<1>1. ArmedInv /\ CombinedInv /\ HalvesInv => TwinsAgree
  BY LoopsAgreeAlways, WAgreesAlways, TwoHalvesAgreeAlways DEF TwinsAgree
<1> QED BY <1>1, ArmedInvHolds, CombinedInvHolds, HalvesInvHolds, PTL
=============================================================================
