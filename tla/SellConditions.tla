--------------------------- MODULE SellConditions ---------------------------
(***************************************************************************)
(* The price conditions of the sell rules for one position, candle by      *)
(* candle (cond/sell_*.go, by the names of stg/sell_conditions_registry):  *)
(* what SellRules takes as "raised".  Each condition reads the tape at     *)
(* the candle of the loop and keeps nothing.                               *)
(*                                                                         *)
(* grad and grad20 are the signs of the gradients, percent is %B in        *)
(* hundredths, box the turning point that becomes known at the candle.     *)
(***************************************************************************)
EXTENDS CandleTape

CONSTANTS SellTapes,     \* lists with the position taken on them
          SellSettings   \* SellSettings of the strategy

VARIABLES holding,       \* the position
          raised         \* by candle held: the conditions that held

\* A position is taken within its list.
ASSUME PositionAssumption ==
    /\ \A t \in SellTapes :
         LET n == Cardinality(DOMAIN t.candles) - 1
         IN  /\ IsFiniteSet(DOMAIN t.candles) /\ DOMAIN t.candles = 0..n
             /\ \A j \in 0..n : /\ \A f \in {"open", "high", "close"} : t.candles[j][f] \in Int
                               /\ t.candles[j].low \in Nat
             /\ t.holding.bought \in 0..n /\ t.holding.main \in Int /\ t.holding.mainAt \in Int
             /\ t.holding.pen \in 0..n /\ t.holding.known \in Nat
             /\ t.holding.defAt \in 0..t.holding.bought
    /\ \A s \in {"delay", "dropDays", "lowCandles", "highDrop"} : SellSettings[s] \in Nat

bought == holding.bought       \* BuyPosition
buyPrice == holding.price
mainBox == holding.main        \* MainBoxPrice
Set == SellSettings

Held(i) == (bought + 1)..i
IsNegative(i) == C(i).close < C(i).open
IsPartialReversal(i) == C(i).ma5 < C(i).ma20
IsReversedArrangement(i) == C(i).ma5 < C(i).ma20 /\ C(i).ma20 < C(i).ma60

\* A value lost at least pct percent of a base; it gained more than pct percent.
Lost(v, base, pct) == (v - base) * 100 <= -(pct * base)
Gained(v, base, pct) == (v - base) * 100 > pct * base

\* The prices are under the main box.
Under(i) == C(i).close < mainBox

-----------------------------------------------------------------------------
(* sell_loss_cutting.go *)

IsMainBoxBreakdownFailure(i) == i <= bought + 2 /\ IsNegative(i) /\ Under(i)

\* Mutant: the second day does not ask for a rise on the first.
IsWeakFoundationFailureEither(i) ==
    \/ i = bought + 1 /\ IsNegative(i) /\ C(i).close <= C(i - 1).close
    \/ i = bought + 2 /\ IsNegative(i) /\ C(i).close <= C(i - 2).close

IsWeakFoundationFailure(i) ==
    \/ i = bought + 1 /\ IsNegative(i) /\ C(i).close <= C(i - 1).close
    \/ /\ i = bought + 2 /\ IsNegative(i - 1) /\ C(i - 1).close > C(i - 2).close
       /\ IsNegative(i) /\ C(i).close <= C(i - 2).close

\* CalculateEventHighPriceForPosition; without candles the high is 0.
EventHigh(i) ==
    LET span == HighestOf({0, i - 3 * (i - holding.mainAt)})..holding.defAt
    IN  IF span = {} THEN 0 ELSE Top("high", span)

\* Mutant: the candle before may be any that reached the high.
IsTrendEntryFailure1Any(i) ==
    LET high == EventHigh(i)
    IN  /\ i >= 1 /\ C(i - 1).high >= high
        /\ C(i).open > high /\ C(i).close < high

IsTrendEntryFailure1(i) ==
    LET high == EventHigh(i)
    IN  /\ i >= 1 /\ Bullish(i - 1) /\ C(i - 1).high >= high /\ C(i - 1).close <= high
        /\ C(i).open > high /\ C(i).close < high

\* The high between the penetration and the last crossing of the DefBox price.
IsTrendEntryFailure2(i) ==
    LET last == LastOscillo([j \in DOMAIN candles |-> holding.def], holding.pen, i)
        span == holding.pen..(last - 1)
        high == IF span = {} THEN 0 ELSE Top("high", span)
    IN  /\ i - last \in 1..2 /\ i >= 1
        /\ C(i - 1).high >= high /\ C(i - 1).open < high
        /\ C(i).open > high /\ C(i).close < high

\* Mutant: counts over a window fixed at the buy, as far as there are candles.
IsMainBoxPersistentBreakdownAhead(i) ==
    LET days == (bought + 1)..LowestOf({bought + 2 * Set.persistent, Last})
    IN  /\ i > bought + Set.persistent
        /\ 2 * Cardinality({j \in days : Under(j)}) > Cardinality(days)

IsMainBoxPersistentBreakdown(i) ==
    /\ i > bought + Set.persistent
    /\ 2 * Cardinality({j \in Held(i) : Under(j)}) > Cardinality(Held(i))

IsMainBoxRecoveryFailure(i) ==
    /\ i - bought \in 1..Set.recoveryPeriod
    /\ \E j \in Held(i - 1) : Under(j)
    /\ \E j \in Held(i - 1) : j >= i - 3 /\ Bullish(j)
    /\ IsPartialReversal(i) /\ Under(i)

IsMainBoxBreakdownWithBB(i) ==
    i - bought \in Set.bbMinDays..Set.bbMaxDays /\ Under(i) /\ C(i).percent < Set.bbPercent

IsStopLoss(i) == i > bought /\ Lost(C(i).close, buyPrice, Set.stop)

-----------------------------------------------------------------------------
(* sell_adaptive_stop.go *)

\* The squared deviation of the day returns after the buy, in thousandths and times the
\* square of their number; as far as there are candles, whatever the day it is asked on.
DayReturns(start, days) ==
    {j \in HighestOf({start, 1})..LowestOf({start + days, Last}) : C(j - 1).close # 0}

MoreVolatile(start, days, thousandths) ==
    LET S == DayReturns(start, days)
        n == Cardinality(S)
        r(j) == ((C(j).close - C(j - 1).close) * 1000) \div C(j - 1).close
        sum == SumOf([j \in 1..Last |-> IF j \in S THEN r(j) ELSE 0], 1, Last)
        squares == SumOf([j \in 1..Last |-> IF j \in S THEN r(j) * r(j) ELSE 0], 1, Last)
    IN  IF n = 0 THEN 50 > thousandths
        ELSE n * squares - sum * sum > n * n * thousandths * thousandths

\* The strength of the structure is the distance of the main box, at least 10 percent unknown.
BoxFactor ==
    LET d == IF mainBox > holding.def THEN mainBox - holding.def ELSE holding.def - mainBox
    IN  IF holding.def > 0 /\ d * 100 > Set.strong * holding.def THEN 13
        ELSE IF holding.def > 0 /\ d * 100 > Set.medium * holding.def THEN 11 ELSE 9

VolatilityFactor ==
    IF MoreVolatile(bought, Set.volatilityDays, Set.volatile) THEN 15
    ELSE IF MoreVolatile(bought, Set.volatilityDays, Set.lively) THEN 12 ELSE 10

\* The loss in hundredths of a percent.
CalculateAdaptiveStopLossThreshold ==
    HighestOf({Set.maxThreshold, LowestOf({Set.minThreshold, Set.stop * VolatilityFactor * BoxFactor})})

IsAdaptiveStopLoss(i) ==
    i > bought /\ (C(i).close - buyPrice) * 10000 <= -(CalculateAdaptiveStopLossThreshold * buyPrice)

\* Mutant: enough days of loss, whether or not they follow one another.
IsTimeDelayedStopLossTotal(i) == Cardinality({j \in Held(i) : IsStopLoss(j)}) >= Set.delay

IsTimeDelayedStopLoss(i) ==
    Set.delay = 0 \/ (i - Set.delay >= bought /\ \A j \in (i - Set.delay + 1)..i : IsStopLoss(j))

\* The last days held without one that closes over the main box.
CountDaysBelowMainBox(i) == Cardinality({j \in Held(i) : \A k \in j..i : Under(k)})

-----------------------------------------------------------------------------
(* sell_recovery.go *)

\* Mutant: the lowest price of the last days only.
LowestAfterBuyRecent(i) ==
    IF i > bought THEN Bottom("low", HighestOf({bought + 1, i - 1})..i) ELSE buyPrice

LowestAfterBuy(i) == IF i > bought THEN Bottom("low", Held(i)) ELSE buyPrice

\* The mean volume of the last bearish candles is under that of the holding.
CheckVolumeSupport(i) ==
    LET bearish == {j \in HighestOf({i - 5, bought})..i : IsNegative(j)}
        volume == SumOf([j \in bought..i |-> IF j \in bearish THEN C(j).volume ELSE 0], bought, i)
    IN  /\ bearish # {} /\ Total("volume", bought, i) > 0
        /\ volume * (i - bought + 1) * 10 < 8 * Total("volume", bought, i) * Cardinality(bearish)

Near(v, line, pct) == line # 0 /\ (v - line) * 100 < pct * line /\ (line - v) * 100 < pct * line

CheckMASupport(i) ==
    (Near(C(i).close, C(i).ma5, Set.ma5Near) /\ C(i).grad > 0) \/ Near(C(i).close, C(i).ma20, Set.ma20Near)

EvaluateRecoveryPotential(i) ==
    LET low == LowestAfterBuy(i)
        days == CountDaysBelowMainBox(i)
    IN  IF /\ days <= Set.highDays
           /\ mainBox = 0 \/ (mainBox - low) * 100 < Set.highDrop * mainBox
           /\ low # 0 /\ Gained(C(i).close, low, Set.highRise)
        THEN "high"
        ELSE IF days <= Set.mediumDays /\ (CheckMASupport(i) \/ CheckVolumeSupport(i))
        THEN "medium" ELSE "low"

\* A crash among this candle and the two before it, three days ago, and no close over the
\* main box since.
CrashUnrecovered(i) ==
    LET crashes == {j \in (i - 2)..i : j >= 0 /\ Lost(C(j).close, C(j).open, Set.crash)}
        crash == HighestOf(crashes)
    IN  crashes # {} /\ i - crash >= 3 /\ \A j \in (crash + 1)..i : Under(j)

\* Many shares change hands on a bearish candle.
PanicSelling(i) ==
    /\ C(i).volume * (i - bought) > 2 * Total("volume", bought, i - 1)
    /\ IsNegative(i) /\ Lost(C(i).close, C(i).open, Set.panicDrop)

\* On the day of the buy the rest is not looked at.
IsCriticalFailure(i) ==
    \/ CrashUnrecovered(i)
    \/ C(i).close < C(i).ma5 /\ IsReversedArrangement(i)
    \/ /\ i # bought
       /\ \/ PanicSelling(i)
          \/ i >= Set.dropDays /\ Lost(C(i).close, C(i - Set.dropDays).close, Set.cumulative)
          \/ \A j \in (i - Set.reversalDays + 1)..i : j >= 0 /\ IsReversedArrangement(j)

-----------------------------------------------------------------------------
(* sell_early_warning.go, sell_profit_taking.go, sell_technical.go, sell_ma_reversal.go *)

IsEarlyDrop(i) == i - bought <= Set.earlyDays /\ Lost(C(i).close, buyPrice, Set.earlyDrop)

IsEarlyMainBoxBreak(i) == i - bought <= Set.breakDays /\ Under(i) /\ IsPartialReversal(i)

\* The band was tight, is wide now and the last candles close low in it.
IsBBSqueezeExpansionWarning(i) ==
    LET tight == {j \in (i - Set.squeezeLookback)..(i - 1) :
                    j >= 0 /\ C(j).width # 0 /\ C(j).width < Set.squeezeWidth}
    IN  /\ i >= Set.lowCandles
        /\ \E j \in tight : 2 * C(i).width >= 3 * C(j).width
        /\ C(i).percent < Set.lowPercent
        /\ \A j \in (i - Set.lowCandles + 1)..i : C(j).percent < Set.lowPercent

IsGapUpTakeProfit(i) == i = bought + 1 /\ (C(i).open - buyPrice) * 10 >= buyPrice

IsBBUpperBreakoutProfit(i) == C(i).percent > Set.highPercent /\ Gained(C(i).close, buyPrice, Set.profit)

\* The turning points that came after the DefBox.
Turns(i) == {j \in (holding.known + 1)..i : C(j).box.type # "none"}

\* After the buy a support, and then a resistance.
HasTwoBoxesAfterBuy(i) ==
    \E j, k \in {h \in Turns(i) : C(h).box.at > bought} :
      j < k /\ C(j).box.type = "support" /\ C(k).box.type = "resistance"

IsMA5MA20DeadCross(i) ==
    /\ i >= 2 /\ HasTwoBoxesAfterBuy(i)
    /\ \A j \in (i - 2)..(i - 1) : C(j).grad < 0 /\ C(j).grad20 > 0
    /\ IsNegative(i) /\ C(i).close < C(i).ma20

IsConsecutiveNegativeCandles(i) ==
    /\ C(i).close < C(i).ma5 /\ C(i).grad < 0 /\ Under(i)
    /\ Cardinality({j \in Held(i) : j > i - Set.negativeLookback /\ IsNegative(j)}) >= Set.negatives

IsMAReversalBoxPattern(i) ==
    /\ IsPartialReversal(i) /\ C(i).grad < 0 /\ C(i).close < C(i).ma5
    /\ \E at \in {C(j).box.at : j \in {h \in 0..i : C(h).box.type = "resistance"}} \cup {holding.defAt} :
         at \in (i - Set.reversalLookback)..i

-----------------------------------------------------------------------------
\* The conditions by their names, and those that hold at candle i.
Conditions(i) ==
    [IsCriticalFailure |-> IsCriticalFailure(i),
     IsGapUpTakeProfit |-> IsGapUpTakeProfit(i),
     IsBBUpperBreakoutProfit |-> IsBBUpperBreakoutProfit(i),
     IsMainBoxBreakdownFailure |-> IsMainBoxBreakdownFailure(i),
     IsMainBoxPersistentBreakdown |-> IsMainBoxPersistentBreakdown(i),
     IsMainBoxRecoveryFailure |-> IsMainBoxRecoveryFailure(i),
     IsMainBoxBBBreakdown |-> IsMainBoxBreakdownWithBB(i),
     IsWeakFoundationFailure |-> IsWeakFoundationFailure(i),
     IsTrendEntryFailure1 |-> IsTrendEntryFailure1(i),
     IsTrendEntryFailure2 |-> IsTrendEntryFailure2(i),
     IsStopLoss |-> IsStopLoss(i),
     IsAdaptiveStopLoss |-> IsAdaptiveStopLoss(i),
     IsTimeDelayedStopLoss |-> IsTimeDelayedStopLoss(i),
     IsEarlyDrop |-> IsEarlyDrop(i),
     IsEarlyMainBoxBreak |-> IsEarlyMainBoxBreak(i),
     IsBBSqueezeExpansionWarning |-> IsBBSqueezeExpansionWarning(i),
     IsMA5MA20DeadCross |-> IsMA5MA20DeadCross(i),
     IsConsecutiveNegativeCandles |-> IsConsecutiveNegativeCandles(i),
     IsMAReversalBoxPattern |-> IsMAReversalBoxPattern(i)]

SellSignals(i) == LET c == Conditions(i) IN {n \in DOMAIN c : c[n]}

SellInit ==
    /\ \E t \in SellTapes : candles = t.candles /\ holding = t.holding
    /\ pos = holding.bought
    /\ raised = << >>

\* The sell evaluation of the next candle.
SellStep ==
    /\ pos < Last
    /\ pos' = pos + 1
    /\ raised' = Append(raised, SellSignals(pos'))
    /\ UNCHANGED <<candles, holding>>

-----------------------------------------------------------------------------
\* The candles held on which a condition held.
DaysOf(name) == {k \in DOMAIN raised : name \in raised[k]}

\* The delayed stop holds exactly on the days that end a run of as many stop days as it asks
\* for, so no day that closed better lies in it (sell_adaptive_stop.go:120).
DelayedAgrees ==
    \A k \in DOMAIN raised :
      k \in DaysOf("IsTimeDelayedStopLoss") <=>
        k >= Set.delay /\ \A d \in 0..(Set.delay - 1) : (k - d) \in DaysOf("IsStopLoss")

\* The two forms of a weak foundation exclude each other, so a position shows it at most once
\* (sell_loss_cutting.go:23).
WeakFoundationOnce == Cardinality(DaysOf("IsWeakFoundationFailure")) <= 1

\* A failed entry at the event high is never followed by another one on the next day, although
\* the high it is measured against moves from day to day (sell_loss_cutting.go:40, sell_helpers.go:151).
TrendFailuresApart ==
    \A k \in DOMAIN raised :
      k \in DaysOf("IsTrendEntryFailure1") => (k + 1) \notin DaysOf("IsTrendEntryFailure1")

\* A low far under the main box is never forgotten: the chance to recover is not high again
\* while the position is held (sell_recovery.go:215).
DeepDropStays ==
    lab = "sell" =>
      \A j \in Held(pos) :
        (mainBox - C(j).low) * 100 >= Set.highDrop * mainBox
          => EvaluateRecoveryPotential(pos) # "high"
=============================================================================
