---------------------------- MODULE BoxConditions ----------------------------
(***************************************************************************)
(* The conditions of the buy rules that look at one DefBox and its main    *)
(* box, candle by candle (cond/buy_conditions.go, buy_conditions_extra.go, *)
(* buy_oscillator.go).  A view is what TradingContext keeps of the boxes:  *)
(* the list, the DefBox's place in it and its links.  Boxes that become    *)
(* known are appended; the DefBox and its links stay.                      *)
(***************************************************************************)
EXTENDS CandleTape, Sequences

CONSTANTS ViewTapes,   \* lists, each with the view at the candle that makes the DefBox
          ViewSpans    \* windows in candles, thresholds in percent

VARIABLES view,        \* [boxes, def, links]: indices count from 1
          met          \* what the conditions said, candle by candle

\* A DefBox and the main boxes it is linked to stand in the list; all its boxes are known when
\* the DefBox is made.
ASSUME ViewAssumption ==
    /\ \A t \in ViewTapes :
         LET n == Cardinality(DOMAIN t.candles) - 1
             boxes == t.view.boxes
         IN  /\ IsFiniteSet(DOMAIN t.candles) /\ DOMAIN t.candles = 0..n
             /\ \A j \in 0..n : t.candles[j].open \in Int /\ t.candles[j].close \in Nat
             /\ t.view \in [boxes : Seq([type : {"support", "resistance"}, at : Nat, curve : Nat, price : Int]),
                           def : DOMAIN boxes, links : Seq(DOMAIN boxes)]
             /\ t.view.links # << >>
             /\ boxes[t.view.def].curve \in 0..n
             /\ \A k \in DOMAIN boxes : boxes[k].curve <= boxes[t.view.def].curve
    /\ ViewSpans.first \in Int

DefBox == view.boxes[view.def]
MainBox == view.boxes[view.links[1]]
defAt == DefBox.at
defPrice == DefBox.price
mainAt == MainBox.at
interMainDef == defAt - mainAt

OverDef(j) == C(j).close > defPrice
Bearish(j) == C(j).close < C(j).open

-----------------------------------------------------------------------------
(* buy_conditions.go *)

\* Mutant: the open does not count, and the close must lie over the price.
IsDefBoxBreakoutOver(i) == i > 0 /\ C(i - 1).close < defPrice /\ C(i).close > defPrice

IsDefBoxBreakout(i) ==
    i > 0 /\ C(i - 1).close < defPrice /\ (C(i).close >= defPrice \/ C(i).open > defPrice)

IsDefBoxBreakdown(i) ==
    i > 0 /\ defPrice # 0 /\ C(i - 1).close >= defPrice
          /\ (C(i).close < defPrice \/ C(i).open < defPrice)

IsCloseNearDefboxPrice(i) ==
    /\ (C(i).close - defPrice) * 100 < ViewSpans.nearDef * defPrice
    /\ MainBox.price = 0 \/ (C(i).close - MainBox.price) * 100 <= ViewSpans.nearMain * MainBox.price

IsMainboxDistanceTwiceOrMore(i) == 2 * interMainDef >= i - defAt

IsBoxCountBetweenDefAndMainLessThanOrEqual(max) == view.def - view.links[1] <= max
IsBoxDensityValidByCount == IsBoxCountBetweenDefAndMainLessThanOrEqual(4)

\* Too many highs over the price, and one of them in the middle of either span.
IsBoxDensityValidByDistribution(i) ==
    LET edge == (100 - ViewSpans.density) \div 2
        Middle(j, from, span) == /\ 100 * (j - from) >= edge * span
                                 /\ 100 * (j - from) <= (100 - edge) * span
        high == {j \in (mainAt + 1)..(i - 1) : C(j).high >= defPrice}
    IN  ~ /\ Cardinality(high) >= 3
          /\ \E j \in high : Middle(j, mainAt, interMainDef) \/ Middle(j, defAt, i - defAt)

\* The candles before the main box, three times as far as the DefBox lies after it.
BeforeMain == HighestOf({1, mainAt - 3 * interMainDef})..(mainAt - 1)

IsSingleBreakout == Cardinality({j \in BeforeMain : OverDef(j)}) <= 1

\* A bearish candle over the price and then a bullish one.
IsBoxConditionValid2 ==
    mainAt <= 0 \/ ~\E j \in BeforeMain : OverDef(j) /\ Bullish(j) /\ OverDef(j - 1) /\ Bearish(j - 1)

CheckUpperWick(j) ==
    LET body == IF Bullish(j) THEN C(j).close - C(j).open ELSE C(j).open - C(j).close
    IN  body = 0 \/ (C(j).high - HighestOf({C(j).open, C(j).close})) * 100 > ViewSpans.wick * body

HasExcessiveUpperWick == CheckUpperWick(defAt) \/ CheckUpperWick(mainAt)

\* Two resistances over the price before a single main box, more than two candles apart.
IsAdditionalBoxConditionValid(i) ==
    LET start == mainAt - (i - mainAt)
        over == {k \in 1..(view.links[1] - 1) :
                   LET b == view.boxes[k]
                   IN  b.at > start /\ b.price > defPrice /\ b.type = "resistance" /\ b.at > 2}
        first == view.boxes[LowestOf(over)].at
    IN  Len(view.links) # 1 \/ start <= 0 \/ ~\E k \in over : view.boxes[k].at - first > 2

-----------------------------------------------------------------------------
(* buy_conditions_extra.go *)

\* Mutant: only the last candles are looked at.
HasPullbackOrCorrectionRecent(i) ==
    \E j \in HighestOf({defAt, i - 2})..(i - 1) :
      \/ j > defAt /\ C(j).grad < 0
      \/ C(j).low <= C(j).ma20 /\ ~Bullish(j)

HasPullbackOrCorrection(i) ==
    \E j \in defAt..(i - 1) :
      \/ j > defAt /\ C(j).grad < 0
      \/ C(j).low <= C(j).ma20 /\ ~Bullish(j)

IsMainboxCloserThanCurrentPosition(i) == interMainDef >= i - defAt

\* The opens and closes over the price since the last main box.
GetMultiDefboxDamCount(i) ==
    LET span == view.boxes[view.links[Len(view.links)]].at..(i - 1)
    IN  Cardinality({j \in span : OverDef(j)}) + Cardinality({j \in span : C(j).open > defPrice})

IsMa60StrongerThanMa120By2Percent(i) == C(i).ma60 # 0 /\ 98 * C(i).ma120 < 100 * C(i).ma60

IsMultiDefRelaxedDamCondition(i) ==
    IF IsMa60StrongerThanMa120By2Percent(i)
    THEN GetMultiDefboxDamCount(i) \in 3..4 ELSE GetMultiDefboxDamCount(i) <= 2

\* The day average runs away from the sixty-day one.
SignificantGap(i) ==
    /\ C(i).ma20 - C(i).ma60 >= 2 * (C(i).ma60 - C(i).ma120)
    /\ (C(i).ma20 - C(i).ma60) * 100 >= 5 * C(i).close

Ma60Holds(i) == 99 * C(i).ma120 < 100 * C(i).ma60

\* The long average on top, the day average between.
Between(i) ==
    LET d60 == C(i).ma120 - C(i).ma60
        d20 == C(i).ma120 - C(i).ma20
    IN  d20 > 0 /\ d60 > d20 /\ d60 <= 10 * d20

\* Mutant: asks for the day average between the others even when the long ones are close.
IsMa20NearMa60WithComplexValidationBoth(i) ==
    \/ C(i).ma60 = 0
    \/ 100 * C(i).ma20 >= 99 * C(i).ma60 /\ Between(i) /\ ~SignificantGap(i)

IsMa20NearMa60WithComplexValidation(i) ==
    \/ C(i).ma60 = 0
    \/ 100 * C(i).ma20 >= 99 * C(i).ma60 /\ (Between(i) \/ Ma60Holds(i)) /\ ~SignificantGap(i)

IsMa20NearMa60WithSimpleValidation(i) ==
    \/ C(i).ma60 = 0
    \/ 100 * C(i).ma20 >= 99 * C(i).ma60 /\ Ma60Holds(i) /\ ~SignificantGap(i)

\* The box that follows the main box in the list.
IsMainboxPriceAboveMa60OrMa120 ==
    /\ view.links[1] < Len(view.boxes)
    /\ LET b == view.boxes[view.links[1] + 1]
       IN  b.price > C(b.at).ma60 \/ b.price > C(b.at).ma120

HasLowTouchedMa20(i) == \E j \in mainAt..i : C(j).low <= C(j).ma20

\* Two closes running over the price.
Pairs(first, last) == Cardinality({j \in first..last : j > 0 /\ OverDef(j) /\ OverDef(j - 1)})

IsMainboxConditionValid(i) ==
    \/ mainAt <= ViewSpans.early \/ i - mainAt > ViewSpans.near
    \/ /\ C(i).ma60 > C(i).ma120 /\ C(i).grad60 >= 0 /\ C(i).grad120 >= 0
       /\ Pairs(mainAt - ViewSpans.early, mainAt - 1) <= 2

IsMaSpreadExcessive(i) ==
    LET spread == C(i).ma20 - C(i).ma60
    IN  C(i).ma60 # 0 /\ spread * 100 > ViewSpans.spread * C(i).close /\ spread > C(i).ma60 - C(i).ma120

CountHighBreakouts(i) ==
    Pairs(HighestOf({0, mainAt - ViewSpans.first}), i - 1)
      + Cardinality({j \in mainAt..(i - 1) : C(j).high * 100 > 102 * defPrice})

\* Mutant: near the main box a spread is only asked for together with a breakout.
EvaluateMainBoxPositionBasedTimingBoth(i) ==
    LET spread == IsMaSpreadExcessive(i) /\ ~HasLowTouchedMa20(i)
    IN  IF mainAt > ViewSpans.first /\ i - mainAt <= ViewSpans.near
        THEN CountHighBreakouts(i) = 0 /\ HasLowTouchedMa20(i)
        ELSE (mainAt > ViewSpans.first /\ i - mainAt > ViewSpans.far) \/ ~spread

EvaluateMainBoxPositionBasedTiming(i) ==
    LET spread == IsMaSpreadExcessive(i) /\ ~HasLowTouchedMa20(i)
        far == mainAt > ViewSpans.first /\ i - mainAt > ViewSpans.far
        near == mainAt > ViewSpans.first /\ i - mainAt <= ViewSpans.near
    IN  (far \/ ~spread) /\ (near => CountHighBreakouts(i) = 0)

EvaluateMainBoxPositionBasedTimingLess(i) ==
    (mainAt > ViewSpans.first /\ i - mainAt > ViewSpans.far) \/ ~IsMaSpreadExcessive(i)

-----------------------------------------------------------------------------
(* buy_oscillator.go: the way from the DefBox to the candle. *)

Cross20(start, i) == Crossings([j \in DOMAIN candles |-> C(j).ma20], start, i)
FirstOf(S) == IF S = {} THEN 0 ELSE LowestOf(S)

\* The gradient turns down after candle start; firstGradientChecker finds nothing otherwise.
TurnsDownIn(start, i) == \E j \in (start + 1)..i : C(j - 1).grad >= 0 /\ C(j).grad < 0

\* How the averages moved since a DefBox that closed over its day average; what came of one
\* that closed under it is not told apart.
CrossMVCheck(i) ==
    LET way == defAt..i
        crossed == \E j \in way : C(j).ma5 <= C(j).ma20
        steepest == HighestOf({0} \cup {-C(j).grad : j \in way})
    IN  IF C(defAt).close <= C(defAt).ma20 THEN "under"
        ELSE IF \A j \in way : C(j).grad > 0 THEN "rising"
        ELSE IF steepest <= C(i).grad THEN IF crossed THEN "deep pullback" ELSE "pullback"
        ELSE IF crossed THEN "crossed" ELSE "none"

\* The price comes back over the day average, and has not turned since it last opened under it.
PiercingLimitBreakthrough(i) ==
    LET opens == {j \in defAt..i : C(j).open < C(j).ma20}
    IN  /\ C(defAt).close >= C(defAt).ma20 /\ C(i).close > C(i).ma20
        /\ opens # {} /\ ~TurnsDownIn(HighestOf(opens), i) /\ C(i).close >= defPrice

CountPricesBelowMa60(i) == Cardinality({j \in defAt..i : C(j).close < C(j).ma60 \/ C(j).open < C(j).ma60})

\* One crossing, or two running, that end bullish in a pullback.
EvaluateUpwardMomentum(first, last, i) ==
    /\ first > 0
    /\ last = first \/ (last = first + 1 /\ Bearish(first))
    /\ Bullish(last) /\ CrossMVCheck(i) = "pullback"

\* Mutant: looks back from the last crossing.
NoGradientReversalLast(i) ==
    LET last == HighestOf(Cross20(defAt, i) \cup {0}) IN last > 0 /\ ~TurnsDownIn(last, i)

\* A rising first crossing is left out.
NoGradientReversal(i) ==
    LET first == FirstOf(Cross20(defAt, i))
    IN  first > 0 /\ ~TurnsDownIn(IF C(first).grad > 0 THEN first + 1 ELSE first, i)

\* After a bearish first crossing and a bullish candle no candle that is not bullish followed.
ConsistentUpTrend(i) ==
    LET crossings == Cross20(defAt, i)
        first == FirstOf(crossings)
        way == first..HighestOf(crossings)
        bullish == {j \in way : ~Bearish(j)}
    IN  \/ first = 0 \/ ~Bearish(first) \/ bullish = {}
        \/ \E j \in way : j >= LowestOf(bullish) /\ ~Bullish(j)
        \/ CrossMVCheck(i) \notin {"pullback", "deep pullback", "rising"}

RefusedByPierce(i) ==
    LET crossings == Cross20(defAt + 1, i)
    IN  /\ crossings # {}
        /\ PiercingLimitBreakthrough(i)
        /\ ~EvaluateUpwardMomentum(FirstOf(crossings), HighestOf(crossings), i)
        /\ CountPricesBelowMa60(i) = 0 /\ NoGradientReversal(i) /\ ConsistentUpTrend(i)

\* The last box is a support that closed under the sixty-day average, and the gradient has not
\* turned down since it became known.
RefusedBySupport(i) ==
    LET b == view.boxes[Len(view.boxes)]
    IN  /\ Len(view.boxes) > view.def
        /\ b.type = "support" /\ C(b.at).close < C(b.at).ma60
        /\ ~TurnsDownIn(b.curve - 1, i)

EvaluatePenetrationOption(i) == ~RefusedByPierce(i) /\ ~RefusedBySupport(i)

Refusals(i) == {r \in {"pierce", "support"} :
                  IF r = "pierce" THEN RefusedByPierce(i) ELSE ~RefusedByPierce(i) /\ RefusedBySupport(i)}

-----------------------------------------------------------------------------
\* What the conditions say at candle i; those that do not look at the candle are left out.
BuyConditions(i) ==
    [IsDefBoxBreakout |-> IsDefBoxBreakout(i), IsDefBoxBreakdown |-> IsDefBoxBreakdown(i),
     IsCloseNearDefboxPrice |-> IsCloseNearDefboxPrice(i),
     IsMainboxCloserThanCurrentPosition |-> IsMainboxCloserThanCurrentPosition(i),
     IsMainboxDistanceTwiceOrMore |-> IsMainboxDistanceTwiceOrMore(i),
     IsBoxConditionValid |-> IsAdditionalBoxConditionValid(i),
     IsBoxDensityValidByDistribution |-> IsBoxDensityValidByDistribution(i),
     MultiDefDamCountMax2 |-> GetMultiDefboxDamCount(i) <= 2,
     IsMultiDefRelaxedDamCondition |-> IsMultiDefRelaxedDamCondition(i),
     IsBullishCandle |-> Bullish(i), HasPullbackOrCorrection |-> HasPullbackOrCorrection(i),
     IsMa20NearMa60Complex |-> IsMa20NearMa60WithComplexValidation(i),
     IsMa20NearMa60Simple |-> IsMa20NearMa60WithSimpleValidation(i),
     IsMa60StrongerThanMa120By2Percent |-> IsMa60StrongerThanMa120By2Percent(i),
     HasLowTouchedMa20 |-> HasLowTouchedMa20(i), IsMainboxConditionValid |-> IsMainboxConditionValid(i),
     MainBoxPositionBasedTiming |-> EvaluateMainBoxPositionBasedTiming(i),
     MainBoxPositionBasedTimingLess |-> EvaluateMainBoxPositionBasedTimingLess(i),
     IsPenetrationOptionValid |-> EvaluatePenetrationOption(i), refusals |-> Refusals(i),
     IsSingleBreakout |-> IsSingleBreakout, IsBoxConditionValid2 |-> IsBoxConditionValid2,
     IsBoxDensityValidByCount |-> IsBoxDensityValidByCount,
     IsBoxCountBetween2 |-> IsBoxCountBetweenDefAndMainLessThanOrEqual(2),
     IsBoxCountBetween5 |-> IsBoxCountBetweenDefAndMainLessThanOrEqual(5),
     HasExcessiveUpperWick |-> HasExcessiveUpperWick,
     IsMainboxPriceAboveMa60OrMa120 |-> IsMainboxPriceAboveMa60OrMa120]

BoxOf(i) == [type |-> C(i).box.type, at |-> C(i).box.at, curve |-> i,
             price |-> IF C(i).box.type = "support" THEN C(C(i).box.at).low ELSE C(C(i).box.at).high]

ViewInit ==
    /\ \E t \in ViewTapes : candles = t.candles /\ view = t.view
    /\ pos = DefBox.curve
    /\ met = << >>

\* The next candle; the box it makes known is in the list when the rules are evaluated.
ViewStep ==
    /\ pos < Last
    /\ pos' = pos + 1
    /\ view' = IF C(pos').box.type = "none" THEN view
               ELSE [view EXCEPT !.boxes = Append(@, BoxOf(pos'))]
    /\ UNCHANGED candles
    /\ met' = Append(met, BuyConditions(pos)')
-----------------------------------------------------------------------------
\* The candle of the k-th entry; the last entry is held against the ones before it.
DayOf(k) == DefBox.curve + k
Now == Len(met)

\* Along one DefBox evidence only accumulates: a pullback or a touch stays, a main box that is
\* too near and a dam that is too high stay so, whatever the window the code looks at
\* (buy_conditions_extra.go:20, 37, 50, 158).
EvidenceAccumulates ==
    \A k \in DOMAIN met :
      /\ met[k].HasPullbackOrCorrection => met[Now].HasPullbackOrCorrection
      /\ met[k].HasLowTouchedMa20 => met[Now].HasLowTouchedMa20
      /\ met[Now].MultiDefDamCountMax2 => met[k].MultiDefDamCountMax2
      /\ met[Now].IsMainboxCloserThanCurrentPosition => met[k].IsMainboxCloserThanCurrentPosition

\* Closes do not come over the DefBox price, nor fall under it, without a breakout, or a
\* breakdown, on the way (buy_conditions.go:9, 25).
CrossingsSeen ==
    \A k \in DOMAIN met : k < Now =>
      /\ C(DayOf(k)).close < defPrice /\ C(DayOf(Now)).close >= defPrice
           => \E m \in (k + 1)..Now : met[m].IsDefBoxBreakout
      /\ C(DayOf(k)).close >= defPrice /\ C(DayOf(Now)).close < defPrice
           => \E m \in (k + 1)..Now : met[m].IsDefBoxBreakdown

\* The strict form of a condition passes nothing that the other one refuses, but for breakouts
\* near the main box, which the strict form of the timing does not count
\* (buy_conditions_extra.go:90, 112, 227).
StrictFormsAreStricter ==
    met # << >> =>
      /\ met[Now].IsMa20NearMa60Simple => met[Now].IsMa20NearMa60Complex
      /\ met[Now].MainBoxPositionBasedTimingLess /\ ~met[Now].MainBoxPositionBasedTiming
           => DayOf(Now) - mainAt <= ViewSpans.near /\ CountHighBreakouts(DayOf(Now)) > 0

\* A refused penetration is not refused for the same reason once the gradient has turned down,
\* as long as no box is added.  A turn on the day after the first crossing does not count
\* (buy_oscillator.go:230, 285).
RefusalLifted ==
    \A k \in DOMAIN met :
      LET since == HighestOf({DayOf(k), FirstOf(Cross20(defAt, DayOf(k))) + 1})
      IN  met[k].refusals \cap met[Now].refusals # {}
            => \/ ~TurnsDownIn(since, DayOf(Now))
               \/ \E j \in (DayOf(k) + 1)..DayOf(Now) : C(j).box.type # "none"
=============================================================================
