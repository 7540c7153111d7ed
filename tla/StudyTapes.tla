------------------------------ MODULE StudyTapes ------------------------------
(* Candle lists for the studies: a lead, then a few candles to choose from at  *)
(* each position; and windows of a few candles.                                *)
EXTENDS Integers, Sequences

RECURSIVE Grow(_, _)
Grow(menu, k) ==
    IF k = 0 THEN {<< >>} ELSE {Append(l, c) : l \in Grow(menu, k - 1), c \in menu[k]}
ListsOf(menu) == {[i \in 0..(Len(menu) - 1) |-> l[i + 1]] : l \in Grow(menu, Len(menu))}

\* The lists that start with six times the same candle.
Led(menu, lead) ==
    {[i \in 0..(5 + Len(menu)) |-> IF i < 6 THEN lead ELSE l[i - 5]] : l \in Grow(menu, Len(menu))}

\* No list for a study that does not run.
Nothing == {}

-----------------------------------------------------------------------------
(* Three waves. *)

NoBox == [type |-> "none", at |-> 0]
WaveCandle(o, h, l, c, v, ma, obv, atr) ==
    [open |-> o, high |-> h, low |-> l, close |-> c, volume |-> v, ma20 |-> ma, obv |-> obv,
     atr |-> atr, box |-> NoBox]

Quiet == WaveCandle(100, 101, 99, 100, 10, 100, 0, 5)
Quiet2 == WaveCandle(100, 101, 99, 100, 12, 100, 0, 5)
Spike == WaveCandle(100, 102, 99, 101, 50, 100, 50, 5)
Wave1 == WaveCandle(100, 111, 99, 110, 90, 100, 100, 5)
Base1 == WaveCandle(109, 110, 106, 108, 10, 101, 90, 5)
Base2 == WaveCandle(108, 109, 105, 107, 14, 102, 80, 5)
Wave2 == WaveCandle(108, 122, 107, 121, 160, 103, 300, 5)
Fall == WaveCandle(117, 118, 105, 106, 12, 107, 290, 5)
Dip == WaveCandle(107, 109, 103, 108, 16, 107, 300, 5)
Wave3 == WaveCandle(106, 112, 105, 111, 15, 108, 310, 5)
Wide == WaveCandle(111, 145, 110, 135, 500, 109, 800, 5)

WaveMenu == <<{Quiet}, {Quiet2}, {Quiet, Spike}, {Quiet2, Wave1}, {Quiet, Wave1},
          {Wave1, Base1, Quiet2}, {Base1, Base2, Wave2}, {Wave2, Fall, Base1}, {Fall, Wave3, Wave2},
          {Wave3, Wide, Fall, Dip}, {Wide, Wave3}>>

MCWaveDefault ==
    [volumeWindow |-> 2, zThreshold |-> 2, mode |-> "spike", accWindow |-> 2, accRatio |-> 120,
     obvPressure |-> 0, minLead |-> 1, maxLead |-> 3, lookback |-> 2, minReturn |-> 3,
     baseMin |-> 1, baseMax |-> 2, drawdown |-> 20, range |-> 25, volumeRatio |-> 80,
     closeRetention |-> 0, highLowRange |-> 0, lateEarly |-> 0, pattern |-> "none",
     secondSupport |-> 97, wave2Volume |-> 105, pullMin |-> 1, pullMax |-> 2, touch |-> 2,
     breakdown |-> 5, pullVolume |-> 70, streak |-> 1, climaxMax |-> 2, climaxGain |-> 15,
     climaxRange |-> 200, wick |-> 150, body |-> 8]

\* A configuration with nothing set.
Unset == [f \in DOMAIN MCWaveDefault |-> IF f \in {"mode", "pattern"} THEN "" ELSE 0]

\* Boxes of the base: a support or a resistance one or two candles back.
BoxLists ==
    {[i \in 0..11 |->
        IF i \in 6..10
        THEN LET b == bs[i - 5]
                 c == <<Base1, Base2, Base1, Base2, Wave2>>[i - 5]
             IN  [c EXCEPT !.box = IF b = "none" THEN NoBox
                   ELSE IF b = "S1" THEN [type |-> "support", at |-> i - 1]
                   ELSE IF b = "S2" THEN [type |-> "support", at |-> i - 2]
                   ELSE [type |-> "resistance", at |-> i - 1]]
        ELSE IF i = 11 THEN [Fall EXCEPT !.box = bs[6]]
        ELSE <<Quiet, Quiet2, Spike, [Quiet2 EXCEPT !.obv = 60], Wave1, Base1>>[i + 1]]
     : bs \in {<<a, b, c, d, e, f>> : a \in {"none", "S1"}, b \in {"none", "R1", "S1"},
         c \in {"none", "R1", "S1", "S2"},
                                     d \in {"none", "S1", "S2"}, e \in {"none", "S1", "S2"},
                                     f \in {NoBox, [type |-> "support", at |-> 9],
                                         [type |-> "support", at |-> 8]}}}

MCWaveStudies ==
    [candles : ListsOf(WaveMenu),
     config : {Unset, [Unset EXCEPT !.baseMax = 1, !.minLead = 2, !.streak = 0, !.closeRetention = 50]}]
    \cup [candles : BoxLists,
          config : {[MCWaveDefault EXCEPT !.baseMax = 6, !.pattern = "srs"],
                    [Unset EXCEPT !.baseMax = 6, !.mode = "cumulative_obv", !.lateEarly = 150,
                        !.pattern = "srs_support_held"]}]

MCPullbackConfigs ==
    {[stage |-> s, minWait |-> w, maxWait |-> 3, minDepth |-> d, maxDepth |-> x, entryVolume |-> 70,
      averageVolume |-> 60, confirmation |-> c, structure |-> st, tolerance |-> 6] :
       s \in {1, 2}, w \in {0, 2}, d \in {1}, x \in {15}, c \in {"close_up", "prev_high"},
           st \in {"none", "breakout_floor"}}
    \cup {[stage |-> 1, minWait |-> 3, maxWait |-> 5, minDepth |-> 0, maxDepth |-> 0, entryVolume |-> 0,
      averageVolume |-> 0, confirmation |-> "close_up", structure |-> "ma20", tolerance |-> 6]}

-----------------------------------------------------------------------------
(* Tops, heads and shoulders, pullbacks, W. *)

K(k, o, h, l, c, m) == [key |-> k, open |-> o, high |-> h, low |-> l, close |-> c, ma5 |-> m,
    ma20 |-> 95, ma60 |-> 80, upper |-> 110, lower |-> 85]
TopLead == [K(1, 100, 101, 99, 100, 99) EXCEPT !.upper = 106, !.lower = 90]

TopMenu == <<{K(1, 100, 111, 99, 104, 100), K(1, 100, 104, 99, 104, 100)},
         {K(1, 104, 112, 103, 106, 101)},
         {K(-1, 105, 105, 100, 101, 103)},
         {K(-1, 101, 102, 97, 98, 101)},
         {K(1, 98, 104, 97, 103, 101)},
         {K(1, 103, 108, 102, 106, 104), K(1, 103, 115, 102, 109, 104)},
         {K(1, 107, 112, 101, 103, 104), K(-1, 107, 112, 101, 103, 104), K(-1, 106, 107, 101, 102, 104)},
         {K(-1, 103, 104, 99, 100, 102), K(1, 102, 104, 99, 103, 102)},
         {K(-1, 100, 101, 97, 98, 101), K(-1, 98, 104, 97, 103, 100)},
         {K(1, 98, 105, 97, 104, 100), K(-1, 103, 104, 92, 94, 100)},
         {K(1, 104, 112, 103, 108, 104), K(1, 104, 108, 103, 107, 104), K(1, 107, 112, 101, 102, 104)},
         {K(-1, 107, 108, 101, 102, 104), K(1, 107, 108, 101, 102, 104), K(-1, 98, 99, 92, 93, 100)},
         {K(-1, 102, 103, 99, 100, 102), K(-1, 102, 103, 91, 92, 102)},
         {K(-1, 100, 101, 91, 92, 100), K(1, 100, 104, 99, 103, 100)}>>

L(k, o, h, l, c, m) == [K(k, o, h, l, c, m) EXCEPT !.ma20 = 105, !.lower = 90, !.upper = 115]
BLead == [K(1, 100, 100, 99, 100, 99) EXCEPT !.upper = 106, !.lower = 96]
LowMenu == <<{L(1, 100, 101, 99, 100, 100)},
            {L(-1, 100, 100, 94, 95, 99)},
            {L(-1, 95, 96, 89, 91, 97), L(-1, 95, 96, 92, 93, 97)},
            {L(-1, 91, 92, 88, 90, 94)},
            {L(1, 90, 96, 90, 95, 93)},
            {L(1, 95, 106, 95, 100, 96), L(1, 95, 100, 95, 99, 96)},
            {L(1, 100, 101, 96, 96, 97), L(-1, 100, 101, 96, 96, 97), L(-1, 100, 100, 97, 98, 97),
                L(1, 100, 106, 99, 101, 97)},
            {L(-1, 96, 97, 93, 94, 97), L(1, 96, 99, 95, 98, 97)},
            {L(-1, 98, 99, 93, 94, 97), L(-1, 94, 95, 88, 89, 97)},
            {L(1, 94, 99, 94, 98, 95), L(1, 94, 107, 94, 106, 95)},
            {L(1, 98, 108, 97, 107, 96), L(1, 98, 104, 97, 103, 96), L(1, 106, 108, 94, 95, 96)},
            {L(1, 103, 108, 102, 107, 99), L(1, 103, 104, 94, 95, 99), L(-1, 103, 104, 94, 95, 99)},
            {L(-1, 95, 96, 91, 92, 97), L(1, 95, 108, 94, 107, 97)},
            {L(1, 92, 97, 91, 96, 95), L(1, 100, 108, 94, 107, 97)}>>

\* A DefBox stands for the second of two equal tops, and a low lies between it and the turn.
E(k, o, h, l, c, m) == [K(k, o, h, l, c, m) EXCEPT !.ma20 = 104]
ELead == [TopLead EXCEPT !.ma20 = 104]
EqualMenu == <<{E(1, 100, 105, 99, 103, 101)}, {E(-1, 103, 104, 99, 100, 101)}, {E(-1, 100, 101, 96, 97, 100)},
         {E(1, 97, 100, 97, 99, 98)}, {E(1, 100, 105, 99, 104, 101), E(1, 100, 106, 99, 104, 101)},
         {E(1, 102, 103, 99, 100, 101)},
         {E(1, 100, 101, 90, 100, 101), E(1, 100, 101, 98, 100, 101), E(-1, 100, 101, 95, 97, 101)},
         {E(1, 100, 101, 95, 100, 101), E(-1, 100, 101, 94, 96, 101)},
         {E(1, 100, 101, 95, 100, 101), E(1, 96, 100, 95, 99, 97)},
         {E(1, 100, 101, 95, 100, 101), E(1, 99, 107, 98, 106, 101)},
         {E(-1, 100, 101, 95, 100, 101)}, {E(-1, 100, 101, 94, 96, 101)}, {E(1, 96, 100, 95, 99, 97)}>>

MCEqualTapes == Led(EqualMenu, ELead)
MCPatternTapes == Led(TopMenu, TopLead) \cup Led(LowMenu, BLead) \cup MCEqualTapes
MCBars == [breach |-> 2, breachMin |-> 1, squeeze |-> 5, slope |-> 4, lookback |-> 10, floor |-> 3,
           span |-> 2, gap |-> 3, hns |-> 20, touch |-> 1, fall |-> 4, streak |-> 0, window |-> 3]

-----------------------------------------------------------------------------
(* Events. *)

Day == [open |-> 100, high |-> 101, low |-> 99, close |-> 100, volume |-> 10, ma5 |-> 100, ma20 |-> 100,
      ma60 |-> 100, ma120 |-> 100, upper |-> 110, lower |-> 90, width |-> 10, percent |-> 50]
Bandless == [Day EXCEPT !.upper = 0, !.lower = 0, !.width = 0, !.percent = 0]
BandDays == {Day, [Day EXCEPT !.low = 89, !.close = 95], [Day EXCEPT !.low = 85, !.close = 88],
         [Day EXCEPT !.width = 3], [Day EXCEPT !.percent = 90, !.close = 108], Bandless}
AlignedDay == [Day EXCEPT !.ma5 = 106, !.ma20 = 104, !.ma60 = 102, !.high = 110, !.low = 104, !.close = 106]
Days6 == {AlignedDay, [AlignedDay EXCEPT !.ma5 = 103], [AlignedDay EXCEPT !.ma5 = 103, !.high = 107],
    [AlignedDay EXCEPT !.ma5 = 103, !.high = 111]}
Days11 == {AlignedDay, [AlignedDay EXCEPT !.ma20 = 105], [AlignedDay EXCEPT !.low = 101, !.close = 103],
    [AlignedDay EXCEPT !.low = 100, !.close = 101, !.open = 101],
          [AlignedDay EXCEPT !.ma20 = 105, !.low = 101, !.open = 106, !.close = 104]}
PerchDay == [Day EXCEPT !.ma20 = 110, !.ma60 = 105, !.ma5 = 108, !.high = 115, !.low = 110, !.volume = 20]
Days9 == {PerchDay, [PerchDay EXCEPT !.ma5 = 107], [PerchDay EXCEPT !.ma5 = 109, !.high = 112],
    [PerchDay EXCEPT !.ma5 = 107, !.high = 112]}
Days7 == {[Day EXCEPT !.ma20 = 95], [Day EXCEPT !.ma20 = 103], [Day EXCEPT !.ma20 = 106]}
Days14(i) == {[AlignedDay EXCEPT !.ma20 = 104 + i], [AlignedDay EXCEPT !.ma20 = 104 + i, !.open = 103,
    !.low = 99, !.close = 99]}
NearDays == {Day, [Day EXCEPT !.close = 102], [Day EXCEPT !.close = 105]}
BumpDay == [Day EXCEPT !.high = 110, !.close = 104, !.volume = 30]
OverBump == [Day EXCEPT !.high = 113, !.close = 112, !.volume = 15]
UnderBump == [Day EXCEPT !.high = 107, !.close = 106, !.volume = 12]
BumpMenu == <<{Day}, {Day}, {Day}, {BumpDay, Day}, {UnderBump, OverBump, Day}, {UnderBump, OverBump},
    {UnderBump, OverBump}, {UnderBump, OverBump, [OverBump EXCEPT !.volume = 60, !.high = 120]},
          {UnderBump, OverBump, Day}, {UnderBump, OverBump}>>
Inverted == [Day EXCEPT !.ma20 = 90, !.ma60 = 95, !.high = 98, !.close = 92]
Days2 == {Inverted, [Inverted EXCEPT !.high = 101, !.close = 95],
    [Inverted EXCEPT !.high = 99, !.close = 88, !.ma5 = 93]}

Free(S, n) == ListsOf([k \in 1..n |-> S])
NoDef == [at |-> 0, known |-> 0, price |-> 0]
MCEventTapes == [candles : Free(BandDays, 5) \cup Free(Days6, 5) \cup Free(Days11, 5) \cup Free(Days9,
    5) \cup Free(Days7, 7)
                    \cup ListsOf([k \in 1..7 |-> Days14(k)]) \cup ListsOf(BumpMenu) \cup Free(Days2, 7),
                        defbox : {NoDef}]
         \cup [candles : Free(NearDays, 6), defbox : {[at |-> 1, known |-> 2, price |-> 104]}]
MCSpans == [squeeze |-> 2, squeezeWidth |-> 4, breakout |-> 80, prior |-> 2, touch |-> 2, since |-> 2,
    aligned6 |-> 2,
   aligned11 |-> 2, grid |-> 2, gridFails |-> 2, arc |-> 2, ceiling |-> 2, turnover |-> 1000, cross |-> 5,
       settled |-> 1, pull |-> 2,
   aligned14 |-> 3, volume |-> 2, fresh |-> 2, base |-> 2, month |-> 2, history |-> 3, rest |-> 2,
       bumpWindow |-> 4, inverted |-> 2, retreat |-> 3]

-----------------------------------------------------------------------------
(* A DefBox, a crash, a W, and the break. *)

W(k, o, h, l, c, m) == [key |-> k, open |-> o, high |-> h, low |-> l, close |-> c, ma5 |-> m,
    ma20 |-> 101, ma60 |-> 80, upper |-> 115, lower |-> 90]
WLead == [W(1, 100, 101, 99, 100, 99) EXCEPT !.upper = 106, !.lower = 96]
WMenu == <<
  {W(1, 100, 105, 99, 103, 101)},  \* 6
  {W(-1, 103, 104, 99, 100, 101)},  \* 7 R0
  {W(-1, 100, 101, 96, 97, 100)},  \* 8
  {W(1, 97, 100, 97, 99, 98)},  \* 9 S0
  {W(1, 100, 106, 99, 104, 101)},  \* 10 touches
  {W(1, 102, 103, 99, 100, 101), W(-1, 102, 103, 99, 100, 101), W(1, 102, 104, 99, 102, 101)},  \* 11 DefBox
  {W(-1, 100, 101, 89, 95, 99)},  \* 12 R1
  {[W(-1, 95, 96, 85, 91, 96) EXCEPT !.upper = 125]},  \* 13 crash
  {W(1, 91, 96, 90, 95, 94), W(-1, 91, 96, 91, 95, 94)},  \* 14 P1
  {W(1, 95, 100, 94, 99, 96), W(1, 99, 107, 98, 106, 98)},  \* 15
  {W(-1, 98, 99, 95, 96, 97)},  \* 16 R2
  {W(-1, 96, 97, 93, 94, 96), W(1, 96, 97, 93, 94, 96)},  \* 17
  {W(1, 94, 99, 94, 98, 95), W(1, 94, 106, 94, 106, 95)},  \* 18 W
  {W(1, 98, 100, 97, 99, 97), W(1, 98, 107, 97, 106, 97), W(-1, 98, 100, 97, 99, 97)},  \* 19
  {W(1, 98, 100, 95, 99, 97), W(1, 98, 107, 97, 106, 97), W(-1, 98, 100, 93, 95, 97)},
  {W(1, 98, 100, 97, 99, 97), W(1, 98, 107, 97, 106, 97)},
  {W(1, 98, 100, 97, 99, 97), W(1, 98, 107, 97, 106, 97)},
  {W(1, 98, 107, 97, 106, 97)}>>
MCCombinedTapes == Led(WMenu, WLead)

-----------------------------------------------------------------------------
(* A DefBox, its break, the rise and the way back to the line. *)

R(k, o, h, l, c, m) == [key |-> k, open |-> o, high |-> h, low |-> l, close |-> c, ma5 |-> m, volume |-> 10,
    atr |-> 4, rule |-> TRUE]
RetestLead == R(1, 100, 101, 99, 100, 99)
Up == R(1, 108, 117, 106, 114, 108)
Slide == R(-1, 113, 114, 107, 109, 110)
Touch == R(-1, 107, 108, 103, 106, 108)
Reclaim == R(1, 106, 107, 100, 106, 107)
Wick == R(-1, 105, 107, 101, 106, 107)
Bounce == R(1, 106, 112, 105, 110, 107)
RetestMenu == <<
  {R(1, 100, 105, 99, 103, 101)}, {R(-1, 103, 104, 99, 100, 101)}, {R(-1, 100, 101, 96, 97, 100)},
  {R(1, 97, 100, 97, 99, 98)}, {R(1, 100, 106, 99, 104, 101)}, {R(-1, 102, 103, 99, 100, 101)},
  {R(-1, 100, 101, 98, 100, 100)},  \* 12
  {R(1, 101, 109, 100, 108, 102), [R(1, 101, 109, 100, 108, 102) EXCEPT !.rule = FALSE, !.high = 120],
      [R(1, 101, 109, 100, 108, 102) EXCEPT !.volume = 1]},
  {Up, R(1, 108, 112, 107, 110, 108), [Up EXCEPT !.key = -1]},  \* 14
  {Slide, Touch, R(1, 101, 111, 100, 108, 108)},  \* 15
  {Touch, Reclaim, Wick, [Touch EXCEPT !.close = 98, !.low = 97]},
  {Bounce, Wick, Up},
  {Bounce, [Up EXCEPT !.ma5 = 116]},
  {Bounce, Touch, [Reclaim EXCEPT !.ma5 = 105]},
  {Up, Bounce}, {Bounce}>>
MCRetestTapes == Led(RetestMenu, RetestLead)
RetestConfig == [runup |-> 10, gap |-> 8, maxBars |-> 6, touch |-> 3, undercut |-> 6, recovery |-> 1,
    breakdown |-> 5,
        window |-> 2, mode |-> "touch", wick |-> 150, rules |-> FALSE, volume |-> 500, atr |-> 0]
MCRetestConfigs == {RetestConfig, [RetestConfig EXCEPT !.mode = "undercut_reclaim", !.rules = TRUE],
    [RetestConfig EXCEPT !.mode = "long_wick_reclaim", !.atr = 5, !.runup = 5]}

-----------------------------------------------------------------------------
(* Two resistances, two supports, and the break of the line. *)

T(k, o, h, l, c, m) == [key |-> k, open |-> o, high |-> h, low |-> l, close |-> c, ma5 |-> m,
   ma20 |-> 99, ma60 |-> 100, ma120 |-> 101, volume |-> 20, volMa20 |-> 10]
TrendlineLead == [T(1, 100, 101, 99, 100, 99) EXCEPT !.ma60 = 97, !.ma120 = 101]
Early(c) == [c EXCEPT !.ma60 = 97]
FloorDay == T(1, 95, 97, 93, 94, 97)
FlatDay == T(1, 98, 101, 97, 100, 99)
BreakDay == T(1, 100, 108, 99, 107, 101)
UnderDay == T(-1, 98, 99, 88, 89, 97)
TrendlineMenu == <<
  {Early(T(1, 100, 120, 99, 118, 105))}, {Early(T(-1, 118, 119, 99, 100, 104)),
      Early(T(1, 118, 119, 99, 100, 104))}, {Early(T(-1, 100, 101, 95, 97, 100))},  \* 8
  {Early(T(1, 97, 104, 97, 103, 99)), Early(T(1, 97, 104, 92, 103, 99))},
      {Early(T(1, 103, 112, 102, 110, 103))},  \* 10
  {T(-1, 110, 111, 100, 101, 104)}, {T(-1, 101, 102, 96, 98, 101)},  \* 12
  {T(1, 98, 106, 97, 101, 99), [T(1, 98, 106, 97, 101, 99) EXCEPT !.ma60 = 102]},  \* 13
  {FlatDay, [FlatDay EXCEPT !.key = -1], BreakDay, UnderDay},  \* 14
  {FlatDay, BreakDay, [BreakDay EXCEPT !.ma20 = 108, !.volume = 10], T(1, 105, 106, 104, 105, 101)},
  {FlatDay, BreakDay},
  {FlatDay, BreakDay, [BreakDay EXCEPT !.ma60 = 103]},
  {FlatDay, FloorDay}, {BreakDay, FlatDay}, {FlatDay}>>
MCTrendlineTapes == Led(TrendlineMenu, TrendlineLead)
TrendlineConfig == [minBars |-> 4, maxBars |-> 8, drop |-> 5, tolerance |-> 5, wait |-> 6, breakdown |-> 5,
    buffer |-> 0,
   require |-> {}, volumeRatio |-> 150, apexBars |-> 3, gapLookback |-> 2, maxGap |-> 2, sideways |-> 2,
   sidewaysRange |-> 10, sidewaysChange |-> 3, golden |-> 2, goldenMode |-> "none"]
MCTrendlineConfigs == {TrendlineConfig, [TrendlineConfig EXCEPT !.require = {"ma20", "ma60", "volume"},
    !.goldenMode = "recent"],
         [TrendlineConfig EXCEPT !.require = {"apex", "sideways"}, !.goldenMode = "either"],
         [TrendlineConfig EXCEPT !.require = {"convergence"}, !.gapLookback = 10, !.goldenMode = "imminent",
             !.buffer = 1]}

-----------------------------------------------------------------------------
(* A position, held a few days. *)

H(o, h, l, c, v, m) == [open |-> o, high |-> h, low |-> l, close |-> c, volume |-> v, ma5 |-> m,
    ma20 |-> 100, ma60 |-> 98, grad |-> 1, grad20 |-> 1, width |-> 5, percent |-> 50, box |-> NoBox]
Falling(c) == [c EXCEPT !.grad = -1]
Rise == H(101, 106, 100, 104, 10, 102)
Even == H(99, 103, 98, 101, 10, 101)
Fade == H(104, 105, 101, 102, 10, 102)
Slip == H(105, 106, 97, 98, 10, 102)
Sag == Falling([H(100, 101, 92, 93, 12, 97) EXCEPT !.percent = 20, !.width = 9])
Plunge == Falling([H(92, 94, 76, 79, 40, 93) EXCEPT !.ma60 = 103, !.percent = 10, !.width = 9])
Rally == [H(80, 104, 79, 103, 20, 95) EXCEPT !.box = [type |-> "support", at |-> 4]]
GapUp == Falling([H(112, 120, 94, 95, 15, 104) EXCEPT !.box = [type |-> "resistance", at |-> 6]])
Peak == [H(102, 113, 101, 111, 20, 104) EXCEPT !.percent = 97]
SellMenu == <<{[H(99, 104, 98, 100, 10, 99) EXCEPT !.width = 2]}, {H(100, 102, 98, 99, 10, 99)},
    {H(99, 101, 97, 98, 10, 99)}, {H(98, 103, 97, 101, 14, 100)},
    {Rise, Even, Fade, Slip, Sag, GapUp}, {Rise, Fade, Slip, Sag, Plunge, Rally, Peak},
    {Rise, Slip, Sag, Plunge, Rally, GapUp}, {Even, Slip, Sag, Plunge, Rally, GapUp},
    {Rise, Slip, Sag, Plunge, Rally, Peak}>>
MCSellTapes ==
    [candles : ListsOf(SellMenu),
     holding : {[bought |-> 3, price |-> 101, main |-> 99, mainAt |-> 0, def |-> 100, defAt |-> 1,
                 known |-> 2, pen |-> 3]}]
MCSellSettings ==
    [stop |-> 20, delay |-> 2, persistent |-> 2, recoveryPeriod |-> 4, bbMinDays |-> 1, bbMaxDays |-> 2,
     bbPercent |-> 30, volatilityDays |-> 4, volatile |-> 100, lively |-> 50, strong |-> 15, medium |-> 10,
     minThreshold |-> 3000, maxThreshold |-> 1000, highDays |-> 2, highDrop |-> 5, highRise |-> 2,
     mediumDays |-> 3, ma5Near |-> 2, ma20Near |-> 3, crash |-> 10, panicDrop |-> 5, dropDays |-> 3,
     cumulative |-> 15, reversalDays |-> 2, earlyDays |-> 3, earlyDrop |-> 5, breakDays |-> 2,
     squeezeLookback |-> 6, squeezeWidth |-> 4, lowPercent |-> 25, lowCandles |-> 2, highPercent |-> 95,
     profit |-> 8, negativeLookback |-> 3, negatives |-> 2, reversalLookback |-> 3]

-----------------------------------------------------------------------------
(* A DefBox at 100 and the days after it. *)

V(o, h, l, c, m, g) == [open |-> o, high |-> h, low |-> l, close |-> c, ma5 |-> m, ma20 |-> 97,
    ma60 |-> 90, ma120 |-> 91, grad |-> g, grad60 |-> 1, grad120 |-> 0, box |-> NoBox]
Climbs == [V(98, 103, 98, 102, 98, 2) EXCEPT !.ma60 = 94, !.ma120 = 95]
Jumps == [V(101, 104, 98, 99, 99, 1) EXCEPT !.ma60 = 95, !.ma120 = 99]
Dips == V(98, 99, 95, 96, 96, -2)
Returns == V(96, 102, 95, 101, 97, 1)
Regains == V(96, 102, 95, 100, 98, -1)
Lifts == [V(94, 97, 93, 96, 95, 1) EXCEPT !.box = [type |-> "support", at |-> 12]]
Spreads == [V(99, 106, 98, 105, 100, 2) EXCEPT !.ma20 = 98, !.ma60 = 96, !.ma120 = 94]
Below == V(100, 105, 96, 99, 98, 1)
ViewMenu == <<{V(98, 101, 97, 100, 98, 1)}, {V(100, 104, 99, 102, 99, 1)}, {V(102, 103, 100, 101, 100, -1)}, {V(100, 104, 99, 103, 100, 1)},
    {V(101, 102, 97, 98, 100, -1)}, {V(98, 100, 96, 99, 98, 1)}, {V(99, 103, 98, 100, 99, 1)},
    {V(98, 100, 98, 99, 99, 1)}, {V(99, 99, 98, 98, 99, -1)}, {V(98, 98, 98, 98, 98, -1)},
    {V(97, 100, 98, 99, 98, 1)}, {V(99, 101, 98, 99, 99, 2)},
    {V(99, 99, 98, 98, 99, 1), [V(96, 97, 94, 94, 97, 1) EXCEPT !.ma60 = 95]},
    {Climbs, Jumps, Dips, Returns}, {Climbs, Returns, Regains, Lifts}, {Climbs, Dips, Regains, Spreads}, {Climbs, Jumps, Dips, Lifts}, {Climbs, Regains}>>
Resistance(at, price) == [type |-> "resistance", at |-> at, curve |-> at + 1, price |-> price]
ViewOf(old, links) ==
    [boxes |-> <<Resistance(3, 104)>> \o old \o <<Resistance(7, 100), [type |-> "support", at |-> 9, curve |-> 10,
         price |-> 97], Resistance(11, 100)>>,
     def |-> 4 + Len(old), links |-> links]
MCViewTapes ==
    [candles : ListsOf(ViewMenu),
     view : {ViewOf(<< >>, <<2>>), ViewOf(<<Resistance(6, 103)>>, <<3>>), ViewOf(<<Resistance(5, 100)>>, <<2, 3>>)}]
MCViewSpans == [nearDef |-> 4, nearMain |-> 4, density |-> 30, wick |-> 200, early |-> 4, near |-> 7, far |-> 9,
    first |-> 3, spread |-> 6]
=============================================================================
