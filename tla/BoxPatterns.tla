----------------------------- MODULE BoxPatterns -----------------------------
(***************************************************************************)
(* What the last turning points of a box list may form at a candle: a top  *)
(* and its collapse (cond/sell_mtop.go), a head with shoulders             *)
(* (cond/sell_hns.go), a pullback (cond/buy_pullback.go), a W              *)
(* (cond/buy_indicator.go).  Widths are thousandths.                       *)
(***************************************************************************)
EXTENDS BoxTrack

CONSTANT Bars    \* windows and distances in candles

\* Candles before the box at position p that reached the band.
BreachUpper(p) ==
    Cardinality({j \in (p - Bars.breach)..(p - 1) :
                   j >= 0 /\ Valid(C(j)) /\ C(j).high >= C(j).upper}) >= Bars.breachMin
BreachLower(p) ==
    Cardinality({j \in (p - Bars.breach)..(p - 1) :
                   j >= 0 /\ Valid(C(j)) /\ C(j).low <= C(j).lower}) >= Bars.breachMin

\* The width of the band in thousandths of the average.
BBW(j) == IF C(j).ma20 = 0 THEN 0 ELSE ((C(j).upper - C(j).lower) * 1000) \div C(j).ma20

IsBBWExpanding(p) ==
    LET past == {j \in (p - Bars.squeeze)..(p - 1) : j >= 0 /\ BBW(j) > 0}
        ref == IF p < Bars.slope THEN 0 ELSE p - Bars.slope
    IN  /\ BBW(p) > 0 /\ BBW(p) > BBW(ref)
        /\ \E j \in past : BBW(p) * 10 >= BBW(j) * 12

\* The boxes a pattern is made of, at candle i.
Window(i) == HighestOf({i - Bars.lookback, Bars.floor})
Slots(points, start, i) == {p \in points : p.at >= start /\ p.at < i}

\* The point that n newer ones follow.
Back(points, n) == CHOOSE p \in points : Cardinality({q \in points : q.rank > p.rank}) = n

\* The last points are of these types, each before the next.
IsSequence(points, types) ==
    LET point(k) == Back(points, Len(types) - k)
    IN  /\ Cardinality(points) >= Len(types)
        /\ \A k \in DOMAIN types : point(k).type = types[k]
        /\ \A k \in DOMAIN types \ {1} : point(k - 1).at < point(k).at

\* Resistance over the band, support over the average, resistance within the band.
FindBBMTopBoxPattern(list, i) ==
    LET s == Slots(Trend(list), Window(i), i)
        at(n) == Back(s, n).at
    IN  IF /\ Valid(C(i)) /\ Window(i) < i - Bars.span
           /\ IsSequence(s, <<"resistance", "support", "resistance">>)
           /\ i - at(0) <= Bars.gap
           /\ ~BreachUpper(at(0)) /\ Valid(C(at(0))) /\ C(at(0)).high < C(at(0)).upper
           /\ C(at(1)).ma20 # 0 /\ C(at(1)).close > C(at(1)).ma20
           /\ BreachUpper(at(2)) /\ IsBBWExpanding(at(2))
        THEN {[p1 |-> at(2), p2 |-> at(0)]} ELSE {}

\* Support under the band (asked for, or only noted), resistance under the average, support
\* within the band.  DefBoxes count as resistances.
FindBBWBottomBoxPattern(list, i) ==
    LET s == Slots(Entries(list), Window(i), i)
        at(n) == Back(s, n).at
    IN  IF /\ Valid(C(i)) /\ Window(i) < i - Bars.span
           /\ IsSequence(s, <<"support", "resistance", "support">>)
           /\ i - at(0) <= Bars.gap /\ ~BreachLower(at(0))
           /\ C(at(1)).ma20 # 0 /\ C(at(1)).close < C(at(1)).ma20
        THEN {[p1 |-> at(2), p2 |-> at(0), crash |-> BreachLower(at(2)) /\ IsBBWExpanding(at(2))]}
        ELSE {}

StrictW(list, i) == {p \in FindBBWBottomBoxPattern(list, i) : p.crash}

\* Left shoulder, trough, head, trough, right shoulder.
FindHNSPattern(list, i) ==
    LET s == Slots(Trend(list), IF i < Bars.hns THEN 0 ELSE i - Bars.hns, i + 1)
        b(k) == Back(s, 5 - k)
        apart == Boxes!Abs(b(1).price - b(5).price)
        lower == LowestOf({b(1).price, b(5).price})
    IN  IF /\ IsSequence(s, <<"resistance", "support", "resistance", "support", "resistance">>)
           /\ i - b(5).at <= Bars.gap
           /\ b(3).price > b(1).price /\ b(3).price > b(5).price
           /\ apart * 10 <= b(3).price
           /\ b(2).price < lower /\ b(4).price < lower
           /\ C(b(3).at).ma60 > 0 /\ C(b(3).at).ma20 > C(b(3).at).ma60
        THEN {[t1 |-> b(2).at, low1 |-> b(2).price, t2 |-> b(4).at, low2 |-> b(4).price]} ELSE {}

\* The close is under the line through the troughs.
UnderNeckline(p, i) ==
    (C(i).close - p.low1) * (p.t2 - p.t1) < (p.low2 - p.low1) * (i - p.t1)

\* Rejected at the average, then a support under it.
FindMA20PullbackPattern(list, i) ==
    LET s == Trend(list)
        r == Back(s, 1).at
        low == Back(s, 0).at
        near == {j \in (r - Bars.touch)..(r + Bars.touch) : j >= 0 /\ j < i}
    IN  IF /\ IsSequence(s, <<"resistance", "support">>)
           /\ i - low <= Bars.gap /\ low - r <= Bars.fall
           /\ C(low).ma20 > 0 /\ C(low).close < C(low).ma20
           /\ Bars.streak > 0 => IsMA20RisingStreak(r, Bars.streak)
           /\ \A j \in near : C(j).ma20 > 0 /\ C(j).close <= C(j).ma20
           /\ \E j \in near : C(j).high > C(j).ma20
        THEN {[r |-> r, s |-> low]} ELSE {}

Color(j) == IF C(j).close > C(j).open THEN 1 ELSE IF C(j).close < C(j).open THEN -1 ELSE 0

\* The first position of the run of one color that ends at j, not before a start.
RunStart(j, start) ==
    LowestOf({k \in start..j : \A h \in k..j : Color(h) = Color(j)})

\* Red, white, red, each of one or more candles: the white ones are given back, near the average.
IsMTopCollapse(i, start) ==
    LET third == RunStart(i, start)
        second == RunStart(third - 1, start)
        first == RunStart(second - 1, start)
    IN  /\ i >= 2 /\ start <= i /\ Color(i) = -1
        /\ third > start /\ Color(third - 1) = 1
        /\ second > start /\ Color(second - 1) = -1
        /\ C(i).close < Bottom("low", second..(third - 1))
        /\ C(i).ma20 > 0
        /\ \/ Bottom("low", first..i) <= C(i).ma20 /\ C(i).ma20 <= Top("high", first..i)
           \/ Boxes!Abs(C(i).close - C(i).ma20) * 100 <= 3 * C(i).ma20
=============================================================================
