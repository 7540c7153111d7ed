------------------------- MODULE DescendingTrendline -------------------------
(***************************************************************************)
(* Two falling resistances over two equal supports, and the first close    *)
(* over the line through the resistances                                   *)
(* (stg/descending_trendline_analyze.go).  The settings are percents; a    *)
(* point of the line is a fraction, compared without division.             *)
(***************************************************************************)
EXTENDS BoxTrack

CONSTANTS
    TrendlineTapes,
    TrendlineConfigs

ASSUME TrendlineAssumption ==
    /\ \A t \in TrendlineTapes : Directed(t)
    /\ \A cfg \in TrendlineConfigs : cfg.breakdown \in Int

VARIABLE trendline    \* the loop's memory: track, arm, signals

\* The line at candle i, times Run(p); twice the floor.
Run(p) == p.r2.at - p.r1.at
LineAt(p, i) == p.r1.price * Run(p) + (p.r2.price - p.r1.price) * (i - p.r1.at)
Floor2(p) == p.s1.price + p.s2.price

\* The pattern of four boxes; a set of at most one.
buildDescendingTrendlinePattern(list, cfg) ==
    LET p == [r1 |-> list[1], s1 |-> list[2], r2 |-> list[3], s2 |-> list[4]]
        bars == p.s2.at - p.r1.at
    IN  IF /\ p.r1.type = "resistance" /\ p.s1.type = "support"
           /\ p.r2.type = "resistance" /\ p.s2.type = "support"
           /\ p.r1.at < p.s1.at /\ p.s1.at < p.r2.at /\ p.r2.at < p.s2.at
           /\ \A b \in {p.r1, p.s1, p.r2, p.s2} : b.price > 0
           /\ bars \in cfg.minBars..cfg.maxBars
           /\ (p.r1.price - p.r2.price) * 100 >= cfg.drop * p.r1.price
           /\ Boxes!Abs(p.s2.price - p.s1.price) * 100 <= cfg.tolerance * p.s1.price
           /\ p.r2.price < p.r1.price
           /\ LineAt(p, p.s2.at) * 200 > Floor2(p) * 102 * Run(p)
        THEN {p} ELSE {}

-----------------------------------------------------------------------------
(* Context of the break. *)

Gap60(j) == Boxes!Abs(C(j).ma60 - C(j).ma120)
Known60(j) == C(j).ma60 > 0 /\ C(j).ma120 > 0

\* The line meets the floor Apex2(p) / Fall2(p) candles after r1.
Fall2(p) == 2 * (p.r1.price - p.r2.price)
Apex2(p) == (2 * p.r1.price - Floor2(p)) * Run(p)

descendingLateSideways(i, cfg) ==
    LET days == (i - cfg.sideways)..(i - 1)
    IN  /\ cfg.sideways > 1 /\ i >= cfg.sideways
        /\ Bottom("low", days) > 0
        /\ (Top("high", days) - Bottom("low", days)) * 100 <= cfg.sidewaysRange * Bottom("low", days)
        /\ Boxes!Abs(C(i - 1).close - C(i - cfg.sideways).close) * 100
             <= cfg.sidewaysChange * C(i - cfg.sideways).close

descendingRecentGolden(i, cfg) ==
    \E j \in HighestOf({i - (IF cfg.golden <= 0 THEN 20 ELSE cfg.golden), 1})..i :
      /\ C(j - 1).ma60 > 0 /\ C(j - 1).ma120 > 0
      /\ C(j - 1).ma60 <= C(j - 1).ma120 /\ C(j).ma60 > C(j).ma120

descendingImminentGolden(i, cfg) ==
    /\ i >= 5 /\ Known60(i) /\ Gap60(i) * 100 <= cfg.maxGap * C(i).ma120
    /\ C(i).ma60 <= C(i).ma120
    /\ C(i).ma60 - C(i - 5).ma60 > C(i).ma120 - C(i - 5).ma120
    /\ C(i).ma60 > C(i - 5).ma60

DescendingTrendlinePassesContext(i, p, cfg) ==
    /\ "ma20" \in cfg.require => C(i).ma20 > 0 /\ C(i).close > C(i).ma20
    /\ "ma60" \in cfg.require => C(i).ma60 > 0 /\ C(i).close > C(i).ma60
    /\ "volume" \in cfg.require => C(i).volMa20 > 0 /\ C(i).volume * 100 >= C(i).volMa20 * cfg.volumeRatio
    /\ "apex" \in cfg.require => Boxes!Abs(Apex2(p) - (i - p.r1.at) * Fall2(p)) <= cfg.apexBars * Fall2(p)
    /\ "convergence" \in cfg.require =>
         LET old == i - cfg.gapLookback
         IN  /\ cfg.gapLookback > 0 /\ old >= 0 /\ Known60(i) /\ Known60(old)
             /\ Gap60(i) * C(old).ma120 < Gap60(old) * C(i).ma120
             /\ Gap60(i) * 100 <= cfg.maxGap * C(i).ma120
    /\ "sideways" \in cfg.require => descendingLateSideways(i, cfg)
    /\ CASE cfg.goldenMode = "recent" -> descendingRecentGolden(i, cfg)
         [] cfg.goldenMode = "imminent" -> descendingImminentGolden(i, cfg)
         [] cfg.goldenMode = "either" -> descendingRecentGolden(i, cfg) \/ descendingImminentGolden(i, cfg)
         [] OTHER -> TRUE

-----------------------------------------------------------------------------
(* The loop. *)

\* Mutant: the line may go on under the floor.
DroppedLate(p, i, cfg) ==
    i - p.s2.curve > cfg.wait \/ C(i).close * 200 < Floor2(p) * (100 - cfg.breakdown)

\* An arm is given up: too old, under the floor, or past the apex.
Dropped(p, i, cfg) ==
    \/ i - p.s2.curve > cfg.wait
    \/ C(i).close * 200 < Floor2(p) * (100 - cfg.breakdown)
    \/ LineAt(p, i) * 2 <= Floor2(p) * Run(p)

Edge(p, i, cfg) ==
    /\ C(i - 1).close * 100 * Run(p) <= LineAt(p, i - 1) * (100 + cfg.buffer)
    /\ C(i).close * 100 * Run(p) > LineAt(p, i) * (100 + cfg.buffer)
    /\ Bullish(i)

Breaks(arm, i, cfg) ==
    {p \in arm : /\ ~Dropped(p, i, cfg) /\ i > p.s2.curve /\ i < Last
                 /\ Edge(p, i, cfg) /\ DescendingTrendlinePassesContext(i, p, cfg)}

\* Mutant: an arm holds its place against a new pattern.
NextArmFirst(formed, kept) == IF kept = {} THEN formed ELSE kept

\* The newest pattern is the arm.
NextArm(formed, kept) == IF formed = {} THEN kept ELSE formed

TrendlineInit ==
    /\ candles \in TrendlineTapes
    /\ \E cfg \in TrendlineConfigs : trendline = [track |-> EmptyTrack, cfg |-> cfg, arm |-> {}, out |-> {}]
    /\ pos = LoopStart

TrendlineStep ==
    LET i == pos + 1
        t == trendline
        next == Track("plain", t.track, i)
        n == Len(next.boxes)
        breaks == Breaks(t.arm, i, t.cfg)
        kept == {p \in t.arm : ~Dropped(p, i, t.cfg)} \ breaks
        formed == IF n > Len(t.track.boxes) /\ n >= 4
                  THEN {p \in buildDescendingTrendlinePattern(SubSeq(next.boxes, n - 3, n), t.cfg) : p.s2.curve = i}
                  ELSE {}
    IN  /\ pos < Last
        /\ pos' = i
        /\ trendline' = [t EXCEPT !.track = next, !.arm = NextArm(formed, kept),
                                  !.out = @ \cup {[p |-> p, pos |-> i] : p \in breaks}]
        /\ UNCHANGED candles

-----------------------------------------------------------------------------
(* Properties. *)

\* A signal comes before the apex of its lines, no close has fallen through the floor since
\* its pattern, and a pattern signals once (descending_trendline_analyze.go:104).
TrendlineAlive ==
    lab = "trendline" =>
      \A s \in trendline.out :
        /\ (s.pos - s.p.r1.at) * Fall2(s.p) < Apex2(s.p)
        /\ \A j \in (s.p.s2.curve + 1)..s.pos :
             C(j).close * 200 >= Floor2(s.p) * (100 - trendline.cfg.breakdown)
        /\ \A t \in trendline.out : t.p = s.p => t = s

\* The pattern of a signal is the newest one known before its candle
\* (descending_trendline_analyze.go:120).
FreshestPattern ==
    lab = "trendline" =>
      \A s \in trendline.out : \A k \in 1..(Len(trendline.track.boxes) - 3) :
        \A p \in buildDescendingTrendlinePattern(SubSeq(trendline.track.boxes, k, k + 3), trendline.cfg) :
          p.s2.curve < s.pos => p.s2.curve <= s.p.s2.curve
=============================================================================
