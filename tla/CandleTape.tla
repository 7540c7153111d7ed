----------------------------- MODULE CandleTape -----------------------------
(***************************************************************************)
(* The candle list that the dedicated analyzers of stg walk over, from the *)
(* past to the present.  A candle is a record of integers; the turning     *)
(* point (box/curvature.go) that becomes known at a candle stands in the   *)
(* candle itself: BoxFinder shows how the boxes come about, here they are  *)
(* given.  Positions are the code's, from 0.                               *)
(***************************************************************************)
EXTENDS Integers, Sequences, FiniteSets

VARIABLES lab,       \* the study that runs
          candles,   \* its list, not written
          pos        \* the position its loop has reached; -1 before it

Last == Cardinality(DOMAIN candles) - 1
C(i) == candles[i]

HighestOf(S) == CHOOSE x \in S : \A y \in S : y <= x
LowestOf(S)  == CHOOSE x \in S : \A y \in S : x <= y

\* The highest or lowest value of a field over a set of positions.
Top(f, range)    == HighestOf({C(j)[f] : j \in range})
Bottom(f, range) == LowestOf({C(j)[f] : j \in range})

\* Sums over first..last, of a function and of a field.
SumOf(val, first, last) ==
    LET Sum[j \in (first - 1)..last] == IF j < first THEN 0 ELSE Sum[j - 1] + val[j]
    IN  IF last < first THEN 0 ELSE Sum[last]

Total(f, first, last) == SumOf([j \in first..last |-> C(j)[f]], first, last)

\* The band is known.
Valid(c) == c.upper > c.lower

Bullish(i) == C(i).close > C(i).open

\* The day average is known and rises k times up to candle i.
IsMA20RisingStreak(i, k) ==
    /\ i - k >= 0
    /\ \A j \in (i - k + 1)..i : C(j - 1).ma20 > 0 /\ C(j - 1).ma20 < C(j).ma20

\* A bullish candle closes over its average, the one before at or under it.
IsMA20BullishBreakout(i, k) ==
    /\ i >= 1 /\ C(i).ma20 > 0 /\ C(i - 1).ma20 > 0
    /\ Bullish(i)
    /\ C(i - 1).close <= C(i - 1).ma20 /\ C(i).close > C(i).ma20
    /\ k <= 0 \/ IsMA20RisingStreak(i, k)

\* Whether the closes before candle i lie over (1) or under (-1) a line; 0 before the first one
\* off the line.
SideBefore(line, start, i) ==
    LET off == {j \in start..(i - 1) : C(j).close # line[j]}
    IN  IF off = {} THEN 0
        ELSE IF C(HighestOf(off)).close > line[HighestOf(off)] THEN 1 ELSE -1

\* The candles of a span that open or close on the other side of a line than the closes before.
Crossings(line, start, end) ==
    {i \in start..end :
       LET s == SideBefore(line, start, i)
       IN  \/ s = -1 /\ (C(i).close > line[i] \/ C(i).open > line[i])
           \/ s = 1 /\ (C(i).close < line[i] \/ C(i).open < line[i])}

\* LastOscilloPosition; 0 when there is none.
LastOscillo(line, start, end) == HighestOf(Crossings(line, start, end) \cup {0})
=============================================================================
