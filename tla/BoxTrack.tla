------------------------------- MODULE BoxTrack -------------------------------
(***************************************************************************)
(* The box list of an analyzer along the tape.  The direction of every     *)
(* candle (Curvekey) stands in the candle: what turns it is BoxFinder's,   *)
(* and no analyzer changes the directions another one sees                 *)
(* (BoxFinder!KeysStable).                                                 *)
(*                                                                         *)
(* Three loops: the engine (stg/analyzer.go) looks for the DefBox before   *)
(* the curvature, the pattern loops after it, the plain ones not at all.   *)
(***************************************************************************)
EXTENDS CandleTape

CONSTANT DamOption    \* how often a box may have been broken before it makes a DefBox

Orders == {"plain", "pattern", "engine"}

\* The lists of the loops: prices are integers, and from the candle that only has a direction
\* on every candle has one.
Directed(t) ==
    \E n \in DOMAIN t :
      /\ n >= 5 /\ DOMAIN t = 0..n
      /\ \A j \in 0..n : \A f \in {"open", "close", "high", "low"} : t[j][f] \in Int
      /\ \A j \in 5..n : t[j].key \in {-1, 1}

Boxes == INSTANCE BoxRules WITH key <- [j \in DOMAIN candles |-> candles[j].key]

LoopStart == Boxes!First     \* the first candle only has a direction

EmptyTrack == [boxes |-> << >>, from |-> 0, defs |-> 0]

\* AnalyzeCurvature, with the direction that is given.
WithTurn(t, i) == [t EXCEPT !.boxes = Boxes!AddTurn(@, t.from, i, C(i).key)]

WithDefBox(t, i) ==
    LET r == Boxes!CheckAndCreateDefBox(t.boxes, t.defs, i, DamOption)
    IN  [t EXCEPT !.boxes = r[1], !.defs = r[2]]

\* A turn moves the start of the leg.
WithLeg(t, i) ==
    [t EXCEPT !.from = IF C(i - 1).key # C(i).key /\ t.boxes # << >>
                       THEN Boxes!CalculateExposition(t.boxes[Len(t.boxes)]) ELSE @]

\* The track after candle i.
Track(order, t, i) ==
    CASE order = "plain" -> WithLeg(WithTurn(t, i), i)
      [] order = "pattern" -> WithLeg(WithDefBox(WithTurn(t, i), i), i)
      [] order = "engine" -> WithLeg(WithTurn(WithDefBox(t, i), i), i)

\* What a loop takes for a new box of the trend: the pattern loops ask before the DefBox.
NewBox(order, t, i) ==
    Len((IF order = "engine" THEN Track("engine", t, i) ELSE WithTurn(t, i)).boxes) > Len(t.boxes)

TurnsDown(i) == C(i - 1).key > 0 /\ C(i).key < 0
TurnsUp(i) == C(i - 1).key < 0 /\ C(i).key > 0

IsDef(b) == b.kind = "def"

\* A box of a pattern; the newer one has the higher rank.
Point(b, rank) == [rank |-> rank, type |-> b.type, at |-> b.at, price |-> b.price]

\* All boxes, in the order of the list.
Entries(list) == {Point(list[k], k) : k \in DOMAIN list}

\* Mutant: DefBoxes are boxes like others.
TrendWithDefs(list) == Entries(list)

\* The turning points: a candle makes one known at most, so that they stand in the order of
\* their candles, whatever DefBoxes lie between them.
Trend(list) == {Point(list[k], list[k].curve) : k \in {j \in DOMAIN list : ~IsDef(list[j])}}

\* The last DefBox before a position, counted from 1; 0 when there is none.  The search
\* ends at the first box that does not lie before it.
FindDefBoxBefore(list, before) ==
    LET head == {k \in DOMAIN list : \A j \in 1..k : list[j].at < before}
        defs == {k \in head : IsDef(list[k])}
    IN  IF defs = {} THEN 0 ELSE HighestOf(defs)

FindLastDefBoxIndex(list) ==
    LET defs == {k \in DOMAIN list : IsDef(list[k])}
    IN  IF defs = {} THEN 0 ELSE HighestOf(defs)
=============================================================================
