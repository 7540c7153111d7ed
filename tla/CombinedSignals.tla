--------------------------- MODULE CombinedSignals ---------------------------
(***************************************************************************)
(* A W with the DefBox before it, entered by halves, and the break of a    *)
(* DefBox without a W (stg/combined_analyze.go), in one pass; and the      *)
(* analyzer of the W with a DefBox that looks for the break ahead          *)
(* (stg/wpattern_defbox.go).                                               *)
(***************************************************************************)
EXTENDS BoxPatterns

CONSTANTS
    CombinedTapes,
    BreakTimeout     \* candles a W waits for the break (20)

ASSUME CombinedAssumption ==
    /\ \A t \in CombinedTapes : Directed(t)
    /\ BreakTimeout \in Nat

VARIABLE combined    \* the loop's memory: track, pending, current DefBox, signals

EmptyCombined ==
    [track |-> EmptyTrack, pending |-> {}, current |-> 0, broken |-> FALSE, out |-> {}, ws |-> {}]

\* A strict W at a turn up with a new box (DefBoxes count here), under the average.
WsAt(before, list, i) ==
    IF TurnsUp(i) /\ Len(list) > Len(before.boxes) /\ C(i).ma20 > 0 /\ C(i).close < C(i).ma20
    THEN {[signal |-> i, p1 |-> w.p1, p2 |-> w.p2, def |-> FindDefBoxBefore(list, w.p1)] :
            w \in StrictW(list, i)}
    ELSE {}

Signal(type, w, broke) == [type |-> type, w |-> w, break |-> broke]

\* Mutant: the last day of the wait does not count.
ResolvedEarly(list, w, i) ==
    IF i - w.signal >= BreakTimeout THEN {Signal("WD", w, 0)}
    ELSE IF i > w.signal /\ C(i).close > list[w.def].price THEN {Signal("WD", w, i)}
    ELSE {}

\* What a waiting W gives at candle i: too late, broken out of, or nothing yet.
Resolved(list, w, i) ==
    IF i - w.signal > BreakTimeout THEN {Signal("WD", w, 0)}
    ELSE IF i > w.signal /\ C(i).close > list[w.def].price THEN {Signal("WD", w, i)}
    ELSE {}

\* The DefBox alone, when no W waits for it.
Alone(c, list, claimed, i) ==
    IF /\ c.current > 0 /\ ~c.broken
       /\ c.current \notin {w.def : w \in claimed}
       /\ C(i).close > list[c.current].price
    THEN {Signal("S1", [def |-> c.current], i)} ELSE {}

\* Mutant: every candle takes the last DefBox for a new one.
RenewedAlways(c, list) ==
    IF FindLastDefBoxIndex(list) > 0 THEN [c EXCEPT !.current = FindLastDefBoxIndex(list), !.broken = FALSE] ELSE c

\* A new DefBox takes the place of the current one.
Renewed(c, list) ==
    IF FindLastDefBoxIndex(list) > c.current
    THEN [c EXCEPT !.current = FindLastDefBoxIndex(list), !.broken = FALSE] ELSE c

CombinedInit ==
    /\ candles \in CombinedTapes
    /\ pos = LoopStart
    /\ combined = EmptyCombined

CombinedStep ==
    LET i == pos + 1
        c == combined
        next == Track("pattern", c.track, i)
        ws == WsAt(c.track, next.boxes, i)
        waiting == c.pending \cup {w \in ws : w.def > 0}
        alone == Alone(c, next.boxes, waiting, i)
        done == {w \in waiting : Resolved(next.boxes, w, i) # {}}
    IN  /\ pos < Last
        /\ pos' = i
        /\ combined' = Renewed([track |-> next, pending |-> waiting \ done, current |-> c.current,
                                broken |-> c.broken \/ alone # {}, ws |-> c.ws \cup ws,
                                out |-> c.out \cup alone
                                          \cup UNION {Resolved(next.boxes, w, i) : w \in done}], next.boxes)
        /\ UNCHANGED candles

\* What CombinedAnalyze returns for the list that ends here: those still waiting give a WD
\* without a break.
CombinedAnalyze == combined.out \cup {Signal("WD", w, 0) : w \in combined.pending}

\* WDefBoxAnalyze on the same list: the first close over the DefBox within the wait.
BreakOf(w, n) ==
    LET price == combined.track.boxes[w.def].price
        over == {j \in (w.signal + 1)..LowestOf({w.signal + BreakTimeout, n}) : C(j).close > price}
    IN  IF over = {} THEN 0 ELSE LowestOf(over)

-----------------------------------------------------------------------------
(* Properties. *)

\* Both analyzers see the same W with a DefBox and the same break (combined_analyze.go:34,
\* wpattern_defbox.go:30), wherever the list ends.
TwoHalvesAgree ==
    lab = "combined" =>
      {s \in CombinedAnalyze : s.type = "WD"}
        = {Signal("WD", w, BreakOf(w, pos)) : w \in {v \in combined.ws : v.def > 0}}

\* A DefBox alone is bought at its first close above, unless a W had it then: an earlier
\* close above lies in the wait of a W of the same DefBox, the day it gives up included (combined_analyze.go:101).
AloneIsFirst ==
    lab = "combined" =>
      \A s \in combined.out : s.type = "S1" =>
        LET b == combined.track.boxes[s.w.def]
        IN  \A j \in (b.curve + 1)..(s.break - 1) : C(j).close > b.price =>
              \E w \in combined.ws :
                /\ w.def = s.w.def /\ w.signal <= j
                /\ j <= (IF BreakOf(w, pos) = 0 THEN w.signal + BreakTimeout + 1 ELSE BreakOf(w, pos))
=============================================================================
