------------------------------- MODULE BoxFinder -------------------------------
(***************************************************************************)
(* The detection of boxes (BoxRules) in the loop every analyzer of stg     *)
(* runs, from position 5 of a list of candles on.                          *)
(*                                                                         *)
(* The direction of every candle (Curvekey) is kept in the candle itself,  *)
(* and the grid of study/grid.go gives one candle list to several workers  *)
(* at a time: the directions are the state they share.  An analysis is     *)
(* three steps per candle, DefBox, curvature and the store of the          *)
(* direction; the loop of stg/analyzer.go looks for the DefBox first, the  *)
(* loops of the pattern analyzers after the curvature or not at all.       *)
(***************************************************************************)
EXTENDS BoxRules

CONSTANTS
    Markets,     \* the candle lists, functions from 0..n
    Workers,     \* the analyses that may run at the same time
    Order,       \* Order[w]: "engine", "pattern" or "plain"
    DamOption,   \* DamOption[w]: how often a box may have been broken
    Rounds       \* Rounds[m]: how many analyses of list m each worker may make

\* HandleGrid leaves out lists of less than 50 candles, the loops of less than 6.
ASSUME BoxAssumption ==
    /\ \A m \in Markets : \E n \in DOMAIN m : n >= 5 /\ DOMAIN m = 0..n
    /\ Order \in [Workers -> {"engine", "pattern", "plain"}]
    /\ DamOption \in [Workers -> Nat]
    /\ \A m \in Markets : Rounds[m] \subseteq [Workers -> Nat]

\* Prices and gradients are numbers.
ASSUME CandleAssumption ==
    \A m \in Markets : \A n \in DOMAIN m :
      \A f \in {"open", "close", "high", "low", "grad"} : m[n][f] \in Int

VARIABLES
    pos,       \* ctx.Position of each analysis
    pc,        \* its next step at that position
    boxes,     \* ctx.BoxList
    turn,      \* the direction it will store
    from,      \* ctx.Exposition: where the leg starts
    defs,      \* ctx.DefChecker
    left       \* the analyses it still makes of the list

own == <<pos, pc, boxes, turn, from, defs, left>>
vars == <<candles, key, own>>

-----------------------------------------------------------------------------
(* The loop. *)

FirstStep(w) == IF Order[w] = "engine" THEN "defbox" ELSE "curve"

\* The steps of a candle end with "leg".
After(w, s) ==
    CASE s = "curve" -> "store"
      [] s = "store" -> IF Order[w] = "pattern" THEN "defbox" ELSE "leg"
      [] s = "defbox" -> IF Order[w] = "engine" THEN "curve" ELSE "leg"

Init ==
    /\ candles \in Markets
    /\ key = [i \in DOMAIN candles |-> 0]
    /\ pos = [w \in Workers |-> 0]
    /\ pc = [w \in Workers |-> "idle"]
    /\ boxes = [w \in Workers |-> << >>]
    /\ turn = [w \in Workers |-> 0]
    /\ from = [w \in Workers |-> 0]
    /\ defs = [w \in Workers |-> 0]
    /\ left \in Rounds[candles]

\* Mutant: goes on with the context of the analysis before.
StartReused(w) ==
    /\ pc[w] = "idle" /\ left[w] > 0
    /\ left' = [left EXCEPT ![w] = @ - 1]
    /\ pc' = [pc EXCEPT ![w] = "first"]
    /\ pos' = [pos EXCEPT ![w] = First]
    /\ UNCHANGED <<candles, key, boxes, turn, from, defs>>

\* A worker takes the list: a new context over candles that may hold the directions
\* of another analysis.
Start(w) ==
    /\ pc[w] = "idle" /\ left[w] > 0
    /\ left' = [left EXCEPT ![w] = @ - 1]
    /\ pc' = [pc EXCEPT ![w] = "first"]
    /\ pos' = [pos EXCEPT ![w] = First]
    /\ boxes' = [boxes EXCEPT ![w] = << >>]
    /\ from' = [from EXCEPT ![w] = 0]
    /\ defs' = [defs EXCEPT ![w] = 0]
    /\ UNCHANGED <<candles, key, turn>>

FirstCandle(w) ==
    /\ pc[w] = "first"
    /\ key' = [key EXCEPT ![First] = FirstKey]
    /\ IF First < Last
       THEN pos' = [pos EXCEPT ![w] = First + 1] /\ pc' = [pc EXCEPT ![w] = FirstStep(w)]
       ELSE pos' = pos /\ pc' = [pc EXCEPT ![w] = "idle"]
    /\ UNCHANGED <<candles, boxes, turn, from, defs, left>>

DefBoxStep(w) ==
    /\ pc[w] = "defbox"
    /\ LET r == CheckAndCreateDefBox(boxes[w], defs[w], pos[w], DamOption[w])
       IN  /\ boxes' = [boxes EXCEPT ![w] = r[1]]
           /\ defs' = [defs EXCEPT ![w] = r[2]]
    /\ pc' = [pc EXCEPT ![w] = After(w, "defbox")]
    /\ UNCHANGED <<candles, key, pos, turn, from, left>>

CurveStep(w) ==
    /\ pc[w] = "curve"
    /\ boxes' = [boxes EXCEPT ![w] = AnalyzeCurvature(@, from[w], pos[w])]
    /\ turn' = [turn EXCEPT ![w] = NextKey(key[pos[w] - 1], pos[w])]
    /\ pc' = [pc EXCEPT ![w] = After(w, "curve")]
    /\ UNCHANGED <<candles, key, pos, from, defs, left>>

\* candles[i].Curvekey = ...
StoreStep(w) ==
    /\ pc[w] = "store"
    /\ key' = [key EXCEPT ![pos[w]] = turn[w]]
    /\ pc' = [pc EXCEPT ![w] = After(w, "store")]
    /\ UNCHANGED <<candles, pos, boxes, turn, from, defs, left>>

\* A turn moves the start of the leg.
LegStep(w) ==
    /\ pc[w] = "leg"
    /\ from' = [from EXCEPT ![w] =
                 IF key[pos[w] - 1] # key[pos[w]] /\ boxes[w] # << >>
                 THEN CalculateExposition(LastOf(boxes[w])) ELSE @]
    /\ IF pos[w] < Last
       THEN pos' = [pos EXCEPT ![w] = @ + 1] /\ pc' = [pc EXCEPT ![w] = FirstStep(w)]
       ELSE pos' = pos /\ pc' = [pc EXCEPT ![w] = "idle"]
    /\ UNCHANGED <<candles, key, boxes, turn, defs, left>>

Step(w) == \/ Start(w) \/ FirstCandle(w) \/ DefBoxStep(w)
           \/ CurveStep(w) \/ StoreStep(w) \/ LegStep(w)

Next == \E w \in Workers : Step(w)

Spec == Init /\ [][Next]_vars

-----------------------------------------------------------------------------
(* Properties. *)

TypeOK ==
    /\ key \in [DOMAIN candles -> {-1, 0, 1}]
    /\ pos \in [Workers -> {0} \cup First..Last]
    /\ pc \in [Workers -> {"idle", "first", "defbox", "curve", "store", "leg"}]
    /\ turn \in [Workers -> {-1, 0, 1}]
    /\ from \in [Workers -> 0..Last]
    /\ defs \in [Workers -> Nat]
    /\ left \in [Workers -> Nat]

\* The direction of a candle, once known, is never another one: analyses of one list
\* that overlap, or follow each other, write the value they found (analyzer.go:55-59
\* calls parallel calls safe; grid.go:146 makes them on shared candles).
KeysStable == [][\A i \in DOMAIN candles : key[i] # 0 => key'[i] = key[i]]_key

\* Two analyses with the same settings have the same boxes at the same place of the
\* list, whoever ran before or between (what grid.go:342 checks by a second run).
Between(w) == pc[w] \in {"idle", FirstStep(w)} /\ pos[w] > First
SameBoxes ==
    \A v, w \in Workers :
      (/\ Order[v] = Order[w] /\ DamOption[v] = DamOption[w]
       /\ Between(v) /\ Between(w) /\ pos[v] = pos[w] /\ pc[v] = pc[w])
      => boxes[v] = boxes[w] /\ defs[v] = defs[w] /\ from[v] = from[w]

\* The turning points advance: no candle is the extreme of two legs, though a leg is
\* searched again from up to two candles before the last turn.
TurningPointsAdvance ==
    \A w \in Workers : \A i, j \in DOMAIN boxes[w] :
      (i < j /\ boxes[w][i].kind # "def" /\ boxes[w][j].kind # "def")
        => boxes[w][i].at < boxes[w][j].at

\* A box is known by a candle not before its own: the position of every box is at
\* most the one it was found at, and of a turning point before it.
NoLookAhead ==
    \A w \in Workers : \A j \in DOMAIN boxes[w] :
      LET b == boxes[w][j]
      IN  /\ b.curve <= pos[w]
          /\ b.at <= b.curve
          /\ b.kind # "def" => b.at < b.curve

\* A candle has one DefBox, and what a DefBox is linked to was in the list before it,
\* lies at or under the high of its candle and on or over its close and open.
DefBoxesLinked ==
    \A w \in Workers : \A j \in DOMAIN boxes[w] :
      LET d == boxes[w][j]
      IN  d.kind = "def" =>
            /\ \A k \in DOMAIN boxes[w] :
                 boxes[w][k].kind = "def" /\ boxes[w][k].at = d.at => k = j
            /\ d.links # << >>
            /\ \A n \in DOMAIN d.links : LET m == d.links[n] IN
                 /\ m < j /\ boxes[w][m].type = "resistance" /\ boxes[w][m].kind # "box"
                 /\ boxes[w][m].price <= candles[d.at].high
                 /\ candles[d.at].close <= boxes[w][m].price
                 /\ candles[d.at].open <= boxes[w][m].price
                 /\ boxes[w][m].at < d.at

\* The list of boxes is what its readers take it for: known by the candle, in order, one DefBox to
\* a candle, linked to resistances it broke (curvature.go:5, 42, box_creation.go:66).
BoxesSound == TypeOK /\ NoLookAhead /\ TurningPointsAdvance /\ DefBoxesLinked
=============================================================================
