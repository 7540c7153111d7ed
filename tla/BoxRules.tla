------------------------------- MODULE BoxRules -------------------------------
(***************************************************************************)
(* What a box is and when one is recorded (box/curvature.go, curve.go,     *)
(* box_price.go, box_creation.go, defbox.go).                              *)
(*                                                                         *)
(* When the five-day average turns, the extreme of the leg becomes a box;  *)
(* when a price comes back to an old resistance and closes under its       *)
(* average it leaves a DefBox, linked to the resistances (main boxes) it   *)
(* touched.                                                                *)
(*                                                                         *)
(* Positions are the code's, from 0; a box list is a sequence, from 1.     *)
(* Prices are integers, gradients hundredths.                              *)
(***************************************************************************)
EXTENDS Integers, Sequences, FiniteSets

VARIABLES
    candles,   \* the list, not written
    key        \* Curvekey of every candle: 1 up, -1 down, 0 not yet known

First == 5       \* the loops start at i = 5
Last == CHOOSE n \in DOMAIN candles : \A i \in DOMAIN candles : i <= n
Abs(x) == IF x < 0 THEN -x ELSE x

-----------------------------------------------------------------------------
(* Turning points. *)

\* Two of the last three gradients grow in the direction s.
Accelerating(s, i) ==
    LET g(j) == candles[j].grad
    IN  /\ s * g(i) > 0 /\ s * g(i - 1) > 0
        /\ Abs(g(i)) > Abs(g(i - 1)) \/ Abs(g(i - 1)) > Abs(g(i - 2))

StrongSlope(s, i) == s * candles[i].grad > 17 \/ s * candles[i - 1].grad > 17

ShortTermWeakness(i) ==
    /\ \A j \in (i - 2)..i : candles[j].close < candles[j].ma5
    /\ candles[i - 2].grad >= 0 /\ candles[i - 1].grad >= 0 /\ candles[i].grad < 0
    /\ candles[i].grad20 > candles[i].grad60 /\ candles[i].grad60 > 0

ShouldReverseToBearish(i) ==
    (Accelerating(-1, i) /\ StrongSlope(-1, i)) \/ ShortTermWeakness(i)

ShouldReverseToBullish(i) == Accelerating(1, i) /\ StrongSlope(1, i)

\* Mutant: reads the direction an earlier analysis has left in the candle itself.
NextKeyStale(prev, i) ==
    IF key[i] # 0 THEN -key[i] ELSE IF ShouldReverseToBearish(i) THEN -1 ELSE prev

\* The direction after candle i, from that of the candle before it.
NextKey(prev, i) ==
    IF \/ prev > 0 /\ ShouldReverseToBearish(i)
       \/ prev < 0 /\ ShouldReverseToBullish(i)
    THEN -prev ELSE prev

FirstKey == IF candles[First].grad >= 0 THEN 1 ELSE -1

\* Mutant: the candle of the turn belongs to the leg.
FindHighestPriceInclusive(start, end) ==
    CHOOSE i \in start..end : \A j \in start..end : candles[j].high <= candles[i].high

\* The first candle of start..(end - 1) with the highest high, the lowest low;
\* -1 when there is none.
FindHighestPrice(start, end) ==
    IF start >= end THEN -1
    ELSE CHOOSE i \in start..(end - 1) :
           \A j \in start..(end - 1) :
             /\ candles[j].high <= candles[i].high
             /\ j < i => candles[j].high < candles[i].high

FindLowestPrice(start, end) ==
    IF start >= end THEN -1
    ELSE CHOOSE i \in start..(end - 1) :
           \A j \in start..(end - 1) :
             /\ candles[j].low >= candles[i].low
             /\ j < i => candles[j].low > candles[i].low

Box(kind, type, at, price, curve, links) ==
    [kind |-> kind, type |-> type, at |-> at, price |-> price,
     curve |-> curve, links |-> links]

LastOf(list) == list[Len(list)]
LastIs(list, kinds, at, price) ==
    /\ list # << >>
    /\ LastOf(list).kind \in kinds /\ LastOf(list).at = at /\ LastOf(list).price = price

\* Mutant: a DefBox at the candle is enough, whatever its price.
AddHighBoxUnder(list, at, i) ==
    IF list # << >> /\ LastOf(list).kind = "def" /\ LastOf(list).at = at THEN list
    ELSE Append(list, Box("box", "resistance", at, candles[at].high, i, << >>))

AddHighBox(list, at, i) ==
    IF LastIs(list, {"box", "def"}, at, candles[at].high) THEN list
    ELSE Append(list, Box("box", "resistance", at, candles[at].high, i, << >>))

AddLowBox(list, at, i) ==
    IF LastIs(list, {"box"}, at, candles[at].low) THEN list
    ELSE Append(list, Box("box", "support", at, candles[at].low, i, << >>))

\* The box list after the direction of candle i is known to be next.
AddTurn(list, start, i, next) ==
    LET prev == key[i - 1]
        high == FindHighestPrice(start, i)
        low == FindLowestPrice(start, i)
    IN  CASE next = prev -> list
          [] prev > 0 /\ next # prev -> IF high >= 0 THEN AddHighBox(list, high, i) ELSE list
          [] prev < 0 /\ next # prev -> IF low >= 0 THEN AddLowBox(list, low, i) ELSE list

AnalyzeCurvature(list, start, i) == AddTurn(list, start, i, NextKey(key[i - 1], i))

\* Mutant: the next leg starts at the extreme of the last one.
CalculateExpositionAtBox(b) == IF b.at + 1 >= b.curve - 3 THEN b.at ELSE b.curve - 2

\* Mutant: goes on two candles after the turn.
CalculateExpositionAhead(b) == IF b.at + 1 >= b.curve - 3 THEN b.at + 1 ELSE b.curve + 2

CalculateExposition(b) == IF b.at + 1 >= b.curve - 3 THEN b.at + 1 ELSE b.curve - 2

-----------------------------------------------------------------------------
(* DefBoxes. *)

\* The prices from one candle before the last turn up to candle i.
FindDefBoxPrices(curve, i) ==
    LET range == (IF curve > 0 THEN curve - 1 ELSE 0)..i
        top(f) == CHOOSE v \in {candles[j][f] : j \in range} :
                    \A j \in range : candles[j][f] <= v
    IN  [high |-> top("high"), close |-> top("close"), open |-> top("open"),
         at |-> CHOOSE j \in range :
                  /\ candles[j].high = top("high")
                  /\ \A k \in range : k < j => candles[k].high < top("high")]

IsDefBoxEntryCondition(list, i) ==
    /\ candles[i].close < candles[i].ma5 /\ candles[i - 1].close >= candles[i - 1].ma5
    /\ list # << >> /\ LastOf(list).type = "support"

CalculateBoxDamage(price, start, end) ==
    Cardinality({j \in (start + 3)..(end - 1) :
                   /\ candles[j - 2].close <= price
                   /\ candles[j - 1].close > price /\ candles[j].close > price})

IsBoxBreakout(p, b) ==
    p.high >= b.price /\ p.close <= b.price /\ p.open <= b.price /\ b.at # p.at

ShouldCreateDefBox(b, p, i, limit) ==
    /\ b.type = "resistance"
    /\ IsBoxBreakout(p, b)
    /\ CalculateBoxDamage(b.price, b.at, i) <= limit

\* Mutant: never finds one.
FindExistingDefBoxNone(list, at) == 0

\* The index of the last DefBox at a candle, 0 when there is none.
FindExistingDefBoxAtPosition(list, at) ==
    LET found == {j \in DOMAIN list : list[j].kind = "def" /\ list[j].at = at}
    IN  IF found = {} THEN 0 ELSE CHOOSE j \in found : \A k \in found : k <= j

\* 0.0001 is less than the difference of two prices.
ShouldUpdateDefBox(list, at, price) ==
    list # << >> /\ (LastOf(list).at # at \/ LastOf(list).price # price)

\* What box j of the list does, when it is touched, to the list and the counter.
TouchBox(list, j, p, i) ==
    LET b == list[j]
        marked == [list EXCEPT ![j].kind = IF @ = "def" THEN @ ELSE "main"]
        e == FindExistingDefBoxAtPosition(marked, p.at)
    IN  IF e > 0 THEN [marked EXCEPT ![e].links =
                      IF \E k \in DOMAIN @ : @[k] = j THEN @ ELSE Append(@, j)]
        ELSE IF ShouldUpdateDefBox(marked, p.at, b.price)
             THEN Append(marked, Box("def", "resistance", p.at, b.price, i, <<j>>))
             ELSE marked

\* The body of the loop: what box j does to <<list, counter>>.
Damaged(r, j, p, i, limit) ==
    IF ShouldCreateDefBox(r[1][j], p, i, limit) THEN <<TouchBox(r[1], j, p, i), r[2] + 1>> ELSE r

\* Every box but the last of those before candle i, in the order of the list; the
\* number of boxes is taken before the loop appends to them.
CheckAndCreateDefBox(list, count, i, limit) ==
    LET known == Cardinality({j \in DOMAIN list : list[j].at < i})
        p == FindDefBoxPrices(list[known].curve, i)
        Loop[j \in 0..(known - 1)] ==
          IF j = 0 THEN <<list, count>> ELSE Damaged(Loop[j - 1], j, p, i, limit)
    IN  IF /\ Len(list) >= 2 /\ key[i - 1] > 0
           /\ IsDefBoxEntryCondition(list, i) /\ known > 0
        THEN Loop[known - 1] ELSE <<list, count>>
=============================================================================
