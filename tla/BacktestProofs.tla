---------------------------- MODULE BacktestProofs ----------------------------
(***************************************************************************)
(* Theorems about Backtest, for any rules, weights, thresholds, holding    *)
(* periods and numbers of candles and positions.                           *)
(***************************************************************************)
EXTENDS Backtest, SequenceTheorems, WellFoundedInduction, TLAPS

\* The decisions of the rule engine that sell something.
SellPaths == {"critical", "composite", "extension", "forced", "expiry", "individual"}

-----------------------------------------------------------------------------
\* The rule engine.

\* A set of naturals that is not empty has a least element.
LEMMA LeastNatural ==
    ASSUME NEW T \in SUBSET Nat, T # {} PROVE \E x \in T : \A y \in T : x <= y
<1> DEFINE R == OpToRel(<, Nat)
<1>1. IsWellFoundedOn(R, Nat) BY NatLessThanWellFounded
<1>2. PICK x \in T : \A y \in T : ~(<<y, x>> \in R)
  <2> HIDE DEF R
  <2> QED BY <1>1, WFMin
<1>3. \A y \in T : ~(y < x) BY <1>2 DEF OpToRel
<1>4. QED BY <1>3

\* FirstRow picks a rule of the set.
LEMMA FirstRowIn ==
    ASSUME NEW S \in SUBSET SellRows, S # {} PROVE FirstRow(S) \in S
<1> DEFINE T == {r.line : r \in S}
<1>1. \A r \in S : r.line \in Nat BY SellAssumption DEF Row
<1>2. T \in SUBSET Nat /\ T # {} BY <1>1
<1>3. PICK x \in T : \A y \in T : x <= y BY <1>2, LeastNatural
<1>4. \E r \in S : \A o \in S : r.line <= o.line BY <1>3
<1>5. QED BY <1>4 DEF FirstRow

\* TopRow picks a rule of the set.
LEMMA TopRowIn ==
    ASSUME NEW S \in SUBSET SellRows, S # {} PROVE TopRow(S) \in S
<1> DEFINE T == {r.priority : r \in S}
           U == {r \in S : \A o \in S : r.priority <= o.priority}
<1>1. \A r \in S : r.priority \in Nat BY SellAssumption DEF Row
<1>2. T \in SUBSET Nat /\ T # {} BY <1>1
<1>3. PICK x \in T : \A y \in T : x <= y BY <1>2, LeastNatural
<1>4. U # {} BY <1>3
<1>5. FirstRow(U) \in U
  <2>1. U \in SUBSET SellRows OBVIOUS
  <2> HIDE DEF U
  <2> QED BY <1>4, <2>1, FirstRowIn
<1>6. QED BY <1>5 DEF TopRow

\* The paths of an extended holding sell all that is left.
LEMMA ExtendedShape ==
    ASSUME NEW S \in SUBSET SellRows, NEW d, d = WhileExtended(S)
    PROVE /\ d.path \in {"extension", "forced", "none"}
          /\ d.weight = Full
          /\ \E T \in SUBSET S : d.why = {x.name : x \in T}
<1>1. CASE OnPath(S, "extension") # {}
  <2>1. PICK r \in OnPath(S, "extension") : r = FirstRow(OnPath(S, "extension"))
    BY <1>1, FirstRowIn DEF OnPath
  <2>2. d = Decide("extension", r.weight, {r}) BY <1>1, <2>1 DEF WhileExtended
  <2>3. r \in S /\ r.path = "extension" BY <2>1 DEF OnPath
  <2>4. r.weight = Full BY <2>3, ExtensionSellsAll
  <2>5. d.path = "extension" /\ d.weight = Full BY <2>2, <2>4 DEF Decide
  <2>6. d.why = {x.name : x \in {r}} /\ {r} \in SUBSET S BY <2>2, <2>3 DEF Decide
  <2>7. QED BY <2>5, <2>6
<1>2. CASE OnPath(S, "extension") = {} /\ OnPath(S, "individual") # {}
  <2>1. PICK r \in OnPath(S, "individual") : r = FirstRow(OnPath(S, "individual"))
    BY <1>2, FirstRowIn DEF OnPath
  <2>2. d = Decide("forced", Full, {r}) BY <1>2, <2>1 DEF WhileExtended, ForcedWeight
  <2>3. r \in S BY <2>1 DEF OnPath
  <2>4. d.path = "forced" /\ d.weight = Full BY <2>2 DEF Decide
  <2>5. d.why = {x.name : x \in {r}} /\ {r} \in SUBSET S BY <2>2, <2>3 DEF Decide
  <2>6. QED BY <2>4, <2>5
<1>3. CASE OnPath(S, "extension") = {} /\ OnPath(S, "individual") = {}
  <2>1. d = NoSell BY <1>3 DEF WhileExtended
  <2>2. d.why = {x.name : x \in {}} BY <2>1 DEF NoSell, Decide
  <2>3. QED BY <2>1, <2>2 DEF NoSell, Decide
<1>4. QED BY <1>1, <1>2, <1>3

\* The paths of an ordinary holding; an expiry rule that is ready is taken.
LEMMA OrdinaryShape ==
    ASSUME NEW S \in SUBSET SellRows, NEW d, d = ExpiryThenIndividual(S)
    PROVE /\ d.path \in {"expiry", "individual", "none"}
          /\ d.weight \in Weights
          /\ \E T \in SUBSET S : d.why = {x.name : x \in T}
          /\ OnPath(S, "expiry") # {} => d.path = "expiry"
<1>0. \A r \in SellRows : r.weight \in Weights BY SellAssumption DEF Row
<1>1. CASE OnPath(S, "expiry") # {}
  <2>1. PICK r \in OnPath(S, "expiry") : r = FirstRow(OnPath(S, "expiry"))
    BY <1>1, FirstRowIn DEF OnPath
  <2>2. d = Decide("expiry", r.weight, {r}) BY <1>1, <2>1 DEF ExpiryThenIndividual
  <2>3. r \in S BY <2>1 DEF OnPath
  <2>4. d.path = "expiry" /\ d.weight \in Weights BY <1>0, <2>2, <2>3 DEF Decide
  <2>5. d.why = {x.name : x \in {r}} /\ {r} \in SUBSET S BY <2>2, <2>3 DEF Decide
  <2>6. QED BY <2>4, <2>5
<1>2. CASE OnPath(S, "expiry") = {} /\ OnPath(S, "individual") # {}
  <2>1. PICK r \in OnPath(S, "individual") : r = TopRow(OnPath(S, "individual"))
    BY <1>2, TopRowIn DEF OnPath
  <2>2. d = Decide("individual", r.weight, {r}) BY <1>2, <2>1 DEF ExpiryThenIndividual
  <2>3. r \in S BY <2>1 DEF OnPath
  <2>4. d.path = "individual" /\ d.weight \in Weights BY <1>0, <2>2, <2>3 DEF Decide
  <2>5. d.why = {x.name : x \in {r}} /\ {r} \in SUBSET S BY <2>2, <2>3 DEF Decide
  <2>6. QED BY <1>2, <2>4, <2>5
<1>3. CASE OnPath(S, "expiry") = {} /\ OnPath(S, "individual") = {}
  <2>1. d = NoSell BY <1>3 DEF ExpiryThenIndividual
  <2>2. d.why = {x.name : x \in {}} BY <2>1 DEF NoSell, Decide
  <2>3. d.path = "none" /\ d.weight \in Weights BY <2>1, SellAssumption DEF NoSell, Decide
  <2>4. {} \in SUBSET S OBVIOUS
  <2>5. QED BY <1>3, <2>2, <2>3, <2>4
<1>4. QED BY <1>1, <1>2, <1>3

\* What a decision is made of: rules that may trigger, and a weight.  The paths of
\* the extension are taken while it lasts, and the expiry is not looked at then.
LEMMA DecisionShape ==
    ASSUME NEW p, NEW i, NEW m, NEW d, d = SellDecision(p, i, m)
    PROVE /\ d.path \in SellPaths \cup {"none"}
          /\ d.weight \in Weights
          /\ \E T \in SUBSET CanTriggerSell(p, i, m) : d.why = {x.name : x \in T}
          /\ d.path \in {"extension", "forced"} => p.waiting /\ d.weight = Full
          /\ p.waiting => d.path \notin {"expiry", "individual"}
          /\ ~p.waiting /\ OnPath(CanTriggerSell(p, i, m), "expiry") # {}
                => d.path \in {"critical", "composite", "expiry"}
<1> DEFINE ready == CanTriggerSell(p, i, m)
           contributors == {r \in ready : r.composite > 0}
           composite == contributors # {} /\ Strength(contributors) >= Threshold[m.recovery]
<1>1. ready \in SUBSET SellRows BY DEF CanTriggerSell, Triggered
<1>2. \A r \in SellRows : r.weight \in Weights BY SellAssumption DEF Row
<1>3. Full \in Weights BY SellAssumption
<1>4. CASE OnPath(ready, "critical") # {}
  <2>1. PICK r \in OnPath(ready, "critical") : r = FirstRow(OnPath(ready, "critical"))
    BY <1>1, <1>4, FirstRowIn DEF OnPath
  <2>2. d = Decide("critical", r.weight, {r}) BY <1>4, <2>1 DEF SellDecision
  <2>3. r \in ready BY <2>1 DEF OnPath
  <2>4. d.path = "critical" /\ d.weight \in Weights BY <1>1, <1>2, <2>2, <2>3 DEF Decide
  <2>5. d.why = {x.name : x \in {r}} /\ {r} \in SUBSET ready BY <2>2, <2>3 DEF Decide
  <2>6. QED BY <2>4, <2>5 DEF SellPaths
<1>5. CASE OnPath(ready, "critical") = {} /\ composite
  <2> DEFINE w == CompositeWeight(Strength(contributors))
  <2>1. w \in Weights BY SellAssumption DEF CompositeWeight
  <2>2. d = Decide("composite", w, contributors) BY <1>5 DEF SellDecision
  <2> HIDE DEF w
  <2>3. d.path = "composite" /\ d.weight \in Weights /\ d.why = {x.name : x \in contributors}
    BY <2>1, <2>2 DEF Decide
  <2>4. contributors \in SUBSET ready OBVIOUS
  <2>5. QED BY <2>3, <2>4 DEF SellPaths
<1>6. CASE OnPath(ready, "critical") = {} /\ ~composite /\ p.waiting
  <2>1. d = WhileExtended(ready) BY <1>6 DEF SellDecision
  <2> HIDE DEF ready, composite
  <2>2. QED BY <1>1, <1>3, <1>6, <2>1, ExtendedShape DEF SellPaths, ready
<1>7. CASE OnPath(ready, "critical") = {} /\ ~composite /\ ~p.waiting
  <2>1. d = ExpiryThenIndividual(ready) BY <1>7 DEF SellDecision
  <2> HIDE DEF ready, composite
  <2>2. QED BY <1>1, <1>7, <2>1, OrdinaryShape DEF SellPaths, ready
<1>8. QED BY <1>4, <1>5, <1>6, <1>7

-----------------------------------------------------------------------------
\* Executions.

ExecPaths == SellPaths \cup {"E1", "E2", "E3", "E4"}

\* The rules that have a part in a sale are named in the strategy.
LEMMA NamesOfRules ==
    ASSUME NEW T \in SUBSET SellRows PROVE {r.name : r \in T} \in SUBSET RowNames
BY DEF RowNames

\* What an order sells of an open position is neither below the minimum nor leaves
\* a rest below it, unless nothing is left.
LEMMA QuantityBounds ==
    ASSUME NEW p \in TradePosition, p.left >= MinimumExecution, NEW w \in Weights
    PROVE LET q == SellQuantity(p, w) IN
          /\ q \in 0..p.left /\ q >= MinimumExecution
          /\ p.left - q = 0 \/ p.left - q >= MinimumExecution
          /\ w = Full => q = p.left
<1> DEFINE q == SellQuantity(p, w)
<1>1. p.left \in 0..Whole BY DEF TradePosition
<1>2. Whole \in Nat /\ MinimumExecution \in Nat /\ SmallRemaining \in Nat BY SellAssumption
<1>3. Share(p.left, Full) = p.left BY <1>1, SellAssumption
<1>4. CASE p.left <= SmallRemaining
  <2>1. q = p.left BY <1>3, <1>4 DEF SellQuantity
  <2> HIDE DEF q
  <2>2. QED BY <1>1, <1>2, <2>1 DEF q
<1>5. CASE ~(p.left <= SmallRemaining) /\ w = Full
  <2>1. q = p.left BY <1>3, <1>5 DEF SellQuantity
  <2> HIDE DEF q
  <2>2. QED BY <1>1, <1>2, <2>1 DEF q
<1>6. CASE ~(p.left <= SmallRemaining) /\ w # Full
  <2>1. q = Share(p.left, w) BY <1>6 DEF SellQuantity
  <2>2. p.left \in (SmallRemaining + 1)..Whole /\ w \in Weights \ {Full} BY <1>1, <1>2, <1>6
  <2>3. Share(p.left, w) >= MinimumExecution /\ p.left - Share(p.left, w) >= MinimumExecution
    BY <2>2, SellAssumption
  <2>4. Share(p.left, w) \in 0..p.left BY <1>1, SellAssumption
  <2> HIDE DEF q
  <2>5. QED BY <1>6, <2>1, <2>3, <2>4 DEF q
<1>7. QED BY <1>4, <1>5, <1>6

\* An execution appends one sale and changes nothing but the quantity and the flag.
OneSale(p, n, i, q, path, why) ==
    /\ n \in TradePosition
    /\ n.name = p.name /\ n.kind = p.kind /\ n.bought = p.bought /\ n.filled = p.filled
    /\ n.seen = p.seen /\ n.waiting = p.waiting /\ n.expired = p.expired
    /\ n.targetHit = p.targetHit /\ n.left = p.left - q
    /\ n.active <=> n.left > Dust
    /\ Len(n.sales) = Len(p.sales) + 1 /\ Len(p.sales) \in Nat /\ n.sales # <<>>
    /\ DOMAIN p.sales = 1..Len(p.sales) /\ DOMAIN n.sales = 1..Len(n.sales)
    /\ \A j \in 1..Len(p.sales) : n.sales[j] = p.sales[j]
    /\ n.sales[Len(n.sales)] =
          [bar |-> i, qty |-> q, after |-> p.left - q, why |-> why, path |-> path]

LEMMA ExecutedFacts ==
    ASSUME NEW p \in TradePosition, NEW i \in Bars, NEW q \in 1..p.left,
           NEW path \in ExecPaths, NEW why \in SUBSET RowNames
    PROVE OneSale(p, Executed(p, i, q, path, why), i, q, path, why)
<1> DEFINE n == Executed(p, i, q, path, why)
           e == [bar |-> i, qty |-> q, after |-> p.left - q, why |-> why, path |-> path]
<1>1. p.left \in 0..Whole /\ p.sales \in Seq(Sale) BY DEF TradePosition
<1>2. Whole \in Nat /\ Dust \in Nat BY SellAssumption
<1>3. q \in 0..Whole /\ p.left - q \in 0..Whole BY <1>1, <1>2
<1>4. e \in Sale BY <1>3 DEF Sale, ExecPaths, SellPaths
<1>5. /\ Append(p.sales, e) \in Seq(Sale) /\ Append(p.sales, e) # <<>>
      /\ Len(Append(p.sales, e)) = Len(p.sales) + 1
      /\ \A j \in 1..Len(p.sales) : Append(p.sales, e)[j] = p.sales[j]
      /\ Append(p.sales, e)[Len(p.sales) + 1] = e
  <2> HIDE DEF e
  <2> QED BY <1>1, <1>4, AppendProperties
<1>6. Len(p.sales) \in Nat /\ DOMAIN p.sales = 1..Len(p.sales) BY <1>1, LenProperties
<1>7. DOMAIN Append(p.sales, e) = 1..Len(Append(p.sales, e))
  <2> HIDE DEF e
  <2> QED BY <1>5, LenProperties
<1>8. n = [p EXCEPT !.left = p.left - q, !.active = p.left - q > Dust, !.sales = Append(p.sales, e)]
  BY DEF Executed
<1>9. n.sales = Append(p.sales, e) /\ n.left = p.left - q /\ n.active = (p.left - q > Dust)
  BY <1>8 DEF TradePosition
<1>10. (p.left - q > Dust) \in BOOLEAN BY <1>2, <1>3
<1>11. n \in TradePosition
  <2> HIDE DEF e
  <2> QED BY <1>3, <1>5, <1>8, <1>10 DEF TradePosition
<1>12. /\ n.name = p.name /\ n.kind = p.kind /\ n.bought = p.bought /\ n.filled = p.filled
       /\ n.seen = p.seen /\ n.waiting = p.waiting /\ n.expired = p.expired
       /\ n.targetHit = p.targetHit
  BY <1>8 DEF TradePosition
<1> HIDE DEF e
<1> HIDE DEF n
<1>13. OneSale(p, n, i, q, path, why)
  BY <1>5, <1>6, <1>7, <1>9, <1>11, <1>12 DEF e, OneSale
<1>14. QED BY <1>13 DEF n

\* The books stay balanced.
LEMMA ExecutedBalances ==
    ASSUME NEW p \in TradePosition, NEW i \in Bars, NEW q \in 1..p.left,
           NEW path \in ExecPaths, NEW why \in SUBSET RowNames, Balanced(p)
    PROVE Balanced(Executed(p, i, q, path, why))
<1> DEFINE n == Executed(p, i, q, path, why)
<1>0. OneSale(p, n, i, q, path, why) BY ExecutedFacts
<1> HIDE DEF n
<1>1. /\ n.left = p.left - q
      /\ n.active <=> n.left > Dust
      /\ Len(n.sales) = Len(p.sales) + 1 /\ Len(p.sales) \in Nat /\ n.sales # <<>>
      /\ DOMAIN p.sales = 1..Len(p.sales) /\ DOMAIN n.sales = 1..Len(n.sales)
      /\ \A j \in 1..Len(p.sales) : n.sales[j] = p.sales[j]
      /\ n.sales[Len(n.sales)] =
            [bar |-> i, qty |-> q, after |-> p.left - q, why |-> why, path |-> path]
  BY <1>0 DEF OneSale
<1>2. p.left \in 0..Whole /\ Whole \in Nat /\ p.sales \in Seq(Sale) BY SellAssumption DEF TradePosition
<1>3. ASSUME NEW j \in DOMAIN n.sales
      PROVE /\ n.sales[j].qty > 0
            /\ n.sales[j].after + n.sales[j].qty = IF j = 1 THEN Whole ELSE n.sales[j - 1].after
  <2>1. CASE j \in 1..Len(p.sales)
    <3>1. n.sales[j] = p.sales[j] BY <1>1, <2>1
    <3>2. j # 1 => n.sales[j - 1] = p.sales[j - 1]
      <4>1. j # 1 => j - 1 \in 1..Len(p.sales) BY <1>1, <2>1
      <4>2. QED BY <1>1, <4>1
    <3>3. QED BY <1>1, <2>1, <3>1, <3>2 DEF Balanced
  <2>2. CASE j = Len(p.sales) + 1
    <3>1. n.sales[j].qty = q /\ n.sales[j].after = p.left - q BY <1>1, <2>2
    <3>2. CASE j = 1
      <4>1. p.sales = <<>> BY <1>1, <1>2, <2>2, <3>2
      <4>2. p.left = Whole BY <4>1 DEF Balanced
      <4>3. QED BY <1>2, <3>1, <3>2, <4>2
    <3>3. CASE j # 1
      <4>1. Len(p.sales) # 0 /\ Len(p.sales) \in 1..Len(p.sales) BY <1>1, <2>2, <3>3
      <4>2. p.sales # <<>> BY <4>1
      <4>3. p.left = p.sales[Len(p.sales)].after BY <4>2 DEF Balanced
      <4>4. n.sales[j - 1] = p.sales[Len(p.sales)] BY <1>1, <2>2, <4>1
      <4>5. QED BY <1>2, <3>1, <3>3, <4>3, <4>4
    <3>4. QED BY <3>2, <3>3
  <2>3. QED BY <1>1, <2>1, <2>2
<1>4. n.left = n.sales[Len(n.sales)].after
  <2>1. n.sales[Len(n.sales)].after = p.left - q BY <1>1
  <2>2. QED BY <1>1, <2>1
<1>5. QED BY <1>1, <1>3, <1>4 DEF Balanced, n

-----------------------------------------------------------------------------
\* One position.

\* A per-candle position has been sold nothing, or a part at the target, or is closed.
PerCandleShape(p) ==
    /\ p.name \in PerCandleRules
    /\ ~p.waiting
    /\ SoldInTwo(p)
    /\ p.active => \/ Len(p.sales) = 0 /\ ~p.targetHit
                   \/ Len(p.sales) = 1 /\ p.sales[1].path = "E2" /\ p.targetHit

\* What holds of every position on candle i.
AnyPosition(p, i) ==
    /\ p \in TradePosition
    /\ Balanced(p)
    /\ p.active => p.left >= MinimumExecution
    /\ p.bought <= i /\ p.expired <= i
    /\ \A j \in DOMAIN p.sales : p.sales[j].bar <= i
    /\ InGraceOf(p, i)
    /\ EndsWhole(p)
    /\ p.kind = "daily" => p.name \notin PerCandleRules

\* The invariant of a position on candle i.
PositionInv(p, i) == AnyPosition(p, i) /\ (p.kind = "perCandle" => PerCandleShape(p))

\* Counting keeps the type, counts no rule in its grace, and touches only `seen`.
LEMMA CountedFacts ==
    ASSUME NEW p \in TradePosition, NEW i \in Bars, NEW m
    PROVE /\ SeenAfter(p, i, m) \in [RowNames -> Nat]
          /\ [p EXCEPT !.seen = SeenAfter(p, i, m)] \in TradePosition
          /\ \A r \in SellRows : InGrace(r, p, i) => SeenAfter(p, i, m)[r.name] = p.seen[r.name]
<1>1. p.seen \in [RowNames -> Nat] BY DEF TradePosition
<1>2. SeenAfter(p, i, m) \in [RowNames -> Nat] BY <1>1 DEF SeenAfter
<1>3. [p EXCEPT !.seen = SeenAfter(p, i, m)] \in TradePosition BY <1>2 DEF TradePosition
<1>4. ASSUME NEW r \in SellRows, InGrace(r, p, i)
      PROVE SeenAfter(p, i, m)[r.name] = p.seen[r.name]
  <2>1. r.name \in RowNames BY DEF RowNames
  <2>2. ASSUME NEW o \in Triggered(p, i, m), o.name = r.name PROVE FALSE
    <3>1. o \in SellRows /\ ~InGrace(o, p, i) BY DEF Triggered
    <3>2. o = r BY <2>2, <3>1, SellAssumption
    <3>3. QED BY <1>4, <3>1, <3>2
  <2>3. QED BY <2>1, <2>2 DEF SeenAfter
<1>5. QED BY <1>2, <1>3, <1>4

\* The rules of a decision have passed their grace.
LEMMA DecidedOutOfGrace ==
    ASSUME NEW p \in TradePosition, NEW i \in Bars, NEW m, NEW d, d = SellDecision(p, i, m),
           NEW r \in SellRows, r.name \in d.why, r.category \in {"Critical", "Loss"}
    PROVE i - p.bought >= MinHolding
<1>1. PICK T \in SUBSET CanTriggerSell(p, i, m) : d.why = {x.name : x \in T} BY DecisionShape
<1>2. PICK x \in T : x.name = r.name BY <1>1
<1>3. x \in Triggered(p, i, m) BY <1>1, <1>2 DEF CanTriggerSell
<1>4. x \in SellRows /\ ~InGrace(x, p, i) BY <1>3 DEF Triggered
<1>5. x = r BY <1>2, <1>4, SellAssumption
<1>6. ~(i - p.bought < MinHolding) BY <1>4, <1>5 DEF InGrace, Held
<1>7. i \in Int /\ p.bought \in Int /\ MinHolding \in Int BY SellAssumption DEF TradePosition, Bars
<1>8. QED BY <1>6, <1>7

\* Once the holding period is over, the expiry rule is ready.
LEMMA ExpiryReady ==
    ASSUME NEW p \in TradePosition, NEW i \in Bars, NEW m,
           LiquidatesOnExpiry, i - p.bought >= MaxHolding
    PROVE OnPath(CanTriggerSell(p, i, m), "expiry") # {}
<1>1. PICK r \in SellRows : /\ r.cond = "expired" /\ r.path = "expiry"
                            /\ r.category = "Expiry" /\ (r.immediate \/ r.count = 1)
  BY DEF LiquidatesOnExpiry
<1>2. ~InGrace(r, p, i) BY <1>1 DEF InGrace
<1>3. IsPeriodExpired(p, i)
  BY DEF LiquidatesOnExpiry, IsPeriodExpired, Held
<1>4. r \in Triggered(p, i, m) BY <1>1, <1>2, <1>3 DEF Triggered
<1>5. ThresholdMet(r, SeenAfter(p, i, m)[r.name], Held(p, i))
  <2>1. CASE r.immediate BY <2>1 DEF ThresholdMet
  <2>2. CASE ~r.immediate /\ r.count = 1
    <3>1. r.name \in RowNames BY DEF RowNames
    <3>2. SeenAfter(p, i, m)[r.name] = p.seen[r.name] + 1 BY <1>4, <2>2, <3>1 DEF SeenAfter
    <3>3. p.seen[r.name] \in Nat BY <3>1 DEF TradePosition
    <3>4. SeenAfter(p, i, m)[r.name] >= 1 BY <3>2, <3>3
    <3>5. QED BY <2>2, <3>4 DEF ThresholdMet
  <2>3. QED BY <1>1, <2>1, <2>2
<1>6. r \in CanTriggerSell(p, i, m) BY <1>4, <1>5 DEF CanTriggerSell
<1>7. QED BY <1>1, <1>6 DEF OnPath

\* A sale keeps the books, the grace period and the end of an extended holding.
LEMMA SaleKeeps ==
    ASSUME NEW i \in Bars, NEW p, AnyPosition(p, i), p.active, NEW q \in 1..p.left,
           p.left - q = 0 \/ p.left - q >= MinimumExecution,
           NEW path \in ExecPaths, NEW why \in SUBSET RowNames,
           \A r \in SellRows : r.name \in why /\ r.category \in {"Critical", "Loss"}
                                  => i - p.bought >= MinHolding,
           path \in {"extension", "forced"} => p.waiting /\ q = p.left,
           p.waiting => path \in {"extension", "forced", "critical", "composite"}
    PROVE AnyPosition(Executed(p, i, q, path, why), i)
<1> DEFINE n == Executed(p, i, q, path, why)
           e == [bar |-> i, qty |-> q, after |-> p.left - q, why |-> why, path |-> path]
<1>1. p \in TradePosition /\ Balanced(p) BY DEF AnyPosition
<1>2. /\ n \in TradePosition
      /\ n.name = p.name /\ n.kind = p.kind /\ n.bought = p.bought
      /\ n.seen = p.seen /\ n.waiting = p.waiting /\ n.expired = p.expired
      /\ n.left = p.left - q
      /\ n.active <=> n.left > Dust
      /\ Len(n.sales) = Len(p.sales) + 1 /\ Len(p.sales) \in Nat
      /\ DOMAIN p.sales = 1..Len(p.sales) /\ DOMAIN n.sales = 1..Len(n.sales)
      /\ \A j \in 1..Len(p.sales) : n.sales[j] = p.sales[j]
      /\ n.sales[Len(n.sales)] = e
  <2>1. OneSale(p, n, i, q, path, why) BY <1>1, ExecutedFacts
  <2> HIDE DEF n
  <2>2. QED BY <2>1 DEF OneSale
<1>3. Balanced(n) BY <1>1, ExecutedBalances
<1> HIDE DEF n
<1>4. Dust \in Nat /\ MinimumExecution \in Nat /\ p.left \in Nat /\ p.left - q \in Nat
      /\ Dust < MinimumExecution
  <2>1. Whole \in Nat /\ Dust \in Nat /\ MinimumExecution \in Nat /\ Dust < MinimumExecution
    BY SellAssumption
  <2>2. p.left \in 0..Whole BY <1>1 DEF TradePosition
  <2>3. QED BY <2>1, <2>2
<1>5. n.active => n.left >= MinimumExecution BY <1>2, <1>4
<1>6. e.bar = i /\ e.why = why /\ e.path = path OBVIOUS
<1>7. i \in Nat /\ p.expired \in Nat BY <1>1, SellAssumption DEF Bars, TradePosition
<1>8. \A j \in DOMAIN n.sales : j \in DOMAIN p.sales \/ n.sales[j] = e BY <1>2
<1>9. \A j \in DOMAIN p.sales : n.sales[j] = p.sales[j] BY <1>2
<1> HIDE DEF e
<1>10. \A j \in DOMAIN n.sales : n.sales[j].bar <= i BY <1>6, <1>7, <1>8, <1>9 DEF AnyPosition
<1>11. InGraceOf(n, i)
  <2> SUFFICES ASSUME NEW r \in SellRows, r.category \in {"Critical", "Loss"}
               PROVE /\ \A j \in DOMAIN n.sales :
                           r.name \in n.sales[j].why => n.sales[j].bar - n.bought >= MinHolding
                     /\ i - n.bought < MinHolding => n.seen[r.name] = 0
    BY DEF InGraceOf
  <2>1. i - n.bought < MinHolding => n.seen[r.name] = 0 BY <1>2 DEF AnyPosition, InGraceOf
  <2>2. ASSUME NEW j \in DOMAIN n.sales, r.name \in n.sales[j].why
        PROVE n.sales[j].bar - n.bought >= MinHolding
    <3>1. CASE j \in DOMAIN p.sales
      BY <1>2, <1>9, <2>2, <3>1 DEF AnyPosition, InGraceOf
    <3>2. CASE n.sales[j] = e BY <1>2, <1>6, <2>2, <3>2
    <3>3. QED BY <1>8, <3>1, <3>2
  <2>3. QED BY <2>1, <2>2
<1>12. EndsWhole(n)
  <2> SUFFICES ASSUME NEW j \in DOMAIN n.sales
               PROVE /\ n.sales[j].path \in {"extension", "forced"} => n.waiting /\ ~n.active
                     /\ n.waiting /\ n.sales[j].bar > n.expired =>
                           n.sales[j].path \in {"extension", "forced", "critical", "composite"}
    BY DEF EndsWhole
  <2>1. CASE j \in DOMAIN p.sales
    <3>1. n.sales[j].path \notin {"extension", "forced"} BY <1>9, <2>1 DEF AnyPosition, EndsWhole
    <3>2. n.waiting /\ n.sales[j].bar > n.expired =>
             n.sales[j].path \in {"extension", "forced", "critical", "composite"}
      BY <1>2, <1>9, <2>1 DEF AnyPosition, EndsWhole
    <3>3. QED BY <3>1, <3>2
  <2>2. CASE n.sales[j] = e
    <3>1. n.sales[j].path = path BY <1>6, <2>2
    <3>2. path \in {"extension", "forced"} => n.waiting /\ ~n.active BY <1>2, <1>4
    <3>3. QED BY <1>2, <3>1, <3>2
  <2>3. QED BY <1>8, <2>1, <2>2
<1>13. n.bought <= i /\ n.expired <= i /\ (n.kind = "daily" => n.name \notin PerCandleRules)
  BY <1>2 DEF AnyPosition
<1>14. n \in TradePosition BY <1>2
<1>15. AnyPosition(n, i) BY <1>3, <1>5, <1>10, <1>11, <1>12, <1>13, <1>14 DEF AnyPosition
<1>16. QED BY <1>15 DEF n

\* An order for a part of an open position is carried out.
LEMMA OrderIsExecuted ==
    ASSUME NEW i \in Bars, NEW p, AnyPosition(p, i), p.active, NEW w \in Weights
    PROVE LET q == SellQuantity(p, w) IN
          /\ p.left > 0 /\ q >= MinimumExecution /\ q \in 1..p.left
          /\ p.left - q = 0 \/ p.left - q >= MinimumExecution
          /\ w = Full => q = p.left
<1> DEFINE q == SellQuantity(p, w)
<1>1. p \in TradePosition /\ p.left >= MinimumExecution BY DEF AnyPosition
<1>2. /\ q \in 0..p.left /\ q >= MinimumExecution
      /\ p.left - q = 0 \/ p.left - q >= MinimumExecution
      /\ w = Full => q = p.left
  BY <1>1, QuantityBounds
<1>3. MinimumExecution \in Nat /\ MinimumExecution > 0 BY SellAssumption
<1>4. p.left \in Nat BY <1>1, SellAssumption DEF TradePosition
<1> HIDE DEF q
<1>5. QED BY <1>1, <1>2, <1>3, <1>4 DEF q

\* Pass 5b keeps a position's invariant, and leaves none that is past its holding
\* period without an extension or a sale on this candle.
LEMMA SellPassKeeps ==
    ASSUME NEW i \in Bars, NEW p, AnyPosition(p, i), p.active, p.kind = "daily", NEW m,
           NEW n, n = SellPass(p, i, m)
    PROVE /\ AnyPosition(n, i) /\ n.kind = p.kind /\ n.name = p.name
          /\ LiquidatesOnExpiry => Settled(n, i)
<1> DEFINE c == [p EXCEPT !.seen = SeenAfter(p, i, m)]
           d == SellDecision(p, i, m)
<1>1. p \in TradePosition BY DEF AnyPosition
<1>2. /\ c \in TradePosition
      /\ \A r \in SellRows : InGrace(r, p, i) => SeenAfter(p, i, m)[r.name] = p.seen[r.name]
  BY <1>1, CountedFacts
<1>3. /\ c.seen = SeenAfter(p, i, m) /\ c.name = p.name /\ c.kind = p.kind
      /\ c.bought = p.bought /\ c.active = p.active /\ c.left = p.left /\ c.sales = p.sales
      /\ c.waiting = p.waiting /\ c.expired = p.expired
  BY <1>1 DEF TradePosition
<1>4. AnyPosition(c, i)
  <2> HIDE DEF c
  <2>1. Balanced(c) BY <1>3 DEF AnyPosition, Balanced
  <2>2. EndsWhole(c) BY <1>3 DEF AnyPosition, EndsWhole
  <2>3. InGraceOf(c, i)
    <3>1. \A r \in SellRows : r.category \in {"Critical", "Loss"} /\ i - p.bought < MinHolding
             => c.seen[r.name] = 0
      BY <1>2, <1>3 DEF AnyPosition, InGraceOf, InGrace, Held
    <3>2. QED BY <1>3, <3>1 DEF AnyPosition, InGraceOf
  <2>4. QED BY <1>2, <1>3, <2>1, <2>2, <2>3 DEF AnyPosition
<1>5. /\ d.path \in SellPaths \cup {"none"}
      /\ d.weight \in Weights
      /\ \E T \in SUBSET CanTriggerSell(p, i, m) : d.why = {x.name : x \in T}
      /\ d.path \in {"extension", "forced"} => p.waiting /\ d.weight = Full
      /\ p.waiting => d.path \notin {"expiry", "individual"}
      /\ ~p.waiting /\ OnPath(CanTriggerSell(p, i, m), "expiry") # {}
            => d.path \in {"critical", "composite", "expiry"}
  <2> HIDE DEF d
  <2> QED BY DecisionShape DEF d
<1>6. d.why \in SUBSET RowNames
  <2>1. CanTriggerSell(p, i, m) \in SUBSET SellRows BY DEF CanTriggerSell, Triggered
  <2> HIDE DEF d
  <2>2. QED BY <1>5, <2>1 DEF RowNames
<1>7. \A r \in SellRows : r.name \in d.why /\ r.category \in {"Critical", "Loss"}
         => i - p.bought >= MinHolding
  BY <1>1, DecidedOutOfGrace
<1>8. LiquidatesOnExpiry /\ i - p.bought >= MaxHolding /\ ~p.waiting
         => d.path \in {"critical", "composite", "expiry"}
  <2> HIDE DEF d
  <2> QED BY <1>1, <1>5, ExpiryReady
<1>9. n = IF d.path = "none" THEN c
          ELSE IF d.path = "expiry" /\ CanExtendHolding(m)
          THEN [c EXCEPT !.waiting = TRUE, !.expired = i]
          ELSE ExecutePartialSell(c, i, d)
  BY DEF SellPass
<1> HIDE DEF c, d
<1>10. CASE d.path = "none"
  <2>1. n = c BY <1>9, <1>10
  <2>2. LiquidatesOnExpiry => Settled(n, i) BY <1>3, <1>8, <1>10, <2>1 DEF Settled
  <2>3. QED BY <1>3, <1>4, <2>1, <2>2
<1>11. CASE d.path = "expiry" /\ CanExtendHolding(m)
  <2>1. n = [c EXCEPT !.waiting = TRUE, !.expired = i] BY <1>9, <1>11
  <2>2. i \in 0..LastBar /\ i \in Nat BY SellAssumption DEF Bars
  <2>3. n \in TradePosition BY <1>2, <2>1, <2>2 DEF TradePosition
  <2>4. /\ n.seen = c.seen /\ n.name = c.name /\ n.kind = c.kind /\ n.bought = c.bought
        /\ n.active = c.active /\ n.left = c.left /\ n.sales = c.sales
        /\ n.waiting = TRUE /\ n.expired = i
    BY <1>2, <2>1 DEF TradePosition
  <2>5. Balanced(n) BY <1>4, <2>4 DEF AnyPosition, Balanced
  <2>6. InGraceOf(n, i) BY <1>4, <2>4 DEF AnyPosition, InGraceOf
  <2>7. EndsWhole(n)
    <3>1. \A j \in DOMAIN c.sales : c.sales[j].path \notin {"extension", "forced"}
      BY <1>3, <1>4 DEF AnyPosition, EndsWhole
    <3>2. \A j \in DOMAIN c.sales : c.sales[j].bar <= i BY <1>4 DEF AnyPosition
    <3>3. c.sales \in Seq(Sale) BY <1>2 DEF TradePosition
    <3>4. \A j \in DOMAIN c.sales : c.sales[j].bar \in Nat
      <4>1. \A j \in DOMAIN c.sales : c.sales[j] \in Sale BY <3>3, ElementOfSeq, LenProperties
      <4>2. QED BY <4>1, SellAssumption DEF Sale, Bars
    <3>5. \A j \in DOMAIN c.sales : ~(c.sales[j].bar > i) BY <2>2, <3>2, <3>4
    <3>6. QED BY <2>4, <3>1, <3>5 DEF EndsWhole
  <2>8. AnyPosition(n, i) BY <1>4, <2>2, <2>3, <2>4, <2>5, <2>6, <2>7 DEF AnyPosition
  <2>9. Settled(n, i) BY <2>4 DEF Settled
  <2>10. QED BY <1>3, <2>4, <2>8, <2>9
<1>12. CASE d.path # "none" /\ ~(d.path = "expiry" /\ CanExtendHolding(m))
  <2> DEFINE q == SellQuantity(c, d.weight)
  <2>1. /\ c.left > 0 /\ q >= MinimumExecution /\ q \in 1..c.left
        /\ c.left - q = 0 \/ c.left - q >= MinimumExecution
        /\ d.weight = Full => q = c.left
    BY <1>3, <1>4, <1>5, OrderIsExecuted
  <2>2. n = ExecutePartialSell(c, i, d) BY <1>9, <1>12
  <2>3. n = Executed(c, i, q, d.path, d.why) BY <1>3, <2>1, <2>2 DEF ExecutePartialSell
  <2> HIDE DEF q
  <2>4. d.path \in ExecPaths BY <1>5, <1>12 DEF ExecPaths
  <2>5. d.path \in {"extension", "forced"} => c.waiting /\ q = c.left BY <1>3, <1>5, <2>1
  <2>6. c.waiting => d.path \in {"extension", "forced", "critical", "composite"}
    BY <1>3, <1>5, <1>12 DEF SellPaths
  <2>7. \A r \in SellRows : r.name \in d.why /\ r.category \in {"Critical", "Loss"}
           => i - c.bought >= MinHolding
    BY <1>3, <1>7
  <2>8. AnyPosition(n, i) BY <1>3, <1>4, <1>6, <2>1, <2>3, <2>4, <2>5, <2>6, <2>7, SaleKeeps
  <2>9. /\ n.name = c.name /\ n.kind = c.kind /\ n.sales # <<>>
        /\ n.sales[Len(n.sales)] =
              [bar |-> i, qty |-> q, after |-> c.left - q, why |-> d.why, path |-> d.path]
    <3>1. OneSale(c, n, i, q, d.path, d.why) BY <1>2, <1>6, <2>1, <2>3, <2>4, ExecutedFacts
    <3>2. QED BY <3>1 DEF OneSale
  <2>10. Settled(n, i) BY <2>9 DEF Settled
  <2>11. QED BY <1>3, <2>8, <2>9, <2>10
<1>13. QED BY <1>10, <1>11, <1>12

\* What E2 sells is the first sale, and leaves the target as reached.
LEMMA TargetSaleKeeps ==
    ASSUME NEW i \in Bars, NEW p, PositionInv(p, i), p.active, p.kind = "perCandle",
           ~p.targetHit, NEW n,
           n = Executed([p EXCEPT !.targetHit = TRUE], i, SellQuantity(p, TargetWeight), "E2", {})
    PROVE PositionInv(n, i) /\ n.kind = p.kind /\ n.name = p.name
<1> DEFINE t == [p EXCEPT !.targetHit = TRUE]
           q == SellQuantity(p, TargetWeight)
           why == {}
<1>1. p \in TradePosition /\ AnyPosition(p, i) /\ PerCandleShape(p)
  BY DEF PositionInv, AnyPosition
<1>2. /\ t \in TradePosition
      /\ t.seen = p.seen /\ t.name = p.name /\ t.kind = p.kind /\ t.bought = p.bought
      /\ t.active = p.active /\ t.left = p.left /\ t.sales = p.sales
      /\ t.waiting = p.waiting /\ t.expired = p.expired /\ t.targetHit = TRUE
  BY <1>1 DEF TradePosition
<1>3. AnyPosition(t, i)
  <2> HIDE DEF t
  <2>1. Balanced(t) BY <1>1, <1>2 DEF AnyPosition, Balanced
  <2>2. EndsWhole(t) BY <1>1, <1>2 DEF AnyPosition, EndsWhole
  <2>3. InGraceOf(t, i) BY <1>1, <1>2 DEF AnyPosition, InGraceOf
  <2>4. QED BY <1>1, <1>2, <2>1, <2>2, <2>3 DEF AnyPosition
<1>4. TargetWeight \in Weights BY SellAssumption
<1>5. /\ q >= MinimumExecution /\ q \in 1..p.left
      /\ p.left - q = 0 \/ p.left - q >= MinimumExecution
  BY <1>1, <1>4, OrderIsExecuted
<1>6. n = Executed(t, i, q, "E2", why) OBVIOUS
<1>7. "E2" \in ExecPaths /\ why \in SUBSET RowNames /\ why = {} BY DEF ExecPaths
<1> HIDE DEF t, q, why
<1>8. ~t.waiting BY <1>1, <1>2 DEF PerCandleShape
<1>9. AnyPosition(n, i) BY <1>2, <1>3, <1>5, <1>6, <1>7, <1>8, SaleKeeps
<1>10. /\ n.name = t.name /\ n.kind = t.kind /\ n.waiting = t.waiting
       /\ n.targetHit = t.targetHit
       /\ Len(n.sales) = Len(t.sales) + 1 /\ DOMAIN n.sales = 1..Len(n.sales)
       /\ n.sales[Len(n.sales)] =
             [bar |-> i, qty |-> q, after |-> t.left - q, why |-> why, path |-> "E2"]
  <2>1. OneSale(t, n, i, q, "E2", why) BY <1>2, <1>5, <1>6, <1>7, ExecutedFacts
  <2>2. QED BY <2>1 DEF OneSale
<1>11. Len(p.sales) = 0 BY <1>1 DEF PerCandleShape
<1>12. Len(n.sales) = 1 /\ DOMAIN n.sales = 1..1 /\ n.sales[1].path = "E2"
  <2>1. Len(n.sales) = 1 BY <1>2, <1>10, <1>11
  <2>2. DOMAIN n.sales = 1..1 BY <1>10, <2>1
  <2>3. n.sales[1] = [bar |-> i, qty |-> q, after |-> t.left - q, why |-> why, path |-> "E2"]
    BY <1>10, <2>1
  <2>4. n.sales[1].path = "E2" BY <2>3
  <2>5. QED BY <2>1, <2>2, <2>4
<1>13. SoldInTwo(n)
  <2>1. \A j \in DOMAIN n.sales : j = 1 BY <1>12
  <2>2. n.targetHit BY <1>2, <1>10
  <2>3. \A j \in DOMAIN n.sales : n.sales[j].path = "E2" BY <1>12, <2>1
  <2>4. Len(n.sales) <= 2
    <3>1. 1 <= 2 OBVIOUS
    <3>2. QED BY <1>12, <3>1
  <2>5. QED BY <2>1, <2>2, <2>3, <2>4 DEF SoldInTwo
<1>14. PerCandleShape(n) BY <1>1, <1>2, <1>10, <1>12, <1>13 DEF PerCandleShape
<1>15. QED BY <1>2, <1>9, <1>10, <1>14 DEF PositionInv

\* E1, E3 and E4 sell all that is left; E3 comes after E2 only.
LEMMA WholeSaleKeeps ==
    ASSUME NEW i \in Bars, NEW p, PositionInv(p, i), p.active, p.kind = "perCandle",
           NEW path \in {"E1", "E3", "E4"}, path = "E3" => p.targetHit, NEW n,
           n = Executed(p, i, SellQuantity(p, Full), path, {})
    PROVE PositionInv(n, i) /\ n.kind = p.kind /\ n.name = p.name
<1> DEFINE q == SellQuantity(p, Full)
           why == {}
<1>1. p \in TradePosition /\ AnyPosition(p, i) /\ PerCandleShape(p)
  BY DEF PositionInv, AnyPosition
<1>2. Full \in Weights /\ Dust \in Nat BY SellAssumption
<1>3. q \in 1..p.left /\ q = p.left /\ p.left > 0 BY <1>1, <1>2, OrderIsExecuted
<1>4. p.left \in Nat /\ p.left - q = 0
  <2>1. p.left \in Nat BY <1>1, SellAssumption DEF TradePosition
  <2> HIDE DEF q
  <2>2. QED BY <1>3, <2>1
<1>5. path \in ExecPaths /\ why \in SUBSET RowNames /\ why = {} BY DEF ExecPaths
<1>6. n = Executed(p, i, q, path, why) OBVIOUS
<1> HIDE DEF q, why
<1>7. ~p.waiting BY <1>1 DEF PerCandleShape
<1>8. AnyPosition(n, i) BY <1>1, <1>3, <1>4, <1>5, <1>6, <1>7, SaleKeeps
<1>9. /\ n.name = p.name /\ n.kind = p.kind /\ n.waiting = p.waiting
      /\ n.targetHit = p.targetHit /\ n.left = p.left - q
      /\ n.active <=> n.left > Dust
      /\ Len(n.sales) = Len(p.sales) + 1 /\ DOMAIN n.sales = 1..Len(n.sales)
      /\ \A j \in 1..Len(p.sales) : n.sales[j] = p.sales[j]
      /\ n.sales[Len(n.sales)] =
            [bar |-> i, qty |-> q, after |-> p.left - q, why |-> why, path |-> path]
  <2>1. OneSale(p, n, i, q, path, why) BY <1>1, <1>3, <1>5, <1>6, ExecutedFacts
  <2>2. QED BY <2>1 DEF OneSale
<1>10. ~n.active BY <1>2, <1>4, <1>9
<1>11. n.sales[Len(n.sales)].path = path BY <1>9
<1>12. SoldInTwo(n)
  <2>1. CASE Len(p.sales) = 0 /\ ~p.targetHit
    <3>1. (\A j \in DOMAIN n.sales : j = 1) /\ Len(n.sales) = 1 BY <1>9, <2>1
    <3>2. n.sales[1].path = path /\ path # "E3" BY <1>11, <2>1, <3>1
    <3>3. Len(n.sales) <= 2
      <4>1. 1 <= 2 OBVIOUS
      <4>2. QED BY <3>1, <4>1
    <3>4. \A j \in DOMAIN n.sales : n.sales[j].path # "E3" /\ (n.sales[j].path = "E2" => FALSE)
      BY <3>1, <3>2
    <3>5. QED BY <1>10, <3>3, <3>4 DEF SoldInTwo
  <2>2. CASE Len(p.sales) = 1 /\ p.sales[1].path = "E2" /\ p.targetHit
    <3>1. (\A j \in DOMAIN n.sales : j = 1 \/ j = 2) /\ Len(n.sales) = 2 BY <1>9, <2>2
    <3>2. n.sales[2].path = path BY <1>11, <3>1
    <3>3. n.sales[1] = p.sales[1] /\ n.targetHit
      <4>1. 1 \in 1..Len(p.sales) BY <2>2
      <4>2. QED BY <1>9, <2>2, <4>1
    <3>4. n.sales[1].path = "E2" BY <2>2, <3>3
    <3>5. Len(n.sales) <= 2
      <4>1. 2 <= 2 OBVIOUS
      <4>2. QED BY <3>1, <4>1
    <3>6. ASSUME NEW j \in DOMAIN n.sales
          PROVE /\ n.sales[j].path = "E2" => j = 1 /\ n.targetHit
                /\ n.sales[j].path = "E3" => j = 2 /\ n.sales[1].path = "E2"
                /\ n.sales[j].path # "E2" => ~n.active
      <4>1. CASE j = 1 BY <3>3, <3>4, <4>1
      <4>2. CASE j = 2 BY <1>10, <3>2, <3>4, <4>2
      <4>3. QED BY <3>1, <4>1, <4>2
    <3>7. QED BY <3>5, <3>6 DEF SoldInTwo
  <2>3. QED BY <1>1, <2>1, <2>2 DEF PerCandleShape
<1>13. PerCandleShape(n) BY <1>1, <1>9, <1>10, <1>12 DEF PerCandleShape
<1>14. QED BY <1>8, <1>9, <1>13 DEF PositionInv

\* Pass 5a keeps a position's invariant.
LEMMA ExitPassKeeps ==
    ASSUME NEW i \in Bars, NEW p, PositionInv(p, i), p.active, p.kind = "perCandle", NEW c,
           NEW n, n = ExitPass(p, i, c)
    PROVE PositionInv(n, i) /\ n.kind = p.kind /\ n.name = p.name
<1> DEFINE exit == Exit15m(p, i, c)
<1>1. /\ exit \in {"E1", "E2", "E3", "E4", "none"}
      /\ exit = "E2" => ~p.targetHit
      /\ exit = "E3" => p.targetHit
  BY DEF Exit15m, TargetReached
<1>2. n = IF exit = "E2"
          THEN Executed([p EXCEPT !.targetHit = TRUE], i, SellQuantity(p, TargetWeight), exit, {})
          ELSE IF exit # "none" /\ c.priced
          THEN Executed(p, i, SellQuantity(p, Full), exit, {})
          ELSE p
  BY DEF ExitPass
<1> HIDE DEF exit
<1>3. CASE exit = "E2" BY <1>1, <1>2, <1>3, TargetSaleKeeps
<1>4. CASE exit # "E2" /\ exit # "none" /\ c.priced BY <1>1, <1>2, <1>4, WholeSaleKeeps
<1>5. CASE exit # "E2" /\ ~(exit # "none" /\ c.priced) BY <1>2, <1>5
<1>6. QED BY <1>3, <1>4, <1>5

\* A position starts with its invariant.
LEMMA NewPosition ==
    ASSUME NEW i \in Bars, NEW f \in Bars, NEW name, NEW kind,
           \/ kind = "daily" /\ name \in {"breakout", "trigger"}
           \/ kind = "perCandle" /\ name \in PerCandleRules,
           NEW n, n = NewTradePosition(name, kind, i, f)
    PROVE PositionInv(n, i) /\ n.active /\ n.name = name /\ n.kind = kind
<1>1. /\ n.name = name /\ n.kind = kind /\ n.bought = i /\ n.filled = f /\ n.active = TRUE
      /\ n.left = Whole /\ n.sales = <<>> /\ n.seen = [x \in RowNames |-> 0]
      /\ n.waiting = FALSE /\ n.expired = 0 /\ n.targetHit = FALSE
      /\ n = [name |-> n.name, kind |-> n.kind, bought |-> n.bought, filled |-> n.filled,
              active |-> n.active, left |-> n.left, sales |-> n.sales, seen |-> n.seen,
              waiting |-> n.waiting, expired |-> n.expired, targetHit |-> n.targetHit]
  BY DEF NewTradePosition
<1>2. /\ Whole \in Nat /\ Dust < Whole /\ MinimumExecution <= Whole /\ LastBar \in Nat
      /\ i \in Nat /\ i <= i /\ 0 <= i
  BY SellAssumption DEF Bars
<1>3. n \in TradePosition
  <2>1. n.left \in 0..Whole /\ n.expired \in 0..LastBar BY <1>1, <1>2
  <2>2. n.sales \in Seq(Sale) BY <1>1
  <2>3. n.seen \in [RowNames -> Nat] BY <1>1
  <2>4. n.name \in PerCandleRules \cup {"breakout", "trigger"} /\ n.kind \in {"daily", "perCandle"}
    BY <1>1
  <2>5. QED BY <1>1, <2>1, <2>2, <2>3, <2>4 DEF TradePosition
<1>4. DOMAIN n.sales = {} /\ Len(n.sales) = 0 BY <1>1
<1>5. Balanced(n) BY <1>1, <1>2, <1>4 DEF Balanced
<1>6. InGraceOf(n, i)
  <2>1. \A r \in SellRows : n.seen[r.name] = 0 BY <1>1 DEF RowNames
  <2>2. QED BY <1>4, <2>1 DEF InGraceOf
<1>7. EndsWhole(n) BY <1>4 DEF EndsWhole
<1>8. n.kind = "daily" => n.name \notin PerCandleRules BY <1>1, BacktestAssumption
<1>9. AnyPosition(n, i)
  <2>1. n.left >= MinimumExecution /\ n.bought <= i /\ n.expired <= i BY <1>1, <1>2
  <2>2. QED BY <1>3, <1>4, <1>5, <1>6, <1>7, <1>8, <2>1 DEF AnyPosition
<1>10. n.kind = "perCandle" => PerCandleShape(n)
  <2>1. SoldInTwo(n)
    <3>1. 0 <= 2 OBVIOUS
    <3>2. QED BY <1>4, <3>1 DEF SoldInTwo
  <2>2. QED BY <1>1, <1>4, <2>1 DEF PerCandleShape
<1>11. QED BY <1>1, <1>9, <1>10 DEF PositionInv

\* The next candle disturbs no position.
LEMMA NextBarKeeps ==
    ASSUME NEW i \in Bars, i < LastBar, NEW p, PositionInv(p, i)
    PROVE PositionInv(p, i + 1)
<1>1. AnyPosition(p, i) /\ p \in TradePosition BY DEF PositionInv, AnyPosition
<1>2. i \in Nat /\ MinHolding \in Nat /\ p.bought \in Nat /\ p.expired \in Nat
  BY <1>1, SellAssumption DEF Bars, TradePosition
<1>3. p.sales \in Seq(Sale) BY <1>1 DEF TradePosition
<1>4. \A j \in DOMAIN p.sales : p.sales[j].bar \in Nat
  <2>1. \A j \in DOMAIN p.sales : p.sales[j] \in Sale BY <1>3, ElementOfSeq, LenProperties
  <2>2. QED BY <2>1, SellAssumption DEF Sale, Bars
<1>5. \A j \in DOMAIN p.sales : p.sales[j].bar <= i + 1 BY <1>1, <1>2, <1>4 DEF AnyPosition
<1>6. p.bought <= i + 1 /\ p.expired <= i + 1 BY <1>1, <1>2 DEF AnyPosition
<1>7. (i + 1) - p.bought < MinHolding => i - p.bought < MinHolding BY <1>2
<1>8. InGraceOf(p, i + 1) BY <1>1, <1>7 DEF AnyPosition, InGraceOf
<1>9. QED BY <1>1, <1>5, <1>6, <1>8 DEF PositionInv, AnyPosition

-----------------------------------------------------------------------------
\* The loop.

PositionsInv == \A k \in DOMAIN positions : PositionInv(positions[k], bar)

\* Pass 5b has settled the positions before `at`; at the end of the candle, all.
SettledSoFar ==
    sell /\ LiquidatesOnExpiry =>
        /\ stage = "sells" => \A k \in Active(positions) :
              k < at /\ positions[k].kind = "daily" => Settled(positions[k], bar)
        /\ stage = "done" => \A k \in Active(positions) :
              positions[k].kind = "daily" => Settled(positions[k], bar)

IInv == TypeOK /\ PositionsInv /\ SettledSoFar /\ OneOpenPerRule /\ BuyOnMeansHolding

\* A new position is added to the others.
LEMMA AddPosition ==
    ASSUME IInv, NEW n, n \in TradePosition, positions' = Append(positions, n)
    PROVE /\ positions' \in Seq(TradePosition)
          /\ Len(positions) \in Nat /\ DOMAIN positions = 1..Len(positions)
          /\ DOMAIN positions' = 1..(Len(positions) + 1)
          /\ \A k \in DOMAIN positions : positions'[k] = positions[k]
          /\ positions'[Len(positions) + 1] = n
<1>1. positions \in Seq(TradePosition) BY DEF IInv, TypeOK
<1>2. QED BY <1>1, AppendProperties, LenProperties

\* The invariant holds at the start.
LEMMA InitInv == ASSUME Init PROVE IInv
<1>1. LastBar \in Nat \ {0} BY SellAssumption
<1>2. 1 \in Bars /\ 0 \in 0..LastBar BY <1>1 DEF Bars
<1>3. positions = <<>> /\ DOMAIN positions = {} BY DEF Init
<1>4. positions \in Seq(TradePosition) BY <1>3
<1>5. lastSignal \in [PerCandleRules -> 0..LastBar] BY <1>2 DEF Init
<1>6. TypeOK
  <2>1. sell \in BOOLEAN /\ bar \in Bars /\ buyOn \in BOOLEAN BY <1>2 DEF Init
  <2>2. stage \in Stage /\ at \in Nat \ {0} BY DEF Init, Stage
  <2>3. QED BY <1>4, <1>5, <2>1, <2>2 DEF TypeOK
<1>7. PositionsInv BY <1>3 DEF PositionsInv
<1>8. Active(positions) = {} BY <1>3 DEF Active
<1>9. SettledSoFar /\ OneOpenPerRule BY <1>8 DEF SettledSoFar, OneOpenPerRule
<1>10. BuyOnMeansHolding BY DEF Init, BuyOnMeansHolding
<1>11. QED BY <1>6, <1>7, <1>9, <1>10 DEF IInv

\* A new position whose name is its own, or a per-candle rule without an open one.
LEMMA OpeningKeeps ==
    ASSUME IInv, NEW n, PositionInv(n, bar), n.active, positions' = Append(positions, n),
           n.kind = "perCandle" => /\ n.name \in PerCandleRules
                                   /\ \A k \in Active(positions) : positions[k].name # n.name,
           n.kind = "daily" => n.name \notin PerCandleRules, bar' = bar
    PROVE /\ positions' \in Seq(TradePosition) /\ PositionsInv' /\ OneOpenPerRule'
          /\ Active(positions') # {}
<1> DEFINE last == Len(positions) + 1
<1>1. n \in TradePosition BY DEF PositionInv, AnyPosition
<1>2. /\ positions' \in Seq(TradePosition)
      /\ Len(positions) \in Nat /\ DOMAIN positions = 1..Len(positions)
      /\ DOMAIN positions' = 1..last
      /\ \A k \in DOMAIN positions : positions'[k] = positions[k]
      /\ positions'[last] = n
  BY <1>1, AddPosition
<1>3. last \in DOMAIN positions' BY <1>2
<1>4. \A k \in DOMAIN positions' : k \in DOMAIN positions \/ k = last BY <1>2
<1> HIDE DEF last
<1>5. PositionsInv'
  <2>1. ASSUME NEW k \in DOMAIN positions' PROVE PositionInv(positions'[k], bar')
    <3>1. CASE k \in DOMAIN positions BY <1>2, <3>1 DEF IInv, PositionsInv
    <3>2. CASE k = last BY <1>2, <3>2
    <3>3. QED BY <1>4, <3>1, <3>2
  <2>2. QED BY <2>1 DEF PositionsInv
<1>6. last \in Active(positions') BY <1>2, <1>3 DEF Active
<1>7. \A k \in Active(positions') : k \in Active(positions) \/ k = last
  BY <1>2, <1>4 DEF Active
<1>8. \A k \in Active(positions) : positions'[k] = positions[k] BY <1>2 DEF Active
<1>9. \A k \in Active(positions) : positions[k].kind = "perCandle" => positions[k].name \in PerCandleRules
  BY DEF Active, IInv, PositionsInv, PositionInv, PerCandleShape
<1>10. OneOpenPerRule'
  <2> SUFFICES ASSUME NEW k \in Active(positions'), NEW l \in Active(positions'),
                      positions'[k].kind = "perCandle", positions'[k].name = positions'[l].name
               PROVE k = l
    BY DEF OneOpenPerRule
  <2>1. CASE k \in Active(positions) /\ l \in Active(positions)
    BY <1>8, <2>1 DEF IInv, OneOpenPerRule
  <2>2. CASE k = last /\ l = last BY <2>2
  <2>3. CASE k = last /\ l \in Active(positions) BY <1>2, <1>8, <2>3
  <2>4. CASE k \in Active(positions) /\ l = last
    <3>1. n.name \in PerCandleRules /\ positions[k].name = n.name BY <1>2, <1>8, <1>9, <2>4
    <3>2. n.kind \in {"daily", "perCandle"} BY <1>1 DEF TradePosition
    <3>3. QED BY <2>4, <3>1, <3>2
  <2>5. QED BY <1>7, <2>1, <2>2, <2>3, <2>4
<1>11. QED BY <1>2, <1>5, <1>6, <1>10

\* A pass over an open position.
LEMMA PassKeeps ==
    ASSUME IInv, at \in DOMAIN positions, positions[at].active, NEW n, PositionInv(n, bar),
           n.kind = positions[at].kind, n.name = positions[at].name,
           positions' = [positions EXCEPT ![at] = n], buyOn' = BuyOnAfter(positions'),
           bar' = bar, sell' = sell, lastSignal' = lastSignal, stage' = stage, at' = at + 1
    PROVE TypeOK' /\ PositionsInv' /\ OneOpenPerRule' /\ BuyOnMeansHolding'
<1>1. n \in TradePosition BY DEF PositionInv, AnyPosition
<1>2. positions \in Seq(TradePosition) /\ TypeOK BY DEF IInv, TypeOK
<1>3. /\ positions' \in Seq(TradePosition) /\ DOMAIN positions' = DOMAIN positions
      /\ positions'[at] = n
      /\ \A k \in DOMAIN positions : k # at => positions'[k] = positions[k]
  BY <1>1, <1>2, ExceptSeq
<1>4. buyOn' \in BOOLEAN BY <1>2 DEF BuyOnAfter, TypeOK
<1>5. TypeOK' BY <1>2, <1>3, <1>4 DEF TypeOK
<1>6. PositionsInv'
  <2>1. \A k \in DOMAIN positions' : PositionInv(positions'[k], bar') BY <1>3 DEF IInv, PositionsInv
  <2>2. QED BY <2>1 DEF PositionsInv
<1>7. \A k \in Active(positions') :
         /\ k \in Active(positions)
         /\ positions'[k].name = positions[k].name /\ positions'[k].kind = positions[k].kind
  BY <1>3 DEF Active
<1>8. OneOpenPerRule'
  <2> SUFFICES ASSUME NEW k \in Active(positions'), NEW l \in Active(positions'),
                      positions'[k].kind = "perCandle", positions'[k].name = positions'[l].name
               PROVE k = l
    BY DEF OneOpenPerRule
  <2>1. /\ k \in Active(positions) /\ l \in Active(positions)
        /\ positions[k].kind = "perCandle" /\ positions[k].name = positions[l].name
    BY <1>7
  <2>2. QED BY <2>1 DEF IInv, OneOpenPerRule
<1>9. BuyOnMeansHolding' BY DEF IInv, BuyOnMeansHolding, BuyOnAfter
<1>10. QED BY <1>5, <1>6, <1>8, <1>9

\* Every step keeps the invariant.
LEMMA StepInv == ASSUME IInv, [Next]_vars PROVE IInv'
<1>0. TypeOK /\ PositionsInv /\ SettledSoFar /\ OneOpenPerRule /\ BuyOnMeansHolding BY DEF IInv
<1>1. ASSUME NEW name \in {"breakout", "trigger"}, BuySignal(name) PROVE IInv'
  <2> DEFINE n == NewTradePosition(name, "daily", bar, bar)
  <2>1. bar \in Bars BY <1>0 DEF TypeOK
  <2>2. PositionInv(n, bar) /\ n.active /\ n.name = name /\ n.kind = "daily" BY <2>1, NewPosition
  <2>3. stage = "signals" /\ stage' = stage /\ bar' = bar /\ sell' = sell /\ at' = at
        /\ lastSignal' = lastSignal /\ buyOn' = (buyOn \/ name = "breakout")
        /\ positions' = IF sell THEN Append(positions, n) ELSE positions
    BY <1>1 DEF BuySignal
  <2> HIDE DEF n
  <2>4. name \notin PerCandleRules BY BacktestAssumption
  <2>5. buyOn' \in BOOLEAN BY <1>0, <2>3 DEF TypeOK
  <2>6. SettledSoFar' BY <2>3 DEF SettledSoFar
  <2>7. CASE sell
    <3>1. positions' = Append(positions, n) BY <2>3, <2>7
    <3>2. /\ positions' \in Seq(TradePosition) /\ PositionsInv' /\ OneOpenPerRule'
          /\ Active(positions') # {}
      BY <2>2, <2>3, <2>4, <3>1, OpeningKeeps
    <3>3. TypeOK' BY <1>0, <2>3, <2>5, <3>2 DEF TypeOK
    <3>4. BuyOnMeansHolding' BY <3>2 DEF BuyOnMeansHolding
    <3>5. QED BY <2>6, <3>2, <3>3, <3>4 DEF IInv
  <2>8. CASE ~sell
    <3>1. positions' = positions BY <2>3, <2>8
    <3>2. TypeOK' BY <1>0, <2>3, <2>5, <3>1 DEF TypeOK
    <3>3. PositionsInv' /\ OneOpenPerRule' BY <1>0, <2>3, <3>1 DEF PositionsInv, OneOpenPerRule
    <3>4. BuyOnMeansHolding' BY <2>3, <2>8 DEF BuyOnMeansHolding
    <3>5. QED BY <2>6, <3>2, <3>3, <3>4 DEF IInv
  <2>9. QED BY <2>7, <2>8
<1>2. ASSUME SignalsDone PROVE IInv'
  <2>1. TypeOK' BY <1>0, <1>2 DEF SignalsDone, TypeOK, Stage
  <2>2. SettledSoFar' BY <1>2 DEF SignalsDone, SettledSoFar
  <2>3. PositionsInv' /\ OneOpenPerRule' /\ BuyOnMeansHolding'
    BY <1>0, <1>2 DEF SignalsDone, PositionsInv, OneOpenPerRule, BuyOnMeansHolding
  <2>4. QED BY <2>1, <2>2, <2>3 DEF IInv
<1>3. ASSUME NEW r \in PerCandleRules, PerCandleSignal(r) PROVE IInv'
  <2> DEFINE n == NewTradePosition(r, "perCandle", bar, FillBar)
  <2>1. bar \in Bars /\ FillBar \in Bars
    <3>1. bar \in Bars /\ LastBar \in Nat BY <1>0, SellAssumption DEF TypeOK
    <3>2. QED BY <3>1 DEF FillBar, Bars
  <2>2. PositionInv(n, bar) /\ n.active /\ n.name = r /\ n.kind = "perCandle"
    BY <2>1, NewPosition
  <2>3. stage = "perCandle" /\ stage' = stage /\ bar' = bar /\ sell' = sell /\ at' = at
        /\ lastSignal' = [lastSignal EXCEPT ![r] = bar] /\ buyOn' = buyOn
        /\ positions' = Append(positions, n) /\ MayFire(r)
    BY <1>3 DEF PerCandleSignal
  <2> HIDE DEF n
  <2>4. \A k \in Active(positions) : positions[k].name # n.name BY <2>2, <2>3 DEF MayFire
  <2>5. /\ positions' \in Seq(TradePosition) /\ PositionsInv' /\ OneOpenPerRule'
        /\ Active(positions') # {}
    BY <2>2, <2>3, <2>4, OpeningKeeps
  <2>6. lastSignal' \in [PerCandleRules -> 0..LastBar]
    <3>1. bar \in 0..LastBar BY <2>1, SellAssumption DEF Bars
    <3>2. QED BY <1>0, <2>3, <3>1 DEF TypeOK
  <2>7. TypeOK' BY <1>0, <2>3, <2>5, <2>6 DEF TypeOK
  <2>8. SettledSoFar' BY <2>3 DEF SettledSoFar
  <2>9. BuyOnMeansHolding' BY <2>5 DEF BuyOnMeansHolding
  <2>10. QED BY <2>5, <2>7, <2>8, <2>9 DEF IInv
<1>4. ASSUME PerCandleDone PROVE IInv'
  <2>1. TypeOK' BY <1>0, <1>4 DEF PerCandleDone, TypeOK, Stage
  <2>2. SettledSoFar' BY <1>4 DEF PerCandleDone, SettledSoFar
  <2>3. PositionsInv' /\ OneOpenPerRule' /\ BuyOnMeansHolding'
    BY <1>0, <1>4 DEF PerCandleDone, PositionsInv, OneOpenPerRule, BuyOnMeansHolding
  <2>4. QED BY <2>1, <2>2, <2>3 DEF IInv
<1>5. ASSUME NEW c \in Candle15m, ExitOne(c) PROVE IInv'
  <2> DEFINE n == ExitPass(positions[at], bar, c)
  <2>1. at \in DOMAIN positions /\ bar \in Bars
    <3>1. positions \in Seq(TradePosition) /\ at \in Nat \ {0} /\ at <= Len(positions)
      BY <1>0, <1>5 DEF TypeOK, ExitOne
    <3>2. QED BY <1>0, <3>1, LenProperties DEF TypeOK
  <2>2. PositionInv(positions[at], bar) BY <1>0, <2>1 DEF PositionsInv
  <2>3. positions[at].active /\ positions[at].kind = "perCandle" BY <1>5 DEF ExitOne
  <2>4. PositionInv(n, bar) /\ n.kind = positions[at].kind /\ n.name = positions[at].name
    BY <2>1, <2>2, <2>3, ExitPassKeeps
  <2>5. /\ positions' = [positions EXCEPT ![at] = n] /\ buyOn' = BuyOnAfter(positions')
        /\ at' = at + 1 /\ stage = "exits" /\ stage' = stage /\ bar' = bar /\ sell' = sell
        /\ lastSignal' = lastSignal
    BY <1>5 DEF ExitOne
  <2> HIDE DEF n
  <2>6. TypeOK' /\ PositionsInv' /\ OneOpenPerRule' /\ BuyOnMeansHolding'
    BY <2>1, <2>3, <2>4, <2>5, PassKeeps
  <2>7. SettledSoFar' BY <2>5 DEF SettledSoFar
  <2>8. QED BY <2>6, <2>7 DEF IInv
<1>6. ASSUME NEW m \in Market, SellOne(m) PROVE IInv'
  <2> DEFINE n == SellPass(positions[at], bar, m)
  <2>1. /\ positions \in Seq(TradePosition) /\ at \in Nat \ {0} /\ at \in DOMAIN positions
        /\ DOMAIN positions = 1..Len(positions) /\ Len(positions) \in Nat /\ bar \in Bars
    <3>1. positions \in Seq(TradePosition) /\ at \in Nat \ {0} /\ at <= Len(positions)
      BY <1>0, <1>6 DEF TypeOK, SellOne
    <3>2. QED BY <1>0, <3>1, LenProperties DEF TypeOK
  <2>2. AnyPosition(positions[at], bar) BY <1>0, <2>1 DEF PositionsInv, PositionInv
  <2>3. positions[at].active /\ positions[at].kind = "daily" BY <1>6 DEF SellOne
  <2>4. /\ AnyPosition(n, bar) /\ n.kind = positions[at].kind /\ n.name = positions[at].name
        /\ LiquidatesOnExpiry => Settled(n, bar)
    BY <2>1, <2>2, <2>3, SellPassKeeps
  <2>5. /\ positions' = [positions EXCEPT ![at] = n] /\ buyOn' = BuyOnAfter(positions')
        /\ at' = at + 1 /\ stage = "sells" /\ stage' = stage /\ bar' = bar /\ sell' = sell
        /\ lastSignal' = lastSignal
    BY <1>6 DEF SellOne
  <2> HIDE DEF n
  <2>6. PositionInv(n, bar) BY <2>3, <2>4 DEF PositionInv
  <2>7. TypeOK' /\ PositionsInv' /\ OneOpenPerRule' /\ BuyOnMeansHolding'
    BY <2>1, <2>3, <2>4, <2>5, <2>6, PassKeeps
  <2>8. /\ DOMAIN positions' = DOMAIN positions /\ positions'[at] = n
        /\ \A k \in DOMAIN positions : k # at => positions'[k] = positions[k]
    BY <2>1, <2>5
  <2>9. SettledSoFar'
    <3> SUFFICES ASSUME sell, LiquidatesOnExpiry, NEW k \in Active(positions'), k < at + 1,
                        positions'[k].kind = "daily"
                 PROVE Settled(positions'[k], bar)
      BY <2>5 DEF SettledSoFar
    <3>1. k \in DOMAIN positions /\ positions'[k].active BY <2>8 DEF Active
    <3>2. CASE k = at BY <2>4, <2>8, <3>2
    <3>3. CASE k # at
      <4>1. positions'[k] = positions[k] BY <2>8, <3>1, <3>3
      <4>2. k < at BY <2>1, <3>1, <3>3
      <4>3. k \in Active(positions) BY <3>1, <4>1 DEF Active
      <4>4. QED BY <1>0, <2>5, <4>1, <4>2, <4>3 DEF SettledSoFar
    <3>4. QED BY <3>2, <3>3
  <2>10. QED BY <2>7, <2>9 DEF IInv
<1>7. ASSUME SkipOne PROVE IInv'
  <2>1. /\ at' = at + 1 /\ stage' = stage /\ bar' = bar /\ sell' = sell
        /\ lastSignal' = lastSignal /\ positions' = positions /\ buyOn' = buyOn
        /\ stage \in {"exits", "sells"}
    BY <1>7 DEF SkipOne
  <2>2. TypeOK' BY <1>0, <2>1 DEF TypeOK
  <2>3. PositionsInv' /\ OneOpenPerRule' /\ BuyOnMeansHolding'
    BY <1>0, <2>1 DEF PositionsInv, OneOpenPerRule, BuyOnMeansHolding
  <2>4. SettledSoFar'
    <3> SUFFICES ASSUME sell, LiquidatesOnExpiry, stage = "sells", NEW k \in Active(positions),
                        k < at + 1, positions[k].kind = "daily"
                 PROVE Settled(positions[k], bar)
      BY <2>1 DEF SettledSoFar
    <3>1. k \in Int /\ at \in Int
      <4>1. positions \in Seq(TradePosition) /\ k \in DOMAIN positions BY <1>0 DEF TypeOK, Active
      <4>2. QED BY <1>0, <4>1, LenProperties DEF TypeOK
    <3>2. k # at BY <1>7 DEF SkipOne, Active
    <3>3. k < at BY <3>1, <3>2
    <3>4. QED BY <1>0, <3>3 DEF SettledSoFar
  <2>5. QED BY <2>2, <2>3, <2>4 DEF IInv
<1>8. ASSUME ExitsDone PROVE IInv'
  <2>1. /\ at' = 1 /\ stage' = (IF sell THEN "sells" ELSE "done") /\ bar' = bar /\ sell' = sell
        /\ lastSignal' = lastSignal /\ positions' = positions /\ buyOn' = buyOn
    BY <1>8 DEF ExitsDone
  <2>2. TypeOK' BY <1>0, <2>1 DEF TypeOK, Stage
  <2>3. PositionsInv' /\ OneOpenPerRule' /\ BuyOnMeansHolding'
    BY <1>0, <2>1 DEF PositionsInv, OneOpenPerRule, BuyOnMeansHolding
  <2>4. SettledSoFar'
    <3> SUFFICES ASSUME sell, NEW k \in Active(positions), k < 1 PROVE FALSE
      BY <2>1 DEF SettledSoFar
    <3>1. positions \in Seq(TradePosition) /\ k \in DOMAIN positions BY <1>0 DEF TypeOK, Active
    <3>2. QED BY <3>1, LenProperties
  <2>5. QED BY <2>2, <2>3, <2>4 DEF IInv
<1>9. ASSUME SellsDone PROVE IInv'
  <2>1. /\ at' = at /\ stage = "sells" /\ stage' = "done" /\ bar' = bar /\ sell' = sell
        /\ at > Len(positions)
        /\ lastSignal' = lastSignal /\ positions' = positions /\ buyOn' = buyOn
    BY <1>9 DEF SellsDone
  <2>2. TypeOK' BY <1>0, <2>1 DEF TypeOK, Stage
  <2>3. PositionsInv' /\ OneOpenPerRule' /\ BuyOnMeansHolding'
    BY <1>0, <2>1 DEF PositionsInv, OneOpenPerRule, BuyOnMeansHolding
  <2>4. SettledSoFar'
    <3> SUFFICES ASSUME sell, LiquidatesOnExpiry, NEW k \in Active(positions),
                        positions[k].kind = "daily"
                 PROVE Settled(positions[k], bar)
      BY <2>1 DEF SettledSoFar
    <3>1. positions \in Seq(TradePosition) /\ k \in DOMAIN positions /\ at \in Nat
      BY <1>0 DEF TypeOK, Active
    <3>2. k < at BY <2>1, <3>1, LenProperties
    <3>3. QED BY <1>0, <2>1, <3>2 DEF SettledSoFar
  <2>5. QED BY <2>2, <2>3, <2>4 DEF IInv
<1>10. ASSUME NextCandle PROVE IInv'
  <2>1. /\ at' = at /\ stage' = "signals" /\ bar < LastBar /\ bar' = bar + 1 /\ sell' = sell
        /\ lastSignal' = lastSignal /\ positions' = positions /\ buyOn' = buyOn
    BY <1>10 DEF NextCandle
  <2>2. bar \in Bars /\ bar + 1 \in Bars
    <3>1. bar \in Bars /\ LastBar \in Nat BY <1>0, SellAssumption DEF TypeOK
    <3>2. QED BY <2>1, <3>1 DEF Bars
  <2>3. TypeOK' BY <1>0, <2>1, <2>2 DEF TypeOK, Stage
  <2>4. PositionsInv'
    <3>1. \A k \in DOMAIN positions : PositionInv(positions[k], bar + 1)
      BY <1>0, <2>1, <2>2, NextBarKeeps DEF PositionsInv
    <3>2. QED BY <2>1, <3>1 DEF PositionsInv
  <2>5. OneOpenPerRule' /\ BuyOnMeansHolding' BY <1>0, <2>1 DEF OneOpenPerRule, BuyOnMeansHolding
  <2>6. SettledSoFar' BY <2>1 DEF SettledSoFar
  <2>7. QED BY <2>3, <2>4, <2>5, <2>6 DEF IInv
<1>11. ASSUME UNCHANGED vars PROVE IInv'
  BY <1>0, <1>11 DEF vars, IInv, TypeOK, PositionsInv, SettledSoFar, OneOpenPerRule,
                     BuyOnMeansHolding
<1>12. QED
  BY <1>1, <1>2, <1>3, <1>4, <1>5, <1>6, <1>7, <1>8, <1>9, <1>10, <1>11 DEF Next

\* The invariant holds throughout every run of the loop.
THEOREM Invariant == Spec => []IInv
<1>1. Init => IInv BY InitInv
<1>2. IInv /\ [Next]_vars => IInv' BY StepInv
<1>3. QED BY <1>1, <1>2, PTL DEF Spec

\* The state of the loop has its type, for any strategy: no weight, count or order
\* of the rules takes a position's quantity below zero or a fill past the last candle.
THEOREM TypeCorrect == Spec => []TypeOK
<1>1. IInv => TypeOK BY DEF IInv
<1>2. QED BY <1>1, Invariant, PTL

\* The executions of a position account for all it has lost, and it is open exactly
\* while more than dust is left.
THEOREM Books == Spec => []BooksBalance
<1>1. IInv => BooksBalance BY DEF IInv, PositionsInv, PositionInv, AnyPosition, BooksBalance
<1>2. QED BY <1>1, Invariant, PTL

\* No position is left with a rest that ExecutePartialSell refuses to sell.
THEOREM NoRefusedSale == Spec => []NothingTooSmallToSell
<1>1. ASSUME IInv PROVE NothingTooSmallToSell
  <2> SUFFICES ASSUME NEW k \in Active(positions), NEW w \in Weights
               PROVE SellQuantity(positions[k], w) >= MinimumExecution
    BY DEF NothingTooSmallToSell
  <2>1. positions[k] \in TradePosition /\ positions[k].left >= MinimumExecution
    BY <1>1 DEF IInv, PositionsInv, PositionInv, AnyPosition, Active
  <2>2. QED BY <2>1, QuantityBounds
<1>2. QED BY <1>1, Invariant, PTL

\* No critical or loss rule takes part in a sale, or is counted, before MinHolding
\* candles are held.
THEOREM Grace == Spec => []GraceRespected
<1>1. IInv => GraceRespected BY DEF IInv, PositionsInv, PositionInv, AnyPosition, GraceRespected
<1>2. QED BY <1>1, Invariant, PTL

\* An extended holding ends whole.
THEOREM Extension == Spec => []ExtensionEndsWhole
<1>1. IInv => ExtensionEndsWhole
  BY DEF IInv, PositionsInv, PositionInv, AnyPosition, ExtensionEndsWhole
<1>2. QED BY <1>1, Invariant, PTL

\* No position is past its holding period at the end of a candle unless its holding
\* is extended or it was sold in part on that candle.
THEOREM Expiry == Spec => []ExpirySettled
<1>1. IInv => ExpirySettled BY DEF IInv, SettledSoFar, ExpirySettled
<1>2. QED BY <1>1, Invariant, PTL

\* A per-candle position is sold at most twice: a part at the target, then the rest.
THEOREM TwoSales == Spec => []TargetThenRest
<1>1. IInv => TargetThenRest
  BY DEF IInv, PositionsInv, PositionInv, PerCandleShape, TargetThenRest, OfKind
<1>2. QED BY <1>1, Invariant, PTL

\* A per-candle rule never has two open positions.
THEOREM OneOpen == Spec => []OneOpenPerRule
<1>1. IInv => OneOpenPerRule BY DEF IInv
<1>2. QED BY <1>1, Invariant, PTL

\* BuyOn is never left on with nothing held while a sell strategy is loaded.
THEOREM Holding == Spec => []BuyOnMeansHolding
<1>1. IInv => BuyOnMeansHolding BY DEF IInv
<1>2. QED BY <1>1, Invariant, PTL

\* The books of every position balance, and its rest can be sold.
THEOREM BooksAreSound == Spec => []BooksSound
<1>1. TypeOK /\ BooksBalance /\ NothingTooSmallToSell => BooksSound BY DEF BooksSound
<1>2. QED BY <1>1, TypeCorrect, Books, NoRefusedSale, PTL

\* Grace period, extension and target each decide what may be sold when.
THEOREM ExitsKeepOrder == Spec => []ExitsInOrder
<1>1. GraceRespected /\ ExtensionEndsWhole /\ TargetThenRest => ExitsInOrder BY DEF ExitsInOrder
<1>2. QED BY <1>1, Grace, Extension, TwoSales, PTL

\* The loop's own account of what it holds is true.
THEOREM HoldingsAreTracked == Spec => []HoldingsTracked
<1>1. OneOpenPerRule /\ BuyOnMeansHolding => HoldingsTracked BY DEF HoldingsTracked
<1>2. QED BY <1>1, OneOpen, Holding, PTL
=============================================================================
