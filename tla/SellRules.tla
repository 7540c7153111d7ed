------------------------------ MODULE SellRules ------------------------------
(***************************************************************************)
(* The sell-rule engine and the exits of the backtest, for one position on *)
(* one candle (stg/sell_rule_engine.go, sell_tracker.go, sell_executor.go, *)
(* sell_15m.go).                                                           *)
(*                                                                         *)
(* A rule is its YAML row: `line` its place in the file, `cond` what its   *)
(* conditions look at ("market" for the price conditions of package cond,  *)
(* "expired" for IsPeriodExpired, "extension" for IsExtensionActive with   *)
(* IsMA5BreakdownDuringExtension).  What a candle shows is                 *)
(*   raised    the rules whose price conditions hold                       *)
(*   close     the close against MA5                                       *)
(*   uptrend   MA5 above MA20 above MA60, and rising                       *)
(*   recovery  the grade of evaluateRecovery                               *)
(*   hits      the lines of a per-candle position that the candle reaches  *)
(*   priced    whether the exit price of that candle is positive           *)
(*                                                                         *)
(* Share(q, w) is the product of a quantity and a sell weight.             *)
(***************************************************************************)
EXTENDS Integers, Sequences, FiniteSetsExt

CONSTANTS
    LastBar,          \* bound: candles 1..LastBar are analysed
    SellRows,         \* the rules of the sell strategy
    Weights, Full,    \* sell weights; Full is 1.0
    Share(_, _),
    Whole,            \* InitialQuantity
    Dust,             \* IsFullyLiquidated: at most this quantity is left
    SmallRemaining,   \* SmallRemainingThreshold, at or below it all is sold
    MinimumExecution, \* MinimumExecutionSize
    MaxHolding, MinHolding, AutoLiquidate,
    DefaultCount,     \* DefaultSellConditionCountThreshold
    DefaultRatio,     \* DefaultSellConditionRatioThreshold, in percent
    Threshold,        \* compositeThreshold by recovery grade
    StrongAt, MediumAt, StrongWeight, MediumWeight, WeakWeight,
    TargetWeight,     \* TargetSellWeight of E2
    TimeExitBars

Recovery == {"high", "medium", "low"}
Hit == {"stop", "target", "trail"}
RowNames == {r.name : r \in SellRows}
Bars == 1..LastBar

Row == [name: STRING, line: Nat, cond: {"market", "expired", "extension"},
        path: {"critical", "extension", "expiry", "individual"}, priority: Nat,
        weight: Weights, category: {"Critical", "Loss", "Profit", "Technical", "Extension", "Expiry"},
        immediate: BOOLEAN, count: Nat, ratio: Nat, composite: Nat]

\* Every weight is a share of what is left; what a partial sale leaves of more
\* than SmallRemaining is still large enough to be sold.
ASSUME SellAssumption ==
    /\ LastBar \in Nat \ {0} /\ SellRows \subseteq Row
    /\ \A r, o \in SellRows : r.line = o.line \/ r.name = o.name => r = o
    /\ {Full, StrongWeight, MediumWeight, WeakWeight, TargetWeight} \subseteq Weights
    /\ Whole \in Nat /\ Dust \in Nat /\ SmallRemaining \in Nat /\ MinimumExecution \in Nat
    /\ Dust < MinimumExecution /\ MinimumExecution <= SmallRemaining /\ SmallRemaining < Whole
    /\ \A q \in 0..Whole, w \in Weights : Share(q, w) \in 0..q
    /\ \A q \in 0..Whole : Share(q, Full) = q
    /\ \A q \in (SmallRemaining + 1)..Whole, w \in Weights \ {Full} :
          /\ Share(q, w) >= MinimumExecution
          /\ q - Share(q, w) >= MinimumExecution
    /\ MaxHolding \in Nat /\ MinHolding \in Nat /\ AutoLiquidate \in BOOLEAN
    /\ DefaultCount \in Nat /\ DefaultRatio \in Nat /\ TimeExitBars \in Nat

\* In every strategy file the extension rule sells all that is left.
ASSUME ExtensionSellsAll == \A r \in SellRows : r.path = "extension" => r.weight = Full

\* The strategy has the expiry rule of sell_default.yaml.
LiquidatesOnExpiry ==
    /\ AutoLiquidate
    /\ \E r \in SellRows : /\ r.cond = "expired" /\ r.path = "expiry"
                           /\ r.category = "Expiry" /\ (r.immediate \/ r.count = 1)

Sale == [bar: Bars, qty: 0..Whole, after: 0..Whole, why: SUBSET RowNames,
         path: {"critical", "composite", "extension", "forced", "expiry", "individual",
                "E1", "E2", "E3", "E4"}]

\* Entered on candle `bought`; its buy price is that of candle `filled`.
NewTradePosition(name, kind, bought, filled) ==
    [name |-> name, kind |-> kind, bought |-> bought, filled |-> filled,
     active |-> TRUE, left |-> Whole, sales |-> <<>>, seen |-> [n \in RowNames |-> 0],
     waiting |-> FALSE, expired |-> 0, targetHit |-> FALSE]

-----------------------------------------------------------------------------
\* Rule evaluation on candle i.

Held(p, i) == i - p.bought

\* Mutant: critical rules are not held back.
InGraceLossOnly(r, p, i) == Held(p, i) < MinHolding /\ r.category = "Loss"

\* Critical and loss rules are not evaluated before MinHolding candles are held.
InGrace(r, p, i) == Held(p, i) < MinHolding /\ r.category \in {"Critical", "Loss"}

\* Mutant: off by one.
IsPeriodExpiredLate(p, i) == AutoLiquidate /\ Held(p, i) > MaxHolding

IsPeriodExpired(p, i) == AutoLiquidate /\ Held(p, i) >= MaxHolding

\* The rules whose conditions hold on candle i.
Triggered(p, i, m) ==
    {r \in SellRows :
        /\ ~InGrace(r, p, i)
        /\ CASE r.cond = "market" -> r.name \in m.raised
             [] r.cond = "expired" -> IsPeriodExpired(p, i)
             [] r.cond = "extension" -> p.waiting /\ m.close = "below"}

\* RecordSellConditionOccurrence for each rule that is triggered and tracked.
SeenAfter(p, i, m) ==
    [n \in RowNames |->
        IF \E r \in Triggered(p, i, m) : r.name = n /\ ~r.immediate
        THEN p.seen[n] + 1 ELSE p.seen[n]]

\* TrackAndCheck: enough occurrences, or enough for the time held.
ThresholdMet(r, n, held) ==
    \/ r.immediate
    \/ n >= IF r.count = 0 THEN DefaultCount ELSE r.count
    \/ held > 0 /\ n * 100 >= held * IF r.ratio = 0 THEN DefaultRatio ELSE r.ratio

CanTriggerSell(p, i, m) ==
    {r \in Triggered(p, i, m) : ThresholdMet(r, SeenAfter(p, i, m)[r.name], Held(p, i))}

FirstRow(S) == CHOOSE r \in S : \A o \in S : r.line <= o.line
TopRow(S) == FirstRow({r \in S : \A o \in S : r.priority <= o.priority})
OnPath(S, path) == {r \in S : r.path = path}

Strength(S) == MapThenSumSet(LAMBDA r : r.composite, S)
\* compositeWeightForStrength.
CompositeWeight(x) == IF x >= StrongAt THEN StrongWeight
                      ELSE IF x >= MediumAt THEN MediumWeight ELSE WeakWeight

Decide(path, weight, why) == [path |-> path, weight |-> weight, why |-> {r.name : r \in why}]
NoSell == Decide("none", Full, {})

\* Mutant: an individual rule keeps its weight while the holding is extended.
ForcedWeightOfRule(r) == r.weight

\* Any individual rule ends an extended holding.
ForcedWeight(r) == Full

\* Path 3: the holding was extended; the expiry is not looked at again.
WhileExtended(ready) ==
    IF OnPath(ready, "extension") # {}
    THEN LET r == FirstRow(OnPath(ready, "extension")) IN Decide("extension", r.weight, {r})
    ELSE IF OnPath(ready, "individual") # {}
    THEN LET r == FirstRow(OnPath(ready, "individual")) IN Decide("forced", ForcedWeight(r), {r})
    ELSE NoSell

\* Paths 4 and 5: the expiry comes before the individual rules.
ExpiryThenIndividual(ready) ==
    IF OnPath(ready, "expiry") # {}
    THEN LET r == FirstRow(OnPath(ready, "expiry")) IN Decide("expiry", r.weight, {r})
    ELSE IF OnPath(ready, "individual") # {}
    THEN LET r == TopRow(OnPath(ready, "individual")) IN Decide("individual", r.weight, {r})
    ELSE NoSell

\* makeSellDecision: paths 1 and 2 come before the state of the holding.
SellDecision(p, i, m) ==
    LET ready == CanTriggerSell(p, i, m)
        contributors == {r \in ready : r.composite > 0}
    IN IF OnPath(ready, "critical") # {}
       THEN LET r == FirstRow(OnPath(ready, "critical")) IN Decide("critical", r.weight, {r})
       ELSE IF contributors # {} /\ Strength(contributors) >= Threshold[m.recovery]
       THEN Decide("composite", CompositeWeight(Strength(contributors)), contributors)
       ELSE IF p.waiting THEN WhileExtended(ready) ELSE ExpiryThenIndividual(ready)

-----------------------------------------------------------------------------
\* Executions.

\* Mutant: a small rest is not sold whole.
SellQuantityNoSweep(p, w) == Share(p.left, w)

\* What is sold: all of a small rest, else the weight's share.
SellQuantity(p, w) == IF p.left <= SmallRemaining THEN Share(p.left, Full) ELSE Share(p.left, w)

\* Mutant: a position that is sold out stays open.
ExecutedLeftOpen(p, i, q, path, why) ==
    [p EXCEPT !.left = p.left - q,
              !.active = p.left - q >= Dust,
              !.sales = Append(@, [bar |-> i, qty |-> q, after |-> p.left - q,
                                   why |-> why, path |-> path])]

\* The record of a sale, and the end of the position with the last one.
Executed(p, i, q, path, why) ==
    [p EXCEPT !.left = p.left - q,
              !.active = p.left - q > Dust,
              !.sales = Append(@, [bar |-> i, qty |-> q, after |-> p.left - q,
                                   why |-> why, path |-> path])]

\* ExecutePartialSell; d is a decision.
ExecutePartialSell(p, i, d) ==
    IF p.active /\ p.left > 0 /\ SellQuantity(p, d.weight) >= MinimumExecution
    THEN Executed(p, i, SellQuantity(p, d.weight), d.path, d.why)
    ELSE p

CanExtendHolding(m) == m.close = "above" /\ m.uptrend

\* Pass 5b of analyzeInternal for one position.
SellPass(p, i, m) ==
    LET counted == [p EXCEPT !.seen = SeenAfter(p, i, m)]
        d == SellDecision(p, i, m)
    IN IF d.path = "none" THEN counted
       ELSE IF d.path = "expiry" /\ CanExtendHolding(m)
       THEN [counted EXCEPT !.waiting = TRUE, !.expired = i]
       ELSE ExecutePartialSell(counted, i, d)

\* Mutant: the target is sold at again and again.
TargetReachedAgain(p, m) == "target" \in m.hits

TargetReached(p, m) == ~p.targetHit /\ "target" \in m.hits

\* Evaluate15mExit: E1 before E4 before E2 before E3.
Exit15m(p, i, m) ==
    IF "stop" \in m.hits THEN "E1"
    ELSE IF TimeExitBars > 0 /\ Held(p, i) >= TimeExitBars THEN "E4"
    ELSE IF TargetReached(p, m) THEN "E2"
    ELSE IF p.targetHit /\ "trail" \in m.hits THEN "E3" ELSE "none"

\* Pass 5a for one position.  The target line of E2 is always a positive price;
\* the other exits are not executed at a price that is not.
ExitPass(p, i, m) ==
    LET exit == Exit15m(p, i, m)
    IN IF exit = "E2"
       THEN Executed([p EXCEPT !.targetHit = TRUE], i, SellQuantity(p, TargetWeight), exit, {})
       ELSE IF exit # "none" /\ m.priced
       THEN Executed(p, i, SellQuantity(p, Full), exit, {})
       ELSE p
=============================================================================
