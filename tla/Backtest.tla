------------------------------ MODULE Backtest ------------------------------
(***************************************************************************)
(* The candle loop of the backtest (analyzeInternal in stg/analyzer.go)    *)
(* and the positions it opens and closes.  On every candle, in this order: *)
(* the buy signals of the breakout and trigger rules, filled at the close; *)
(* the per-candle rules, filled at the next open; the E1-E4 exits of the   *)
(* per-candle positions; the sell rules for the others.  The conditions of *)
(* the rules, which look at prices only, are chosen freely.                *)
(***************************************************************************)
EXTENDS SellRules, FiniteSets

CONSTANTS
    PerCandleRules,   \* the rules with evaluation: per_candle
    Cooldown,         \* PerCandleCooldownBars
    MaxDaily,         \* bound: positions of breakout and trigger rules
    MaxPerCandle      \* bound: positions of per-candle rules

ASSUME BacktestAssumption ==
    /\ Cooldown \in Nat /\ MaxDaily \in Nat /\ MaxPerCandle \in Nat
    /\ {"breakout", "trigger"} \cap PerCandleRules = {}

VARIABLES
    sell,       \* whether a sell strategy is loaded
    bar,        \* ctx.Position
    stage,      \* where analyzeInternal is on this candle
    at,         \* the position that the current pass comes to next
    positions,  \* ctx.ActivePositions
    lastSignal, \* ctx.LastPerCandleSignalPosition, 0 when unset
    buyOn       \* ctx.BuyOn

vars == <<sell, bar, stage, at, positions, lastSignal, buyOn>>

Stage == {"signals", "perCandle", "exits", "sells", "done"}
TradePosition ==
    [name: PerCandleRules \cup {"breakout", "trigger"}, kind: {"daily", "perCandle"},
     bought: Bars, filled: Bars, active: BOOLEAN, left: 0..Whole, sales: Seq(Sale),
     seen: [RowNames -> Nat], waiting: BOOLEAN, expired: 0..LastBar, targetHit: BOOLEAN]

Market ==
    [raised: SUBSET {r.name : r \in {x \in SellRows : x.cond = "market"}},
     close: {"above", "at", "below"}, uptrend: BOOLEAN, recovery: Recovery]
Candle15m == [hits: SUBSET Hit, priced: BOOLEAN]

OfKind(kind) == {k \in DOMAIN positions : positions[k].kind = kind}
Active(ps) == {k \in DOMAIN ps : ps[k].active}

-----------------------------------------------------------------------------
Init == /\ sell \in BOOLEAN
        /\ bar = 1 /\ stage = "signals" /\ at = 1
        /\ positions = <<>>
        /\ lastSignal = [r \in PerCandleRules |-> 0]
        /\ buyOn = FALSE

\* An immediate buy of the breakout rules (finalizeBuySignal), or a signal of a
\* trigger rule.  Without a sell strategy no position is opened.
BuySignal(name) ==
    /\ stage = "signals"
    /\ Cardinality(OfKind("daily")) < MaxDaily
    /\ positions' = IF sell THEN Append(positions, NewTradePosition(name, "daily", bar, bar))
                            ELSE positions
    /\ buyOn' = (buyOn \/ name = "breakout")
    /\ UNCHANGED <<sell, bar, stage, at, lastSignal>>

SignalsDone ==
    /\ stage = "signals"
    /\ stage' = "perCandle"
    /\ UNCHANGED <<sell, bar, at, positions, lastSignal, buyOn>>

\* Mutant: the search for an open position of the rule is left out.
MayFireInCooldownOnly(r) == lastSignal[r] = 0 \/ bar - lastSignal[r] >= Cooldown

\* Outside the cooldown and without an open position of the same name.
MayFire(r) == /\ lastSignal[r] = 0 \/ bar - lastSignal[r] >= Cooldown
              /\ \A k \in Active(positions) : positions[k].name # r

\* Mutant: the last candle is filled at an open that does not exist.
FillBarBeyond == bar + 1

\* The next candle's open, if there is one.
FillBar == IF bar < LastBar THEN bar + 1 ELSE bar

\* A per-candle rule fires; the position is opened with or without a sell strategy.
PerCandleSignal(r) ==
    /\ stage = "perCandle"
    /\ MayFire(r)
    /\ Cardinality(OfKind("perCandle")) < MaxPerCandle
    /\ positions' = Append(positions, NewTradePosition(r, "perCandle", bar, FillBar))
    /\ lastSignal' = [lastSignal EXCEPT ![r] = bar]
    /\ UNCHANGED <<sell, bar, stage, at, buyOn>>

PerCandleDone ==
    /\ stage = "perCandle"
    /\ stage' = "exits" /\ at' = 1
    /\ UNCHANGED <<sell, bar, positions, lastSignal, buyOn>>

\* Mutant: the flag is left as it is when the last position is closed.
BuyOnKept(ps) == buyOn

\* BuyOn falls when a position closes and none is left.
BuyOnAfter(ps) == buyOn /\ (Active(positions) # {} => Active(ps) # {})

\* Pass 5a comes to the next position.
ExitOne(c) ==
    /\ stage = "exits" /\ at <= Len(positions)
    /\ positions[at].active /\ positions[at].kind = "perCandle"
    /\ positions' = [positions EXCEPT ![at] = ExitPass(@, bar, c)]
    /\ buyOn' = BuyOnAfter(positions')
    /\ at' = at + 1
    /\ UNCHANGED <<sell, bar, stage, lastSignal>>

\* Pass 5b comes to the next position.
SellOne(m) ==
    /\ stage = "sells" /\ at <= Len(positions)
    /\ positions[at].active /\ positions[at].kind = "daily"
    /\ positions' = [positions EXCEPT ![at] = SellPass(@, bar, m)]
    /\ buyOn' = BuyOnAfter(positions')
    /\ at' = at + 1
    /\ UNCHANGED <<sell, bar, stage, lastSignal>>

\* Inactive positions, and those of the other pass, are skipped.
SkipOne ==
    /\ \/ stage = "exits" /\ at <= Len(positions)
          /\ ~(positions[at].active /\ positions[at].kind = "perCandle")
       \/ stage = "sells" /\ at <= Len(positions)
          /\ ~(positions[at].active /\ positions[at].kind = "daily")
    /\ at' = at + 1
    /\ UNCHANGED <<sell, bar, stage, positions, lastSignal, buyOn>>

\* Pass 5b is there only with a sell strategy.
ExitsDone ==
    /\ stage = "exits" /\ at > Len(positions)
    /\ stage' = IF sell THEN "sells" ELSE "done"
    /\ at' = 1
    /\ UNCHANGED <<sell, bar, positions, lastSignal, buyOn>>

SellsDone ==
    /\ stage = "sells" /\ at > Len(positions)
    /\ stage' = "done"
    /\ UNCHANGED <<sell, bar, at, positions, lastSignal, buyOn>>

NextCandle ==
    /\ stage = "done" /\ bar < LastBar
    /\ bar' = bar + 1 /\ stage' = "signals"
    /\ UNCHANGED <<sell, at, positions, lastSignal, buyOn>>

Next ==
    \/ \E name \in {"breakout", "trigger"} : BuySignal(name)
    \/ SignalsDone
    \/ \E r \in PerCandleRules : PerCandleSignal(r)
    \/ PerCandleDone
    \/ \E c \in Candle15m : ExitOne(c)
    \/ \E m \in Market : SellOne(m)
    \/ SkipOne \/ ExitsDone \/ SellsDone \/ NextCandle

Spec == Init /\ [][Next]_vars

-----------------------------------------------------------------------------
TypeOK ==
    /\ sell \in BOOLEAN /\ bar \in Bars /\ stage \in Stage /\ at \in Nat \ {0}
    /\ positions \in Seq(TradePosition)
    /\ lastSignal \in [PerCandleRules -> 0..LastBar]
    /\ buyOn \in BOOLEAN

\* The sales of a position account for all it has lost, and it is closed exactly
\* when no more than dust is left (SellExecutions, RemainingQuantity and IsActive
\* agree).
Balanced(p) ==
    /\ \A j \in DOMAIN p.sales :
          /\ p.sales[j].qty > 0
          /\ p.sales[j].after + p.sales[j].qty = IF j = 1 THEN Whole ELSE p.sales[j - 1].after
    /\ p.left = IF p.sales = <<>> THEN Whole ELSE p.sales[Len(p.sales)].after
    /\ p.active <=> p.left > Dust
BooksBalance == \A k \in DOMAIN positions : Balanced(positions[k])

\* Whatever weight the sell rules decide for an open position, what it sells is
\* not below the minimum that ExecutePartialSell carries out: no position is left
\* with a rest that cannot be sold.
NothingTooSmallToSell ==
    \A k \in Active(positions) : \A w \in Weights :
        SellQuantity(positions[k], w) >= MinimumExecution

\* No critical or loss rule has a part in a sale before the position has been
\* held for MinHolding candles, and none has been counted by then.
InGraceOf(p, i) ==
    \A r \in SellRows :
        r.category \in {"Critical", "Loss"} =>
            /\ \A j \in DOMAIN p.sales :
                  r.name \in p.sales[j].why => p.sales[j].bar - p.bought >= MinHolding
            /\ i - p.bought < MinHolding => p.seen[r.name] = 0
GraceRespected == \A k \in DOMAIN positions : InGraceOf(positions[k], bar)

\* A position past its holding period has its holding extended, or was sold in
\* part on this very candle.
Settled(p, i) ==
    i - p.bought >= MaxHolding =>
        p.waiting \/ (p.sales # <<>> /\ p.sales[Len(p.sales)].bar = i)
\* At the end of every candle this is so of each open position that the sell rules
\* manage: none overstays because an individual rule came first.
ExpirySettled ==
    stage = "done" /\ sell /\ LiquidatesOnExpiry =>
        \A k \in Active(positions) :
            positions[k].kind = "daily" => Settled(positions[k], bar)

\* An extended holding ends whole: once a position waits, a sell rule of its own
\* leaves nothing of it.
EndsWhole(p) ==
    \A j \in DOMAIN p.sales :
        /\ p.sales[j].path \in {"extension", "forced"} => p.waiting /\ ~p.active
        /\ p.waiting /\ p.sales[j].bar > p.expired =>
              p.sales[j].path \in {"extension", "forced", "critical", "composite"}
ExtensionEndsWhole == \A k \in DOMAIN positions : EndsWhole(positions[k])

\* A per-candle position is sold at most twice: a part at the target, then the
\* rest; E3 comes only after the target.
SoldInTwo(p) ==
    /\ Len(p.sales) <= 2
    /\ \A j \in DOMAIN p.sales :
          /\ p.sales[j].path = "E2" => j = 1 /\ p.targetHit
          /\ p.sales[j].path = "E3" => j = 2 /\ p.sales[1].path = "E2"
          /\ p.sales[j].path # "E2" => ~p.active
TargetThenRest ==
    \A k \in OfKind("perCandle") : SoldInTwo(positions[k])

\* At most one position of a per-candle rule is open.
OneOpenPerRule ==
    \A k, l \in Active(positions) :
        positions[k].kind = "perCandle" /\ positions[k].name = positions[l].name => k = l

\* With a sell strategy, BuyOn between two candles means that something is held:
\* the path of the additional buys is not shut for ever.
BuyOnMeansHolding ==
    sell /\ buyOn => Active(positions) # {}

\* No position is sold before the candle at whose open it is bought.
NoSaleBeforeFill ==
    \A k \in DOMAIN positions : \A j \in DOMAIN positions[k].sales :
        positions[k].sales[j].bar >= positions[k].filled

\* The books: what was sold of a position, what is left of it and whether it is open agree, and
\* the rest of an open one can always be sold (sell_executor.go:31, 60).
BooksSound == TypeOK /\ BooksBalance /\ NothingTooSmallToSell

\* Exits come in the order the paths have: none of loss in the grace period, no partial one in an
\* extension, the trailing one only after the target (sell_rule_engine.go:186, 331, sell_15m.go:58).
ExitsInOrder == GraceRespected /\ ExtensionEndsWhole /\ TargetThenRest

\* What the loop believes to hold is held: one open position per per-candle rule, and BuyOn only
\* with an open position (analyzer.go:504, sell_executor.go:82).
HoldingsTracked == OneOpenPerRule /\ BuyOnMeansHolding
=============================================================================
