----------------------------- MODULE EventTriggers -----------------------------
(***************************************************************************)
(* The triggers of the rule engine that read the candles alone             *)
(* (stg/trigger_registry.go, cond/buy_triggers.go, buy_stg6.go,            *)
(* buy_stg11.go, buy_rstg_more.go) and the armed ones on a bump of the     *)
(* volume or a pierced average (stg/armed_trigger_registry.go,             *)
(* cond/buy_doublebump.go).  A trigger is an event: it is true at the      *)
(* candle where something happens, not as long as it lasts.                *)
(***************************************************************************)
EXTENDS CandleTape

CONSTANTS
    EventTapes,    \* [candles, defbox]: lists, with the price of a DefBox and its candle
    Spans          \* windows in candles, thresholds of the indicators

VARIABLES
    defbox,    \* the DefBox of the list
    events,    \* [name, pos]: the triggers that fired
    waiting    \* what each armed trigger waits with; sets of at most one

\* Prices and indicators are integers; averages have stood in order for a candle at least.
ASSUME EventAssumption ==
    /\ \A t \in EventTapes :
         LET n == Cardinality(DOMAIN t.candles) - 1
         IN  /\ IsFiniteSet(DOMAIN t.candles) /\ DOMAIN t.candles = 0..n /\ DOMAIN t.candles # {}
             /\ \A j \in 0..n : \A f \in {"close", "low", "high", "lower", "percent", "ma60", "ma120"} :
                  t.candles[j][f] \in Int
             /\ t.defbox.price \in Int
    /\ Spans.aligned11 \in Nat \ {0} /\ Spans.inverted \in Int /\ Spans.breakout \in Int

Distance(x, y) == IF x < y THEN y - x ELSE x - y
Aligned(j) == /\ C(j).ma20 > 0 /\ C(j).ma60 > 0 /\ C(j).ma120 > 0
              /\ C(j).ma20 > C(j).ma60 /\ C(j).ma60 > C(j).ma120

-----------------------------------------------------------------------------
(* Events. *)

BothValid(i) == i >= 1 /\ Valid(C(i - 1)) /\ Valid(C(i))

IsBBLowerBreakdown(i) ==
    BothValid(i) /\ C(i - 1).close >= C(i - 1).lower /\ C(i).close < C(i).lower

\* Mutant: a low that touches the band has left it.
IsBBLowerReentryByLow(i) ==
    BothValid(i) /\ C(i - 1).low < C(i - 1).lower /\ C(i).close >= C(i).lower

IsBBLowerReentry(i) ==
    BothValid(i) /\ C(i - 1).close < C(i - 1).lower /\ C(i).close >= C(i).lower

HasRecentSqueeze(i) ==
    \E j \in (i - Spans.squeeze)..i : j >= 0 /\ C(j).width < Spans.squeezeWidth

IsBBSqueezeBreakout(i) ==
    /\ BothValid(i) /\ C(i).percent > Spans.breakout /\ C(i - 1).percent <= Spans.breakout
    /\ HasRecentSqueeze(i)

\* Aligned averages, the short one just fell under them, and the old high was touched but
\* not passed (within 0.15 %).
IsStg6State(i) ==
    LET recent == (i - Spans.touch + 1)..i
        high == Top("high", (i - Spans.prior - Spans.touch)..(i - Spans.touch - 1))
    IN  /\ i >= Spans.prior + Spans.touch
        /\ \A j \in (i - Spans.aligned6 + 1)..i : Aligned(j)
        /\ C(i).ma5 > 0 /\ C(i).ma5 < C(i).ma20
        /\ \E j \in (i - Spans.since)..(i - 1) : C(j).ma5 > C(j).ma20
        /\ \A j \in recent : C(j).high * 10000 <= high * 10015
        /\ \E j \in recent : C(j).high * 10000 >= high * 9985

\* Mutant: the averages are aligned, whatever was touched.
IsFirstAt60Again(i) ==
    /\ i >= Spans.aligned11 + 1 /\ C(i - Spans.arc).ma20 > 0
    /\ \A j \in (i - Spans.aligned11)..(i - 1) : Aligned(j)
    /\ Distance(C(i).ma20, C(i - Spans.arc).ma20) * 1000 >= 2 * C(i - Spans.arc).ma20

\* Aligned and untouched until now, few white candles across the average, and a slope.
IsFirstAt60(i) ==
    /\ i >= Spans.aligned11 + 1
    /\ \A j \in (i - Spans.aligned11)..(i - 1) : Aligned(j) /\ C(j).low > C(j).ma60
    /\ Cardinality({j \in (i - Spans.grid + 1)..i :
                      Bullish(j) /\ C(j).low <= C(j).ma60 /\ C(j).ma60 > 0}) < Spans.gridFails
    /\ C(i - Spans.arc).ma20 > 0
    /\ Distance(C(i).ma20, C(i - Spans.arc).ma20) * 1000 >= 2 * C(i - Spans.arc).ma20

IsStg11Touch(i) == IsFirstAt60(i) /\ C(i).ma60 > 0 /\ C(i).low <= C(i).ma60

IsStg11Breakdown(i) ==
    /\ IsFirstAt60(i)
    /\ C(i).ma60 > 0 /\ C(i - 1).ma60 > 0
    /\ C(i - 1).close >= C(i - 1).ma60 /\ C(i).close < C(i).ma60

\* Under the ceiling of the last days, as the short average turns up.
IsStg9State(i) ==
    LET high == Top("high", (i - Spans.ceiling)..(i - 1))
    IN  /\ i >= Spans.ceiling + 2
        /\ C(i).ma5 > 0 /\ C(i).ma20 > 0 /\ C(i).ma60 > 0 /\ C(i).ma120 > 0
        /\ C(i).ma20 * 1000 > C(i).ma60 * 1008 /\ C(i).ma60 * 1000 > C(i).ma120 * 1008
        /\ C(i - 1).ma5 <= C(i - 2).ma5 /\ C(i).ma5 > C(i - 1).ma5
        /\ C(i).low * 100 >= high * 93 /\ C(i).low * 100 <= high * 109 /\ C(i).high < high
        /\ C(i).ma5 * C(i).volume >= Spans.turnover

\* A golden cross lately, and a fast average that pulls the slow one up.
IsStg7State(i) ==
    /\ i >= Spans.cross + 1
    /\ C(i).ma60 > 0 /\ C(i - Spans.pull).ma20 > 0 /\ C(i - Spans.pull).ma60 > 0
    /\ C(i).ma20 * 100 > C(i).ma60 * 102
    /\ \E j \in (i - Spans.cross)..(i - Spans.settled - 1) : C(j).ma20 < C(j).ma60
    /\ \A j \in (i - Spans.settled)..i : C(j).ma20 > C(j).ma60
    /\ C(i).ma20 * 100 > C(i - Spans.pull).ma20 * 101
    /\ C(i).ma20 * C(i - Spans.pull).ma60 > C(i).ma60 * C(i - Spans.pull).ma20

\* From over the 60 average to under the 120 average in a day.
IsStg14Oversold(i) ==
    /\ i >= Spans.aligned14
    /\ \A j \in (i - Spans.aligned14 + 1)..i : Aligned(j)
    /\ \A j \in (i - 2)..i : C(j).ma20 > C(j - 1).ma20
    /\ C(i).open > C(i).ma60 /\ C(i).close < C(i).ma120

\* A close comes from below within 2.5 % of a DefBox that no close has broken.
IsDefBoxApproach(i) ==
    /\ i >= defbox.known /\ i >= 1 /\ defbox.price > 0
    /\ C(i).close * 1000 >= defbox.price * 975 /\ C(i).close < defbox.price
    /\ C(i - 1).close * 1000 < defbox.price * 975
    /\ \A j \in defbox.at..(i - 1) : C(j).close <= defbox.price

Becomes(State(_), i) == i >= 1 /\ State(i) /\ ~State(i - 1)

Happening(i) ==
    {e \in {"BBLowerBreakdown", "BBLowerReentry", "BBSqueezeBreakout", "Stg6PullbackTouch",
            "Stg11MA60Breakdown", "Stg11MA60FirstTouch", "Stg9ApexPerch", "Stg7GCAccel",
            "Stg14Oversold", "DefBoxApproach"} :
       CASE e = "BBLowerBreakdown" -> IsBBLowerBreakdown(i)
         [] e = "BBLowerReentry" -> IsBBLowerReentry(i)
         [] e = "BBSqueezeBreakout" -> IsBBSqueezeBreakout(i)
         [] e = "Stg6PullbackTouch" -> Becomes(IsStg6State, i)
         [] e = "Stg11MA60Breakdown" -> IsStg11Breakdown(i)
         [] e = "Stg11MA60FirstTouch" -> IsStg11Touch(i)
         [] e = "Stg9ApexPerch" -> Becomes(IsStg9State, i)
         [] e = "Stg7GCAccel" -> Becomes(IsStg7State, i)
         [] e = "Stg14Oversold" -> IsStg14Oversold(i)
         [] e = "DefBoxApproach" -> IsDefBoxApproach(i)}

-----------------------------------------------------------------------------
(* Armed triggers. *)

\* The candle before i is a bump: a new high on volume, the next close still rising.
FindDoubleBump(i) ==
    LET b == i - 1
        old == Total("volume", b - Spans.volume, b - 1)
        new == Total("volume", b - Spans.fresh + 1, b)
        low == Bottom("close", (b - Spans.base)..(b - 1))
    IN  IF /\ b >= Spans.history
           /\ C(b).ma5 > 0 /\ C(b).ma20 > 0
           /\ C(b).high > Top("high", (b - Spans.month)..(b - 1))
           /\ C(b).high > C(b).ma5 /\ C(b).high > C(b).ma20
           /\ \/ C(b).volume * Spans.volume * 2 > old * 3
              \/ new * Spans.volume * 2 > old * 3 * Spans.fresh
           /\ C(b).close > C(b - 3).close /\ C(i).close > C(b - 2).close
           /\ C(b).close * new > Spans.turnover * Spans.fresh
           /\ low > 0 /\ C(b).high < 2 * low
        THEN {[bump |-> b, high |-> C(b).high, low |-> low, volume |-> C(b).volume]} ELSE {}

IsRetestDay(i, s) ==
    /\ C(i).close < s.high /\ C(i).open < s.high
    /\ s.volume > C(i).volume
    /\ (C(i).close - s.low) * 100 > 35 * (s.high - s.low)
    /\ C(i).close * C(i).volume > Spans.turnover

\* Mutant: a candle that touched the slow average before does not count against it.
IsFirstPierce120Again(i) ==
    /\ i >= Spans.inverted + 1
    /\ C(i).ma120 > 0 /\ C(i).high > C(i).ma120
    /\ \A j \in (i - Spans.inverted)..(i - 1) :
         C(j).ma20 > 0 /\ C(j).ma20 < C(j).ma60 /\ C(j).ma20 < C(j).ma120 /\ C(j).ma60 < C(j).ma120

\* Inverted averages and no touch of the slow one, until now.
IsFirstPierce120(i) ==
    /\ i >= Spans.inverted + 1
    /\ C(i).ma120 > 0 /\ C(i).high > C(i).ma120
    /\ \A j \in (i - Spans.inverted)..(i - 1) :
         /\ C(j).ma20 > 0 /\ C(j).ma20 < C(j).ma60
         /\ C(j).ma20 < C(j).ma120 /\ C(j).ma60 < C(j).ma120
         /\ C(j).high < C(j).ma120

IsRetreatEntry(i) ==
    /\ i >= 1 /\ C(i).ma5 > 0 /\ C(i).ma20 > 0 /\ C(i).ma60 > 0
    /\ C(i).close < C(i).ma20 /\ C(i - 1).close < C(i - 1).ma20
    /\ 2 * C(i).ma5 >= C(i).ma20 + C(i).ma60

ArmedNames == {"DoubleBumpRetest", "DoubleBumpBreakout2", "Stg2Inverted120Retreat"}

WindowOf(name) == IF name = "Stg2Inverted120Retreat" THEN Spans.retreat ELSE Spans.bumpWindow

Found(name, i) ==
    CASE name = "Stg2Inverted120Retreat" -> IF IsFirstPierce120(i) THEN {[pierce |-> i]} ELSE {}
      [] OTHER -> FindDoubleBump(i)

\* The arm after expiry and a new arm.
Waiting(a, name, i) ==
    LET found == Found(name, i)
    IN  IF found = {} THEN {x \in a : i <= x.pos + WindowOf(name)}
        ELSE {[pos |-> i, closes |-> 0, state |-> CHOOSE s \in found : TRUE]}

\* Mutant: each check starts to count anew.
CountedAfresh(x, name, i) ==
    IF name # "Stg2Inverted120Retreat" /\ i > x.pos
    THEN [x EXCEPT !.closes = IF C(i).close > x.state.high THEN 1 ELSE 0] ELSE x

\* A check counts the closes over the bump; the candle that arms is not checked.
Counted(x, name, i) ==
    IF name # "Stg2Inverted120Retreat" /\ i > x.pos /\ C(i).close > x.state.high
    THEN [x EXCEPT !.closes = @ + 1] ELSE x

FiresArmed(x, name, i) ==
    /\ i > x.pos
    /\ CASE name = "DoubleBumpRetest" ->
              x.closes < 2 /\ i - x.state.bump > Spans.rest /\ IsRetestDay(i, x.state)
         [] name = "DoubleBumpBreakout2" ->
              C(i).close > x.state.high /\ x.closes = 1 /\ i - x.state.bump > Spans.rest
         [] name = "Stg2Inverted120Retreat" -> IsRetreatEntry(i)

EventInit ==
    \E t \in EventTapes :
      /\ candles = t.candles /\ defbox = t.defbox
      /\ pos = 0
      /\ events = {}
      /\ waiting = [n \in ArmedNames |-> {}]

EventStep ==
    LET i == pos + 1
        held == [n \in ArmedNames |-> {Counted(x, n, i) : x \in Waiting(waiting[n], n, i)}]
        fired == {n \in ArmedNames : \E x \in held[n] : FiresArmed(x, n, i)}
    IN  /\ pos < Last
        /\ pos' = i
        /\ events' = events \cup {[name |-> n, pos |-> i] : n \in Happening(i) \cup fired}
        /\ waiting' = [n \in ArmedNames |-> IF n \in fired THEN {} ELSE held[n]]
        /\ UNCHANGED <<candles, defbox>>

-----------------------------------------------------------------------------
(* Properties. *)

At(name) == {e.pos : e \in {x \in events : x.name = name}}

\* What the registry asks of a trigger (trigger_registry.go:8): it fires at the candle of its
\* event and not again at the next.  Stg14Oversold is an event of a day of its own.
TriggersAreEdges ==
    lab = "events" =>
      \A e \in events : e.name # "Stg14Oversold" /\ e.name \notin ArmedNames
        => [name |-> e.name, pos |-> e.pos + 1] \notin events

\* While the band is known, falling out of it and coming back take turns.
BandCrossingsAlternate ==
    lab = "events" =>
      \A s \in {"BBLowerBreakdown", "BBLowerReentry"} : \A i, j \in At(s) :
        i < j /\ (\A k \in i..j : Valid(C(k)))
          => \E k \in At(IF s = "BBLowerReentry" THEN "BBLowerBreakdown" ELSE "BBLowerReentry") : i < k /\ k < j

\* The average can be pierced for the first time only once in the time it has to stay
\* untouched: an arm is never replaced, and two entries are of two pierces.
PierceIsRare ==
    lab = "events" =>
      \A i, j \in 1..pos : i < j /\ IsFirstPierce120(i) /\ IsFirstPierce120(j) => j - i > Spans.inverted

\* Closes over a bump end it (armed_trigger_registry.go:76): after the second, and for the
\* breakout after the first, no trigger acts on it until the next bump arms.
BumpIsSpent ==
    lab = "events" =>
      \A n \in {"DoubleBumpRetest", "DoubleBumpBreakout2"} : \A f \in At(n) :
        LET arm == HighestOf({j \in 1..(f - 1) : FindDoubleBump(j) # {}})
            high == C(arm - 1).high
        IN  Cardinality({j \in (arm + 1)..f : C(j).close > high}) <= 1
=============================================================================
