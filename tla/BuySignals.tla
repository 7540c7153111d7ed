------------------------------ MODULE BuySignals ------------------------------
(***************************************************************************)
(* The buy signals of one analysis (stg/analyzer.go evaluateBuySignals,    *)
(* evaluateTriggerSignals, evaluatePerCandleSignals, buy_rule_engine.go,   *)
(* buy_followup.go, armed_trigger.go and the armed DefBox triggers), and   *)
(* beside it the scan of one trigger by ScanTrigger (trigger_scan.go).     *)
(*                                                                         *)
(* A candle is taken in steps, in the order of analyzeInternal: a change   *)
(* of the DefBox, the breakout with the REST1 rules and the REST2 verdict, *)
(* or what follows a breakout, the additional buys, the follow-up, the     *)
(* triggers, the per-candle rules and the sales.                           *)
(*                                                                         *)
(* A candle carries its prices in small integers, whether volume and ATR   *)
(* let a breakout pass, the conditions that hold, the REST2 verdict and    *)
(* whether the range is short, and the DefBox it brings, if any.           *)
(***************************************************************************)
EXTENDS Integers, Sequences, FiniteSets

CONSTANTS
    Rules,         \* the strategies, in the order of the file
    Bars,          \* the candles
    LastPosition,  \* of the analysis
    EnableREST2,
    SurvivalBars,  \* settings.DefBoxSurvivalBars
    Cooldown,      \* settings.PerCandleCooldownBars
    Window         \* WindowBars of the armed triggers: [Armed -> Nat]

Armed == {"DefBoxBreakoutFailure", "DefBoxBreakoutSurvival"}
Once == {"defbox", "cooldown", "none"}

\* The names of the signals that are no rule's.
EngineNames == {"ShortRange", "Additional", "MultiPen", "MultiWait", "Waiting", "WeakGround"}

\* onCandle stands for evaluation: per_candle; 0 is no filter on the DefBox's links. A rule's name
\* is the key of what is remembered of it: no two rules of a file share one, nor has a rule one
\* of the engine's.
ASSUME BuyAssumption ==
    /\ Rules \in Seq({Rules[r] : r \in DOMAIN Rules})
    /\ \A r \in DOMAIN Rules :
         /\ Rules[r].trigger \in Armed \cup {"", "DefBoxBreakout"}
         /\ Rules[r].oncePer \in Once
         /\ {Rules[r].defCount, Rules[r].defCountMin} \subseteq Nat
         /\ Rules[r].name \notin EngineNames \cup {"Determine"}
         /\ \A q \in DOMAIN Rules : Rules[q].name = Rules[r].name => q = r
    /\ EnableREST2 \in BOOLEAN
    /\ LastPosition \in Nat \ {0} /\ {SurvivalBars, Cooldown} \subseteq Nat
    /\ Window \in [Armed -> Nat]

VARIABLES
    i,        \* ctx.Position, from 1
    bar,      \* the candle
    prev,     \* the candle before
    pc,       \* the next step
    box,      \* ctx.DefboxPrice and DefCount; price 0: no DefBox yet
    dam,      \* ctx.DamChecker
    last,     \* the keys of ctx.LastBuySignalPosition
    lastPer,  \* ctx.LastPerCandleSignalPosition, 0: never
    bsig,     \* ctx.Bsig: "" or "candidate"
    buyOn,    \* ctx.BuyOn
    helper,   \* ctx.BuyHelper
    pen,      \* ctx.PenPosition
    armed,    \* ctx.ArmedTriggerState
    held,     \* the strategies with an open position
    signals,  \* the signals of this candle, in order
    scan,     \* for each trigger rule, the state of its ScanTrigger
    count,    \* history: the signals of each name since the DefBox changed
    used      \* history: candidates recorded, and additional buys made

vars == <<i, bar, prev, pc, box, dam, last, lastPer, bsig, buyOn, helper, pen, armed, held,
          signals, scan, count, used>>

Elements(s) == {s[k] : k \in DOMAIN s}

\* checkBuyConditions falls back to one fixed list of conditions when no rule is loaded.
Fallback == [name |-> "DefBoxBreakout", trigger |-> "", onCandle |-> FALSE, oncePer |-> "defbox",
             defCount |-> 0, defCountMin |-> 0, when |-> {"fallback"}, signal |-> "buy"]
Strategies == IF Rules = << >> THEN <<Fallback>> ELSE Rules
R == DOMAIN Strategies
Names == {Strategies[r].name : r \in R} \cup EngineNames

OnBreakout(r) == Strategies[r].trigger = "" /\ ~Strategies[r].onCandle
PerCandle(r) == Strategies[r].trigger = "" /\ Strategies[r].onCandle
Triggered(r) == Strategies[r].trigger # ""

Disarmed == [on |-> FALSE, at |-> 0, price |-> 0, failed |-> FALSE]
NoScan == [st |-> Disarmed, lastFire |-> -Cooldown, fired |-> FALSE]

-----------------------------------------------------------------------------
(* Conditions. *)

IsDefBoxBreakout == prev.close < box.price /\ (bar.close >= box.price \/ bar.open > box.price)

\* The gate is trading value and ATR together.
CheckDefBoxBreakout == IsDefBoxBreakout /\ bar.gate

CountFits(r) ==
    /\ Strategies[r].defCount > 0 => box.count = Strategies[r].defCount
    /\ Strategies[r].defCountMin > 0 => box.count >= Strategies[r].defCountMin

EvaluateSingleRule(r) == Strategies[r].when \subseteq bar.conditions

FirstOf(S) == CHOOSE r \in S : \A q \in S : r <= q

\* The first rule of the file that matches and has not fired since the DefBox came.
EvaluateRules ==
    {r \in R : /\ OnBreakout(r) /\ Strategies[r].name \notin last
               /\ CountFits(r) /\ EvaluateSingleRule(r)}

\* Signals the helper does not keep.
Waits == {"wait", "multidefWait", "notMultidefWait"}

\* Mutant: it keeps them.
HelperAfterAny(report) == report

HelperAfter(report) == IF report \in Waits THEN helper ELSE report

\* The legs and oscillations it looks for need a candle after pen.
IsShortRangeValid == bar.short /\ i > pen

-----------------------------------------------------------------------------
(* Armed triggers: tickArmedTrigger with the two DefBox triggers. *)

ExpireLate(st, t) == IF st.on /\ i > st.at + Window[t] + 1 THEN [st EXCEPT !.on = FALSE] ELSE st

Expire(st, t) == IF st.on /\ i > st.at + Window[t] THEN [st EXCEPT !.on = FALSE] ELSE st

\* Mutant: an armed trigger is not armed again.
CheckArmOnce(st) ==
    IF ~st.on /\ box.price # 0 /\ CheckDefBoxBreakout
    THEN [on |-> TRUE, at |-> i, price |-> box.price, failed |-> FALSE]
    ELSE st

CheckArm(st) ==
    IF box.price # 0 /\ CheckDefBoxBreakout
    THEN [on |-> TRUE, at |-> i, price |-> box.price, failed |-> FALSE]
    ELSE st

\* CheckFire is asked only after the candle that armed; the survivor remembers a failure.
Tick(old, t) ==
    LET st == CheckArm(Expire(old, t))
        below == bar.close < st.price
        failed == st.failed \/ (t = "DefBoxBreakoutSurvival" /\ below)
        fires == IF t = "DefBoxBreakoutFailure" THEN below
                 ELSE ~failed /\ i - st.at = (IF SurvivalBars = 0 THEN 5 ELSE SurvivalBars)
    IN  IF st.on /\ i > st.at
        THEN [st |-> [st EXCEPT !.failed = failed, !.on = ~fires], fired |-> fires]
        ELSE [st |-> st, fired |-> FALSE]

-----------------------------------------------------------------------------
(* Signals. *)

\* A signal is appended and counted; buildTradePositionFromSignal opens a position.
Emit(names) ==
    /\ signals' = signals \o names
    /\ count' = [n \in Names |-> count[n] + Cardinality({k \in DOMAIN names : names[k] = n})]
    /\ held' = held \cup Elements(names)

Quiet == UNCHANGED <<signals, count, held>>

\* setBuySignalState("즉시매수") followed by finalizeBuySignal.
BuyNow(name, report) ==
    /\ Emit(<<name>>)
    /\ buyOn' = TRUE
    /\ bsig' = ""
    /\ helper' = HelperAfter(report)

Init ==
    /\ i = 1
    /\ bar \in Bars /\ bar.def = 0
    /\ prev = bar
    /\ pc = "next"
    /\ box = [price |-> 0, count |-> 0]
    /\ dam = 0
    /\ last = {}
    /\ lastPer = [n \in Names |-> 0]
    /\ bsig = "" /\ buyOn = FALSE /\ helper = "" /\ pen = 0
    /\ armed = [t \in Armed |-> Disarmed]
    /\ held = {} /\ signals = << >>
    /\ scan = [r \in R |-> NoScan]
    /\ count = [n \in Names |-> 0]
    /\ used = [candidates |-> 0, additional |-> 0]

engine == <<last, lastPer, bsig, buyOn, helper, pen, armed, held>>

\* The next candle; a DefBox it brings is the last of the box list from here on.
NextCandle(b) ==
    /\ pc = "next" /\ i < LastPosition
    /\ i' = i + 1 /\ prev' = bar /\ bar' = b
    /\ signals' = << >>
    /\ pc' = "defbox"
    /\ UNCHANGED <<box, dam, engine, scan, count, used>>

\* Mutant: a new DefBox does not reset what has fired.
ChangeDefBoxKeeping ==
    /\ pc = "defbox"
    /\ pc' = "breakout"
    /\ IF bar.def # 0
       THEN /\ box' = [price |-> bar.def, count |-> bar.links]
            /\ dam' = 1 /\ helper' = ""
            /\ count' = [n \in Names |-> 0]
       ELSE UNCHANGED <<box, dam, helper, count>>
    /\ UNCHANGED <<i, bar, prev, last, lastPer, bsig, buyOn, pen, armed, held, signals, scan, used>>

\* A DefBox with another index: the box is read anew and the records are dropped,
\* the candidate, the position of the last signal and BuyOn stay.
ChangeDefBox ==
    /\ pc = "defbox"
    /\ pc' = "breakout"
    /\ IF bar.def # 0
       THEN /\ box' = [price |-> bar.def, count |-> bar.links]
            /\ dam' = 1 /\ last' = {} /\ helper' = ""
            /\ count' = [n \in Names |-> 0]
       ELSE UNCHANGED <<box, dam, last, helper, count>>
    /\ UNCHANGED <<i, bar, prev, lastPer, bsig, buyOn, pen, armed, held, signals, scan, used>>

still == <<i, bar, prev, box, lastPer, armed, scan>>

\* Mutant: the breakout leaves DamChecker at 1.
RulesOnBreakoutAgain ==
    /\ pc = "breakout" /\ dam = 1 /\ CheckDefBoxBreakout
    /\ pc' = IF EnableREST2 THEN "determine" ELSE "triggers"
    /\ IF EvaluateRules # {}
       THEN LET r == FirstOf(EvaluateRules)
            IN  /\ last' = last \cup {Strategies[r].name}
                /\ pen' = i
                /\ BuyNow(Strategies[r].name, Strategies[r].signal)
       ELSE Quiet /\ UNCHANGED <<last, pen, buyOn, bsig, helper>>
    /\ UNCHANGED <<still, dam, used>>

\* DamChecker 1 and the gate passed: the one candle on which the REST1 rules are asked.
RulesOnBreakout ==
    /\ pc = "breakout" /\ dam = 1 /\ CheckDefBoxBreakout
    /\ dam' = 2
    /\ pc' = IF EnableREST2 THEN "determine" ELSE "triggers"
    /\ IF EvaluateRules # {}
       THEN LET r == FirstOf(EvaluateRules)
            IN  /\ last' = last \cup {Strategies[r].name}
                /\ pen' = i
                /\ BuyNow(Strategies[r].name, Strategies[r].signal)
       ELSE Quiet /\ UNCHANGED <<last, pen, buyOn, bsig, helper>>
    /\ UNCHANGED <<still, used>>

\* S13, S14 and S16 record a candidate, which buys nothing; S15 asks for a penetration
\* option nothing sets.
PenetrationOptionValid == FALSE

DetermineBuySignal ==
    /\ pc = "determine"
    /\ pc' = "additional"
    /\ IF "Determine" \in last \/ bar.verdict = "none" \/ (bar.verdict = "13" /\ box.count # 1)
             \/ (bar.verdict = "16" /\ box.count < 2)
       THEN Quiet /\ UNCHANGED <<last, pen, buyOn, bsig, helper, used>>
       ELSE /\ pen' = i
            /\ IF bar.verdict = "16" /\ PenetrationOptionValid
               THEN BuyNow("MultiPen", "multidef") /\ last' = last \cup {"Determine"} /\ UNCHANGED used
               ELSE /\ bsig' = "candidate"
                    /\ helper' = HelperAfter(IF bar.verdict = "16" THEN "multidefWait"
                                             ELSE IF "simpleMA" \in bar.conditions THEN "wait" ELSE "weak")
                    /\ used' = [used EXCEPT !.candidates = @ + 1]
                    /\ Quiet /\ UNCHANGED <<last, buyOn>>
    /\ UNCHANGED <<still, dam>>

\* DamChecker 2: S19, once per DefBox, from the position of the last signal of any DefBox.
PostBreakout ==
    /\ pc = "breakout" /\ ~(dam = 1 /\ CheckDefBoxBreakout)
    /\ pc' = IF EnableREST2 THEN "additional" ELSE "triggers"
    /\ IF dam = 2 /\ EnableREST2 /\ "ShortRange" \notin last /\ 0 < pen /\ pen < i /\ IsShortRangeValid
       THEN BuyNow("ShortRange", "SR") /\ last' = last \cup {"ShortRange"}
       ELSE Quiet /\ UNCHANGED <<last, buyOn, bsig, helper>>
    /\ UNCHANGED <<still, dam, pen, used>>

\* The wait of several DefBoxes turns into a buy; nothing sets the helper it asks for.
IsMultiDefWaitToBuy ==
    /\ helper = "multidefWait" /\ i > pen /\ bar.close > bar.open
    /\ bar.open < box.price \/ prev.close < box.price
    /\ bar.close >= box.price

\* Mutant: an additional buy leaves the candidate.
AdditionalBuyKeeping ==
    /\ pc = "additional"
    /\ pc' = "followup"
    /\ IF ~buyOn /\ bsig = "candidate" /\ "Additional" \notin last /\ IsShortRangeValid
       THEN /\ Emit(<<"Additional">>) /\ buyOn' = TRUE /\ helper' = HelperAfter("SR")
            /\ last' = last \cup {"Additional"} /\ used' = [used EXCEPT !.additional = @ + 1]
       ELSE Quiet /\ UNCHANGED <<last, buyOn, helper, used>>
    /\ UNCHANGED <<still, bsig, dam, pen>>

\* processAdditionalBuySignals (S20), behind the gate of the candidate.
AdditionalBuy ==
    /\ pc = "additional"
    /\ pc' = "followup"
    /\ IF ~buyOn /\ bsig = "candidate" /\ "Additional" \notin last /\ (IsMultiDefWaitToBuy \/ IsShortRangeValid)
       THEN /\ IF IsMultiDefWaitToBuy THEN BuyNow("MultiWait", "multidefWaited") ELSE BuyNow("Additional", "SR")
            /\ last' = last \cup {"Additional"}
            /\ used' = [used EXCEPT !.additional = @ + 1]
       ELSE Quiet /\ UNCHANGED <<last, buyOn, bsig, helper, used>>
    /\ UNCHANGED <<still, dam, pen>>

\* processFollowUpBuyDecisions: S17; S18 asks for a SellHelper without the suffix of a sale.
FollowUp ==
    /\ pc = "followup"
    /\ pc' = "triggers"
    /\ IF helper = "multidefWait" /\ i - pen \in 1..9 /\ bar.close > bar.open
             /\ (bar.open < box.price \/ prev.close < box.price) /\ bar.close > box.price
       THEN BuyNow("Waiting", "MD") ELSE Quiet /\ UNCHANGED <<buyOn, bsig, helper>>
    /\ UNCHANGED <<still, last, dam, pen, used>>

-----------------------------------------------------------------------------
(* Triggers. *)

\* Mutant: it is not ticked while the rules that name it rest.
TicksAwake(t) ==
    IF \E r \in R : /\ Strategies[r].trigger = t
                    /\ Strategies[r].oncePer = "cooldown" /\ lastPer[Strategies[r].name] # 0
                    /\ i - lastPer[Strategies[r].name] < Cooldown
    THEN [st |-> armed[t], fired |-> FALSE]
    ELSE Tick(armed[t], t)

\* What an armed trigger does on this candle: ticked before any filter of a rule is asked.
Ticks(t) == Tick(armed[t], t)

Referenced(t) == \E r \in R : Strategies[r].trigger = t

Fired(t) ==
    IF t = "DefBoxBreakout" THEN box.price # 0 /\ CheckDefBoxBreakout ELSE Ticks(t).fired

Rests(n, bars) == lastPer[n] # 0 /\ i - lastPer[n] < bars

MayFire(r) ==
    CASE Strategies[r].oncePer = "defbox" -> Strategies[r].name \notin last
      [] Strategies[r].oncePer = "cooldown" -> ~Rests(Strategies[r].name, Cooldown)
      [] OTHER -> TRUE

\* The rules that signal: of the rules of one trigger the first that matches.
Matches ==
    LET ready == {r \in R : /\ Triggered(r) /\ MayFire(r) /\ CountFits(r)
                            /\ Fired(Strategies[r].trigger) /\ EvaluateSingleRule(r)}
    IN  {r \in ready : \A q \in ready : Strategies[q].trigger = Strategies[r].trigger => r <= q}

InOrder(S) ==
    LET Nth[k \in 1..Cardinality(S)] ==
          CHOOSE r \in S : Cardinality({q \in S : q < r}) = k - 1
    IN  [k \in 1..Cardinality(S) |-> Strategies[Nth[k]].name]

\* One candle of ScanTrigger for the trigger and the conditions of rule r: its own context,
\* and a cooldown after the trigger.
ScanStep(r) ==
    LET t == Strategies[r].trigger
        rest == IF Strategies[r].oncePer = "cooldown" THEN Cooldown ELSE 0
        tick == IF t \in Armed THEN Tick(scan[r].st, t) ELSE [st |-> Disarmed, fired |-> Fired(t)]
        fires == /\ Triggered(r) /\ tick.fired
                 /\ i - scan[r].lastFire >= rest
                 /\ EvaluateSingleRule(r)
    IN  [st |-> tick.st, fired |-> fires, lastFire |-> IF fires THEN i ELSE scan[r].lastFire]

EvaluateTriggers ==
    /\ pc = "triggers"
    /\ pc' = "candle"
    /\ armed' = [t \in Armed |-> IF Referenced(t) THEN Ticks(t).st ELSE armed[t]]
    /\ last' = last \cup {Strategies[r].name : r \in {q \in Matches : Strategies[q].oncePer = "defbox"}}
    /\ lastPer' = [n \in Names |->
                     IF \E r \in Matches : Strategies[r].oncePer = "cooldown" /\ Strategies[r].name = n
                     THEN i ELSE lastPer[n]]
    /\ Emit(InOrder(Matches))
    /\ scan' = [r \in R |-> IF Triggered(r) THEN ScanStep(r) ELSE scan[r]]
    /\ UNCHANGED <<i, bar, prev, box, dam, bsig, buyOn, helper, pen, used>>

\* evaluatePerCandleSignals: no second position of a rule, and a cooldown.
EvaluatePerCandle ==
    LET fires == {r \in R : /\ PerCandle(r) /\ ~Rests(Strategies[r].name, Cooldown)
                            /\ Strategies[r].name \notin held /\ EvaluateSingleRule(r)}
    IN  /\ pc = "candle"
        /\ pc' = "sell"
        /\ lastPer' = [n \in Names |-> IF \E r \in fires : Strategies[r].name = n THEN i ELSE lastPer[n]]
        /\ Emit(InOrder(fires))
        /\ UNCHANGED <<i, bar, prev, box, dam, last, bsig, buyOn, helper, pen, armed, scan, used>>

\* The exits of this candle: positions are closed, and the last of them takes BuyOn down.
Sell(closed) ==
    /\ pc = "sell"
    /\ pc' = "next"
    /\ held' = held \ closed
    /\ buyOn' = IF closed # {} /\ held = closed THEN FALSE ELSE buyOn
    /\ UNCHANGED <<i, bar, prev, box, dam, last, lastPer, bsig, helper, pen, armed, signals, scan, count, used>>

Next ==
    \/ \E b \in Bars : NextCandle(b)
    \/ ChangeDefBox
    \/ RulesOnBreakout
    \/ DetermineBuySignal
    \/ PostBreakout
    \/ AdditionalBuy
    \/ FollowUp
    \/ EvaluateTriggers
    \/ EvaluatePerCandle
    \/ \E closed \in {{}, held} \cup {{n} : n \in held} : Sell(closed)

Spec == Init /\ [][Next]_vars

-----------------------------------------------------------------------------
(* Properties. *)

\* Every state component has its type: the analysis stays inside the list, its records name
\* rules or paths of the engine, and an armed trigger was armed at a candle it has seen.
TypeOK ==
    /\ i \in 1..LastPosition /\ {bar, prev} \subseteq Bars
    /\ box.price = 0 <=> dam = 0
    /\ dam \in 0..2 /\ last \subseteq Names \cup {"Determine"}
    /\ lastPer \in [Names -> 0..i] /\ pen \in 0..i
    /\ bsig \in {"", "candidate"} /\ buyOn \in BOOLEAN /\ held \subseteq Names
    /\ \A t \in Armed : armed[t].at \in 0..i /\ (pc = "candle" /\ armed[t].on /\ Referenced(t) => i <= armed[t].at + Window[t])

\* Between two changes of the DefBox the breakout of stg/analyzer.go buys once at most, by one
\* rule; a trigger rule with once_per: defbox, the short range and the additional buy each once.
OncePerDefBox ==
    LET breakout == {Strategies[r].name : r \in {q \in R : OnBreakout(q)}}
    IN  /\ \A m, n \in breakout : count[m] > 0 /\ count[n] > 0 => m = n /\ count[n] = 1
        /\ \A r \in R : Triggered(r) /\ Strategies[r].oncePer = "defbox" => count[Strategies[r].name] <= 1
        /\ count["ShortRange"] <= 1 /\ count["Additional"] <= 1

\* trigger_registry.go:31: a trigger rule with once_per: defbox stands for a rule on breakout.
\* With the same conditions, first of its trigger, it signals on every candle the latter does.
BreakoutTwin ==
    \A r, q \in R :
      /\ OnBreakout(r) /\ Strategies[q].trigger = "DefBoxBreakout" /\ Strategies[q].oncePer = "defbox"
      /\ Strategies[q].when = Strategies[r].when /\ Strategies[q].defCount = Strategies[r].defCount
      /\ Strategies[q].defCountMin = Strategies[r].defCountMin
      /\ \A p \in R : Strategies[p].trigger = "DefBoxBreakout" => q <= p
      => (pc = "candle" /\ Strategies[r].name \in Elements(signals) => Strategies[q].name \in Elements(signals))

\* A candidate (S13, S14, S16) leads to one additional buy at most, whatever DefBoxes, sales and
\* breakouts come between.
CandidateBuysOnce == used.additional <= used.candidates

\* The triggers of failure and survival answer the same breakouts: while a survivor is still
\* counted its failure stays armed at the same box, and a failure that has come ends it.
FailedNeverSurvives ==
    LET f == armed["DefBoxBreakoutFailure"]
        s == armed["DefBoxBreakoutSurvival"]
    IN  pc \notin {"next", "defbox"} \/ ~s.on \/ i > s.at + Window["DefBoxBreakoutFailure"]
          \/ /\ f.at = s.at /\ f.price = s.price
             /\ f.on <=> ~s.failed

\* trigger_scan.go:7: a combination ScanTrigger measures gives the same signals as a rule. So
\* does every armed rule without filters on the DefBox that is the first of its trigger.
EngineParity ==
    pc = "candle" =>
      \A r \in R :
        /\ Strategies[r].trigger \in Armed /\ Strategies[r].oncePer # "defbox"
        /\ Strategies[r].defCount = 0 /\ Strategies[r].defCountMin = 0
        /\ \A q \in R : Strategies[q].trigger = Strategies[r].trigger => r <= q
        => (Strategies[r].name \in Elements(signals) <=> scan[r].fired)

\* The paths the comments call dead (buy_followup.go:64, 129, 152) stay so: no step signals
\* S15, S17, S18 or the wait of several DefBoxes.
DeadPathsStayDead ==
    Elements(signals) \cap {"MultiPen", "MultiWait", "Waiting", "WeakGround"} = {}

\* What buys once buys once: a breakout of a DefBox, a candidate, and the dead paths never
\* (analyzer.go:240, buy_followup.go:117, 64).
BuysOnce == TypeOK /\ OncePerDefBox /\ CandidateBuysOnce /\ DeadPathsStayDead
=============================================================================
