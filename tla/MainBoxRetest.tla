---------------------------- MODULE MainBoxRetest ----------------------------
(***************************************************************************)
(* What follows the break of a DefBox (stg/mainbox_retest_analyze.go): the *)
(* price rises, leaves a resistance, comes back to the line of the main    *)
(* box and rebounds.  Each DefBox has a cycle of its own and cycles run    *)
(* side by side; a cycle has five groups of signals, filled at the next    *)
(* open.  The settings are percents.                                       *)
(***************************************************************************)
EXTENDS BoxTrack

CONSTANTS
    RetestTapes,
    RetestConfigs    \* MainBoxRetestConfig, with rules: a break must match a buy rule

ASSUME RetestAssumption ==
    /\ \A t \in RetestTapes : Directed(t)
    /\ \A cfg \in RetestConfigs : \A f \in {"runup", "gap", "maxBars", "breakdown"} : cfg[f] \in Int

VARIABLE retest      \* the loop's memory: track, current DefBox, cycles, signals

Groups == {"A", "B", "C", "C0", "C2"}

-----------------------------------------------------------------------------
(* Conditions on candle i and the line of the main box. *)

mainBoxRetestTouched(i, line, cfg) ==
    LET c == C(i)
        body == Boxes!Abs(c.close - c.open)
        wick == LowestOf({c.open, c.close}) - c.low
    IN  /\ c.low * 100 <= line * (100 + cfg.touch)
        /\ c.low * 100 >= line * (100 - cfg.undercut)
        /\ c.close * 100 >= line * (100 - cfg.recovery)
        /\ cfg.mode # "touch" => c.low < line /\ c.close >= line
        /\ cfg.mode = "long_wick_reclaim" => body > 0 /\ wick * 100 >= cfg.wick * body

Recovered(i, line, cfg) == Bullish(i) /\ C(i).close * 100 >= line * (100 - cfg.recovery)

mainBoxRetestRebound(i, line, cfg) == Recovered(i, line, cfg) /\ C(i).close > C(i - 1).high

mainBoxRetestMA5Rebound(i, line, cfg) ==
    /\ Recovered(i, line, cfg) /\ C(i).ma5 > 0 /\ C(i - 1).ma5 > 0
    /\ C(i - 1).close <= C(i - 1).ma5 /\ C(i).close > C(i).ma5

checkDefBoxBreakout(i, price, cfg) ==
    /\ C(i - 1).close < price /\ (C(i).close >= price \/ C(i).open > price)
    /\ C(i).ma5 * C(i).volume >= cfg.volume
    /\ cfg.atr > 0 => C(i).atr <= cfg.atr

-----------------------------------------------------------------------------
(* One candle of a cycle. *)

RunUp(cy, cfg) == (cy.high - cy.line) * 100 >= cy.line * cfg.runup

Ended(cy, i, cfg) ==
    i - cy.breakout > cfg.maxBars \/ C(i).close * 100 < cy.line * (100 - cfg.breakdown)

\* Mutant: a box that lies before the break counts once it is known.
WithBoxAny(cy, b, i, cfg) ==
    IF b.type = "resistance" /\ b.price * 100 >= cy.line * (100 + cfg.gap)
    THEN [cy EXCEPT !.resistance = b.at]
    ELSE IF b.type = "support" /\ cy.resistance >= 0
    THEN [cy EXCEPT !.support = b.at, !.supportCurve = i] ELSE cy

\* A box that became known: a resistance well over the line, or after it a support near it.
WithBox(cy, b, i, cfg) ==
    CASE b.at <= cy.breakout -> cy
      [] b.at > cy.breakout /\ b.type = "resistance" ->
           IF b.price * 100 >= cy.line * (100 + cfg.gap) THEN [cy EXCEPT !.resistance = b.at] ELSE cy
      [] b.at > cy.breakout /\ b.type = "support" ->
           IF /\ cy.resistance >= 0 /\ b.at > cy.resistance
              /\ b.price * 100 >= cy.line * (100 - cfg.undercut)
              /\ b.price * 100 <= cy.line * (100 + cfg.touch)
           THEN [cy EXCEPT !.support = b.at, !.supportCurve = i] ELSE cy

\* Mutant: what was armed by the first retest waits for the next one.
PreparedAgain(cy, i, cfg) ==
    IF RunUp(cy, cfg) /\ mainBoxRetestTouched(i, cy.line, cfg)
    THEN [cy EXCEPT !.arm.A = i, !.arm.B = IF cy.resistance >= 0 THEN i ELSE @] ELSE cy

\* The first retest arms A, the first after a resistance B, the support itself C.
Prepared(cy, i, cfg) ==
    LET run == RunUp(cy, cfg)
        touched == run /\ mainBoxRetestTouched(i, cy.line, cfg)
        held == run /\ cy.supportCurve > 0 /\ mainBoxRetestTouched(cy.support, cy.line, cfg)
        First(g, wanted, at) == IF cy.arm[g] < 0 /\ wanted THEN at ELSE cy.arm[g]
    IN  [cy EXCEPT !.arm = [A |-> First("A", touched, i),
                            B |-> First("B", touched /\ cy.resistance >= 0, i),
                            C |-> First("C", held, cy.supportCurve)]]

\* Groups that fire at candle i, given the cycle before and after arming.
FiringGroups(old, cy, i, cfg) ==
    LET window(g) == cy.arm[g] >= 0 /\ i > cy.arm[g] /\ i - cy.arm[g] <= cfg.window
    IN  IF i >= Last \/ C(i + 1).open <= 0 THEN {}
        ELSE {g \in Groups \ cy.fired :
                CASE g = "C0" -> old.arm.C < 0 /\ cy.arm.C >= 0 /\ i = cy.supportCurve
                  [] g = "C2" -> window("C") /\ mainBoxRetestMA5Rebound(i, cy.line, cfg)
                  [] OTHER -> window(g) /\ mainBoxRetestRebound(i, cy.line, cfg)}

SignalOf(cy, g, i) ==
    [group |-> g, cycle |-> cy, retest |-> IF g \in {"A", "B"} THEN cy.arm[g] ELSE cy.support, fire |-> i]

\* The cycle and its signals after candle i; the boxes that became known at it.
Progress(cy, i, known, cfg) ==
    LET high == [cy EXCEPT !.high = HighestOf({@, C(i).high})]
        noted == IF known = {} THEN high ELSE WithBox(high, CHOOSE b \in known : TRUE, i, cfg)
        armed == Prepared(noted, i, cfg)
        firing == FiringGroups(noted, armed, i, cfg)
    IN  IF cy.invalid THEN [cycle |-> cy, out |-> {}]
        ELSE IF Ended(cy, i, cfg) THEN [cycle |-> [cy EXCEPT !.invalid = TRUE], out |-> {}]
        ELSE [cycle |-> [armed EXCEPT !.fired = @ \cup firing],
              out |-> {SignalOf(armed, g, i) : g \in firing}]

-----------------------------------------------------------------------------
(* The loop. *)

NewCycle(def, line, i) ==
    [def |-> def, breakout |-> i, line |-> line, high |-> C(i).high, resistance |-> -1,
     support |-> -1, supportCurve |-> 0, arm |-> [A |-> -1, B |-> -1, C |-> -1],
     fired |-> {}, invalid |-> FALSE]

\* The cycle that the break of the current DefBox starts; a set of at most one.
Started(r, list, def, i) ==
    LET main == list[list[def].links[1]].price
        line == IF main <= 0 THEN list[def].price ELSE main
    IN  IF /\ def > 0 /\ def \notin {cy.def : cy \in r.cycles}
           /\ checkDefBoxBreakout(i, list[def].price, r.cfg)
           /\ r.cfg.rules => C(i).rule
           /\ list[def].links # << >> /\ line > 0
        THEN {NewCycle(def, line, i)} ELSE {}

RetestInit ==
    /\ candles \in RetestTapes
    /\ \E cfg \in RetestConfigs : retest = [track |-> EmptyTrack, cfg |-> cfg, cycles |-> {}, out |-> {}]
    /\ pos = LoopStart

RetestStep ==
    LET i == pos + 1
        next == Track("engine", retest.track, i)
        list == next.boxes
        known == {list[k] : k \in {j \in (Len(retest.track.boxes) + 1)..Len(list) :
                                     ~IsDef(list[j]) /\ list[j].curve = i}}
        steps == {Progress(cy, i, known, retest.cfg) : cy \in retest.cycles}
    IN  /\ pos < Last
        /\ pos' = i
        /\ retest' = [retest EXCEPT
                        !.track = next,
                        !.cycles = {s.cycle : s \in steps}
                                     \cup Started(retest, list, FindLastDefBoxIndex(list), i),
                        !.out = @ \cup UNION {s.out : s \in steps}]
        /\ UNCHANGED candles

-----------------------------------------------------------------------------
(* Properties. *)

\* A signal is of a cycle that is still alive: up to its fire no close fell too far under the
\* line, the rise came before a retest of A or B, and a group signals once
\* (mainbox_retest_analyze.go:131).
RetestHeld ==
    lab = "retest" =>
      \A s \in retest.out :
        LET cy == s.cycle
            cfg == retest.cfg
        IN  /\ s.fire - cy.breakout <= cfg.maxBars
            /\ \A j \in (cy.breakout + 1)..s.fire : C(j).close * 100 >= cy.line * (100 - cfg.breakdown)
            /\ s.group \in {"A", "B"} =>
                 /\ (Top("high", cy.breakout..s.retest) - cy.line) * 100 >= cy.line * cfg.runup
                 /\ \A j \in (cy.breakout + 1)..(s.retest - 1) :
                      mainBoxRetestTouched(j, cy.line, cfg) =>
                        \/ s.group = "B" \/ (Top("high", cy.breakout..j) - cy.line) * 100 < cy.line * cfg.runup
            /\ \A t \in retest.out : t.group = s.group /\ t.cycle.def = cy.def => t = s

\* What a group says it waited for is in the box list, and was known then: for B a resistance
\* after the break, for C a resistance and a support after it (mainbox_retest_analyze.go:82).
RetestWitnessed ==
    lab = "retest" =>
      \A s \in retest.out :
        LET cy == s.cycle
            boxes == {b \in {retest.track.boxes[k] : k \in DOMAIN retest.track.boxes} :
                        ~IsDef(b) /\ b.at > cy.breakout}
            over == {b \in boxes : b.type = "resistance" /\ b.price * 100 >= cy.line * (100 + retest.cfg.gap)}
        IN  /\ s.group = "B" => \E b \in over : b.curve <= s.retest
            /\ s.group \in {"C", "C0", "C2"} =>
                 \E b \in over, d \in boxes : /\ d.type = "support" /\ d.at = s.retest
                                              /\ b.at < d.at /\ b.curve < d.curve /\ d.curve <= s.fire
=============================================================================
