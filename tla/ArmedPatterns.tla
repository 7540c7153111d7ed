----------------------------- MODULE ArmedPatterns -----------------------------
(***************************************************************************)
(* Patterns of turning points.  A top, a head with shoulders or a pullback *)
(* arms when its last box becomes known and fires when the price confirms  *)
(* it (cond/sell_mtop.go, sell_hns.go, buy_pullback.go); a W signals when  *)
(* it is complete (cond/buy_indicator.go).  Each is written twice: as an   *)
(* analyzer of its own (stg/mpattern, hns, pullback, wpattern, wgc) and as *)
(* a trigger of the rule engine (stg/armed_trigger.go), whose loop makes   *)
(* the DefBoxes at another place.  Here every pattern runs on all three    *)
(* loops, so that they can be compared.                                    *)
(***************************************************************************)
EXTENDS BoxPatterns

CONSTANT PatternTapes    \* the candle lists

ASSUME PatternAssumption ==
    \A t \in PatternTapes : Directed(t) /\ \A j \in DOMAIN t : t[j].ma20 \in Int

VARIABLES
    track,     \* the box list of each loop
    arms,      \* arms[loop][pattern]: what it waits with
    fires      \* the signals so far

-----------------------------------------------------------------------------
(* Arming and firing. *)

Armed == {"mtop", "hns", "pullback"}

Arm(i, state) == [pos |-> i, state |-> state]
Unexpired(a, i) == {x \in a : i <= x.pos + Bars.window}

\* The loops of the analyzers: what is armed at candle i when they ask whether it fires.
MPatternAnalyze(a, list, i, newBox) ==
    IF C(i - 1).key > 0 /\ C(i).key < 0 /\ newBox /\ C(i).ma20 > 0 /\ C(i).close > C(i).ma20
       /\ FindBBMTopBoxPattern(list, i) # {}
    THEN {Arm(i, p) : p \in FindBBMTopBoxPattern(list, i)} ELSE Unexpired(a, i)

HNSAnalyze(a, list, i, newBox) ==
    IF C(i - 1).key > 0 /\ C(i).key < 0 /\ newBox /\ FindHNSPattern(list, i) # {}
    THEN {Arm(i, p) : p \in FindHNSPattern(list, i)} ELSE Unexpired(a, i)

PullbackAnalyze(a, list, i, newBox) ==
    IF C(i - 1).key < 0 /\ C(i).key > 0 /\ newBox /\ FindMA20PullbackPattern(list, i) # {}
    THEN {Arm(i, p) : p \in FindMA20PullbackPattern(list, i)} ELSE Unexpired(a, i)

Analyze(pattern, a, list, i, newBox) ==
    CASE pattern = "mtop" -> MPatternAnalyze(a, list, i, newBox)
      [] pattern = "hns" -> HNSAnalyze(a, list, i, newBox)
      [] pattern = "pullback" -> PullbackAnalyze(a, list, i, newBox)

\* The triggers of the registry: what arms them at candle i, a set of at most one.
ArmMTopCollapse(list, i, newBox) ==
    IF TurnsDown(i) /\ newBox /\ ~(C(i).ma20 <= 0 \/ C(i).close <= C(i).ma20)
    THEN FindBBMTopBoxPattern(list, i) ELSE {}

ArmHNSNecklineBreak(list, i, newBox) ==
    IF TurnsDown(i) /\ newBox THEN FindHNSPattern(list, i) ELSE {}

ArmMA20PullbackBreakout(list, i, newBox) ==
    IF TurnsUp(i) /\ newBox THEN FindMA20PullbackPattern(list, i) ELSE {}

CheckArm(pattern, list, i, newBox) ==
    CASE pattern = "mtop" -> ArmMTopCollapse(list, i, newBox)
      [] pattern = "hns" -> ArmHNSNecklineBreak(list, i, newBox)
      [] pattern = "pullback" -> ArmMA20PullbackBreakout(list, i, newBox)

\* Expiry, then a new arm.
RunArmedTrigger(pattern, a, list, i, newBox) ==
    LET found == CheckArm(pattern, list, i, newBox)
    IN  IF found = {} THEN Unexpired(a, i) ELSE {Arm(i, state) : state \in found}

\* The fires are the same functions of cond for both.
CheckFire(pattern, state, i) ==
    CASE pattern = "mtop" -> IsMTopCollapse(i, state.p2)
      [] pattern = "hns" -> UnderNeckline(state, i)
      [] pattern = "pullback" -> IsMA20BullishBreakout(i, Bars.streak)

Rearmed(loop, pattern, a, list, i, newBox) ==
    IF loop = "engine" THEN RunArmedTrigger(pattern, a, list, i, newBox)
    ELSE Analyze(pattern, a, list, i, newBox)

\* An arm fires at a later candle, once.
FiresNow(a, pattern, i) == {x \in a : i > x.pos /\ CheckFire(pattern, x.state, i)}

-----------------------------------------------------------------------------
(* The W. *)

\* A turn makes a new box, under the average; the boxes are the turning points only.
WPatternAnalyze(list, i, newBox) ==
    IF C(i - 1).key < 0 /\ C(i).key > 0 /\ newBox /\ C(i).ma20 > 0 /\ C(i).close < C(i).ma20
    THEN StrictW(list, i) ELSE {}

\* The same with DefBoxes in the list; a crash into the band is noted, not asked for: its
\* strict signals here.
WGCAnalyze(list, i, newBox) ==
    IF C(i - 1).key < 0 /\ C(i).key > 0 /\ newBox /\ C(i).ma20 > 0 /\ C(i).close < C(i).ma20
    THEN {p \in FindBBWBottomBoxPattern(list, i) : p.crash} ELSE {}

\* Mutant: the last support signals again at every candle under the average.
IsWBottomBoxCompletedEventLevel(list, i) ==
    IF /\ list # << >> /\ list[Len(list)].kind = "box" /\ list[Len(list)].type = "support"
       /\ C(i).ma20 > 0 /\ C(i).close < C(i).ma20
    THEN StrictW(list, i) ELSE {}

\* The event of the engine: the last box is a support that is known at i.
IsWBottomBoxCompletedEvent(list, i) ==
    IF /\ list # << >> /\ list[Len(list)].kind = "box" /\ list[Len(list)].type = "support"
       /\ list[Len(list)].curve = i
       /\ C(i).ma20 > 0 /\ C(i).close < C(i).ma20
    THEN StrictW(list, i) ELSE {}

WSignals(loop, list, i, newBox) ==
    CASE loop = "plain" -> WPatternAnalyze(list, i, newBox)
      [] loop = "pattern" -> WGCAnalyze(list, i, newBox)
      [] loop = "engine" -> IsWBottomBoxCompletedEvent(list, i)

Fire(loop, pattern, i, arm) == [loop |-> loop, pattern |-> pattern, pos |-> i, arm |-> arm]

\* The signals of candle i: what fires of the arms held, and the W.
ArmFires(held, i) ==
    UNION {{Fire(o, p, i, x) : x \in FiresNow(held[o][p], p, i)} : o \in Orders, p \in Armed}
WFires(next, new, i) ==
    UNION {{Fire(o, "w", i, s) : s \in WSignals(o, next[o].boxes, i, new[o])} : o \in Orders}

ArmedInit ==
    /\ candles \in PatternTapes
    /\ pos = LoopStart
    /\ track = [o \in Orders |-> EmptyTrack]
    /\ arms = [o \in Orders |-> [p \in Armed |-> {}]]
    /\ fires = {}

ArmedStep ==
    LET i == pos + 1
        next == [o \in Orders |-> Track(o, track[o], i)]
        new == [o \in Orders |-> NewBox(o, track[o], i)]
        held == [o \in Orders |-> [p \in Armed |->
                   Rearmed(o, p, arms[o][p], next[o].boxes, i, new[o])]]
    IN  /\ pos < Last
        /\ pos' = i
        /\ track' = next
        /\ arms' = [o \in Orders |-> [p \in Armed |-> held[o][p] \ FiresNow(held[o][p], p, i)]]
        /\ fires' = fires \cup ArmFires(held, i) \cup WFires(next, new, i)
        /\ UNCHANGED candles
-----------------------------------------------------------------------------
(* Properties. *)

Signals(loop, pattern) ==
    {[pos |-> f.pos, arm |-> f.arm] : f \in {g \in fires : g.loop = loop /\ g.pattern = pattern}}

\* A turning point has no box when a DefBox has its place and its price (two equal tops): the
\* next leg then starts where the DefBox has it start.
StandIn(loop) ==
    LET list == track[loop].boxes
    IN  \E p \in Trend(track["plain"].boxes) \ Trend(list) :
          \E k \in DOMAIN list : IsDef(list[k]) /\ list[k].at = p.at /\ list[k].price = p.price

\* DefBoxes do not disturb the turning points, until one stands for a turning point
\* (box_creation.go:45): each has a box of its own that becomes known at the same candle.
NothingLost ==
    lab = "armed" =>
      \A o \in Orders : ~StandIn(o) => Trend(track[o].boxes) = Trend(track["plain"].boxes)

\* The analyzers and the triggers of the engine give the same signals, on the same arms
\* (armed_trigger.go:7), and DefBoxes change none of them, until one stands for a turning point.
PatternsAgree ==
    lab = "armed" =>
      \A o \in Orders : ~StandIn(o) => \A p \in Armed : Signals(o, p) = Signals("plain", p)

\* The W of wgc_analyze.go is that of the engine (its line 72): until one of the two loops
\* has a DefBox the other has not.
WAgrees ==
    lab = "armed" /\ track["engine"].boxes = track["pattern"].boxes
      => Signals("engine", "w") = Signals("pattern", "w")
=============================================================================
