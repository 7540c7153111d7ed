------------------------------ MODULE VolumeWave ------------------------------
(***************************************************************************)
(* The three waves of volume (cond/buy_volume_wave.go,                     *)
(* stg/volume_wave_analyze.go): an unusual volume, weeks later a first     *)
(* breakout, a base near its high, a second breakout with more volume, a   *)
(* pullback to the average, a rebound, and a climax that ends the cycle;   *)
(* and the entries on the first pullback after a breakout                  *)
(* (stg/volume_wave_pullback.go).                                          *)
(*                                                                         *)
(* The thresholds of a configuration are percents.                         *)
(***************************************************************************)
EXTENDS CandleTape

CONSTANTS
    WaveStudies,     \* [candles, config]: lists and the configurations asked for
    WaveDefault,     \* DefaultVolumeWaveConfig, with shorter windows
    PullbackConfigs

WaveNumbers == DOMAIN WaveDefault \ {"mode", "pattern"}

ASSUME WaveAssumption ==
    /\ {"volumeWindow", "minLead", "maxLead"} \subseteq WaveNumbers
    /\ \A f \in WaveNumbers : WaveDefault[f] \in Int
    /\ WaveDefault.volumeWindow > 1 /\ WaveDefault.minLead > 0
    /\ \A s \in WaveStudies :
         /\ \E n \in DOMAIN s.candles : DOMAIN s.candles = 0..n
         /\ DOMAIN s.config = DOMAIN WaveDefault
         /\ \A f \in WaveNumbers : s.config[f] \in Int
    /\ \A p \in PullbackConfigs : p.minWait \in Int /\ p.maxWait \in Int

VARIABLES
    cfg,     \* the configuration in force
    wave     \* the loop's memory: accumulations, cycle, signals

Zero == [f \in DOMAIN WaveDefault |-> IF f \in {"mode", "pattern"} THEN "" ELSE 0]

AtLeastTwo == {"volumeWindow", "accWindow", "lookback"}
MayBeOff == {"obvPressure", "closeRetention", "highLowRange", "lateEarly"}
LowerOf == [maxLead |-> "minLead", baseMax |-> "baseMin", pullMax |-> "pullMin"]

\* Fields left at zero take the default; an upper bound under its lower one too.
Normalize(c) ==
    LET Filled(f) ==
          CASE f \in {"mode", "pattern"} -> IF c[f] = "" THEN WaveDefault[f] ELSE c[f]
            [] f \in AtLeastTwo -> IF c[f] <= 1 THEN WaveDefault[f] ELSE c[f]
            [] f \in MayBeOff -> c[f]
            [] f = "streak" -> IF c[f] < 0 THEN WaveDefault[f] ELSE c[f]
            [] OTHER -> IF c[f] <= 0 THEN WaveDefault[f] ELSE c[f]
    IN  IF c = Zero THEN WaveDefault
        ELSE [f \in DOMAIN c |->
                IF f \in DOMAIN LowerOf
                THEN IF c[f] < Filled(LowerOf[f]) THEN WaveDefault[f] ELSE c[f]
                ELSE Filled(f)]

-----------------------------------------------------------------------------
(* Conditions. *)

\* (volume - mean) / deviation >= threshold over the candles before i, without the root.
IsVolumeZScoreSpike(i) ==
    LET n == cfg.volumeWindow
        sum == Total("volume", i - n, i - 1)
        spread == n * SumOf([j \in (i - n)..(i - 1) |-> C(j).volume * C(j).volume], i - n, i - 1) - sum * sum
        above == n * C(i).volume - sum
    IN  /\ i >= n /\ spread > 0
        /\ above >= 0 /\ above * above >= cfg.zThreshold * cfg.zThreshold * spread

IsAccumulation(i) ==
    LET n == cfg.accWindow
        recent == Total("volume", i - n + 1, i)
        prior == Total("volume", i - 2 * n + 1, i - n)
        rise == C(i).obv - C(i - n).obv
    IN  /\ C(i).volume > 0
        /\ IF cfg.mode # "cumulative_obv" THEN IsVolumeZScoreSpike(i)
           ELSE /\ i >= 2 * n - 1
                /\ prior > 0 /\ recent * 100 >= prior * cfg.accRatio
                /\ rise > 0 /\ rise * 100 >= cfg.obvPressure * recent

IsBreakout(i) ==
    /\ i >= cfg.lookback /\ Bullish(i)
    /\ IsVolumeZScoreSpike(i)
    /\ (C(i).close - C(i - 1).close) * 100 >= cfg.minReturn * C(i - 1).close
    /\ C(i).close > Top("high", (i - cfg.lookback)..(i - 1))

\* The base between the first breakout and candle i.
PeakOf(w1, i) == Top("high", w1..(i - 1))

IsHighBase(w1, i) ==
    LET base == (w1 + 1)..(i - 1)
        bars == i - w1 - 1
        half == bars \div 2
        low == Bottom("close", base)
        early == Total("volume", w1 + 1, w1 + half)
        late == Total("volume", w1 + 1 + half, i - 1)
        held == Cardinality({j \in base : C(j).close >= C(w1).close})
    IN  /\ bars \in cfg.baseMin..cfg.baseMax
        /\ C(w1).volume > 0
        /\ (PeakOf(w1, i) - low) * 100 <= cfg.drawdown * PeakOf(w1, i)
        /\ (Top("close", base) - low) * 100 <= cfg.range * PeakOf(w1, i)
        /\ Total("volume", w1 + 1, i - 1) * 100 <= cfg.volumeRatio * bars * C(w1).volume
        /\ cfg.closeRetention > 0 => held * 100 >= cfg.closeRetention * bars
        /\ cfg.highLowRange > 0 =>
             (Top("high", base) - Bottom("low", base)) * 100 <= cfg.highLowRange * C(w1).close
        /\ cfg.lateEarly > 0 /\ half > 0 /\ early > 0 =>
             late * half * 100 <= cfg.lateEarly * early * (bars - half)

\* The boxes of a list that ends at candle n, each by the candle at which it becomes known.
TrendBoxes(n) == {j \in 0..n : C(j).box.type # "none"}

\* Mutant: boxes whose turn is not yet known count.
EligibleEarly(n, w1, i) == {j \in TrendBoxes(n) : C(j).box.at \in (w1 + 1)..(i - 1) /\ j > w1}

\* The boxes of a base that are known at candle i; the list of boxes is that of all candles.
Eligible(n, w1, i) ==
    {j \in TrendBoxes(n) : C(j).box.at \in (w1 + 1)..(i - 1) /\ j > w1 /\ j <= i}

\* Two supports with one resistance between them, in this order both as they lie and as they become known.
HasBaseBoxes(n, w1, i) ==
    LET e == Eligible(n, w1, i)
        at(j) == C(j).box.at
    IN  cfg.pattern = "none" \/
        \E s1, r, s2 \in e :
          /\ s1 < r /\ r < s2 /\ \A j \in e : j <= s1 \/ j = r \/ s2 <= j
          /\ C(s1).box.type = "support" /\ C(r).box.type = "resistance" /\ C(s2).box.type = "support"
          /\ at(s1) < at(r) /\ at(r) < at(s2)
          /\ cfg.pattern = "srs_support_held" => C(at(s2)).low * 100 >= C(at(s1)).low * cfg.secondSupport

IsSecondBreakout(n, w1, i) ==
    /\ IsHighBase(w1, i) /\ HasBaseBoxes(n, w1, i) /\ IsBreakout(i)
    /\ C(i).close > PeakOf(w1, i)
    /\ C(i).volume * 100 >= C(w1).volume * cfg.wave2Volume

\* What comes back to the average after the second breakout, on less volume.
IsMA20Pullback(w2, i) ==
    LET rest == (w2 + 1)..(i - 1)
        bars == i - w2 - 1
    IN  /\ bars \in cfg.pullMin..cfg.pullMax /\ C(w2).volume > 0
        /\ \A j \in rest : /\ C(j).ma20 > 0
                           /\ (C(j).ma20 - C(j).close) * 100 <= cfg.breakdown * C(j).ma20
        /\ \E j \in rest : C(j).low * 100 <= C(j).ma20 * (100 + cfg.touch)
        /\ Total("volume", w2 + 1, i - 1) * 100 <= cfg.pullVolume * bars * C(w2).volume

IsThirdRebound(w2, i) ==
    /\ IsMA20Pullback(w2, i)
    /\ \/ IsMA20BullishBreakout(i, cfg.streak)
       \/ /\ Bullish(i) /\ C(i).ma20 > 0 /\ C(i - 1).ma20 > 0
          /\ C(i).close > C(i).ma20 /\ C(i).close > C(i - 1).high
          /\ C(i - 1).low * 100 <= C(i - 1).ma20 * (100 + cfg.touch)
          /\ C(i - 1).close * 100 >= C(i - 1).ma20 * (100 - cfg.breakdown)
          /\ cfg.streak <= 0 \/ IsMA20RisingStreak(i, cfg.streak)

\* A long candle with a wick, or a longer one.
IsClimax(w3, i) ==
    LET c == C(i)
        body == IF c.close > c.open THEN c.close - c.open ELSE c.open - c.close
        wick == c.high - (IF c.close > c.open THEN c.close ELSE c.open)
    IN  /\ i > w3 /\ i - w3 <= cfg.climaxMax
        /\ IsVolumeZScoreSpike(i)
        /\ c.atr > 0 /\ (c.close - C(w3).close) * 100 >= cfg.climaxGain * C(w3).close
        /\ (c.high - c.low) * 100 >= c.atr * cfg.climaxRange
        /\ wick * 100 >= cfg.wick * body \/ body * 100 >= cfg.body * c.open

-----------------------------------------------------------------------------
(* The loop of VolumeWaveAnalyze. *)

NoCycle == [acc |-> -1, w1 |-> -1, w2 |-> -1, w3 |-> -1]
EmptyWave == [accs |-> {}, cycle |-> NoCycle, signals |-> << >>]

LatestAccumulation(accs, i) ==
    LET fit == {a \in accs : i - a \in cfg.minLead..cfg.maxLead}
    IN  IF fit = {} THEN -1 ELSE HighestOf(fit)

Expired(c, i) ==
    \/ c.w1 >= 0 /\ c.w2 < 0 /\ i - c.w1 - 1 > cfg.baseMax
    \/ c.w2 >= 0 /\ c.w3 < 0 /\ i - c.w2 - 1 > cfg.pullMax
    \/ c.w3 >= 0 /\ i - c.w3 > cfg.climaxMax

Reach(w, c, stage, i) ==
    [w EXCEPT !.cycle = IF stage = 0 THEN NoCycle ELSE c,
              !.signals = Append(@, [stage |-> stage, pos |-> i, cycle |-> c])]

\* One stage per candle, of the cycle c that is still alive; n is the end of the list.
Advance(w, c, i, n) ==
    LET a == LatestAccumulation(w.accs, i)
        same == [w EXCEPT !.cycle = c]
    IN  CASE c = NoCycle ->
               IF a >= 0 /\ IsBreakout(i) THEN Reach(w, [NoCycle EXCEPT !.acc = a, !.w1 = i], 1, i) ELSE same
          [] c # NoCycle /\ c.w2 < 0 ->
               IF IsSecondBreakout(n, c.w1, i) THEN Reach(w, [c EXCEPT !.w2 = i], 2, i) ELSE same
          [] c.w2 >= 0 /\ c.w3 < 0 ->
               IF IsThirdRebound(c.w2, i) THEN Reach(w, [c EXCEPT !.w3 = i], 3, i) ELSE same
          [] c.w3 >= 0 -> IF IsClimax(c.w3, i) THEN Reach(w, c, 0, i) ELSE same

\* Mutant: a cycle that has expired still takes the candle.
WaveAfterLate(w, i, n) ==
    LET old == {a \in w.accs : i - a > cfg.maxLead}
        next == Advance([w EXCEPT !.accs = @ \ old], w.cycle, i, n)
    IN  [next EXCEPT !.accs = @ \cup (IF IsAccumulation(i) THEN {i} ELSE {}),
                     !.cycle = IF Expired(@, i) THEN NoCycle ELSE @]

WaveAfter(w, i, n) ==
    LET old == {a \in w.accs : i - a > cfg.maxLead}
        live == IF Expired(w.cycle, i) THEN NoCycle ELSE w.cycle
        next == Advance([w EXCEPT !.accs = @ \ old], live, i, n)
    IN  [next EXCEPT !.accs = @ \cup (IF IsAccumulation(i) THEN {i} ELSE {})]

MinBars == cfg.volumeWindow + cfg.minLead + 1

\* The signals of the list that ends at candle n.
VolumeWaveAnalyze(n) ==
    LET W[i \in (cfg.volumeWindow - 1)..n] ==
          IF i < cfg.volumeWindow THEN EmptyWave ELSE WaveAfter(W[i - 1], i, n)
    IN  IF n + 1 < MinBars THEN << >> ELSE W[n].signals

WaveInit ==
    \E s \in WaveStudies :
      /\ candles = s.candles /\ cfg = Normalize(s.config)
      /\ wave = EmptyWave /\ pos = cfg.volumeWindow - 1

WaveStep ==
    /\ Last + 1 >= MinBars /\ pos < Last
    /\ pos' = pos + 1
    /\ wave' = WaveAfter(wave, pos + 1, Last)
    /\ UNCHANGED <<candles, cfg>>

-----------------------------------------------------------------------------
(* VolumeWavePullbackAnalyze: entries after the first pullback. *)

LowestIn(S, default) == IF S = {} THEN default ELSE LowestOf(S)

\* Mutant: the search goes on into the next wave.
DeadlineOpen(signals, k, end) == end

\* A first wave waits until the day before the second, a second one until the third.
Deadline(signals, k, end) ==
    LET s == signals[k]
        same == {j \in (k + 1)..Len(signals) :
                   /\ signals[j].pos > s.pos /\ signals[j].stage = s.stage + 1
                   /\ \A h \in (k + 1)..j : signals[h].cycle.w1 = s.cycle.w1}
        limits == {IF s.stage = 1 THEN signals[j].pos - 1 ELSE signals[j].pos : j \in same}
    IN  LowestIn({l \in limits : l < end}, end)

ReboundConfirmed(i, p) ==
    /\ Bullish(i) /\ C(i).close > C(i - 1).close
    /\ p.confirmation = "prev_high" => C(i).close > C(i - 1).high

StructureHeld(s, i, p) ==
    CASE p.structure = "breakout_floor" ->
           /\ C(s - 1).close > 0
           /\ \A j \in (s + 1)..i : C(j).close * 100 >= C(s - 1).close * (100 - p.tolerance)
      [] p.structure = "ma20" ->
           \A j \in (s + 1)..i : C(j).ma20 > 0 /\ C(j).close * 100 >= C(j).ma20 * (100 - p.tolerance)
      [] OTHER -> TRUE

\* The deepest close under the highest high before it, in percents of that high, is within
\* the bounds of p.
DepthFits(s, i, p) ==
    LET peak(j) == Top("high", s..(j - 1))
        drop(j) == (peak(j) - C(j).close) * 100
    IN  /\ p.minDepth <= 0 \/ \E j \in (s + 1)..i : drop(j) >= p.minDepth * peak(j)
        /\ \A j \in (s + 1)..i : drop(j) <= (IF p.maxDepth <= 0 THEN 100 ELSE p.maxDepth) * peak(j)

\* The average volume from the start of the pullback to the candle before the rebound.
VolumesFit(s, start, i, p) ==
    LET bars == IF i = start THEN 1 ELSE i - start
        sum == IF i = start THEN C(start).volume ELSE Total("volume", start, i - 1)
    IN  /\ p.entryVolume > 0 => C(i).volume * 100 <= p.entryVolume * C(s).volume
        /\ p.averageVolume > 0 => sum * 100 <= p.averageVolume * bars * C(s).volume

MinWait(p) == IF p.minWait < 1 THEN 1 ELSE p.minWait

\* The rebounds after signal k of a list that ends at candle n.
Rebounds(n, signals, k, p) ==
    LET s == signals[k].pos
        end == Deadline(signals, k, IF s + p.maxWait >= n THEN n - 1 ELSE s + p.maxWait)
        falls == {j \in (s + 1)..end : C(j).close < C(j - 1).close \/ ~Bullish(j)}
    IN  IF /\ signals[k].stage = p.stage /\ s >= 1 /\ s + 2 <= n /\ p.maxWait >= MinWait(p)
           /\ end >= s + MinWait(p) /\ C(s).volume > 0 /\ falls # {}
        THEN {i \in LowestOf(falls)..end :
                /\ i - s >= MinWait(p) /\ ReboundConfirmed(i, p)
                /\ DepthFits(s, i, p) /\ VolumesFit(s, LowestOf(falls), i, p)
                /\ StructureHeld(s, i, p) /\ C(i + 1).open > 0}
        ELSE {}

\* Mutant: the last rebound instead of the first.
PullbackEntriesLast(n, signals, p) ==
    {[signal |-> signals[k], fire |-> HighestOf(Rebounds(n, signals, k, p))] :
       k \in {j \in DOMAIN signals : Rebounds(n, signals, j, p) # {}}}

\* One entry per signal, at the open after its first rebound.
PullbackEntries(n, signals, p) ==
    {[signal |-> signals[k], fire |-> LowestOf(Rebounds(n, signals, k, p))] :
       k \in {j \in DOMAIN signals : Rebounds(n, signals, j, p) # {}}}

-----------------------------------------------------------------------------
(* Properties. *)

\* volume_wave_analyze.go:46 and buy_volume_wave.go:5: the analysis goes once from the past to
\* the present and asks nothing of later candles.  The list as it was at candle pos gives the
\* signals the whole list gives up to there, though its boxes are those of the whole list.
WavesOfThePast ==
    lab = "wave" /\ pos >= cfg.volumeWindow => VolumeWaveAnalyze(pos) = wave.signals

\* A cycle that has come to nothing costs no first wave (volume_wave_analyze.go:82): when a
\* candle breaks out after an accumulation in the window, and no cycle is alive, one starts.
BreakoutNotMissed ==
    lab = "wave" /\ pos >= cfg.volumeWindow /\ wave.cycle = NoCycle
      => \/ wave.signals # << >> /\ wave.signals[Len(wave.signals)].pos = pos
         \/ ~IsBreakout(pos)
         \/ ~\E a \in cfg.volumeWindow..pos : IsAccumulation(a) /\ pos - a \in cfg.minLead..cfg.maxLead

\* Entries are decided on closes and filled at the next open: a list that grows by a candle
\* keeps every entry, and a new one is filled on the new candle.
EntriesKept ==
    [][lab = "wave" =>
         \A p \in PullbackConfigs :
           LET before == PullbackEntries(pos, wave.signals, p)
               after == PullbackEntries(pos', wave'.signals, p)
           IN  before \subseteq after /\ \A e \in after \ before : e.fire + 1 = pos']_pos

\* The entry after the first wave of a cycle is filled before the one after its second is
\* decided, whatever the two searches ask for (volume_wave_pullback.go:179).
FirstWaveFirst ==
    lab = "wave" =>
      \A p, q \in PullbackConfigs :
        p.stage = 1 /\ q.stage = 2 =>
          \A e \in PullbackEntries(pos, wave.signals, p), f \in PullbackEntries(pos, wave.signals, q) :
            e.signal.cycle.w1 = f.signal.cycle.w1 => e.fire + 1 < f.fire
=============================================================================
