------------------------------- MODULE Studies -------------------------------
(***************************************************************************)
(* The analyzers and triggers that walk over one candle list each: a       *)
(* behavior runs one of them.  They share the tape and the boxes and no    *)
(* state.                                                                  *)
(***************************************************************************)
EXTENDS VolumeWave, ArmedPatterns, EventTriggers, CombinedSignals, MainBoxRetest,
        DescendingTrendline, SellConditions, BoxConditions

waveVars  == <<cfg, wave>>
armedVars == <<track, arms, fires>>
eventVars == <<defbox, events, waiting>>
sellVars  == <<holding, raised>>
viewVars  == <<view, met>>
vars == <<lab, candles, pos, waveVars, armedVars, eventVars, combined, retest, trendline, sellVars, viewVars>>

\* The state of a study that does not run.
NoWave == cfg = WaveDefault /\ wave = EmptyWave
NoArmed == track = << >> /\ arms = << >> /\ fires = {}
NoEvents == defbox = << >> /\ events = {} /\ waiting = << >>
NoCombined == combined = EmptyCombined
NoRetest == retest = << >>
NoTrendline == trendline = << >>
NoHolding == holding = << >> /\ raised = << >>
NoView == view = << >> /\ met = << >>

Init ==
    /\ lab \in {"wave", "armed", "events", "combined", "retest", "trendline", "sell", "view"}
    /\ IF lab = "wave" THEN WaveInit ELSE NoWave
    /\ IF lab = "armed" THEN ArmedInit ELSE NoArmed
    /\ IF lab = "events" THEN EventInit ELSE NoEvents
    /\ IF lab = "combined" THEN CombinedInit ELSE NoCombined
    /\ IF lab = "retest" THEN RetestInit ELSE NoRetest
    /\ IF lab = "trendline" THEN TrendlineInit ELSE NoTrendline
    /\ IF lab = "sell" THEN SellInit ELSE NoHolding
    /\ IF lab = "view" THEN ViewInit ELSE NoView

Next ==
    /\ UNCHANGED lab
    /\ \/ /\ lab = "wave" /\ WaveStep
          /\ UNCHANGED <<armedVars, eventVars, combined, retest, trendline, sellVars, viewVars>>
       \/ /\ lab = "armed" /\ ArmedStep
          /\ UNCHANGED <<waveVars, eventVars, combined, retest, trendline, sellVars, viewVars>>
       \/ /\ lab = "events" /\ EventStep
          /\ UNCHANGED <<waveVars, armedVars, combined, retest, trendline, sellVars, viewVars>>
       \/ /\ lab = "combined" /\ CombinedStep
          /\ UNCHANGED <<waveVars, armedVars, eventVars, retest, trendline, sellVars, viewVars>>
       \/ /\ lab = "retest" /\ RetestStep
          /\ UNCHANGED <<waveVars, armedVars, eventVars, combined, trendline, sellVars, viewVars>>
       \/ /\ lab = "trendline" /\ TrendlineStep
          /\ UNCHANGED <<waveVars, armedVars, eventVars, combined, retest, sellVars, viewVars>>
       \/ /\ lab = "sell" /\ SellStep
          /\ UNCHANGED <<waveVars, armedVars, eventVars, combined, retest, trendline, viewVars>>
       \/ /\ lab = "view" /\ ViewStep
          /\ UNCHANGED <<waveVars, armedVars, eventVars, combined, retest, trendline, sellVars>>

Spec == Init /\ [][Next]_vars

-----------------------------------------------------------------------------
\* The sell conditions of a list that ends at the candle of the loop.
Today == INSTANCE SellConditions WITH candles <- [j \in 0..pos |-> candles[j]]

\* A backtest sells for no other reason than a live list that ends on that day: but for the
\* adaptive stop no condition reads a candle after its own (stg/sell_conditions_registry.go:34).
SoldByThePast ==
    raised # << >> =>
      raised[Len(raised)] \ {"IsAdaptiveStopLoss"} = Today!SellSignals(pos) \ {"IsAdaptiveStopLoss"}

-----------------------------------------------------------------------------
\* Volume waves: no signal depends on later candles, no breakout of a base is passed over, and a
\* stage is served by the first wave that reached it (volume_wave_analyze.go:55, 82).
WavesSound == WavesOfThePast /\ BreakoutNotMissed /\ FirstWaveFirst

\* Twin implementations agree: an analyzer's loop with the engine's trigger, a recorded turning
\* point with the list, the two halves of the combined search (armed_trigger.go:17, combined_analyze.go:163).
TwinsAgree == NothingLost /\ PatternsAgree /\ WAgrees /\ TwoHalvesAgree

\* A trigger tells of an event once: on its edge, alternating, spent when it has been used, and a
\* DefBox is bought alone by its first close (trigger_registry.go:8, armed_trigger_registry.go:76, combined_analyze.go:101).
EventsOnce == TriggersAreEdges /\ BandCrossingsAlternate /\ PierceIsRare /\ BumpIsSpent /\ AloneIsFirst

\* What is armed is alive: the retest a cycle waits for, the line it would break, the freshest
\* pattern (mainbox_retest_analyze.go:131, descending_trendline_analyze.go:104).
ArmsHeld == RetestHeld /\ RetestWitnessed /\ TrendlineAlive /\ FreshestPattern

\* The sell conditions along one holding (sell_adaptive_stop.go:120, sell_loss_cutting.go:23, sell_recovery.go:215).
SellSound == SoldByThePast /\ DelayedAgrees /\ WeakFoundationOnce /\ TrendFailuresApart /\ DeepDropStays

\* The buy conditions along one DefBox (buy_conditions.go:9, buy_conditions_extra.go:20, buy_oscillator.go:230).
ViewSound == EvidenceAccumulates /\ CrossingsSeen /\ StrictFormsAreStricter /\ RefusalLifted
=============================================================================
