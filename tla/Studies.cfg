CONSTANTS
    WaveStudies <- MCWaveStudies
    WaveDefault <- MCWaveDefault
    PullbackConfigs <- MCPullbackConfigs
    PatternTapes <- MCPatternTapes
    Bars <- MCBars
    EventTapes <- MCEventTapes
    Spans <- MCSpans
    CombinedTapes <- MCCombinedTapes
    BreakTimeout = 2
    RetestTapes <- MCRetestTapes
    RetestConfigs <- MCRetestConfigs
    TrendlineTapes <- MCTrendlineTapes
    TrendlineConfigs <- MCTrendlineConfigs
    DamOption = 0
    SellTapes <- MCSellTapes
    SellSettings <- MCSellSettings
    ViewTapes <- MCViewTapes
    ViewSpans <- MCViewSpans
SPECIFICATION Spec
INVARIANTS WavesSound TwinsAgree EventsOnce ArmsHeld SellSound ViewSound
PROPERTIES EntriesKept
CHECK_DEADLOCK FALSE
