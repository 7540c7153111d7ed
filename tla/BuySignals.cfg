\* Seven rules over candles of two DefBoxes.
CONSTANTS
    Rules <- MCRules
    Bars <- MCBars
    LastPosition = 6
    EnableREST2 = TRUE
    SurvivalBars = 2
    Cooldown = 2
    Window <- MCWindow
SPECIFICATION Spec
INVARIANTS BreakoutTwin FailedNeverSurvives EngineParity BuysOnce
\* The analysis ends.
CHECK_DEADLOCK FALSE
