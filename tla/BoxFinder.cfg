\* Lists of one and two legs; two engines of a grid, or two kinds of loop, share some of the lists.
CONSTANTS
    Markets <- AllMarkets
    Workers <- Grid
    Order <- GridOrder
    DamOption <- GridDam
    Rounds <- GridRounds
SPECIFICATION Spec
INVARIANTS SameBoxes BoxesSound
PROPERTIES KeysStable
\* The analyses end.
CHECK_DEADLOCK FALSE
