\* Curves of one to four anchors, checks of two targets and two repeats: three trims
\* are possible where two are allowed, and four edits where three are.
SPECIFICATION FairSpec
CONSTANTS
    MinSize = 1
    MaxSize = 4
    Capacity = 7
    Grid = 2
    Local = 2
    MaxPasses = 3
    RecoveryLimit = 2
    MaxTrims = 1
    Nothing = Nothing
INVARIANTS
    TypeOK
    OfferIsChecked
    RefinementFitsCurve
    SilentAtRest
PROPERTIES
    OperationsEnd
