\* One lane, which the port may cover or not, and a watchdog of two cycles.
SPECIFICATION Spec
CONSTANTS
    Tokens = {0, 1}
    Values = {0}
    Nothing = Nothing
    Channels = {0, 1}
    Lanes = {0}
    Excess = Excess
    Watchdog = 2
INVARIANTS
    TypeOK
    ClosesInSilence
PROPERTIES
    CycleIsEvents
