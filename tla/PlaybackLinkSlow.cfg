\* The DAC may fall behind the interrupt, so commands are lost; tokens wrap after
\* three. Liveness is checked in the same run, so nothing is taken as symmetric.
SPECIFICATION FairSpec
CONSTANTS
    Tokens = {0, 1, 2}
    Values = {v1, v2}
    Nothing = Nothing
    Lanes = {a, b}
    FirstBatch = {a}
    Modulus = 3
    NoAck = 3
    StaleAfter = 10
    DacKeepsUp = FALSE
INVARIANTS
    ConfirmedIsShown
    DisagreementIsPending
PROPERTIES
    CommandsSettle
