\* Four outputs, two in each half batch, two readings, the code's limits; the DAC keeps up.
SPECIFICATION Spec
CONSTANTS
    Tokens = {0, 1}
    Values = {v1, v2}
    Nothing = Nothing
    Lanes = {a, b, c, d}
    FirstBatch = {a, b}
    Modulus = 2
    NoAck = 3
    StaleAfter = 10
    DacKeepsUp = TRUE
SYMMETRY Symmetry
INVARIANTS
    TypeOK
    GroupIsCoherent
    VoltageIsFresh
