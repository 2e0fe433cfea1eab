\* Two routes, two inputs, two outputs in different half batches.
SPECIFICATION Spec
CONSTANTS
    Inputs = {i1, i2}
    Outputs = {o1, o2}
    Routes = {r1, r2}
    Calibration = calibration
    Reference = reference
    FirstBatch = {o1}
SYMMETRY Symmetry
INVARIANTS
    TypeOK
    JackExclusion
    HeldMatchesLayout
    PlaysAsAGroup
    PlayingIsServiced
    DrivenByItsOwner
PROPERTIES
    ReleasedOutputsAreSilent
    ImplementsAllocator
