\* Three outputs of two routes, one slot and the RAM profile, two curves: an output
\* can be bound to either, and each can change under it.
SPECIFICATION Spec
CONSTANTS
    Slots = {s1}
    Curves = {c1, c2}
    None = None
    Unreadable = Unreadable
    RamSource = RamSource
    Routes <- TwoRoutes
    o1 = o1
    o2 = o2
    o3 = o3
SYMMETRY Symmetry
INVARIANTS
    TypeOK
    PlaysWhatWasApplied
PROPERTIES
    ActiveCurvesStay
