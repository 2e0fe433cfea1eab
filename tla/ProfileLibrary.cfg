\* Two slots and two curves: the slot shown, another one, and an older curve in each
\* journal.
SPECIFICATION Spec
CONSTANTS
    Slots = {s1, s2}
    Curves = {c1, c2}
    None = None
    Unreadable = Unreadable
SYMMETRY Symmetry
INVARIANTS
    TypeOK
    LoadsAreNewest
    LabelIsCurrent
PROPERTIES
    ImplementsShelf
