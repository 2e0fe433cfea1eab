\* Four outputs with settings of their own, two keys, scales with a narrow and a wide step.
SPECIFICATION Spec
CONSTANTS
    Lanes = {a, b, c, d}
    FirstBatch = {a, b}
    Notes = {0, 1}
    Depth = 1
    PerTick = 1
    CVs = {9, 21}
    a = a
    b = b
    c = c
    d = d
    rooted = rooted
    rootless = rootless
    Scales = {rooted, rootless}
    Degrees <- MCDegrees
    Period <- MCPeriod
    Channels <- MCChannels
    Semitone = 20
    Hysteresis = 1
    None = None
INVARIANTS
    TypeOK
    FramesAreUnison
    FollowsTheFrame
    ShiftFitsBase
    ReleaseResets
