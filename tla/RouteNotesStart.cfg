\* A route started in the middle of the frame another one is in.
SPECIFICATION Spec
CONSTANTS
    Lanes = {a, b, c, d}
    FirstBatch = {a, b}
    Notes = {0, 1}
    Depth = 1
    PerTick = 1
    CVs = {9, 21}
    a = a
    b = b
    c = c
    d = d
    rooted = rooted
    rootless = rootless
    Scales = {rooted, rootless}
    Degrees <- MCDegrees
    Period <- MCPeriod
    Channels <- MCChannels
    Semitone = 20
    Hysteresis = 1
    None = None
INVARIANT
    AlwaysUnison
