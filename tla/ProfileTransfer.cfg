\* One slot, two records of three chunks, two jobs of the user; sequence numbers
\* wrap after three requests. The session outlives the timeout of the host, as 10 s
\* outlive 8 s. Liveness is checked too, so nothing is taken as symmetric.
SPECIFICATION FairSpec
CONSTANTS
    Slots = {s1}
    Records = {a, b}
    Size <- Long
    Nothing = Nothing
    Unknown = Unknown
    Modulus = 3
    PartialExpiry = 1
    HostTimeout = 2
    SessionExpiry = 3
    MaxJobs = 2
INVARIANTS
    TypeOK
    KnownIsStored
    ReadsAreWhole
PROPERTIES
    ImplementsBank
    JobsEnd
