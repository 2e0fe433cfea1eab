\* One route is enough: a second one only adds claims that come back the same way.
SPECIFICATION FairSpec
CONSTANTS
    Inputs = {i1, i2}
    Outputs = {o1, o2}
    Routes = {r1}
    Calibration = calibration
    Reference = reference
    FirstBatch = {o1}
PROPERTIES
    StrandedClaimsReturn
