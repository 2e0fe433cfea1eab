\* Two routes, two inputs, two outputs in different half batches; ADD of a configured output.
SPECIFICATION Spec
CONSTANTS
    Inputs = {i1, i2}
    Outputs = {o1, o2}
    Routes = {r1, r2}
    Calibration = calibration
    Reference = reference
    FirstBatch = {o1}
PROPERTIES
    AddTransfersStoppedOutput
