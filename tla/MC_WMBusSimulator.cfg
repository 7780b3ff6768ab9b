CONSTANTS
    NoTimeValue = NoTimeValue
    NoTime <- NoTimeValue
    Lines <- MC_Lines
    MaxTime <- MC_MaxTime
SPECIFICATION Spec
INVARIANT TypeOK NotEarly
PROPERTY Termination ImplementsReplay
