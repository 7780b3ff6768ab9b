CONSTANTS
    a = a
    b = b
    c = c
    NoId = NoId
    Names <- MC_Names
    Periods <- MC_Periods
    MaxTime <- MC_MaxTime
    MaxStarts <- MC_MaxStarts
SPECIFICATION Spec
INVARIANT TypeOK
PROPERTY PeriodRespected DueTimerFires
