CONSTANTS
    a = a
    b = b
    c = c
    NoId = NoId
    Names <- MC_Names
    Periods <- MC_Periods
    MaxTime <- MC_MaxTime
    MaxStarts <- MC_MaxStarts
SYMMETRY MC_Symmetry
SPECIFICATION Spec
INVARIANT HandlesValid
