SPECIFICATION Asked
CONSTANTS
    Anything = Anything
    Error = Error
    Missing = Missing
    One = 60
    Beyond = 1000
INVARIANTS NetCDFSamplesReachCells
CHECK_DEADLOCK FALSE
