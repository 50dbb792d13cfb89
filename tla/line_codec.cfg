CONSTANTS
    Bytes = {LF, CR, Bad, x}
    LF = LF
    CR = CR
    Bad = Bad
    MaxLength = 2
    MaxInput = 6
SPECIFICATION FairSpec
INVARIANTS
    SliceInRange
    MatchesReference
PROPERTIES
    DecodeReturns
CHECK_DEADLOCK FALSE
