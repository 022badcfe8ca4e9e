\* Every dialogue with three wrong inputs and two repeated states.
SPECIFICATION FairSpec
CONSTANTS
    MaxErrors = 3
    MaxRepeats = 2
INVARIANTS
    TypeOK
    NoStall
PROPERTIES
    LastAnswerCounts
    AuthEnds
CHECK_DEADLOCK FALSE
