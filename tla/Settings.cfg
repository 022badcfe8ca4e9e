SPECIFICATION Spec
CONSTANTS
    MaxLine = 9
    MaxName = 2
    MaxLines = 3
    UInt = 131072
    UShort = 65536
    Disks <- SomeDisks
    Number <- Numbers
INVARIANTS
    ParsedAsMeant
    OptionsAsWritten
CHECK_DEADLOCK FALSE
