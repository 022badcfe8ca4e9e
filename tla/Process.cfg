SPECIFICATION FairSpec
CONSTANTS
    Calls = {c1, c2, c3}
INVARIANT OnlyKnownMisses
PROPERTY StopsWhenAsked
CHECK_DEADLOCK FALSE
