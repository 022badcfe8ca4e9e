\* Three cells in use at most, frames smaller and larger than that, and enough
\* samples for head_ and tail_ to wrap around twice.
SPECIFICATION Spec
CONSTANTS
    capacity_ = 4
    PushSizes = {1, 2, 5}
    PopSizes = {1, 2, 4}
    MaxWritten = 9
INVARIANTS
    TypeOK
    NoDataRace
    InOrder
PROPERTIES
    IsFifo
