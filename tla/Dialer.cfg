\* Two users for whom a user name and a number are spelt alike, three calls, delays
\* shorter and longer than the clock, of which 7 wraps around with the extra time and 9
\* cannot be read; URIs of up to five characters, of whose ids 99 fits and 199 does not.
SPECIFICATION Spec
CONSTANTS
    u1 = u1
    u2 = u2
    k1 = k1
    k2 = k2
    Users = {u1, u2}
    Keys = {k1}
    NoUser = NoUser
    NoKey = NoKey
    Delays = {1, 2, 7, 9}
    Extra = 1
    PeerFlood = 2
    Width = 8
    MaxInt = 7
    MaxNow = 3
    MaxDials = 3
    Renames = 1
    MaxLong = 191
    Chars = {"t", "g", "#", "+", "0", "1", "9"}
    MaxLength = 5
SYMMETRY Symmetry
INVARIANTS
    TypeOK
    DialTgWaits
    CallsTheNamed
    ExtensionsAsSpelt
CHECK_DEADLOCK FALSE
