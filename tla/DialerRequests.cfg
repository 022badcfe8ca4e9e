\* One user and four calls, with the claim of tg2sip.conf about all requests.
SPECIFICATION Spec
CONSTANTS
    u1 = u1
    u2 = u2
    k1 = k1
    k2 = k2
    Users = {u1}
    Keys = {k1}
    NoUser = NoUser
    NoKey = NoKey
    Delays = {0, 1, 2, 7, 9}
    Extra = 1
    PeerFlood = 2
    Width = 8
    MaxInt = 7
    MaxNow = 5
    MaxDials = 4
    Renames = 0
    MaxLong = 191
    Chars = {"t", "g", "#", "+", "0", "1", "9"}
    MaxLength = 0
INVARIANT AllRequestsBlocked
CHECK_DEADLOCK FALSE
