\* Two SIP callers, and Telegram callers refused for want of a callback_uri.
SPECIFICATION Spec
CONSTANTS
    t1 = t1
    t2 = t2
    s1 = s1
    s2 = s2
    u1 = u1
    u2 = u2
    TgIds = {t1, t2}
    SipIds = {s1, s2}
    Users = {u1, u2}
    NoTg = NoTg
    NoSip = NoSip
    NoUser = NoUser
    MaxCtx = 2
    MaxMedia = 2
    MaxQueue = 2
    CallbackUri = FALSE
    Exts = {u1, "name", "invalid"}
    Contents = {}
    Signals = FALSE
    Stops = FALSE
    Faults = FALSE
    ReuseSlots = FALSE
SYMMETRY CallSymmetry
INVARIANTS
    NoOrphanSip
