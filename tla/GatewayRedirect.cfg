\* Telegram callers, redirected through one SIP slot that is used again.
SPECIFICATION Spec
CONSTANTS
    t1 = t1
    t2 = t2
    s1 = s1
    s2 = s2
    u1 = u1
    u2 = u2
    TgIds = {t1, t2}
    SipIds = {s1}
    Users = {u1}
    NoTg = NoTg
    NoSip = NoSip
    NoUser = NoUser
    MaxCtx = 4
    MaxMedia = 2
    MaxQueue = 2
    CallbackUri = TRUE
    Exts = {}
    Contents = {}
    Signals = FALSE
    Stops = FALSE
    Faults = FALSE
    ReuseSlots = TRUE
INVARIANTS
    RedirectedToCallbackUri
