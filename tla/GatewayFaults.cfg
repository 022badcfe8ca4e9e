\* One call at a time with messages, signalling, failures and shutdown, under a
\* fair loop thread.
SPECIFICATION FairSpec
CONSTANTS
    t1 = t1
    t2 = t2
    s1 = s1
    s2 = s2
    u1 = u1
    u2 = u2
    TgIds = {t1}
    SipIds = {s1}
    Users = {u1}
    NoTg = NoTg
    NoSip = NoSip
    NoUser = NoUser
    MaxCtx = 3
    MaxMedia = 3
    MaxQueue = 2
    CallbackUri = TRUE
    Exts = {u1, "name"}
    Contents = {"dtmf", "text"}
    Signals = TRUE
    Stops = TRUE
    Faults = TRUE
    ReuseSlots = FALSE
INVARIANTS
    TypeOK
    NoOrphanTg
    NoTgZombie
    NoSipZombie
    TalkingIsLinked
PROPERTIES
    EndedLegRemovesBridge
