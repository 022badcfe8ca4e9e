\* Three calls, of one user or of two, with failures, under fair threads.
SPECIFICATION FairSpec
CONSTANTS
    c1 = c1
    c2 = c2
    c3 = c3
    u1 = u1
    u2 = u2
    w1 = w1
    w2 = w2
    Ctls = {c1, c2, c3}
    Users = {u1, u2}
    Workers = {w1, w2}
    NoCtl = NoCtl
    NoUser = NoUser
    NoWorker = NoWorker
    Faults = TRUE
INVARIANTS
    NoUseAfterFree
    QuietOnceStopped
    OwnSink
    SingleProducer
PROPERTIES
    StopReturns
