SPECIFICATION EventSpec
CONSTANTS
    eAuto = eAuto
    eManual = eManual
    Threads = {t1, t2, t3}
    Events <- MCEvents
    EventType <- MCEventType
    PipeCap = 1
    MaxCalls = 2
    Spurious = TRUE
    NoThread = NoThread
    NoHandle = NoHandle
INVARIANT EventTypeOK
INVARIANT NoLostWakeup
PROPERTY BroadcastReleases
PROPERTY ImplementsAtomicEvent
CHECK_DEADLOCK FALSE
