SPECIFICATION StopSpec
CONSTANTS
    hAuto = hAuto
    Handles = {hAuto}
    Threads = {t1, t2}
    MaxCalls = 2
    PipeCap = 2
    MaxWait = 1
    MaxArm = 0
    Kind <- MCKind
    EventOf <- MCEventOf
    Events <- MCEvents
    EventType <- MCEventType
    Spurious = FALSE
    NoThread = NoThread
    NoHandle = NoHandle
INVARIANT DeleteSeenBeforeSleep
CHECK_DEADLOCK FALSE
