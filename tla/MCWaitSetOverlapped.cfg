SPECIFICATION TimedSpec
CONSTANTS
    hAuto = hAuto
    hManual = hManual
    hOverlapped = hOverlapped
    hQueue = hQueue
    hSmb = hSmb
    hSocket = hSocket
    hFile = hFile
    hTimer = hTimer
    hTimer2 = hTimer2
    hOther = hOther
    eOverlapped = eOverlapped
    eQueue = eQueue
    eSmb = eSmb
    Handles = {hOverlapped, hSmb}
    Threads = {t1, t2}
    MaxCalls = 2
    PipeCap = 1
    MaxWait = 1
    MaxArm = 0
    Kind <- MCKind
    EventOf <- MCEventOf
    Events <- MCEvents
    EventType <- MCEventType
    Spurious = FALSE
    NoThread = NoThread
    NoHandle = NoHandle
INVARIANT NoLostSignal
PROPERTY DueIsServed
CHECK_DEADLOCK FALSE
