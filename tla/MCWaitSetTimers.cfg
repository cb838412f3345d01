SPECIFICATION TimedSpec
CONSTANTS
    hAuto = hAuto
    hManual = hManual
    hOverlapped = hOverlapped
    hQueue = hQueue
    hSmb = hSmb
    hSocket = hSocket
    hFile = hFile
    hTimer = hTimer
    hTimer2 = hTimer2
    hOther = hOther
    eOverlapped = eOverlapped
    eQueue = eQueue
    eSmb = eSmb
    Handles = {hSocket, hTimer, hTimer2, hOther}
    Threads = {t1}
    MaxCalls = 2
    PipeCap = 1
    MaxWait = 3
    MaxArm = 2
    Kind <- MCKind
    EventOf <- MCEventOf
    Events <- MCEvents
    EventType <- MCEventType
    Spurious = FALSE
    NoThread = NoThread
    NoHandle = NoHandle
INVARIANT TimerNotEarly
PROPERTY DueIsServed
PROPERTY ImplementsAtomicWaitSet
CHECK_DEADLOCK FALSE
