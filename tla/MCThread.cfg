\* The owner may be done with the thread after one life.
SPECIFICATION ThreadSpec
CHECK_DEADLOCK FALSE
INVARIANTS
    ObjectTypeOK
    JoinedNotStale
    FreedOnce
    WaitIsComplete
PROPERTIES
    ThreadReleased
