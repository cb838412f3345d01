SPECIFICATION MCSpec
CONSTANTS
    Fds = {3, 4, 5, 6}
    NoFile = NoFile
    Threads = {t1, t2, t3}
    Pair = {t1, t2}
    Clients = {c1}
    MaxLines = 1
    MaxFails = 1
    LoadAddr <- MCLoadAddr
    LibSize = 3
    Ifs = {wlan0, eth0, rmnet0}
    Wanted = {wlan0, eth0}
    MAX_IFS = 2
    MaxChanges = 2
    MaxEnums = 1
INVARIANT ConsoleTypeOK
INVARIANT NetTypeOK
INVARIANT OthersAreSafe
INVARIANT LogIsOpen
INVARIANT AddressesTellLibrary
INVARIANT EnumerationIsExact
INVARIANT SocketIsOwn
PROPERTY WriteReturns
CHECK_DEADLOCK FALSE
