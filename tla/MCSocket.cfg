SPECIFICATION SocketSpec
CONSTANTS
    Fds = {3, 4}
    NoFile = NoFile
    Socks = {s1, s2}
    Writers = {s1}
    MaxSend = 1
    Junk <- MCJunk
INVARIANT SocketTypeOK
INVARIANT OneDescriptorEach
INVARIANT EndIsReal
PROPERTY CloseIsSeen
CHECK_DEADLOCK FALSE
