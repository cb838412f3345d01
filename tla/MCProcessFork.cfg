SPECIFICATION ProcessSpec
CONSTANTS
    Callers = {c1, c2, c3}
    Pids = {p1, p2, p3, p4}
    NoPid = NoPid
INVARIANT HandleMeansDaemon
CHECK_DEADLOCK FALSE
SYMMETRY ProcessSymmetry
