\* Two sockets take turns at the shared queue; three frames each, so that a
\* log message can precede and follow a registration.
CONSTANTS
    Conns = {c1, c2}
    Pids = {p1, p2}
    None = None
    NoKey = NoKey
    Writes = {"reg", "log", "bad"}
    MaxFrames = 3
SPECIFICATION Spec
SYMMETRY Symmetry
INVARIANTS
    PostedOnce
    NoGhostChannel
    MissingOnlyAfterSamePid
    NoCrossTalk
PROPERTIES
    IsRelay
\* every connection closes in the end, or the process dies
CHECK_DEADLOCK FALSE
