\* No symmetry here: the properties are temporal.
CONSTANTS
    Conns = {c1, c2}
    Pids = {p1}
    None = None
    NoKey = NoKey
    Writes = {"reg", "log", "junk"}
    MaxFrames = 2
SPECIFICATION FairSpec
PROPERTIES
    Drained
    Retired
\* every connection closes in the end, or the process dies
CHECK_DEADLOCK FALSE
