CONSTANTS
    Conns = {c1, c2}
    Pids = {p1}
    None = None
    NoKey = NoKey
    Writes = {"reg", "log"}
    MaxFrames = 1
SPECIFICATION Spec
PROPERTIES
    EndNeverFatal
CHECK_DEADLOCK FALSE
