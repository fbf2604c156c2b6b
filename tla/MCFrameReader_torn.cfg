\* Two frames are enough to tear one.
CONSTANTS
    Lengths = {2, 3}
    Garbage = {1, 6, 99}
    MaxBuffer = 50
    MaxFrames = 2
    None = None
SPECIFICATION Spec
INVARIANTS
    RestoreCompletes
\* the stream ends, or the process dies
CHECK_DEADLOCK FALSE
