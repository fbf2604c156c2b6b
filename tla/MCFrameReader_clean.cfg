\* Four frames of two sizes, chunks of every size.
CONSTANTS
    Lengths = {2, 3}
    Garbage = {1, 6, 99}
    MaxBuffer = 50
    MaxFrames = 4
    None = None
SPECIFICATION Spec
INVARIANTS
    TypeOK
    CleanStreamIsRead
    NeverBackwards
\* the stream ends, or the process dies
CHECK_DEADLOCK FALSE
