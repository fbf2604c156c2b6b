\* A buffer of three rows in a container of two rows or one and two thirds: the
\* fourth message overflows the buffer, by batches of one and of two.
CONSTANTS
    MaxLength = 3
    MaxBatch = 2
    RowHeight = 3
    Heights = {5, 6}
    Verbose = {2, 4}
    MaxArrivals = 5
    MaxUser = 3
SPECIFICATION Spec
INVARIANTS
    ScreenIsPending
    TypeOK
    CountersAreTrue
    KeepsNewest
    FollowsNewest
