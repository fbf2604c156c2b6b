\* Two viewers, one named channel and the one without a name; three batches, so
\* that a backlog can hold two.  No symmetry, since a property is temporal.
CONSTANTS
    Clients = {v1, v2}
    Keys = {k1}
    NoKey = NoKey
    Info = Info
    Root = Root
    Keep = 2
    MaxBatches = 3
SPECIFICATION FairSpec
INVARIANTS
    RoomsAreLive
    EachBatchOnce
    ReceivedInOrder
PROPERTIES
    BacklogLeaves
    IsBacklog
