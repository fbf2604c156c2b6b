\* One channel, which may be announced twice, one reconnection, and a second viewer that asks once.
\* No symmetry, since a property is temporal.
CONSTANTS
    Keys = {k1}
    MaxSessions = 2
    MaxEvents = 2
    MaxOthers = 1
    MaxUser = 2
SPECIFICATION FairSpec
INVARIANTS
    TypeOK
    Accepted
    LastWordCounts
    DialogIsTrue
PROPERTIES
    Answered
\* the user, the processes and the network may all stop
CHECK_DEADLOCK FALSE
