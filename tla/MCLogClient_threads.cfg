\* Two threads that share the socket.  The process may die of SIGPIPE and the
\* environment then stops.
CONSTANTS
    main = main
    other = other
    Threads = {main, other}
    Main = main
    Fds <- TwoFds
    MaxHost = 0
    MaxLogs = 2
    MaxConns = 2
    MaxShort = 0
    MaxStops = 0
SPECIFICATION FairSpec
INVARIANTS
    UndisturbedArrive
    ArriveInOrder
CHECK_DEADLOCK FALSE
PROPERTIES
    CallsReturn
