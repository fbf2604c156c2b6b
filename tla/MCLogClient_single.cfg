\* One thread: a host that competes for the two descriptors and sets SIGPIPE for
\* itself, a server that stops twice, three log calls.  The host may die of
\* SIGPIPE and the environment then stops.
CONSTANTS
    main = main
    Threads = {main}
    Main = main
    Fds <- TwoFds
    MaxHost = 2
    MaxLogs = 3
    MaxConns = 3
    MaxShort = 1
    MaxStops = 2
SPECIFICATION Spec
CHECK_DEADLOCK FALSE
INVARIANTS
    FramedStream
    HostSurvives
    SignalFollowsSocket
    NoLeak
    NestsOnce
    OnlyOwnDescriptors
