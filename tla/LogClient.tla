------------------------------ MODULE LogClient ------------------------------
(***************************************************************************)
(* The log library inside a traced process, Library/logger.cc: the         *)
(* functions connectServer, sendServer and disconnectServer, which call    *)
(* each other, and the descriptor dzSocket and the disposition of SIGPIPE, *)
(* which all threads of the process share without a lock.  One action is   *)
(* one system call, or one access to dzSocket, of one thread.  The host    *)
(* program opens and closes descriptors and sets the disposition of        *)
(* SIGPIPE for itself, the server stops and comes back.                    *)
(***************************************************************************)
EXTENDS Integers, Sequences, FiniteSets, Functions

CONSTANTS
    Threads,   \* threads of the process
    Main,      \* the one that loads and unloads the library
    Fds,       \* descriptors that socket() and open() can return
    MaxHost,   \* descriptors the host has open besides (bound of the model)
    MaxLogs,   \* log calls of all threads (bound of the model)
    MaxConns,  \* connections the server accepts (bound of the model)
    MaxShort,  \* connections with short writes (bound of the model)
    MaxStops   \* times the server stops (bound of the model)

ASSUME LogClientAssumption ==
    /\ Main \in Threads /\ Fds \subseteq Nat
    /\ MaxHost \in Nat /\ MaxLogs \in Nat /\ MaxConns \in Nat
    /\ MaxShort \in Nat /\ MaxStops \in Nat

VARIABLES
    dzSocket,   \* 0: not connected, -1: socket() failed
    owner,      \* who has a descriptor: "free", "host" or "library"
    peer,       \* the connection of a library descriptor, 0 before connect()
    sigpipe,    \* "DFL" or "IGN" of the library, "hostDFL" or "hostOther" of the host
    alive,      \* SIGPIPE has not killed the process
    pc,         \* what a thread does next
    stack,      \* the messages of the sendServer calls a thread is in, innermost first
    loaded,     \* the library's constructor has returned
    unloaded,   \* its destructor has been called
    logged,     \* log calls a thread has made
    disturbed,  \* messages whose call saw a failure or a dead connection
    serverUp,
    stops,      \* times the server has stopped
    conns       \* connections the server has accepted: up or not, what was received

libVars == <<dzSocket, owner, peer, sigpipe>>
threadVars == <<pc, stack, loaded, unloaded, logged>>
serverVars == <<serverUp, stops, conns>>
vars == <<libVars, alive, threadVars, disturbed, serverVars>>

NoSocket == -1

(* A message is named by its thread and its number there; the registration *)
(* that connectServer sends is number 0.  Each goes out in two parts.      *)
Registration(t) == [by |-> t, n |-> 0]

LogMessage(t) == [by |-> t, n |-> logged[t] + 1]

Part(name, msg) == [part |-> name, msg |-> msg]

Init ==
    /\ dzSocket = 0
    /\ owner = [fd \in Fds |-> "free"] /\ peer = [fd \in Fds |-> 0]
    /\ sigpipe \in {"DFL", "hostOther"} /\ alive = TRUE
    /\ pc = [t \in Threads |-> IF t = Main THEN "socket" ELSE "idle"]
    /\ stack = [t \in Threads |-> <<>>]
    /\ loaded = FALSE /\ unloaded = FALSE
    /\ logged = [t \in Threads |-> 0] /\ disturbed = {}
    /\ serverUp \in BOOLEAN /\ stops = 0 /\ conns = <<>>

-----------------------------------------------------------------------------
(* Control.                                                                *)
At(t, label) == alive /\ pc[t] = label

GoTo(t, label) == pc' = [pc EXCEPT ![t] = label]

(* Leave the innermost sendServer.  If connectServer called it, that       *)
(* returns true in any case, and the sendServer around it goes on to send. *)
ReturnGivingUp(t) ==         \* mutant: the caller returns once it is connected
    /\ stack' = [stack EXCEPT ![t] = <<>>]
    /\ GoTo(t, "idle")
    /\ loaded' = TRUE

Return(t) ==
    LET rest == IF stack[t] = <<>> THEN <<>> ELSE Tail(stack[t])
    IN  /\ stack' = [stack EXCEPT ![t] = rest]
        /\ GoTo(t, IF rest = <<>> THEN "idle" ELSE "header")
        /\ loaded' = (loaded \/ rest = <<>>)

(* A call has failed: what the thread is sending may be lost.              *)
Disturb(t) == disturbed' = disturbed \cup {stack[t][i] : i \in DOMAIN stack[t]}

(* A failed send leaves through the label err.                             *)
IgnoreFailure(t) ==          \* mutant: return instead of goto err
    /\ Return(t)
    /\ UNCHANGED <<unloaded, logged>>
    /\ Disturb(t)

Fail(t) ==
    /\ GoTo(t, "close")
    /\ UNCHANGED <<stack, loaded, unloaded, logged>>
    /\ Disturb(t)

-----------------------------------------------------------------------------
(* LogChannel::flush composes a message and calls sendServer; the          *)
(* destructor of the library calls finish.                                 *)
Log(t) ==
    /\ At(t, "idle") /\ loaded /\ FoldFunction(+, 0, logged) < MaxLogs
    /\ stack' = [stack EXCEPT ![t] = <<LogMessage(t)>>]
    /\ logged' = [logged EXCEPT ![t] = @ + 1]
    /\ GoTo(t, "check")
    /\ UNCHANGED <<libVars, alive, loaded, unloaded, disturbed, serverVars>>

Finish ==
    /\ At(Main, "idle") /\ loaded /\ ~unloaded
    /\ unloaded' = TRUE
    /\ GoTo(Main, "close")
    /\ UNCHANGED <<libVars, alive, stack, loaded, logged, disturbed, serverVars>>

(* sendServer: if(!dzSocket) connectServer().                              *)
Check(t) ==
    /\ At(t, "check")
    /\ GoTo(t, IF dzSocket = 0 THEN "socket" ELSE "header")
    /\ UNCHANGED <<libVars, alive, stack, loaded, unloaded, logged, disturbed, serverVars>>

-----------------------------------------------------------------------------
(* connectServer.                                                          *)
Free == {fd \in Fds : owner[fd] = "free"}

(* The kernel takes the lowest free one; any is allowed here.              *)
Socket(t) ==
    /\ At(t, "socket")
    /\ GoTo(t, "connect")
    /\ \/ \E fd \in Free :
              /\ dzSocket' = fd
              /\ owner' = [owner EXCEPT ![fd] = "library"]
       \/ /\ Free = {}
          /\ dzSocket' = NoSocket
          /\ UNCHANGED owner
    /\ UNCHANGED <<peer, sigpipe, alive, stack, loaded, unloaded, logged, disturbed, serverVars>>

OurSocket == dzSocket \in Fds /\ owner[dzSocket] = "library"

Connect(t) ==
    /\ At(t, "connect")
    /\ OurSocket /\ peer[dzSocket] = 0
    /\ serverUp /\ Len(conns) < MaxConns
    /\ conns' = Append(conns, [up |-> TRUE, got |-> <<>>])
    /\ peer' = [peer EXCEPT ![dzSocket] = Len(conns) + 1]
    /\ GoTo(t, "signal")
    /\ UNCHANGED <<dzSocket, owner, sigpipe, alive, stack, loaded, unloaded, logged,
                   disturbed, serverUp, stops>>

RetryConnect(t) ==           \* mutant: try again instead of giving up
    /\ At(t, "connect")
    /\ UNCHANGED vars

(* Refused, interrupted, no descriptor, or one that is already connected.  *)
ConnectFails(t) ==
    /\ At(t, "connect")
    /\ Fail(t)
    /\ UNCHANGED <<libVars, alive, serverVars>>

RegisterWithSignal(t) ==         \* mutant: SIGPIPE stays as it is
    /\ At(t, "signal")
    /\ stack' = [stack EXCEPT ![t] = <<Registration(t)>> \o @]
    /\ GoTo(t, "check")
    /\ UNCHANGED <<libVars, alive, loaded, unloaded, logged, disturbed, serverVars>>

IgnoreAndRegister(t) ==
    /\ At(t, "signal")
    /\ sigpipe' = "IGN"
    /\ stack' = [stack EXCEPT ![t] = <<Registration(t)>> \o @]
    /\ GoTo(t, "check")
    /\ UNCHANGED <<dzSocket, owner, peer, alive, loaded, unloaded, logged,
                   disturbed, serverVars>>

-----------------------------------------------------------------------------
(* The two send() calls of sendServer.  Each reads dzSocket again.         *)
SendAgain(t, part) ==        \* mutant: what may be lost is sent once more
    IF part = "header" THEN GoTo(t, "payload") /\ UNCHANGED <<stack, loaded>>
    ELSE \/ Return(t)
         \/ GoTo(t, "header") /\ UNCHANGED <<stack, loaded>>

Sent(t, part) ==
    IF part = "header" THEN GoTo(t, "payload") /\ UNCHANGED <<stack, loaded>>
                       ELSE Return(t)

Connection == conns[peer[dzSocket]]

Deliver(t, part) ==
    /\ OurSocket /\ peer[dzSocket] # 0 /\ Connection.up
    /\ conns' = [conns EXCEPT ![peer[dzSocket]].got = Append(@, Part(part, Head(stack[t])))]
    /\ Sent(t, part)
    /\ UNCHANGED <<alive, unloaded, logged, disturbed>>

(* A signal of the host can cut a send that had to wait.  The result is    *)
(* not compared with the length, so the call goes on as if all was sent.   *)
ShortWrites ==
    {c \in DOMAIN conns : \E i \in DOMAIN conns[c].got : conns[c].got[i].part = "short"}

DeliverShort(t, part) ==
    /\ part = "payload" /\ Cardinality(ShortWrites) < MaxShort
    /\ OurSocket /\ peer[dzSocket] # 0 /\ Connection.up
    /\ conns' = [conns EXCEPT ![peer[dzSocket]].got = Append(@, Part("short", Head(stack[t])))]
    /\ Sent(t, part)
    /\ Disturb(t)
    /\ UNCHANGED <<alive, unloaded, logged>>

(* A descriptor of the host: a stale dzSocket, or 0, its standard input.   *)
HostDescriptor == dzSocket \in Fds \cup {0} /\ (dzSocket \in Fds => owner[dzSocket] = "host")

(* The kernel takes what goes to a server that has just gone.  A socket of *)
(* the host takes it too.                                                  *)
Swallow(t, part) ==
    /\ \/ OurSocket /\ peer[dzSocket] # 0 /\ ~Connection.up
       \/ HostDescriptor
    /\ Sent(t, part)
    /\ Disturb(t)
    /\ UNCHANGED <<alive, unloaded, logged, conns>>

(* EPIPE: the signal comes with it, also from a socket of the host whose   *)
(* peer has gone.                                                          *)
Deadly == {"DFL", "hostDFL"}

Break(t) ==
    /\ \/ OurSocket /\ (peer[dzSocket] # 0 => ~Connection.up)
       \/ HostDescriptor
    /\ alive' = (sigpipe \notin Deadly)
    /\ Fail(t)
    /\ UNCHANGED conns

(* EINTR of a send that had to wait, EBADF, ENOTSOCK: no signal.           *)
SendFails(t) ==
    /\ Fail(t)
    /\ UNCHANGED <<alive, conns>>

Send(t) ==
    \E part \in {"header", "payload"} :
        /\ At(t, part)
        /\ Deliver(t, part) \/ DeliverShort(t, part) \/ Swallow(t, part) \/ Break(t) \/ SendFails(t)
        /\ UNCHANGED <<libVars, serverUp, stops>>

-----------------------------------------------------------------------------
(* disconnectServer: close, reset dzSocket, restore SIGPIPE, return.       *)
CloseLater(t) ==             \* mutant: the descriptor is not closed
    /\ At(t, "close")
    /\ dzSocket # 0
    /\ GoTo(t, "forget")
    /\ UNCHANGED <<libVars, alive, stack, loaded, unloaded, logged, disturbed, serverVars>>

Close(t) ==
    /\ At(t, "close")
    /\ dzSocket # 0
    /\ owner' = [fd \in Fds |-> IF fd = dzSocket THEN "free" ELSE owner[fd]]
    /\ peer' = [fd \in Fds |-> IF fd = dzSocket THEN 0 ELSE peer[fd]]
    /\ GoTo(t, "forget")
    /\ UNCHANGED <<dzSocket, sigpipe, alive, stack, loaded, unloaded, logged,
                   disturbed, serverVars>>

NothingToClose(t) ==
    /\ At(t, "close")
    /\ dzSocket = 0
    /\ Return(t)
    /\ UNCHANGED <<libVars, alive, unloaded, logged, disturbed, serverVars>>

Remember(t) ==               \* mutant: dzSocket = 0 is missing
    /\ At(t, "forget")
    /\ GoTo(t, "restore")
    /\ UNCHANGED <<libVars, alive, stack, loaded, unloaded, logged, disturbed, serverVars>>

Forget(t) ==
    /\ At(t, "forget")
    /\ dzSocket' = 0
    /\ GoTo(t, "restore")
    /\ UNCHANGED <<owner, peer, sigpipe, alive, stack, loaded, unloaded, logged,
                   disturbed, serverVars>>

LeaveIgnored(t) ==           \* mutant: SIGPIPE stays ignored
    /\ At(t, "restore")
    /\ Return(t)
    /\ UNCHANGED <<libVars, alive, unloaded, logged, disturbed, serverVars>>

RestoreAndReconnect(t) ==    \* mutant: disconnectServer connects again at once
    /\ At(t, "restore")
    /\ sigpipe' = "DFL"
    /\ GoTo(t, "socket")
    /\ UNCHANGED <<dzSocket, owner, peer, alive, stack, loaded, unloaded, logged,
                   disturbed, serverVars>>

Restore(t) ==
    /\ At(t, "restore")
    /\ sigpipe' = "DFL"
    /\ Return(t)
    /\ UNCHANGED <<dzSocket, owner, peer, alive, unloaded, logged, disturbed, serverVars>>

-----------------------------------------------------------------------------
(* The environment: the host's own descriptors, its disposition of SIGPIPE *)
(* (the default, or to ignore or catch it), and the server.                *)
HostOpen(fd) ==
    /\ alive /\ loaded /\ owner[fd] = "free"
    /\ Cardinality({d \in Fds : owner[d] = "host"}) < MaxHost
    /\ owner' = [owner EXCEPT ![fd] = "host"]
    /\ UNCHANGED <<dzSocket, peer, sigpipe, alive, threadVars, disturbed, serverVars>>

HostClose(fd) ==
    /\ alive /\ owner[fd] = "host"
    /\ owner' = [owner EXCEPT ![fd] = "free"]
    /\ UNCHANGED <<dzSocket, peer, sigpipe, alive, threadVars, disturbed, serverVars>>

HostSignal(disposition) ==
    /\ alive /\ loaded
    /\ sigpipe' = disposition
    /\ UNCHANGED <<dzSocket, owner, peer, alive, threadVars, disturbed, serverVars>>

ServerStop ==
    /\ serverUp /\ stops < MaxStops
    /\ serverUp' = FALSE /\ stops' = stops + 1
    /\ conns' = [i \in DOMAIN conns |-> [conns[i] EXCEPT !.up = FALSE]]
    /\ UNCHANGED <<libVars, alive, threadVars, disturbed>>

ServerStart ==
    /\ ~serverUp
    /\ serverUp' = TRUE
    /\ UNCHANGED <<libVars, alive, threadVars, disturbed, stops, conns>>

Work(t) ==
    \/ Check(t) \/ Socket(t) \/ Connect(t) \/ ConnectFails(t) \/ IgnoreAndRegister(t)
    \/ Send(t)
    \/ Close(t) \/ NothingToClose(t) \/ Forget(t) \/ Restore(t)

Environment ==
    \/ \E fd \in Fds : HostOpen(fd) \/ HostClose(fd)
    \/ \E disposition \in {"hostDFL", "hostOther"} : HostSignal(disposition)
    \/ ServerStop \/ ServerStart

Next ==
    \/ \E t \in Threads : Log(t) \/ Work(t)
    \/ Finish
    \/ Environment

Spec == Init /\ [][Next]_vars

(* The operating system runs every thread, and every system call returns.  *)
FairSpec == Spec /\ \A t \in Threads : WF_vars(Work(t))

-----------------------------------------------------------------------------
(* Properties of any number of threads.                                    *)

Message == [by : Threads, n : Nat]
Labels == {"idle", "check", "socket", "connect", "signal", "header", "payload",
           "close", "forget", "restore"}

(* The variables have their types; a thread is in calls of its own         *)
(* messages only, and of none before it is logged.                         *)
TypeOK ==
    /\ dzSocket \in Fds \cup {0, NoSocket}
    /\ owner \in [Fds -> {"free", "host", "library"}]
    /\ peer \in [Fds -> 0..Len(conns)]
    /\ sigpipe \in {"DFL", "IGN", "hostDFL", "hostOther"}
    /\ alive \in BOOLEAN /\ loaded \in BOOLEAN /\ unloaded \in BOOLEAN
    /\ pc \in [Threads -> Labels]
    /\ stack \in [Threads -> Seq(Message)]
    /\ \A t \in Threads : pc[t] \in {"check", "header", "payload"} => stack[t] # <<>>
    /\ logged \in [Threads -> Nat]
    /\ \A t \in Threads : \A i \in DOMAIN stack[t] :
          stack[t][i].by = t /\ stack[t][i].n <= logged[t]
    /\ disturbed \subseteq Message
    /\ serverUp \in BOOLEAN /\ stops \in 0..MaxStops
    /\ conns \in Seq([up : BOOLEAN,
                      got : Seq([part : {"header", "payload", "short"}, msg : Message])])

Idle == \A t \in Threads : pc[t] = "idle"

Arrived(msg) ==
    \E c \in DOMAIN conns : \E i \in DOMAIN conns[c].got :
        conns[c].got[i] = Part("payload", msg)

(* A log call that no failure disturbed has brought its payload to the     *)
(* server when it returns, also the one that had to connect and register   *)
(* first: connectServer and sendServer do not lose it between them.        *)
UndisturbedArrive ==
    \A t \in Threads : \A n \in 1..logged[t] :
        LET msg == [by |-> t, n |-> n]
        IN  \/ Arrived(msg)
            \/ msg \in disturbed
            \/ \E i \in DOMAIN stack[t] : stack[t][i] = msg

(* The server gets the payloads of a thread once each and in the order of  *)
(* the calls, over all connections and reconnections of the process.       *)
ArriveInOrder ==
    \A c, d \in DOMAIN conns :
        \A i \in DOMAIN conns[c].got, j \in DOMAIN conns[d].got :
            LET p == conns[c].got[i]
                q == conns[d].got[j]
            IN  /\ (c < d \/ (c = d /\ i < j))
                /\ p.part = "payload" /\ q.part = "payload"
                /\ p.msg.by = q.msg.by /\ p.msg.n > 0 /\ q.msg.n > 0
                => p.msg.n < q.msg.n

(* A log call returns to the host (or the process dies of SIGPIPE): the    *)
(* recursion of sendServer and connectServer ends, server or no server.    *)
CallsReturn ==
    \A t \in Threads : pc[t] # "idle" ~> (pc[t] = "idle" \/ ~alive)

-----------------------------------------------------------------------------
(* Properties of a process with one thread.                                *)

(* Up to a short write, which the library does not notice, a connection    *)
(* carries a sequence of frames, each a header and then the payload of the *)
(* same message, the last one possibly without its payload.                *)
InStep(got, i) == \A j \in 1..i : got[j].part # "short"

WellFramed ==
    \A c \in DOMAIN conns :
        LET got == conns[c].got
        IN  \A i \in DOMAIN got : InStep(got, i) =>
                IF i % 2 = 1 THEN got[i].part = "header"
                             ELSE got[i] = Part("payload", got[i - 1].msg)

(* A connection carries the registration before anything else, and once.   *)
RegisteredFirst ==
    \A c \in DOMAIN conns : \A i \in DOMAIN conns[c].got :
        (i <= 2) <=> (conns[c].got[i].msg.n = 0)

(* So the server can read every connection as daemon.js does: registered,  *)
(* then frame by frame.                                                    *)
FramedStream == WellFramed /\ RegisteredFirst

(* What the library sends kills the host with SIGPIPE in two cases only:   *)
(* the host has set the default disposition itself since the library       *)
(* connected, or a registration has failed and sendServer goes on with     *)
(* descriptor 0, the signal back at its default, where the host has a      *)
(* socket whose peer has gone.  A server that goes away never does.        *)
HostSurvives ==
    ~alive => sigpipe = "hostDFL" \/ (sigpipe = "DFL" /\ dzSocket = 0)

(* Between calls SIGPIPE is not left ignored by the library when it has no *)
(* connection, and not at the library's default when it has one.  What the *)
(* host had set before is not remembered: disconnectServer sets SIG_DFL.   *)
SignalFollowsSocket ==
    Idle => IF dzSocket = 0 THEN sigpipe # "IGN" ELSE sigpipe # "DFL"

(* The recursion of sendServer and connectServer nests once: a call finds  *)
(* no connection and registers, and the sendServer of the registration,    *)
(* whatever fails in it, never connects again.                             *)
NestsOnce == \A t \in Threads : Len(stack[t]) <= 2

(* The only descriptor of the library is the one in dzSocket: reconnecting *)
(* after any failure leaks none.                                           *)
NoLeak == \A fd \in Fds : owner[fd] = "library" => dzSocket = fd

(* The library connects and closes its own descriptors only, never one of  *)
(* the host that has taken the number of a closed socket.  It sends to its *)
(* own, or, after a failed registration, to descriptor 0 of the host: then *)
(* nothing but what it has given up already.                               *)
OnlyOwnDescriptors ==
    \A t \in Threads :
        /\ pc[t] = "connect" => dzSocket = NoSocket \/ OurSocket
        /\ pc[t] = "close" => dzSocket \in {0, NoSocket} \/ OurSocket
        /\ pc[t] \in {"header", "payload"} =>
              \/ OurSocket
              \/ dzSocket = 0 /\ \A i \in DOMAIN stack[t] : stack[t][i] \in disturbed
=============================================================================
