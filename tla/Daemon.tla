------------------------------- MODULE Daemon -------------------------------
(***************************************************************************)
(* The log collector of the server: Server/daemon/daemon.js (one TCP       *)
(* socket per traced process), Server/daemon/channel.js (the list of diag  *)
(* channels) and Server/daemon/messageQueue.js (the queue all sockets      *)
(* share).                                                                 *)
(*                                                                         *)
(* Each handler runs to completion on the node event loop, so each is one  *)
(* action.  A socket hands over whole frames here; how bytes are cut into  *)
(* frames is the subject of FrameReader.  Events that the daemon emits to  *)
(* DiagZillaServer.js are appended to out in the order of the emit calls.  *)
(* A message is named by its connection and its position in the stream;    *)
(* the array of a batch is the set of its messages, whose order is that of *)
(* the positions because push appends and post takes everything.           *)
(***************************************************************************)
EXTENDS Naturals, Sequences, FiniteSets

CONSTANTS
    Conns,      \* TCP connections, one per lifetime of a socket
    Pids,       \* processes; 'ch-' + addr + ':' + pid is the key of a process
    None,       \* no entry in the channel list
    NoKey,      \* targetInfo.key before registration (undefined)
    Writes,     \* the kinds of frame the processes write
    MaxFrames   \* frames one connection may send (bound of the model)

(* "reg" is the registration, "log" a log message, "junk" a frame that     *)
(* does not start with { and end with }, "bad" one that does and still is  *)
(* not JSON (a control character that the library left unescaped).         *)
Kinds == {"reg", "log", "junk", "bad"}

ASSUME DaemonAssumption ==
    /\ None \notin Conns
    /\ NoKey \notin Pids
    /\ Writes \subseteq Kinds
    /\ MaxFrames \in Nat

VARIABLES
    conn,   \* what the event loop has seen of each connection
    pid,    \* the process at the other end
    sent,   \* the frames written on the connection so far
    read,   \* how many of them onClientData has been given
    fin,    \* the peer has closed its side
    key,    \* sock.targetInfo.key
    list,   \* diagChannels.list: key -> the connection whose targetInfo it holds
    queue,  \* diagMessageQueue.queue
    out,    \* events emitted so far
    alive   \* FALSE once an uncaught exception has ended the node process

peer == <<pid, sent, fin>>
vars == <<conn, pid, sent, read, fin, key, list, queue, out, alive>>

-----------------------------------------------------------------------------
Msgs == [conn : Conns, pos : Nat]

Events == [evt : {"new-channel", "closed-channel", "messages"},
           key : Pids \cup {NoKey}, msgs : SUBSET Msgs]

NewChannel(k)    == [evt |-> "new-channel",    key |-> k, msgs |-> {}]
ClosedChannel(k) == [evt |-> "closed-channel", key |-> k, msgs |-> {}]
Messages(k, q)   == [evt |-> "messages",       key |-> k, msgs |-> q]

Init ==
    /\ conn  = [c \in Conns |-> "idle"]
    /\ pid   = [c \in Conns |-> NoKey]
    /\ sent  = [c \in Conns |-> <<>>]
    /\ read  = [c \in Conns |-> 0]
    /\ fin   = [c \in Conns |-> FALSE]
    /\ key   = [c \in Conns |-> NoKey]
    /\ list  = [k \in Pids |-> None]
    /\ queue = {}
    /\ out   = <<>>
    /\ alive = TRUE

(* Daemon.onConnection: a process connects; targetInfo has address and     *)
(* port only.                                                              *)
OnConnection(c, p) ==
    /\ alive
    /\ conn[c] = "idle"
    /\ conn' = [conn EXCEPT ![c] = "open"]
    /\ pid'  = [pid EXCEPT ![c] = p]
    /\ UNCHANGED <<sent, read, fin, key, list, queue, out, alive>>

(* The process at the other end writes a frame (sendServer in logger.cc).  *)
(* It usually registers first; with two threads, or when the write of the  *)
(* registration failed, a log message may come first.                      *)
Send(c, kind) ==
    /\ alive
    /\ conn[c] = "open" /\ ~fin[c]
    /\ Len(sent[c]) < MaxFrames
    /\ sent' = [sent EXCEPT ![c] = Append(@, kind)]
    /\ UNCHANGED <<conn, pid, read, fin, key, list, queue, out, alive>>

(* The process closes its socket or exits; the kernel sends FIN.           *)
Hangup(c) ==
    /\ alive
    /\ conn[c] = "open" /\ ~fin[c]
    /\ fin' = [fin EXCEPT ![c] = TRUE]
    /\ UNCHANGED <<conn, pid, sent, read, key, list, queue, out, alive>>

(* The peer resets the connection: what was not read is lost and node      *)
(* destroys the socket without an 'end' event (ECONNRESET in net.js).      *)
Reset(c) ==
    /\ alive
    /\ conn[c] = "open"
    /\ conn' = [conn EXCEPT ![c] = "reset"]
    /\ UNCHANGED <<pid, sent, read, fin, key, list, queue, out, alive>>

(* DiagChannelInfo.register: the list holds the last targetInfo registered *)
(* under a key, also when the key is listed already.                       *)
RegisterToggles(c) ==       \* mutant: a duplicate takes the entry out
    [list EXCEPT ![pid[c]] = IF @ = None THEN c ELSE None]

Register(c) == [list EXCEPT ![pid[c]] = c]

(* The 'new-channel' events of n registrations on one connection.          *)
News(c, n) == [i \in 1..n |-> NewChannel(pid[c])]

(* DiagMessageQueue.post: an empty queue is not posted, another one is     *)
(* taken as a whole by splice(0).                                          *)
PostKeyed(k, q) ==          \* mutant: what has no room is dropped
    IF q = {} \/ k = NoKey THEN <<>> ELSE <<Messages(k, q)>>

Post(k, q) == IF q = {} THEN <<>> ELSE <<Messages(k, q)>>

LeftBySlice(q) == q         \* mutant: slice(0) copies and leaves all

LeftByPost(q) == {}

(* Daemon.onClientData on a chunk that holds the next n frames: each goes  *)
(* through DiagMessageQueue.push until JSON.parse throws on one.  A        *)
(* registration fills targetInfo, lists the channel (over an entry that    *)
(* may already be there) and announces it; a log message is queued.  At    *)
(* the end the whole queue is posted to the room of this socket.           *)
OnClientData(c, n) ==
    LET chunk  == (read[c] + 1) .. (read[c] + n)
        parsed == {i \in chunk : \A j \in chunk : j <= i => sent[c][j] # "bad"}
        regs   == {i \in parsed : sent[c][i] = "reg"}
        pushed == queue \cup [conn : {c}, pos : {i \in parsed : sent[c][i] = "log"}]
        throws == parsed # chunk
        newKey == IF regs = {} THEN key[c] ELSE pid[c]
        posted == IF throws THEN <<>> ELSE Post(newKey, pushed)
    IN
    /\ alive /\ conn[c] = "open"
    /\ n \in 1..(Len(sent[c]) - read[c])
    /\ read'  = [read EXCEPT ![c] = @ + n]
    /\ key'   = [key EXCEPT ![c] = newKey]
    /\ list'  = IF regs = {} THEN list ELSE Register(c)
    /\ queue' = IF throws THEN pushed ELSE LeftByPost(pushed)
    /\ out'   = out \o News(c, Cardinality(regs)) \o posted
    /\ alive' = ~throws
    /\ UNCHANGED <<conn, peer>>

(* DiagChannelInfo.unregister once execName has been read: an unlisted     *)
(* channel is only reported.                                               *)
UnregisterKeeps(k) ==       \* mutant: the entry is not deleted
    /\ list[k] # None
    /\ list' = list
    /\ out'  = Append(out, ClosedChannel(k))

UnregisterSilent(k) ==      \* mutant: the event is not emitted
    /\ list' = [list EXCEPT ![k] = None]
    /\ out'  = out

Unregister(k) ==
    \/ /\ list[k] = None
       /\ UNCHANGED <<list, out>>
    \/ /\ list[k] # None
       /\ list' = [list EXCEPT ![k] = None]
       /\ out'  = Append(out, ClosedChannel(k))

(* Daemon.onClientEnd: the socket is at end of stream.  unregister takes   *)
(* info.execName.substr before it looks at the list, which throws for a    *)
(* socket that never registered.                                           *)
OnClientEnd(c) ==
    /\ alive /\ conn[c] = "open"
    /\ fin[c] /\ read[c] = Len(sent[c])
    /\ conn' = [conn EXCEPT ![c] = "ended"]
    /\ IF key[c] = NoKey
       THEN alive' = FALSE /\ UNCHANGED <<list, out>>
       ELSE alive' = alive /\ Unregister(key[c])
    /\ UNCHANGED <<peer, read, key, queue>>

(* Daemon.onClientClose, in a later turn of the loop.  isRegistered looks  *)
(* the key up, whoever owns the entry now.                                 *)
OnClientClose(c) ==
    /\ alive /\ conn[c] \in {"ended", "reset"}
    /\ conn' = [conn EXCEPT ![c] = "closed"]
    /\ IF key[c] # NoKey
       THEN Unregister(key[c])
       ELSE UNCHANGED <<list, out>>
    /\ UNCHANGED <<peer, read, key, queue, alive>>

LoopWithoutData(c) == OnClientEnd(c) \/ OnClientClose(c)        \* mutant

LoopWithoutEnd(c) ==                                            \* mutant
    \/ \E n \in 1..MaxFrames : OnClientData(c, n)
    \/ OnClientClose(c)

(* The handlers that onConnection registers on a socket.                   *)
Loop(c) ==
    \/ \E n \in 1..MaxFrames : OnClientData(c, n)
    \/ OnClientEnd(c)
    \/ OnClientClose(c)

Next == \E c \in Conns :
    \/ \E p \in Pids : OnConnection(c, p)
    \/ \E kind \in Writes : Send(c, kind)
    \/ Hangup(c)
    \/ Reset(c)
    \/ Loop(c)

Spec == Init /\ [][Next]_vars

(* The event loop serves every socket that is ready; peers owe nothing.    *)
FairSpec == Spec /\ \A c \in Conns : WF_vars(Loop(c))

-----------------------------------------------------------------------------
(* The shape of the state.                                                 *)
TypeOK ==
    /\ conn  \in [Conns -> {"idle", "open", "reset", "ended", "closed"}]
    /\ pid   \in [Conns -> Pids \cup {NoKey}]
    /\ sent  \in [Conns -> Seq(Kinds)]
    /\ read  \in [Conns -> Nat]
    /\ fin   \in [Conns -> BOOLEAN]
    /\ key   \in [Conns -> Pids \cup {NoKey}]
    /\ list  \in [Pids -> Conns \cup {None}]
    /\ queue \in SUBSET Msgs
    /\ out   \in Seq(Events)
    /\ alive \in BOOLEAN

(* A listed channel belongs to a connection that registered under that key *)
(* and has not ended: channel.js never lists a process that is gone, even  *)
(* when registrations under one key replace each other.                    *)
NoGhostChannel ==
    \A k \in Pids : list[k] # None =>
        /\ key[list[k]] = k
        /\ conn[list[k]] \in {"open", "reset"}

(* A registered, open connection is missing from the list only because     *)
(* another connection of the same process took the entry away with it when *)
(* it ended or closed (the stale 'close' of daemon.js and the replaced     *)
(* entry of a duplicate registration); no other path unlists it.           *)
MissingOnlyAfterSamePid ==
    \A c \in Conns :
        (conn[c] = "open" /\ key[c] # NoKey /\ list[key[c]] = None) =>
            \E d \in Conns \ {c} : key[d] = key[c] /\ conn[d] \in {"ended", "closed"}

(* The queue that all sockets share never carries a message from one       *)
(* socket's room into another's: a batch posted under a key holds messages *)
(* of that process only, and a batch posted without a key only messages    *)
(* that were written before any registration on their connection.          *)
NoCrossTalk ==
    \A i \in 1..Len(out) : \A m \in out[i].msgs :
        IF out[i].key = NoKey
        THEN \A j \in 1..m.pos : sent[m.conn][j] # "reg"
        ELSE out[i].key = pid[m.conn]

(* While the process lives, a log message has been posted exactly when it  *)
(* has been read, whichever sockets took turns at the shared queue.        *)
PostedIsRead ==
    alive => \A c \in Conns : \A p \in 1..Len(sent[c]) :
        (p <= read[c] /\ sent[c][p] = "log") <=>
            \E i \in 1..Len(out) : [conn |-> c, pos |-> p] \in out[i].msgs

(* Batches keep the order of each connection, so no message is posted      *)
(* twice either.                                                           *)
PostedInOrder ==
    \A i, j \in 1..Len(out) : \A m \in out[i].msgs, n \in out[j].msgs :
        (i < j /\ m.conn = n.conn) => m.pos < n.pos

(* The shared queue loses, repeats and reorders nothing.                   *)
PostedOnce == PostedIsRead /\ PostedInOrder

(* To the rest of the server the sockets, frames and the shared queue are  *)
(* a Relay: the list is what a viewer can follow from the events about     *)
(* channels, what is read leaves in one batch at most, exactly once, and a *)
(* batch has a room only if its channel has been announced before.         *)
Feed == INSTANCE Relay WITH
    Keys   <- Pids,
    listed <- {k \in Pids : list[k] # None}

IsRelay == Feed!Spec

(* Every frame that reached the server is given to onClientData, unless    *)
(* the connection is reset or the process dies.                            *)
Drained ==
    \A c \in Conns : \A n \in 1..MaxFrames :
        Len(sent[c]) >= n ~> (read[c] >= n \/ conn[c] # "open" \/ ~alive)

(* The entry of a process that hung up does not stay in the list.          *)
Retired ==
    \A c \in Conns : \A k \in Pids :
        (list[k] = c /\ fin[c]) ~> (list[k] # c \/ ~alive)

(* "Unregistered diag channel tried to be unregistered." (channel.js:48):  *)
(* the end of a socket that never registered is to be reported and         *)
(* tolerated, so no 'end' event may end the server.                        *)
EndNeverFatal == [][\A c \in Conns : OnClientEnd(c) => alive']_vars
=============================================================================
