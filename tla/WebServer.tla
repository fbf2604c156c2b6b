------------------------------ MODULE WebServer ------------------------------
(***************************************************************************)
(* Server/DiagZillaWebServer.js: the rooms that viewers join through       *)
(* socket.io, and the backlog (emptyChannelBackup) that keeps what is      *)
(* broadcast to an empty room for a while.                                 *)
(*                                                                         *)
(* socket.io keeps membership twice (manager.rooms and roomClients); both  *)
(* are modelled, from manager.js, because the code reads both.  A batch is *)
(* named by its number in the order of the broadcasts.  One Tick is a      *)
(* second; a timer may fire late but timers of one duration fire in the    *)
(* order in which they were set, as node keeps them in one list.           *)
(***************************************************************************)
EXTENDS Naturals, Sequences, FiniteSets, SequencesExt

CONSTANTS
    Clients,    \* socket.io sessions
    Keys,       \* keys of diag channels
    NoKey,      \* undefined: the room of a socket that never registered
    Info,       \* DiagZillaInfoChannel
    Root,       \* the '' room of socket.io, which every session joins
    Keep,       \* the delay of the timer: 3 (seconds)
    MaxBatches  \* broadcasts in a behaviour (bound of the model)

ASSUME WebServerAssumption ==
    /\ NoKey \notin Keys /\ Info \notin Keys /\ Root \notin Keys
    /\ Info # NoKey /\ Info # Root
    /\ Keep \in Nat /\ MaxBatches \in Nat

VARIABLES
    rooms,        \* manager.rooms: room -> its members
    roomClients,  \* manager.roomClients: session -> its rooms
    connected,    \* the sessions
    backup,       \* emptyChannelBackup: channel -> pending batches
    timers,       \* pending timeouts, oldest first
    log,          \* the channel of every broadcast so far
    got,          \* the batches emitted to each session, in order
    delivered,    \* the batches emitted to at least one session
    expired       \* the batches deleted by a timeout

membership == <<rooms, roomClients, connected>>
fates      == <<delivered, expired>>
vars == <<rooms, roomClients, connected, backup, timers, log, got, delivered, expired>>

Rooms    == Keys \cup {Info, Root}
Channels == Keys \cup {NoKey, Info}
Batches  == 1..MaxBatches

(* sockets.clients(channel) and sockets.in(channel): namespace.js leaves   *)
(* the name of an undefined room out.                                      *)
RoomOf(ch) == IF ch = NoKey THEN Root ELSE ch

Init ==
    /\ rooms       = [r \in Rooms |-> {}]
    /\ roomClients = [c \in Clients |-> {}]
    /\ connected   = {}
    /\ backup      = [ch \in Channels |-> <<>>]
    /\ timers      = <<>>
    /\ log         = <<>>
    /\ got         = [c \in Clients |-> <<>>]
    /\ delivered   = {}
    /\ expired     = {}

-----------------------------------------------------------------------------
(* Manager.onJoin.                                                         *)
Join(c, names) ==
    /\ rooms' = [r \in Rooms |-> IF r \in names THEN rooms[r] \cup {c} ELSE rooms[r]]
    /\ roomClients' = [roomClients EXCEPT ![c] = @ \cup names]

(* Manager.onLeave, which touches roomClients only when the room exists.   *)
Leave(c, names) ==
    /\ rooms' = [r \in Rooms |-> IF r \in names THEN rooms[r] \ {c} ELSE rooms[r]]
    /\ roomClients' =
         [roomClients EXCEPT ![c] = @ \ {r \in names : rooms[r] # {}}]

(* clients.emit to the members of a room, one batch after the other.       *)
EmitBackwards(members, batches) ==          \* mutant: the latest first
    /\ got' = [c \in Clients |->
                 IF c \in members THEN got[c] \o Reverse(batches) ELSE got[c]]
    /\ delivered' = IF members = {} THEN delivered
                    ELSE delivered \cup {batches[i] : i \in 1..Len(batches)}

Emit(members, batches) ==
    /\ got' = [c \in Clients |-> IF c \in members THEN got[c] \o batches ELSE got[c]]
    /\ delivered' = IF members = {} THEN delivered
                    ELSE delivered \cup {batches[i] : i \in 1..Len(batches)}

(* DiagZillaWebServer.onWsConnection.                                      *)
OnWsConnection(c) ==
    /\ c \notin connected
    /\ connected' = connected \cup {c}
    /\ Join(c, {Root, Info})
    /\ got' = [got EXCEPT ![c] = <<>>]
    /\ UNCHANGED <<backup, timers, log, fates>>

(* The 'disconnect' handler leaves the info channel, then the manager      *)
(* makes the session leave every room that roomClients holds for it.       *)
OnDisconnectLeavesInfo(c) ==                \* mutant: only what the TODO leaves
    /\ c \in connected
    /\ connected' = connected \ {c}
    /\ Leave(c, {Root, Info})
    /\ UNCHANGED <<backup, timers, log, got, fates>>

OnDisconnect(c) ==
    /\ c \in connected
    /\ connected' = connected \ {c}
    /\ rooms' = [r \in Rooms |-> IF r \in roomClients[c] \cup {Info}
                                 THEN rooms[r] \ {c} ELSE rooms[r]]
    /\ roomClients' = [roomClients EXCEPT ![c] = {}]
    /\ UNCHANGED <<backup, timers, log, got, fates>>

(* The 'subscribe' handler: join, then broadcast the backlog to the room   *)
(* and delete it.  Its timers stay set.                                    *)
OnSubscribeKeepsBacklog(c, k) ==            \* mutant: no delete after the flush
    /\ c \in connected
    /\ Join(c, {k})
    /\ Emit(rooms'[RoomOf(k)], backup[k])
    /\ UNCHANGED <<connected, backup, timers, log, expired>>

OnSubscribe(c, k) ==
    /\ c \in connected
    /\ Join(c, {k})
    /\ Emit(rooms'[RoomOf(k)], backup[k])
    /\ backup' = [backup EXCEPT ![k] = <<>>]
    /\ UNCHANGED <<connected, timers, log, expired>>

(* The 'unsubscribe' handler.                                              *)
OnUnsubscribe(c, k) ==
    /\ c \in connected
    /\ Leave(c, {k})
    /\ UNCHANGED <<connected, backup, timers, log, got, fates>>

(* setTimeout for a batch that goes into the backlog of a channel.         *)
ArmNever(ch, batch) == timers               \* mutant

Arm(ch, batch) == Append(timers, [batch |-> batch, left |-> Keep])

(* DiagZillaWebServer.broadcast: to the members of the room, or into the   *)
(* backlog with a timer when there are none.  broadcastChannel is the case *)
(* of the info channel, which has no backlog.                              *)
Broadcast(ch) ==
    LET batch   == Len(log) + 1
        members == rooms[RoomOf(ch)]
    IN
    /\ Len(log) < MaxBatches
    /\ log' = Append(log, ch)
    /\ Emit(members, <<batch>>)
    /\ IF members = {} /\ ch # Info
       THEN /\ backup' = [backup EXCEPT ![ch] = Append(@, batch)]
            /\ timers' = Arm(ch, batch)
       ELSE UNCHANGED <<backup, timers>>
    /\ UNCHANGED <<membership, expired>>

(* The callback of setTimeout deletes what the channel has by now.         *)
Timeout ==
    LET ch == log[Head(timers).batch] IN
    /\ timers # <<>> /\ Head(timers).left = 0
    /\ timers' = Tail(timers)
    /\ backup' = [backup EXCEPT ![ch] = <<>>]
    /\ expired' = expired \cup ToSet(backup[ch])
    /\ UNCHANGED <<membership, log, got, delivered>>

(* A second passes.                                                        *)
Tick ==
    /\ \E i \in 1..Len(timers) : timers[i].left > 0
    /\ timers' = [i \in 1..Len(timers) |->
                    [batch |-> timers[i].batch,
                     left  |-> IF timers[i].left > 0 THEN timers[i].left - 1 ELSE 0]]
    /\ UNCHANGED <<membership, backup, log, got, fates>>

Next ==
    \/ \E c \in Clients : OnWsConnection(c) \/ OnDisconnect(c)
    \/ \E c \in Clients, k \in Keys : OnSubscribe(c, k) \/ OnUnsubscribe(c, k)
    \/ \E ch \in Channels : Broadcast(ch)
    \/ Timeout
    \/ Tick

Spec == Init /\ [][Next]_vars

(* Time passes and node runs the timers that are due.                      *)
FairSpec == Spec /\ WF_vars(Timeout) /\ WF_vars(Tick)

-----------------------------------------------------------------------------
(* The shape of the state.                                                 *)
TypeOK ==
    /\ rooms \in [Rooms -> SUBSET Clients]
    /\ roomClients \in [Clients -> SUBSET Rooms]
    /\ connected \in SUBSET Clients
    /\ backup \in [Channels -> Seq(Nat)]
    /\ timers \in Seq([batch : Nat, left : 0..Keep])
    /\ log \in Seq(Channels)
    /\ got \in [Clients -> Seq(Nat)]
    /\ delivered \in SUBSET Nat /\ expired \in SUBSET Nat

(* The members of a room are live sessions, and the two maps of socket.io  *)
(* agree: a session that is gone would make its room look occupied, and    *)
(* the server would emit to nobody instead of keeping a backlog.           *)
RoomsAreLive ==
    /\ \A c \in Clients, r \in Rooms : c \in rooms[r] <=> r \in roomClients[c]
    /\ \A r \in Rooms : rooms[r] \subseteq connected
    /\ rooms[Root] = connected /\ rooms[Info] = connected

(* A diag channel has a backlog only while nobody watches it: a viewer     *)
(* that subscribes never sees a new message before an older pending one.   *)
BacklogOnlyWhenEmpty ==
    \A k \in Keys : backup[k] # <<>> => rooms[k] = {}

(* Every pending batch has a timer of its own still to fire, so the        *)
(* backlog of an abandoned channel cannot stay for ever.                   *)
BacklogHasTimers ==
    \A ch \in Channels : \A b \in ToSet(backup[ch]) :
        \E i \in 1..Len(timers) : timers[i].batch = b

(* What is broadcast on a channel other than the info channel is in one    *)
(* place: emitted, waiting in the backlog of its channel, or expired.      *)
EachBatchOnce ==
    \A b \in 1..Len(log) : log[b] # Info =>
        LET waiting == b \in ToSet(backup[log[b]]) IN
        /\ waiting \/ b \in delivered \/ b \in expired
        /\ ~(waiting /\ b \in delivered \cup expired)
        /\ ~(b \in delivered /\ b \in expired)

(* A session receives the batches of a channel in the order of the         *)
(* broadcasts and none twice, also across the flush of a backlog.          *)
ReceivedInOrder ==
    \A c \in Clients : \A i, j \in 1..Len(got[c]) :
        (i < j /\ log[got[c][i]] = log[got[c][j]]) => got[c][i] < got[c][j]

(* To viewers the rooms, the memberships and the timers are a Backlog: a   *)
(* batch is emitted to a room or kept, and what is kept leaves as a whole, *)
(* to the viewer that subscribes or by a timeout, never both, and never    *)
(* after something newer.                                                  *)
Kept == INSTANCE Backlog WITH waiting <- backup

IsBacklog == Kept!Spec

(* Every backlog is flushed or expires.                                    *)
BacklogLeaves ==
    \A ch \in Channels : \A b \in Batches :
        b \in ToSet(backup[ch]) ~> b \notin ToSet(backup[ch])

(* "Keep this for 3 seconds" (DiagZillaWebServer.js:109): a batch expires  *)
(* only when its own timer is due.                                         *)
KeptThreeSeconds ==
    [][\A b \in expired' \ expired :
          \E i \in 1..Len(timers) : timers[i].batch = b /\ timers[i].left = 0]_vars
=============================================================================
