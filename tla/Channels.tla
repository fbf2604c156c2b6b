------------------------------ MODULE Channels ------------------------------
(***************************************************************************)
(* How a viewer comes to receive a channel: the registry's events, the     *)
(* wiring of DiagZillaServer.js ('request-channels'), the rooms of         *)
(* DiagZillaWebServer.js, the worker (WebSocket.js) with the connection of *)
(* socket.io's client, and on the page the channel dialog and the Play and *)
(* Stop buttons (WebClient.js).                                            *)
(*                                                                         *)
(* page and worker                          node                           *)
(*   rows, handler -- buffer -- up[s] -->   rooms[s]                       *)
(*                 <--------- down -------  listed                         *)
(*                                                                         *)
(* One viewer is modelled; all that the others can do to it is to have     *)
(* their reports broadcast.  Page and worker exchange their messages in    *)
(* order, as a connection does, so each direction is one queue.  A session *)
(* that was replaced stays known to the server, with what it sent still to *)
(* be served, until the server notices.  The flags that 'request-channels' *)
(* writes into the registry's objects are written anew for every listed    *)
(* channel before they are sent, so a report is a value.  Closing the      *)
(* dialog only hides it.                                                   *)
(***************************************************************************)
EXTENDS Naturals, Sequences, FiniteSets, SequencesExt

CONSTANTS
    Keys,         \* keys of diag channels
    MaxSessions,  \* connections made in a behaviour (bound of the model)
    MaxEvents,    \* events of the registry (bound of the model)
    MaxOthers,    \* questions of other viewers (bound of the model)
    MaxUser       \* what the user does in total (bound of the model)

ASSUME ChannelsAssumption ==
    /\ MaxSessions \in Nat /\ MaxEvents \in Nat
    /\ MaxOthers \in Nat /\ MaxUser \in Nat

VARIABLES
    listed,   \* the keys of Daemon.diagChannels.list
    open,     \* the sessions of the viewer that the server holds
    rooms,    \* session -> the diag channels it has joined
    up,       \* session -> what it has emitted and the server not yet handled
    cur,      \* the worker's session, 0 while it is not connected
    on,       \* the worker's socket is connected or trying to be
    buffer,   \* what was emitted while not connected
    down,     \* events on their way to the page
    handler,  \* worker.reportChannelsHandler is set
    rows,     \* the check boxes of the dialog
    asked,    \* how often the dialog has asked
    answered, \* the question and the session that the rows answer
    auto,     \* channels accepted since the dialog was opened
    said,     \* the page's last word on a channel, unless it may be lost
    announced,              \* channels announced to the session, not clicked since
    events, others, did     \* what the registry, other viewers, the user did

net    == <<open, rooms, up, cur, on, buffer>>
page   == <<handler, rows, asked, answered, auto>>
counts == <<events, others, did>>
vars   == <<listed, net, down, page, said, announced, counts>>

Sessions == 1..Len(up)

Ask(q)         == [op |-> "request-channels", nr |-> q]
Subscribe(k)   == [op |-> "subscribe", key |-> k]
Unsubscribe(k) == [op |-> "unsubscribe", key |-> k]
IsAsk(r)       == r.op = "request-channels"

Silent  == [k \in Keys |-> "nothing"]
Nothing == [nr |-> 0, from |-> 0]

(* The page plays from the start: its Play button is checked.              *)
Init ==
    /\ listed = {} /\ open = {} /\ rooms = <<>> /\ up = <<>>
    /\ cur = 0 /\ on = TRUE /\ buffer = <<>> /\ down = <<>>
    /\ handler = FALSE /\ rows = [k \in {} |-> FALSE]
    /\ asked = 0 /\ answered = Nothing /\ auto = {}
    /\ said = Silent /\ announced = {}
    /\ events = 0 /\ others = 0 /\ did = 0

-----------------------------------------------------------------------------
(* The server.                                                             *)

(* broadcastChannel: to the sessions in the info room.  Only what goes to  *)
(* the worker's present session can arrive.                                *)
Broadcast(e) == down' = IF cur = 0 THEN down ELSE Append(down, e)

(* DiagChannelInfo.register; a listed channel is announced again.          *)
Register(k) ==
    /\ events < MaxEvents /\ events' = events + 1
    /\ listed' = listed \cup {k}
    /\ Broadcast([evt |-> "new-channel", key |-> k])
    /\ announced' = announced \cup {k}
    /\ UNCHANGED <<net, page, said, others, did>>

(* DiagChannelInfo.unregister.                                             *)
Unregister(k) ==
    /\ events < MaxEvents /\ events' = events + 1
    /\ k \in listed
    /\ listed' = listed \ {k}
    /\ Broadcast([evt |-> "closed-channel", key |-> k])
    /\ UNCHANGED <<net, page, said, announced, others, did>>

(* The 'request-channels' handler: which of the listed channels the asker  *)
(* has joined, told to every viewer.                                       *)
ReportOfAll(s) ==           \* mutant: has anybody joined?
    [k \in listed |-> \E t \in open : k \in rooms[t]]

Report(s) == [k \in listed |-> k \in rooms[s]]

AnswerNonEmpty(s, q) ==     \* mutant: nothing to report, no report
    IF listed = {} THEN down' = down
    ELSE Broadcast([evt |-> "report-channels", nr |-> q, from |-> s, rows |-> Report(s)])

Answer(s, q) ==
    Broadcast([evt |-> "report-channels", nr |-> q, from |-> s, rows |-> Report(s)])

(* The same handler for another viewer, which may have joined anything.    *)
AnswerAnother ==
    /\ others < MaxOthers /\ others' = others + 1
    /\ \E joined \in SUBSET listed :
         Broadcast([evt |-> "report-channels", nr |-> 0, from |-> 0,
                    rows |-> [k \in listed |-> k \in joined]])
    /\ UNCHANGED <<listed, net, page, said, announced, events, did>>

(* The rooms of a session after a request: the handlers of onWsConnection. *)
After(joined, r) ==
    CASE r.op = "subscribe"   -> joined \cup {r.key}
      [] r.op = "unsubscribe" -> joined \ {r.key}
      [] OTHER                -> joined

Serve(s) ==
    /\ s \in open /\ up[s] # <<>>
    /\ up'    = [up EXCEPT ![s] = Tail(@)]
    /\ rooms' = [rooms EXCEPT ![s] = After(@, Head(up[s]))]
    /\ IF IsAsk(Head(up[s])) THEN Answer(s, Head(up[s]).nr) ELSE down' = down
    /\ UNCHANGED <<listed, open, cur, on, buffer, page, said, announced, counts>>

(* The server notices that a session is gone: Manager.onDisconnect.        *)
NoticeKeepsRooms(s) ==      \* mutant: leaves the info room only
    /\ s \in open \ {cur}
    /\ open'  = open \ {s}
    /\ up'    = [up EXCEPT ![s] = <<>>]
    /\ UNCHANGED <<listed, rooms, cur, on, buffer, down, page, said, announced, counts>>

Notice(s) ==
    /\ s \in open \ {cur}
    /\ open'  = open \ {s}
    /\ rooms' = [rooms EXCEPT ![s] = {}]
    /\ up'    = [up EXCEPT ![s] = <<>>]
    /\ UNCHANGED <<listed, cur, on, buffer, down, page, said, announced, counts>>

-----------------------------------------------------------------------------
(* The connection of the worker.                                           *)

FlushNothing == <<>>        \* mutant

(* What was emitted while there was no connection goes first.              *)
Flush == buffer

Connect ==
    /\ on /\ cur = 0 /\ Len(up) < MaxSessions
    /\ cur'   = Len(up) + 1
    /\ open'  = open \cup {cur'}
    /\ rooms' = Append(rooms, {})
    /\ up'    = Append(up, Flush)
    /\ buffer' = <<>>
    /\ announced' = {}
    /\ UNCHANGED <<listed, on, down, page, said, counts>>

(* The worker loses its session: events that it had not received are lost, *)
(* and some of what it emitted may be.                                     *)
Lose ==
    /\ cur # 0 /\ cur' = 0
    /\ \E n \in 0..Len(down) : down' = SubSeq(down, 1, n)
    /\ said' = Silent
    /\ UNCHANGED <<open, rooms, up, buffer>>

(* The link breaks, and socket.io's client starts to reconnect.            *)
Drop == Lose /\ UNCHANGED <<listed, on, page, announced, counts>>

(* It fails to connect, or gives up reconnecting.                          *)
GiveUp ==
    /\ on /\ cur = 0 /\ on' = FALSE
    /\ UNCHANGED <<listed, open, rooms, up, cur, buffer, down, page, said, announced, counts>>

(* The Play button, dzSocket.connect.  On a socket that is connected or    *)
(* trying to be it throws in the worker, and changes nothing.              *)
Play ==
    /\ did < MaxUser /\ did' = did + 1
    /\ ~on /\ on' = TRUE
    /\ UNCHANGED <<listed, open, rooms, up, cur, buffer, down, page, said, announced>>
    /\ UNCHANGED <<events, others>>

(* The Stop button, dzSocket.disconnect: socket.io's client disconnects a  *)
(* connected socket, and does not always stop one that is trying to be.    *)
Stop ==
    /\ did < MaxUser /\ did' = did + 1
    /\ \/ Lose /\ on' = FALSE
       \/ /\ cur = 0 /\ on /\ on' \in BOOLEAN
          /\ UNCHANGED <<open, rooms, up, cur, buffer, down, said>>
    /\ UNCHANGED <<listed, page, announced, events, others>>

-----------------------------------------------------------------------------
(* The page.                                                               *)

(* dzSocket emits requests: at once, or when it is connected again.        *)
Emit(rs) ==
    /\ IF cur # 0
       THEN up' = [up EXCEPT ![cur] = @ \o rs] /\ buffer' = buffer
       ELSE buffer' = buffer \o rs /\ up' = up
    /\ said' = [k \in Keys |-> CASE Subscribe(k) \in ToSet(rs)   -> "subscribe"
                                 [] Unsubscribe(k) \in ToSet(rs) -> "unsubscribe"
                                 [] OTHER                        -> said[k]]
    /\ UNCHANGED <<open, rooms, cur, on>>

(* The dialog is opened, perhaps after it was closed: the table is emptied *)
(* and getChannels sets the handler and asks.                              *)
OpenDialog ==
    /\ did < MaxUser /\ did' = did + 1
    /\ rows' = [k \in {} |-> FALSE]
    /\ asked' = asked + 1 /\ answered' = Nothing /\ auto' = {}
    /\ handler' = TRUE
    /\ Emit(<<Ask(asked')>>)
    /\ UNCHANGED <<listed, down, announced, events, others>>

(* A check box of the dialog is clicked.                                   *)
Click(k) ==
    /\ did < MaxUser /\ did' = did + 1
    /\ k \in DOMAIN rows
    /\ rows' = [rows EXCEPT ![k] = ~@]
    /\ Emit(<<IF rows[k] THEN Unsubscribe(k) ELSE Subscribe(k)>>)
    /\ announced' = announced \ {k}
    /\ auto' = auto \ {k}
    /\ UNCHANGED <<listed, down, handler, asked, answered, events, others>>

(* What the page asks for on an event: onWorkerMessage subscribes to a new *)
(* channel.  The worker passes 'closed-channel' on under another name,     *)
(* which the page does not know.                                           *)
ReplyWhenIdle(e) ==         \* mutant: not while a report is awaited
    IF e.evt = "new-channel" /\ ~handler THEN <<Subscribe(e.key)>> ELSE <<>>

Reply(e) == IF e.evt = "new-channel" THEN <<Subscribe(e.key)>> ELSE <<>>

(* onWorkerMessage.  A report goes to the handler, which is used once and  *)
(* fills the table.                                                        *)
OnWorkerMessage ==
    LET e == Head(down)
        Fill == e.evt = "report-channels" /\ handler
    IN
    /\ down # <<>> /\ down' = Tail(down)
    /\ IF Fill
       THEN rows' = e.rows /\ answered' = [nr |-> e.nr, from |-> e.from] /\ handler' = FALSE
       ELSE UNCHANGED <<rows, answered, handler>>
    /\ Emit(Reply(e))
    /\ auto' = IF e.evt = "new-channel" THEN auto \cup {e.key} ELSE auto
    /\ UNCHANGED <<listed, asked, announced, counts>>

Next ==
    \/ \E k \in Keys : Register(k) \/ Unregister(k) \/ Click(k)
    \/ AnswerAnother
    \/ \E s \in Sessions : Serve(s) \/ Notice(s)
    \/ Connect \/ Drop \/ GiveUp
    \/ Play \/ Stop
    \/ OpenDialog \/ OnWorkerMessage

Spec == Init /\ [][Next]_vars

(* Node serves what it has received and the page handles what it is sent.  *)
(* The network, the user and the processes owe nothing.                    *)
FairSpec ==
    /\ Spec
    /\ \A s \in 1..MaxSessions : WF_vars(s \in Sessions /\ Serve(s))
    /\ WF_vars(OnWorkerMessage)

-----------------------------------------------------------------------------
(* What the rooms of the viewer will be once the server has served it.     *)
Served(joined, rs) ==
    LET after[i \in 0..Len(rs)] ==
            IF i = 0 THEN joined ELSE After(after[i - 1], rs[i])
    IN  after[Len(rs)]

Coming == Served(rooms[cur], up[cur])

(* The shape of the state; a session the server has given up is in no room.*)
TypeOK ==
    /\ listed \in SUBSET Keys /\ open \in SUBSET Sessions
    /\ Len(rooms) = Len(up) /\ cur \in open \cup {0}
    /\ \A s \in Sessions : rooms[s] \in SUBSET Keys
    /\ \A s \in Sessions \ open : rooms[s] = {} /\ up[s] = <<>>
    /\ on \in BOOLEAN /\ (cur # 0 => on) /\ (buffer # <<>> => cur = 0)
    /\ handler \in BOOLEAN /\ DOMAIN rows \subseteq Keys
    /\ asked \in 0..did /\ said \in [Keys -> {"nothing", "subscribe", "unsubscribe"}]
    /\ auto \in SUBSET Keys /\ announced \in SUBSET Keys

(* Every channel announced while the viewer is connected is accepted       *)
(* (WebClient.js:345), unless the user has clicked it since: once the page *)
(* has seen all that was sent, the session is in the room or about to be.  *)
(* After a reconnect this starts again from nothing.                       *)
Accepted ==
    cur # 0 /\ down = <<>> => announced \subseteq Coming

(* What the page said last about a channel is what the server will do,     *)
(* also when it was said while there was no connection; only a word given  *)
(* to a session that is gone may be lost.                                  *)
LastWordCounts ==
    cur # 0 => \A k \in Keys :
        /\ said[k] = "subscribe"   => k \in Coming
        /\ said[k] = "unsubscribe" => k \notin Coming

(* A check box tells the truth about the room, whatever is under way: if   *)
(* the report is the answer to the question of this opening of the dialog, *)
(* on this connection, and the channel has not been accepted by itself     *)
(* since.  The page takes any report that comes: the answer to another     *)
(* viewer, or to a question of its own from before the dialog was closed,  *)
(* may fill the table with what is not true, which the condition excludes. *)
DialogIsTrue ==
    (cur # 0 /\ answered = [nr |-> asked, from |-> cur]) =>
        \A k \in DOMAIN rows \ auto : rows[k] <=> k \in Coming

(* A dialog that waits for a report gets one, while the connection lasts   *)
(* on which it asked.                                                      *)
Answered ==
    \A s \in 1..MaxSessions :
        (handler /\ cur = s /\ \E i \in 1..Len(up[cur]) : IsAsk(up[cur][i]))
            ~> (~handler \/ cur # s)
=============================================================================
