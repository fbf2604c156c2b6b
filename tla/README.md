# A TLA+ model of DiagZilla

DiagZilla collects log messages of running programs and shows them in a browser.
This directory holds TLA+ specifications of its own code, the TLC configurations
that check them and the proofs that TLAPS checks. All paths below are relative to
the repository.

## The system

```
 traced process            server (one node process)                     browser
 +-------------+  TCP   +---------------------------------+  socket.io  +-------------------+
 | Library/    |------->| daemon/daemon.js                |             | WebSocket.js      |
 | logger.cc   | frames |  messageQueue.js   channel.js   |             |  (web worker)     |
 |             |        |     | channel-msg     | channel-info          |   | postMessage   |
 +-------------+        |  DiagZillaServer.js             |             | WebClient.js      |
                        |  DiagZillaWebServer.js (rooms)--|------------>|  buffer, timers,  |
                        +---------------------------------+             |  view             |
                                                                        +-------------------+
```

### Inventory

| Component | State it keeps | Operations | What is hard | What makes it correct |
|---|---|---|---|---|
| Log library (`Library/logger.cc`, `diagzilla.cc`) | the socket `dzSocket`, the disposition of SIGPIPE, one string stream and format flags per log channel | connect and register, send a frame, disconnect, format, dump, record a position | threads share the socket and the streams without a lock; writes fail or are short; the state of a stream survives a message | a frame on the wire is one header and its payload; the registration is first; a message is formatted as its format says |
| Log collector (`Server/daemon/daemon.js`, `messageQueue.js`) | per socket: `targetInfo`, `lastObjstr`; one queue for all sockets | `onConnection`, `onClientData`, `onClientEnd`, `onClientClose`, `push`, `post` | chunks cut frames anywhere; 'end' and 'close' are two events; sockets share the queue; an exception ends the process | each message that was sent is posted once, in order, under the key of its own process |
| Diag channel registry (`channel.js`) | `list`: key to `targetInfo` | `register`, `unregister`, `isRegistered` | two connections with one key, late 'close', unregistered sockets | the list is the registered processes that are connected; events agree with it |
| Wiring (`DiagZillaServer.js`) | none (it writes `subscribed` into the registry's objects) | forwards events, answers `request-channels` | one viewer's answer goes to all | the answer describes the channels and the viewer that asked |
| Web server (`DiagZillaWebServer.js`) | rooms (in socket.io), `emptyChannelBackup`, timers | connect, disconnect, subscribe, unsubscribe, broadcast, timeout | timers outlive what they were set for; viewers come and go while a backlog exists | a batch is emitted, waits or expires, exactly one of these, and in order |
| Worker (`WebClient/WebSocket.js`) | connection, filters | connect, disconnect, forward events, filter and render | reconnection, event names, answers to someone else | requests arrive in order or are known to be lost; the page is told what the server says |
| Viewer's messages (`WebClient/WebClient.js`) | `buffer`, `counter`, `paused`, three timers, selection, types, Follow, scroll position, rows on screen | new messages, pause, resume, clear, delete selected, select, switch a type, scroll, resize | timers and scroll events race arrivals, pauses and clears; overflow; the table's position is that of the last scroll event | the buffer holds the newest messages, the counters are true, the screen catches up |
| Viewer's channel dialog (`WebClient/WebClient.js`) | check boxes, `reportChannelsHandler` | open, click, Play, Stop, accept new channels | reports asked for by others or earlier, clicks on the way, reconnection | a check box tells the truth; what the user said last counts |
| Static files, samples, build, start script, bundled node/npm/socket.io/jQuery | - | - | - | not modelled: pure I/O, or third-party |

The hazards that follow from this, each with its line and the properties that guard
it, are in `PROJECT.json` under `hazards`.

## Modules

| Module | Models | Checked by | Proved in |
|---|---|---|---|
| `Daemon` | `daemon.js`, `channel.js`, `messageQueue.js` with several sockets, at the level of frames | `MCDaemon` | `DaemonProofs`, `RelayProofs` |
| `Relay` | what `Daemon` promises: a list of channels and a stream of events | `MCDaemon` (`IsRelay`) | `RelayProofs` |
| `FrameReader` | the byte stream of one socket in `Daemon.onClientData` | `MCFrameReader` | `FrameReaderProofs` |
| `WebServer` | `DiagZillaWebServer.js` and the socket.io rooms under it | `MCWebServer` | `WebServerProofs` |
| `Backlog` | what `WebServer` promises: each batch is received, waits or expires | `MCWebServer` (`IsBacklog`) | `WebServerProofs` |
| `Channels` | the registry's events, `DiagZillaServer.js`, the rooms of a viewer, the worker and its connection, the channel dialog of the page | `MCChannels` | `ChannelsProofs` |
| `MessageBuffer` | `DZMessageViewer.Buffer`, the layout timers and the view of `WebClient.js` | `MCMessageBuffer` | `MessageBufferProofs` |
| `LogClient` | the connection of the library, `connectServer`, `sendServer` and `disconnectServer` of `logger.cc`, with the threads that share it | `MCLogClient` | `LogClientProofs` |
| `LogText` | how the library composes a message: format tokens, stack list, JSON text, hex dump | `MCLogText` | `LogTextProofs` |

Along the path of a message: `LogText` composes the payload that `LogClient` sends;
the stream it sends is the environment of `FrameReader` and, frame by frame, of `Daemon`;
the events in `Daemon!out` are what `WebServer!Broadcast` and the events of `Channels`
stand for; and what a viewer gets is what arrives at `MessageBuffer`. `Relay` and
`Backlog` state what two of these stages promise each other.

JavaScript runs a handler to its end, so each handler of the server and of the page is
one action. Peers, the network, timers and users act between handlers in any order. An
exception that nothing catches ends node; it is the value `FALSE` of `alive`, after which
no action is enabled.

### Daemon

A connection is `idle`, `open`, then `ended` ('end' has been emitted) or `reset`
(ECONNRESET: node's net.js destroys the socket and emits only 'close'), then `closed`.
`sent[c]` is what the process wrote, frame by frame, and `read[c]` how many of these
`onClientData` has seen; a message is named by its connection and position. `list`
corresponds to `diagChannels.list` and holds the connection in place of its `targetInfo`;
`key[c]` is `targetInfo.key`, `NoKey` standing for `undefined`. `queue` is the queue all
sockets share. `out` is the history of emitted events. `OnClientData(c, n)` takes any
number of whole frames at once, pushes each until one makes `JSON.parse` throw, and posts
what is in the queue. A process may write a log message before its registration and may
register twice: the library has no lock, and a registration whose write fails is
forgotten. Two connections may belong to one process for the same reason.

What holds: the list never contains a process that is gone (`NoGhostChannel`); a
registered, open connection is missing from it only because another connection of the
same process ended or closed (`MissingOnlyAfterSamePid`, the exact extent of the damage
that a late 'close' or a duplicate registration does); each message is posted under its own
key or, if it came before the registration, under none (`NoCrossTalk`), once, in order and
as soon as it is read (`PostedOnce`). An open connection is served in the end (`Drained`)
and its channel withdrawn (`Retired`).

`Daemon` implements `Relay` (`IsRelay`): with `listed` the keys whose entry in `list` is
not `None`, every step is a stutter, the close of a listed channel, or a chunk, which
emits some announcements and then, in one batch, whatever had been read and not yet been
emitted. Sockets, frames, the queue and the connections behind a key do not show. So a
viewer that follows the events knows the list, and a channel is announced before its
messages come.

What does not hold: the end of a socket that never registered ends the server
(`EndNeverFatal`, finding 1).

### FrameReader

The stream is a sequence of frames, a byte is its offset, and chunks end anywhere.
A buffer is the place it was filled from, its length and how much of it was filled; it is
a frame if these are the payload of one. Reading four bytes that are no header gives any
value of `Garbage`: one that stays inside a chunk, one that crosses its end, one longer
than node's largest Buffer (text read as a length is usually that large). A buffer that is
no frame may be refused, throw, or pass as a message, because its tail is uninitialised
memory. The loop is a recursive function over the offsets of a chunk.

What holds: as long as no boundary falls inside a header and at most one in each payload,
the reader hands over exactly the frames received, in order, and does not throw
(`CleanStreamIsRead`, of which `LastIsFront` is the part about the buffer it keeps); and even after it
has lost its place it never hands over a frame twice or goes back (`NeverBackwards`).

What does not hold: a frame in three chunks is lost (`RestoreCompletes`, finding 2).

### WebServer

`rooms` and `roomClients` are the two maps of socket.io's manager, `backup` is
`emptyChannelBackup` (an empty sequence is an absent entry: the code creates an entry
only to push to it), `timers` the pending timeouts. The room of `undefined` is the root
room that every session joins (namespace.js leaves the name out), so a batch without key
goes to every viewer. Batches are numbered in the order of the broadcasts; `got`,
`delivered` and `expired` are histories.

What holds: rooms contain exactly live sessions (`RoomsAreLive`); a channel has a backlog
only while nobody is in its room and each batch in it has its own timer
(`BacklogOnlyWhenEmpty` and `BacklogHasTimers`, which are proved and not repeated in the
run); every batch is in exactly one place (`EachBatchOnce`);
sessions receive each channel in order and without repetition (`ReceivedInOrder`).
Backlogs leave in the end (`BacklogLeaves`).

`WebServer` implements `Backlog` (`IsBacklog`), with `waiting` as `backup`: connecting is
`Connect`, a subscription is a `Flush` to some sessions, a broadcast is `PublishLive` or
`PublishLater`, a timeout is `Expire`, and memberships, disconnects and the clock do not
show. `Backlog` lets a batch be received at once only if nothing older waits for its
channel, and lets what waits leave only as a whole.

What does not hold: a batch is not always kept for three seconds (`KeptThreeSeconds`,
finding 3).

### Channels

One viewer, seen from the page to the registry. `up[s]` and `down` are the two directions
of the connection, in order; page and worker are joined into one queue, since both keep
the order. `cur` is the worker's session and `on` says that its socket is connected or
trying to be, so `on` without `cur` is connecting or reconnecting; `buffer` is what
socket.io's client keeps while there is no connection. `open` are the sessions the server
still holds: after a reconnect the old one stays, with its rooms and with what it had sent,
until `Notice`. `Serve` handles one request: `subscribe` and `unsubscribe` change `rooms`,
`request-channels` broadcasts a report about the asker to every viewer
(`DiagZillaServer.js`). `AnswerAnother` is the same for some other viewer, about which
nothing is known. On the page `handler` says that a report is awaited, `rows` are the check
boxes; `new-channel` is answered by a subscription, and `closed-channel` by nothing,
because the worker posts it as `closed-channels` and the page waits for `closed-channel`.
`said`, `announced`, `auto`, `asked` and `answered` are histories for the properties.

What holds: once the page has seen all that was sent to it, the session is in, or about to
be in, the room of every channel announced since it connected and not clicked since
(`Accepted`); what the page said last about a channel is what the server will do, also
when it was said without a connection (`LastWordCounts`); a check box tells what the
rooms of the viewer will be once all requests have been served (`DialogIsTrue`), and a
dialog that waits is answered while its connection lasts (`Answered`).

The conditions of these say where the code does less. A request may be lost with its
session. After a reconnect nothing subscribes again, so `Accepted` starts from nothing.
The table may be filled by the report for another viewer, or by the late answer to a
question from before the dialog was closed and opened again, whose flags are older than
the clicks in between; and a channel that is accepted while the dialog is open keeps its
empty box. Stop may have no effect on a socket that is still connecting.

### MessageBuffer

Messages are numbered as they arrive from the worker. `msgTimer`, `viewTimer` and
`sizeTimer` are pending `setTimeout`s; setting one that is pending cancels it first, so a
Boolean is enough. A batch may be empty, because the worker posts what its filters leave.

The view is geometry: `total` is the height of the padding, `RowHeight` for each message
laid out, `height` that of the container, `scrollTop` where the container is scrolled.
The browser clamps `scrollTop` at once and reports any change by a scroll event that comes
later (`scrolled`, handled by `OnScroll`); `top`, the position of the table, is therefore
that of the last event, not of the container. `Rows` is what `updateMessageView` draws:
from the row that the share `top / total` is rounded to, the viewable messages, as many as
fit. Two peculiarities are in it as they are in the code: the row count is a fraction
unless the height is a whole number of rows, and then no limit; and a selected row is
viewable whatever its type, since its class no longer ends in the type. `shown` is what
the table holds. `UpdateLayout` has three outcomes: it draws, it jumps to the end and
leaves the drawing to the scroll event (or draws itself when the jump moves nothing), or,
without Follow, it draws nothing. `stale`, `quiet` and `moved` are histories that say
which of these exceptions has happened since the last drawing.

What holds: true counters (`CountersAreTrue`); the newest messages survive, and no more
than the limit (`KeepsNewest`), provided a batch is not larger than the whole buffer
(40000 rows; a batch comes from one chunk); the screen is up to date or about to be
(`ScreenIsPending`): the padding fits the buffer unless a timer is pending or a batch came
in during a pause (`LayoutIsPending`), and the table holds the rows it should, with the
exceptions just named (`ViewIsPending`); and with Follow, when nothing is
pending, the view is at the end and shows the newest message (`FollowsNewest`).

What the exceptions stand for in the code: `resume` lays nothing out, so a pause hides
what came in until the next batch; without Follow, deleting rows, switching a type or a
resize leaves the old rows on the screen until someone scrolls; a plain click takes the
selection from the drawn rows only, so rows selected elsewhere are still deleted with the
others. `throw new Error("New Message is empty.")` (`WebClient.js:857`) is reached
whenever the buffer is empty at the second timer (after a clear, or when the filters
emptied the first batch); it costs no drawing, as `ViewIsPending` shows. The end of
a mouse selection resumes also a buffer that the Pause button holds (`WebClient.js:1046`).

### LogClient

Here nothing runs to its end: one action is one system call, or one access to `dzSocket`,
of one thread. `pc[t]` says what comes next and `stack[t]` which `sendServer` calls the
thread is in, since `connectServer` calls `sendServer` for the registration and that may
call `connectServer` again. `connectServer` returns `true` after a connect whatever became
of the registration, so a `sendServer` whose inner call has returned always goes on to its
header. `owner` is the descriptor table: the host opens and closes descriptors and may get
the number of a closed socket. `conns` is what the server has received: a header, a
payload, or a payload cut by a short write. A failing send raises SIGPIPE only for EPIPE,
that is on an unconnected or broken socket; the kernel may also swallow what is sent to a
server that has just gone. So after a failed registration, when `dzSocket` is 0 again, the
sends go to the standard input of the host, and what they do depends on what that is: a
file refuses them, a socket takes them, a socket whose peer has gone raises SIGPIPE
(`HostDescriptor`). `sigpipe` is `DFL` or `IGN` as the library has set it, `hostDFL` or
`hostOther` (ignored or caught) as the host has; the host may set it at any time
(`HostSignal`). The constructors of the log channels are no action: inside the
class, `init()` is the member that sets `boolalpha`, and only the library's constructor
(`diagzilla.cc`) calls the `init` that connects.

What holds for two threads too: an undisturbed message arrives
(`UndisturbedArrive`), payloads arrive once and in the order of their thread
(`ArriveInOrder`, over connections in the order in which they were accepted; a server that
reads two connections of a process may mix them), a call returns (`CallsReturn`, given that
a send that has to wait is not left waiting for ever). With one thread also:

- frames are whole up to a short write and the registration is first and only once
  (`FramedStream`, made of `WellFramed` and `RegisteredFirst`);
- a server that goes away does not kill the host. SIGPIPE can kill it in two cases only
  (`HostSurvives`): the host has set the default itself since the library connected, or a
  registration has failed and the send that follows meets a broken socket as standard input;
- between calls SIGPIPE is not left ignored without a connection, nor at the library's
  default with one (`SignalFollowsSocket`). The host's disposition is not remembered:
  `logger.cc:136` sets `SIG_DFL` over whatever the host had;
- no descriptor leaks (`NoLeak`). The library connects and closes its own only, and sends to
  its own or to descriptor 0, which gets only what a failed registration has given up
  (`OnlyOwnDescriptors`);
- `sendServer` and `connectServer` nest once (`NestsOnce`).

What the model leaves out: a thread preempted between reading `dzSocket` and entering
the system call, which adds nothing for one thread; `fork`, after which two processes
share the socket; `setsockopt` and `connect` on descriptor 0, which only a second thread can
bring about; the log file.

### LogText

A log channel is one string stream, so its state outlives a message: `stream` holds the
width, fill, precision, side and error bit. A token is a record of its parts (flags, width,
precision, length modifier, conversion), which the grammar of `vprintf` has separated; an
argument is the class of `va_list` slot that holds it on x86-64. `Token` is one turn of
the loop of `vprintf` with `handleFmtToken`; `skew` counts the slots read more or less
than C's printf would read. `SetPosition` sets `position`, the depth and the list of the stack that the channel keeps:
the depth is a `size_t` less the three innermost frames, one loop lists the first five
with their symbols, if the channel is the trace and `backtrace_symbols` has found memory
(`found`), a second loop the others without. `Flush` makes the JSON text; its symbol is one
row, chosen apart from the list. `Dump` sets the position too and makes the lines of a hex
dump. `made` is what the last operation composed.

What holds, after any sequence of messages: every conversion finds its own argument
(`ArgumentsInStep`); an ordinary token has the width and side that C gives it, so a width
is used up by its conversion (`LayoutAsC`); the stack list agrees with the depth beside it,
from which the worker numbers its rows (`WebSocket.js:169`): as many entries, the frames from
the fourth on, once and in order, none of an earlier message, and symbols for none or for
the first five (`StackAgrees`); what the server parses is what was logged (`FrameIsRead`); a
dump shows each byte once in each half, in aligned columns (`DumpIsComplete`).

The properties name the exceptions. `%m`, an integer with `L` and a position as a width
take other arguments than in C. A zero fill and a precision stay in the stream and show in
later tokens and messages; the code cannot tell a precision of 1 from none. A null pointer
for `%s` makes the stream bad: the rest of the message is dropped and its width goes to
the next one. With fewer than three frames the depth wraps around, and the list with it; and
in a program that logs through the macros for C++, which call two functions of the library and
not three, the third frame skipped is the one that logs. Symbols go
into the frame unescaped, and a control character without a name makes it no JSON.

Left out: the digits of a value, the cut of `ll` and `j` to int, and two threads that use
one channel at once (the stream has no lock, which is a data race).

## Runs and bounds

| Run | Bounds | Why they are enough |
|---|---|---|
| `daemon_relay` | 2 connections, 2 processes, 3 frames each, also one that is not JSON | two sockets suffice for cross-talk and for two owners of one key; three frames allow log, registration, log, in one chunk or several |
| `daemon_live` | 2 connections of 1 process, 2 frames | one connection can take the entry of the other |
| `daemon_end` | 2 connections, 1 frame | violation |
| `reader_clean` | 4 frames of 2 or 3 bytes, all cuts | a chunk can hold a front, whole frames and another front; after a tear two more frames can be found again |
| `reader_torn` | 2 frames | violation |
| `web_rooms` | 2 viewers, 1 named channel and the unnamed one, 3 batches, delay 2 | a backlog of two, a flush between its timers, a second backlog under the first's timer, and another channel that must not be touched |
| `web_keep` | 1 viewer, 1 channel, 2 batches, delay 3 | violation, with the delay of the code |
| `channels` | 1 channel, 2 sessions, 2 events of the registry, 1 question of another viewer, 2 acts of the user | a channel comes, goes or is announced again, across a reconnection whose old session is still served, while the dialog is opened twice, or opened and clicked |
| `buffer_safety` | limit 3, batches of up to 2, 5 messages, rows of 3, containers of 5 and 6, 3 acts of the user | overflow by one and by two; containers with and without a fraction of a row; a clear, a selection and a scroll can be combined |
| `client_single` | 1 thread, 3 calls, 2 descriptors, 3 connections, 2 stops, 1 connection with a short write; the host sets SIGPIPE at any time | registration lost and repeated on three connections; the host can take both descriptors; every outcome of a send on descriptor 0 |
| `client_threads` | 2 threads, 2 calls, 2 connections | each thread can be caught between any two steps of the other, connects again because the other has disconnected, or logs twice; failing calls stand for a server that stops |
| `text` | 600 tokens, two in a message, texts of up to two characters, stacks of 2, 5 and 9 frames in a `size_t` of 16 values, dumps of 0, 1, 16, 17 and 33 bytes, any number of messages | any token after any other in one message or the next; every character beside every other; a depth that wraps around, one that ends the first loop and one beyond it, any after any other, with and without symbols; dumps of no line to three, the last one short or full |

Bounds in guards: `MaxFrames` (frames per connection or stream), `MaxBatches`,
`MaxArrivals` and `MaxUser` of `MessageBuffer`, `MaxSessions`, `MaxEvents`, `MaxOthers` and
`MaxUser` of `Channels`, `MaxTokens` of `LogText`, and `MaxLogs`, `MaxHost`, `MaxConns`,
`MaxShort`, `MaxStops` of `LogClient`. Deadlock checking is off where every connection closes or the process dies
(`Daemon`), where the stream ends (`FrameReader`), where user, processes and network may
all stop (`channels`), and where SIGPIPE can make the process die (`client_single`,
`client_threads`); it is on for the others.
Symmetry is used in safety runs only.

Each property of a passing run has a mutant: an operator marked `mutant` in the module,
which in place of the definition after it makes the run fail. They show that the
property depends on that code.

### Fairness

`Daemon!FairSpec` has weak fairness of `Loop(c)`, the handlers of one socket: libuv
polls all sockets and serves each that is ready. Nothing is assumed of peers. `WebServer!
FairSpec` has weak fairness of the clock and of a timer that is due; viewers and
broadcasts owe nothing. `LogClient!FairSpec` has weak fairness of each thread inside the
library: system calls return. Nothing is assumed of the host and the server. `Channels!
FairSpec` has weak fairness of `Serve` for each session, since node handles what it has
received, and of `OnWorkerMessage`, since the browser delivers what was posted; nothing is
assumed of network, user and processes. `MessageBuffer` and `LogText` have no liveness
property: arrivals may put the layout off for ever, each sets the timer anew.

## Proofs

Each component has a module of theorems that TLAPS checks for every value of the constants
that satisfies the component's assumption. Nothing else is assumed unless it is said here.
Each proof has the same form: an inductive invariant, which holds at first and is kept by
every action (one lemma, or one step, per action), and the properties as consequences.
Data that the model builds with a recursive function or a fold (`Loop`, `Filtered`,
`Served`, `Lines`, `Read`) is reasoned about without an induction rule: if the statement fails for some length, take the
least (`LeastNat`, from the well-foundedness of the naturals); it fails below, too.

**`DaemonProofs`**, for any connections, processes and frames (`None` is no connection,
`NoKey` no process): `TypeOK`, `NoGhostChannel`, `MissingOnlyAfterSamePid`. The last two are
not inductive: that a registration lists a process under its own key needs that the key of
a connection is `NoKey` or that of its peer, and that an accepted connection has a peer
(`PeerKnown`). `IInv` is the conjunction. `DataStep` and `EndStep` say what the handlers do
to connections, keys and list.

**`RelayProofs`**, with the same constants: `NoCrossTalk`, `PostedOnce`, and that `Daemon`
implements `Relay` (`ImplementsRelay`). The shared queue is the point: it is empty whenever
no handler runs (`QueueEmpty`), so what is posted is what the chunk has brought. A
connection has a key from its first registration on (`KeyIsRead`), and a key has been
announced (`KeyIsAnnounced`). `RInv` adds these to `IInv`; a chunk is described by the sets
of frames it parses, and the refinement maps it to the announcements and the one batch that
these sets give.

**`FrameReaderProofs`**, for any payload lengths up to the largest Buffer, any stream, any
cuts, any garbage and any outcome of a push (`None` is no buffer): `TypeOK`,
`NeverBackwards`, `CleanStreamIsRead`. `ReaderInv` keeps places in order: what was handed
over lies before the buffer that is kept (`Before`), the buffer ends where the chunks have
come to (`Kept`), the frames lie one after the other (`Layout`). `CleanInv` says where a
clean reader is: `c` frames have been handed over and the next is in progress or starts
here. What one run of the loop does to these (`GoodRun`, `CleanRun`) is shown from the end
of the chunk backwards (`LoopInduction`).

**`WebServerProofs`**, for any sessions, channels, delay and broadcasts: `TypeOK`,
`RoomsAreLive`, `BacklogOnlyWhenEmpty`, `BacklogHasTimers`, `EachBatchOnce`,
`ReceivedInOrder`, and that the web server implements `Backlog` (`ImplementsBacklog`). The
invariants about batches need to know where the number of a batch can turn up: `Traced`
says that what waits under a channel was broadcast on it, and that timers and histories name
broadcasts only. Without it a timer could fire for the batch of another channel. The order
needs more: what waits is in order and newer than anything of its channel that a session
has received. `SubscribeFacts`, `BroadcastFacts` and `TimeoutFacts` say in terms of sets
what the three actions do that change the fate of a batch, and `IdleSteps` that the others
do nothing. `BacklogOnlyWhenEmpty` is what allows a broadcast to be received at once.

**`LogClientProofs`**, for any descriptors, calls, connections and failures. With any number
of threads: `TypeOK`, `UndisturbedArrive`, and `ArriveInOrder` in a process that keeps its
standard input open (`0 \notin Fds`). They follow from `CInv`: of the calls a thread is in
only the outermost sends a log message, its latest; the others are registrations. The
hypothesis is needed: with two threads and 0 among the descriptors `dzSocket` may be 0 and
connected (`logger.cc:113`), and TLC finds a violation. With
one thread and standard input open (`OneThread`): `HostSurvives`, `SignalFollowsSocket` and
`NoLeak`, proved together as `SInv`, for each needs to know where in
the code `dzSocket` is set (`SocketAtLabel`), whose descriptor it is (`SocketIsOurs`) and
what SIGPIPE does there (`SignalAtLabel`). Nothing is assumed of descriptor 0: that `dzSocket`
is 0 at a send and SIGPIPE at the library's default is the second case of `HostSurvives`.
Then `FramedStream`, `NestsOnce` and `OnlyOwnDescriptors`, from `FInv`, which says how
far the present connection has come at each label, and that whoever sends to descriptor 0
has seen a failure (`ZeroIsDisturbed`). With a second thread these six are
not claimed; `PROJECT.json` says at `logger.cc:113` and `:136` what it can do.

**`MessageBufferProofs`**, for any limit, batches, rows, containers, messages and doings of
the user: `TypeOK`, `CountersAreTrue`, `KeepsNewest`, `ScreenIsPending`, and `FollowsNewest`
for containers of more than half a row (in a lower one `Math.round` of `updateMessageView`
goes past the last row). A batch is no larger than the limit, as the model has it. Three
invariants, each above the one before: `BInv` about the buffer and the counters, `SInv` adds
that whatever is due has something pending that will do it, `FInv` that the table is where
the container is scrolled to once no event is on its way.

**`ChannelsProofs`**, for any channels, sessions, events, other viewers and doings of the
user: `TypeOK`, `Accepted`, `LastWordCounts`, `DialogIsTrue`. The argument is about `Future`:
the rooms of the viewer once the server has served what is on its way or, without a
connection, what the next one will make of it. Serving leaves it alone, an emission changes
it at once, a reconnection carries it over. `CInv` says of the two queues what the dialog
needs: while it waits for a report, nothing but the page's own subscriptions follows the
question, and the reports that answer it and are on their way are true already.

**`LogTextProofs`**, for any tokens, arguments, texts, frames and dumps: `TypeOK`,
`ArgumentsInStep`, `LayoutAsC`, `StackAgrees`, `DumpIsComplete`, `FrameIsRead`. `TypeOK` is inductive and carries the
layout: that no token leaves the stream adjusting to the left, and that the text before a
token uses up the width, is all that `LayoutAsC` needs. A message reads what C would as long
as each token does (`ReadsAsC`). `StackAgrees` is an invariant of the position alone: the two
loops, each described by what it appends, make together one list of all frames
(`TwoLoops`), since the second starts where the first has stopped, which is nowhere beyond
the depth (`PositionedIs`).

The last two are about folds. `FoldLeft` chooses a function on the sets of indices:
`FoldExists` shows that there is one, `FoldSteps` that at the prefixes of the indices it
steps through the sequence, so that `Lines` is known byte by byte (`LinesIs`) and `Read`
character by character (`ReadIs`, `ReadAppend`); `FlattenAppend` says the same of
`FlattenSeq`. For a dump `DumpInv` is kept by every byte: the lines and the one that is begun
are the bytes so far, the one that is begun has as many as the place modulo sixteen, and
every line that has ended is in column. For a frame the reader is followed along the
prefixes of the symbol (`SymbolIsRead`) and of the text (`TextIsRead`): after what
`escapeJsonString` makes of a prefix it is inside the second string and has read that
prefix, since what is written for one character is read as that character (`EscapedIsRead`).

Only model-checked:

- the liveness properties `Drained`, `Retired`, `BacklogLeaves`, `Answered` and `CallsReturn`, for which
  the prover has no rule of fairness;
- the three violations, which are single behaviours.

## Findings

1. `channel.js:44` reads `execName.substr` before it asks whether the channel is
   registered: the end of an unregistered socket ends the server (`daemon_end`).
2. `daemon.js:62` takes what a chunk has for the rest of a frame: a frame in three chunks
   is lost and the stream is read out of step (`reader_torn`).
3. `DiagZillaWebServer.js:112` deletes a backlog as a whole: "Keep this for 3 seconds"
   holds only for the first batch (`web_keep`).

## Not modelled

- Static files (`onHttpRequest`), templates, styles, column widths, the field list and the
  stack dialog: no state that anything else reads.
- The worker's filter list, its time stamps (`WebSocket.js:129` puts the zeros of
  milliseconds on the wrong side) and the HTML of a row: sequential text. A batch that the
  filters emptied is an input of `MessageBuffer`.
- The 'error' event of a socket of the daemon, and `gethostbyname` returning NULL: one
  step, after which the process is gone.
- How long a stream of batches can put the layout off (`WebClient.js:33`): the code says
  nothing of how the browser serves timers against messages.
- The log file of the library, `fork`, and the macros and wrappers of its interface.
- Overlapping handshakes and the transports of socket.io: one handshake at a time is
  assumed. node, npm, the rest of socket.io, jQuery and c++filt are third-party and used
  through their interface.

## Plan

Done: all modules above, the refinements of `Relay` and `Backlog`, and the proofs of every
safety property that a passing run checks.

Not planned: proofs of the liveness properties, which need a rule for fairness that the
prover does not have.
