------------------------------- MODULE Backlog -------------------------------
(***************************************************************************)
(* What the web server promises about the batches it broadcasts, without   *)
(* rooms, sessions' memberships and timers: a batch is received by some    *)
(* sessions at once, or waits; what waits on a channel leaves as a whole,  *)
(* received in order by sessions, or expired.  WebServer implements it.    *)
(***************************************************************************)
EXTENDS Naturals, Sequences, SequencesExt

CONSTANTS
    Clients,    \* sessions
    Keys,       \* keys of diag channels
    NoKey,      \* the channel of a socket that never registered
    Info        \* the info channel

VARIABLES
    log,        \* the channel of every batch, in the order of the broadcasts
    waiting,    \* channel -> the batches kept for it
    got,        \* what each session has received since it connected
    delivered,  \* the batches some session has received
    expired     \* the batches that nobody received in time

vars == <<log, waiting, got, delivered, expired>>

Channels == Keys \cup {NoKey, Info}

Init ==
    /\ log = <<>> /\ waiting = [ch \in Channels |-> <<>>]
    /\ got = [c \in Clients |-> <<>>]
    /\ delivered = {} /\ expired = {}

Receive(some, batches) ==
    /\ got' = [c \in Clients |-> IF c \in some THEN got[c] \o batches ELSE got[c]]
    /\ delivered' = delivered \cup ToSet(batches)

(* A session starts with nothing.                                          *)
Connect(c) ==
    /\ got' = [got EXCEPT ![c] = <<>>]
    /\ UNCHANGED <<log, waiting, delivered, expired>>

(* Sessions receive a new batch at once: on a diag channel only when       *)
(* nothing older is waiting for them.                                      *)
PublishLive(ch, some) ==
    /\ ch \in Keys => waiting[ch] = <<>>
    /\ log' = Append(log, ch)
    /\ Receive(some, <<Len(log')>>)
    /\ UNCHANGED <<waiting, expired>>

(* Nobody is there for a new batch: it waits, unless it is an info.        *)
PublishLater(ch) ==
    /\ log' = Append(log, ch)
    /\ waiting' = IF ch = Info THEN waiting
                  ELSE [waiting EXCEPT ![ch] = Append(@, Len(log'))]
    /\ UNCHANGED <<got, delivered, expired>>

(* All that waits on a channel is received in order, or expires.           *)
Flush(ch, some) ==
    /\ Receive(some, waiting[ch])
    /\ waiting' = [waiting EXCEPT ![ch] = <<>>]
    /\ UNCHANGED <<log, expired>>

Expire(ch) ==
    /\ expired' = expired \cup ToSet(waiting[ch])
    /\ waiting' = [waiting EXCEPT ![ch] = <<>>]
    /\ UNCHANGED <<log, got, delivered>>

Next ==
    \/ \E c \in Clients : Connect(c)
    \/ \E ch \in Channels :
        \/ \E some \in (SUBSET Clients) \ {{}} : PublishLive(ch, some) \/ Flush(ch, some)
        \/ PublishLater(ch)
        \/ Expire(ch)

Spec == Init /\ [][Next]_vars
=============================================================================
