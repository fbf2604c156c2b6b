-------------------------------- MODULE Relay --------------------------------
(***************************************************************************)
(* What the log collector promises to the rest of the server, without its  *)
(* sockets, its frames and its queue: the set of listed channels and the   *)
(* stream of events about them.  Daemon implements it.                     *)
(*                                                                         *)
(* An event is a record of its name, the key of its channel and the        *)
(* messages it carries.                                                    *)
(***************************************************************************)
EXTENDS Naturals, Sequences

CONSTANTS
    Keys,   \* keys of diag channels
    NoKey   \* the key of a socket that has not registered

VARIABLES
    listed, \* the keys of diagChannels.list
    out     \* the events emitted so far

vars == <<listed, out>>

Init == listed = {} /\ out = <<>>

Carried(events) == UNION {events[i].msgs : i \in 1..Len(events)}

Announced(k) == \E i \in 1..Len(out) : out[i].evt = "new-channel" /\ out[i].key = k

(* A socket of process k has been read: n registrations are announced and  *)
(* list the channel; then everything read and not yet posted leaves in at  *)
(* most one batch.  The batch is for the room of k if k has been announced *)
(* by then, or for no room, from a socket that has not registered.         *)
Chunk(k, n) ==
    LET fresh == Carried(out') \ Carried(out)
        batch(key) == IF fresh = {} THEN <<>>
                      ELSE <<[evt |-> "messages", key |-> key, msgs |-> fresh]>>
        news == [i \in 1..n |-> [evt |-> "new-channel", key |-> k, msgs |-> {}]]
    IN
    /\ \/ (n > 0 \/ Announced(k)) /\ out' = out \o news \o batch(k)
       \/ n = 0 /\ out' = out \o batch(NoKey)
    /\ listed' = IF n > 0 THEN listed \cup {k} ELSE listed

(* A listed channel is closed.                                             *)
Close(k) ==
    /\ k \in listed
    /\ out' = Append(out, [evt |-> "closed-channel", key |-> k, msgs |-> {}])
    /\ listed' = listed \ {k}

Next == \E k \in Keys :
    \/ \E n \in 0..(Len(out') - Len(out)) : Chunk(k, n)
    \/ Close(k)

Spec == Init /\ [][Next]_vars
=============================================================================
