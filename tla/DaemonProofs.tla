---------------------------- MODULE DaemonProofs ----------------------------
(* Theorems about Daemon, for any connections, processes and frames.       *)
EXTENDS Daemon, FiniteSetTheorems, TLAPS

(* What the handlers rely on: a connection that was accepted has a process *)
(* at the other end, and its key is that of the process once it is set.    *)
PeerKnown ==
    \A c \in Conns :
        /\ conn[c] # "idle" => pid[c] \in Pids
        /\ conn[c] = "idle" => key[c] = NoKey /\ sent[c] = <<>> /\ read[c] = 0
        /\ key[c] \in {NoKey, pid[c]}
        /\ read[c] <= Len(sent[c])

IInv == TypeOK /\ PeerKnown /\ NoGhostChannel /\ MissingOnlyAfterSamePid

-----------------------------------------------------------------------------
(* The frames of a chunk are finitely many, so the announcements of a run  *)
(* of onClientData are a sequence.                                         *)
LEMMA RegsFinite ==
    ASSUME NEW r \in Nat, NEW n \in Nat, NEW S, S \subseteq (r + 1)..(r + n)
    PROVE  IsFiniteSet(S) /\ Cardinality(S) \in Nat
<1>1. IsFiniteSet((r + 1)..(r + n))
  BY FS_Interval
<1>2. IsFiniteSet(S)
  BY <1>1, FS_Subset
<1> QED
  BY <1>2, FS_CardinalityType

(* The three kinds of event.                                               *)
LEMMA EventTypes ==
    /\ \A k \in Pids : NewChannel(k) \in Events /\ ClosedChannel(k) \in Events
    /\ \A k \in Pids \cup {NoKey}, q \in SUBSET Msgs : Messages(k, q) \in Events
BY DEF Events, NewChannel, ClosedChannel, Messages

-----------------------------------------------------------------------------
(* Each action keeps the type invariant; the two that need an argument     *)
(* have a lemma.                                                           *)
LEMMA DataType ==
    ASSUME TypeOK, PeerKnown, NEW c \in Conns, NEW n \in 1..MaxFrames,
           OnClientData(c, n)
    PROVE  TypeOK'
<1> DEFINE chunk  == (read[c] + 1) .. (read[c] + n)
           parsed == {i \in chunk : \A j \in chunk : j <= i => sent[c][j] # "bad"}
           regs   == {i \in parsed : sent[c][i] = "reg"}
           pushed == queue \cup [conn : {c}, pos : {i \in parsed : sent[c][i] = "log"}]
           throws == parsed # chunk
           newKey == IF regs = {} THEN key[c] ELSE pid[c]
           news   == News(c, Cardinality(regs))
           posted == IF throws THEN <<>> ELSE Post(newKey, pushed)
<1>1. n \in Nat /\ read[c] \in Nat /\ read[c] + n \in Nat /\ pid[c] \in Pids
  <2>1. n \in Nat
    BY DaemonAssumption
  <2>2. read[c] \in Nat
    BY DEF TypeOK
  <2>3. conn[c] = "open"
    BY Zenon DEF OnClientData
  <2>4. pid[c] \in Pids
    BY <2>3 DEF PeerKnown
  <2> QED
    BY <2>1, <2>2, <2>4
<1>2. newKey \in Pids \cup {NoKey}
  BY <1>1 DEF TypeOK
<1>3. pushed \in SUBSET Msgs
  <2>1. parsed \subseteq Nat
    BY <1>1
  <2> QED
    BY <2>1 DEF TypeOK, Msgs
<1>4. news \in Seq(Events)
  <2>1. Cardinality(regs) \in Nat
    BY <1>1, RegsFinite
  <2>2. NewChannel(pid[c]) \in Events
    BY <1>1, EventTypes
  <2> HIDE DEF regs
  <2> QED
    BY <2>1, <2>2 DEF News
<1>5. posted \in Seq(Events)
  <2>1. Messages(newKey, pushed) \in Events
    BY <1>2, <1>3, EventTypes
  <2> HIDE DEF newKey, pushed, throws
  <2> QED
    BY <2>1 DEF Post
<1>6. out' = out \o news \o posted /\ key' = [key EXCEPT ![c] = newKey]
      /\ list' = (IF regs = {} THEN list ELSE [list EXCEPT ![pid[c]] = c])
      /\ queue' = (IF throws THEN pushed ELSE {})
      /\ read' = [read EXCEPT ![c] = @ + n] /\ alive' = ~throws
      /\ UNCHANGED <<conn, pid, sent, fin>>
  BY DEF OnClientData, peer, Register, LeftByPost
<1> HIDE DEF regs, news, posted, newKey, pushed, throws
<1>7. out' \in Seq(Events)
  BY <1>4, <1>5, <1>6 DEF TypeOK
<1>8. key' \in [Conns -> Pids \cup {NoKey}] /\ list' \in [Pids -> Conns \cup {None}]
  BY <1>1, <1>2, <1>6 DEF TypeOK
<1>9. queue' \in SUBSET Msgs /\ alive' \in BOOLEAN /\ read' \in [Conns -> Nat]
  BY <1>1, <1>3, <1>6 DEF TypeOK, throws
<1> QED
  BY <1>6, <1>7, <1>8, <1>9 DEF TypeOK

(* unregister keeps the types of the list and of the events.               *)
LEMMA UnregisterType ==
    ASSUME TypeOK, NEW k \in Pids, Unregister(k)
    PROVE  list' \in [Pids -> Conns \cup {None}] /\ out' \in Seq(Events)
<1>1. ClosedChannel(k) \in Events
  BY EventTypes
<1>2. out \in Seq(Events) /\ list \in [Pids -> Conns \cup {None}]
  BY DEF TypeOK
<1>3. CASE UNCHANGED <<list, out>>
  BY <1>2, <1>3
<1>4. CASE list' = [list EXCEPT ![k] = None] /\ out' = Append(out, ClosedChannel(k))
  BY <1>1, <1>2, <1>4
<1> QED
  BY <1>3, <1>4 DEF Unregister

(* A step keeps the types.                                                 *)
LEMMA TypePreserved ==
    ASSUME TypeOK, PeerKnown, [Next]_vars
    PROVE  TypeOK'
<1>1. ASSUME NEW c \in Conns, NEW p \in Pids, OnConnection(c, p) PROVE TypeOK'
  BY <1>1 DEF OnConnection, TypeOK
<1>2. ASSUME NEW c \in Conns, NEW kind \in Writes, Send(c, kind) PROVE TypeOK'
  BY <1>2, DaemonAssumption DEF Send, TypeOK
<1>3. ASSUME NEW c \in Conns, Hangup(c) PROVE TypeOK'
  BY <1>3 DEF Hangup, TypeOK
<1>4. ASSUME NEW c \in Conns, Reset(c) PROVE TypeOK'
  BY <1>4 DEF Reset, TypeOK
<1>5. ASSUME NEW c \in Conns, NEW n \in 1..MaxFrames, OnClientData(c, n)
      PROVE  TypeOK'
  BY <1>5, DataType
<1>6. ASSUME NEW c \in Conns, OnClientEnd(c) PROVE TypeOK'
  <2>1. CASE key[c] = NoKey
    BY <1>6, <2>1 DEF OnClientEnd, TypeOK, peer
  <2>2. CASE key[c] # NoKey
    <3>1. key[c] \in Pids /\ Unregister(key[c]) /\ alive' = alive
      BY <1>6, <2>2 DEF OnClientEnd, TypeOK
    <3>2. list' \in [Pids -> Conns \cup {None}] /\ out' \in Seq(Events)
      BY <3>1, UnregisterType
    <3> QED
      BY <1>6, <3>1, <3>2 DEF OnClientEnd, TypeOK, peer
  <2> QED
    BY <2>1, <2>2
<1>7. ASSUME NEW c \in Conns, OnClientClose(c) PROVE TypeOK'
  <2>1. CASE key[c] = NoKey
    BY <1>7, <2>1 DEF OnClientClose, TypeOK, peer
  <2>2. CASE key[c] # NoKey
    <3>1. key[c] \in Pids /\ Unregister(key[c])
      BY <1>7, <2>2 DEF OnClientClose, TypeOK
    <3>2. list' \in [Pids -> Conns \cup {None}] /\ out' \in Seq(Events)
      BY <3>1, UnregisterType
    <3> QED
      BY <1>7, <3>1, <3>2 DEF OnClientClose, TypeOK, peer
  <2> QED
    BY <2>1, <2>2
<1>8. CASE UNCHANGED vars
  BY <1>8 DEF vars, TypeOK
<1> QED
  BY <1>1, <1>2, <1>3, <1>4, <1>5, <1>6, <1>7, <1>8 DEF Next, Loop

-----------------------------------------------------------------------------
(* What the handlers do to connections, keys and list.  onClientData       *)
(* either registers its connection or leaves key and list alone.           *)
LEMMA DataStep ==
    ASSUME TypeOK, PeerKnown, NEW c \in Conns, NEW n \in 1..MaxFrames,
           OnClientData(c, n)
    PROVE  /\ conn[c] = "open" /\ UNCHANGED <<conn, pid, sent>>
           /\ n \in 1..(Len(sent[c]) - read[c])
           /\ read' = [read EXCEPT ![c] = @ + n]
           /\ \/ UNCHANGED <<key, list>>
              \/ /\ key'  = [key EXCEPT ![c] = pid[c]]
                 /\ list' = [list EXCEPT ![pid[c]] = c]
<1> DEFINE chunk  == (read[c] + 1) .. (read[c] + n)
           parsed == {i \in chunk : \A j \in chunk : j <= i => sent[c][j] # "bad"}
           regs   == {i \in parsed : sent[c][i] = "reg"}
<1>1. /\ conn[c] = "open" /\ UNCHANGED <<conn, pid, sent>>
      /\ n \in 1..(Len(sent[c]) - read[c])
      /\ read' = [read EXCEPT ![c] = @ + n]
      /\ key'  = [key EXCEPT ![c] = IF regs = {} THEN key[c] ELSE pid[c]]
      /\ list' = (IF regs = {} THEN list ELSE [list EXCEPT ![pid[c]] = c])
  BY DEF OnClientData, peer, Register
<1> HIDE DEF regs
<1>2. CASE regs = {}
  BY <1>1, <1>2 DEF TypeOK
<1>3. CASE regs # {}
  BY <1>1, <1>3
<1> QED
  BY <1>1, <1>2, <1>3

(* The end of a connection, by onClientEnd or onClientClose, takes the     *)
(* entry of its key out of the list, whosoever the entry is.               *)
LEMMA UnregisterStep ==
    ASSUME TypeOK, NEW k \in Pids, Unregister(k)
    PROVE  list' = [list EXCEPT ![k] = None]
<1>1. list \in [Pids -> Conns \cup {None}]
  BY DEF TypeOK
<1> QED
  BY <1>1 DEF Unregister

(* The end of a connection, seen or not, removes its channel.              *)
LEMMA EndStep ==
    ASSUME TypeOK, NEW c \in Conns, OnClientEnd(c) \/ OnClientClose(c)
    PROVE  /\ conn[c] \in {"open", "ended", "reset"}
           /\ \E s \in {"ended", "closed"} : conn' = [conn EXCEPT ![c] = s]
           /\ UNCHANGED <<pid, sent, read, key>>
           /\ key[c] = NoKey => list' = list
           /\ key[c] # NoKey => list' = [list EXCEPT ![key[c]] = None]
<1>1. ASSUME key[c] # NoKey PROVE key[c] \in Pids /\ Unregister(key[c])
  BY <1>1 DEF TypeOK, OnClientEnd, OnClientClose
<1>2. key[c] # NoKey => list' = [list EXCEPT ![key[c]] = None]
  BY <1>1, UnregisterStep
<1>3. key[c] = NoKey => list' = list
  BY DEF OnClientEnd, OnClientClose
<1> QED
  BY <1>2, <1>3 DEF OnClientEnd, OnClientClose, peer

-----------------------------------------------------------------------------

(* A step keeps PeerKnown.                                                 *)
LEMMA PeerPreserved ==
    ASSUME TypeOK, PeerKnown, [Next]_vars
    PROVE  PeerKnown'
<1>1. ASSUME NEW c \in Conns, NEW p \in Pids, OnConnection(c, p) PROVE PeerKnown'
  BY <1>1 DEF OnConnection, TypeOK, PeerKnown
<1>2. ASSUME NEW c \in Conns, NEW kind \in Writes, Send(c, kind) PROVE PeerKnown'
  <2>1. sent[c] \in Seq(Kinds) /\ read[c] \in Nat /\ kind \in Kinds
    BY DaemonAssumption DEF TypeOK
  <2>2. Len(Append(sent[c], kind)) = Len(sent[c]) + 1
    BY <2>1
  <2>3. sent'[c] = Append(sent[c], kind) /\ \A d \in Conns \ {c} : sent'[d] = sent[d]
    BY <1>2 DEF Send, TypeOK
  <2>4. conn[c] = "open" /\ UNCHANGED <<conn, pid, read, key>>
    BY <1>2 DEF Send
  <2> QED
    BY <2>1, <2>2, <2>3, <2>4 DEF PeerKnown
<1>3. ASSUME NEW c \in Conns, Hangup(c) PROVE PeerKnown'
  BY <1>3 DEF Hangup, PeerKnown
<1>4. ASSUME NEW c \in Conns, Reset(c) PROVE PeerKnown'
  BY <1>4 DEF Reset, PeerKnown, TypeOK
<1>5. ASSUME NEW c \in Conns, NEW n \in 1..MaxFrames, OnClientData(c, n)
      PROVE  PeerKnown'
  <2>1. /\ conn[c] = "open" /\ UNCHANGED <<conn, pid, sent>>
        /\ n \in 1..(Len(sent[c]) - read[c])
        /\ read' = [read EXCEPT ![c] = @ + n]
        /\ key' = key \/ key' = [key EXCEPT ![c] = pid[c]]
    BY <1>5, DataStep
  <2>2. Len(sent[c]) \in Nat /\ read[c] \in Nat
    BY DEF TypeOK
  <2>3. read'[c] <= Len(sent[c]) /\ \A d \in Conns \ {c} : read'[d] = read[d]
    BY <2>1, <2>2 DEF TypeOK
  <2>4. ASSUME NEW d \in Conns PROVE key'[d] \in {key[d], pid[d]}
    <3>1. key \in [Conns -> Pids \cup {NoKey}]
      BY DEF TypeOK
    <3>2. CASE key' = key
      BY <3>2
    <3>3. CASE key' = [key EXCEPT ![c] = pid[c]]
      BY <3>1, <3>3
    <3> QED
      BY <2>1, <3>2, <3>3
  <2>5. \A d \in Conns : conn[d] = "idle" => d # c
    BY <2>1
  <2>6. \A d \in Conns : conn[d] = "idle" => key'[d] = NoKey
    <3>1. CASE key' = key
      BY <3>1 DEF PeerKnown
    <3>2. CASE key' = [key EXCEPT ![c] = pid[c]]
      BY <2>5, <3>2 DEF PeerKnown, TypeOK
    <3> QED
      BY <2>1, <3>1, <3>2
  <2> QED
    BY <2>1, <2>3, <2>4, <2>5, <2>6 DEF PeerKnown
<1>6. ASSUME NEW c \in Conns, OnClientEnd(c) \/ OnClientClose(c) PROVE PeerKnown'
  BY <1>6, EndStep DEF PeerKnown, TypeOK
<1>7. CASE UNCHANGED vars
  BY <1>7 DEF vars, PeerKnown
<1> QED
  BY <1>1, <1>2, <1>3, <1>4, <1>5, <1>6, <1>7 DEF Next, Loop

(* A step keeps NoGhostChannel.                                            *)
LEMMA NoGhostPreserved ==
    ASSUME TypeOK, PeerKnown, NoGhostChannel, [Next]_vars
    PROVE  NoGhostChannel'
<1>1. ASSUME NEW c \in Conns, NEW p \in Pids, OnConnection(c, p)
      PROVE  NoGhostChannel'
  BY <1>1 DEF OnConnection, TypeOK, NoGhostChannel
<1>2. ASSUME NEW c \in Conns, NEW kind \in Writes, Send(c, kind)
      PROVE  NoGhostChannel'
  BY <1>2 DEF Send, NoGhostChannel
<1>3. ASSUME NEW c \in Conns, Hangup(c) PROVE NoGhostChannel'
  BY <1>3 DEF Hangup, NoGhostChannel
<1>4. ASSUME NEW c \in Conns, Reset(c) PROVE NoGhostChannel'
  BY <1>4 DEF Reset, NoGhostChannel, TypeOK
<1>5. ASSUME NEW c \in Conns, NEW n \in 1..MaxFrames, OnClientData(c, n)
      PROVE  NoGhostChannel'
  <2>1. /\ conn[c] = "open" /\ UNCHANGED <<conn, pid>>
        /\ \/ UNCHANGED <<key, list>>
           \/ /\ key'  = [key EXCEPT ![c] = pid[c]]
              /\ list' = [list EXCEPT ![pid[c]] = c]
    BY <1>5, DataStep
  <2>2. pid[c] \in Pids /\ key[c] \in {NoKey, pid[c]}
    BY <2>1 DEF PeerKnown
  <2> QED
    BY <2>1, <2>2, DaemonAssumption DEF NoGhostChannel, TypeOK
<1>6. ASSUME NEW c \in Conns, OnClientEnd(c) \/ OnClientClose(c)
      PROVE  NoGhostChannel'
  <2>1. PICK s \in {"ended", "closed"} : conn' = [conn EXCEPT ![c] = s]
    BY <1>6, EndStep
  <2>2. /\ UNCHANGED key
        /\ key[c] = NoKey => list' = list
        /\ key[c] # NoKey => list' = [list EXCEPT ![key[c]] = None]
    BY <1>6, EndStep
  <2> SUFFICES ASSUME NEW k \in Pids, list'[k] # None
               PROVE  key[list'[k]] = k /\ conn'[list'[k]] \in {"open", "reset"}
    BY <2>2 DEF NoGhostChannel
  <2>3. list'[k] = list[k] /\ key[c] # k
    BY <2>2, DaemonAssumption DEF TypeOK, NoGhostChannel
  <2>4. key[list[k]] = k /\ conn[list[k]] \in {"open", "reset"}
    BY <2>3 DEF NoGhostChannel
  <2>5. list[k] # c /\ list[k] \in Conns
    BY <2>3, <2>4 DEF TypeOK
  <2> QED
    BY <2>1, <2>3, <2>4, <2>5 DEF TypeOK
<1>7. CASE UNCHANGED vars
  BY <1>7 DEF vars, NoGhostChannel
<1> QED
  BY <1>1, <1>2, <1>3, <1>4, <1>5, <1>6, <1>7 DEF Next, Loop

(* A step keeps MissingOnlyAfterSamePid.                                   *)
LEMMA MissingPreserved ==
    ASSUME TypeOK, PeerKnown, MissingOnlyAfterSamePid, [Next]_vars
    PROVE  MissingOnlyAfterSamePid'
<1>1. ASSUME NEW c \in Conns, NEW p \in Pids, OnConnection(c, p)
      PROVE  MissingOnlyAfterSamePid'
  BY <1>1 DEF OnConnection, TypeOK, PeerKnown, MissingOnlyAfterSamePid
<1>2. ASSUME NEW c \in Conns, NEW kind \in Writes, Send(c, kind)
      PROVE  MissingOnlyAfterSamePid'
  BY <1>2 DEF Send, MissingOnlyAfterSamePid
<1>3. ASSUME NEW c \in Conns, Hangup(c) PROVE MissingOnlyAfterSamePid'
  BY <1>3 DEF Hangup, MissingOnlyAfterSamePid
<1>4. ASSUME NEW c \in Conns, Reset(c) PROVE MissingOnlyAfterSamePid'
  <2>1. conn[c] = "open" /\ conn' = [conn EXCEPT ![c] = "reset"]
        /\ UNCHANGED <<key, list>>
    BY <1>4 DEF Reset
  <2>2. \A d \in Conns : d # c => conn'[d] = conn[d]
    BY <2>1 DEF TypeOK
  <2>3. conn'[c] = "reset"
    BY <2>1 DEF TypeOK
  <2>4. \A e \in Conns : conn[e] \in {"ended", "closed"} => e # c
    BY <2>1
  <2> QED
    BY <2>1, <2>2, <2>3, <2>4 DEF MissingOnlyAfterSamePid
<1>5. ASSUME NEW c \in Conns, NEW n \in 1..MaxFrames, OnClientData(c, n)
      PROVE  MissingOnlyAfterSamePid'
  <2>1. /\ conn[c] = "open" /\ UNCHANGED <<conn, pid>>
        /\ \/ UNCHANGED <<key, list>>
           \/ /\ key'  = [key EXCEPT ![c] = pid[c]]
              /\ list' = [list EXCEPT ![pid[c]] = c]
    BY <1>5, DataStep
  <2>2. pid[c] \in Pids
    BY <2>1 DEF PeerKnown
  <2>3. CASE UNCHANGED <<key, list>>
    BY <2>1, <2>3 DEF MissingOnlyAfterSamePid
  <2>4. CASE key'  = [key EXCEPT ![c] = pid[c]] /\ list' = [list EXCEPT ![pid[c]] = c]
    <3> SUFFICES ASSUME NEW d \in Conns, conn[d] = "open", key'[d] # NoKey,
                        list'[key'[d]] = None
                 PROVE  \E e \in Conns \ {d} : key'[e] = key'[d] /\
                                                conn[e] \in {"ended", "closed"}
      BY <2>1 DEF MissingOnlyAfterSamePid
    <3>1. d # c
      BY <2>2, <2>4, DaemonAssumption DEF TypeOK
    <3>2. key'[d] = key[d] /\ list[key[d]] = None
      BY <2>2, <2>4, <3>1, DaemonAssumption DEF TypeOK
    <3>3. PICK e \in Conns \ {d} : key[e] = key[d] /\ conn[e] \in {"ended", "closed"}
      BY <3>2 DEF MissingOnlyAfterSamePid
    <3>4. key'[e] = key[e]
      BY <2>1, <2>4, <3>3 DEF TypeOK
    <3> QED
      BY <3>2, <3>3, <3>4
  <2> QED
    BY <2>1, <2>3, <2>4
<1>6. ASSUME NEW c \in Conns, OnClientEnd(c) \/ OnClientClose(c)
      PROVE  MissingOnlyAfterSamePid'
  <2>1. PICK s \in {"ended", "closed"} : conn' = [conn EXCEPT ![c] = s]
    BY <1>6, EndStep
  <2>2. /\ UNCHANGED key
        /\ key[c] = NoKey => list' = list
        /\ key[c] # NoKey => list' = [list EXCEPT ![key[c]] = None]
    BY <1>6, EndStep
  <2> SUFFICES ASSUME NEW d \in Conns, conn'[d] = "open", key[d] # NoKey,
                      list'[key[d]] = None
               PROVE  \E e \in Conns \ {d} : key[e] = key[d] /\
                                              conn'[e] \in {"ended", "closed"}
    BY <2>2 DEF MissingOnlyAfterSamePid
  <2>3. d # c /\ conn[d] = "open" /\ conn'[c] = s
    BY <2>1 DEF TypeOK
  <2>4. CASE key[c] = key[d]
    BY <2>3, <2>4
  <2>5. CASE key[c] # key[d]
    <3>1. list[key[d]] = None
      BY <2>2, <2>5 DEF TypeOK
    <3>2. PICK e \in Conns \ {d} : key[e] = key[d] /\ conn[e] \in {"ended", "closed"}
      BY <2>3, <3>1 DEF MissingOnlyAfterSamePid
    <3>3. conn'[e] \in {"ended", "closed"}
      BY <2>1, <3>2 DEF TypeOK
    <3> QED
      BY <3>2, <3>3
  <2> QED
    BY <2>4, <2>5
<1>7. CASE UNCHANGED vars
  BY <1>7 DEF vars, MissingOnlyAfterSamePid
<1> QED
  BY <1>1, <1>2, <1>3, <1>4, <1>5, <1>6, <1>7 DEF Next, Loop

-----------------------------------------------------------------------------
(* The inductive invariant holds in every behaviour of the daemon.         *)
THEOREM DaemonInvariant == Spec => []IInv
<1>1. Init => IInv
  BY DaemonAssumption DEF Init, IInv, TypeOK, PeerKnown, NoGhostChannel,
                          MissingOnlyAfterSamePid
<1>2. IInv /\ [Next]_vars => IInv'
  BY TypePreserved, PeerPreserved, NoGhostPreserved, MissingPreserved DEF IInv
<1> QED
  BY <1>1, <1>2, PTL DEF Spec

(* The state of the daemon keeps its shape, whatever peers send and however*)
(* chunks, ends, resets and closes interleave.                             *)
THEOREM TypeCorrect == Spec => []TypeOK
BY DaemonInvariant, PTL DEF IInv

(* channel.js never lists a process that is gone.                          *)
THEOREM NoGhostChannelEver == Spec => []NoGhostChannel
BY DaemonInvariant, PTL DEF IInv

(* Only the end of another connection of the same process unlists a        *)
(* registered connection that is open.                                     *)
THEOREM MissingExplained == Spec => []MissingOnlyAfterSamePid
BY DaemonInvariant, PTL DEF IInv
=============================================================================
