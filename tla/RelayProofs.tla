----------------------------- MODULE RelayProofs -----------------------------
(* Theorems about the events of Daemon: no message is lost, repeated or    *)
(* posted to the wrong room, and the daemon implements Relay.              *)
EXTENDS DaemonProofs

(* What Daemon.onClientData makes of the next n frames: those it parses,   *)
(* the registrations and the log messages among them, the key it posts to  *)
(* and the batch it posts.                                                 *)
Chunk(c, n)  == (read[c] + 1) .. (read[c] + n)
Parsed(c, n) ==
    {i \in Chunk(c, n) : \A j \in Chunk(c, n) : j <= i => sent[c][j] # "bad"}
Regs(c, n)   == {i \in Parsed(c, n) : sent[c][i] = "reg"}
Logs(c, n)   == [conn : {c}, pos : {i \in Parsed(c, n) : sent[c][i] = "log"}]
Throws(c, n) == Parsed(c, n) # Chunk(c, n)
NewKey(c, n) == IF Regs(c, n) = {} THEN key[c] ELSE pid[c]
Silent(c, n) == Throws(c, n) \/ Logs(c, n) = {}
Posted(c, n) == IF Silent(c, n) THEN <<>> ELSE <<Messages(NewKey(c, n), Logs(c, n))>>

-----------------------------------------------------------------------------
(* While the process lives, nothing waits in the queue between handlers,   *)
(* and a connection has a key once a registration of it has been read.     *)
QueueEmpty == alive => queue = {}

KeyIsRead ==
    alive => \A c \in Conns :
        key[c] = NoKey <=> \A j \in 1..read[c] : sent[c][j] # "reg"

(* The key of a connection has been announced.                             *)
KeyIsAnnounced ==
    \A c \in Conns : key[c] # NoKey =>
        \E i \in 1..Len(out) : out[i].evt = "new-channel" /\ out[i].key = key[c]

(* A message that was posted is a log message that has been read.          *)
PostedWasRead ==
    \A i \in 1..Len(out) : \A m \in out[i].msgs :
        m.pos \in 1..read[m.conn] /\ sent[m.conn][m.pos] = "log"

RInv ==
    /\ IInv
    /\ QueueEmpty /\ KeyIsRead /\ KeyIsAnnounced /\ PostedWasRead
    /\ NoCrossTalk /\ PostedIsRead /\ PostedInOrder

-----------------------------------------------------------------------------
(* What onClientData does, when the queue was empty.                       *)
LEMMA ChunkStep ==
    ASSUME RInv, NEW c \in Conns, NEW n \in 1..MaxFrames, OnClientData(c, n)
    PROVE  /\ alive /\ conn[c] = "open" /\ UNCHANGED <<conn, pid, sent>>
           /\ n \in 1..(Len(sent[c]) - read[c])
           /\ read'  = [read EXCEPT ![c] = @ + n]
           /\ key'   = [key EXCEPT ![c] = NewKey(c, n)]
           /\ list'  = (IF Regs(c, n) = {} THEN list ELSE [list EXCEPT ![pid[c]] = c])
           /\ alive' = ~Throws(c, n)
           /\ alive' => queue' = {}
           /\ out'   = out \o News(c, Cardinality(Regs(c, n))) \o Posted(c, n)
<1>1. queue = {} /\ alive
  BY DEF OnClientData, RInv, QueueEmpty
<1>2. queue \cup Logs(c, n) = Logs(c, n)
  BY <1>1
<1> QED
  BY <1>1, <1>2 DEF OnClientData, peer, Register, LeftByPost, Post, Chunk, Parsed,
                    Regs, Logs, Throws, NewKey, Silent, Posted

(* The places of a chunk, and the process that sent it.                    *)
LEMMA ChunkFacts ==
    ASSUME RInv, NEW c \in Conns, NEW n \in 1..MaxFrames, OnClientData(c, n)
    PROVE  /\ read[c] \in Nat /\ n \in Nat /\ Len(sent[c]) \in Nat
           /\ read[c] + n <= Len(sent[c])
           /\ pid[c] \in Pids /\ key[c] \in {NoKey, pid[c]} /\ pid[c] # NoKey
           /\ Chunk(c, n) = (read[c] + 1) .. (read[c] + n)
           /\ Parsed(c, n) \subseteq Chunk(c, n)
           /\ Regs(c, n) \subseteq Chunk(c, n)
           /\ Cardinality(Regs(c, n)) \in Nat
           /\ Cardinality(Regs(c, n)) = 0 <=> Regs(c, n) = {}
<1>1. conn[c] = "open" /\ n \in 1..(Len(sent[c]) - read[c])
  BY DEF OnClientData
<1>2. read[c] \in Nat /\ n \in Nat /\ Len(sent[c]) \in Nat
  BY DaemonAssumption DEF RInv, IInv, TypeOK
<1>3. pid[c] \in Pids /\ key[c] \in {NoKey, pid[c]} /\ pid[c] # NoKey
  BY <1>1, DaemonAssumption DEF RInv, IInv, PeerKnown
<1>4. Parsed(c, n) \subseteq Chunk(c, n) /\ Regs(c, n) \subseteq Chunk(c, n)
  BY DEF Parsed, Regs
<1>5. IsFiniteSet(Regs(c, n))
  BY <1>2, <1>4, RegsFinite DEF Chunk
<1>6. /\ Cardinality(Regs(c, n)) \in Nat
      /\ Cardinality(Regs(c, n)) = 0 <=> Regs(c, n) = {}
  BY <1>5, FS_CardinalityType, FS_EmptySet
<1> QED
  BY <1>1, <1>2, <1>3, <1>4, <1>6 DEF Chunk

(* The messages of a chunk: those of its frames that were parsed and log.  *)
LEMMA LogsFacts ==
    ASSUME RInv, NEW c \in Conns, NEW n \in 1..MaxFrames, OnClientData(c, n)
    PROVE  /\ \A m \in Logs(c, n) : /\ m.conn = c
                                    /\ m.pos \in (read[c] + 1) .. (read[c] + n)
                                    /\ sent[c][m.pos] = "log"
           /\ ~Throws(c, n) => \A p \in (read[c] + 1) .. (read[c] + n) :
                  sent[c][p] = "log" => [conn |-> c, pos |-> p] \in Logs(c, n)
           /\ ~Throws(c, n) => \A p \in (read[c] + 1) .. (read[c] + n) :
                  sent[c][p] = "reg" => p \in Regs(c, n)
           /\ \A p \in Regs(c, n) : sent[c][p] = "reg"
BY ChunkFacts DEF Logs, Throws, Chunk, Regs

(* What onClientData appends to the events: announcements, which carry     *)
(* nothing, and at most one batch after them.                              *)
LEMMA ChunkOut ==
    ASSUME RInv, NEW c \in Conns, NEW n \in 1..MaxFrames, OnClientData(c, n)
    PROVE  LET k == Cardinality(Regs(c, n))
               l == Len(out)
           IN  /\ l \in Nat /\ k \in Nat
               /\ Len(out') = l + k + (IF Silent(c, n) THEN 0 ELSE 1)
               /\ \A i \in 1..l : out'[i] = out[i]
               /\ \A i \in (l + 1)..(l + k) : out'[i] = NewChannel(pid[c])
               /\ ~Silent(c, n) => out'[l + k + 1] = Messages(NewKey(c, n), Logs(c, n))
<1> DEFINE k == Cardinality(Regs(c, n))
           l == Len(out)
           news == News(c, k)
           both == out \o news
<1>1. k \in Nat /\ out \in Seq(Events) /\ pid[c] \in Pids
  BY ChunkFacts DEF RInv, IInv, TypeOK
<1>2. l \in Nat
  BY <1>1
<1>3. news \in Seq(Events) /\ Len(news) = k /\ \A i \in 1..k : news[i] = NewChannel(pid[c])
  <2>1. NewChannel(pid[c]) \in Events
    BY <1>1, EventTypes
  <2> HIDE DEF k
  <2> QED
    BY <1>1, <2>1 DEF News
<1> HIDE DEF k, news
<1>4. /\ both \in Seq(Events) /\ Len(both) = l + k
      /\ \A i \in 1..l : both[i] = out[i]
      /\ \A i \in (l + 1)..(l + k) : both[i] = NewChannel(pid[c])
  <2>1. both \in Seq(Events) /\ Len(both) = l + k
    BY <1>1, <1>3
  <2>2. \A i \in 1..(l + k) : both[i] = IF i <= l THEN out[i] ELSE news[i - l]
    BY <1>1, <1>2, <1>3
  <2>3. \A i \in (l + 1)..(l + k) : i - l \in 1..k /\ i \in 1..(l + k) /\ ~(i <= l)
    BY <1>1, <1>2
  <2>4. \A i \in 1..l : i \in 1..(l + k) /\ i <= l
    BY <1>1, <1>2
  <2> QED
    BY <1>3, <2>1, <2>2, <2>3, <2>4
<1>5. out' = both \o Posted(c, n)
  BY ChunkStep DEF k, news
<1> HIDE DEF both, l
<1>6. CASE Silent(c, n)
  <2>1. out' = both
    BY <1>4, <1>5, <1>6 DEF Posted
  <2> QED
    BY <1>1, <1>2, <1>4, <1>6, <2>1 DEF k, l
<1>7. CASE ~Silent(c, n)
  <2> DEFINE batch == Messages(NewKey(c, n), Logs(c, n))
  <2>1. out' = both \o <<batch>>
    BY <1>5, <1>7 DEF Posted
  <2> HIDE DEF batch
  <2>2. /\ Len(out') = l + k + 1 /\ out'[l + k + 1] = batch
        /\ \A i \in 1..(l + k) : out'[i] = both[i]
    BY <1>1, <1>2, <1>4, <2>1
  <2> QED
    BY <1>1, <1>2, <1>4, <1>7, <2>2 DEF k, l, batch
<1> QED
  BY <1>6, <1>7

-----------------------------------------------------------------------------
(* All other steps: the events grow by the close of a listed channel or    *)
(* not at all, and what has been read stays as it was.                     *)
listed == {k \in Pids : list[k] # None}

Quiet ==
    /\ UNCHANGED <<read, key, queue>> /\ (alive' => alive)
    /\ \A c \in Conns : read[c] > 0 => pid'[c] = pid[c]
    /\ \A c \in Conns : /\ Len(sent'[c]) >= Len(sent[c])
                        /\ \A j \in 1..Len(sent[c]) : sent'[c][j] = sent[c][j]
    /\ \/ UNCHANGED <<out, listed>>
       \/ \E k \in listed : /\ out' = Append(out, ClosedChannel(k))
                            /\ listed' = listed \ {k}

(* A write of a traced process posts nothing.                              *)
LEMMA SendQuiet ==
    ASSUME RInv, NEW c \in Conns, NEW kind \in Writes, Send(c, kind)
    PROVE  Quiet
<1>1. sent \in [Conns -> Seq(Kinds)] /\ kind \in Kinds
  BY DaemonAssumption DEF RInv, IInv, TypeOK
<1>2. /\ sent'[c] = Append(sent[c], kind)
      /\ \A d \in Conns \ {c} : sent'[d] = sent[d]
  BY <1>1 DEF Send
<1>3. /\ Len(sent'[c]) >= Len(sent[c])
      /\ \A j \in 1..Len(sent[c]) : sent'[c][j] = sent[c][j]
  BY <1>1, <1>2
<1>4. \A d \in Conns : Len(sent[d]) \in Nat
  BY <1>1
<1>5. UNCHANGED <<read, key, queue, alive, pid, out, listed>>
  BY DEF Send, listed
<1>6. ASSUME NEW d \in Conns
      PROVE  /\ Len(sent'[d]) >= Len(sent[d])
             /\ \A j \in 1..Len(sent[d]) : sent'[d][j] = sent[d][j]
  <2>1. CASE d = c
    BY <1>3, <2>1, Zenon
  <2>2. CASE d # c
    BY <1>2, <1>4, <2>2
  <2> QED
    BY <2>1, <2>2
<1> QED
  BY <1>5, <1>6, Zenon DEF Quiet

(* The end of a connection posts no message, only that its channel is      *)
(* closed.                                                                 *)
LEMMA EndQuiet ==
    ASSUME RInv, NEW c \in Conns, OnClientEnd(c) \/ OnClientClose(c)
    PROVE  Quiet
<1>1. UNCHANGED <<read, key, queue, pid, sent>> /\ (alive' => alive)
  BY DEF OnClientEnd, OnClientClose, peer
<1>2. \A d \in Conns : Len(sent[d]) \in Nat
  BY DEF RInv, IInv, TypeOK
<1>3. CASE UNCHANGED <<list, out>>
  BY <1>1, <1>2, <1>3 DEF Quiet, listed
<1>4. CASE /\ key[c] \in Pids /\ list[key[c]] # None
           /\ list' = [list EXCEPT ![key[c]] = None]
           /\ out' = Append(out, ClosedChannel(key[c]))
  <2>1. list \in [Pids -> Conns \cup {None}]
    BY DEF RInv, IInv, TypeOK
  <2>2. key[c] \in listed /\ listed' = listed \ {key[c]}
    BY <1>4, <2>1 DEF listed
  <2> QED
    BY <1>1, <1>2, <1>4, <2>2 DEF Quiet
<1>5. key[c] \in Pids \cup {NoKey}
  BY DEF RInv, IInv, TypeOK
<1> QED
  BY <1>3, <1>4, <1>5 DEF OnClientEnd, OnClientClose, Unregister

(* No step but a chunk that is read posts a message.                       *)
LEMMA OthersQuiet ==
    ASSUME RInv, [Next]_vars,
           ~(\E c \in Conns : \E n \in 1..MaxFrames : OnClientData(c, n))
    PROVE  Quiet
<1>1. \A c \in Conns : Len(sent[c]) \in Nat /\ read[c] \in Nat
  BY DEF RInv, IInv, TypeOK
<1>2. ASSUME NEW c \in Conns, NEW p \in Pids, OnConnection(c, p) PROVE Quiet
  <2>1. read[c] = 0
    BY <1>2 DEF OnConnection, RInv, IInv, PeerKnown
  <2>2. \A d \in Conns \ {c} : pid'[d] = pid[d]
    BY <1>2 DEF OnConnection, RInv, IInv, TypeOK
  <2>3. UNCHANGED <<sent, read, key, queue, out, alive, listed>>
    BY <1>2 DEF OnConnection, listed
  <2> QED
    BY <1>1, <2>1, <2>2, <2>3 DEF Quiet
<1>3. ASSUME NEW c \in Conns, NEW kind \in Writes, Send(c, kind) PROVE Quiet
  BY <1>3, SendQuiet
<1>4. ASSUME NEW c \in Conns, Hangup(c) \/ Reset(c) PROVE Quiet
  BY <1>1, <1>4 DEF Hangup, Reset, Quiet, listed
<1>5. ASSUME NEW c \in Conns, OnClientEnd(c) \/ OnClientClose(c) PROVE Quiet
  BY <1>5, EndQuiet
<1>6. CASE UNCHANGED vars
  BY <1>1, <1>6 DEF vars, Quiet, listed
<1> QED
  BY <1>2, <1>3, <1>4, <1>5, <1>6 DEF Next, Loop

(* What a quiet step posts carries no message.                             *)
LEMMA QuietOut ==
    ASSUME RInv, Quiet
    PROVE  /\ Len(out) \in Nat /\ Len(out') \in Nat /\ Len(out') >= Len(out)
           /\ \A i \in 1..Len(out) : out'[i] = out[i]
           /\ \A i \in 1..Len(out') : i > Len(out) => out'[i].msgs = {}
<1>1. out \in Seq(Events)
  BY DEF RInv, IInv, TypeOK
<1>2. CASE out' = out
  BY <1>1, <1>2
<1>3. ASSUME NEW k \in listed, out' = Append(out, ClosedChannel(k))
      PROVE  /\ Len(out') = Len(out) + 1 /\ out'[Len(out) + 1].msgs = {}
             /\ \A i \in 1..Len(out) : out'[i] = out[i]
  <2>1. ClosedChannel(k).msgs = {}
    BY DEF ClosedChannel
  <2> HIDE DEF ClosedChannel
  <2> QED
    BY <1>1, <1>3, <2>1
<1> QED
  BY <1>1, <1>2, <1>3 DEF Quiet

(* A message that was posted is one of a connection.                       *)
LEMMA PostedFacts ==
    ASSUME RInv
    PROVE  \A i \in 1..Len(out) : \A m \in out[i].msgs :
               m.conn \in Conns /\ m.pos \in 1..read[m.conn] /\ sent[m.conn][m.pos] = "log"
<1>1. out \in Seq(Events)
  BY DEF RInv, IInv, TypeOK
<1>2. \A i \in 1..Len(out) : out[i].msgs \subseteq Msgs
  <2>1. \A e \in Events : e.msgs \subseteq Msgs
    BY DEF Events
  <2>2. \A i \in 1..Len(out) : out[i] \in Events
    BY <1>1
  <2> QED
    BY <2>1, <2>2
<1>3. \A m \in Msgs : m.conn \in Conns
  BY DEF Msgs
<1>4. PostedWasRead
  BY DEF RInv
<1> HIDE DEF Msgs
<1> QED
  BY <1>2, <1>3, <1>4 DEF PostedWasRead

-----------------------------------------------------------------------------
(* The invariants are kept, first by the handlers other than onClientData. *)
LEMMA QuietKeeps ==
    ASSUME RInv, Quiet
    PROVE  /\ QueueEmpty' /\ KeyIsRead' /\ KeyIsAnnounced' /\ PostedWasRead'
           /\ NoCrossTalk' /\ PostedIsRead' /\ PostedInOrder'
<1>1. /\ UNCHANGED <<read, key, queue>> /\ (alive' => alive)
      /\ \A c \in Conns : read[c] > 0 => pid'[c] = pid[c]
      /\ \A c \in Conns : /\ Len(sent'[c]) >= Len(sent[c])
                          /\ \A j \in 1..Len(sent[c]) : sent'[c][j] = sent[c][j]
  BY DEF Quiet
<1>2. \A c \in Conns : read[c] \in Nat /\ Len(sent[c]) \in Nat /\ read[c] <= Len(sent[c])
  BY DEF RInv, IInv, TypeOK, PeerKnown
<1>3. \A c \in Conns : \A j \in 1..read[c] : j \in Nat /\ sent'[c][j] = sent[c][j]
  BY <1>1, <1>2
<1>4. /\ Len(out) \in Nat /\ Len(out') \in Nat /\ Len(out') >= Len(out)
      /\ \A i \in 1..Len(out) : out'[i] = out[i]
      /\ \A i \in 1..Len(out') : i > Len(out) => out'[i].msgs = {}
  BY QuietOut
<1>5. \A i \in 1..Len(out') : \A m \in out'[i].msgs :
          i \in 1..Len(out) /\ out'[i] = out[i] /\ m \in out[i].msgs
  BY <1>4
<1>6. \A i \in 1..Len(out) : \A m \in out[i].msgs :
          m.conn \in Conns /\ m.pos \in 1..read[m.conn] /\ sent[m.conn][m.pos] = "log"
  BY PostedFacts
<1>7. QueueEmpty' /\ KeyIsRead'
  BY <1>1, <1>3 DEF RInv, QueueEmpty, KeyIsRead
<1>8. KeyIsAnnounced'
  BY <1>1, <1>4 DEF RInv, KeyIsAnnounced
<1>9. PostedWasRead'
  BY <1>1, <1>3, <1>5, <1>6 DEF PostedWasRead
<1>10. NoCrossTalk'
  <2> SUFFICES ASSUME NEW i \in 1..Len(out'), NEW m \in out'[i].msgs
               PROVE  IF out'[i].key = NoKey
                      THEN \A j \in 1..m.pos : sent'[m.conn][j] # "reg"
                      ELSE out'[i].key = pid'[m.conn]
    BY DEF NoCrossTalk
  <2>1. i \in 1..Len(out) /\ out'[i] = out[i] /\ m \in out[i].msgs
    BY <1>5
  <2>2. m.conn \in Conns /\ m.pos \in 1..read[m.conn]
    BY <1>6, <2>1
  <2>3. pid'[m.conn] = pid[m.conn]
    BY <1>1, <1>2, <2>2
  <2>4. \A j \in 1..m.pos : j \in 1..read[m.conn]
    BY <1>2, <2>2
  <2>5. \A j \in 1..m.pos : sent'[m.conn][j] = sent[m.conn][j]
    BY <1>3, <2>2, <2>4
  <2> QED
    BY <2>1, <2>3, <2>5 DEF RInv, NoCrossTalk
<1>11. PostedIsRead'
  <2> SUFFICES ASSUME alive', NEW c \in Conns, NEW p \in 1..Len(sent'[c])
               PROVE  (p <= read'[c] /\ sent'[c][p] = "log") <=>
                      \E i \in 1..Len(out') : [conn |-> c, pos |-> p] \in out'[i].msgs
    BY DEF PostedIsRead
  <2>1. (\E i \in 1..Len(out') : [conn |-> c, pos |-> p] \in out'[i].msgs)
        <=> \E i \in 1..Len(out) : [conn |-> c, pos |-> p] \in out[i].msgs
    BY <1>4, <1>5
  <2>2. CASE p \in 1..Len(sent[c])
    <3>1. sent'[c][p] = sent[c][p] /\ read'[c] = read[c] /\ alive
      BY <1>1, <2>2
    <3> QED
      BY <2>1, <2>2, <3>1 DEF RInv, PostedIsRead
  <2>3. CASE p \notin 1..Len(sent[c])
    <3>1. ~(p <= read'[c])
      BY <1>1, <1>2, <2>3
    <3>2. ASSUME NEW i \in 1..Len(out), [conn |-> c, pos |-> p] \in out[i].msgs
          PROVE  FALSE
      <4>1. p \in 1..read[c]
        BY <1>6, <3>2
      <4> QED
        BY <1>1, <3>1, <4>1
    <3> QED
      BY <2>1, <3>1, <3>2
  <2> QED
    BY <2>2, <2>3
<1>12. PostedInOrder'
  <2> SUFFICES ASSUME NEW i \in 1..Len(out'), NEW j \in 1..Len(out'),
                      NEW m \in out'[i].msgs, NEW n \in out'[j].msgs,
                      i < j, m.conn = n.conn
               PROVE  m.pos < n.pos
    BY DEF PostedInOrder
  <2>1. /\ i \in 1..Len(out) /\ m \in out[i].msgs
        /\ j \in 1..Len(out) /\ n \in out[j].msgs
    BY <1>5
  <2> QED
    BY <2>1 DEF RInv, PostedInOrder
<1> QED
  BY <1>7, <1>8, <1>9, <1>10, <1>11, <1>12

(* Then by onClientData.  Where a message in an event comes from: it was   *)
(* there, or it is in the batch of the chunk.                              *)
LEMMA ChunkOrigin ==
    ASSUME RInv, NEW c \in Conns, NEW n \in 1..MaxFrames, OnClientData(c, n)
    PROVE  \A i \in 1..Len(out') : \A m \in out'[i].msgs :
               \/ i \in 1..Len(out) /\ out'[i] = out[i] /\ m \in out[i].msgs
               \/ /\ ~Silent(c, n) /\ i > Len(out) /\ i = Len(out')
                  /\ out'[i].key = NewKey(c, n) /\ m \in Logs(c, n)
<1> DEFINE k == Cardinality(Regs(c, n))
           l == Len(out)
<1> SUFFICES ASSUME NEW i \in 1..Len(out'), NEW m \in out'[i].msgs, i > Len(out)
             PROVE  /\ ~Silent(c, n) /\ i = Len(out')
                    /\ out'[i].key = NewKey(c, n) /\ m \in Logs(c, n)
  BY ChunkOut
<1>1. /\ l \in Nat /\ k \in Nat
      /\ Len(out') = l + k + (IF Silent(c, n) THEN 0 ELSE 1)
      /\ \A j \in (l + 1)..(l + k) : out'[j] = NewChannel(pid[c])
      /\ ~Silent(c, n) => out'[l + k + 1] = Messages(NewKey(c, n), Logs(c, n))
  BY ChunkOut
<1>2. NewChannel(pid[c]).msgs = {}
  BY DEF NewChannel
<1> HIDE DEF k
<1>3. i \notin (l + 1)..(l + k)
  BY <1>1, <1>2
<1>4. ~Silent(c, n) /\ i = l + k + 1
  BY <1>1, <1>3
<1> QED
  BY <1>1, <1>4 DEF Messages

(* A chunk that is read keeps the conjuncts of the invariant that are not  *)
(* about the daemon alone.                                                 *)
LEMMA ChunkKeeps ==
    ASSUME RInv, NEW c \in Conns, NEW n \in 1..MaxFrames, OnClientData(c, n)
    PROVE  /\ QueueEmpty' /\ KeyIsRead' /\ KeyIsAnnounced' /\ PostedWasRead'
           /\ NoCrossTalk' /\ PostedIsRead' /\ PostedInOrder'
<1>1. /\ alive /\ UNCHANGED <<conn, pid, sent>>
      /\ read' = [read EXCEPT ![c] = @ + n]
      /\ key'  = [key EXCEPT ![c] = NewKey(c, n)]
      /\ alive' = ~Throws(c, n) /\ (alive' => queue' = {})
  BY ChunkStep
<1>2. /\ read[c] \in Nat /\ n \in Nat /\ Len(sent[c]) \in Nat
      /\ read[c] + n <= Len(sent[c])
      /\ pid[c] \in Pids /\ key[c] \in {NoKey, pid[c]} /\ pid[c] # NoKey
      /\ Regs(c, n) \subseteq (read[c] + 1) .. (read[c] + n)
      /\ Cardinality(Regs(c, n)) = 0 <=> Regs(c, n) = {}
  BY ChunkFacts
<1>3. /\ \A m \in Logs(c, n) : /\ m.conn = c
                                /\ m.pos \in (read[c] + 1) .. (read[c] + n)
                                /\ sent[c][m.pos] = "log"
      /\ ~Throws(c, n) => \A p \in (read[c] + 1) .. (read[c] + n) :
             sent[c][p] = "log" => [conn |-> c, pos |-> p] \in Logs(c, n)
      /\ ~Throws(c, n) => \A p \in (read[c] + 1) .. (read[c] + n) :
             sent[c][p] = "reg" => p \in Regs(c, n)
      /\ \A p \in Regs(c, n) : sent[c][p] = "reg"
  BY LogsFacts
<1>4. /\ read'[c] = read[c] + n /\ \A d \in Conns \ {c} : read'[d] = read[d]
      /\ \A d \in Conns : read[d] \in Nat /\ read'[d] \in Nat /\ read[d] <= read'[d]
      /\ \A d \in Conns : read[d] <= Len(sent[d]) /\ Len(sent[d]) \in Nat
  BY <1>1, <1>2 DEF RInv, IInv, TypeOK, PeerKnown
<1>5. key'[c] = NewKey(c, n) /\ \A d \in Conns \ {c} : key'[d] = key[d]
  BY <1>1 DEF RInv, IInv, TypeOK
<1>6. \A i \in 1..Len(out') : \A m \in out'[i].msgs :
          \/ i \in 1..Len(out) /\ out'[i] = out[i] /\ m \in out[i].msgs
          \/ /\ ~Silent(c, n) /\ i > Len(out) /\ i = Len(out')
             /\ out'[i].key = NewKey(c, n) /\ m \in Logs(c, n)
  BY ChunkOrigin
<1>7. \A i \in 1..Len(out) : \A m \in out[i].msgs :
          m.conn \in Conns /\ m.pos \in 1..read[m.conn] /\ sent[m.conn][m.pos] = "log"
  BY PostedFacts
<1>8. /\ Len(out) \in Nat /\ Len(out') \in Nat /\ Len(out') >= Len(out)
      /\ \A i \in 1..Len(out) : i \in 1..Len(out') /\ out'[i] = out[i]
  BY ChunkOut
<1>9. QueueEmpty'
  BY <1>1 DEF QueueEmpty
<1>10. KeyIsRead'
  <2> SUFFICES ASSUME alive', NEW d \in Conns
               PROVE  key'[d] = NoKey <=> \A j \in 1..read'[d] : sent'[d][j] # "reg"
    BY DEF KeyIsRead
  <2>1. key[d] = NoKey <=> \A j \in 1..read[d] : sent[d][j] # "reg"
    BY <1>1 DEF RInv, KeyIsRead
  <2>2. CASE d # c
    BY <1>1, <1>4, <1>5, <2>1, <2>2
  <2>3. CASE d = c
    <3>1. Regs(c, n) = {} <=> \A j \in (read[c] + 1)..(read[c] + n) : sent[c][j] # "reg"
      BY <1>1, <1>2, <1>3
    <3>2. \A j \in 1..(read[c] + n) :
              j \in 1..read[c] \/ j \in (read[c] + 1)..(read[c] + n)
      BY <1>2
    <3>3. /\ \A j \in 1..read[c] : j \in 1..(read[c] + n)
          /\ \A j \in (read[c] + 1)..(read[c] + n) : j \in 1..(read[c] + n)
      BY <1>2
    <3>4. (\A j \in 1..(read[c] + n) : sent[c][j] # "reg")
          <=> key[c] = NoKey /\ Regs(c, n) = {}
      BY <2>1, <2>3, <3>1, <3>2, <3>3
    <3>5. key'[c] = NoKey <=> key[c] = NoKey /\ Regs(c, n) = {}
      BY <1>2, <1>5 DEF NewKey
    <3> QED
      BY <1>1, <1>4, <2>3, <3>4, <3>5
  <2> QED
    BY <2>2, <2>3
<1>11. KeyIsAnnounced'
  <2> SUFFICES ASSUME NEW d \in Conns, key'[d] # NoKey
               PROVE  \E i \in 1..Len(out') :
                          out'[i].evt = "new-channel" /\ out'[i].key = key'[d]
    BY DEF KeyIsAnnounced
  <2>1. CASE key'[d] = key[d]
    BY <1>8, <2>1 DEF RInv, KeyIsAnnounced
  <2>2. CASE key'[d] # key[d]
    <3>1. d = c /\ Regs(c, n) # {} /\ key'[d] = pid[c]
      BY <1>5, <2>2 DEF NewKey
    <3> DEFINE k == Cardinality(Regs(c, n))
               first == Len(out) + 1
    <3>2. /\ k \in Nat /\ k # 0
          /\ Len(out') = Len(out) + k + (IF Silent(c, n) THEN 0 ELSE 1)
          /\ \A i \in (Len(out) + 1)..(Len(out) + k) : out'[i] = NewChannel(pid[c])
      BY <1>2, <3>1, ChunkOut
    <3> HIDE DEF k
    <3>3. first \in 1..Len(out') /\ first \in (Len(out) + 1)..(Len(out) + k)
      BY <1>8, <3>2
    <3> HIDE DEF first
    <3>4. out'[first].evt = "new-channel" /\ out'[first].key = pid[c]
      BY <3>2, <3>3 DEF NewChannel
    <3> QED
      BY <3>1, <3>3, <3>4
  <2> QED
    BY <2>1, <2>2
<1>12. PostedWasRead'
  <2> SUFFICES ASSUME NEW i \in 1..Len(out'), NEW m \in out'[i].msgs
               PROVE  m.pos \in 1..read'[m.conn] /\ sent'[m.conn][m.pos] = "log"
    BY DEF PostedWasRead
  <2>1. CASE i \in 1..Len(out) /\ m \in out[i].msgs
    BY <1>1, <1>4, <1>7, <2>1
  <2>2. CASE m \in Logs(c, n)
    BY <1>1, <1>2, <1>3, <1>4, <2>2
  <2> QED
    BY <1>6, <2>1, <2>2
<1>13. NoCrossTalk'
  <2> SUFFICES ASSUME NEW i \in 1..Len(out'), NEW m \in out'[i].msgs
               PROVE  IF out'[i].key = NoKey
                      THEN \A j \in 1..m.pos : sent'[m.conn][j] # "reg"
                      ELSE out'[i].key = pid'[m.conn]
    BY DEF NoCrossTalk
  <2>1. CASE i \in 1..Len(out) /\ out'[i] = out[i] /\ m \in out[i].msgs
    BY <1>1, <2>1 DEF RInv, NoCrossTalk
  <2>2. CASE ~Silent(c, n) /\ out'[i].key = NewKey(c, n) /\ m \in Logs(c, n)
    <3>1. m.conn = c /\ m.pos \in (read[c] + 1)..(read[c] + n)
      BY <1>3, <2>2
    <3>2. CASE NewKey(c, n) = NoKey
      <4>1. key'[c] = NoKey /\ alive'
        BY <1>1, <1>5, <2>2, <3>2 DEF Silent
      <4>2. \A j \in 1..(read[c] + n) : sent[c][j] # "reg"
        BY <1>1, <1>4, <1>10, <4>1 DEF KeyIsRead
      <4>3. \A j \in 1..m.pos : j \in 1..(read[c] + n)
        BY <1>2, <3>1
      <4> QED
        BY <1>1, <2>2, <3>1, <3>2, <4>2, <4>3
    <3>3. CASE NewKey(c, n) # NoKey
      BY <1>1, <1>2, <2>2, <3>1, <3>3 DEF NewKey
    <3> QED
      BY <3>2, <3>3
  <2> QED
    BY <1>6, <2>1, <2>2
<1>14. PostedIsRead'
  <2> SUFFICES ASSUME alive', NEW d \in Conns, NEW p \in 1..Len(sent[d])
               PROVE  (p <= read'[d] /\ sent[d][p] = "log") <=>
                      \E i \in 1..Len(out') : [conn |-> d, pos |-> p] \in out'[i].msgs
    BY <1>1 DEF PostedIsRead
  <2> DEFINE m == [conn |-> d, pos |-> p]
  <2>1. (p <= read[d] /\ sent[d][p] = "log") <=> \E i \in 1..Len(out) : m \in out[i].msgs
    BY <1>1 DEF RInv, PostedIsRead
  <2>2. (\E i \in 1..Len(out') : m \in out'[i].msgs)
        <=> (\E i \in 1..Len(out) : m \in out[i].msgs) \/ m \in Logs(c, n)
    <3>1. ASSUME m \in Logs(c, n) PROVE \E i \in 1..Len(out') : m \in out'[i].msgs
      <4>1. ~Silent(c, n)
        BY <1>1, <3>1 DEF Silent
      <4> DEFINE last == Len(out) + Cardinality(Regs(c, n)) + 1
      <4>2. last = Len(out') /\ last \in 1..Len(out')
            /\ out'[last] = Messages(NewKey(c, n), Logs(c, n))
        BY <4>1, ChunkOut
      <4> HIDE DEF last, m
      <4> QED
        BY <3>1, <4>2 DEF Messages
    <3> HIDE DEF m
    <3> QED
      BY <1>6, <1>8, <3>1
  <2>3. m \in Logs(c, n) <=> d = c /\ p > read[c] /\ p <= read[c] + n /\ sent[d][p] = "log"
    <3>1. m.conn = d /\ m.pos = p /\ p \in Nat
      OBVIOUS
    <3>2. ASSUME m \in Logs(c, n)
          PROVE  d = c /\ p > read[c] /\ p <= read[c] + n /\ sent[d][p] = "log"
      <4>1. m.conn = c /\ m.pos \in (read[c] + 1)..(read[c] + n) /\ sent[c][m.pos] = "log"
        BY <1>3, <3>2
      <4> QED
        BY <1>2, <3>1, <4>1
    <3>3. ASSUME d = c, p > read[c], p <= read[c] + n, sent[d][p] = "log"
          PROVE  m \in Logs(c, n)
      <4>1. p \in (read[c] + 1)..(read[c] + n)
        BY <1>2, <3>1, <3>3
      <4> QED
        BY <1>1, <1>3, <3>3, <4>1
    <3> QED
      BY <3>2, <3>3
  <2>4. CASE d = c
    BY <1>2, <1>4, <2>1, <2>2, <2>3, <2>4, SMTT(30)
  <2>5. CASE d # c
    BY <1>4, <2>1, <2>2, <2>3, <2>5
  <2> QED
    BY <2>4, <2>5
<1>15. PostedInOrder'
  <2> SUFFICES ASSUME NEW i \in 1..Len(out'), NEW j \in 1..Len(out'),
                      NEW m \in out'[i].msgs, NEW q \in out'[j].msgs,
                      i < j, m.conn = q.conn
               PROVE  m.pos < q.pos
    BY DEF PostedInOrder
  <2>1. i \in 1..Len(out) /\ m \in out[i].msgs
    BY <1>6, <1>8
  <2>2. CASE j \in 1..Len(out) /\ q \in out[j].msgs
    BY <2>1, <2>2 DEF RInv, PostedInOrder
  <2>3. CASE q \in Logs(c, n)
    BY <1>2, <1>3, <1>7, <2>1, <2>3, SMTT(30)
  <2> QED
    BY <1>6, <2>2, <2>3
<1> QED
  BY <1>9, <1>10, <1>11, <1>12, <1>13, <1>14, <1>15

-----------------------------------------------------------------------------
(* All of it holds in every behaviour of the daemon.                       *)
LEMMA RelayInductive ==
    /\ Init => RInv
    /\ RInv /\ [Next]_vars => RInv'
<1>1. Init => RInv
  <2> SUFFICES ASSUME Init PROVE RInv
    OBVIOUS
  <2>1. IInv
    BY DaemonAssumption DEF Init, IInv, TypeOK, PeerKnown, NoGhostChannel,
                            MissingOnlyAfterSamePid
  <2>2. Len(out) = 0 /\ \A c \in Conns : Len(sent[c]) = 0 /\ read[c] = 0
    BY DEF Init
  <2>3. 1..0 = {}
    OBVIOUS
  <2> QED
    BY <2>1, <2>2, <2>3 DEF Init, RInv, QueueEmpty, KeyIsRead, KeyIsAnnounced,
        PostedWasRead, NoCrossTalk, PostedIsRead, PostedInOrder
<1>2. ASSUME RInv, [Next]_vars PROVE RInv'
  <2>1. IInv'
    BY <1>2, TypePreserved, PeerPreserved, NoGhostPreserved, MissingPreserved
    DEF RInv, IInv
  <2>2. ASSUME NEW c \in Conns, NEW n \in 1..MaxFrames, OnClientData(c, n)
        PROVE  RInv'
    BY <1>2, <2>1, <2>2, ChunkKeeps DEF RInv
  <2>3. CASE ~(\E c \in Conns : \E n \in 1..MaxFrames : OnClientData(c, n))
    BY <1>2, <2>1, <2>3, OthersQuiet, QuietKeeps DEF RInv
  <2> QED
    BY <2>2, <2>3
<1> QED
  BY <1>1, <1>2

(* The inductive invariant holds in every reachable state.                 *)
THEOREM RelayInvariant == Spec => []RInv
BY RelayInductive, PTL DEF Spec

(* However sockets take turns at the shared queue, no message reaches the  *)
(* room of another process, nor a room at all before its registration.     *)
THEOREM NoCrossTalkEver == Spec => []NoCrossTalk
<1>1. RInv => NoCrossTalk
  BY DEF RInv
<1> QED
  BY <1>1, RelayInvariant, PTL

(* Until an exception ends the server, a log message has been posted once  *)
(* it has been read, and only then; and never twice or out of order.       *)
THEOREM PostedOnceEver == Spec => []PostedOnce
<1>1. RInv => PostedOnce
  BY DEF RInv, PostedOnce
<1> QED
  BY <1>1, RelayInvariant, PTL

-----------------------------------------------------------------------------
(* The daemon implements Relay.  A chunk is a Chunk of the process that    *)
(* sent it: what it carries and was not carried before is its batch.       *)
LEMMA Fresh ==
    ASSUME RInv, NEW c \in Conns, NEW n \in 1..MaxFrames, OnClientData(c, n)
    PROVE  Feed!Carried(out') \ Feed!Carried(out) =
               IF Silent(c, n) THEN {} ELSE Logs(c, n)
<1> DEFINE new == IF Silent(c, n) THEN {} ELSE Logs(c, n)
<1>1. \A i \in 1..Len(out') : \A m \in out'[i].msgs :
          \/ i \in 1..Len(out) /\ m \in out[i].msgs
          \/ ~Silent(c, n) /\ m \in Logs(c, n)
  BY ChunkOrigin
<1>2. ASSUME ~Silent(c, n), NEW m \in Logs(c, n)
      PROVE  m \in Feed!Carried(out') /\ m \notin Feed!Carried(out)
  <2> DEFINE last == Len(out) + Cardinality(Regs(c, n)) + 1
  <2>1. last \in 1..Len(out') /\ out'[last] = Messages(NewKey(c, n), Logs(c, n))
    BY <1>2, ChunkOut
  <2> HIDE DEF last
  <2>2. m \in out'[last].msgs
    BY <1>2, <2>1 DEF Messages
  <2>3. m.conn = c /\ m.pos \in (read[c] + 1)..(read[c] + n)
    BY <1>2, LogsFacts
  <2>4. ASSUME NEW i \in 1..Len(out), m \in out[i].msgs PROVE FALSE
    <3>1. m.pos \in 1..read[c]
      BY <2>3, <2>4, PostedFacts
    <3> QED
      BY <2>3, <3>1, ChunkFacts
  <2> QED
    BY <2>1, <2>2, <2>4 DEF Feed!Carried
<1>3. \A m \in Feed!Carried(out') : m \notin Feed!Carried(out) =>
          ~Silent(c, n) /\ m \in Logs(c, n)
  BY <1>1 DEF Feed!Carried
<1>4. CASE Silent(c, n)
  BY <1>3, <1>4
<1>5. CASE ~Silent(c, n)
  BY <1>2, <1>3, <1>5
<1> QED
  BY <1>4, <1>5

(* A chunk that is read is the step Chunk of the relay.                    *)
LEMMA ChunkRelayed ==
    ASSUME RInv, NEW c \in Conns, NEW n \in 1..MaxFrames, OnClientData(c, n),
           NEW p \in Pids, p = pid[c], NEW k \in Nat, k = Cardinality(Regs(c, n))
    PROVE  k \in 0..(Len(out') - Len(out)) /\ Feed!Chunk(p, k)
<1> DEFINE fresh == Feed!Carried(out') \ Feed!Carried(out)
<1>1. (k = 0 <=> Regs(c, n) = {}) /\ key[c] \in {NoKey, p} /\ p # NoKey
  BY ChunkFacts
<1>2. k \in 0..(Len(out') - Len(out))
  BY ChunkOut
<1>3. fresh = IF Silent(c, n) THEN {} ELSE Logs(c, n)
  BY Fresh
<1>4. fresh = {} <=> Silent(c, n)
  BY <1>3 DEF Silent
<1> HIDE DEF fresh
<1>5. Posted(c, n) = IF fresh = {} THEN <<>>
      ELSE <<[evt |-> "messages", key |-> NewKey(c, n), msgs |-> fresh]>>
  BY <1>3, <1>4 DEF Posted, Messages
<1>6. /\ out' = out \o News(c, k) \o Posted(c, n)
      /\ list' = (IF Regs(c, n) = {} THEN list ELSE [list EXCEPT ![p] = c])
  BY ChunkStep
<1>7. News(c, k) = [i \in 1..k |-> [evt |-> "new-channel", key |-> p, msgs |-> {}]]
  BY DEF News, NewChannel
<1>8. listed' = IF k > 0 THEN listed \cup {p} ELSE listed
  <2>1. list \in [Pids -> Conns \cup {None}]
    BY DEF RInv, IInv, TypeOK
  <2>2. CASE k = 0
    BY <1>1, <1>6, <2>2 DEF listed
  <2>3. CASE k # 0
    <3>1. list' = [list EXCEPT ![p] = c] /\ c # None
      BY <1>1, <1>6, <2>3, DaemonAssumption
    <3>2. listed' = listed \cup {p}
      BY <1>1, <2>1, <3>1 DEF listed
    <3> QED
      BY <1>1, <2>3, <3>2
  <2> QED
    BY <2>2, <2>3
<1>9. CASE NewKey(c, n) = NoKey
  <2>1. k = 0 /\ News(c, k) = <<>>
    BY <1>1, <1>9 DEF NewKey, News
  <2>2. out \in Seq(Events)
    BY DEF RInv, IInv, TypeOK
  <2>3. out' = out \o Posted(c, n)
    <3>1. out \o <<>> = out
      BY <2>2
    <3> QED
      BY <1>6, <2>1, <3>1
  <2> QED
    BY <1>2, <1>5, <1>8, <1>9, <2>1, <2>3 DEF Feed!Chunk, fresh, listed
<1>10. CASE NewKey(c, n) # NoKey
  <2>1. NewKey(c, n) = p
    BY <1>1, <1>10 DEF NewKey
  <2>2. k > 0 \/ Feed!Announced(p)
    <3>1. ASSUME k = 0 PROVE Feed!Announced(p)
      <4>1. key[c] = p
        BY <1>1, <2>1, <3>1 DEF NewKey
      <4> QED
        BY <1>1, <4>1 DEF RInv, KeyIsAnnounced, Feed!Announced
    <3> QED
      BY <1>1, <3>1
  <2> QED
    BY <1>2, <1>5, <1>6, <1>7, <1>8, <2>1, <2>2 DEF Feed!Chunk, fresh, listed
<1> QED
  BY <1>9, <1>10

(* A quiet step closes a channel of the relay, or leaves the relay as it   *)
(* is.                                                                     *)
LEMMA QuietRelayed ==
    ASSUME RInv, Quiet
    PROVE  [Feed!Next]_(Feed!vars)
<1>1. CASE UNCHANGED <<out, listed>>
  BY <1>1 DEF Feed!vars, listed
<1>2. ASSUME NEW k \in listed, out' = Append(out, ClosedChannel(k)),
             listed' = listed \ {k}
      PROVE  Feed!Next
  <2>1. Feed!Close(k)
    BY <1>2 DEF Feed!Close, ClosedChannel, listed
  <2> QED
    BY <2>1 DEF Feed!Next, listed
<1> QED
  BY <1>1, <1>2 DEF Quiet

(* Sockets, frames, the shared queue and the connections behind a key add  *)
(* nothing that the rest of the server could see: the daemon behaves as    *)
(* the list and the stream of events that Relay describes.                 *)
THEOREM ImplementsRelay == Spec => IsRelay
<1>1. Init => Feed!Init
  BY DEF Init, Feed!Init
<1>2. RInv /\ [Next]_vars => [Feed!Next]_(Feed!vars)
  <2> SUFFICES ASSUME RInv, [Next]_vars PROVE [Feed!Next]_(Feed!vars)
    OBVIOUS
  <2>1. ASSUME NEW c \in Conns, NEW n \in 1..MaxFrames, OnClientData(c, n)
        PROVE  Feed!Next
    <3>1. PICK p \in Pids : p = pid[c]
      BY <2>1, ChunkFacts
    <3>2. PICK k \in Nat : k = Cardinality(Regs(c, n))
      BY <2>1, ChunkFacts
    <3>3. k \in 0..(Len(out') - Len(out)) /\ Feed!Chunk(p, k)
      BY <2>1, <3>1, <3>2, ChunkRelayed
    <3> QED
      BY <3>3 DEF Feed!Next
  <2>2. CASE ~(\E c \in Conns : \E n \in 1..MaxFrames : OnClientData(c, n))
    BY <2>2, OthersQuiet, QuietRelayed
  <2> QED
    BY <2>1, <2>2
<1> QED
  BY <1>1, <1>2, RelayInvariant, PTL DEF Spec, IsRelay, Feed!Spec
=============================================================================
