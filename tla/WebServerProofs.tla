--------------------------- MODULE WebServerProofs ---------------------------
(* Theorems about WebServer, for any sessions, channels, delay and number  *)
(* of broadcasts.                                                          *)
EXTENDS WebServer, TLAPS

(* What is known of a batch wherever its number turns up: it has been      *)
(* broadcast, and it waits under no other channel than its own.            *)
Traced ==
    /\ \A ch \in Channels : \A b \in ToSet(backup[ch]) :
          b \in 1..Len(log) /\ log[b] = ch
    /\ \A i \in 1..Len(timers) : timers[i].batch \in 1..Len(log)
    /\ delivered \subseteq 1..Len(log) /\ expired \subseteq 1..Len(log)

IInv == /\ TypeOK /\ RoomsAreLive /\ BacklogOnlyWhenEmpty
        /\ Traced /\ BacklogHasTimers /\ EachBatchOnce

-----------------------------------------------------------------------------
(* The elements of the sequences that a backlog goes through.              *)
LEMMA SetOfEmpty == ToSet(<<>>) = {}
BY DEF ToSet

(* The set of a sequence of one.                                           *)
LEMMA SetOfOne == ASSUME NEW b \in Nat PROVE ToSet(<<b>>) = {b}
BY DEF ToSet

(* The set of a sequence after an append.                                  *)
LEMMA SetOfAppend ==
    ASSUME NEW s \in Seq(Nat), NEW b \in Nat
    PROVE  ToSet(Append(s, b)) = ToSet(s) \cup {b}
<1>1. DOMAIN Append(s, b) = 1..(Len(s) + 1) /\ DOMAIN s = 1..Len(s)
  OBVIOUS
<1>2. ASSUME NEW x PROVE x \in ToSet(Append(s, b)) <=> x \in ToSet(s) \cup {b}
  <2>1. ASSUME x \in ToSet(Append(s, b)) PROVE x \in ToSet(s) \cup {b}
    <3>1. PICK i \in 1..(Len(s) + 1) : x = Append(s, b)[i]
      BY <1>1, <2>1 DEF ToSet
    <3> QED
      BY <1>1, <3>1 DEF ToSet
  <2>2. ASSUME x \in ToSet(s) PROVE x \in ToSet(Append(s, b))
    <3>1. PICK i \in 1..Len(s) : x = s[i]
      BY <1>1, <2>2 DEF ToSet
    <3>2. i \in 1..(Len(s) + 1) /\ Append(s, b)[i] = x
      BY <3>1
    <3> QED
      BY <1>1, <3>2 DEF ToSet
  <2>3. b \in ToSet(Append(s, b))
    <3>1. Len(s) + 1 \in 1..(Len(s) + 1) /\ Append(s, b)[Len(s) + 1] = b
      OBVIOUS
    <3> QED
      BY <1>1, <3>1 DEF ToSet
  <2> QED
    BY <2>1, <2>2, <2>3
<1> QED
  BY <1>2

(* The set of a sequence by its places.                                    *)
LEMMA SetByIndex ==
    ASSUME NEW s \in Seq(Nat)
    PROVE  {s[i] : i \in 1..Len(s)} = ToSet(s) /\ ToSet(s) \subseteq Nat
BY DEF ToSet

(* What clients.emit does, in terms of sets.                               *)
LEMMA EmitFacts ==
    ASSUME TypeOK, NEW members \in SUBSET Clients, NEW batches \in Seq(Nat),
           Emit(members, batches)
    PROVE  /\ got' \in [Clients -> Seq(Nat)] /\ delivered' \in SUBSET Nat
           /\ members = {} => got' = got /\ delivered' = delivered
           /\ members # {} => delivered' = delivered \cup ToSet(batches)
<1>1. {batches[i] : i \in 1..Len(batches)} = ToSet(batches) /\ ToSet(batches) \subseteq Nat
  BY SetByIndex
<1>2. got \in [Clients -> Seq(Nat)] /\ delivered \in SUBSET Nat
  BY DEF TypeOK
<1>3. \A c \in Clients : got[c] \o batches \in Seq(Nat)
  BY <1>2
<1>4. got' = [c \in Clients |-> IF c \in members THEN got[c] \o batches ELSE got[c]]
  BY DEF Emit
<1>5. delivered' = IF members = {} THEN delivered ELSE delivered \cup ToSet(batches)
  BY <1>1 DEF Emit
<1>6. got' \in [Clients -> Seq(Nat)]
  BY <1>2, <1>3, <1>4
<1>7. members = {} => got' = got
  BY <1>2, <1>4
<1> QED
  BY <1>1, <1>2, <1>5, <1>6, <1>7

(* Sequences of anything.                                                  *)
LEMMA SeqFacts ==
    ASSUME NEW S, NEW s \in Seq(S)
    PROVE  /\ <<>> \in Seq(S)
           /\ \A e \in S : Append(s, e) \in Seq(S)
           /\ \A i \in 1..Len(s) : s[i] \in S
           /\ s # <<>> => Tail(s) \in Seq(S) /\ Head(s) = s[1] /\ 1 \in 1..Len(s)
OBVIOUS

(* Rooms and channels.                                                     *)
LEMMA RoomTypes ==
    /\ \A k \in Keys : RoomOf(k) = k /\ k \in Rooms /\ k \in Channels
                       /\ k # Info /\ k # Root
    /\ \A ch \in Channels : RoomOf(ch) \in Rooms
    /\ {Info, Root} \subseteq Rooms
BY WebServerAssumption DEF RoomOf, Rooms, Channels

-----------------------------------------------------------------------------
(* Types.                                                                  *)
LEMMA BroadcastType ==
    ASSUME TypeOK, Traced, NEW ch \in Channels, Broadcast(ch)
    PROVE  TypeOK'
<1> DEFINE batch == Len(log) + 1
           members == rooms[RoomOf(ch)]
<1>1. log \in Seq(Channels) /\ batch \in Nat /\ log' = Append(log, ch)
  BY DEF TypeOK, Broadcast
<1>2. members \in SUBSET Clients /\ <<batch>> \in Seq(Nat)
  BY <1>1, RoomTypes DEF TypeOK
<1>3. Emit(members, <<batch>>)
  BY DEF Broadcast
<1> HIDE DEF members, batch
<1>4. got' \in [Clients -> Seq(Nat)] /\ delivered' \in SUBSET Nat
  BY <1>2, <1>3, EmitFacts
<1>5. backup' \in [Channels -> Seq(Nat)]
  <2>1. backup \in [Channels -> Seq(Nat)] /\ Append(backup[ch], batch) \in Seq(Nat)
    BY <1>1 DEF TypeOK
  <2> QED
    BY <2>1 DEF Broadcast, batch
<1>6. timers' \in Seq([batch : Nat, left : 0..Keep])
  <2>1. [batch |-> batch, left |-> Keep] \in [batch : Nat, left : 0..Keep]
    BY <1>1, WebServerAssumption
  <2>2. timers \in Seq([batch : Nat, left : 0..Keep])
    BY DEF TypeOK
  <2>3. timers' = timers \/ timers' = Append(timers, [batch |-> batch, left |-> Keep])
    BY DEF Broadcast, Arm, batch
  <2>4. Append(timers, [batch |-> batch, left |-> Keep]) \in Seq([batch : Nat, left : 0..Keep])
    BY <2>1, <2>2, SeqFacts
  <2> QED
    BY <2>2, <2>3, <2>4
<1> QED
  BY <1>1, <1>4, <1>5, <1>6 DEF TypeOK, Broadcast, membership

(* A step keeps the types.                                                 *)
LEMMA TypePreserved ==
    ASSUME TypeOK, Traced, [Next]_vars
    PROVE  TypeOK'
<1>1. ASSUME NEW c \in Clients, OnWsConnection(c) PROVE TypeOK'
  BY <1>1, RoomTypes DEF OnWsConnection, Join, TypeOK, fates
<1>2. ASSUME NEW c \in Clients, OnDisconnect(c) PROVE TypeOK'
  BY <1>2 DEF OnDisconnect, TypeOK, fates
<1>3. ASSUME NEW c \in Clients, NEW k \in Keys, OnSubscribe(c, k) PROVE TypeOK'
  <2>1. rooms' \in [Rooms -> SUBSET Clients] /\ roomClients' \in [Clients -> SUBSET Rooms]
    BY <1>3, RoomTypes DEF OnSubscribe, Join, TypeOK
  <2>2. rooms'[RoomOf(k)] \in SUBSET Clients /\ backup[k] \in Seq(Nat)
    BY <2>1, RoomTypes DEF TypeOK
  <2>3. got' \in [Clients -> Seq(Nat)] /\ delivered' \in SUBSET Nat
    BY <1>3, <2>2, EmitFacts DEF OnSubscribe
  <2>4. backup' \in [Channels -> Seq(Nat)]
    BY <1>3, <2>2, SeqFacts DEF OnSubscribe, TypeOK
  <2> QED
    BY <1>3, <2>1, <2>3, <2>4 DEF OnSubscribe, TypeOK
<1>4. ASSUME NEW c \in Clients, NEW k \in Keys, OnUnsubscribe(c, k) PROVE TypeOK'
  BY <1>4 DEF OnUnsubscribe, Leave, TypeOK, fates
<1>5. ASSUME NEW ch \in Channels, Broadcast(ch) PROVE TypeOK'
  BY <1>5, BroadcastType
<1>6. CASE Timeout
  <2> DEFINE ch == log[Head(timers).batch]
  <2>1. timers \in Seq([batch : Nat, left : 0..Keep]) /\ timers # <<>>
    BY <1>6 DEF TypeOK, Timeout
  <2>2. ch \in Channels
    <3>1. Head(timers).batch \in 1..Len(log)
      BY <2>1, SeqFacts DEF Traced
    <3> QED
      BY <3>1 DEF TypeOK
  <2>3. backup[ch] \in Seq(Nat) /\ ToSet(backup[ch]) \subseteq Nat /\ <<>> \in Seq(Nat)
    BY <2>2, SetByIndex, SeqFacts DEF TypeOK
  <2>5. backup' = [backup EXCEPT ![ch] = <<>>] /\ expired' = expired \cup ToSet(backup[ch])
    BY <1>6 DEF Timeout
  <2> HIDE DEF ch
  <2>6. backup' \in [Channels -> Seq(Nat)] /\ expired' \in SUBSET Nat
    BY <2>3, <2>5 DEF TypeOK
  <2>4. timers' \in Seq([batch : Nat, left : 0..Keep])
    BY <1>6, <2>1, SeqFacts DEF Timeout
  <2> QED
    BY <1>6, <2>4, <2>6 DEF Timeout, TypeOK, membership
<1>7. CASE Tick
  <2>1. timers \in Seq([batch : Nat, left : 0..Keep])
    BY DEF TypeOK
  <2>2. \A i \in 1..Len(timers) :
           [batch |-> timers[i].batch,
            left  |-> IF timers[i].left > 0 THEN timers[i].left - 1 ELSE 0]
              \in [batch : Nat, left : 0..Keep]
    <3> TAKE i \in 1..Len(timers)
    <3>1. timers[i] \in [batch : Nat, left : 0..Keep]
      BY <2>1, SeqFacts
    <3> QED
      BY <3>1, WebServerAssumption
  <2>3. timers' \in Seq([batch : Nat, left : 0..Keep])
    BY <1>7, <2>1, <2>2 DEF Tick
  <2> QED
    BY <1>7, <2>3 DEF Tick, TypeOK, membership, fates
<1>8. CASE UNCHANGED vars
  BY <1>8 DEF vars, TypeOK
<1> QED
  BY <1>1, <1>2, <1>3, <1>4, <1>5, <1>6, <1>7, <1>8 DEF Next

-----------------------------------------------------------------------------
(* Rooms and backlogs.                                                     *)
LEMMA RoomsPreserved ==
    ASSUME TypeOK, RoomsAreLive, [Next]_vars
    PROVE  RoomsAreLive'
<1> USE DEF RoomsAreLive
<1>1. ASSUME NEW c \in Clients, OnWsConnection(c) PROVE RoomsAreLive'
  BY <1>1, RoomTypes DEF OnWsConnection, Join, TypeOK
<1>2. ASSUME NEW c \in Clients, OnDisconnect(c) PROVE RoomsAreLive'
  <2>1. \A r \in Rooms : rooms'[r] = rooms[r] \ {c}
    BY <1>2 DEF OnDisconnect, TypeOK
  <2>2. \A d \in Clients : roomClients'[d] = IF d = c THEN {} ELSE roomClients[d]
    BY <1>2 DEF OnDisconnect, TypeOK
  <2> QED
    BY <1>2, <2>1, <2>2, RoomTypes DEF OnDisconnect, TypeOK
<1>3. ASSUME NEW c \in Clients, NEW k \in Keys, OnSubscribe(c, k) PROVE RoomsAreLive'
  BY <1>3, RoomTypes DEF OnSubscribe, Join, TypeOK
<1>4. ASSUME NEW c \in Clients, NEW k \in Keys, OnUnsubscribe(c, k) PROVE RoomsAreLive'
  <2>1. \A r \in Rooms : rooms'[r] = IF r = k THEN rooms[r] \ {c} ELSE rooms[r]
    BY <1>4 DEF OnUnsubscribe, Leave
  <2>2. \A d \in Clients : \A r \in Rooms :
           r \in roomClients'[d] <=> r \in roomClients[d] /\ ~(d = c /\ r = k /\ rooms[k] # {})
    BY <1>4 DEF OnUnsubscribe, Leave, TypeOK
  <2>3. \A d \in Clients, r \in Rooms : d \in rooms'[r] <=> r \in roomClients'[d]
    <3> TAKE d \in Clients, r \in Rooms
    <3>1. d \in rooms'[r] <=> d \in rooms[r] /\ ~(d = c /\ r = k)
      BY <2>1
    <3>2. r \in roomClients'[d] <=> r \in roomClients[d] /\ ~(d = c /\ r = k /\ rooms[k] # {})
      BY <2>2
    <3>3. d \in rooms[r] <=> r \in roomClients[d]
      OBVIOUS
    <3>4. r = k /\ rooms[k] = {} => d \notin rooms[r]
      OBVIOUS
    <3> QED
      BY <3>1, <3>2, <3>3, <3>4
  <2>4. connected' = connected /\ rooms'[Root] = rooms[Root] /\ rooms'[Info] = rooms[Info]
    BY <1>4, <2>1, RoomTypes DEF OnUnsubscribe
  <2>5. \A r \in Rooms : rooms'[r] \subseteq rooms[r]
    BY <2>1
  <2> QED
    BY <2>3, <2>4, <2>5
<1>5. CASE UNCHANGED membership
  BY <1>5 DEF membership
<1> QED
  BY <1>1, <1>2, <1>3, <1>4, <1>5 DEF Next, Broadcast, Timeout, Tick, vars, membership

(* A step keeps BacklogOnlyWhenEmpty.                                      *)
LEMMA EmptyPreserved ==
    ASSUME TypeOK, Traced, RoomsAreLive, BacklogOnlyWhenEmpty, [Next]_vars
    PROVE  BacklogOnlyWhenEmpty'
<1> USE DEF BacklogOnlyWhenEmpty
<1>1. ASSUME NEW c \in Clients, OnWsConnection(c) PROVE BacklogOnlyWhenEmpty'
  BY <1>1, RoomTypes DEF OnWsConnection, Join, TypeOK
<1>2. ASSUME NEW c \in Clients, OnDisconnect(c) PROVE BacklogOnlyWhenEmpty'
  BY <1>2, RoomTypes DEF OnDisconnect, TypeOK
<1>3. ASSUME NEW c \in Clients, NEW k \in Keys, OnSubscribe(c, k)
      PROVE  BacklogOnlyWhenEmpty'
  BY <1>3, RoomTypes DEF OnSubscribe, Join, TypeOK
<1>4. ASSUME NEW c \in Clients, NEW k \in Keys, OnUnsubscribe(c, k)
      PROVE  BacklogOnlyWhenEmpty'
  BY <1>4, RoomTypes DEF OnUnsubscribe, Leave, TypeOK
<1>5. ASSUME NEW ch \in Channels, Broadcast(ch) PROVE BacklogOnlyWhenEmpty'
  BY <1>5, RoomTypes DEF Broadcast, membership, TypeOK
<1>6. CASE Timeout
  BY <1>6, RoomTypes DEF Timeout, membership, TypeOK
<1>7. CASE Tick
  BY <1>7 DEF Tick, membership
<1>8. CASE UNCHANGED vars
  BY <1>8 DEF vars
<1> QED
  BY <1>1, <1>2, <1>3, <1>4, <1>5, <1>6, <1>7, <1>8 DEF Next

-----------------------------------------------------------------------------
(* The fate of a batch.  Three actions change it; each has its facts first.*)
LEMMA SubscribeFacts ==
    ASSUME TypeOK, NEW c \in Clients, NEW k \in Keys, OnSubscribe(c, k)
    PROVE  /\ k \in Channels /\ backup[k] \in Seq(Nat)
           /\ rooms'[RoomOf(k)] \in (SUBSET Clients) \ {{}}
           /\ Emit(rooms'[RoomOf(k)], backup[k])
           /\ backup' = [backup EXCEPT ![k] = <<>>]
           /\ delivered' = delivered \cup ToSet(backup[k])
           /\ timers' = timers /\ log' = log /\ expired' = expired
<1>1. k \in Channels /\ backup[k] \in Seq(Nat)
  BY RoomTypes DEF TypeOK
<1>2. rooms'[RoomOf(k)] \in (SUBSET Clients) \ {{}}
  <2>1. rooms'[k] = rooms[k] \cup {c} /\ RoomOf(k) = k
    BY RoomTypes DEF OnSubscribe, Join
  <2> QED
    BY <2>1, RoomTypes DEF TypeOK
<1>3. Emit(rooms'[RoomOf(k)], backup[k]) /\ backup' = [backup EXCEPT ![k] = <<>>]
      /\ timers' = timers /\ log' = log /\ expired' = expired
  BY DEF OnSubscribe
<1>4. delivered' = delivered \cup ToSet(backup[k])
  BY <1>1, <1>2, <1>3, EmitFacts
<1> QED
  BY <1>1, <1>2, <1>3, <1>4

(* What a broadcast does to the room and its timers.                       *)
LEMMA BroadcastFacts ==
    ASSUME TypeOK, NEW ch \in Channels, Broadcast(ch)
    PROVE  LET batch   == Len(log) + 1
               members == rooms[RoomOf(ch)]
           IN  /\ batch \in Nat /\ Len(log') = batch /\ log'[batch] = ch
               /\ \A b \in 1..Len(log) : log'[b] = log[b] /\ b # batch
               /\ log' = Append(log, ch) /\ expired' = expired
               /\ members \in SUBSET Clients /\ Emit(members, <<batch>>)
               /\ members # {} => delivered' = delivered \cup {batch}
               /\ members = {} => delivered' = delivered /\ got' = got
               /\ members = {} /\ ch # Info =>
                     /\ backup' = [backup EXCEPT ![ch] = Append(@, batch)]
                     /\ ToSet(backup'[ch]) = ToSet(backup[ch]) \cup {batch}
                     /\ timers' = Append(timers, [batch |-> batch, left |-> Keep])
               /\ ~(members = {} /\ ch # Info) => backup' = backup /\ timers' = timers
<1> DEFINE batch == Len(log) + 1
           members == rooms[RoomOf(ch)]
<1>1. batch \in Nat /\ log \in Seq(Channels) /\ log' = Append(log, ch) /\ expired' = expired
  BY DEF TypeOK, Broadcast
<1>2. /\ Len(log') = batch /\ log'[batch] = ch
      /\ \A b \in 1..Len(log) : log'[b] = log[b] /\ b # batch
  BY <1>1
<1>3. members \in SUBSET Clients /\ Emit(members, <<batch>>) /\ <<batch>> \in Seq(Nat)
  BY <1>1, RoomTypes DEF TypeOK, Broadcast
<1>4. /\ members # {} => delivered' = delivered \cup {batch}
      /\ members = {} => delivered' = delivered /\ got' = got
  <2> HIDE DEF members, batch
  <2>1. ToSet(<<batch>>) = {batch}
    BY <1>1, SetOfOne
  <2> QED
    BY <1>3, <2>1, EmitFacts
<1>5. ASSUME members = {}, ch # Info
      PROVE  /\ backup' = [backup EXCEPT ![ch] = Append(@, batch)]
             /\ ToSet(backup'[ch]) = ToSet(backup[ch]) \cup {batch}
             /\ timers' = Append(timers, [batch |-> batch, left |-> Keep])
  <2>1. backup' = [backup EXCEPT ![ch] = Append(@, batch)]
        /\ timers' = Append(timers, [batch |-> batch, left |-> Keep])
    BY <1>5 DEF Broadcast, Arm
  <2>2. backup'[ch] = Append(backup[ch], batch) /\ backup[ch] \in Seq(Nat)
    BY <2>1 DEF TypeOK
  <2> QED
    BY <1>1, <2>1, <2>2, SetOfAppend
<1>6. ~(members = {} /\ ch # Info) => backup' = backup /\ timers' = timers
  BY DEF Broadcast
<1> QED
  BY <1>1, <1>2, <1>3, <1>4, <1>5, <1>6

(* What an expired timer does to the room.                                 *)
LEMMA TimeoutFacts ==
    ASSUME TypeOK, Traced, Timeout
    PROVE  \E ch \in Channels :
               /\ timers \in Seq([batch : Nat, left : 0..Keep]) /\ timers # <<>>
               /\ timers' = Tail(timers) /\ ch = log[timers[1].batch]
               /\ backup' = [backup EXCEPT ![ch] = <<>>]
               /\ expired' = expired \cup ToSet(backup[ch])
               /\ log' = log /\ got' = got /\ delivered' = delivered
<1>1. timers \in Seq([batch : Nat, left : 0..Keep]) /\ timers # <<>>
  BY DEF TypeOK, Timeout
<1>2. Head(timers) = timers[1] /\ timers[1].batch \in 1..Len(log)
  BY <1>1, SeqFacts DEF Traced
<1>3. log[timers[1].batch] \in Channels
  BY <1>2 DEF TypeOK
<1> QED
  BY <1>1, <1>2, <1>3 DEF Timeout

(* The steps that leave every batch where it is.                           *)
Idle == UNCHANGED <<backup, log, delivered, expired>> /\ Len(timers') = Len(timers)
        /\ \A i \in 1..Len(timers) : timers'[i].batch = timers[i].batch

(* The steps that leave the backlog alone.                                 *)
LEMMA IdleSteps ==
    ASSUME TypeOK, [Next]_vars,
           ~(\E c \in Clients, k \in Keys : OnSubscribe(c, k)),
           ~(\E ch \in Channels : Broadcast(ch)), ~Timeout
    PROVE  Idle
<1>1. CASE Tick
  <2>1. timers \in Seq([batch : Nat, left : 0..Keep])
    BY DEF TypeOK
  <2>2. Len(timers') = Len(timers) /\ \A i \in 1..Len(timers) : timers'[i].batch = timers[i].batch
    BY <1>1, <2>1 DEF Tick
  <2> QED
    BY <1>1, <2>2 DEF Idle, Tick, fates
<1>2. CASE UNCHANGED <<backup, log, delivered, expired, timers>>
  BY <1>2 DEF Idle
<1> QED
  BY <1>1, <1>2 DEF Next, vars, OnWsConnection, OnDisconnect, OnUnsubscribe, fates

-----------------------------------------------------------------------------

(* A step keeps where the backlog and the received messages come from.     *)
LEMMA TracedPreserved ==
    ASSUME TypeOK, Traced, [Next]_vars
    PROVE  Traced'
<1> USE DEF Traced
<1>0. log \in Seq(Channels) /\ backup \in [Channels -> Seq(Nat)]
  BY DEF TypeOK
<1>1. ASSUME NEW c \in Clients, NEW k \in Keys, OnSubscribe(c, k) PROVE Traced'
  <2>1. \A ch \in Channels : ToSet(backup'[ch]) \subseteq ToSet(backup[ch])
    BY <1>0, <1>1, SubscribeFacts, SetOfEmpty
  <2>2. /\ log' = log /\ timers' = timers /\ expired' = expired
        /\ delivered' = delivered \cup ToSet(backup[k]) /\ k \in Channels
    BY <1>1, SubscribeFacts DEF Channels
  <2>3. ToSet(backup[k]) \subseteq 1..Len(log)
    BY <2>2
  <2> QED
    BY <2>1, <2>2, <2>3
<1>2. ASSUME NEW ch \in Channels, Broadcast(ch) PROVE Traced'
  <2> DEFINE batch == Len(log) + 1
             later == rooms[RoomOf(ch)] = {} /\ ch # Info
  <2>1. /\ Len(log') = batch /\ log'[batch] = ch /\ batch \in Nat
        /\ \A b \in 1..Len(log) : b \in 1..batch /\ log'[b] = log[b]
    <3>1. log' = Append(log, ch)
      BY <1>2, BroadcastFacts
    <3>2. /\ Len(log) \in Nat /\ Len(log') = Len(log) + 1
          /\ log'[Len(log) + 1] = ch
          /\ \A b \in 1..Len(log) : log'[b] = log[b]
      BY <1>0, <3>1
    <3> QED
      BY <3>2
  <2>2. delivered' \subseteq delivered \cup {batch} /\ expired' = expired
    BY <1>2, BroadcastFacts
  <2>3. /\ later => ToSet(backup'[ch]) = ToSet(backup[ch]) \cup {batch}
        /\ ~later => backup' = backup
        /\ \A d \in Channels \ {ch} : backup'[d] = backup[d]
    BY <1>0, <1>2, BroadcastFacts
  <2>4. timers' = timers \/ timers' = Append(timers, [batch |-> batch, left |-> Keep])
    BY <1>2, BroadcastFacts
  <2>5. \A i \in 1..Len(timers') : timers'[i].batch \in 1..batch
    <3>1. timers \in Seq([batch : Nat, left : 0..Keep])
      BY DEF TypeOK
    <3>2. \A i \in 1..Len(timers) : timers[i].batch \in 1..batch
      BY <2>1
    <3>3. batch \in 1..batch
      BY <2>1
    <3>4. CASE timers' = timers
      BY <3>2, <3>4
    <3>5. CASE timers' = Append(timers, [batch |-> batch, left |-> Keep])
      <4>1. Len(timers') = Len(timers) + 1
            /\ \A i \in 1..Len(timers) : timers'[i] = timers[i]
        BY <3>1, <3>5
      <4>2. timers'[Len(timers) + 1].batch = batch
        BY <3>1, <3>5
      <4> QED
        BY <3>1, <3>2, <3>3, <4>1, <4>2
    <3> QED
      BY <2>4, <3>4, <3>5
  <2>6. \A d \in Channels : \A b \in ToSet(backup'[d]) : b \in 1..batch /\ log'[b] = d
    <3> HIDE DEF later
    <3> TAKE d \in Channels
    <3> TAKE b \in ToSet(backup'[d])
    <3>1. CASE b \in ToSet(backup[d])
      BY <2>1, <3>1
    <3>2. CASE b \notin ToSet(backup[d])
      <4>1. d = ch /\ b = batch
        BY <2>3, <3>2
      <4> QED
        BY <2>1, <4>1
    <3> QED
      BY <3>1, <3>2
  <2>7. delivered' \subseteq 1..batch /\ expired' \subseteq 1..batch
    BY <2>1, <2>2
  <2> QED
    BY <2>1, <2>5, <2>6, <2>7
<1>3. CASE Timeout
  <2>1. PICK ch \in Channels :
            /\ timers \in Seq([batch : Nat, left : 0..Keep]) /\ timers # <<>>
            /\ timers' = Tail(timers)
            /\ backup' = [backup EXCEPT ![ch] = <<>>]
            /\ expired' = expired \cup ToSet(backup[ch])
            /\ log' = log /\ delivered' = delivered
    BY <1>3, TimeoutFacts
  <2>2. \A d \in Channels : ToSet(backup'[d]) \subseteq ToSet(backup[d])
    BY <1>0, <2>1, SetOfEmpty
  <2>3. \A i \in 1..Len(timers') : timers'[i] = timers[i + 1] /\ i + 1 \in 1..Len(timers)
    BY <2>1
  <2>4. \A i \in 1..Len(timers') : timers'[i].batch \in 1..Len(log)
    BY <2>3
  <2> QED
    BY <2>1, <2>2, <2>4
<1>4. CASE Idle
  BY <1>4 DEF Idle
<1> QED
  BY <1>1, <1>2, <1>3, <1>4, IdleSteps

(* A step keeps one timer for each message in the backlog.                 *)
LEMMA TimersPreserved ==
    ASSUME TypeOK, Traced, BacklogHasTimers, [Next]_vars
    PROVE  BacklogHasTimers'
<1> USE DEF BacklogHasTimers
<1>0. backup \in [Channels -> Seq(Nat)] /\ timers \in Seq([batch : Nat, left : 0..Keep])
  BY DEF TypeOK
<1>1. ASSUME NEW c \in Clients, NEW k \in Keys, OnSubscribe(c, k) PROVE BacklogHasTimers'
  <2>1. \A ch \in Channels : ToSet(backup'[ch]) \subseteq ToSet(backup[ch])
    BY <1>0, <1>1, SubscribeFacts, SetOfEmpty
  <2> QED
    BY <1>1, <2>1, SubscribeFacts
<1>2. ASSUME NEW ch \in Channels, Broadcast(ch) PROVE BacklogHasTimers'
  <2> DEFINE batch == Len(log) + 1
             timer == [batch |-> batch, left |-> Keep]
  <2>1. CASE backup' = backup /\ timers' = timers
    BY <2>1
  <2>2. CASE /\ backup' = [backup EXCEPT ![ch] = Append(@, batch)]
             /\ ToSet(backup'[ch]) = ToSet(backup[ch]) \cup {batch}
             /\ timers' = Append(timers, timer)
    <3>1. Len(timers') = Len(timers) + 1 /\ Len(timers) \in Nat
          /\ \A i \in 1..Len(timers) : timers'[i] = timers[i] /\ i \in 1..Len(timers')
      BY <1>0, <2>2
    <3>2. timers'[Len(timers) + 1] = timer /\ timer.batch = batch
      BY <1>0, <2>2
    <3>3. \A d \in Channels : ToSet(backup'[d]) \subseteq ToSet(backup[d]) \cup {batch}
      BY <1>0, <2>2
    <3> HIDE DEF batch, timer
    <3> SUFFICES ASSUME NEW d \in Channels, NEW b \in ToSet(backup'[d])
                 PROVE  \E i \in 1..Len(timers') : timers'[i].batch = b
      OBVIOUS
    <3>4. CASE b = batch
      BY <3>1, <3>2, <3>4
    <3>5. CASE b \in ToSet(backup[d])
      <4>1. PICK i \in 1..Len(timers) : timers[i].batch = b
        BY <3>5
      <4> QED
        BY <3>1, <4>1
    <3> QED
      BY <3>3, <3>4, <3>5
  <2> QED
    BY <1>2, <2>1, <2>2, BroadcastFacts
<1>3. CASE Timeout
  <2>1. PICK ch \in Channels :
            /\ timers # <<>> /\ timers' = Tail(timers) /\ ch = log[timers[1].batch]
            /\ backup' = [backup EXCEPT ![ch] = <<>>] /\ log' = log
    BY <1>3, TimeoutFacts
  <2> SUFFICES ASSUME NEW d \in Channels, NEW b \in ToSet(backup'[d])
               PROVE  \E i \in 1..Len(timers') : timers'[i].batch = b
    OBVIOUS
  <2>2. d # ch /\ b \in ToSet(backup[d])
    BY <1>0, <2>1, SetOfEmpty
  <2>3. PICK i \in 1..Len(timers) : timers[i].batch = b
    BY <2>2
  <2>4. i # 1
    BY <2>1, <2>2, <2>3 DEF Traced
  <2>5. i - 1 \in 1..Len(timers') /\ timers'[i - 1] = timers[i]
    BY <1>0, <2>1, <2>4
  <2> QED
    BY <2>3, <2>5
<1>4. CASE Idle
  BY <1>4 DEF Idle
<1> QED
  BY <1>1, <1>2, <1>3, <1>4, IdleSteps

(* A batch waits, has been delivered or has expired, never two of these.   *)
LEMMA OncePreserved ==
    ASSUME TypeOK, Traced, EachBatchOnce, [Next]_vars
    PROVE  EachBatchOnce'
<1> USE DEF EachBatchOnce
<1>0. log \in Seq(Channels) /\ backup \in [Channels -> Seq(Nat)]
  BY DEF TypeOK
<1>1. ASSUME NEW c \in Clients, NEW k \in Keys, OnSubscribe(c, k) PROVE EachBatchOnce'
  <2>1. /\ backup' = [backup EXCEPT ![k] = <<>>] /\ k \in Channels
        /\ delivered' = delivered \cup ToSet(backup[k])
        /\ log' = log /\ expired' = expired
    BY <1>1, SubscribeFacts
  <2>2. ToSet(backup'[k]) = {} /\ \A d \in Channels \ {k} : backup'[d] = backup[d]
    BY <1>0, <2>1, SetOfEmpty
  <2> SUFFICES ASSUME NEW b \in 1..Len(log), log[b] # Info
               PROVE  LET waiting == b \in ToSet(backup'[log[b]]) IN
                      /\ waiting \/ b \in delivered' \/ b \in expired'
                      /\ ~(waiting /\ b \in delivered' \cup expired')
                      /\ ~(b \in delivered' /\ b \in expired')
    BY <2>1
  <2>3. log[b] \in Channels
    BY <1>0
  <2>4. b \in ToSet(backup[k]) => log[b] = k
    BY <2>1 DEF Traced
  <2> QED
    BY <2>1, <2>2, <2>3, <2>4
<1>2. ASSUME NEW ch \in Channels, Broadcast(ch) PROVE EachBatchOnce'
  <2> DEFINE batch == Len(log) + 1
             later == rooms[RoomOf(ch)] = {} /\ ch # Info
  <2>1. /\ Len(log') = batch /\ log'[batch] = ch /\ batch \in Nat
        /\ \A b \in 1..Len(log) : log'[b] = log[b] /\ b # batch
    BY <1>2, BroadcastFacts
  <2>2. /\ expired' = expired
        /\ later => /\ ToSet(backup'[ch]) = ToSet(backup[ch]) \cup {batch}
                    /\ delivered' = delivered
        /\ ~later => backup' = backup
        /\ rooms[RoomOf(ch)] # {} => delivered' = delivered \cup {batch}
        /\ rooms[RoomOf(ch)] = {} => delivered' = delivered
        /\ \A d \in Channels \ {ch} : backup'[d] = backup[d]
    BY <1>0, <1>2, BroadcastFacts
  <2>3. batch \notin delivered \cup expired
        /\ \A d \in Channels : batch \notin ToSet(backup[d])
    BY <2>1 DEF Traced
  <2>4. Len(log) \in Nat /\ \A b \in 1..Len(log) : log[b] \in Channels
    BY <1>0
  <2> HIDE DEF later
  <2>5. ASSUME NEW b \in 1..Len(log), log[b] # Info
        PROVE  LET waiting == b \in ToSet(backup'[log[b]]) IN
               /\ waiting \/ b \in delivered' \/ b \in expired'
               /\ ~(waiting /\ b \in delivered' \cup expired')
               /\ ~(b \in delivered' /\ b \in expired')
    <3>1. log[b] \in Channels /\ b # batch
      BY <2>1, <2>4
    <3>2. b \in ToSet(backup'[log[b]]) <=> b \in ToSet(backup[log[b]])
      BY <2>2, <3>1
    <3>3. b \in delivered' <=> b \in delivered
      BY <2>2, <3>1
    <3> QED
      BY <2>2, <2>5, <3>2, <3>3
  <2>6. ASSUME ch # Info
        PROVE  LET waiting == batch \in ToSet(backup'[ch]) IN
               /\ waiting \/ batch \in delivered' \/ batch \in expired'
               /\ ~(waiting /\ batch \in delivered' \cup expired')
               /\ ~(batch \in delivered' /\ batch \in expired')
    <3>1. CASE later
      BY <2>2, <2>3, <3>1
    <3>2. CASE ~later
      <4>1. rooms[RoomOf(ch)] # {}
        BY <2>6, <3>2 DEF later
      <4> QED
        BY <2>2, <2>3, <3>2, <4>1
    <3> QED
      BY <3>1, <3>2
  <2>7. \A b \in 1..Len(log') : b = batch \/ b \in 1..Len(log)
    BY <2>1, <2>4
  <2> HIDE DEF batch
  <2> QED
    BY <2>1, <2>5, <2>6, <2>7
<1>3. CASE Timeout
  <2>1. PICK ch \in Channels :
            /\ backup' = [backup EXCEPT ![ch] = <<>>]
            /\ expired' = expired \cup ToSet(backup[ch])
            /\ log' = log /\ delivered' = delivered
    BY <1>3, TimeoutFacts
  <2>2. ToSet(backup'[ch]) = {} /\ \A d \in Channels \ {ch} : backup'[d] = backup[d]
    BY <1>0, <2>1, SetOfEmpty
  <2> SUFFICES ASSUME NEW b \in 1..Len(log), log[b] # Info
               PROVE  LET waiting == b \in ToSet(backup'[log[b]]) IN
                      /\ waiting \/ b \in delivered' \/ b \in expired'
                      /\ ~(waiting /\ b \in delivered' \cup expired')
                      /\ ~(b \in delivered' /\ b \in expired')
    BY <2>1
  <2>3. log[b] \in Channels
    BY <1>0
  <2>4. b \in ToSet(backup[ch]) => log[b] = ch
    BY DEF Traced
  <2> QED
    BY <2>1, <2>2, <2>3, <2>4
<1>4. CASE Idle
  BY <1>4 DEF Idle
<1> QED
  BY <1>1, <1>2, <1>3, <1>4, IdleSteps

-----------------------------------------------------------------------------
(* The invariant is inductive.                                             *)
LEMMA InitIInv == Init => IInv
<1> SUFFICES ASSUME Init PROVE IInv
  OBVIOUS
<1>1. TypeOK
  BY RoomTypes DEF Init, TypeOK
<1>2. RoomsAreLive
  BY RoomTypes DEF Init, RoomsAreLive
<1>3. BacklogOnlyWhenEmpty
  BY RoomTypes DEF Init, BacklogOnlyWhenEmpty
<1>4. Traced /\ BacklogHasTimers /\ EachBatchOnce
  BY SetOfEmpty DEF Init, Traced, BacklogHasTimers, EachBatchOnce
<1> QED
  BY <1>1, <1>2, <1>3, <1>4 DEF IInv

(* Every step keeps the inductive invariant.                               *)
LEMMA Inductive == IInv /\ [Next]_vars => IInv'
BY TypePreserved, RoomsPreserved, EmptyPreserved, TracedPreserved,
   TimersPreserved, OncePreserved DEF IInv

(* What holds in every state of the web server.                            *)
THEOREM WebServerInvariant == Spec => []IInv
BY InitIInv, Inductive, PTL DEF Spec

(* The state of the web server keeps its shape; a timer never waits for    *)
(* longer than the delay it was set with.                                  *)
THEOREM TypeCorrect == Spec => []TypeOK
<1>1. IInv => TypeOK
  BY DEF IInv
<1> QED
  BY <1>1, WebServerInvariant, PTL

(* The members of a room are live sessions and the two maps of socket.io   *)
(* agree, through any order of connects, subscriptions and disconnects.    *)
THEOREM RoomsAlwaysLive == Spec => []RoomsAreLive
<1>1. IInv => RoomsAreLive
  BY DEF IInv
<1> QED
  BY <1>1, WebServerInvariant, PTL

(* Only a channel that nobody watches has a backlog.                       *)
THEOREM BacklogOnlyEver == Spec => []BacklogOnlyWhenEmpty
<1>1. IInv => BacklogOnlyWhenEmpty
  BY DEF IInv
<1> QED
  BY <1>1, WebServerInvariant, PTL

(* A batch in a backlog always has its own timer still to fire, although   *)
(* timers of batches that were flushed stay set and delete later ones.     *)
THEOREM TimersEver == Spec => []BacklogHasTimers
<1>1. IInv => BacklogHasTimers
  BY DEF IInv
<1> QED
  BY <1>1, WebServerInvariant, PTL

(* A batch waits, has been emitted or has expired: none is lost and none   *)
(* is both.                                                                *)
THEOREM OnceEver == Spec => []EachBatchOnce
<1>1. IInv => EachBatchOnce
  BY DEF IInv
<1> QED
  BY <1>1, WebServerInvariant, PTL

-----------------------------------------------------------------------------
(* The order of what a session receives.  Three facts carry it.            *)

(* A session is sent only what has been broadcast.                         *)
GotLogged ==
    \A c \in Clients : \A i \in 1..Len(got[c]) : got[c][i] \in 1..Len(log)

(* The backlog of a diag channel is in the order of the broadcasts.  That  *)
(* of the undefined channel is too, but it is never emitted.               *)
BacklogInOrder ==
    \A k \in Keys : \A i, j \in 1..Len(backup[k]) :
        i < j => backup[k][i] < backup[k][j]

(* What waits for a viewer of a diag channel is newer than all that any    *)
(* session has received on it.                                             *)
WaitingIsNewer ==
    \A c \in Clients, k \in Keys :
        \A i \in 1..Len(got[c]), j \in 1..Len(backup[k]) :
            log[got[c][i]] = k => got[c][i] < backup[k][j]

OInv == IInv /\ GotLogged /\ BacklogInOrder /\ WaitingIsNewer /\ ReceivedInOrder

-----------------------------------------------------------------------------
(* A sequence that is in order stays so when batches of one channel, in    *)
(* order and newer than all it has of that channel, are appended.          *)
LEMMA AppendInOrder ==
    ASSUME NEW chan, NEW k, NEW q \in Seq(Nat), NEW s \in Seq(Nat),
           \A i, j \in 1..Len(q) : (i < j /\ chan[q[i]] = chan[q[j]]) => q[i] < q[j],
           \A j \in 1..Len(s) : chan[s[j]] = k,
           \A i, j \in 1..Len(s) : i < j => s[i] < s[j],
           \A i \in 1..Len(q), j \in 1..Len(s) : chan[q[i]] = k => q[i] < s[j],
           NEW i \in 1..Len(q \o s), NEW j \in 1..Len(q \o s),
           i < j, chan[(q \o s)[i]] = chan[(q \o s)[j]]
    PROVE  (q \o s)[i] < (q \o s)[j]
<1>1. Len(q) \in Nat /\ Len(s) \in Nat /\ Len(q \o s) = Len(q) + Len(s)
  OBVIOUS
<1>2. \A n \in 1..Len(q \o s) :
         /\ n <= Len(q) => n \in 1..Len(q) /\ (q \o s)[n] = q[n]
         /\ n > Len(q) => n - Len(q) \in 1..Len(s) /\ (q \o s)[n] = s[n - Len(q)]
  BY <1>1
<1>3. CASE j <= Len(q)
  <2>1. i \in 1..Len(q) /\ j \in 1..Len(q)
    BY <1>1, <1>2, <1>3
  <2>2. (q \o s)[i] = q[i] /\ (q \o s)[j] = q[j]
    BY <1>2, <2>1
  <2> QED
    BY <2>1, <2>2
<1>4. CASE i <= Len(q) /\ j > Len(q)
  <2>1. /\ i \in 1..Len(q) /\ (q \o s)[i] = q[i]
        /\ j - Len(q) \in 1..Len(s) /\ (q \o s)[j] = s[j - Len(q)]
    BY <1>2, <1>4
  <2> QED
    BY <2>1
<1>5. CASE i > Len(q)
  <2>1. /\ i - Len(q) \in 1..Len(s) /\ (q \o s)[i] = s[i - Len(q)]
        /\ j - Len(q) \in 1..Len(s) /\ (q \o s)[j] = s[j - Len(q)]
    BY <1>1, <1>2, <1>5
  <2>2. i - Len(q) < j - Len(q)
    BY <1>1
  <2> QED
    BY <2>1, <2>2
<1>6. i \in Nat /\ j \in Nat
  BY <1>1
<1>7. j <= Len(q) \/ (i <= Len(q) /\ j > Len(q)) \/ i > Len(q)
  BY <1>1, <1>6
<1> QED
  BY <1>3, <1>4, <1>5, <1>7, Zenon

(* What is at a place of a joined sequence.                                *)
LEMMA PlaceOf ==
    ASSUME NEW q \in Seq(Nat), NEW s \in Seq(Nat), NEW n \in 1..Len(q \o s)
    PROVE  \/ \E i \in 1..Len(q) : (q \o s)[n] = q[i]
           \/ \E j \in 1..Len(s) : (q \o s)[n] = s[j]
<1>1. CASE n <= Len(q)
  BY <1>1
<1>2. CASE n > Len(q)
  <2>1. n - Len(q) \in 1..Len(s) /\ (q \o s)[n] = s[n - Len(q)]
    BY <1>2
  <2> QED
    BY <2>1
<1> QED
  BY <1>1, <1>2

(* A batch that waits has been broadcast on the channel it waits for.      *)
LEMMA WaitingTraced ==
    ASSUME TypeOK, Traced, NEW k \in Keys, NEW j \in 1..Len(backup[k])
    PROVE  backup[k][j] \in 1..Len(log) /\ log[backup[k][j]] = k
<1>1. k \in Channels /\ backup[k] \in Seq(Nat)
  BY RoomTypes DEF TypeOK
<1>2. backup[k][j] \in ToSet(backup[k])
  BY <1>1 DEF ToSet
<1> QED
  BY <1>1, <1>2 DEF Traced

-----------------------------------------------------------------------------
(* What becomes of the receptions and the backlogs in each kind of step:   *)
(* nothing new, a backlog emitted to a room, or a broadcast.               *)
Quiet ==
    /\ log' = log
    /\ \A c \in Clients : got'[c] = got[c] \/ got'[c] = <<>>
    /\ \A k \in Keys : backup'[k] = backup[k] \/ backup'[k] = <<>>

(* The steps in which no session receives anything.                        *)
LEMMA QuietSteps ==
    ASSUME TypeOK, Traced, [Next]_vars
    PROVE  \/ Quiet
           \/ \E c \in Clients, k \in Keys : OnSubscribe(c, k)
           \/ \E ch \in Channels : Broadcast(ch)
<1>1. ASSUME NEW c \in Clients, OnWsConnection(c) PROVE Quiet
  BY <1>1 DEF OnWsConnection, Quiet, TypeOK
<1>2. ASSUME NEW c \in Clients, OnDisconnect(c) PROVE Quiet
  BY <1>2 DEF OnDisconnect, Quiet
<1>3. ASSUME NEW c \in Clients, NEW k \in Keys, OnUnsubscribe(c, k) PROVE Quiet
  BY <1>3 DEF OnUnsubscribe, Quiet
<1>4. CASE Timeout
  <2>1. PICK ch \in Channels :
            /\ backup' = [backup EXCEPT ![ch] = <<>>]
            /\ log' = log /\ got' = got
    BY <1>4, TimeoutFacts
  <2> QED
    BY <2>1, RoomTypes DEF Quiet, TypeOK
<1>5. CASE Tick
  BY <1>5 DEF Tick, Quiet
<1>6. CASE UNCHANGED vars
  BY <1>6 DEF vars, Quiet
<1> QED
  BY <1>1, <1>2, <1>3, <1>4, <1>5, <1>6 DEF Next

(* They keep the order.                                                    *)
LEMMA QuietKeepsOrder ==
    ASSUME TypeOK, GotLogged, BacklogInOrder, WaitingIsNewer, ReceivedInOrder, Quiet
    PROVE  GotLogged' /\ BacklogInOrder' /\ WaitingIsNewer' /\ ReceivedInOrder'
<1>1. \A c \in Clients : \A i \in 1..Len(got'[c]) :
         got'[c] = got[c] /\ i \in 1..Len(got[c])
  BY DEF Quiet
<1>2. \A k \in Keys : \A j \in 1..Len(backup'[k]) :
         backup'[k] = backup[k] /\ j \in 1..Len(backup[k])
  BY DEF Quiet
<1>3. GotLogged'
  BY <1>1 DEF GotLogged, Quiet
<1>4. BacklogInOrder'
  BY <1>2 DEF BacklogInOrder
<1>5. WaitingIsNewer'
  BY <1>1, <1>2 DEF WaitingIsNewer, Quiet
<1>6. ReceivedInOrder'
  BY <1>1 DEF ReceivedInOrder, Quiet
<1> QED
  BY <1>3, <1>4, <1>5, <1>6

(* The backlog that a subscription flushes comes after what the room got.  *)
LEMMA SubscribeKeepsOrder ==
    ASSUME TypeOK, Traced, GotLogged, BacklogInOrder, WaitingIsNewer, ReceivedInOrder,
           NEW c \in Clients, NEW k \in Keys, OnSubscribe(c, k)
    PROVE  GotLogged' /\ BacklogInOrder' /\ WaitingIsNewer' /\ ReceivedInOrder'
<1> DEFINE some == rooms'[RoomOf(k)]
           s    == backup[k]
<1>1. /\ s \in Seq(Nat) /\ backup' = [backup EXCEPT ![k] = <<>>] /\ log' = log
      /\ Emit(some, s) /\ k \in Channels
  BY SubscribeFacts
<1>2. \A j \in 1..Len(s) : s[j] \in 1..Len(log) /\ log[s[j]] = k
  BY WaitingTraced
<1>3. \A i, j \in 1..Len(s) : i < j => s[i] < s[j]
  BY DEF BacklogInOrder
<1>4. \A d \in Clients : \A i \in 1..Len(got[d]), j \in 1..Len(s) :
         log[got[d][i]] = k => got[d][i] < s[j]
  BY DEF WaitingIsNewer
<1>5. \A q \in Keys : q # k => backup'[q] = backup[q]
  BY <1>1, RoomTypes DEF TypeOK
<1>6. backup'[k] = <<>>
  BY <1>1 DEF TypeOK
<1>7. \A d \in Clients : got[d] \in Seq(Nat)
  BY DEF TypeOK
<1> HIDE DEF some, s
<1>8. \A d \in Clients : got'[d] = got[d] \/ got'[d] = got[d] \o s
  BY <1>1 DEF Emit
<1>9. \A d \in Clients : \A n \in 1..Len(got'[d]) :
         \/ \E i \in 1..Len(got[d]) : got'[d][n] = got[d][i]
         \/ \E j \in 1..Len(s) : got'[d][n] = s[j]
  <2> TAKE d \in Clients
  <2> TAKE n \in 1..Len(got'[d])
  <2>1. CASE got'[d] = got[d]
    BY <2>1
  <2>2. CASE got'[d] = got[d] \o s
    <3>1. n \in 1..Len(got[d] \o s) /\ got[d] \in Seq(Nat)
      BY <1>7, <2>2
    <3>2. \/ \E i \in 1..Len(got[d]) : (got[d] \o s)[n] = got[d][i]
          \/ \E j \in 1..Len(s) : (got[d] \o s)[n] = s[j]
      BY <1>1, <3>1, PlaceOf
    <3> QED
      BY <2>2, <3>2
  <2> QED
    BY <1>8, <2>1, <2>2
<1>10. GotLogged'
  <2> SUFFICES ASSUME NEW d \in Clients, NEW n \in 1..Len(got'[d])
               PROVE  got'[d][n] \in 1..Len(log')
    BY Zenon DEF GotLogged
  <2>1. log' = log
    BY <1>1, Zenon
  <2>2. CASE \E i \in 1..Len(got[d]) : got'[d][n] = got[d][i]
    BY <2>1, <2>2, Zenon DEF GotLogged
  <2>3. CASE \E j \in 1..Len(s) : got'[d][n] = s[j]
    BY <1>2, <2>1, <2>3, Zenon
  <2> QED
    BY <1>9, <2>2, <2>3, Zenon
<1>11. BacklogInOrder'
  <2> SUFFICES ASSUME NEW q \in Keys, NEW i \in 1..Len(backup'[q]),
                      NEW j \in 1..Len(backup'[q]), i < j
               PROVE  backup'[q][i] < backup'[q][j]
    BY DEF BacklogInOrder
  <2>1. q # k
    BY <1>6
  <2> QED
    BY <1>5, <2>1 DEF BacklogInOrder
<1>12. WaitingIsNewer'
  <2> SUFFICES ASSUME NEW d \in Clients, NEW q \in Keys, NEW n \in 1..Len(got'[d]),
                      NEW j \in 1..Len(backup'[q]), log[got'[d][n]] = q
               PROVE  got'[d][n] < backup'[q][j]
    <3>1. log' = log
      BY <1>1, Zenon
    <3> QED
      BY <3>1, Zenon DEF WaitingIsNewer
  <2>1. q # k
    BY <1>6
  <2>2. PICK i \in 1..Len(got[d]) : got'[d][n] = got[d][i]
    BY <1>2, <1>9, <2>1
  <2> QED
    BY <1>5, <2>1, <2>2 DEF WaitingIsNewer
<1>13. ReceivedInOrder'
  <2> SUFFICES ASSUME NEW d \in Clients,
                      NEW i \in 1..Len(got'[d]), NEW j \in 1..Len(got'[d]),
                      i < j, log[got'[d][i]] = log[got'[d][j]]
               PROVE  got'[d][i] < got'[d][j]
    BY <1>1 DEF ReceivedInOrder
  <2>1. \A m, n \in 1..Len(got[d]) :
           (m < n /\ log[got[d][m]] = log[got[d][n]]) => got[d][m] < got[d][n]
    BY DEF ReceivedInOrder
  <2>2. CASE got'[d] = got[d]
    BY <2>1, <2>2
  <2>3. CASE got'[d] = got[d] \o s
    BY <1>1, <1>2, <1>3, <1>4, <1>7, <2>1, <2>3, AppendInOrder
  <2> QED
    BY <1>8, <2>2, <2>3
<1> QED
  BY <1>10, <1>11, <1>12, <1>13

(* A broadcast is newer than everything before it, and goes past nothing   *)
(* that waits, because a channel with members has no backlog.              *)
LEMMA BroadcastKeepsOrder ==
    ASSUME TypeOK, Traced, BacklogOnlyWhenEmpty,
           GotLogged, BacklogInOrder, WaitingIsNewer, ReceivedInOrder,
           NEW ch \in Channels, Broadcast(ch)
    PROVE  GotLogged' /\ BacklogInOrder' /\ WaitingIsNewer' /\ ReceivedInOrder'
<1> DEFINE batch   == Len(log) + 1
           members == rooms[RoomOf(ch)]
           s       == <<batch>>
<1>1. /\ batch \in Nat /\ Len(log') = batch /\ log'[batch] = ch
      /\ \A b \in 1..Len(log) : log'[b] = log[b] /\ b # batch
      /\ Emit(members, s)
      /\ members = {} => got' = got
      /\ members = {} /\ ch # Info => backup' = [backup EXCEPT ![ch] = Append(@, batch)]
      /\ ~(members = {} /\ ch # Info) => backup' = backup
  BY BroadcastFacts
<1>2. \A b \in 1..Len(log) : b < batch /\ b \in 1..batch
  BY <1>1
<1>3. batch \in 1..batch
  BY <1>1
<1>4. ch \in Keys /\ members # {} => backup[ch] = <<>>
  BY RoomTypes DEF BacklogOnlyWhenEmpty
<1>5. s \in Seq(Nat) /\ Len(s) = 1 /\ s[1] = batch
  BY <1>1
<1>6. \A d \in Clients : got[d] \in Seq(Nat)
  BY DEF TypeOK
<1>7. \A k \in Keys : k \in Channels /\ backup[k] \in Seq(Nat)
  BY RoomTypes DEF TypeOK
<1> HIDE DEF members, batch, s
<1>8. \A d \in Clients : got'[d] = got[d] \/ (members # {} /\ got'[d] = got[d] \o s)
  BY <1>1 DEF Emit
<1>9. \A d \in Clients : \A n \in 1..Len(got'[d]) :
         \/ \E i \in 1..Len(got[d]) : got'[d][n] = got[d][i]
         \/ members # {} /\ got'[d][n] = batch
  <2> TAKE d \in Clients
  <2> TAKE n \in 1..Len(got'[d])
  <2>1. CASE got'[d] = got[d]
    BY <2>1
  <2>2. CASE members # {} /\ got'[d] = got[d] \o s
    <3>1. n \in 1..Len(got[d] \o s) /\ got[d] \in Seq(Nat)
      BY <1>6, <2>2
    <3>2. \/ \E i \in 1..Len(got[d]) : (got[d] \o s)[n] = got[d][i]
          \/ \E j \in 1..Len(s) : (got[d] \o s)[n] = s[j]
      BY <1>5, <3>1, PlaceOf
    <3> QED
      BY <1>5, <2>2, <3>2
  <2> QED
    BY <1>8, <2>1, <2>2
<1>10. \A k \in Keys : \A j \in 1..Len(backup[k]) :
          backup[k][j] < batch /\ backup[k][j] \in 1..Len(log)
  BY <1>2, WaitingTraced
<1>11. \A k \in Keys : \/ backup'[k] = backup[k]
                       \/ /\ k = ch /\ members = {}
                          /\ backup'[k] = Append(backup[k], batch)
  BY <1>1, <1>7 DEF TypeOK
<1>12. \A k \in Keys : \A j \in 1..Len(backup'[k]) :
          \/ j \in 1..Len(backup[k]) /\ backup'[k][j] = backup[k][j]
          \/ /\ j = Len(backup[k]) + 1 /\ backup'[k][j] = batch
             /\ k = ch /\ members = {}
  <2> TAKE k \in Keys
  <2> TAKE j \in 1..Len(backup'[k])
  <2>1. CASE backup'[k] = backup[k]
    BY <2>1
  <2>2. CASE k = ch /\ members = {} /\ backup'[k] = Append(backup[k], batch)
    <3>1. backup[k] \in Seq(Nat) /\ batch \in Nat
      BY <1>1, <1>7
    <3>2. j \in 1..(Len(backup[k]) + 1)
      BY <2>2, <3>1
    <3>3. CASE j \in 1..Len(backup[k])
      BY <2>2, <3>1, <3>3
    <3>4. CASE j = Len(backup[k]) + 1
      BY <2>2, <3>1, <3>4
    <3> QED
      BY <3>1, <3>2, <3>3, <3>4
  <2> QED
    BY <1>11, <2>1, <2>2
<1>13. GotLogged'
  BY <1>1, <1>2, <1>3, <1>9 DEF GotLogged
<1>14. BacklogInOrder'
  <2> SUFFICES ASSUME NEW k \in Keys, NEW i \in 1..Len(backup'[k]),
                      NEW j \in 1..Len(backup'[k]), i < j
               PROVE  backup'[k][i] < backup'[k][j]
    BY DEF BacklogInOrder
  <2>0. Len(backup[k]) \in Nat
    BY <1>7
  <2>1. CASE j \in 1..Len(backup[k]) /\ backup'[k][j] = backup[k][j]
    <3>1. i \in 1..Len(backup[k]) /\ backup'[k][i] = backup[k][i]
      BY <1>12, <2>0, <2>1
    <3> QED
      BY <2>1, <3>1 DEF BacklogInOrder
  <2>2. CASE j = Len(backup[k]) + 1 /\ backup'[k][j] = batch
    <3>1. i \in 1..Len(backup[k]) /\ backup'[k][i] = backup[k][i]
      BY <1>12, <2>0, <2>2
    <3> QED
      BY <1>10, <2>2, <3>1
  <2> QED
    BY <1>12, <2>1, <2>2
<1>15. WaitingIsNewer'
  <2> SUFFICES ASSUME NEW d \in Clients, NEW k \in Keys, NEW n \in 1..Len(got'[d]),
                      NEW j \in 1..Len(backup'[k]), log'[got'[d][n]] = k
               PROVE  got'[d][n] < backup'[k][j]
    BY DEF WaitingIsNewer
  <2>1. CASE members # {} /\ got'[d][n] = batch
    <3>1. k = ch /\ backup[k] = <<>>
      BY <1>1, <1>4, <2>1
    <3>2. 1..Len(backup[k]) = {}
      BY <3>1
    <3> QED
      BY <1>12, <2>1, <3>2
  <2>2. ASSUME NEW i \in 1..Len(got[d]), got'[d][n] = got[d][i]
        PROVE  got'[d][n] < backup'[k][j]
    <3>1. got[d][i] \in 1..Len(log) /\ log[got[d][i]] = k
      BY <1>1, <2>2 DEF GotLogged
    <3>2. CASE j \in 1..Len(backup[k]) /\ backup'[k][j] = backup[k][j]
      BY <2>2, <3>1, <3>2 DEF WaitingIsNewer
    <3>3. CASE backup'[k][j] = batch
      BY <1>2, <2>2, <3>1, <3>3
    <3> QED
      BY <1>12, <3>2, <3>3
  <2> QED
    BY <1>9, <2>1, <2>2
<1>16. ReceivedInOrder'
  <2> SUFFICES ASSUME NEW d \in Clients,
                      NEW i \in 1..Len(got'[d]), NEW j \in 1..Len(got'[d]),
                      i < j, log'[got'[d][i]] = log'[got'[d][j]]
               PROVE  got'[d][i] < got'[d][j]
    BY DEF ReceivedInOrder
  <2>1. \A n \in 1..Len(got[d]) :
           /\ got[d][n] < batch /\ log'[got[d][n]] = log[got[d][n]]
    BY <1>1, <1>2 DEF GotLogged
  <2>2. \A m, n \in 1..Len(got[d]) :
           (m < n /\ log'[got[d][m]] = log'[got[d][n]]) => got[d][m] < got[d][n]
    BY <2>1 DEF ReceivedInOrder
  <2>3. CASE got'[d] = got[d]
    BY <2>2, <2>3
  <2>4. CASE got'[d] = got[d] \o s
    <3>1. \A n \in 1..Len(s) : log'[s[n]] = ch
      BY <1>1, <1>5
    <3>2. \A m, n \in 1..Len(s) : m < n => s[m] < s[n]
      BY <1>5
    <3>3. \A m \in 1..Len(got[d]), n \in 1..Len(s) :
             log'[got[d][m]] = ch => got[d][m] < s[n]
      BY <1>5, <2>1
    <3> QED
      BY <1>5, <1>6, <2>2, <2>4, <3>1, <3>2, <3>3, AppendInOrder
  <2> QED
    BY <1>8, <2>3, <2>4
<1> QED
  BY <1>13, <1>14, <1>15, <1>16

-----------------------------------------------------------------------------
(* The invariant is inductive.                                             *)
LEMMA InitOInv == Init => OInv
<1> SUFFICES ASSUME Init PROVE OInv
  OBVIOUS
<1>1. IInv
  BY InitIInv
<1>2. \A c \in Clients : got[c] = <<>>
  BY DEF Init
<1>3. \A k \in Keys : backup[k] = <<>>
  BY RoomTypes DEF Init
<1>4. GotLogged /\ ReceivedInOrder /\ WaitingIsNewer
  BY <1>2 DEF GotLogged, ReceivedInOrder, WaitingIsNewer
<1>5. BacklogInOrder
  BY <1>3 DEF BacklogInOrder
<1> QED
  BY <1>1, <1>4, <1>5 DEF OInv

(* Every step keeps the order.                                             *)
LEMMA OrderInductive == OInv /\ [Next]_vars => OInv'
<1> SUFFICES ASSUME OInv, [Next]_vars PROVE OInv'
  OBVIOUS
<1>1. IInv'
  BY Inductive DEF OInv
<1>2. /\ TypeOK /\ Traced /\ BacklogOnlyWhenEmpty
      /\ GotLogged /\ BacklogInOrder /\ WaitingIsNewer /\ ReceivedInOrder
  BY DEF OInv, IInv
<1>3. GotLogged' /\ BacklogInOrder' /\ WaitingIsNewer' /\ ReceivedInOrder'
  BY <1>2, QuietSteps, QuietKeepsOrder, SubscribeKeepsOrder, BroadcastKeepsOrder
<1> QED
  BY <1>1, <1>3 DEF OInv

(* A session receives the batches of a channel in the order of their       *)
(* broadcasts and none twice, whatever it missed, joined late or waited    *)
(* for in a backlog.                                                       *)
THEOREM InOrderEver == Spec => []ReceivedInOrder
<1>1. OInv => ReceivedInOrder
  BY DEF OInv
<1> QED
  BY <1>1, InitOInv, OrderInductive, PTL DEF Spec

-----------------------------------------------------------------------------
(* The web server implements Backlog.                                      *)
LEMMA SameSet == ASSUME NEW s PROVE Kept!ToSet(s) = ToSet(s)
BY DEF ToSet, Kept!ToSet

(* The initial states map to initial states of Backlog.                    *)
LEMMA InitKept == Init => Kept!Init
BY DEF Init, Kept!Init, Channels, Kept!Channels

(* A new session is a step of Backlog or none.                             *)
LEMMA ConnectKept ==
    ASSUME NEW c \in Clients, OnWsConnection(c)
    PROVE  Kept!Next
<1>1. Kept!Connect(c)
  BY DEF OnWsConnection, fates, Kept!Connect
<1> QED
  BY <1>1 DEF Kept!Next

(* So is a subscription, which hands over the backlog.                     *)
LEMMA SubscribeKept ==
    ASSUME TypeOK, NEW c \in Clients, NEW k \in Keys, OnSubscribe(c, k)
    PROVE  Kept!Next
<1> DEFINE some == rooms'[RoomOf(k)]
<1>1. /\ k \in Channels /\ some \in (SUBSET Clients) \ {{}}
      /\ backup' = [backup EXCEPT ![k] = <<>>] /\ log' = log /\ expired' = expired
      /\ delivered' = delivered \cup ToSet(backup[k])
      /\ Emit(some, backup[k])
  BY SubscribeFacts
<1> HIDE DEF some
<1>2. Kept!Flush(k, some)
  BY <1>1, SameSet DEF Emit, Kept!Flush, Kept!Receive
<1> QED
  BY <1>1, <1>2 DEF Kept!Next, Channels, Kept!Channels

(* So is a broadcast.                                                      *)
LEMMA BroadcastKept ==
    ASSUME TypeOK, BacklogOnlyWhenEmpty, NEW ch \in Channels, Broadcast(ch)
    PROVE  Kept!Next
<1> DEFINE batch   == Len(log) + 1
           members == rooms[RoomOf(ch)]
<1>1. /\ batch \in Nat /\ Len(log') = batch /\ log' = Append(log, ch)
      /\ members \in SUBSET Clients /\ Emit(members, <<batch>>) /\ expired' = expired
      /\ members # {} => delivered' = delivered \cup {batch}
      /\ members = {} => delivered' = delivered /\ got' = got
      /\ members = {} /\ ch # Info => backup' = [backup EXCEPT ![ch] = Append(@, batch)]
      /\ ~(members = {} /\ ch # Info) => backup' = backup
  BY BroadcastFacts
<1>2. ch \in Keys => backup[ch] = <<>> \/ members = {}
  BY RoomTypes DEF BacklogOnlyWhenEmpty
<1> HIDE DEF batch, members
<1>3. CASE members # {}
  <2>1. ToSet(<<batch>>) = {batch}
    BY <1>1, SetOfOne
  <2>2. Kept!Receive(members, <<Len(log')>>)
    BY <1>1, <1>3, <2>1, SameSet DEF Emit, Kept!Receive
  <2>3. Kept!PublishLive(ch, members)
    BY <1>1, <1>2, <1>3, <2>2 DEF Kept!PublishLive
  <2> QED
    BY <1>1, <1>3, <2>3 DEF Kept!Next, Channels, Kept!Channels
<1>4. CASE members = {}
  <2>1. Kept!PublishLater(ch)
    BY <1>1, <1>4 DEF Kept!PublishLater
  <2> QED
    BY <2>1 DEF Kept!Next, Channels, Kept!Channels
<1> QED
  BY <1>3, <1>4

(* So is an expired timer, which forgets a message.                        *)
LEMMA TimeoutKept ==
    ASSUME TypeOK, Traced, Timeout
    PROVE  Kept!Next
<1>1. PICK ch \in Channels :
          /\ backup' = [backup EXCEPT ![ch] = <<>>]
          /\ expired' = expired \cup ToSet(backup[ch])
          /\ log' = log /\ got' = got /\ delivered' = delivered
  BY TimeoutFacts
<1>2. Kept!Expire(ch)
  BY <1>1, SameSet DEF Kept!Expire
<1> QED
  BY <1>2 DEF Kept!Next, Channels, Kept!Channels

(* So is every step.                                                       *)
LEMMA StepKept == IInv /\ [Next]_vars => [Kept!Next]_(Kept!vars)
<1> SUFFICES ASSUME IInv, [Next]_vars PROVE Kept!Next \/ UNCHANGED Kept!vars
  OBVIOUS
<1>1. TypeOK /\ Traced /\ BacklogOnlyWhenEmpty
  BY DEF IInv
<1>2. ASSUME NEW c \in Clients, OnWsConnection(c) PROVE Kept!Next
  BY <1>2, ConnectKept
<1>3. ASSUME NEW c \in Clients, NEW k \in Keys, OnSubscribe(c, k) PROVE Kept!Next
  BY <1>1, <1>3, SubscribeKept
<1>4. ASSUME NEW ch \in Channels, Broadcast(ch) PROVE Kept!Next
  BY <1>1, <1>4, BroadcastKept
<1>5. CASE Timeout
  BY <1>1, <1>5, TimeoutKept
<1>6. CASE UNCHANGED <<log, backup, got, delivered, expired>>
  BY <1>6 DEF Kept!vars
<1> QED
  BY <1>2, <1>3, <1>4, <1>5, <1>6
  DEF Next, vars, fates, OnDisconnect, OnUnsubscribe, Tick

(* Rooms, memberships and timers add nothing that a viewer could see: the  *)
(* web server behaves as the backlog that Backlog describes.               *)
THEOREM ImplementsBacklog == Spec => IsBacklog
BY InitKept, StepKept, WebServerInvariant, PTL DEF Spec, IsBacklog, Kept!Spec
=============================================================================
