--------------------------- MODULE LogClientProofs ---------------------------
(***************************************************************************)
(* Theorems about LogClient.  First any number of threads: the variables   *)
(* keep their types, the calls of a thread are its latest log call and     *)
(* registrations around it, what no failure disturbs arrives, and the      *)
(* payloads of a thread arrive once and in order.  Then a process with one *)
(* thread: what becomes of dzSocket, of SIGPIPE and of the descriptors,    *)
(* and the frames a connection carries.                                    *)
(***************************************************************************)
EXTENDS LogClient, TLAPS

-----------------------------------------------------------------------------
(* Any number of threads.                                                  *)

Entry == [part : {"header", "payload", "short"}, msg : Message]
Conn  == [up : BOOLEAN, got : Seq(Entry)]

ThreadTypes ==
    /\ pc \in [Threads -> Labels]
    /\ stack \in [Threads -> Seq(Message)]
    /\ \A t \in Threads : pc[t] \in {"check", "header", "payload"} => stack[t] # <<>>
    /\ logged \in [Threads -> Nat]
    /\ \A t \in Threads : \A i \in DOMAIN stack[t] :
          stack[t][i].by = t /\ stack[t][i].n <= logged[t]
    /\ disturbed \subseteq Message

(* Of the calls a thread is in only the outermost sends a log message, and *)
(* that is its latest: the others are registrations.                       *)
OneLogCall ==
    \A t \in Threads : \A i \in DOMAIN stack[t] :
        stack[t][i].n # 0 => i = Len(stack[t]) /\ stack[t][i].n = logged[t]

IdleHasNoCall == \A t \in Threads : pc[t] = "idle" => stack[t] = <<>>

(* Whoever closes the connection has counted its calls as disturbed.       *)
FailingIsDisturbed ==
    \A t \in Threads : pc[t] \in {"close", "forget", "restore"} =>
        \A i \in DOMAIN stack[t] : stack[t][i] \in disturbed

Calls == ThreadTypes /\ OneLogCall /\ IdleHasNoCall /\ FailingIsDisturbed

-----------------------------------------------------------------------------
(* What a step does to the calls of the threads: one of them goes on, logs,*)
(* calls sendServer for its registration, or returns from a call.          *)
GoesOn(t, label) ==
    /\ pc' = [pc EXCEPT ![t] = label] /\ stack' = stack /\ logged' = logged
    /\ label \in Labels \ {"idle"}
    /\ label \in {"check", "header", "payload"} => stack[t] # <<>>
    /\ label \in {"close", "forget", "restore"} =>
          \A i \in DOMAIN stack[t] : stack[t][i] \in disturbed'

Logs(t) ==
    /\ pc' = [pc EXCEPT ![t] = "check"] /\ pc[t] = "idle"
    /\ stack' = [stack EXCEPT ![t] = <<LogMessage(t)>>]
    /\ logged' = [logged EXCEPT ![t] = @ + 1]

Registers(t) ==
    /\ pc' = [pc EXCEPT ![t] = "check"] /\ logged' = logged
    /\ stack' = [stack EXCEPT ![t] = <<Registration(t)>> \o @]

Returns(t) ==
    /\ Return(t) /\ logged' = logged
    /\ \/ \A i \in DOMAIN stack[t] : stack[t][i] \in disturbed'
       \/ Deliver(t, "payload")

CallStep ==
    /\ disturbed \subseteq disturbed' /\ disturbed' \subseteq Message
    /\ \/ UNCHANGED <<pc, stack, logged>>
       \/ \E t \in Threads : \/ \E label \in Labels : GoesOn(t, label)
                             \/ Logs(t) \/ Registers(t) \/ Returns(t)

(* Disturb marks all calls of the thread and nothing else.                 *)
LEMMA DisturbFacts ==
    ASSUME ThreadTypes, NEW t \in Threads, Disturb(t)
    PROVE  /\ disturbed \subseteq disturbed' /\ disturbed' \subseteq Message
           /\ \A i \in DOMAIN stack[t] : stack[t][i] \in disturbed'
<1>1. stack[t] \in Seq(Message) /\ disturbed \subseteq Message
  BY DEF ThreadTypes
<1>2. \A i \in DOMAIN stack[t] : stack[t][i] \in Message
  BY <1>1
<1> QED
  BY <1>1, <1>2 DEF Disturb

(* A failed call leaves for the label close.                               *)
LEMMA FailGoesOn ==
    ASSUME ThreadTypes, NEW t \in Threads, Fail(t)
    PROVE  GoesOn(t, "close") /\ disturbed \subseteq disturbed' /\ disturbed' \subseteq Message
BY DisturbFacts DEF Fail, GoTo, GoesOn, Labels

(* The two ways in which a successful send goes on.                        *)
LEMMA SentGoesOn ==
    ASSUME ThreadTypes, NEW t \in Threads, NEW part \in {"header", "payload"},
           At(t, part), Sent(t, part), logged' = logged,
           Disturb(t) \/ Deliver(t, part)
    PROVE  \/ part = "header" /\ GoesOn(t, "payload")
           \/ part = "payload" /\ Returns(t)
<1>1. CASE part = "header"
  BY <1>1 DEF Sent, GoTo, GoesOn, At, Labels, ThreadTypes
<1>2. CASE part = "payload"
  BY <1>2, DisturbFacts DEF Sent, Returns
<1> QED
  BY <1>1, <1>2

(* Every step is one of these for the calls.                               *)
LEMMA CallSteps == ASSUME Calls, [Next]_vars PROVE CallStep
<1> USE DEF Calls
<1>0. disturbed \subseteq Message
  BY DEF ThreadTypes
<1>1. ASSUME NEW t \in Threads, Log(t) PROVE CallStep
  BY <1>0, <1>1 DEF Log, At, GoTo, Logs, CallStep
<1>2. ASSUME NEW t \in Threads, Check(t) PROVE CallStep
  <2>1. GoesOn(t, "socket") \/ GoesOn(t, "header")
    BY <1>2 DEF Check, At, GoTo, GoesOn, Labels, ThreadTypes
  <2> QED
    BY <1>0, <1>2, <2>1 DEF Check, CallStep, Labels
<1>3. ASSUME NEW t \in Threads, Socket(t) PROVE CallStep
  <2>1. GoesOn(t, "connect")
    BY <1>3 DEF Socket, At, GoTo, GoesOn, Labels, ThreadTypes
  <2> QED
    BY <1>0, <1>3, <2>1 DEF Socket, CallStep, Labels
<1>4. ASSUME NEW t \in Threads, Connect(t) PROVE CallStep
  <2>1. GoesOn(t, "signal")
    BY <1>4 DEF Connect, At, GoTo, GoesOn, Labels, ThreadTypes
  <2> QED
    BY <1>0, <1>4, <2>1 DEF Connect, CallStep, Labels
<1>5. ASSUME NEW t \in Threads, ConnectFails(t) PROVE CallStep
  BY <1>5, FailGoesOn DEF ConnectFails, CallStep, Labels
<1>6. ASSUME NEW t \in Threads, IgnoreAndRegister(t) PROVE CallStep
  BY <1>0, <1>6 DEF IgnoreAndRegister, GoTo, Registers, CallStep
<1>7. ASSUME NEW t \in Threads, Send(t) PROVE CallStep
  <2>1. PICK part \in {"header", "payload"} :
            /\ At(t, part)
            /\ \/ Deliver(t, part) \/ DeliverShort(t, part) \/ Swallow(t, part)
               \/ Break(t) \/ SendFails(t)
    BY <1>7 DEF Send
  <2>2. CASE Fail(t)
    BY <2>2, FailGoesOn DEF CallStep, Labels
  <2>3. CASE Sent(t, part) /\ logged' = logged /\ (Deliver(t, part) \/ Disturb(t))
    <3>1. disturbed \subseteq disturbed' /\ disturbed' \subseteq Message
      BY <1>0, <2>3, DisturbFacts DEF Deliver
    <3> QED
      BY <2>1, <2>3, <3>1, SentGoesOn DEF CallStep, Labels
  <2> QED
    BY <2>1, <2>2, <2>3 DEF Deliver, DeliverShort, Swallow, Break, SendFails
<1>8. ASSUME NEW t \in Threads, Close(t) PROVE CallStep
  <2>1. GoesOn(t, "forget")
    BY <1>8 DEF Close, At, GoTo, GoesOn, Labels, FailingIsDisturbed
  <2> QED
    BY <1>0, <1>8, <2>1 DEF Close, CallStep, Labels
<1>9. ASSUME NEW t \in Threads, NothingToClose(t) PROVE CallStep
  BY <1>0, <1>9 DEF NothingToClose, At, FailingIsDisturbed, Returns, CallStep
<1>10. ASSUME NEW t \in Threads, Forget(t) PROVE CallStep
  <2>1. GoesOn(t, "restore")
    BY <1>10 DEF Forget, At, GoTo, GoesOn, Labels, FailingIsDisturbed
  <2> QED
    BY <1>0, <1>10, <2>1 DEF Forget, CallStep, Labels
<1>11. ASSUME NEW t \in Threads, Restore(t) PROVE CallStep
  BY <1>0, <1>11 DEF Restore, At, FailingIsDisturbed, Returns, CallStep
<1>12. CASE Finish
  <2>1. GoesOn(Main, "close")
    BY <1>12, LogClientAssumption DEF Finish, At, GoTo, GoesOn, Labels, IdleHasNoCall
  <2> QED
    BY <1>0, <1>12, <2>1, LogClientAssumption DEF Finish, CallStep, Labels
<1>13. CASE UNCHANGED <<threadVars, disturbed>>
  BY <1>0, <1>13 DEF threadVars, CallStep
<1> QED
  BY <1>1, <1>2, <1>3, <1>4, <1>5, <1>6, <1>7, <1>8, <1>9, <1>10, <1>11, <1>12, <1>13
  DEF Next, Work, Environment, HostOpen, HostClose, HostSignal, ServerStop, ServerStart, vars

-----------------------------------------------------------------------------
(* The calls of a thread after each of these.                              *)
LEMMA ReturnFacts ==
    ASSUME ThreadTypes, NEW t \in Threads, Return(t)
    PROVE  /\ stack' = [stack EXCEPT ![t] = stack'[t]] /\ stack'[t] \in Seq(Message)
           /\ pc' = [pc EXCEPT ![t] = pc'[t]]
           /\ \/ pc'[t] = "idle" /\ stack'[t] = <<>>
              \/ pc'[t] = "header" /\ stack'[t] # <<>>
           /\ \A i \in DOMAIN stack'[t] :
                 /\ i + 1 \in DOMAIN stack[t] /\ stack'[t][i] = stack[t][i + 1]
                 /\ i + 1 = Len(stack[t]) => i = Len(stack'[t])
           /\ \A i \in DOMAIN stack[t] : i # 1 =>
                 i - 1 \in DOMAIN stack'[t] /\ stack'[t][i - 1] = stack[t][i]
<1> DEFINE rest == IF stack[t] = <<>> THEN <<>> ELSE Tail(stack[t])
<1>1. stack \in [Threads -> Seq(Message)] /\ pc \in [Threads -> Labels]
  BY DEF ThreadTypes
<1>2. stack' = [stack EXCEPT ![t] = rest]
      /\ pc' = [pc EXCEPT ![t] = IF rest = <<>> THEN "idle" ELSE "header"]
  BY DEF Return, GoTo
<1>3. /\ rest \in Seq(Message)
      /\ \A i \in DOMAIN rest :
            /\ i + 1 \in DOMAIN stack[t] /\ rest[i] = stack[t][i + 1]
            /\ i + 1 = Len(stack[t]) => i = Len(rest)
      /\ \A i \in DOMAIN stack[t] : i # 1 => i - 1 \in DOMAIN rest /\ rest[i - 1] = stack[t][i]
  <2>1. stack[t] \in Seq(Message)
    BY <1>1
  <2>2. CASE stack[t] = <<>>
    BY <2>2
  <2>3. CASE stack[t] # <<>>
    <3>1. Tail(stack[t]) \in Seq(Message) /\ Len(Tail(stack[t])) = Len(stack[t]) - 1
          /\ DOMAIN stack[t] = 1..Len(stack[t])
          /\ DOMAIN Tail(stack[t]) = 1..(Len(stack[t]) - 1) /\ Len(stack[t]) \in Nat
      BY <2>1, <2>3
    <3>2. \A i \in 1..(Len(stack[t]) - 1) : Tail(stack[t])[i] = stack[t][i + 1]
      BY <2>1, <2>3
    <3> QED
      BY <2>3, <3>1, <3>2
  <2> QED
    BY <2>2, <2>3
<1> HIDE DEF rest
<1>4. stack'[t] = rest /\ pc'[t] = IF rest = <<>> THEN "idle" ELSE "header"
  BY <1>1, <1>2
<1> QED
  BY <1>1, <1>2, <1>3, <1>4

(* The calls of a thread after it has called sendServer for its            *)
(* registration.                                                           *)
LEMMA RegisterFacts ==
    ASSUME ThreadTypes, NEW t \in Threads, Registers(t)
    PROVE  /\ stack' = [stack EXCEPT ![t] = stack'[t]] /\ stack'[t] \in Seq(Message)
           /\ stack'[t] # <<>>
           /\ \A i \in DOMAIN stack'[t] :
                 \/ i = 1 /\ stack'[t][i] = Registration(t)
                 \/ /\ i - 1 \in DOMAIN stack[t] /\ stack'[t][i] = stack[t][i - 1]
                    /\ i - 1 = Len(stack[t]) => i = Len(stack'[t])
           /\ \A i \in DOMAIN stack[t] :
                 i + 1 \in DOMAIN stack'[t] /\ stack'[t][i + 1] = stack[t][i]
<1> DEFINE r == Registration(t)
           s == stack[t]
<1>1. stack \in [Threads -> Seq(Message)] /\ s \in Seq(Message) /\ r \in Message
  BY DEF ThreadTypes, Registration, Message
<1>2. stack' = [stack EXCEPT ![t] = <<r>> \o s]
  BY DEF Registers
<1> HIDE DEF r, s
<1>3. <<r>> \in Seq(Message) /\ Len(<<r>>) = 1 /\ <<r>>[1] = r
  BY <1>1
<1>4. <<r>> \o s \in Seq(Message) /\ Len(<<r>> \o s) = 1 + Len(s) /\ Len(s) \in Nat
  BY <1>1, <1>3
<1>5. \A i \in 1..(1 + Len(s)) :
         (<<r>> \o s)[i] = IF i <= 1 THEN <<r>>[i] ELSE s[i - 1]
  BY <1>1, <1>3
<1>6. DOMAIN s = 1..Len(s) /\ DOMAIN (<<r>> \o s) = 1..(1 + Len(s))
  BY <1>1, <1>4
<1>7. stack'[t] = <<r>> \o s
  BY <1>1, <1>2
<1>8. \A i \in 1..(1 + Len(s)) : \/ i = 1 /\ (<<r>> \o s)[i] = r
                                 \/ i - 1 \in 1..Len(s) /\ (<<r>> \o s)[i] = s[i - 1]
  BY <1>3, <1>4, <1>5
<1>9. \A i \in 1..Len(s) : i + 1 \in 1..(1 + Len(s)) /\ (<<r>> \o s)[i + 1] = s[i]
  BY <1>4, <1>5
<1> QED
  BY <1>1, <1>2, <1>4, <1>6, <1>7, <1>8, <1>9 DEF r, s

(* The calls of a thread after it has logged.                              *)
LEMMA LogsFacts ==
    ASSUME ThreadTypes, NEW t \in Threads, Logs(t)
    PROVE  /\ stack' = [stack EXCEPT ![t] = stack'[t]]
           /\ stack'[t] = <<LogMessage(t)>> /\ LogMessage(t) \in Message
           /\ LogMessage(t).by = t /\ LogMessage(t).n = logged[t] + 1
           /\ logged'[t] = logged[t] + 1 /\ logged' \in [Threads -> Nat]
           /\ \A u \in Threads \ {t} : logged'[u] = logged[u]
           /\ DOMAIN stack'[t] = {1} /\ Len(stack'[t]) = 1 /\ stack'[t][1] = LogMessage(t)
<1>1. /\ stack \in [Threads -> Seq(Message)] /\ logged \in [Threads -> Nat]
      /\ LogMessage(t) = [by |-> t, n |-> logged[t] + 1]
  BY DEF ThreadTypes, LogMessage
<1>2. LogMessage(t) \in Message
  BY <1>1 DEF Message
<1>3. stack'[t] = <<LogMessage(t)>>
  BY <1>1 DEF Logs
<1>4. \A m : DOMAIN <<m>> = {1} /\ Len(<<m>>) = 1 /\ <<m>>[1] = m
  OBVIOUS
<1>5. stack' = [stack EXCEPT ![t] = stack'[t]] /\ logged' = [logged EXCEPT ![t] = @ + 1]
  BY <1>3 DEF Logs
<1> QED
  BY <1>1, <1>2, <1>3, <1>4, <1>5

(* The calls keep their shape.                                             *)
LEMMA CallsKept == ASSUME Calls, CallStep PROVE Calls'
<1>0. /\ ThreadTypes /\ OneLogCall /\ IdleHasNoCall /\ FailingIsDisturbed
      /\ disturbed \subseteq disturbed' /\ disturbed' \subseteq Message
      /\ pc \in [Threads -> Labels] /\ stack \in [Threads -> Seq(Message)]
      /\ logged \in [Threads -> Nat]
  BY DEF Calls, CallStep, ThreadTypes
<1>1. CASE UNCHANGED <<pc, stack, logged>>
  BY <1>0, <1>1 DEF Calls, ThreadTypes, OneLogCall, IdleHasNoCall, FailingIsDisturbed
<1>2. ASSUME NEW t \in Threads, NEW label \in Labels, GoesOn(t, label) PROVE Calls'
  <2>1. /\ stack' = stack /\ logged' = logged
        /\ pc' \in [Threads -> Labels] /\ pc'[t] = label
        /\ \A u \in Threads \ {t} : pc'[u] = pc[u]
    BY <1>0, <1>2 DEF GoesOn
  <2>2. ThreadTypes'
    BY <1>0, <1>2, <2>1 DEF ThreadTypes, GoesOn
  <2>3. OneLogCall'
    BY <1>0, <2>1 DEF OneLogCall
  <2>4. IdleHasNoCall'
    BY <1>0, <1>2, <2>1 DEF IdleHasNoCall, GoesOn
  <2>5. FailingIsDisturbed'
    BY <1>0, <1>2, <2>1 DEF FailingIsDisturbed, GoesOn
  <2> QED
    BY <2>2, <2>3, <2>4, <2>5 DEF Calls
<1>3. ASSUME NEW t \in Threads, Logs(t) \/ Registers(t) \/ Returns(t)
      PROVE  Calls'
  <2>1. /\ stack' = [stack EXCEPT ![t] = stack'[t]] /\ stack'[t] \in Seq(Message)
        /\ pc' = [pc EXCEPT ![t] = pc'[t]] /\ pc'[t] \in {"idle", "check", "header"}
        /\ pc'[t] # "idle" <=> stack'[t] # <<>>
    <3>1. CASE Logs(t)
      <4>1. stack' = [stack EXCEPT ![t] = stack'[t]] /\ stack'[t] = <<LogMessage(t)>>
            /\ LogMessage(t) \in Message
        BY <1>0, <3>1, LogsFacts
      <4>2. <<LogMessage(t)>> \in Seq(Message) /\ <<LogMessage(t)>> # <<>>
        BY <4>1
      <4>3. pc' = [pc EXCEPT ![t] = "check"] /\ pc'[t] = "check"
        BY <1>0, <3>1 DEF Logs
      <4> QED
        BY <4>1, <4>2, <4>3
    <3>2. CASE Registers(t)
      BY <1>0, <3>2, RegisterFacts DEF Registers
    <3>3. CASE Returns(t)
      BY <1>0, <3>3, ReturnFacts DEF Returns
    <3> QED
      BY <1>3, <3>1, <3>2, <3>3
  <2>2. \A u \in Threads \ {t} : stack'[u] = stack[u] /\ pc'[u] = pc[u]
    BY <1>0, <2>1
  <2>3. stack' \in [Threads -> Seq(Message)] /\ pc' \in [Threads -> Labels]
    BY <1>0, <2>1 DEF Labels
  <2>4. logged' \in [Threads -> Nat] /\ \A u \in Threads \ {t} : logged'[u] = logged[u]
    BY <1>0, <1>3, LogsFacts DEF Registers, Returns
  <2>5. \A i \in DOMAIN stack'[t] :
           /\ stack'[t][i].by = t /\ stack'[t][i].n <= logged'[t]
           /\ stack'[t][i].n # 0 => i = Len(stack'[t]) /\ stack'[t][i].n = logged'[t]
    <3>0. \A i \in DOMAIN stack[t] :
             /\ stack[t][i].by = t /\ stack[t][i].n <= logged[t]
             /\ stack[t][i].n # 0 => i = Len(stack[t]) /\ stack[t][i].n = logged[t]
      BY <1>0 DEF ThreadTypes, OneLogCall
    <3>1. CASE Logs(t)
      <4>1. /\ DOMAIN stack'[t] = {1} /\ Len(stack'[t]) = 1
            /\ stack'[t][1].by = t /\ stack'[t][1].n = logged'[t]
            /\ logged'[t] \in Nat
        BY <1>0, <3>1, LogsFacts
      <4> QED
        BY <4>1
    <3>2. CASE Registers(t)
      <4>1. logged' = logged /\ Registration(t).by = t /\ Registration(t).n = 0
            /\ logged[t] \in Nat
        BY <1>0, <3>2 DEF Registers, Registration
      <4>2. \A i \in DOMAIN stack'[t] :
               \/ stack'[t][i] = Registration(t)
               \/ /\ i - 1 \in DOMAIN stack[t] /\ stack'[t][i] = stack[t][i - 1]
                  /\ i - 1 = Len(stack[t]) => i = Len(stack'[t])
        BY <1>0, <3>2, RegisterFacts
      <4> QED
        BY <3>0, <4>1, <4>2
    <3>3. CASE Returns(t)
      BY <1>0, <3>0, <3>3, ReturnFacts DEF Returns
    <3> QED
      BY <1>3, <3>1, <3>2, <3>3
  <2>6. ThreadTypes'
    <3>1. \A u \in Threads : pc'[u] \in {"check", "header", "payload"} => stack'[u] # <<>>
      BY <1>0, <2>1, <2>2 DEF ThreadTypes
    <3>2. \A u \in Threads : \A i \in DOMAIN stack'[u] :
             stack'[u][i].by = u /\ stack'[u][i].n <= logged'[u]
      <4> SUFFICES ASSUME NEW u \in Threads, NEW i \in DOMAIN stack'[u]
                   PROVE  stack'[u][i].by = u /\ stack'[u][i].n <= logged'[u]
        BY Zenon
      <4>1. CASE u = t
        BY <2>5, <4>1, Zenon
      <4>2. CASE u # t
        <5>1. stack'[u] = stack[u] /\ logged'[u] = logged[u]
          BY <2>2, <2>4, <4>2, Zenon
        <5>2. \A k \in DOMAIN stack[u] : stack[u][k].by = u /\ stack[u][k].n <= logged[u]
          BY <1>0, Zenon DEF ThreadTypes
        <5> QED
          BY <5>1, <5>2, Zenon
      <4> QED
        BY <4>1, <4>2, Zenon
    <3> QED
      BY <1>0, <2>3, <2>4, <3>1, <3>2 DEF ThreadTypes
  <2>7. OneLogCall'
    BY <1>0, <2>2, <2>4, <2>5 DEF OneLogCall
  <2>8. IdleHasNoCall' /\ FailingIsDisturbed'
    BY <1>0, <2>1, <2>2 DEF IdleHasNoCall, FailingIsDisturbed
  <2> QED
    BY <2>6, <2>7, <2>8 DEF Calls
<1> QED
  BY <1>1, <1>2, <1>3 DEF CallStep

-----------------------------------------------------------------------------
(* The connections of the process.                                         *)
Dispositions == {"DFL", "IGN", "hostDFL", "hostOther"}

LibTypes ==
    /\ dzSocket \in Fds \cup {0, NoSocket}
    /\ owner \in [Fds -> {"free", "host", "library"}]
    /\ peer \in [Fds -> 0..Len(conns)]
    /\ sigpipe \in Dispositions
    /\ alive \in BOOLEAN /\ loaded \in BOOLEAN /\ unloaded \in BOOLEAN
    /\ serverUp \in BOOLEAN /\ stops \in 0..MaxStops
    /\ conns \in Seq(Conn)

(* A descriptor that is not the library's is not connected.                *)
FreeHasNoPeer == \A fd \in Fds : owner[fd] # "library" => peer[fd] = 0

(* dzSocket never goes back to an earlier connection.                      *)
CurrentIsLast ==
    dzSocket \in Fds /\ peer[dzSocket] # 0 => peer[dzSocket] = Len(conns)

Lib == LibTypes /\ FreeHasNoPeer

(* The types of the threads and those of the library.                      *)
LEMMA SplitTypes == TypeOK <=> LibTypes /\ ThreadTypes
BY DEF TypeOK, LibTypes, ThreadTypes, Conn, Entry, Dispositions

(* What a connection received stays, and a step adds nothing to it, or one *)
(* part, after all others on any connection if dzSocket is at the last.    *)
OldKept ==
    \A c \in DOMAIN conns : \A i \in DOMAIN conns[c].got :
        /\ c \in DOMAIN conns' /\ i \in DOMAIN conns'[c].got
        /\ conns'[c].got[i] = conns[c].got[i]

NoneNew ==
    \A c \in DOMAIN conns' : \A i \in DOMAIN conns'[c].got :
        c \in DOMAIN conns /\ i \in DOMAIN conns[c].got

OneNew(entry) ==
    \E c \in DOMAIN conns' : \E i \in DOMAIN conns'[c].got :
        /\ conns'[c].got[i] = entry
        /\ \A d \in DOMAIN conns' : \A j \in DOMAIN conns'[d].got :
              \/ /\ d \in DOMAIN conns /\ j \in DOMAIN conns[d].got
                 /\ CurrentIsLast => d < c \/ (d = c /\ j < i)
              \/ d = c /\ j = i

Received(t, part) ==
    /\ part \in {"header", "payload", "short"} /\ stack[t] # <<>>
    /\ logged' = logged
    /\ part = "payload" => Deliver(t, "payload")
    /\ OneNew(Part(part, Head(stack[t])))

ConnStep ==
    /\ Lib' /\ OldKept
    /\ NoneNew \/ \E t \in Threads, part \in {"header", "payload", "short"} : Received(t, part)

(* An update of a sequence in place.                                       *)
LEMMA UpdateSeq ==
    ASSUME NEW S, NEW s \in Seq(S), NEW n \in 1..Len(s), NEW e \in S
    PROVE  [s EXCEPT ![n] = e] \in Seq(S) /\ Len([s EXCEPT ![n] = e]) = Len(s)
OBVIOUS

(* The record of a connection, and an update of it.                        *)
LEMMA MakeConn ==
    ASSUME NEW b \in BOOLEAN, NEW g \in Seq(Entry)
    PROVE  [up |-> b, got |-> g] \in Conn /\ [up |-> b, got |-> g].got = g
BY DEF Conn

(* An update of what a connection has received.                            *)
LEMMA ReplaceGot ==
    ASSUME NEW conn \in Conn, NEW h \in Seq(Entry)
    PROVE  [conn EXCEPT !.got = h] \in Conn /\ [conn EXCEPT !.got = h].got = h
<1>1. conn.up \in BOOLEAN
  BY ZenonT(10) DEF Conn
<1>2. conn = [up |-> conn.up, got |-> conn.got]
  BY DEF Conn
<1>3. [conn EXCEPT !.got = h] = [up |-> conn.up, got |-> h]
  BY <1>2
<1> QED
  BY <1>1, <1>3, MakeConn, Zenon

(* An append to it.                                                        *)
LEMMA UpdateConn ==
    ASSUME NEW conn \in Conn, NEW entry \in Entry
    PROVE  /\ conn.got \in Seq(Entry)
           /\ [conn EXCEPT !.got = Append(@, entry)] \in Conn
           /\ [conn EXCEPT !.got = Append(@, entry)].got = Append(conn.got, entry)
<1>1. conn.got \in Seq(Entry)
  BY DEF Conn
<1>2. Append(conn.got, entry) \in Seq(Entry)
  BY <1>1
<1> QED
  BY <1>1, <1>2, ReplaceGot, Zenon

(* What a send appends to the connection that dzSocket is at.              *)
LEMMA AppendConn ==
    ASSUME LibTypes, dzSocket \in Fds, peer[dzSocket] # 0, NEW entry \in Entry,
           NEW n, n = peer[dzSocket],
           conns' = [conns EXCEPT ![peer[dzSocket]].got = Append(@, entry)]
    PROVE  /\ conns' \in Seq(Conn) /\ Len(conns') = Len(conns)
           /\ DOMAIN conns = 1..Len(conns) /\ DOMAIN conns' = 1..Len(conns)
           /\ Len(conns) \in Nat /\ n \in 1..Len(conns)
           /\ \A c \in 1..Len(conns) : c # n => conns'[c] = conns[c]
           /\ conns[n].got \in Seq(Entry)
           /\ conns'[n].got = Append(conns[n].got, entry)
<1> DEFINE last == Len(conns)
           more == [conns[n] EXCEPT !.got = Append(@, entry)]
<1>1. conns \in Seq(Conn) /\ last \in Nat /\ n \in 1..last /\ DOMAIN conns = 1..last
  BY DEF LibTypes
<1>2. conns[n].got \in Seq(Entry) /\ more \in Conn /\ more.got = Append(conns[n].got, entry)
  <2>1. conns[n] \in Conn
    BY <1>1
  <2> QED
    BY <2>1, UpdateConn
<1>3. conns' = [conns EXCEPT ![n] = more]
  OBVIOUS
<1> HIDE DEF more
<1>4. conns' \in Seq(Conn) /\ Len(conns') = last
  BY <1>1, <1>2, <1>3, UpdateSeq
<1>5. /\ DOMAIN conns' = 1..last /\ \A c \in 1..last : c # n => conns'[c] = conns[c]
      /\ conns'[n].got = Append(conns[n].got, entry)
  BY <1>1, <1>2, <1>3
<1> QED
  BY <1>1, <1>2, <1>4, <1>5

(* Where things are after an append.                                       *)
LEMMA AppendPlaces ==
    ASSUME NEW g \in Seq(Entry), NEW entry \in Entry, NEW h, h = Append(g, entry)
    PROVE  /\ Len(g) \in Nat /\ DOMAIN g = 1..Len(g)
           /\ DOMAIN h = 1..(Len(g) + 1) /\ h[Len(g) + 1] = entry
           /\ \A i \in 1..Len(g) : h[i] = g[i]
OBVIOUS

(* What the server has after a send that a connection took.                *)
LEMMA AppendFacts ==
    ASSUME LibTypes, dzSocket \in Fds, peer[dzSocket] # 0, NEW entry \in Entry,
           conns' = [conns EXCEPT ![peer[dzSocket]].got = Append(@, entry)]
    PROVE  conns' \in Seq(Conn) /\ Len(conns') = Len(conns) /\ OldKept /\ OneNew(entry)
<1>1. PICK n : n = peer[dzSocket]
  OBVIOUS
<1> DEFINE last == Len(conns)
           k    == Len(conns[n].got)
<1>2. /\ conns' \in Seq(Conn) /\ Len(conns') = last
      /\ DOMAIN conns = 1..last /\ DOMAIN conns' = 1..last
      /\ last \in Nat /\ n \in 1..last
      /\ \A c \in 1..last : c # n => conns'[c] = conns[c]
      /\ conns[n].got \in Seq(Entry)
      /\ conns'[n].got = Append(conns[n].got, entry)
  BY <1>1, AppendConn
<1>3. /\ k \in Nat /\ DOMAIN conns[n].got = 1..k
      /\ DOMAIN conns'[n].got = 1..(k + 1) /\ conns'[n].got[k + 1] = entry
      /\ \A i \in 1..k : conns'[n].got[i] = conns[n].got[i]
  BY <1>2, AppendPlaces
<1>4. CurrentIsLast => n = last
  BY <1>1 DEF CurrentIsLast
<1> HIDE DEF last, k
<1>5. OldKept
  <2> SUFFICES ASSUME NEW c \in DOMAIN conns, NEW i \in DOMAIN conns[c].got
               PROVE  /\ c \in DOMAIN conns' /\ i \in DOMAIN conns'[c].got
                      /\ conns'[c].got[i] = conns[c].got[i]
    BY DEF OldKept
  <2>1. CASE c # n
    BY <1>2, <2>1
  <2>2. CASE c = n
    <3>1. i \in 1..k /\ i \in 1..(k + 1)
      BY <1>3, <2>2
    <3> QED
      BY <1>2, <1>3, <2>2, <3>1
  <2> QED
    BY <2>1, <2>2
<1>6. OneNew(entry)
  <2>1. /\ n \in DOMAIN conns' /\ k + 1 \in DOMAIN conns'[n].got
        /\ conns'[n].got[k + 1] = entry
    BY <1>2, <1>3
  <2>2. ASSUME NEW d \in DOMAIN conns', NEW j \in DOMAIN conns'[d].got
        PROVE  \/ /\ d \in DOMAIN conns /\ j \in DOMAIN conns[d].got
                  /\ CurrentIsLast => d < n \/ (d = n /\ j < k + 1)
               \/ d = n /\ j = k + 1
    <3>1. CASE d # n
      <4>1. d \in 1..last /\ j \in DOMAIN conns[d].got
        BY <1>2, <3>1
      <4>2. n = last => d < n
        BY <1>2, <3>1, <4>1
      <4> QED
        BY <1>2, <1>4, <4>1, <4>2
    <3>2. CASE d = n
      BY <1>2, <1>3, <3>2
    <3> QED
      BY <3>1, <3>2
  <2> QED
    BY <2>1, <2>2 DEF OneNew
<1> QED
  BY <1>2, <1>5, <1>6 DEF last

(* Connect appends a connection that has received nothing.                 *)
LEMMA ConnectFacts ==
    ASSUME Lib, NEW t \in Threads, Connect(t)
    PROVE  Lib' /\ OldKept /\ NoneNew
<1> DEFINE n == Len(conns)
           new == [up |-> TRUE, got |-> <<>>]
<1>1. /\ conns \in Seq(Conn) /\ n \in Nat /\ DOMAIN conns = 1..n
      /\ new \in Conn /\ new.got = <<>> /\ conns' = Append(conns, new)
  BY DEF Lib, LibTypes, Connect, Conn
<1> HIDE DEF new
<1>2. /\ conns' \in Seq(Conn) /\ Len(conns') = n + 1 /\ DOMAIN conns' = 1..(n + 1)
      /\ conns'[n + 1] = new /\ \A c \in 1..n : conns'[c] = conns[c]
  BY <1>1
<1> HIDE DEF n
<1>3. OldKept
  BY <1>1, <1>2 DEF OldKept
<1>4. NoneNew
  <2>1. DOMAIN conns'[n + 1].got = {}
    BY <1>1, <1>2
  <2>2. ASSUME NEW c \in DOMAIN conns', NEW i \in DOMAIN conns'[c].got
        PROVE  c \in DOMAIN conns /\ i \in DOMAIN conns[c].got
    <3>1. c # n + 1
      BY <2>1
    <3> QED
      BY <1>1, <1>2, <3>1
  <2> QED
    BY <2>2 DEF NoneNew
<1>5. peer' = [peer EXCEPT ![dzSocket] = n + 1] /\ dzSocket \in Fds
      /\ owner[dzSocket] = "library" /\ dzSocket' = dzSocket /\ owner' = owner
  BY DEF Connect, OurSocket, n
<1>6. peer \in [Fds -> 0..n]
  BY DEF Lib, LibTypes, n
<1>7. peer' \in [Fds -> 0..(n + 1)]
  BY <1>1, <1>5, <1>6
<1>8. LibTypes'
  BY <1>2, <1>7 DEF Lib, LibTypes, Connect
<1>9. FreeHasNoPeer'
  BY <1>5, <1>6 DEF Lib, FreeHasNoPeer
<1> QED
  BY <1>3, <1>4, <1>8, <1>9 DEF Lib

(* A step that leaves what the connections have received.                  *)
LEMMA SameReceived ==
    ASSUME conns' = conns
    PROVE  OldKept /\ NoneNew
BY DEF OldKept, NoneNew

(* A connection that goes down keeps what it has received.                 *)
LEMMA StopConn ==
    ASSUME NEW conn \in Conn, NEW b \in BOOLEAN
    PROVE  [conn EXCEPT !.up = b] \in Conn /\ [conn EXCEPT !.up = b].got = conn.got
<1>1. conn.got \in Seq(Entry) /\ conn = [up |-> conn.up, got |-> conn.got]
  BY DEF Conn
<1>2. [conn EXCEPT !.up = b] = [up |-> b, got |-> conn.got]
  BY <1>1
<1> QED
  BY <1>1, <1>2 DEF Conn

(* The server stops: nothing is received, nothing is forgotten.            *)
LEMMA ServerStopFacts ==
    ASSUME Lib, ServerStop
    PROVE  Lib' /\ OldKept /\ NoneNew
<1>1. conns \in Seq(Conn) /\ conns' = [i \in DOMAIN conns |-> [conns[i] EXCEPT !.up = FALSE]]
  BY DEF Lib, LibTypes, ServerStop
<1>2. \A i \in DOMAIN conns : [conns[i] EXCEPT !.up = FALSE] \in Conn
                              /\ [conns[i] EXCEPT !.up = FALSE].got = conns[i].got
  <2>1. \A i \in DOMAIN conns : conns[i] \in Conn
    BY <1>1
  <2> QED
    BY <2>1, StopConn, FALSE \in BOOLEAN
<1>3. DOMAIN conns' = DOMAIN conns /\ \A i \in DOMAIN conns : conns'[i].got = conns[i].got
  BY <1>1, <1>2
<1>4. conns' \in Seq(Conn) /\ Len(conns') = Len(conns)
  BY <1>1, <1>2
<1>5. OldKept /\ NoneNew
  BY <1>3 DEF OldKept, NoneNew
<1>6. LibTypes'
  <2>1. stops' \in 0..MaxStops
    BY LogClientAssumption DEF Lib, LibTypes, ServerStop
  <2>2. serverUp' \in BOOLEAN
    BY DEF ServerStop
  <2>3. /\ dzSocket' \in Fds \cup {0, NoSocket}
        /\ owner' \in [Fds -> {"free", "host", "library"}]
        /\ sigpipe' \in Dispositions
    BY DEF Lib, LibTypes, ServerStop, libVars
  <2>4. peer' \in [Fds -> 0..Len(conns')]
    BY <1>4 DEF Lib, LibTypes, ServerStop, libVars
  <2>5. alive' \in BOOLEAN /\ loaded' \in BOOLEAN /\ unloaded' \in BOOLEAN
    BY DEF Lib, LibTypes, ServerStop, threadVars
  <2> QED
    BY <1>4, <2>1, <2>2, <2>3, <2>4, <2>5 DEF LibTypes
<1>7. FreeHasNoPeer'
  BY DEF Lib, FreeHasNoPeer, ServerStop, libVars
<1> QED
  BY <1>5, <1>6, <1>7 DEF Lib

(* Send leaves the descriptors, and a connection gets what is sent or      *)
(* nothing.                                                                *)
LEMMA SendFacts ==
    ASSUME Calls, Lib, NEW t \in Threads, Send(t)
    PROVE  ConnStep /\ Len(conns') = Len(conns)
<1>1. PICK name \in {"header", "payload"} :
          /\ At(t, name)
          /\ \/ Deliver(t, name) \/ DeliverShort(t, name) \/ Swallow(t, name)
             \/ Break(t) \/ SendFails(t)
          /\ UNCHANGED <<libVars, serverUp, stops>>
  BY DEF Send
<1>2. stack[t] # <<>> /\ stack[t] \in Seq(Message)
  BY <1>1 DEF Calls, ThreadTypes, At
<1>3. Head(stack[t]) \in Message
  BY <1>2
<1>4. \A part \in {"header", "payload", "short"} : Part(part, Head(stack[t])) \in Entry
  BY <1>3 DEF Part, Entry
<1>5. ASSUME conns' \in Seq(Conn), Len(conns') = Len(conns), alive' \in BOOLEAN,
             loaded' \in BOOLEAN, unloaded' = unloaded
      PROVE  Lib'
  BY <1>1, <1>5 DEF Lib, LibTypes, FreeHasNoPeer, libVars
<1>6. conns \in Seq(Conn) /\ LibTypes
  BY DEF Lib, LibTypes
<1>7. loaded' \in BOOLEAN
  BY <1>1, <1>6 DEF Deliver, DeliverShort, Swallow, Break, SendFails, Sent, Return, Fail, LibTypes
<1>8. alive' \in BOOLEAN
  BY <1>1, <1>6 DEF Deliver, DeliverShort, Swallow, Break, SendFails, LibTypes
<1>9. unloaded' = unloaded
  BY <1>1 DEF Deliver, DeliverShort, Swallow, Break, SendFails, Fail
<1>10. CASE conns' = conns
  BY <1>5, <1>6, <1>7, <1>8, <1>9, <1>10, SameReceived DEF ConnStep
<1>11. ASSUME NEW part \in {"header", "payload", "short"},
              part = "payload" => Deliver(t, "payload"), logged' = logged,
              OurSocket, peer[dzSocket] # 0,
              conns' = [conns EXCEPT ![peer[dzSocket]].got =
                                        Append(@, Part(part, Head(stack[t])))]
       PROVE  ConnStep /\ Len(conns') = Len(conns)
  <2>1. /\ conns' \in Seq(Conn) /\ Len(conns') = Len(conns) /\ OldKept
        /\ OneNew(Part(part, Head(stack[t])))
    BY <1>4, <1>6, <1>11, AppendFacts DEF OurSocket
  <2>2. Received(t, part)
    BY <1>2, <1>11, <2>1 DEF Received
  <2> QED
    BY <1>5, <1>7, <1>8, <1>9, <2>1, <2>2 DEF ConnStep
<1>12. CASE Deliver(t, name)
  BY <1>11, <1>12 DEF Deliver
<1>13. CASE DeliverShort(t, name)
  BY <1>11, <1>13 DEF DeliverShort
<1> QED
  BY <1>1, <1>10, <1>12, <1>13 DEF Swallow, Break, SendFails

(* Every step is one of these for the connections.                         *)
LEMMA ConnSteps == ASSUME Calls, Lib, [Next]_vars PROVE ConnStep
<1>1. ASSUME NEW t \in Threads, Send(t) PROVE ConnStep
  BY <1>1, SendFacts
<1>2. ASSUME NEW t \in Threads, Connect(t) PROVE ConnStep
  BY <1>2, ConnectFacts DEF ConnStep
<1>3. CASE ServerStop
  BY <1>3, ServerStopFacts DEF ConnStep
<1>4. ASSUME NEW t \in Threads, Socket(t) PROVE ConnStep
  <2>1. conns' = conns /\ UNCHANGED <<peer, sigpipe, alive, loaded, unloaded, serverUp, stops>>
    BY <1>4 DEF Socket, serverVars
  <2>2. CASE Free = {} /\ dzSocket' = NoSocket /\ UNCHANGED owner
    <3>1. NoSocket \notin Fds
      BY LogClientAssumption DEF NoSocket
    <3>2. Lib'
      BY <2>1, <2>2, <3>1 DEF Lib, LibTypes, FreeHasNoPeer
    <3> QED
      BY <2>1, <3>2, SameReceived DEF ConnStep
  <2>3. ASSUME NEW fd \in Free, dzSocket' = fd, owner' = [owner EXCEPT ![fd] = "library"]
        PROVE  ConnStep
    <3>1. fd \in Fds /\ peer[fd] = 0
      BY DEF Free, Lib, FreeHasNoPeer
    <3>2. Lib'
      BY <2>1, <2>3, <3>1 DEF Lib, LibTypes, FreeHasNoPeer
    <3> QED
      BY <2>1, <3>2, SameReceived DEF ConnStep
  <2> QED
    BY <1>4, <2>2, <2>3 DEF Socket
<1>5. ASSUME conns' = conns, Lib' PROVE ConnStep
  BY <1>5, SameReceived DEF ConnStep
<1> USE DEF Lib, LibTypes, FreeHasNoPeer, libVars, threadVars, serverVars
<1>6. ASSUME NEW t \in Threads, Close(t) PROVE Lib'
  BY <1>6 DEF Close
<1>7. ASSUME NEW t \in Threads, Forget(t) PROVE Lib'
  BY <1>7 DEF Forget
<1>8. ASSUME NEW fd \in Fds, HostOpen(fd) \/ HostClose(fd) PROVE Lib'
  BY <1>8 DEF HostOpen, HostClose
<1>9. CASE UNCHANGED <<libVars, alive, loaded, unloaded, serverVars>>
  BY <1>5, <1>9
<1>10. ASSUME NEW t \in Threads,
              Log(t) \/ Check(t) \/ ConnectFails(t) \/ IgnoreAndRegister(t)
              \/ NothingToClose(t) \/ Restore(t)
       PROVE  ConnStep
  <2>1. Lib' /\ conns' = conns
    BY <1>10
    DEF Log, Check, ConnectFails, Fail, IgnoreAndRegister, NothingToClose, Return, Restore,
      Dispositions
  <2> QED
    BY <1>5, <2>1
<1>11. CASE Finish \/ ServerStart
  BY <1>5, <1>11 DEF Finish, ServerStart
<1>12. ASSUME NEW t \in Threads, Close(t) \/ Forget(t) PROVE ConnStep
  BY <1>5, <1>6, <1>7, <1>12 DEF Close, Forget
<1>13. ASSUME NEW fd \in Fds, HostOpen(fd) \/ HostClose(fd) PROVE ConnStep
  BY <1>5, <1>8, <1>13 DEF HostOpen, HostClose
<1>15. ASSUME NEW disposition \in {"hostDFL", "hostOther"}, HostSignal(disposition) PROVE ConnStep
  BY <1>5, <1>15 DEF HostSignal, Dispositions
<1>14. UNCHANGED vars => UNCHANGED <<libVars, alive, loaded, unloaded, serverVars>>
  BY DEF vars
<1> QED
  BY <1>1, <1>2, <1>3, <1>4, <1>9, <1>10, <1>11, <1>12, <1>13, <1>14, <1>15
  DEF Next, Work, Environment

(* With standard input open dzSocket = 0 names no descriptor, and a new    *)
(* connection is the only one that dzSocket can move to.                   *)
LEMMA LastKept ==
    ASSUME 0 \notin Fds, Calls, Lib, CurrentIsLast, [Next]_vars
    PROVE  CurrentIsLast'
<1> USE DEF CurrentIsLast, libVars
<1>0. conns \in Seq(Conn) /\ peer \in [Fds -> 0..Len(conns)]
  BY DEF Lib, LibTypes
<1>1. ASSUME UNCHANGED <<dzSocket, peer>>, Len(conns') = Len(conns) PROVE CurrentIsLast'
  BY <1>1
<1>2. ASSUME NEW t \in Threads, Send(t) PROVE CurrentIsLast'
  BY <1>1, <1>2, SendFacts DEF Send
<1>3. ASSUME NEW t \in Threads, Connect(t) PROVE CurrentIsLast'
  <2>1. Len(conns') = Len(conns) + 1
    BY <1>0, <1>3 DEF Connect
  <2> QED
    BY <1>0, <1>3, <2>1 DEF Connect
<1>4. CASE ServerStop
  <2>1. DOMAIN conns' = DOMAIN conns
    BY <1>4 DEF ServerStop
  <2>2. Len(conns') = Len(conns)
    <3>1. conns' \in Seq(Conn)
      BY <1>4, ServerStopFacts DEF Lib, LibTypes
    <3>2. Len(conns) \in Nat /\ Len(conns') \in Nat
          /\ DOMAIN conns = 1..Len(conns) /\ DOMAIN conns' = 1..Len(conns')
      BY <1>0, <3>1
    <3> QED
      BY <2>1, <3>2
  <2> QED
    BY <1>1, <1>4, <2>2 DEF ServerStop
<1>5. ASSUME NEW t \in Threads, Socket(t) PROVE CurrentIsLast'
  <2>1. CASE dzSocket' = NoSocket
    BY <2>1, LogClientAssumption DEF NoSocket
  <2>2. ASSUME NEW fd \in Free, dzSocket' = fd PROVE CurrentIsLast'
    <3>1. peer' = peer /\ peer[fd] = 0
      BY <1>5 DEF Socket, Free, Lib, FreeHasNoPeer
    <3> QED
      BY <2>2, <3>1
  <2> QED
    BY <1>5, <2>1, <2>2 DEF Socket
<1>6. ASSUME NEW t \in Threads, Close(t) PROVE CurrentIsLast'
  <2>1. dzSocket' = dzSocket /\ (dzSocket \in Fds => peer'[dzSocket] = 0)
    BY <1>6 DEF Close
  <2> QED
    BY <2>1
<1>7. ASSUME NEW t \in Threads, Forget(t) PROVE CurrentIsLast'
  <2>1. dzSocket' = 0
    BY <1>7 DEF Forget
  <2> QED
    BY <2>1
<1>8. ASSUME NEW t \in Threads,
             Log(t) \/ Check(t) \/ ConnectFails(t) \/ IgnoreAndRegister(t)
             \/ NothingToClose(t) \/ Restore(t)
      PROVE  CurrentIsLast'
  BY <1>1, <1>8
  DEF Log, Check, ConnectFails, IgnoreAndRegister, NothingToClose, Restore, serverVars
<1>9. ASSUME NEW fd \in Fds, HostOpen(fd) \/ HostClose(fd) PROVE CurrentIsLast'
  BY <1>1, <1>9 DEF HostOpen, HostClose, serverVars
<1>10. CASE Finish \/ ServerStart
  BY <1>1, <1>10 DEF Finish, ServerStart, serverVars
<1>12. ASSUME NEW disposition \in {"hostDFL", "hostOther"}, HostSignal(disposition)
       PROVE  CurrentIsLast'
  BY <1>1, <1>12 DEF HostSignal, serverVars
<1>11. CASE UNCHANGED vars
  BY <1>1, <1>11 DEF vars, serverVars
<1> QED
  BY <1>2, <1>3, <1>4, <1>5, <1>6, <1>7, <1>8, <1>9, <1>10, <1>11, <1>12
  DEF Next, Work, Environment

-----------------------------------------------------------------------------
(* What has arrived.                                                       *)

(* Nothing arrives before it is logged.                                    *)
ArrivedWasLogged == \A m \in Message : Arrived(m) => m.n <= logged[m.by]

(* A log message that a thread is still sending is newer than all of its   *)
(* that have arrived.                                                      *)
PendingIsNewer ==
    \A t \in Threads : \A k \in DOMAIN stack[t] : stack[t][k].n # 0 =>
        \A m \in Message : Arrived(m) /\ m.by = t => m.n < stack[t][k].n

(* The parts of a message.                                                 *)
LEMMA PartFacts ==
    /\ \A a, b, m, n : Part(a, m) = Part(b, n) => a = b /\ m = n
    /\ \A e \in Entry : e = Part(e.part, e.msg) /\ e.msg \in Message
<1>1. \A a, m : Part(a, m).part = a /\ Part(a, m).msg = m
  BY DEF Part
<1> QED
  BY <1>1 DEF Part, Entry

(* The innermost call of a thread.                                         *)
LEMMA HeadFacts ==
    ASSUME Calls, NEW t \in Threads, stack[t] # <<>>
    PROVE  /\ 1 \in DOMAIN stack[t] /\ Head(stack[t]) = stack[t][1]
           /\ Head(stack[t]) \in Message /\ Head(stack[t]).by = t
           /\ Head(stack[t]).n <= logged[t]
<1>1. stack[t] \in Seq(Message)
  BY DEF Calls, ThreadTypes
<1>2. 1 \in DOMAIN stack[t] /\ Head(stack[t]) = stack[t][1] /\ stack[t][1] \in Message
  BY <1>1
<1> QED
  BY <1>2 DEF Calls, ThreadTypes

(* What has arrived stays, and nothing else arrives but the payload that   *)
(* is sent.                                                                *)
LEMMA ArrivedFacts ==
    ASSUME ConnStep
    PROVE  /\ \A m : Arrived(m) => Arrived(m)'
           /\ \A m : Arrived(m)' => \/ Arrived(m)
                                    \/ \E t \in Threads : /\ m = Head(stack[t]) /\ stack[t] # <<>>
                                                          /\ Deliver(t, "payload")
                                                          /\ logged' = logged
<1>1. \A m : Arrived(m) => Arrived(m)'
  BY DEF ConnStep, OldKept, Arrived
<1>2. ASSUME NEW m, Arrived(m)', ~Arrived(m)
      PROVE  \E t \in Threads : /\ m = Head(stack[t]) /\ stack[t] # <<>>
                                /\ Deliver(t, "payload") /\ logged' = logged
  <2>1. PICK c \in DOMAIN conns' : \E i \in DOMAIN conns'[c].got :
           conns'[c].got[i] = Part("payload", m)
    BY <1>2 DEF Arrived
  <2>2. PICK i \in DOMAIN conns'[c].got : conns'[c].got[i] = Part("payload", m)
    BY <2>1
  <2>3. ~(c \in DOMAIN conns /\ i \in DOMAIN conns[c].got)
    BY <1>2, <2>2 DEF ConnStep, OldKept, Arrived
  <2>4. ~NoneNew
    BY <2>3 DEF NoneNew
  <2>5. PICK t \in Threads, part \in {"header", "payload", "short"} : Received(t, part)
    BY <2>4 DEF ConnStep
  <2>6. conns'[c].got[i] = Part(part, Head(stack[t]))
    BY <2>3, <2>5 DEF Received, OneNew
  <2>7. part = "payload" /\ m = Head(stack[t])
    BY <2>2, <2>6, PartFacts
  <2> QED
    BY <2>5, <2>7 DEF Received
<1> QED
  BY <1>1, <1>2

(* A payload that is delivered has arrived.                                *)
LEMMA DeliverArrives ==
    ASSUME Calls, Lib, NEW t \in Threads, NEW m, m = Head(stack[t]), stack[t] # <<>>,
           Deliver(t, "payload")
    PROVE  Arrived(m)'
<1>1. Part("payload", m) \in Entry
  BY HeadFacts DEF Part, Entry
<1>2. conns' = [conns EXCEPT ![peer[dzSocket]].got = Append(@, Part("payload", m))]
  BY DEF Deliver
<1>3. OneNew(Part("payload", m))
  BY <1>1, <1>2, AppendFacts DEF Deliver, OurSocket, Lib
<1> QED
  BY <1>3 DEF OneNew, Arrived

(* Log calls are only ever added.                                          *)
LEMMA LoggedGrows ==
    ASSUME ThreadTypes, CallStep, NEW t \in Threads
    PROVE  logged[t] <= logged'[t]
<1>1. logged \in [Threads -> Nat]
  BY DEF ThreadTypes
<1>2. CASE logged' = logged
  BY <1>1, <1>2
<1>3. ASSUME NEW u \in Threads, Logs(u) PROVE logged[t] <= logged'[t]
  BY <1>1, <1>3 DEF Logs
<1> QED
  BY <1>2, <1>3 DEF CallStep, GoesOn, Registers, Returns

(* A step keeps ArrivedWasLogged.                                          *)
LEMMA ArrivedLogged ==
    ASSUME Calls, ArrivedWasLogged, CallStep, ConnStep
    PROVE  ArrivedWasLogged'
<1>1. \A t \in Threads : logged[t] <= logged'[t]
  BY LoggedGrows DEF Calls
<1> SUFFICES ASSUME NEW m \in Message, Arrived(m)' PROVE m.n <= logged'[m.by]
  BY DEF ArrivedWasLogged
<1>2. m.by \in Threads /\ m.n \in Nat /\ logged[m.by] \in Nat /\ logged'[m.by] \in Nat
  <2>1. Calls'
    BY CallsKept
  <2> QED
    BY <2>1 DEF Calls, ThreadTypes, Message
<1>3. m.n <= logged[m.by]
  <2>1. CASE Arrived(m)
    BY <2>1 DEF ArrivedWasLogged
  <2>2. ASSUME NEW t \in Threads, m = Head(stack[t]), stack[t] # <<>> PROVE m.n <= logged[m.by]
    BY <2>2, HeadFacts
  <2> QED
    BY <2>1, <2>2, ArrivedFacts
<1> QED
  BY <1>1, <1>2, <1>3

(* Where the messages of a thread come from.                               *)
LEMMA CallOrigin ==
    ASSUME Calls, CallStep, NEW t \in Threads, NEW k \in DOMAIN stack'[t],
           stack'[t][k].n # 0
    PROVE  \/ \E i \in DOMAIN stack[t] : stack'[t][k] = stack[t][i]
           \/ stack'[t][k].n = logged[t] + 1
<1>0. ThreadTypes /\ stack \in [Threads -> Seq(Message)]
  BY DEF Calls, ThreadTypes
<1>1. CASE stack' = stack
  BY <1>1
<1>2. ASSUME NEW u \in Threads, Logs(u)
      PROVE  \/ \E i \in DOMAIN stack[t] : stack'[t][k] = stack[t][i]
             \/ stack'[t][k].n = logged[t] + 1
  <2>1. CASE t # u
    BY <1>0, <1>2, <2>1, LogsFacts
  <2>2. CASE t = u
    <3>1. DOMAIN stack'[t] = {1} /\ stack'[t][1] = LogMessage(t)
          /\ LogMessage(t).n = logged[t] + 1
      BY <1>0, <1>2, <2>2, LogsFacts
    <3> QED
      BY <3>1
  <2> QED
    BY <2>1, <2>2
<1>3. ASSUME NEW u \in Threads, Registers(u)
      PROVE  \E i \in DOMAIN stack[t] : stack'[t][k] = stack[t][i]
  <2>1. CASE t # u
    BY <1>0, <1>3, <2>1, RegisterFacts
  <2>2. CASE t = u
    <3>1. Registration(t).n = 0
      BY DEF Registration
    <3> QED
      BY <1>0, <1>3, <2>2, <3>1, RegisterFacts
  <2> QED
    BY <2>1, <2>2
<1>4. ASSUME NEW u \in Threads, Returns(u)
      PROVE  \E i \in DOMAIN stack[t] : stack'[t][k] = stack[t][i]
  <2>1. CASE t # u
    BY <1>0, <1>4, <2>1, ReturnFacts DEF Returns
  <2>2. CASE t = u
    BY <1>0, <1>4, <2>2, ReturnFacts DEF Returns
  <2> QED
    BY <2>1, <2>2
<1> QED
  BY <1>1, <1>2, <1>3, <1>4 DEF CallStep, GoesOn

(* A step keeps PendingIsNewer.                                            *)
LEMMA PendingNewer ==
    ASSUME Calls, ArrivedWasLogged, PendingIsNewer, CallStep, ConnStep
    PROVE  PendingIsNewer'
<1> SUFFICES ASSUME NEW t \in Threads, NEW k \in DOMAIN stack'[t], stack'[t][k].n # 0,
                    NEW m \in Message, Arrived(m)', m.by = t
             PROVE  m.n < stack'[t][k].n
  BY DEF PendingIsNewer
<1>0. ThreadTypes /\ m.n \in Nat /\ logged[t] \in Nat /\ stack[t] \in Seq(Message)
  BY DEF Calls, ThreadTypes, Message
<1>1. stack'[t][k].n \in Nat
  <2>1. stack'[t] \in Seq(Message)
    BY CallsKept DEF Calls, ThreadTypes
  <2>2. stack'[t][k] \in Message
    BY <2>1
  <2> QED
    BY <2>2 DEF Message
<1>2. CASE Arrived(m)
  <2>1. m.n <= logged[t]
    BY <1>2 DEF ArrivedWasLogged
  <2>2. ASSUME NEW i \in DOMAIN stack[t], stack'[t][k] = stack[t][i]
        PROVE  m.n < stack'[t][k].n
    BY <1>2, <2>2 DEF PendingIsNewer
  <2>3. CASE stack'[t][k].n = logged[t] + 1
    BY <1>0, <2>1, <2>3
  <2> QED
    BY <2>2, <2>3, CallOrigin
<1>3. ASSUME NEW u \in Threads, m = Head(stack[u]), stack[u] # <<>>, Deliver(u, "payload")
      PROVE  m.n < stack'[t][k].n
  <2>1. u = t /\ 1 \in DOMAIN stack[t] /\ m = stack[t][1]
    BY <1>3, HeadFacts
  <2>2. Return(t)
    BY <1>3, <2>1 DEF Deliver, Sent
  <2>3. k + 1 \in DOMAIN stack[t] /\ stack'[t][k] = stack[t][k + 1] /\ k \in DOMAIN stack'[t]
    BY <1>0, <2>2, ReturnFacts
  <2>4. k + 1 = Len(stack[t])
    BY <2>3 DEF Calls, OneLogCall
  <2>5. k \in Nat /\ k # 0
    <3>1. stack'[t] \in Seq(Message)
      BY CallsKept DEF Calls, ThreadTypes
    <3> QED
      BY <2>3, <3>1
  <2>6. m.n # 0 => 1 = Len(stack[t])
    BY <2>1 DEF Calls, OneLogCall
  <2>7. m.n = 0
    <3>1. ASSUME m.n # 0 PROVE FALSE
      <4>1. k + 1 = 1
        BY <2>4, <2>6, <3>1
      <4> QED
        BY <2>5, <4>1
    <3> QED
      BY <3>1
  <2> QED
    BY <1>1, <2>7
<1> QED
  BY <1>2, <1>3, ArrivedFacts

(* A step keeps UndisturbedArrive: a call that returns without having      *)
(* failed has delivered its payload.                                       *)
LEMMA UndisturbedKept ==
    ASSUME Calls, Lib, UndisturbedArrive, CallStep, ConnStep
    PROVE  UndisturbedArrive'
<1> SUFFICES ASSUME NEW t \in Threads, NEW n \in 1..logged'[t]
             PROVE  LET msg == [by |-> t, n |-> n]
                    IN  \/ Arrived(msg)'
                        \/ msg \in disturbed'
                        \/ \E i \in DOMAIN stack'[t] : stack'[t][i] = msg
  BY DEF UndisturbedArrive
<1>m. PICK m : m = [by |-> t, n |-> n]
  OBVIOUS
<1> SUFFICES \/ Arrived(m)'
             \/ m \in disturbed'
             \/ \E i \in DOMAIN stack'[t] : stack'[t][i] = m
  BY <1>m DEF Arrived
<1> DEFINE There == \E i \in DOMAIN stack'[t] : stack'[t][i] = m
<1>0. /\ ThreadTypes /\ stack \in [Threads -> Seq(Message)]
      /\ logged[t] \in Nat /\ disturbed \subseteq disturbed'
  BY DEF Calls, ThreadTypes, CallStep
<1>1. Arrived(m) => Arrived(m)'
  BY ArrivedFacts
<1>2. CASE n \notin 1..logged[t]
  <2>1. PICK u \in Threads : Logs(u)
    BY <1>2 DEF CallStep, GoesOn, Registers, Returns
  <2>2. u = t
    BY <1>0, <1>2, <2>1, LogsFacts
  <2>3. n = logged[t] + 1
    BY <1>0, <1>2, <2>1, <2>2, LogsFacts
  <2>4. 1 \in DOMAIN stack'[t] /\ stack'[t][1] = m
    BY <1>m, <1>0, <2>1, <2>2, <2>3, LogsFacts DEF LogMessage
  <2> QED
    BY <2>4
<1>3. ASSUME NEW i \in DOMAIN stack[t], stack[t][i] = m
      PROVE  Arrived(m)' \/ m \in disturbed' \/ There
  <2>1. CASE stack' = stack
    BY <1>3, <2>1
  <2>2. ASSUME NEW u \in Threads, Logs(u) PROVE There
    <3>1. u # t
      BY <1>3, <2>2 DEF Logs, Calls, IdleHasNoCall
    <3>2. stack'[t] = stack[t]
      BY <1>0, <2>2, <3>1, LogsFacts
    <3> QED
      BY <1>3, <3>2
  <2>3. ASSUME NEW u \in Threads, Registers(u) PROVE There
    <3>1. CASE u # t
      BY <1>0, <1>3, <2>3, <3>1, RegisterFacts
    <3>2. CASE u = t
      BY <1>0, <1>3, <2>3, <3>2, RegisterFacts
    <3> QED
      BY <3>1, <3>2
  <2>4. ASSUME NEW u \in Threads, Returns(u)
        PROVE  Arrived(m)' \/ m \in disturbed' \/ There
    <3>1. CASE u # t
      BY <1>0, <1>3, <2>4, <3>1, ReturnFacts DEF Returns
    <3>2. CASE u = t /\ i # 1
      BY <1>0, <1>3, <2>4, <3>2, ReturnFacts DEF Returns
    <3>3. CASE u = t /\ i = 1
      <4>1. stack[t] # <<>>
        BY <1>3
      <4>2. m = Head(stack[t])
        BY <1>3, <3>3, <4>1, HeadFacts
      <4>3. CASE Deliver(t, "payload")
        BY <4>1, <4>2, <4>3, DeliverArrives
      <4>4. CASE \A j \in DOMAIN stack[t] : stack[t][j] \in disturbed'
        BY <1>3, <4>4
      <4> QED
        BY <2>4, <3>3, <4>3, <4>4 DEF Returns
    <3> QED
      BY <3>1, <3>2, <3>3
  <2> QED
    BY <2>1, <2>2, <2>3, <2>4 DEF CallStep, GoesOn
<1>4. CASE n \in 1..logged[t]
  <2>1. \/ Arrived(m) \/ m \in disturbed
        \/ \E i \in DOMAIN stack[t] : stack[t][i] = m
    BY <1>m, <1>4 DEF UndisturbedArrive
  <2> QED
    BY <1>0, <1>1, <1>3, <2>1
<1> QED
  BY <1>2, <1>4

(* A step keeps ArriveInOrder: what is delivered comes last, and is newer  *)
(* than what its thread has delivered before.                              *)
LEMMA InOrderKept ==
    ASSUME Calls, Lib, PendingIsNewer, CurrentIsLast, ArriveInOrder, ConnStep
    PROVE  ArriveInOrder'
<1> SUFFICES ASSUME NEW c \in DOMAIN conns', NEW d \in DOMAIN conns',
                    NEW i \in DOMAIN conns'[c].got, NEW j \in DOMAIN conns'[d].got,
                    NEW p, NEW q, p = conns'[c].got[i], q = conns'[d].got[j],
                    c < d \/ (c = d /\ i < j),
                    p.part = "payload", q.part = "payload", p.msg.by = q.msg.by,
                    p.msg.n > 0, q.msg.n > 0
             PROVE  p.msg.n < q.msg.n
  BY DEF ArriveInOrder
<1> DEFINE POld == c \in DOMAIN conns /\ i \in DOMAIN conns[c].got
           QOld == d \in DOMAIN conns /\ j \in DOMAIN conns[d].got
<1>1. POld => conns[c].got[i] = p
  BY DEF ConnStep, OldKept
<1>2. QOld => conns[d].got[j] = q
  BY DEF ConnStep, OldKept
<1>3. CASE POld /\ QOld
  BY <1>1, <1>2, <1>3 DEF ArriveInOrder
<1>4. CASE ~(POld /\ QOld)
  <2>1. PICK t \in Threads, part \in {"header", "payload", "short"} : Received(t, part)
    BY <1>4 DEF ConnStep, NoneNew
  <2> DEFINE entry == Part(part, Head(stack[t]))
  <2>2. PICK e \in DOMAIN conns' : \E k \in DOMAIN conns'[e].got :
           /\ conns'[e].got[k] = entry
           /\ \A f \in DOMAIN conns' : \A l \in DOMAIN conns'[f].got :
                 \/ /\ f \in DOMAIN conns /\ l \in DOMAIN conns[f].got
                    /\ f < e \/ (f = e /\ l < k)
                 \/ f = e /\ l = k
    BY <2>1 DEF Received, OneNew
  <2>3. PICK k \in DOMAIN conns'[e].got :
           /\ conns'[e].got[k] = entry
           /\ \A f \in DOMAIN conns' : \A l \in DOMAIN conns'[f].got :
                 \/ /\ f \in DOMAIN conns /\ l \in DOMAIN conns[f].got
                    /\ f < e \/ (f = e /\ l < k)
                 \/ f = e /\ l = k
    BY <2>2
  <2>4. /\ c \in Nat /\ d \in Nat /\ i \in Nat /\ j \in Nat
        /\ p \in Entry /\ q \in Entry
    <3>1. conns' \in Seq(Conn)
      BY DEF ConnStep, Lib, LibTypes
    <3>2. /\ c \in Nat /\ d \in Nat
          /\ conns'[c].got \in Seq(Entry) /\ conns'[d].got \in Seq(Entry)
      <4>1. c \in Nat /\ d \in Nat /\ conns'[c] \in Conn /\ conns'[d] \in Conn
        BY <3>1
      <4>2. \A conn \in Conn : conn.got \in Seq(Entry)
        BY DEF Conn
      <4> QED
        BY <4>1, <4>2
    <3> QED
      BY <3>2
  <2>5. ~(c = e /\ i = k)
    <3>1. ASSUME c = e, i = k PROVE FALSE
      <4>1. \/ d < c \/ (d = c /\ j < i)
            \/ d = c /\ j = i
        BY <2>3, <3>1
      <4> QED
        BY <2>4, <4>1
    <3> QED
      BY <3>1
  <2>6. POld
    BY <2>3, <2>5
  <2>7. d = e /\ j = k
    BY <1>4, <2>3, <2>6
  <2>8. q = entry
    BY <2>3, <2>7
  <2>9. q = Part(q.part, q.msg) /\ p = Part(p.part, p.msg) /\ p.msg \in Message
    BY <2>4, PartFacts
  <2>10. part = "payload" /\ q.msg = Head(stack[t]) /\ stack[t] # <<>>
    BY <2>1, <2>8, <2>9, PartFacts DEF Received
  <2>11. 1 \in DOMAIN stack[t] /\ q.msg = stack[t][1] /\ q.msg.by = t /\ q.msg.n # 0
    BY <2>10, HeadFacts
  <2>12. Arrived(p.msg)
    BY <1>1, <2>6, <2>9 DEF Arrived
  <2> QED
    BY <2>9, <2>11, <2>12 DEF PendingIsNewer
<1> QED
  BY <1>3, <1>4

-----------------------------------------------------------------------------
(* The invariant of any number of threads.                                 *)
CInv == Calls /\ Lib /\ ArrivedWasLogged /\ PendingIsNewer /\ UndisturbedArrive

(* The invariants hold before the constructor of the library has run.      *)
LEMMA CallsInit == Init => CInv /\ CurrentIsLast /\ ArriveInOrder
<1> SUFFICES ASSUME Init PROVE CInv /\ CurrentIsLast /\ ArriveInOrder
  OBVIOUS
<1>1. Calls
  <2>1. <<>> \in Seq(Message) /\ DOMAIN <<>> = {}
    OBVIOUS
  <2>2. ThreadTypes
    BY <2>1 DEF Init, ThreadTypes, Labels
  <2>3. OneLogCall /\ IdleHasNoCall /\ FailingIsDisturbed
    BY <2>1 DEF Init, OneLogCall, IdleHasNoCall, FailingIsDisturbed
  <2> QED
    BY <2>2, <2>3 DEF Calls
<1>2. Lib
  <2>1. conns \in Seq(Conn) /\ Len(conns) = 0
    BY DEF Init
  <2>2. /\ dzSocket \in Fds \cup {0, NoSocket}
        /\ owner \in [Fds -> {"free", "host", "library"}]
        /\ peer \in [Fds -> 0..0]
        /\ sigpipe \in Dispositions
    BY DEF Init, Dispositions
  <2>3. stops \in 0..MaxStops
    BY LogClientAssumption DEF Init
  <2>4. alive \in BOOLEAN /\ loaded \in BOOLEAN /\ unloaded \in BOOLEAN /\ serverUp \in BOOLEAN
    BY DEF Init
  <2>5. FreeHasNoPeer
    BY DEF Init, FreeHasNoPeer
  <2> QED
    BY <2>1, <2>2, <2>3, <2>4, <2>5 DEF Lib, LibTypes
<1>3. conns = <<>> /\ DOMAIN conns = {}
  BY DEF Init
<1>4. \A m : ~Arrived(m)
  BY <1>3 DEF Arrived
<1>5. ArrivedWasLogged /\ PendingIsNewer
  BY <1>4 DEF ArrivedWasLogged, PendingIsNewer
<1>6. UndisturbedArrive
  BY DEF Init, UndisturbedArrive
<1>7. CurrentIsLast /\ ArriveInOrder
  BY <1>3 DEF Init, CurrentIsLast, ArriveInOrder
<1> QED
  BY <1>1, <1>2, <1>5, <1>6, <1>7 DEF CInv

(* Every step of any thread, of the host and of the server keeps it.       *)
LEMMA CallsInductive == CInv /\ [Next]_vars => CInv'
<1> SUFFICES ASSUME CInv, [Next]_vars PROVE CInv'
  OBVIOUS
<1>1. CallStep /\ ConnStep
  BY CallSteps, ConnSteps DEF CInv
<1> QED
  BY <1>1, CallsKept, ArrivedLogged, PendingNewer, UndisturbedKept DEF CInv, ConnStep

(* What holds in every state of the library, with any number of threads.   *)
THEOREM CallsInvariant == Spec => []CInv
<1>1. Init => CInv
  BY CallsInit
<1> QED
  BY <1>1, CallsInductive, PTL DEF Spec

(* The variables keep their types; a thread is only ever in calls of its   *)
(* own messages.                                                           *)
THEOREM TypeCorrect == Spec => []TypeOK
<1>1. CInv => TypeOK
  BY SplitTypes DEF CInv, Calls, Lib
<1> QED
  BY <1>1, CallsInvariant, PTL

(* No log call loses its message between connectServer and sendServer,     *)
(* whatever the other threads, the host and the server do: it arrives, or  *)
(* the call has seen a failure.                                            *)
THEOREM UndisturbedEver == Spec => []UndisturbedArrive
<1>1. CInv => UndisturbedArrive
  BY DEF CInv
<1> QED
  BY <1>1, CallsInvariant, PTL

(* The payloads of a thread arrive once each and in the order of the calls,*)
(* also over reconnections that other threads cause, in a process that     *)
(* keeps its standard input open.                                          *)
THEOREM InOrderEver == ASSUME 0 \notin Fds PROVE Spec => []ArriveInOrder
<1> DEFINE OrderInv == CInv /\ CurrentIsLast /\ ArriveInOrder
<1>1. Init => OrderInv
  BY CallsInit
<1>2. OrderInv /\ [Next]_vars => OrderInv'
  <2> SUFFICES ASSUME OrderInv, [Next]_vars PROVE OrderInv'
    OBVIOUS
  <2>1. CInv' /\ ConnStep
    BY CallsInductive, ConnSteps DEF CInv
  <2>2. CurrentIsLast'
    BY LastKept DEF CInv
  <2>3. ArriveInOrder'
    BY <2>1, InOrderKept DEF CInv
  <2> QED
    BY <2>1, <2>2, <2>3
<1>3. OrderInv => ArriveInOrder
  OBVIOUS
<1> QED
  BY <1>1, <1>2, <1>3, PTL DEF Spec

-----------------------------------------------------------------------------
(* The process has one thread, and its standard input is open: socket()    *)
(* does not return 0, which dzSocket takes for "not connected".            *)
OneThread == Threads = {Main} /\ 0 \notin Fds

-----------------------------------------------------------------------------
(* The inductive invariant.                                                *)

Types ==
    /\ pc \in [Threads -> Labels]
    /\ dzSocket \in Fds \cup {0, NoSocket}
    /\ owner \in [Fds -> {"free", "host", "library"}]
    /\ sigpipe \in Dispositions

(* Where dzSocket is set, where it is not, and where socket() has failed.  *)
SocketAtLabel ==
    /\ pc[Main] \in {"socket", "restore"} => dzSocket = 0
    /\ pc[Main] \in {"connect", "signal", "forget"} => dzSocket # 0
    /\ pc[Main] \notin {"connect", "close", "forget"} => dzSocket # NoSocket

(* A descriptor in dzSocket is the library's until it has been closed.     *)
SocketIsOurs ==
    dzSocket \in Fds => (owner[dzSocket] = "library" <=> pc[Main] # "forget")

(* SIGPIPE is not at the library's default where a send may follow on a    *)
(* socket, and not left ignored where there is no socket, but for the call *)
(* that is about to restore it.                                            *)
SignalAtLabel ==
    /\ pc[Main] \in {"idle", "check", "header", "payload"} /\ dzSocket # 0
           => sigpipe # "DFL"
    /\ pc[Main] # "restore" /\ dzSocket = 0 => sigpipe # "IGN"

SInv ==
    /\ Types /\ SocketAtLabel /\ SocketIsOurs /\ SignalAtLabel
    /\ NoLeak /\ HostSurvives

-----------------------------------------------------------------------------
(* The invariant holds before the library's constructor has run.           *)
LEMMA SingleInit == ASSUME OneThread, Init PROVE SInv
BY LogClientAssumption
   DEF OneThread, Init, SInv, Types, Labels, Dispositions, NoSocket, SocketAtLabel, SocketIsOurs, SignalAtLabel,
       NoLeak, HostSurvives

(* Return leaves a thread idle or in the sendServer around.                *)
LEMMA ReturnTo ==
    ASSUME Types, OneThread, Return(Main)
    PROVE  pc' \in [Threads -> Labels] /\ pc'[Main] \in {"idle", "header"}
BY LogClientAssumption DEF Types, OneThread, Return, GoTo, Labels

(* Every step of the one thread, of the host and of the server keeps it.   *)
LEMMA SingleStep == ASSUME OneThread, SInv, [Next]_vars PROVE SInv'
<1> USE LogClientAssumption DEF OneThread, SInv, Types, SocketAtLabel, SocketIsOurs,
        SignalAtLabel, NoLeak, HostSurvives, Labels, Dispositions, At, GoTo, NoSocket,
        libVars, threadVars, serverVars
<1>1. CASE Log(Main)
  BY <1>1 DEF Log
<1>2. CASE Check(Main)
  BY <1>2 DEF Check
<1>3. CASE Socket(Main)
  <2>1. CASE Free = {} /\ dzSocket' = NoSocket /\ UNCHANGED owner
    BY <1>3, <2>1 DEF Socket
  <2>2. CASE \E fd \in Free : dzSocket' = fd /\ owner' = [owner EXCEPT ![fd] = "library"]
    BY <1>3, <2>2 DEF Socket, Free
  <2>3. QED BY <1>3, <2>1, <2>2 DEF Socket
<1>4. CASE Connect(Main)
  <2>1. dzSocket \in Fds
    BY <1>4 DEF Connect, OurSocket
  <2>2. dzSocket # NoSocket
    BY <2>1
  <2>3. QED BY <1>4, <2>1, <2>2 DEF Connect
<1>5. CASE ConnectFails(Main)
  BY <1>5 DEF ConnectFails, Fail
<1>6. CASE IgnoreAndRegister(Main)
  BY <1>6 DEF IgnoreAndRegister
<1>7. CASE Send(Main)
  <2>1. PICK part \in {"header", "payload"} :
            /\ At(Main, part)
            /\ \/ Deliver(Main, part) \/ DeliverShort(Main, part) \/ Swallow(Main, part)
               \/ Break(Main) \/ SendFails(Main)
            /\ UNCHANGED libVars
    BY <1>7 DEF Send
  <2>2. CASE Sent(Main, part) /\ UNCHANGED alive
    <3>1. pc' \in [Threads -> Labels] /\ pc'[Main] \in {"idle", "header", "payload"}
      BY <2>2, ReturnTo DEF Sent
    <3>2. QED BY <2>1, <2>2, <3>1
  <2>3. CASE Fail(Main) /\ (alive' = alive \/ Break(Main))
    <3>1. pc' = [pc EXCEPT ![Main] = "close"]
      BY <2>3 DEF Fail
    <3>2. HostSurvives'
      <4>1. CASE alive' = alive
        BY <4>1, <2>1
      <4>2. CASE OurSocket /\ alive' = (sigpipe \notin Deadly)
        <5>1. dzSocket # 0 /\ sigpipe # "DFL" /\ sigpipe' = sigpipe
          BY <4>2, <2>1 DEF OurSocket
        <5>2. ~alive' => sigpipe = "hostDFL"
          BY <4>2, <5>1 DEF Deadly
        <5>3. QED BY <5>1, <5>2
      <4>3. CASE HostDescriptor /\ alive' = (sigpipe \notin Deadly)
        <5>1. dzSocket = 0 /\ dzSocket' = dzSocket /\ sigpipe' = sigpipe
          BY <4>3, <2>1 DEF HostDescriptor
        <5>2. ~alive' => sigpipe \in {"DFL", "hostDFL"}
          BY <4>3 DEF Deadly
        <5>3. QED BY <5>1, <5>2
      <4>4. QED BY <2>3, <4>1, <4>2, <4>3 DEF Break
    <3>3. QED BY <2>1, <3>1, <3>2
  <2>4. QED BY <2>1, <2>2, <2>3 DEF Deliver, DeliverShort, Swallow, Break, SendFails
<1>8. CASE Close(Main)
  BY <1>8 DEF Close
<1>9. CASE NothingToClose(Main)
  BY <1>9, ReturnTo DEF NothingToClose
<1>10. CASE Forget(Main)
  BY <1>10 DEF Forget
<1>11. CASE Restore(Main)
  BY <1>11, ReturnTo DEF Restore
<1>12. CASE Finish
  BY <1>12 DEF Finish
<1>13. CASE Environment
  <2>1. ASSUME NEW fd \in Fds, HostOpen(fd) PROVE SInv'
    BY <2>1 DEF HostOpen
  <2>2. ASSUME NEW fd \in Fds, HostClose(fd) PROVE SInv'
    BY <2>2 DEF HostClose
  <2>3. CASE ServerStop
    BY <2>3 DEF ServerStop
  <2>4. CASE ServerStart
    BY <2>4 DEF ServerStart
  <2>5. ASSUME NEW disposition \in {"hostDFL", "hostOther"}, HostSignal(disposition)
        PROVE  SInv'
    BY <2>5 DEF HostSignal
  <2> QED
    BY <1>13, <2>1, <2>2, <2>3, <2>4, <2>5 DEF Environment
<1>14. CASE UNCHANGED vars
  BY <1>14 DEF vars
<1>15. QED
  BY <1>1, <1>2, <1>3, <1>4, <1>5, <1>6, <1>7, <1>8, <1>9, <1>10, <1>11, <1>12, <1>13,
     <1>14 DEF Next, Work

-----------------------------------------------------------------------------
(* The inductive invariant of the one-threaded client.                     *)
THEOREM SingleInvariant == ASSUME OneThread PROVE Spec => []SInv
<1>1. Init => SInv BY SingleInit
<1>2. SInv /\ [Next]_vars => SInv' BY SingleStep
<1>3. QED BY <1>1, <1>2, PTL DEF Spec

(* A one-threaded host dies of SIGPIPE in a send of the library only if it *)
(* has set the default disposition itself since the library connected, or  *)
(* if the send goes to descriptor 0 after a failed registration.           *)
THEOREM HostAlwaysSurvives == ASSUME OneThread PROVE Spec => []HostSurvives
<1>1. SInv => HostSurvives BY DEF SInv
<1>2. QED BY <1>1, SingleInvariant, PTL

(* Between log calls the library has SIGPIPE ignored while it is connected *)
(* and never when it is not, unless the host has set it since.             *)
THEOREM SignalAlwaysFollows == ASSUME OneThread PROVE Spec => []SignalFollowsSocket
<1>1. SInv => SignalFollowsSocket
  BY LogClientAssumption
     DEF OneThread, SInv, SignalAtLabel, SignalFollowsSocket, Idle
<1>2. QED BY <1>1, SingleInvariant, PTL

(* However often it reconnects, the library holds one descriptor at most.  *)
THEOREM NeverLeaks == ASSUME OneThread PROVE Spec => []NoLeak
<1>1. SInv => NoLeak BY DEF SInv
<1>2. QED BY <1>1, SingleInvariant, PTL

-----------------------------------------------------------------------------
(* The stream of a connection, with one thread.                            *)

(* A connection that still takes what is sent.                             *)
Live == dzSocket \in Fds /\ peer[dzSocket] # 0 /\ conns[peer[dzSocket]].up

(* Only the innermost call can be for a registration, and there is none    *)
(* while connectServer is at work.                                         *)
OneRegistration ==
    /\ \A i \in DOMAIN stack[Main] : i # 1 => stack[Main][i].n # 0
    /\ \/ pc[Main] \in {"socket", "connect", "signal"}
       \/ pc[Main] = "check" /\ dzSocket = 0
       => \A i \in DOMAIN stack[Main] : stack[Main][i].n # 0

(* How much a connection has received wherever a send may follow: whole    *)
(* frames, or the header of the message whose payload comes next, and the  *)
(* registration first.                                                     *)
Place(got, label, calls) ==
    LET k == Len(got)
    IN  /\ label = "signal" => k = 0
        /\ label \in {"check", "header"} =>
              k % 2 = 0 /\ (calls[1].n = 0 <=> k = 0)
        /\ label = "payload" =>
              /\ k % 2 = 1 /\ got[k].msg = calls[1]
              /\ calls[1].n = 0 <=> k = 1
        /\ label = "idle" => k % 2 = 0 /\ k # 0

StreamAtLabel == Live => Place(conns[peer[dzSocket]].got, pc[Main], stack[Main])

(* What goes to descriptor 0 has been given up by a failed registration.   *)
ZeroIsDisturbed ==
    pc[Main] \in {"header", "payload"} /\ dzSocket = 0 =>
        \A i \in DOMAIN stack[Main] : stack[Main][i] \in disturbed

FInv == SInv /\ CInv /\ OneRegistration /\ ZeroIsDisturbed /\ StreamAtLabel /\ FramedStream

(* What a connection carries, frame by frame.                              *)
Framed(g) ==
    \A i \in DOMAIN g : InStep(g, i) =>
        IF i % 2 = 1 THEN g[i].part = "header"
                     ELSE g[i] = Part("payload", g[i - 1].msg)

Registered(g) == \A i \in DOMAIN g : (i <= 2) <=> (g[i].msg.n = 0)

(* The stream property, connection by connection.                          *)
LEMMA StreamIsFramed ==
    FramedStream <=> \A c \in DOMAIN conns : Framed(conns[c].got) /\ Registered(conns[c].got)
BY DEF FramedStream, WellFramed, RegisteredFirst, Framed, Registered

(* A header after whole frames and the payload after its header keep it.   *)
LEMMA AppendFramed ==
    ASSUME NEW g \in Seq(Entry), Framed(g), Registered(g), NEW e \in Entry,
           \/ Len(g) % 2 = 0 /\ e.part = "header"
           \/ /\ Len(g) % 2 = 1
              /\ e.part = "short" \/ e = Part("payload", g[Len(g)].msg),
           Len(g) <= 1 <=> e.msg.n = 0
    PROVE  Framed(Append(g, e)) /\ Registered(Append(g, e))
<1> DEFINE k == Len(g)
           h == Append(g, e)
<1>1. /\ k \in Nat /\ DOMAIN g = 1..k /\ DOMAIN h = 1..(k + 1) /\ h[k + 1] = e
      /\ \A i \in 1..k : h[i] = g[i]
  OBVIOUS
<1> HIDE DEF h
<1>2. Registered(h)
  <2> SUFFICES ASSUME NEW i \in 1..(k + 1) PROVE (i <= 2) <=> (h[i].msg.n = 0)
    BY <1>1 DEF Registered
  <2>1. CASE i \in 1..k
    BY <1>1, <2>1 DEF Registered
  <2>2. CASE i = k + 1
    <3>1. (i <= 2) <=> (k <= 1)
      BY <1>1, <2>2
    <3> QED
      BY <1>1, <2>2, <3>1
  <2> QED
    BY <1>1, <2>1, <2>2
<1>3. Framed(h)
  <2> SUFFICES ASSUME NEW i \in 1..(k + 1), \A j \in 1..i : h[j].part # "short"
               PROVE  IF i % 2 = 1 THEN h[i].part = "header"
                                   ELSE h[i] = Part("payload", h[i - 1].msg)
    BY <1>1 DEF Framed, InStep
  <2>1. CASE i \in 1..k
    <3>1. \A j \in 1..i : g[j].part # "short"
      BY <1>1, <2>1
    <3>2. IF i % 2 = 1 THEN g[i].part = "header" ELSE g[i] = Part("payload", g[i - 1].msg)
      BY <1>1, <2>1, <3>1 DEF Framed, InStep
    <3>3. i % 2 # 1 => i - 1 \in 1..k
      BY <1>1, <2>1
    <3> QED
      BY <1>1, <2>1, <3>2, <3>3
  <2>2. CASE i = k + 1
    <3>1. h[i].part # "short" /\ h[i] = e
      BY <1>1, <2>2
    <3>2. CASE k % 2 = 0
      <4>1. i % 2 = 1 /\ e.part = "header"
        BY <1>1, <2>2, <3>2
      <4> QED
        BY <3>1, <4>1
    <3>3. CASE k % 2 = 1
      <4>1. i % 2 = 0 /\ i - 1 = k /\ k \in 1..k
        BY <1>1, <2>2, <3>3
      <4>2. e = Part("payload", g[k].msg)
        BY <3>1, <3>3
      <4> QED
        BY <1>1, <3>1, <4>1, <4>2
    <3> QED
      BY <3>2, <3>3
  <2> QED
    BY <1>1, <2>1, <2>2
<1> QED
  BY <1>2, <1>3 DEF h

(* Nothing received, nothing to frame.                                     *)
LEMMA SameFramed == ASSUME Lib, OldKept, NoneNew, FramedStream PROVE FramedStream'
<1>0. \A c \in DOMAIN conns : conns[c].got \in Seq(Entry)
  <2>1. conns \in Seq(Conn)
    BY DEF Lib, LibTypes
  <2>2. \A c \in DOMAIN conns : conns[c] \in Conn
    BY <2>1
  <2>3. \A conn \in Conn : conn.got \in Seq(Entry)
    BY DEF Conn
  <2> QED
    BY <2>2, <2>3
<1>1. ASSUME NEW c \in DOMAIN conns', NEW i \in DOMAIN conns'[c].got
      PROVE  /\ c \in DOMAIN conns /\ i \in DOMAIN conns[c].got
             /\ \A j \in 1..i : j \in DOMAIN conns[c].got /\ conns'[c].got[j] = conns[c].got[j]
             /\ i \in Nat /\ i >= 1
  <2>1. c \in DOMAIN conns /\ i \in DOMAIN conns[c].got
    BY DEF NoneNew
  <2>2. conns[c].got \in Seq(Entry)
    BY <1>0, <2>1
  <2>3. i \in Nat /\ i >= 1 /\ \A j \in 1..i : j \in DOMAIN conns[c].got
    BY <2>1, <2>2
  <2> QED
    BY <2>1, <2>3 DEF OldKept
<1>2. WellFramed'
  <2> SUFFICES ASSUME NEW c \in DOMAIN conns', NEW i \in DOMAIN conns'[c].got,
                      InStep(conns'[c].got, i)
               PROVE  IF i % 2 = 1 THEN conns'[c].got[i].part = "header"
                      ELSE conns'[c].got[i] = Part("payload", conns'[c].got[i - 1].msg)
    BY DEF WellFramed, InStep
  <2>1. /\ c \in DOMAIN conns /\ i \in DOMAIN conns[c].got /\ i \in Nat /\ i >= 1
        /\ \A j \in 1..i : conns'[c].got[j] = conns[c].got[j]
    BY <1>1
  <2>2. InStep(conns[c].got, i)
    BY <2>1 DEF InStep
  <2>3. IF i % 2 = 1 THEN conns[c].got[i].part = "header"
        ELSE conns[c].got[i] = Part("payload", conns[c].got[i - 1].msg)
    BY <2>1, <2>2 DEF FramedStream, WellFramed
  <2>4. i \in 1..i /\ (i % 2 # 1 => i - 1 \in 1..i)
    BY <2>1
  <2> QED
    BY <2>1, <2>3, <2>4
<1>3. RegisteredFirst'
  <2> SUFFICES ASSUME NEW c \in DOMAIN conns', NEW i \in DOMAIN conns'[c].got
               PROVE  (i <= 2) <=> (conns'[c].got[i].msg.n = 0)
    BY DEF RegisteredFirst
  <2>1. /\ c \in DOMAIN conns /\ i \in DOMAIN conns[c].got /\ i \in 1..i
        /\ conns'[c].got[i] = conns[c].got[i]
    BY <1>1
  <2> QED
    BY <2>1 DEF FramedStream, RegisteredFirst
<1> QED
  BY <1>2, <1>3 DEF FramedStream

-----------------------------------------------------------------------------
(* A header, and a payload or a cut one, move a connection to its next     *)
(* place.                                                                  *)
LEMMA HeaderPlace ==
    ASSUME NEW g \in Seq(Entry), NEW calls, NEW e \in Entry, e = Part("header", calls[1]),
           Place(g, "header", calls)
    PROVE  /\ Len(g) % 2 = 0 /\ e.part = "header" /\ (Len(g) <= 1 <=> e.msg.n = 0)
           /\ Place(Append(g, e), "payload", calls)
<1> DEFINE k == Len(g)
           h == Append(g, e)
<1>1. k \in Nat /\ Len(h) = k + 1 /\ h[k + 1] = e
  OBVIOUS
<1>2. e.part = "header" /\ e.msg = calls[1]
  BY DEF Part
<1>3. k % 2 = 0 /\ (calls[1].n = 0 <=> k = 0)
  BY DEF Place
<1> HIDE DEF h, k
<1>4. (k + 1) % 2 = 1 /\ (k <= 1 <=> k = 0) /\ (k + 1 = 1 <=> k = 0)
  BY <1>1, <1>3
<1>5. k <= 1 <=> e.msg.n = 0
  BY <1>2, <1>3, <1>4
<1>6. Place(h, "payload", calls)
  BY <1>1, <1>2, <1>3, <1>4 DEF Place
<1> QED
  BY <1>2, <1>3, <1>5, <1>6 DEF h, k

(* After a payload, whole or cut, the connection is at the end of a frame. *)
LEMMA PayloadPlace ==
    ASSUME NEW g \in Seq(Entry), NEW calls, NEW e \in Entry, NEW part \in {"payload", "short"},
           e = Part(part, calls[1]), Place(g, "payload", calls),
           NEW rest, NEW label \in {"idle", "header"}, label = "header" => rest[1].n # 0
    PROVE  /\ Len(g) % 2 = 1 /\ (Len(g) <= 1 <=> e.msg.n = 0)
           /\ e.part = "short" \/ e = Part("payload", g[Len(g)].msg)
           /\ Place(Append(g, e), label, rest)
<1> DEFINE k == Len(g)
           h == Append(g, e)
<1>1. k \in Nat /\ Len(h) = k + 1
  OBVIOUS
<1>2. e.part = part /\ e.msg = calls[1]
  BY DEF Part
<1>3. k % 2 = 1 /\ g[k].msg = calls[1] /\ (calls[1].n = 0 <=> k = 1)
  BY DEF Place
<1> HIDE DEF h, k
<1>4. (k + 1) % 2 = 0 /\ (k <= 1 <=> k = 1) /\ k + 1 # 0
  BY <1>1, <1>3
<1>5. k <= 1 <=> e.msg.n = 0
  BY <1>2, <1>3, <1>4
<1>6. Place(h, label, rest)
  BY <1>1, <1>4 DEF Place
<1>7. e.part = "short" \/ e = Part("payload", g[k].msg)
  BY <1>2, <1>3
<1> QED
  BY <1>3, <1>5, <1>6, <1>7 DEF h, k

(* A send that the connection takes appends to the stream of frames.       *)
LEMMA SendFramed ==
    ASSUME LibTypes, FramedStream, dzSocket \in Fds, peer[dzSocket] # 0, NEW entry \in Entry,
           NEW n, n = peer[dzSocket],
           conns' = [conns EXCEPT ![peer[dzSocket]].got = Append(@, entry)],
           \/ Len(conns[n].got) % 2 = 0 /\ entry.part = "header"
           \/ /\ Len(conns[n].got) % 2 = 1
              /\ \/ entry.part = "short"
                 \/ entry = Part("payload", conns[n].got[Len(conns[n].got)].msg),
           Len(conns[n].got) <= 1 <=> entry.msg.n = 0
    PROVE  FramedStream'
<1>1. PICK g : g = conns[n].got
  OBVIOUS
<1>2. /\ DOMAIN conns = 1..Len(conns) /\ DOMAIN conns' = 1..Len(conns)
      /\ n \in 1..Len(conns)
      /\ \A c \in 1..Len(conns) : c # n => conns'[c] = conns[c]
      /\ g \in Seq(Entry) /\ conns'[n].got = Append(g, entry)
  BY <1>1, AppendConn
<1>3. \A c \in DOMAIN conns : Framed(conns[c].got) /\ Registered(conns[c].got)
  BY StreamIsFramed
<1>4. Framed(Append(g, entry)) /\ Registered(Append(g, entry))
  BY <1>1, <1>2, <1>3, AppendFramed
<1>5. \A c \in DOMAIN conns' : Framed(conns'[c].got) /\ Registered(conns'[c].got)
  BY <1>2, <1>3, <1>4
<1> QED
  BY <1>5 DEF FramedStream, WellFramed, RegisteredFirst, Framed, Registered

-----------------------------------------------------------------------------
(* No step starts a second registration within one.                        *)
LEMMA OneRegistrationKept ==
    ASSUME OneThread, SInv, CInv, OneRegistration, [Next]_vars
    PROVE  OneRegistration'
<1> DEFINE None == \A i \in DOMAIN stack'[Main] : stack'[Main][i].n # 0
<1>0. Main \in Threads /\ ThreadTypes /\ pc \in [Threads -> Labels]
  BY LogClientAssumption DEF CInv, Calls, ThreadTypes
<1>1. ASSUME None PROVE OneRegistration'
  BY <1>1 DEF OneRegistration
<1>2. ASSUME stack' = stack, pc' = [pc EXCEPT ![Main] = pc'[Main]], pc'[Main] \in Labels,
             \/ pc'[Main] \notin {"check", "socket", "connect", "signal"}
             \/ pc[Main] \in {"socket", "connect", "signal"}
             \/ pc[Main] = "check" /\ dzSocket = 0
      PROVE  OneRegistration'
  BY <1>2 DEF OneRegistration
<1>3. ASSUME Return(Main) PROVE OneRegistration'
  <2>1. ASSUME NEW i \in DOMAIN stack'[Main] PROVE stack'[Main][i].n # 0
    <3>1. i + 1 \in DOMAIN stack[Main] /\ stack'[Main][i] = stack[Main][i + 1]
      BY <1>0, <1>3, ReturnFacts
    <3>2. stack'[Main] \in Seq(Message)
      BY <1>0, <1>3, ReturnFacts
    <3>3. i + 1 # 1
      BY <3>2
    <3> QED
      BY <3>1, <3>3 DEF OneRegistration
  <2> QED
    BY <1>1, <2>1
<1>4. CASE Log(Main)
  <2>1. Logs(Main)
    BY <1>4 DEF Log, At, GoTo, Logs
  <2>2. None
    <3>1. DOMAIN stack'[Main] = {1} /\ stack'[Main][1] = LogMessage(Main)
          /\ LogMessage(Main).n = logged[Main] + 1
      BY <1>0, <2>1, LogsFacts
    <3>2. logged[Main] \in Nat
      BY <1>0 DEF ThreadTypes
    <3> QED
      BY <3>1, <3>2
  <2> QED
    BY <1>1, <2>2
<1>5. CASE Check(Main)
  BY <1>0, <1>2, <1>5 DEF Check, At, GoTo, Labels
<1>6. CASE Socket(Main)
  BY <1>0, <1>2, <1>6 DEF Socket, At, GoTo, Labels
<1>7. CASE Connect(Main)
  BY <1>0, <1>2, <1>7 DEF Connect, At, GoTo, Labels
<1>8. CASE ConnectFails(Main)
  BY <1>0, <1>2, <1>8 DEF ConnectFails, Fail, At, GoTo, Labels
<1>9. CASE IgnoreAndRegister(Main)
  <2>1. Registers(Main) /\ pc[Main] = "signal" /\ dzSocket' = dzSocket
    BY <1>9 DEF IgnoreAndRegister, At, GoTo, Registers
  <2>2. dzSocket # 0
    BY <2>1 DEF SInv, SocketAtLabel
  <2>3. ASSUME NEW i \in DOMAIN stack'[Main], i # 1 PROVE stack'[Main][i].n # 0
    <3>1. i - 1 \in DOMAIN stack[Main] /\ stack'[Main][i] = stack[Main][i - 1]
      BY <1>0, <2>1, <2>3, RegisterFacts
    <3> QED
      BY <2>1, <3>1 DEF OneRegistration
  <2>4. pc'[Main] = "check"
    BY <1>0, <2>1 DEF Registers
  <2> QED
    BY <2>1, <2>2, <2>3, <2>4 DEF OneRegistration
<1>10. CASE Send(Main)
  <2>1. PICK part \in {"header", "payload"} :
            /\ At(Main, part)
            /\ \/ Deliver(Main, part) \/ DeliverShort(Main, part) \/ Swallow(Main, part)
               \/ Break(Main) \/ SendFails(Main)
    BY <1>10 DEF Send
  <2>2. CASE Fail(Main)
    BY <1>0, <1>2, <2>2 DEF Fail, GoTo, Labels
  <2>3. CASE Sent(Main, part)
    <3>1. CASE part = "header"
      BY <1>0, <1>2, <2>3, <3>1 DEF Sent, GoTo, Labels
    <3>2. CASE part # "header"
      BY <1>3, <2>3, <3>2 DEF Sent
    <3> QED
      BY <3>1, <3>2
  <2> QED
    BY <2>1, <2>2, <2>3 DEF Deliver, DeliverShort, Swallow, Break, SendFails
<1>11. CASE Close(Main)
  BY <1>0, <1>2, <1>11 DEF Close, GoTo, Labels
<1>12. CASE NothingToClose(Main)
  BY <1>3, <1>12 DEF NothingToClose
<1>13. CASE Forget(Main)
  BY <1>0, <1>2, <1>13 DEF Forget, GoTo, Labels
<1>14. CASE Restore(Main)
  BY <1>3, <1>14 DEF Restore
<1>15. CASE Finish
  BY <1>0, <1>2, <1>15 DEF Finish, GoTo, Labels
<1>16. CASE UNCHANGED <<pc, stack, dzSocket>>
  BY <1>16 DEF OneRegistration
<1> QED
  BY <1>4, <1>5, <1>6, <1>7, <1>8, <1>9, <1>10, <1>11, <1>12, <1>13, <1>14, <1>15, <1>16
  DEF OneThread, Next, Work, Environment, HostOpen, HostClose, HostSignal, ServerStop,
      ServerStart, vars,
      libVars, threadVars

(* A call that goes on to send without a connection has failed before: it  *)
(* comes back from a disconnectServer, or from a send to descriptor 0.     *)
LEMMA ZeroKept ==
    ASSUME OneThread, SInv, CInv, ZeroIsDisturbed, [Next]_vars
    PROVE  ZeroIsDisturbed'
<1> DEFINE Given == \A i \in DOMAIN stack[Main] : stack[Main][i] \in disturbed'
<1>0. /\ Main \in Threads /\ ThreadTypes /\ FailingIsDisturbed /\ 0 \notin Fds
      /\ pc \in [Threads -> Labels]
  BY LogClientAssumption DEF CInv, Calls, ThreadTypes, OneThread
<1>1. ASSUME pc'[Main] \notin {"header", "payload"} PROVE ZeroIsDisturbed'
  BY <1>1 DEF ZeroIsDisturbed
<1>2. ASSUME dzSocket' # 0 PROVE ZeroIsDisturbed'
  BY <1>2 DEF ZeroIsDisturbed
<1>3. ASSUME stack' = stack, Given PROVE ZeroIsDisturbed'
  BY <1>3 DEF ZeroIsDisturbed
<1>4. ASSUME Return(Main), Given PROVE ZeroIsDisturbed'
  <2>1. \A i \in DOMAIN stack'[Main] :
           i + 1 \in DOMAIN stack[Main] /\ stack'[Main][i] = stack[Main][i + 1]
    BY <1>0, <1>4, ReturnFacts
  <2> QED
    BY <1>4, <2>1 DEF ZeroIsDisturbed
<1>5. ASSUME pc[Main] \in {"close", "restore"}, Return(Main), disturbed' = disturbed
      PROVE  ZeroIsDisturbed'
  BY <1>0, <1>4, <1>5 DEF FailingIsDisturbed
<1>6. CASE Check(Main)
  <2>1. pc'[Main] = "socket" \/ dzSocket' # 0
    BY <1>0, <1>6 DEF Check, GoTo, libVars
  <2> QED
    BY <1>1, <1>2, <2>1
<1>7. CASE Send(Main)
  <2>1. PICK part \in {"header", "payload"} :
            /\ At(Main, part)
            /\ \/ Deliver(Main, part) \/ DeliverShort(Main, part) \/ Swallow(Main, part)
               \/ Break(Main) \/ SendFails(Main)
            /\ UNCHANGED <<libVars, serverUp, stops>>
    BY <1>7 DEF Send
  <2>2. CASE Fail(Main)
    BY <1>0, <1>1, <2>2 DEF Fail, GoTo
  <2>3. CASE Deliver(Main, part) \/ DeliverShort(Main, part)
    <3>1. dzSocket' \in Fds
      BY <2>1, <2>3 DEF Deliver, DeliverShort, OurSocket, libVars
    <3> QED
      BY <1>0, <1>2, <3>1
  <2>4. CASE Swallow(Main, part)
    <3>1. Given
      BY <1>0, <2>4, DisturbFacts DEF Swallow
    <3>2. Return(Main) \/ stack' = stack
      BY <2>4 DEF Swallow, Sent
    <3> QED
      BY <1>3, <1>4, <3>1, <3>2
  <2> QED
    BY <2>1, <2>2, <2>3, <2>4 DEF Break, SendFails
<1>8. CASE NothingToClose(Main) \/ Restore(Main)
  BY <1>5, <1>8 DEF NothingToClose, Restore, At
<1>9. CASE \/ Log(Main) \/ Socket(Main) \/ Connect(Main) \/ ConnectFails(Main)
           \/ IgnoreAndRegister(Main) \/ Close(Main) \/ Forget(Main) \/ Finish
  <2>1. pc'[Main] \in {"check", "connect", "signal", "close", "forget", "restore"}
    BY <1>0, <1>9 DEF Log, Socket, Connect, ConnectFails, Fail, IgnoreAndRegister, Close,
                      Forget, Finish, GoTo
  <2> QED
    BY <1>1, <2>1
<1>10. CASE UNCHANGED <<pc, stack, dzSocket, disturbed>>
  BY <1>10 DEF ZeroIsDisturbed
<1> QED
  BY <1>6, <1>7, <1>8, <1>9, <1>10
  DEF OneThread, Next, Work, Environment, HostOpen, HostClose, HostSignal, ServerStop,
      ServerStart, vars, libVars, threadVars

(* A step keeps the place of the connection, and its frames.               *)
LEMMA StreamKept ==
    ASSUME OneThread, FInv, [Next]_vars
    PROVE  StreamAtLabel' /\ FramedStream'
<1> DEFINE g == conns[peer[dzSocket]].got
           Same == UNCHANGED <<dzSocket, peer, conns>>
<1>0. /\ Main \in Threads /\ ThreadTypes /\ pc \in [Threads -> Labels]
      /\ stack \in [Threads -> Seq(Message)]
      /\ Calls /\ Lib /\ LibTypes /\ SInv /\ CInv
      /\ FramedStream /\ OneRegistration /\ StreamAtLabel
      /\ 0 \notin Fds
  BY LogClientAssumption DEF FInv, CInv, Calls, Lib, ThreadTypes, OneThread
<1>1. ASSUME conns' = conns PROVE FramedStream'
  BY <1>0, <1>1 DEF FramedStream, WellFramed, RegisteredFirst
<1>2. ASSUME dzSocket' \notin Fds PROVE StreamAtLabel'
  BY <1>2 DEF StreamAtLabel, Live
<1>3. ASSUME pc'[Main] \in {"socket", "connect", "close", "forget", "restore"}
      PROVE  StreamAtLabel'
  BY <1>3 DEF StreamAtLabel, Place
<1>4. ASSUME Same PROVE Live' <=> Live
  BY <1>4 DEF Live
<1>5. ASSUME Same, Live => Place(g, pc'[Main], stack'[Main])
      PROVE  StreamAtLabel' /\ FramedStream'
  <2>1. Live' => Place(g, pc'[Main], stack'[Main])
    BY <1>4, <1>5
  <2>2. conns'[peer'[dzSocket']].got = g
    BY <1>5
  <2> QED
    BY <1>1, <1>5, <2>1, <2>2 DEF StreamAtLabel
<1> HIDE DEF g
<1>6. Live => Place(g, pc[Main], stack[Main])
  BY <1>0 DEF StreamAtLabel, g
<1>7. CASE Log(Main)
  <2>1. Logs(Main) /\ Same /\ pc[Main] = "idle" /\ pc' = [pc EXCEPT ![Main] = "check"]
    BY <1>7 DEF Log, At, GoTo, Logs, libVars, serverVars
  <2>2. stack'[Main][1] = LogMessage(Main) /\ LogMessage(Main).n = logged[Main] + 1
        /\ logged[Main] \in Nat
    BY <1>0, <2>1, LogsFacts DEF ThreadTypes
  <2>3. stack'[Main][1].n # 0 /\ pc'[Main] = "check"
    BY <1>0, <2>1, <2>2
  <2>4. Live => Place(g, pc'[Main], stack'[Main])
    BY <1>6, <2>1, <2>3 DEF Place
  <2> QED
    BY <1>5, <2>1, <2>4
<1>8. CASE Check(Main)
  <2>1. /\ Same /\ stack' = stack /\ pc[Main] = "check"
        /\ pc' = [pc EXCEPT ![Main] = IF dzSocket = 0 THEN "socket" ELSE "header"]
    BY <1>8 DEF Check, At, GoTo, libVars, serverVars
  <2>2. pc'[Main] \in {"socket", "header"}
    BY <1>0, <2>1
  <2>3. Live => Place(g, pc'[Main], stack'[Main])
    BY <1>6, <2>1, <2>2 DEF Place
  <2> QED
    BY <1>5, <2>1, <2>3
<1>9. CASE Socket(Main)
  <2>1. pc'[Main] = "connect" /\ conns' = conns
    BY <1>0, <1>9 DEF Socket, GoTo, serverVars
  <2> QED
    BY <1>1, <1>3, <2>1
<1>10. CASE Connect(Main)
  <2>1. PICK new : /\ new = [up |-> TRUE, got |-> <<>>] /\ conns' = Append(conns, new)
                   /\ new.got = <<>>
    BY <1>10 DEF Connect
  <2>2. /\ conns \in Seq(Conn) /\ peer \in [Fds -> 0..Len(conns)] /\ dzSocket \in Fds
        /\ dzSocket' = dzSocket /\ peer' = [peer EXCEPT ![dzSocket] = Len(conns) + 1]
        /\ pc' = [pc EXCEPT ![Main] = "signal"]
    BY <1>0, <1>10 DEF LibTypes, Connect, OurSocket, GoTo
  <2>3. conns'[Len(conns) + 1] = new
    BY <2>1, <2>2
  <2>4. peer'[dzSocket'] = Len(conns) + 1 /\ pc'[Main] = "signal"
    BY <1>0, <2>2
  <2>5. conns'[peer'[dzSocket']].got = <<>>
    BY <2>1, <2>3, <2>4
  <2>6. Place(<<>>, pc'[Main], stack'[Main])
    BY <2>4 DEF Place
  <2>7. StreamAtLabel'
    BY <2>5, <2>6 DEF StreamAtLabel
  <2>8. FramedStream'
    BY <1>0, <1>10, ConnectFacts, SameFramed
  <2> QED
    BY <2>7, <2>8
<1>11. CASE ConnectFails(Main)
  <2>1. pc'[Main] = "close" /\ conns' = conns
    BY <1>0, <1>11 DEF ConnectFails, Fail, GoTo, serverVars
  <2> QED
    BY <1>1, <1>3, <2>1
<1>12. CASE IgnoreAndRegister(Main)
  <2>1. Registers(Main) /\ Same /\ pc[Main] = "signal" /\ pc' = [pc EXCEPT ![Main] = "check"]
    BY <1>12 DEF IgnoreAndRegister, At, GoTo, Registers, serverVars
  <2>2. stack'[Main][1].n = 0
    <3>1. stack'[Main] \in Seq(Message) /\ stack'[Main] # <<>>
      BY <1>0, <2>1, RegisterFacts
    <3>2. 1 \in DOMAIN stack'[Main]
      BY <3>1
    <3>3. 0 \notin DOMAIN stack[Main]
      BY <1>0
    <3>4. \/ stack'[Main][1] = Registration(Main)
          \/ 1 - 1 \in DOMAIN stack[Main]
      BY <1>0, <2>1, <3>2, RegisterFacts
    <3> QED
      BY <3>3, <3>4 DEF Registration
  <2>3. pc'[Main] = "check"
    BY <1>0, <2>1
  <2>4. Live => Place(g, pc'[Main], stack'[Main])
    BY <1>6, <2>1, <2>2, <2>3 DEF Place
  <2> QED
    BY <1>5, <2>1, <2>4
<1>13. CASE Send(Main)
  <2>1. PICK part \in {"header", "payload"} :
            /\ At(Main, part)
            /\ \/ Deliver(Main, part) \/ DeliverShort(Main, part) \/ Swallow(Main, part)
               \/ Break(Main) \/ SendFails(Main)
            /\ UNCHANGED <<libVars, serverUp, stops>>
    BY <1>13 DEF Send
  <2>2. /\ pc[Main] = part /\ dzSocket' = dzSocket /\ peer' = peer
        /\ stack[Main] \in Seq(Message) /\ stack[Main] # <<>>
    BY <1>0, <2>1 DEF At, libVars, ThreadTypes
  <2>3. Head(stack[Main]) = stack[Main][1] /\ stack[Main][1] \in Message
    BY <2>2
  <2>4. CASE Fail(Main) /\ conns' = conns
    <3>1. pc'[Main] = "close"
      BY <1>0, <2>4 DEF Fail, GoTo
    <3> QED
      BY <1>1, <1>3, <2>4, <3>1
  <2>5. CASE Swallow(Main, part)
    <3>1. dzSocket \in Fds => owner[dzSocket] = "library"
      BY <1>0, <2>2 DEF SInv, SocketIsOurs
    <3>2. HostDescriptor => dzSocket \notin Fds
      BY <3>1 DEF HostDescriptor
    <3>3. ~Live
      BY <2>5, <3>2 DEF Swallow, Live, Connection
    <3>4. Same
      BY <2>2, <2>5 DEF Swallow
    <3> QED
      BY <1>5, <3>3, <3>4
  <2>6. CASE Deliver(Main, part) \/ DeliverShort(Main, part)
    <3>1. PICK name \in {"header", "payload", "short"} :
              /\ name = part \/ (name = "short" /\ part = "payload")
              /\ conns' = [conns EXCEPT ![peer[dzSocket]].got =
                                            Append(@, Part(name, Head(stack[Main])))]
              /\ Sent(Main, part)
      BY <2>6 DEF Deliver, DeliverShort
    <3>2. Live /\ dzSocket \in Fds /\ peer[dzSocket] # 0
      BY <2>6 DEF Deliver, DeliverShort, OurSocket, Live, Connection
    <3>3. PICK e : e = Part(name, stack[Main][1])
      OBVIOUS
    <3>4. e \in Entry
      BY <2>3, <3>3 DEF Part, Entry
    <3>5. PICK n : n = peer[dzSocket]
      OBVIOUS
    <3>6. conns' = [conns EXCEPT ![peer[dzSocket]].got = Append(@, e)]
      BY <2>3, <3>1, <3>3
    <3>7. conns[n].got = g /\ g \in Seq(Entry) /\ conns'[n].got = Append(g, e)
      BY <1>0, <3>2, <3>4, <3>5, <3>6, AppendConn DEF g
    <3>8. Place(g, part, stack[Main])
      BY <1>6, <2>2, <3>2
    <3>9. CASE part = "header"
      <4>1. e = Part("header", stack[Main][1])
        BY <3>1, <3>3, <3>9
      <4>2. /\ Len(g) % 2 = 0 /\ e.part = "header" /\ (Len(g) <= 1 <=> e.msg.n = 0)
            /\ Place(Append(g, e), "payload", stack[Main])
        BY <3>4, <3>7, <3>8, <3>9, <4>1, HeaderPlace
      <4>3. FramedStream'
        BY <1>0, <3>2, <3>4, <3>5, <3>6, <3>7, <4>2, SendFramed
      <4>4. stack' = stack /\ pc'[Main] = "payload"
        BY <1>0, <3>1, <3>9 DEF Sent, GoTo
      <4>5. conns'[peer'[dzSocket']].got = Append(g, e)
        BY <2>2, <3>5, <3>7
      <4>6. StreamAtLabel'
        BY <4>2, <4>4, <4>5 DEF StreamAtLabel
      <4> QED
        BY <4>3, <4>6
    <3>10. CASE part = "payload"
      <4>1. name \in {"payload", "short"}
        BY <3>1, <3>10
      <4>2. Return(Main)
        BY <3>1, <3>10 DEF Sent
      <4>3. \/ pc'[Main] = "idle"
            \/ pc'[Main] = "header" /\ stack'[Main] # <<>> /\ stack'[Main] \in Seq(Message)
        BY <1>0, <4>2, ReturnFacts
      <4>4. pc'[Main] = "header" => stack'[Main][1].n # 0
        <5> SUFFICES ASSUME pc'[Main] = "header" PROVE stack'[Main][1].n # 0
          OBVIOUS
        <5>1. 1 \in DOMAIN stack'[Main]
          BY <4>3
        <5>2. 1 + 1 \in DOMAIN stack[Main] /\ stack'[Main][1] = stack[Main][1 + 1]
          BY <1>0, <4>2, <5>1, ReturnFacts
        <5> QED
          BY <1>0, <5>2 DEF OneRegistration
      <4>5. /\ Len(g) % 2 = 1 /\ (Len(g) <= 1 <=> e.msg.n = 0)
            /\ e.part = "short" \/ e = Part("payload", g[Len(g)].msg)
            /\ Place(Append(g, e), pc'[Main], stack'[Main])
        BY <3>3, <3>4, <3>7, <3>8, <3>10, <4>1, <4>3, <4>4, PayloadPlace
      <4>6. FramedStream'
        BY <1>0, <3>2, <3>4, <3>5, <3>6, <3>7, <4>5, SendFramed
      <4>7. conns'[peer'[dzSocket']].got = Append(g, e)
        BY <2>2, <3>5, <3>7
      <4>8. StreamAtLabel'
        BY <4>5, <4>7 DEF StreamAtLabel
      <4> QED
        BY <4>6, <4>8
    <3> QED
      BY <3>9, <3>10
  <2> QED
    BY <2>1, <2>4, <2>5, <2>6 DEF Break, SendFails
<1>14. CASE Close(Main)
  <2>1. pc'[Main] = "forget" /\ conns' = conns
    BY <1>0, <1>14 DEF Close, GoTo, serverVars
  <2> QED
    BY <1>1, <1>3, <2>1
<1>15. CASE NothingToClose(Main)
  <2>1. dzSocket' = 0 /\ conns' = conns
    BY <1>15 DEF NothingToClose, libVars, serverVars
  <2> QED
    BY <1>0, <1>1, <1>2, <2>1
<1>16. CASE Forget(Main)
  <2>1. dzSocket' = 0 /\ conns' = conns
    BY <1>16 DEF Forget, serverVars
  <2> QED
    BY <1>0, <1>1, <1>2, <2>1
<1>17. CASE Restore(Main)
  <2>1. dzSocket' = dzSocket /\ conns' = conns /\ pc[Main] = "restore"
    BY <1>17 DEF Restore, At, serverVars
  <2>2. dzSocket = 0
    BY <1>0, <2>1 DEF SInv, SocketAtLabel
  <2> QED
    BY <1>0, <1>1, <1>2, <2>1, <2>2
<1>18. CASE Finish
  <2>1. pc'[Main] = "close" /\ conns' = conns
    BY <1>0, <1>18 DEF Finish, GoTo, serverVars
  <2> QED
    BY <1>1, <1>3, <2>1
<1>19. CASE ServerStop
  <2>1. FramedStream'
    BY <1>0, <1>19, ServerStopFacts, SameFramed
  <2>2. dzSocket' = dzSocket /\ peer' = peer
        /\ conns' = [i \in DOMAIN conns |-> [conns[i] EXCEPT !.up = FALSE]]
    BY <1>19 DEF ServerStop, libVars
  <2>3. ~Live'
    <3> SUFFICES ASSUME Live' PROVE FALSE
      OBVIOUS
    <3>1. dzSocket \in Fds /\ peer[dzSocket] # 0 /\ conns'[peer[dzSocket]].up
      BY <2>2 DEF Live
    <3>2. peer[dzSocket] \in 1..Len(conns) /\ conns \in Seq(Conn)
      BY <1>0, <3>1 DEF LibTypes
    <3>3. PICK n : n = peer[dzSocket]
      OBVIOUS
    <3>4. n \in DOMAIN conns /\ conns[n] \in Conn
      BY <3>2, <3>3
    <3>5. conns'[n] = [conns[n] EXCEPT !.up = FALSE]
      BY <2>2, <3>4
    <3>6. "up" \in DOMAIN conns[n]
      BY <3>4 DEF Conn
    <3>7. conns'[n].up = FALSE
      BY <3>5, <3>6
    <3> QED
      BY <3>1, <3>3, <3>7
  <2> QED
    BY <2>1, <2>3 DEF StreamAtLabel
<1>20. CASE UNCHANGED <<pc, stack, dzSocket, peer, conns>>
  <2>1. Same /\ pc' = pc /\ stack' = stack
    BY <1>20
  <2>2. Live => Place(g, pc'[Main], stack'[Main])
    BY <1>6, <2>1
  <2> QED
    BY <1>5, <2>1, <2>2
<1> QED
  BY <1>7, <1>8, <1>9, <1>10, <1>11, <1>12, <1>13, <1>14, <1>15, <1>16, <1>17, <1>18, <1>19,
     <1>20
  DEF OneThread, FInv, Next, Work, Environment, HostOpen, HostClose, HostSignal, ServerStart,
      vars,
      libVars, threadVars, serverVars

(* The inductive invariant of the stream of one thread.                    *)
THEOREM StreamInvariant == ASSUME OneThread PROVE Spec => []FInv
<1>1. Init => FInv
  <2> SUFFICES ASSUME Init PROVE FInv
    OBVIOUS
  <2>1. conns = <<>> /\ dzSocket = 0 /\ stack[Main] = <<>>
    BY LogClientAssumption DEF Init
  <2>2. OneRegistration /\ FramedStream /\ ZeroIsDisturbed
    BY <2>1 DEF OneRegistration, FramedStream, WellFramed, RegisteredFirst, ZeroIsDisturbed
  <2>3. StreamAtLabel
    BY <2>1 DEF StreamAtLabel, Live, OneThread
  <2> QED
    BY <2>2, <2>3, SingleInit, CallsInit DEF FInv
<1>2. FInv /\ [Next]_vars => FInv'
  BY SingleStep, CallsInductive, OneRegistrationKept, ZeroKept, StreamKept DEF FInv
<1> QED
  BY <1>1, <1>2, PTL DEF Spec

(* With one thread every connection carries the registration and then      *)
(* whole frames, up to the first short write: whatever the server, the     *)
(* network and the host do, daemon.js finds its place in the stream.       *)
THEOREM FramedEver == ASSUME OneThread PROVE Spec => []FramedStream
<1>1. FInv => FramedStream
  BY DEF FInv
<1> QED
  BY <1>1, StreamInvariant, PTL

(* With one thread the library connects and closes no descriptor but its   *)
(* own, and what it sends to another goes to descriptor 0 and has been     *)
(* given up before by a failed registration.                               *)
THEOREM OnlyOwnEver == ASSUME OneThread PROVE Spec => []OnlyOwnDescriptors
<1>1. FInv => OnlyOwnDescriptors
  <2> SUFFICES ASSUME FInv PROVE OnlyOwnDescriptors
    OBVIOUS
  <2>1. /\ dzSocket \in Fds \cup {0, NoSocket} /\ Threads = {Main}
        /\ dzSocket \in Fds /\ pc[Main] # "forget" => OurSocket
    BY DEF FInv, SInv, Types, SocketIsOurs, OurSocket, OneThread
  <2>2. /\ pc[Main] = "connect" => dzSocket # 0
        /\ pc[Main] \in {"header", "payload"} => dzSocket # NoSocket
    BY DEF FInv, SInv, SocketAtLabel
  <2>3. pc[Main] \in {"header", "payload"} /\ dzSocket = 0 =>
            \A i \in DOMAIN stack[Main] : stack[Main][i] \in disturbed
    BY DEF FInv, ZeroIsDisturbed
  <2> QED
    BY <2>1, <2>2, <2>3 DEF OnlyOwnDescriptors
<1> QED
  BY <1>1, StreamInvariant, PTL

(* With one thread sendServer and connectServer call each other once only: *)
(* a call is in no more than its own sendServer and one registration.      *)
THEOREM NestsOnceEver == ASSUME OneThread PROVE Spec => []NestsOnce
<1>1. FInv => NestsOnce
  <2> SUFFICES ASSUME FInv PROVE Len(stack[Main]) <= 2
    BY DEF NestsOnce, OneThread
  <2>1. stack[Main] \in Seq(Message)
    BY LogClientAssumption DEF FInv, CInv, Calls, ThreadTypes
  <2>2. \A i \in DOMAIN stack[Main] : i # 1 => i = Len(stack[Main])
    BY LogClientAssumption DEF FInv, CInv, Calls, OneLogCall, OneRegistration
  <2>3. DOMAIN stack[Main] = 1..Len(stack[Main]) /\ Len(stack[Main]) \in Nat
    BY <2>1
  <2>4. ASSUME Len(stack[Main]) > 2 PROVE FALSE
    BY <2>2, <2>3, <2>4
  <2> QED
    BY <2>3, <2>4
<1> QED
  BY <1>1, StreamInvariant, PTL

==============================================================================
