--------------------------- MODULE ChannelsProofs ---------------------------
(***************************************************************************)
(* What holds of Channels for every set of channels and any number of      *)
(* sessions, events, other viewers and of the user's doings: the types,    *)
(* that announced channels are accepted, that the last word counts, and    *)
(* that the boxes of the dialog are true.                                  *)
(*                                                                         *)
(* The argument is about Future: the rooms of the viewer once the server   *)
(* has served all that is on its way, or, while there is no connection,    *)
(* what the next one will make of it.  Serving changes nothing of it, an   *)
(* emission changes it at once, and a reconnection carries it over.  Every *)
(* property is about it, and CInv says of the two queues what keeps it so: *)
(* while the dialog waits for a report, nothing but the page's own         *)
(* subscriptions follows the question, and the reports that answer it and  *)
(* are on their way are true already.                                      *)
(***************************************************************************)
EXTENDS Channels, FiniteSetTheorems, WellFoundedInduction, TLAPS

-----------------------------------------------------------------------------
(* A set of numbers has a least one.  From it follows, by the least        *)
(* counterexample, what the recursive function of Served returns.          *)
LEMMA LeastNat ==
    ASSUME NEW T \in SUBSET Nat, T # {}
    PROVE  \E n \in T : \A m \in T : n <= m
<1> DEFINE R == OpToRel(<, Nat)
<1>1. IsWellFoundedOn(R, Nat)
  BY NatLessThanWellFounded
<1>2. \A x, y \in Nat : x < y => <<x, y>> \in R
  BY DEF OpToRel
<1> HIDE DEF R
<1>3. PICK n \in T : \A m \in T : ~(<<m, n>> \in R)
  BY <1>1, WFMin
<1>4. ASSUME NEW m \in T PROVE n <= m
  <2>1. m \in Nat /\ n \in Nat
    OBVIOUS
  <2>2. ~(m < n)
    BY <1>2, <1>3, <2>1, Zenon
  <2> QED
    BY <2>1, <2>2
<1> QED
  BY <1>4

(* Requests.                                                               *)
Requests == {Ask(q) : q \in Nat} \cup {Subscribe(k) : k \in Keys}
                                 \cup {Unsubscribe(k) : k \in Keys}

(* No two requests are the same.                                           *)
LEMMA RequestFacts ==
    /\ \A q : IsAsk(Ask(q)) /\ Ask(q).nr = q
    /\ \A k : ~IsAsk(Subscribe(k)) /\ ~IsAsk(Unsubscribe(k))
    /\ \A q, p : Ask(q) = Ask(p) => q = p
    /\ \A k, l : /\ Subscribe(k) = Subscribe(l) => k = l
                 /\ Unsubscribe(k) = Unsubscribe(l) => k = l
                 /\ Subscribe(k) # Unsubscribe(l)
    /\ \A q, k : Ask(q) # Subscribe(k) /\ Ask(q) # Unsubscribe(k)
<1>1. \A q : IsAsk(Ask(q)) /\ Ask(q).nr = q
  BY DEF Ask, IsAsk
<1>2. \A k : /\ Subscribe(k).op = "subscribe" /\ Subscribe(k).key = k
             /\ Unsubscribe(k).op = "unsubscribe" /\ Unsubscribe(k).key = k
  BY DEF Subscribe, Unsubscribe
<1>3. \A k : ~IsAsk(Subscribe(k)) /\ ~IsAsk(Unsubscribe(k))
  BY <1>2 DEF IsAsk
<1>4. \A k, l : /\ Subscribe(k) = Subscribe(l) => k = l
                /\ Unsubscribe(k) = Unsubscribe(l) => k = l
                /\ Subscribe(k) # Unsubscribe(l)
  <2>1. "subscribe" # "unsubscribe"
    OBVIOUS
  <2>2. ASSUME NEW k, NEW l, Subscribe(k) = Subscribe(l) PROVE k = l
    <3>1. Subscribe(k).key = k /\ Subscribe(l).key = l
      BY <1>2
    <3> QED
      BY <2>2, <3>1
  <2>3. ASSUME NEW k, NEW l, Unsubscribe(k) = Unsubscribe(l) PROVE k = l
    <3>1. Unsubscribe(k).key = k /\ Unsubscribe(l).key = l
      BY <1>2
    <3> QED
      BY <2>3, <3>1
  <2>4. ASSUME NEW k, NEW l, Subscribe(k) = Unsubscribe(l) PROVE FALSE
    <3>1. Subscribe(k).op = "subscribe" /\ Unsubscribe(l).op = "unsubscribe"
      BY <1>2
    <3> QED
      BY <2>1, <2>4, <3>1
  <2> QED
    BY <2>2, <2>3, <2>4, Zenon
<1>5. ASSUME NEW q, NEW p, Ask(q) = Ask(p) PROVE q = p
  <2>1. Ask(q).nr = q /\ Ask(p).nr = p
    BY <1>1
  <2> QED
    BY <1>5, <2>1
<1>6. \A q, k : Ask(q) # Subscribe(k) /\ Ask(q) # Unsubscribe(k)
  BY <1>1, <1>3, Zenon
<1> QED
  BY <1>1, <1>3, <1>4, <1>5, <1>6, Zenon

(* What the handlers of onWsConnection make of the rooms.                  *)
LEMMA AfterFacts ==
    ASSUME NEW joined
    PROVE  /\ \A q : After(joined, Ask(q)) = joined
           /\ \A k : /\ After(joined, Subscribe(k)) = joined \cup {k}
                     /\ After(joined, Unsubscribe(k)) = joined \ {k}
<1>1. \A q : Ask(q).op = "request-channels"
  BY DEF Ask
<1>2. \A k : /\ Subscribe(k).op = "subscribe" /\ Subscribe(k).key = k
             /\ Unsubscribe(k).op = "unsubscribe" /\ Unsubscribe(k).key = k
  BY DEF Subscribe, Unsubscribe
<1> QED
  BY <1>1, <1>2 DEF After

(* What a request does to the membership of one channel.                   *)
LEMMA AfterOne ==
    ASSUME NEW joined, NEW r \in Requests, NEW k
    PROVE  k \in After(joined, r) <=>
               \/ r = Subscribe(k)
               \/ k \in joined /\ r # Unsubscribe(k)
<1>1. CASE \E q \in Nat : r = Ask(q)
  BY <1>1, RequestFacts, AfterFacts
<1>2. CASE \E l \in Keys : r = Subscribe(l)
  BY <1>2, RequestFacts, AfterFacts
<1>3. CASE \E l \in Keys : r = Unsubscribe(l)
  <2>1. PICK l \in Keys : r = Unsubscribe(l)
    BY <1>3
  <2>2. After(joined, r) = joined \ {l} /\ r # Subscribe(k)
    BY <2>1, AfterFacts, RequestFacts
  <2>3. r = Unsubscribe(k) <=> k = l
    BY <2>1, RequestFacts
  <2> QED
    BY <2>2, <2>3
<1> QED
  BY <1>1, <1>2, <1>3 DEF Requests

(* The requests served one after the other.                                *)
Turn(joined, rs, f, i) == IF i = 0 THEN joined ELSE After(f[i - 1], rs[i])

(* There is a function that steps through the requests as Served does.     *)
LEMMA TurnsExist ==
    ASSUME NEW joined, NEW rs, NEW N \in Nat
    PROVE  \E f : f = [i \in 0..N |-> Turn(joined, rs, f, i)]
<1> DEFINE Ok(n) == \E f : f = [i \in 0..n |-> Turn(joined, rs, f, i)]
           Bad == {n \in Nat : ~Ok(n)}
<1>1. Ok(0)
  <2>1. [i \in 0..0 |-> joined] = [i \in 0..0 |-> Turn(joined, rs, [j \in 0..0 |-> joined], i)]
    BY DEF Turn
  <2> QED
    BY <2>1, Zenon
<1>2. ASSUME NEW n \in Nat, n # 0, Ok(n - 1) PROVE Ok(n)
  <2>1. PICK g : g = [i \in 0..(n - 1) |-> Turn(joined, rs, g, i)]
    BY <1>2
  <2> DEFINE h == [i \in 0..n |-> IF i = n THEN Turn(joined, rs, g, n) ELSE g[i]]
  <2>2. ASSUME NEW i \in 0..n PROVE h[i] = Turn(joined, rs, h, i)
    <3>1. CASE i = 0
      <4>1. h[i] = g[i] /\ i \in 0..(n - 1)
        BY <1>2, <3>1
      <4>2. g[i] = Turn(joined, rs, g, i)
        BY <2>1, <4>1
      <4> QED
        BY <3>1, <4>1, <4>2 DEF Turn
    <3>2. CASE i # 0
      <4>1. i - 1 \in 0..(n - 1) /\ i - 1 \in 0..n /\ i - 1 # n
        BY <3>2
      <4>2. h[i - 1] = g[i - 1]
        BY <4>1
      <4>3. Turn(joined, rs, h, i) = Turn(joined, rs, g, i)
        BY <3>2, <4>2 DEF Turn
      <4>4. h[i] = Turn(joined, rs, g, i)
        <5>1. CASE i = n
          BY <5>1
        <5>2. CASE i # n
          <6>1. i \in 0..(n - 1)
            BY <5>2
          <6>2. g[i] = Turn(joined, rs, g, i)
            BY <2>1, <6>1
          <6>3. h[i] = g[i]
            BY <5>2
          <6> QED
            BY <6>2, <6>3
        <5> QED
          BY <5>1, <5>2
      <4> QED
        BY <4>3, <4>4
    <3> QED
      BY <3>1, <3>2
  <2>3. h = [i \in 0..n |-> h[i]]
    OBVIOUS
  <2> HIDE DEF h
  <2>4. h = [i \in 0..n |-> Turn(joined, rs, h, i)]
    BY <2>2, <2>3, Zenon
  <2> QED
    BY <2>4, Zenon
<1> HIDE DEF Ok
<1>3. Bad = {}
  <2> SUFFICES ASSUME Bad # {} PROVE FALSE
    OBVIOUS
  <2>1. PICK n \in Bad : \A m \in Bad : n <= m
    BY LeastNat
  <2>2. n # 0 /\ n \in Nat /\ ~Ok(n)
    BY <1>1
  <2>3. n - 1 \in Nat /\ ~(n <= n - 1)
    BY <2>2
  <2>4. Ok(n - 1)
    BY <2>1, <2>3
  <2> QED
    BY <1>2, <2>2, <2>4
<1> QED
  BY <1>3 DEF Ok

(* The function of Served is one that steps.                               *)
LEMMA TurnsAre ==
    ASSUME NEW joined, NEW rs, Len(rs) \in Nat
    PROVE  \E f : /\ Served(joined, rs) = f[Len(rs)]
                  /\ f = [i \in 0..Len(rs) |-> Turn(joined, rs, f, i)]
<1> DEFINE f == CHOOSE f : f = [i \in 0..Len(rs) |->
            IF i = 0 THEN joined ELSE After(f[i - 1], rs[i])]
<1>0. \E g : g = [i \in 0..Len(rs) |-> Turn(joined, rs, g, i)]
  BY TurnsExist, Zenon
<1>1. \E g : g = [i \in 0..Len(rs) |-> IF i = 0 THEN joined ELSE After(g[i - 1], rs[i])]
  BY <1>0, Zenon DEF Turn
<1>2. f = [i \in 0..Len(rs) |-> IF i = 0 THEN joined ELSE After(f[i - 1], rs[i])]
  BY <1>1, Zenon
<1>3. Served(joined, rs) = f[Len(rs)]
  BY Zenon DEF Served
<1> QED
  BY <1>2, <1>3, Zenon DEF Turn

(* One is in the room after n requests if one has subscribed and not       *)
(* unsubscribed since, or was in it and has not unsubscribed.              *)
Joins(joined, rs, n, k) ==
    \/ \E i \in 1..n : rs[i] = Subscribe(k) /\ \A j \in 1..n : j > i => rs[j] # Unsubscribe(k)
    \/ k \in joined /\ \A j \in 1..n : rs[j] # Unsubscribe(k)

(* One request more.                                                       *)
LEMMA JoinsNext ==
    ASSUME NEW joined, NEW rs, NEW n \in Nat \ {0}, NEW k
    PROVE  Joins(joined, rs, n, k) <=>
               \/ rs[n] = Subscribe(k)
               \/ Joins(joined, rs, n - 1, k) /\ rs[n] # Unsubscribe(k)
<1>1. \A i \in 1..n : i = n \/ i \in 1..(n - 1)
  OBVIOUS
<1>2. n \in 1..n /\ \A i \in 1..(n - 1) : i \in 1..n /\ n > i
  OBVIOUS
<1>3. ASSUME rs[n] = Subscribe(k) PROVE Joins(joined, rs, n, k)
  <2>1. \A j \in 1..n : ~(j > n)
    OBVIOUS
  <2> QED
    BY <1>2, <1>3, <2>1, Zenon DEF Joins
<1>4. ASSUME Joins(joined, rs, n - 1, k), rs[n] # Unsubscribe(k) PROVE Joins(joined, rs, n, k)
  <2>1. CASE k \in joined /\ \A j \in 1..(n - 1) : rs[j] # Unsubscribe(k)
    BY <1>1, <1>4, <2>1, Zenon DEF Joins
  <2>2. CASE \E i \in 1..(n - 1) : rs[i] = Subscribe(k)
                 /\ \A j \in 1..(n - 1) : j > i => rs[j] # Unsubscribe(k)
    BY <1>1, <1>2, <1>4, <2>2, Zenon DEF Joins
  <2> QED
    BY <1>4, <2>1, <2>2, Zenon DEF Joins
<1>5. ASSUME Joins(joined, rs, n, k), rs[n] # Subscribe(k)
      PROVE  Joins(joined, rs, n - 1, k) /\ rs[n] # Unsubscribe(k)
  <2>1. CASE k \in joined /\ \A j \in 1..n : rs[j] # Unsubscribe(k)
    BY <1>2, <2>1, Zenon DEF Joins
  <2>2. CASE \E i \in 1..n : rs[i] = Subscribe(k)
                 /\ \A j \in 1..n : j > i => rs[j] # Unsubscribe(k)
    <3>1. PICK i \in 1..n : rs[i] = Subscribe(k)
                 /\ \A j \in 1..n : j > i => rs[j] # Unsubscribe(k)
      BY <2>2
    <3>2. i \in 1..(n - 1)
      BY <1>1, <1>5, <3>1
    <3> QED
      BY <1>2, <3>1, <3>2, Zenon DEF Joins
  <2> QED
    BY <1>5, <2>1, <2>2, Zenon DEF Joins
<1> QED
  BY <1>3, <1>4, <1>5, Zenon

(* Served in terms of single channels.                                     *)
LEMMA ServedIs ==
    ASSUME NEW joined, NEW rs \in Seq(Requests)
    PROVE  \A k : k \in Served(joined, rs) <=> Joins(joined, rs, Len(rs), k)
<1>0. Len(rs) \in Nat /\ \A i \in 1..Len(rs) : rs[i] \in Requests
  OBVIOUS
<1>1. PICK f : /\ Served(joined, rs) = f[Len(rs)]
               /\ f = [i \in 0..Len(rs) |-> Turn(joined, rs, f, i)]
  BY <1>0, TurnsAre
<1> DEFINE Good(n) == \A k : k \in f[n] <=> Joins(joined, rs, n, k)
           Bad == {n \in Nat : n <= Len(rs) /\ ~Good(n)}
<1>2. \A n \in 0..Len(rs) : f[n] = Turn(joined, rs, f, n)
  BY <1>1
<1>3. Good(0)
  <2>1. f[0] = joined
    BY <1>0, <1>2 DEF Turn
  <2>2. 1..0 = {}
    OBVIOUS
  <2> QED
    BY <2>1, <2>2, Zenon DEF Joins
<1>4. ASSUME NEW n \in 1..Len(rs), Good(n - 1) PROVE Good(n)
  <2>1. f[n] = After(f[n - 1], rs[n])
    <3>1. n \in 0..Len(rs) /\ n # 0
      BY <1>0
    <3> QED
      BY <1>2, <3>1 DEF Turn
  <2>2. n \in Nat \ {0} /\ rs[n] \in Requests
    BY <1>0
  <2>3. PICK g : g = f[n - 1]
    OBVIOUS
  <2>4. \A k : k \in After(g, rs[n]) <=> rs[n] = Subscribe(k) \/ (k \in g /\ rs[n] # Unsubscribe(k))
    BY <2>2, AfterOne, Zenon
  <2>5. \A k : k \in g <=> Joins(joined, rs, n - 1, k)
    BY <1>4, <2>3
  <2>6. \A k : Joins(joined, rs, n, k) <=>
               \/ rs[n] = Subscribe(k)
               \/ Joins(joined, rs, n - 1, k) /\ rs[n] # Unsubscribe(k)
    BY <2>2, JoinsNext, Zenon
  <2> QED
    BY <2>1, <2>3, <2>4, <2>5, <2>6, Zenon
<1> HIDE DEF Good
<1>5. Bad = {}
  <2> SUFFICES ASSUME Bad # {} PROVE FALSE
    OBVIOUS
  <2>1. PICK n \in Bad : \A m \in Bad : n <= m
    BY LeastNat
  <2>2. n # 0 /\ n \in 0..Len(rs) /\ ~Good(n)
    BY <1>3
  <2>3. n - 1 \in 0..Len(rs) /\ ~(n <= n - 1) /\ n \in 1..Len(rs)
    BY <1>0, <2>2
  <2>4. Good(n - 1)
    BY <2>1, <2>3
  <2> QED
    BY <1>4, <2>2, <2>3, <2>4
<1>6. Good(Len(rs))
  BY <1>0, <1>5
<1> QED
  BY <1>1, <1>6 DEF Good

(* Nothing to serve.                                                       *)
LEMMA ServedEmpty == ASSUME NEW joined PROVE Served(joined, <<>>) = joined
<1>1. <<>> \in Seq(Requests) /\ Len(<<>>) = 0 /\ 1..0 = {}
  OBVIOUS
<1>2. \A k : k \in Served(joined, <<>>) <=> Joins(joined, <<>>, Len(<<>>), k)
  BY <1>1, ServedIs
<1>3. \A k : Joins(joined, <<>>, 0, k) <=> k \in joined
  BY <1>1, Zenon DEF Joins
<1> QED
  BY <1>1, <1>2, <1>3

(* What is emitted last is served last.                                    *)
LEMMA ServedAppend ==
    ASSUME NEW joined, NEW rs \in Seq(Requests), NEW r \in Requests
    PROVE  Served(joined, Append(rs, r)) = After(Served(joined, rs), r)
<1> DEFINE q == Append(rs, r)
<1>1. /\ q \in Seq(Requests) /\ Len(q) = Len(rs) + 1 /\ q[Len(rs) + 1] = r
      /\ Len(rs) \in Nat /\ \A i \in 1..Len(rs) : q[i] = rs[i]
  OBVIOUS
<1> HIDE DEF q
<1>2. PICK n \in Nat \ {0} : n = Len(q) /\ n - 1 = Len(rs) /\ q[n] = r
  BY <1>1
<1>3. \A k : k \in Served(joined, q) <=> Joins(joined, q, n, k)
  BY <1>1, <1>2, ServedIs
<1>4. \A k : k \in Served(joined, rs) <=> Joins(joined, rs, n - 1, k)
  BY <1>2, ServedIs
<1>5. \A k : Joins(joined, q, n, k) <=>
               \/ q[n] = Subscribe(k)
               \/ Joins(joined, q, n - 1, k) /\ q[n] # Unsubscribe(k)
  BY JoinsNext, Zenon
<1>6. \A k : Joins(joined, q, n - 1, k) <=> Joins(joined, rs, n - 1, k)
  <2>1. \A i \in 1..(n - 1) : q[i] = rs[i]
    BY <1>1, <1>2
  <2> QED
    BY <2>1, Zenon DEF Joins
<1>7. PICK g : g = Served(joined, rs)
  OBVIOUS
<1>8. \A k : k \in After(g, r) <=> r = Subscribe(k) \/ (k \in g /\ r # Unsubscribe(k))
  BY AfterOne, Zenon
<1>9. \A k : k \in Served(joined, q) <=> k \in After(g, r)
  BY <1>2, <1>3, <1>4, <1>5, <1>6, <1>7, <1>8, Zenon
<1> QED
  BY <1>7, <1>9 DEF q

(* Serving the head first changes nothing of what serving them all makes.  *)
LEMMA ServedTail ==
    ASSUME NEW joined, NEW rs \in Seq(Requests), rs # <<>>
    PROVE  Served(After(joined, Head(rs)), Tail(rs)) = Served(joined, rs)
<1>1. /\ Tail(rs) \in Seq(Requests) /\ Len(rs) \in Nat \ {0} /\ Head(rs) = rs[1]
      /\ Len(Tail(rs)) = Len(rs) - 1 /\ rs[1] \in Requests
      /\ \A i \in 1..(Len(rs) - 1) : Tail(rs)[i] = rs[i + 1]
  OBVIOUS
<1>2. PICK n \in Nat : n = Len(rs) - 1 /\ Len(rs) = n + 1
  <2>1. Len(rs) - 1 \in Nat /\ Len(rs) = (Len(rs) - 1) + 1
    BY <1>1
  <2> QED
    BY <2>1, Zenon
<1>3. PICK t \in Seq(Requests) : t = Tail(rs) /\ Len(t) = n /\ \A i \in 1..n : t[i] = rs[i + 1]
  BY <1>1, <1>2
<1>4. PICK g : g = After(joined, rs[1])
  OBVIOUS
<1>5. \A k : k \in g <=> rs[1] = Subscribe(k) \/ (k \in joined /\ rs[1] # Unsubscribe(k))
  BY <1>1, <1>4, AfterOne
<1>6. \A k : k \in Served(g, t) <=> Joins(g, t, n, k)
  BY <1>3, ServedIs
<1>7. \A k : k \in Served(joined, rs) <=> Joins(joined, rs, n + 1, k)
  BY <1>2, ServedIs
<1>8. /\ \A i \in 1..(n + 1) : i = 1 \/ \E j \in 1..n : i = j + 1
      /\ \A j \in 1..n : j + 1 \in 1..(n + 1) /\ j + 1 > 1 /\ \A i \in 1..n : i + 1 > j + 1 <=> i > j
      /\ 1 \in 1..(n + 1) /\ ~(1 > 1) /\ \A j \in 1..n : ~(1 > j + 1)
  <2>1. \A i \in 1..(n + 1) : i = 1 \/ \E j \in 1..n : i = j + 1
    <3> SUFFICES ASSUME NEW i \in 1..(n + 1), i # 1 PROVE \E j \in 1..n : i = j + 1
      OBVIOUS
    <3>1. i - 1 \in 1..n /\ i = (i - 1) + 1
      OBVIOUS
    <3> QED
      BY <3>1
  <2> QED
    BY <2>1
<1>9. ASSUME NEW k, Joins(g, t, n, k) PROVE Joins(joined, rs, n + 1, k)
  <2>1. CASE k \in g /\ \A j \in 1..n : t[j] # Unsubscribe(k)
    <3>1. \A j \in 1..n : rs[j + 1] # Unsubscribe(k)
      BY <1>3, <2>1
    <3>2. CASE rs[1] = Subscribe(k)
      <4>1. \A j \in 1..(n + 1) : j > 1 => rs[j] # Unsubscribe(k)
        BY <1>8, <3>1, Zenon
      <4> QED
        BY <1>8, <3>2, <4>1, Zenon DEF Joins
    <3>3. CASE k \in joined /\ rs[1] # Unsubscribe(k)
      <4>1. \A j \in 1..(n + 1) : rs[j] # Unsubscribe(k)
        BY <1>8, <3>1, <3>3, Zenon
      <4> QED
        BY <3>3, <4>1, Zenon DEF Joins
    <3> QED
      BY <1>5, <2>1, <3>2, <3>3
  <2>2. CASE \E i \in 1..n : t[i] = Subscribe(k)
                 /\ \A j \in 1..n : j > i => t[j] # Unsubscribe(k)
    <3>1. PICK i \in 1..n : t[i] = Subscribe(k) /\ \A j \in 1..n : j > i => t[j] # Unsubscribe(k)
      BY <2>2
    <3>2. i + 1 \in 1..(n + 1) /\ rs[i + 1] = Subscribe(k)
      BY <1>3, <3>1
    <3>3. ASSUME NEW m \in 1..(n + 1), m > i + 1 PROVE rs[m] # Unsubscribe(k)
      <4>1. PICK j \in 1..n : m = j + 1
        BY <1>8, <3>3
      <4>2. j > i
        BY <3>3, <4>1
      <4> QED
        BY <1>3, <3>1, <4>1, <4>2
    <3> QED
      BY <3>2, <3>3, Zenon DEF Joins
  <2> QED
    BY <1>9, <2>1, <2>2, Zenon DEF Joins
<1>10. ASSUME NEW k, Joins(joined, rs, n + 1, k) PROVE Joins(g, t, n, k)
  <2>1. CASE k \in joined /\ \A j \in 1..(n + 1) : rs[j] # Unsubscribe(k)
    <3>1. \A j \in 1..n : t[j] # Unsubscribe(k)
      BY <1>3, <1>8, <2>1
    <3>2. k \in g
      BY <1>5, <1>8, <2>1
    <3> QED
      BY <3>1, <3>2, Zenon DEF Joins
  <2>2. CASE \E i \in 1..(n + 1) : rs[i] = Subscribe(k)
                 /\ \A j \in 1..(n + 1) : j > i => rs[j] # Unsubscribe(k)
    <3>1. PICK i \in 1..(n + 1) : rs[i] = Subscribe(k)
                 /\ \A j \in 1..(n + 1) : j > i => rs[j] # Unsubscribe(k)
      BY <2>2
    <3>2. CASE i = 1
      <4>1. k \in g
        BY <1>5, <3>1, <3>2
      <4>2. \A j \in 1..n : t[j] # Unsubscribe(k)
        <5> TAKE j \in 1..n
        <5>1. j + 1 \in 1..(n + 1) /\ j + 1 > i
          BY <3>2
        <5> QED
          BY <1>3, <3>1, <5>1
      <4> QED
        BY <4>1, <4>2, Zenon DEF Joins
    <3>3. CASE \E j \in 1..n : i = j + 1
      <4>1. PICK j \in 1..n : i = j + 1
        BY <3>3
      <4>2. t[j] = Subscribe(k)
        BY <1>3, <3>1, <4>1
      <4>3. ASSUME NEW m \in 1..n, m > j PROVE t[m] # Unsubscribe(k)
        <5>1. m + 1 \in 1..(n + 1) /\ m + 1 > i
          BY <4>1, <4>3
        <5> QED
          BY <1>3, <3>1, <5>1
      <4> QED
        BY <4>2, <4>3, Zenon DEF Joins
    <3> QED
      BY <1>8, <3>2, <3>3
  <2> QED
    BY <1>10, <2>1, <2>2, Zenon DEF Joins
<1>11. \A k : k \in Served(g, t) <=> k \in Served(joined, rs)
  BY <1>6, <1>7, <1>9, <1>10, Zenon
<1> QED
  BY <1>1, <1>3, <1>4, <1>11

(* Subscriptions alone leave the other channels as they are.               *)
LEMMA ServedSubscriptions ==
    ASSUME NEW joined, NEW rs \in Seq(Requests), NEW A,
           \A i \in 1..Len(rs) : \E l \in A : rs[i] = Subscribe(l)
    PROVE  \A k : k \notin A => (k \in Served(joined, rs) <=> k \in joined)
<1>1. \A k : k \in Served(joined, rs) <=> Joins(joined, rs, Len(rs), k)
  BY ServedIs
<1>2. \A i \in 1..Len(rs) : \A k : rs[i] # Unsubscribe(k)
  BY RequestFacts
<1>3. \A i \in 1..Len(rs) : \A k : k \notin A => rs[i] # Subscribe(k)
  BY RequestFacts
<1> QED
  BY <1>1, <1>2, <1>3, Zenon DEF Joins

-----------------------------------------------------------------------------
(* What is on its way to the server, or will be on the next connection,    *)
(* and the rooms of the viewer once it has been served.                    *)
Outgoing == IF cur = 0 THEN buffer ELSE up[cur]

Future == IF cur = 0 THEN Served({}, buffer) ELSE Coming

(* The shape of the connection.                                            *)
SessionTypes ==
    /\ up \in Seq(Seq(Requests)) /\ rooms \in Seq(SUBSET Keys) /\ Len(rooms) = Len(up)
    /\ open \in SUBSET Sessions /\ cur \in open \cup {0}
    /\ \A s \in Sessions \ open : rooms[s] = {} /\ up[s] = <<>>
    /\ buffer \in Seq(Requests) /\ (buffer # <<>> => cur = 0)

(* The shape of the page.                                                  *)
PageTypes ==
    /\ listed \in SUBSET Keys /\ on \in BOOLEAN /\ (cur # 0 => on)
    /\ handler \in BOOLEAN /\ DOMAIN rows \subseteq Keys
    /\ asked \in 0..did /\ did \in Nat
    /\ said \in [Keys -> {"nothing", "subscribe", "unsubscribe"}]
    /\ auto \in SUBSET Keys /\ announced \in SUBSET Keys

(* An event as the server sends it: a report names a question that was     *)
(* asked and a session that there is.                                      *)
EventOK(e) ==
    /\ e.evt = "new-channel" => e.key \in Keys
    /\ e.evt = "report-channels" =>
           e.nr \in 0..asked /\ e.from \in 0..Len(up) /\ DOMAIN e.rows \subseteq Keys

DownTypes ==
    /\ \E S : down \in Seq(S)
    /\ \A i \in 1..Len(down) : EventOK(down[i])
    /\ answered.from \in 0..Len(up)

(* The last word, also while there is no connection.                       *)
Words ==
    \A k \in Keys : /\ said[k] = "subscribe"   => k \in Future
                    /\ said[k] = "unsubscribe" => k \notin Future

(* An announced channel is accepted, or its announcement is on its way.    *)
WillAccept ==
    cur # 0 => \A k \in announced :
        k \in Future \/ \E i \in 1..Len(down) : down[i].evt = "new-channel" /\ down[i].key = k

(* No question has a number that was not asked.                            *)
Questions ==
    /\ \A s \in Sessions : \A i \in 1..Len(up[s]), q \in Nat : up[s][i] = Ask(q) => q <= asked
    /\ \A i \in 1..Len(buffer), q \in Nat : buffer[i] = Ask(q) => q <= asked

(* While a report is awaited, nothing follows the question but what the    *)
(* page accepts by itself.                                                 *)
OnlyAccepts ==
    handler => \A i, j \in 1..Len(Outgoing) :
        i < j /\ Outgoing[i] = Ask(asked) => \E l \in auto : Outgoing[j] = Subscribe(l)

(* The report it waits for is true when it comes.                          *)
IsTrue(e) ==
    (e.evt = "report-channels" /\ e.nr = asked /\ e.from = cur) =>
        \A k \in DOMAIN e.rows \ auto : e.rows[k] <=> k \in Future

ReportsTrue == handler /\ cur # 0 => \A i \in 1..Len(down) : IsTrue(down[i])

(* The table is empty while a report is awaited.                           *)
Waiting == handler => DOMAIN rows = {}

(* The boxes are true.                                                     *)
BoxesTrue ==
    (cur # 0 /\ answered = [nr |-> asked, from |-> cur]) =>
        \A k \in DOMAIN rows \ auto : rows[k] <=> k \in Future

(* The whole invariant.                                                    *)
CInv ==
    /\ SessionTypes /\ PageTypes /\ DownTypes
    /\ Words /\ WillAccept
    /\ Questions /\ OnlyAccepts /\ ReportsTrue /\ Waiting /\ BoxesTrue

(* One place of a sequence is replaced.                                    *)
LEMMA OnePlace ==
    ASSUME NEW S, NEW u \in Seq(S), NEW c \in 1..Len(u), NEW x \in S,
           NEW v, v = [u EXCEPT ![c] = x]
    PROVE  /\ v \in Seq(S) /\ Len(v) = Len(u) /\ v[c] = x
           /\ \A s \in 1..Len(u) : s # c => v[s] = u[s]
OBVIOUS

(* The facts about sessions that the steps use.                            *)
LEMMA SessionFacts ==
    ASSUME SessionTypes
    PROVE  /\ Len(up) \in Nat /\ Sessions = 1..Len(up) /\ cur \in 0..Len(up)
           /\ \A s \in 1..Len(up) : up[s] \in Seq(Requests) /\ rooms[s] \in SUBSET Keys
           /\ cur # 0 => /\ cur \in 1..Len(up) /\ buffer = <<>> /\ up[cur] \in Seq(Requests)
                         /\ rooms[cur] \in SUBSET Keys /\ cur \in open
           /\ Outgoing \in Seq(Requests)
<1>1. /\ Len(up) \in Nat /\ Sessions = 1..Len(up) /\ cur \in 0..Len(up)
      /\ \A s \in 1..Len(up) : up[s] \in Seq(Requests) /\ rooms[s] \in SUBSET Keys
  BY DEF SessionTypes, Sessions
<1>2. cur # 0 => /\ cur \in 1..Len(up) /\ buffer = <<>> /\ cur \in open
  BY <1>1 DEF SessionTypes
<1>3. buffer \in Seq(Requests)
  BY DEF SessionTypes
<1>4. Outgoing \in Seq(Requests)
  BY <1>1, <1>2, <1>3, Zenon DEF Outgoing
<1> QED
  BY <1>1, <1>2, <1>4

(* A request is emitted.                                                   *)
LEMMA EmitFacts ==
    ASSUME SessionTypes, NEW r \in Requests, Emit(<<r>>)
    PROVE  /\ SessionTypes' /\ Len(up') = Len(up)
           /\ UNCHANGED <<open, rooms, cur, on>>
           /\ Outgoing' = Append(Outgoing, r) /\ Future' = After(Future, r)
           /\ \A s \in Sessions : s # cur => up'[s] = up[s]
           /\ cur = 0 => up' = up /\ buffer' = Append(buffer, r)
           /\ cur # 0 => up'[cur] = Append(up[cur], r) /\ buffer' = buffer
           /\ said' = [k \in Keys |-> IF r = Subscribe(k) THEN "subscribe"
                                      ELSE IF r = Unsubscribe(k) THEN "unsubscribe" ELSE said[k]]
<1>0. /\ Len(up) \in Nat /\ Sessions = 1..Len(up) /\ cur \in 0..Len(up)
      /\ \A s \in 1..Len(up) : up[s] \in Seq(Requests) /\ rooms[s] \in SUBSET Keys
      /\ cur # 0 => /\ cur \in 1..Len(up) /\ buffer = <<>> /\ up[cur] \in Seq(Requests)
                    /\ rooms[cur] \in SUBSET Keys /\ cur \in open
  BY SessionFacts
<1>1. UNCHANGED <<open, rooms, cur, on>>
  BY DEF Emit
<1>2. \A k : /\ Subscribe(k) \in ToSet(<<r>>) <=> r = Subscribe(k)
             /\ Unsubscribe(k) \in ToSet(<<r>>) <=> r = Unsubscribe(k)
  <2>1. ToSet(<<r>>) = {r}
    BY DEF ToSet
  <2> QED
    BY <2>1
<1>3. said' = [k \in Keys |-> IF r = Subscribe(k) THEN "subscribe"
                              ELSE IF r = Unsubscribe(k) THEN "unsubscribe" ELSE said[k]]
  <2>1. said' = [k \in Keys |-> CASE Subscribe(k) \in ToSet(<<r>>)   -> "subscribe"
                                  [] Unsubscribe(k) \in ToSet(<<r>>) -> "unsubscribe"
                                  [] OTHER                           -> said[k]]
    BY DEF Emit
  <2>2. \A k : ~(r = Subscribe(k) /\ r = Unsubscribe(k))
    BY RequestFacts
  <2> QED
    BY <1>2, <2>1, <2>2
<1>4. \A s \in Seq(Requests) : s \o <<r>> = Append(s, r) /\ Append(s, r) \in Seq(Requests)
  OBVIOUS
<1>5. CASE cur = 0
  <2>1. up' = up /\ buffer' = Append(buffer, r)
    BY <1>4, <1>5 DEF Emit, SessionTypes
  <2>2. Outgoing' = Append(Outgoing, r)
    BY <1>1, <1>5, <2>1, Zenon DEF Outgoing
  <2>3. Served({}, buffer') = After(Served({}, buffer), r)
    BY <2>1, ServedAppend DEF SessionTypes
  <2>4. Future' = After(Future, r)
    BY <1>1, <1>5, <2>3, Zenon DEF Future
  <2>5. SessionTypes'
    <3>1. buffer' \in Seq(Requests)
      BY <1>4, <2>1 DEF SessionTypes
    <3> QED
      BY <1>1, <1>5, <2>1, <3>1 DEF SessionTypes, Sessions
  <2> QED
    BY <1>1, <1>3, <1>5, <2>1, <2>2, <2>4, <2>5
<1>6. CASE cur # 0
  <2>1. buffer' = buffer /\ up' = [up EXCEPT ![cur] = up[cur] \o <<r>>]
    BY <1>6 DEF Emit
  <2>2. PICK x \in Seq(Requests) : x = Append(up[cur], r) /\ x = up[cur] \o <<r>>
    BY <1>0, <1>4, <1>6
  <2>3. up' = [up EXCEPT ![cur] = x]
    BY <2>1, <2>2, Zenon
  <2>4. /\ up' \in Seq(Seq(Requests)) /\ Len(up') = Len(up) /\ up'[cur] = x
        /\ \A s \in 1..Len(up) : s # cur => up'[s] = up[s]
    <3>1. up \in Seq(Seq(Requests)) /\ cur \in 1..Len(up)
      BY <1>0, <1>6 DEF SessionTypes
    <3> QED
      BY <2>3, <3>1, OnePlace
  <2>5. Outgoing' = Append(Outgoing, r)
    BY <1>1, <1>6, <2>2, <2>4, Zenon DEF Outgoing
  <2>6. Served(rooms'[cur'], up'[cur']) = After(Served(rooms[cur], up[cur]), r)
    <3>1. Served(rooms[cur], x) = After(Served(rooms[cur], up[cur]), r)
      BY <1>0, <1>6, <2>2, ServedAppend
    <3> QED
      BY <1>1, <2>4, <3>1
  <2>7. Future' = After(Future, r)
    BY <1>1, <1>6, <2>6, Zenon DEF Future, Coming
  <2>8. SessionTypes'
    <3>1. Sessions' = Sessions
      BY <2>4 DEF Sessions
    <3>2. \A s \in Sessions \ open : up'[s] = up[s]
      BY <1>0, <1>6, <2>4
    <3> QED
      BY <1>1, <1>6, <2>1, <2>4, <3>1, <3>2 DEF SessionTypes
  <2> QED
    BY <1>0, <1>1, <1>3, <1>6, <2>1, <2>2, <2>4, <2>5, <2>7, <2>8
<1> QED
  BY <1>5, <1>6

(* Nothing is emitted.                                                     *)
LEMMA EmitNothing ==
    ASSUME SessionTypes, PageTypes, Emit(<<>>)
    PROVE  UNCHANGED <<open, rooms, cur, on, up, buffer, said>>
<1>0. /\ cur # 0 => /\ cur \in 1..Len(up) /\ up[cur] \in Seq(Requests)
      /\ buffer \in Seq(Requests) /\ up \in Seq(Seq(Requests))
  BY SessionFacts DEF SessionTypes
<1>1. \A s \in Seq(Requests) : s \o <<>> = s
  OBVIOUS
<1>2. UNCHANGED <<open, rooms, cur, on>>
  BY DEF Emit
<1>3. said' = said
  <2>1. ToSet(<<>>) = {}
    BY DEF ToSet
  <2>2. said' = [k \in Keys |-> said[k]]
    BY <2>1 DEF Emit
  <2> QED
    BY <2>2 DEF PageTypes
<1>4. up' = up /\ buffer' = buffer
  <2>1. CASE cur = 0
    BY <1>0, <1>1, <2>1 DEF Emit
  <2>2. CASE cur # 0
    <3>1. up' = [up EXCEPT ![cur] = up[cur]] /\ buffer' = buffer
      BY <1>0, <1>1, <2>2 DEF Emit
    <3> QED
      BY <1>0, <2>2, <3>1
  <2> QED
    BY <2>1, <2>2
<1> QED
  BY <1>2, <1>3, <1>4

(* Some of what was to be served has been, or is gone.                     *)
Shorter(t, s) == t = s \/ t = <<>> \/ (s # <<>> /\ t = Tail(s))

(* What is left was there, in this order.                                  *)
LEMMA ShorterFacts ==
    ASSUME NEW S, NEW s \in Seq(S), NEW t, Shorter(t, s)
    PROVE  /\ t \in Seq(S) /\ Len(t) \in Nat
           /\ \A i \in 1..Len(t) : \E m \in 1..Len(s) : t[i] = s[m]
           /\ \A i, j \in 1..Len(t) : i < j =>
                  \E m, n \in 1..Len(s) : m < n /\ t[i] = s[m] /\ t[j] = s[n]
<1>1. CASE t = s
  BY <1>1
<1>2. CASE t = <<>>
  BY <1>2
<1>3. CASE s # <<>> /\ t = Tail(s)
  <2>1. /\ t \in Seq(S) /\ Len(s) \in Nat /\ Len(t) = Len(s) - 1 /\ Len(t) \in Nat
        /\ \A i \in 1..Len(t) : t[i] = s[i + 1]
    BY <1>3
  <2>2. \A i \in 1..Len(t) : i + 1 \in 1..Len(s)
    BY <2>1
  <2>3. \A i, j \in 1..Len(t) : i < j => i + 1 < j + 1
    BY <2>1
  <2> QED
    BY <2>1, <2>2, <2>3, Zenon
<1> QED
  BY <1>1, <1>2, <1>3 DEF Shorter

(* A sequence with one element more.                                       *)
LEMMA Appended ==
    ASSUME NEW S, NEW s \in Seq(S), NEW x, NEW t, t = Append(s, x)
    PROVE  /\ Len(s) \in Nat /\ Len(t) = Len(s) + 1 /\ t[Len(s) + 1] = x
           /\ \A i \in 1..Len(s) : i \in 1..Len(t) /\ t[i] = s[i]
           /\ \A i \in 1..Len(t) : i = Len(s) + 1 \/ i \in 1..Len(s)
<1>1. s \in Seq(S \cup {x}) /\ Len(s) \in Nat
  OBVIOUS
<1>2. /\ Len(t) = Len(s) + 1 /\ t[Len(s) + 1] = x
      /\ \A i \in 1..Len(s) : t[i] = s[i]
  BY <1>1
<1> QED
  BY <1>1, <1>2

(* No question that was not asked, after requests were served or emitted.  *)
LEMMA QuestionsKept ==
    ASSUME SessionTypes, Questions, Len(up') = Len(up),
           asked \in Nat, asked' \in Nat, asked <= asked',
           NEW r, \A q \in Nat : r = Ask(q) => q <= asked',
           \A s \in 1..Len(up) : Shorter(up'[s], up[s]) \/ up'[s] = Append(up[s], r),
           Shorter(buffer', buffer) \/ buffer' = Append(buffer, r)
    PROVE  Questions'
<1>0. /\ Sessions = 1..Len(up) /\ Sessions' = 1..Len(up)
      /\ \A s \in 1..Len(up) : up[s] \in Seq(Requests)
      /\ buffer \in Seq(Requests)
  BY SessionFacts DEF SessionTypes, Sessions
<1>1. ASSUME NEW s \in Seq(Requests), NEW t, Shorter(t, s) \/ t = Append(s, r),
             \A i \in 1..Len(s), q \in Nat : s[i] = Ask(q) => q <= asked
      PROVE  \A i \in 1..Len(t), q \in Nat : t[i] = Ask(q) => q <= asked'
  <2>0. \A q \in Nat : q <= asked => q <= asked'
    OBVIOUS
  <2>1. CASE Shorter(t, s)
    <3>1. \A i \in 1..Len(t) : \E m \in 1..Len(s) : t[i] = s[m]
      BY <2>1, ShorterFacts
    <3> QED
      BY <1>1, <2>0, <3>1, Zenon
  <2>2. CASE t = Append(s, r)
    <3>1. /\ \A i \in 1..Len(s) : t[i] = s[i]
          /\ \A i \in 1..Len(t) : t[i] = r \/ i \in 1..Len(s)
      BY <2>2, Appended
    <3> QED
      BY <1>1, <2>0, <3>1, Zenon
  <2> QED
    BY <1>1, <2>1, <2>2
<1>2. \A s \in 1..Len(up) : \A i \in 1..Len(up'[s]), q \in Nat : up'[s][i] = Ask(q) => q <= asked'
  <2> TAKE s \in 1..Len(up)
  <2>1. up[s] \in Seq(Requests) /\ \A i \in 1..Len(up[s]), q \in Nat : up[s][i] = Ask(q) => q <= asked
    BY <1>0 DEF Questions
  <2>2. PICK x : x = up'[s]
    OBVIOUS
  <2>3. Shorter(x, up[s]) \/ x = Append(up[s], r)
    BY <2>2
  <2> QED
    BY <1>1, <2>1, <2>2, <2>3
<1>3. \A i \in 1..Len(buffer'), q \in Nat : buffer'[i] = Ask(q) => q <= asked'
  BY <1>0, <1>1 DEF Questions
<1> QED
  BY <1>0, <1>2, <1>3 DEF Questions

(* What is on its way to the page: a part of what was, or an event more.   *)
Passed(t, s, e) ==
    Shorter(t, s) \/ t = Append(s, e) \/ \E n \in 0..Len(s) : t = SubSeq(s, 1, n)

(* What is on its way to the page was, or is the new event.                *)
LEMMA PassedFacts ==
    ASSUME NEW S, NEW s \in Seq(S), NEW e, NEW t, Passed(t, s, e)
    PROVE  /\ \E R : t \in Seq(R)
           /\ \A i \in 1..Len(t) : (\E m \in 1..Len(s) : t[i] = s[m]) \/ (t = Append(s, e) /\ t[i] = e)
<1>1. CASE Shorter(t, s)
  BY <1>1, ShorterFacts
<1>2. CASE t = Append(s, e)
  <2>1. t \in Seq(S \cup {e})
    <3>1. s \in Seq(S \cup {e}) /\ e \in S \cup {e}
      OBVIOUS
    <3> QED
      BY <1>2, <3>1
  <2>2. \A i \in 1..Len(t) : (\E m \in 1..Len(s) : t[i] = s[m]) \/ t[i] = e
    <3>1. /\ t[Len(s) + 1] = e
          /\ \A i \in 1..Len(s) : t[i] = s[i]
          /\ \A i \in 1..Len(t) : i = Len(s) + 1 \/ i \in 1..Len(s)
      BY <1>2, Appended
    <3> QED
      BY <3>1, Zenon
  <2> QED
    BY <1>2, <2>1, <2>2, Zenon
<1>3. CASE \E n \in 0..Len(s) : t = SubSeq(s, 1, n)
  <2>1. PICK n \in 0..Len(s) : t = SubSeq(s, 1, n)
    BY <1>3
  <2>2. /\ t \in Seq(S) /\ Len(s) \in Nat /\ Len(t) = n /\ n \in Nat /\ n <= Len(s)
        /\ \A i \in 1..n : t[i] = s[i]
    BY <2>1
  <2>3. \A i \in 1..Len(t) : i \in 1..Len(s) /\ t[i] = s[i]
    BY <2>2
  <2> QED
    BY <2>2, <2>3, Zenon
<1> QED
  BY <1>1, <1>2, <1>3 DEF Passed

(* The events stay well formed when one is added.                          *)
LEMMA DownKept ==
    ASSUME DownTypes, NEW e, Passed(down', down, e),
           down' = Append(down, e) => EventOK(e),
           asked \in Nat, asked' \in Nat, asked <= asked',
           Len(up) \in Nat, Len(up') \in Nat, Len(up) <= Len(up'), answered'.from \in 0..Len(up')
    PROVE  DownTypes'
<1>1. PICK S : down \in Seq(S)
  BY DEF DownTypes
<1>2. /\ \E R : down' \in Seq(R)
      /\ \A i \in 1..Len(down') : \/ \E m \in 1..Len(down) : down'[i] = down[m]
                                  \/ down' = Append(down, e) /\ down'[i] = e
  BY <1>1, PassedFacts
<1>3. ASSUME NEW d, EventOK(d) PROVE EventOK(d)'
  <2>1. 0..asked \subseteq 0..asked' /\ 0..Len(up) \subseteq 0..Len(up')
    OBVIOUS
  <2> QED
    BY <1>3, <2>1 DEF EventOK
<1>4. ASSUME NEW i \in 1..Len(down') PROVE EventOK(down[i])'
  <2>1. PICK d : d = down'[i]
    OBVIOUS
  <2>2. EventOK(d)
    BY <1>2, <2>1 DEF DownTypes
  <2>3. EventOK(d)'
    BY <1>3, <2>2
  <2> QED
    BY <2>1, <2>3 DEF EventOK
<1> QED
  BY <1>2, <1>4 DEF DownTypes

(* The events stay well formed when none is added.                         *)
LEMMA DownLess ==
    ASSUME DownTypes, Passed(down', down, [evt |-> "closed-channel"]),
           asked \in Nat, asked' \in Nat, asked <= asked',
           Len(up) \in Nat, Len(up') \in Nat, Len(up) <= Len(up'), answered'.from \in 0..Len(up')
    PROVE  DownTypes'
<1>1. EventOK([evt |-> "closed-channel"])
  BY DEF EventOK
<1> QED
  BY <1>1, DownKept

(* While a report is awaited, what is served or emitted leaves nothing     *)
(* behind the question but what the page accepts by itself.                *)
LEMMA WaitingOnlyAccepts ==
    ASSUME SessionTypes, OnlyAccepts, handler' => handler /\ asked' = asked, auto \subseteq auto',
           NEW r, \/ Shorter(Outgoing', Outgoing)
                  \/ Outgoing' = Append(Outgoing, r) /\ (handler' => \E l \in auto' : r = Subscribe(l))
    PROVE  OnlyAccepts'
<1> SUFFICES ASSUME handler',
                    NEW i \in 1..Len(Outgoing'), NEW j \in 1..Len(Outgoing'),
                    i < j, Outgoing'[i] = Ask(asked')
             PROVE  \E l \in auto' : Outgoing'[j] = Subscribe(l)
  BY DEF OnlyAccepts
<1>1. Outgoing \in Seq(Requests) /\ handler /\ asked' = asked
  BY SessionFacts
<1>2. PICK o \in Seq(Requests) : o = Outgoing
  BY <1>1
<1>3. PICK t : t = Outgoing' /\ \/ Shorter(t, o)
                                \/ t = Append(o, r) /\ \E l \in auto' : r = Subscribe(l)
  BY <1>2
<1>4. i \in 1..Len(t) /\ j \in 1..Len(t) /\ t[i] = Ask(asked)
  BY <1>1, <1>3
<1>5. \A m, n \in 1..Len(o) : m < n /\ o[m] = Ask(asked) => \E l \in auto' : o[n] = Subscribe(l)
  BY <1>1, <1>2 DEF OnlyAccepts
<1>6. CASE Shorter(t, o)
  <2>0. \A x, y \in 1..Len(t) : x < y =>
            \E m, n \in 1..Len(o) : m < n /\ t[x] = o[m] /\ t[y] = o[n]
    BY <1>6, ShorterFacts
  <2>1. PICK m, n \in 1..Len(o) : m < n /\ t[i] = o[m] /\ t[j] = o[n]
    BY <1>4, <2>0
  <2>2. o[m] = Ask(asked)
    BY <1>4, <2>1
  <2>3. \E l \in auto' : o[n] = Subscribe(l)
    BY <1>5, <2>1, <2>2
  <2> QED
    BY <1>3, <2>1, <2>3
<1>7. CASE t = Append(o, r) /\ \E l \in auto' : r = Subscribe(l)
  <2>1. /\ Len(o) \in Nat /\ Len(t) = Len(o) + 1 /\ t[Len(o) + 1] = r
        /\ \A m \in 1..Len(o) : t[m] = o[m]
    BY <1>7, Appended
  <2>2. i \in 1..Len(o) /\ t[i] = o[i]
    BY <1>4, <2>1
  <2>3. CASE j = Len(o) + 1
    BY <1>3, <1>7, <2>1, <2>3
  <2>4. CASE j \in 1..Len(o)
    BY <1>3, <1>4, <1>5, <2>1, <2>2, <2>4
  <2> QED
    BY <1>4, <2>1, <2>3, <2>4
<1> QED
  BY <1>3, <1>6, <1>7

(* A step that serves what is on its way to the server, or sends the page  *)
(* an event, or does neither, keeps the invariant.                         *)
LEMMA Later ==
    ASSUME CInv, SessionTypes', PageTypes',
           UNCHANGED <<cur, handler, asked, rows, answered, said, auto, buffer>>,
           Len(up') = Len(up), \A s \in 1..Len(up) : Shorter(up'[s], up[s]), Future' = Future,
           NEW e, down' = down \/ down' = Append(down, e),
           down' = Append(down, e) => EventOK(e) /\ (handler /\ cur # 0 => IsTrue(e)),
           \A k \in announced' :
               \/ k \in announced \/ cur = 0
               \/ down' = Append(down, e) /\ e.evt = "new-channel" /\ e.key = k
    PROVE  CInv'
<1> USE DEF CInv
<1>0. /\ Len(up) \in Nat /\ asked \in Nat /\ asked' = asked /\ Len(up') \in Nat
      /\ cur # 0 => cur \in 1..Len(up)
  <2>1. asked \in Nat
    BY DEF PageTypes
  <2> QED
    BY <2>1, SessionFacts
<1>1. PICK S : down \in Seq(S)
  BY DEF DownTypes
<1>2. Passed(down', down, e)
  BY DEF Passed, Shorter
<1>3. \A i \in 1..Len(down') : \/ \E m \in 1..Len(down) : down'[i] = down[m]
                               \/ down' = Append(down, e) /\ down'[i] = e
  BY <1>1, <1>2, PassedFacts
<1>4. DownTypes'
  <2>1. answered'.from \in 0..Len(up')
    BY DEF DownTypes
  <2> QED
    BY <1>0, <1>2, <2>1, DownKept
<1>5. Words'
  BY Zenon DEF Words
<1>6. WillAccept'
  <2> SUFFICES ASSUME cur # 0, NEW k \in announced', k \notin Future
               PROVE  \E i \in 1..Len(down') : down'[i].evt = "new-channel" /\ down'[i].key = k
    BY DEF WillAccept
  <2>1. CASE down' = Append(down, e)
    <3>1. /\ Len(down) \in Nat /\ Len(down') = Len(down) + 1 /\ down'[Len(down) + 1] = e
          /\ \A i \in 1..Len(down) : i \in 1..Len(down') /\ down'[i] = down[i]
      BY <1>1, <2>1, Appended
    <3>2. Len(down) + 1 \in 1..Len(down')
      BY <3>1
    <3>3. CASE k \in announced
      BY <3>1, <3>3 DEF WillAccept
    <3>4. CASE k \notin announced
      BY <3>1, <3>2, <3>4
    <3> QED
      BY <3>3, <3>4
  <2>2. CASE down' # Append(down, e)
    <3>1. down' = down /\ k \in announced
      BY <2>2
    <3> QED
      BY <3>1 DEF WillAccept
  <2> QED
    BY <2>1, <2>2
<1>7. Questions'
  <2>1. \A q \in Nat : Ask(0) = Ask(q) => q <= asked'
    BY <1>0, RequestFacts
  <2>2. Shorter(buffer', buffer) /\ asked <= asked'
    BY <1>0 DEF Shorter
  <2> QED
    BY <1>0, <2>1, <2>2, QuestionsKept
<1>8. OnlyAccepts'
  <2>1. Shorter(Outgoing', Outgoing)
    BY <1>0 DEF Outgoing, Shorter
  <2> QED
    BY <2>1, WaitingOnlyAccepts
<1>9. ReportsTrue'
  <2> SUFFICES ASSUME handler, cur # 0, NEW i \in 1..Len(down') PROVE IsTrue(down[i])'
    BY DEF ReportsTrue
  <2>1. PICK d : d = down'[i]
    OBVIOUS
  <2>2. \/ \E m \in 1..Len(down) : d = down[m]
        \/ down' = Append(down, e) /\ d = e
    BY <1>3, <2>1
  <2>3. IsTrue(d)
    BY <2>2 DEF ReportsTrue
  <2>4. IsTrue(d)'
    BY <2>3, Zenon DEF IsTrue
  <2> QED
    BY <2>1, <2>4, Zenon DEF IsTrue
<1>10. Waiting'
  BY Zenon DEF Waiting
<1>11. BoxesTrue'
  BY Zenon DEF BoxesTrue
<1> QED
  BY <1>4, <1>5, <1>6, <1>7, <1>8, <1>9, <1>10, <1>11

(* The steps that leave the connection, and what is on its way to the      *)
(* server, alone.                                                          *)
LEMMA NoTraffic ==
    ASSUME CInv, PageTypes', UNCHANGED <<open, rooms, up, cur, buffer>>,
           UNCHANGED <<handler, asked, rows, answered, said, auto>>,
           NEW e, down' = down \/ down' = Append(down, e),
           down' = Append(down, e) => EventOK(e) /\ (handler /\ cur # 0 => IsTrue(e)),
           \A k \in announced' :
               \/ k \in announced \/ cur = 0
               \/ down' = Append(down, e) /\ e.evt = "new-channel" /\ e.key = k
    PROVE  CInv'
<1>1. SessionTypes'
  BY DEF CInv, SessionTypes, Sessions
<1>2. Future' = Future
  BY Zenon DEF Future, Coming
<1>3. \A s \in 1..Len(up) : Shorter(up'[s], up[s])
  BY DEF Shorter
<1> QED
  BY <1>1, <1>2, <1>3, Later

(* The same for a step that does not even send an event.                   *)
LEMMA Quiet ==
    ASSUME CInv, PageTypes', UNCHANGED <<open, rooms, up, cur, buffer>>,
           UNCHANGED <<handler, asked, rows, answered, said, auto, announced, down>>
    PROVE  CInv'
<1> DEFINE e == [evt |-> "closed-channel"]
<1>1. e.evt = "closed-channel" /\ e.evt # "new-channel" /\ e.evt # "report-channels"
  OBVIOUS
<1>2. EventOK(e) /\ IsTrue(e)
  BY <1>1 DEF EventOK, IsTrue
<1> HIDE DEF e
<1> QED
  BY <1>2, NoTraffic

(* A channel is registered, and announced to every viewer.                 *)
LEMMA RegisterKeeps == ASSUME CInv, NEW k \in Keys, Register(k) PROVE CInv'
<1> DEFINE e == [evt |-> "new-channel", key |-> k]
<1>1. e.evt = "new-channel" /\ e.key = k
  OBVIOUS
<1>2. EventOK(e) /\ IsTrue(e)
  BY <1>1 DEF EventOK, IsTrue
<1>3. PageTypes'
  BY DEF Register, page, net, CInv, PageTypes
<1>4. /\ UNCHANGED <<open, rooms, up, cur, buffer>>
      /\ UNCHANGED <<handler, asked, rows, answered, said, auto>>
      /\ announced' = announced \cup {k}
  BY DEF Register, page, net
<1>5. (cur = 0 /\ down' = down) \/ down' = Append(down, e)
  BY DEF Register, Broadcast
<1> HIDE DEF e
<1> QED
  BY <1>1, <1>2, <1>3, <1>4, <1>5, NoTraffic

(* A channel is gone.                                                      *)
LEMMA UnregisterKeeps == ASSUME CInv, NEW k \in Keys, Unregister(k) PROVE CInv'
<1> DEFINE e == [evt |-> "closed-channel", key |-> k]
<1>1. e.evt = "closed-channel" /\ e.evt # "new-channel" /\ e.evt # "report-channels"
  OBVIOUS
<1>2. EventOK(e) /\ IsTrue(e)
  BY <1>1 DEF EventOK, IsTrue
<1>3. PageTypes'
  BY DEF Unregister, page, net, CInv, PageTypes
<1>4. /\ UNCHANGED <<open, rooms, up, cur, buffer>>
      /\ UNCHANGED <<handler, asked, rows, answered, said, auto, announced>>
  BY DEF Unregister, page, net
<1>5. down' = down \/ down' = Append(down, e)
  BY DEF Unregister, Broadcast
<1> HIDE DEF e
<1> QED
  BY <1>1, <1>2, <1>3, <1>4, <1>5, NoTraffic

(* The report that another viewer has asked for: it answers no question of *)
(* this one.                                                               *)
LEMMA AnswerAnotherKeeps == ASSUME CInv, AnswerAnother PROVE CInv'
<1>1. PICK joined \in SUBSET listed :
          Broadcast([evt |-> "report-channels", nr |-> 0, from |-> 0,
                     rows |-> [k \in listed |-> k \in joined]])
  BY DEF AnswerAnother
<1> DEFINE e == [evt |-> "report-channels", nr |-> 0, from |-> 0,
                 rows |-> [k \in listed |-> k \in joined]]
<1>2. /\ e.evt = "report-channels" /\ e.evt # "new-channel"
      /\ e.nr = 0 /\ e.from = 0 /\ DOMAIN e.rows = listed
  OBVIOUS
<1>3. down' = down \/ down' = Append(down, e)
  BY <1>1, Zenon DEF Broadcast
<1> HIDE DEF e
<1>4. Len(up) \in Nat /\ asked \in Nat /\ listed \subseteq Keys
  BY SessionFacts DEF CInv, PageTypes
<1>5. EventOK(e)
  BY <1>2, <1>4 DEF EventOK
<1>6. cur # 0 => IsTrue(e)
  BY <1>2 DEF IsTrue
<1>7. PageTypes'
  BY DEF AnswerAnother, page, net, CInv, PageTypes
<1>8. /\ UNCHANGED <<open, rooms, up, cur, buffer>>
      /\ UNCHANGED <<handler, asked, rows, answered, said, auto, announced>>
  BY DEF AnswerAnother, page, net
<1> QED
  BY <1>3, <1>5, <1>6, <1>7, <1>8, NoTraffic

(* The worker gives up.                                                    *)
LEMMA GiveUpKeeps == ASSUME CInv, GiveUp PROVE CInv'
<1>1. PageTypes'
  BY DEF GiveUp, page, counts, CInv, PageTypes
<1>2. /\ UNCHANGED <<open, rooms, up, cur, buffer>>
      /\ UNCHANGED <<handler, asked, rows, answered, said, auto, announced, down>>
  BY DEF GiveUp, page
<1> QED
  BY <1>1, <1>2, Quiet

(* The Play button.                                                        *)
LEMMA PlayKeeps == ASSUME CInv, Play PROVE CInv'
<1>1. PageTypes'
  BY DEF Play, page, CInv, PageTypes
<1>2. /\ UNCHANGED <<open, rooms, up, cur, buffer>>
      /\ UNCHANGED <<handler, asked, rows, answered, said, auto, announced, down>>
  BY DEF Play, page
<1> QED
  BY <1>1, <1>2, Quiet

(* Nothing happens.                                                        *)
LEMMA StutterKeeps == ASSUME CInv, UNCHANGED vars PROVE CInv'
<1>1. PageTypes'
  BY DEF vars, net, page, counts, CInv, PageTypes
<1>2. /\ UNCHANGED <<open, rooms, up, cur, buffer>>
      /\ UNCHANGED <<handler, asked, rows, answered, said, auto, announced, down>>
  BY DEF vars, net, page
<1> QED
  BY <1>1, <1>2, Quiet

(* The server serves a request.                                            *)
LEMMA ServeSessions ==
    ASSUME CInv, NEW s \in Sessions, Serve(s)
    PROVE  /\ SessionTypes' /\ Len(up') = Len(up) /\ Future' = Future
           /\ \A t \in 1..Len(up) : Shorter(up'[t], up[t])
<1>0. /\ SessionTypes /\ Len(up) \in Nat /\ Sessions = 1..Len(up) /\ cur \in 0..Len(up)
      /\ \A t \in 1..Len(up) : up[t] \in Seq(Requests) /\ rooms[t] \in SUBSET Keys
      /\ Len(rooms) = Len(up) /\ rooms \in Seq(SUBSET Keys) /\ up \in Seq(Seq(Requests))
      /\ s \in 1..Len(up)
  BY SessionFacts DEF CInv, SessionTypes
<1>1. /\ s \in open /\ up[s] # <<>> /\ UNCHANGED <<open, cur, buffer>>
      /\ up' = [up EXCEPT ![s] = Tail(up[s])]
      /\ rooms' = [rooms EXCEPT ![s] = After(rooms[s], Head(up[s]))]
  BY DEF Serve
<1>2. PICK x \in Seq(Requests) : x = Tail(up[s])
  <2>1. up[s] \in Seq(Requests) /\ up[s] # <<>>
    BY <1>0, <1>1
  <2>2. Tail(up[s]) \in Seq(Requests)
    BY <2>1
  <2> QED
    BY <2>2, Zenon
<1>3. PICK g \in SUBSET Keys : g = After(rooms[s], Head(up[s]))
  <2>1. Head(up[s]) \in Requests
    BY <1>0, <1>1
  <2>2. \A k : k \in After(rooms[s], Head(up[s])) =>
                   Head(up[s]) = Subscribe(k) \/ k \in rooms[s]
    BY <2>1, AfterOne
  <2>3. \A k : Head(up[s]) = Subscribe(k) => k \in Keys
    BY <2>1, RequestFacts DEF Requests
  <2> QED
    BY <1>0, <2>2, <2>3
<1>4. up' = [up EXCEPT ![s] = x] /\ rooms' = [rooms EXCEPT ![s] = g]
  BY <1>1, <1>2, <1>3, Zenon
<1>5. /\ up' \in Seq(Seq(Requests)) /\ Len(up') = Len(up) /\ up'[s] = x
      /\ \A t \in 1..Len(up) : t # s => up'[t] = up[t]
  BY <1>0, <1>4, OnePlace
<1>6. /\ rooms' \in Seq(SUBSET Keys) /\ Len(rooms') = Len(rooms) /\ rooms'[s] = g
      /\ \A t \in 1..Len(rooms) : t # s => rooms'[t] = rooms[t]
  BY <1>0, <1>4, OnePlace
<1>7. SessionTypes'
  <2>1. Sessions' = Sessions
    BY <1>5 DEF Sessions
  <2>2. \A t \in Sessions \ open : t # s /\ up'[t] = up[t] /\ rooms'[t] = rooms[t]
    BY <1>0, <1>1, <1>5, <1>6
  <2>3. \A t \in Sessions \ open : rooms'[t] = {} /\ up'[t] = <<>>
    BY <1>0, <2>2 DEF SessionTypes
  <2> QED
    BY <1>0, <1>1, <1>5, <1>6, <2>1, <2>3 DEF SessionTypes
<1>8. \A t \in 1..Len(up) : Shorter(up'[t], up[t])
  BY <1>1, <1>2, <1>5 DEF Shorter
<1>9. Future' = Future
  <2>1. CASE cur = 0
    BY <1>1, <2>1, Zenon DEF Future
  <2>2. CASE cur # 0 /\ cur # s
    <3>1. up'[cur] = up[cur] /\ rooms'[cur] = rooms[cur]
      BY <1>0, <1>5, <1>6, <2>2
    <3>2. Served(rooms'[cur'], up'[cur']) = Served(rooms[cur], up[cur])
      BY <1>1, <3>1
    <3> QED
      BY <1>1, <2>2, <3>2, Zenon DEF Future, Coming
  <2>3. CASE cur # 0 /\ cur = s
    <3>1. Served(rooms'[s], up'[s]) = Served(After(rooms[s], Head(up[s])), Tail(up[s]))
      BY <1>2, <1>3, <1>5, <1>6
    <3>2. Served(rooms'[s], up'[s]) = Served(rooms[s], up[s])
      BY <1>0, <1>1, <3>1, ServedTail
    <3> QED
      BY <1>1, <2>3, <3>2, Zenon DEF Future, Coming
  <2> QED
    BY <2>1, <2>2, <2>3
<1> QED
  BY <1>5, <1>7, <1>8, <1>9

(* The answer to the question the dialog waits for is true when it is sent:*)
(* what the page has emitted since is what it accepts by itself.           *)
LEMMA AnswerIsTrue ==
    ASSUME CInv, handler, cur # 0, up[cur] # <<>>, Head(up[cur]) = Ask(asked)
    PROVE  \A k \in Keys \ auto : k \in rooms[cur] <=> k \in Future
<1>1. PICK u \in Seq(Requests) : u = up[cur] /\ u = Outgoing
  <2>1. up[cur] \in Seq(Requests) /\ up[cur] = Outgoing
    BY SessionFacts DEF CInv, Outgoing
  <2> QED
    BY <2>1
<1>2. /\ u # <<>> /\ Head(u) = u[1] /\ Len(u) \in Nat \ {0}
      /\ Tail(u) \in Seq(Requests) /\ Len(Tail(u)) = Len(u) - 1
      /\ \A i \in 1..(Len(u) - 1) : Tail(u)[i] = u[i + 1]
  BY <1>1
<1>3. u[1] = Ask(asked)
  BY <1>1, <1>2
<1>4. \A j \in 1..Len(u) : 1 < j => \E l \in auto : u[j] = Subscribe(l)
  <2>1. 1 \in 1..Len(u)
    BY <1>2
  <2> QED
    BY <1>1, <1>3, <2>1 DEF CInv, OnlyAccepts
<1>5. \A i \in 1..Len(Tail(u)) : \E l \in auto : Tail(u)[i] = Subscribe(l)
  <2> TAKE i \in 1..Len(Tail(u))
  <2>1. i + 1 \in 1..Len(u) /\ 1 < i + 1 /\ Tail(u)[i] = u[i + 1]
    BY <1>2
  <2> QED
    BY <1>4, <2>1
<1>6. PICK j : j = rooms[cur]
  OBVIOUS
<1>7. \A k : k \notin auto => (k \in Served(j, Tail(u)) <=> k \in j)
  BY <1>2, <1>5, ServedSubscriptions
<1>8. Served(j, u) = Served(After(j, Head(u)), Tail(u)) /\ After(j, Head(u)) = j
  <2>1. Served(After(j, Head(u)), Tail(u)) = Served(j, u)
    BY <1>2, ServedTail, Zenon
  <2>2. After(j, Ask(asked)) = j
    BY AfterFacts, Zenon
  <2>3. Head(u) = Ask(asked)
    BY <1>1
  <2> QED
    BY <2>1, <2>2, <2>3, Zenon
<1>9. Future = Served(j, u)
  BY <1>1, <1>6, Zenon DEF Future, Coming
<1> QED
  BY <1>6, <1>7, <1>8, <1>9

(* The server serves a request, and answers a question.                    *)
LEMMA ServeKeeps == ASSUME CInv, NEW s \in Sessions, Serve(s) PROVE CInv'
<1> DEFINE q == Head(up[s]).nr
           e == [evt |-> "report-channels", nr |-> q, from |-> s, rows |-> Report(s)]
<1>0. /\ SessionTypes' /\ Len(up') = Len(up) /\ Future' = Future
      /\ \A t \in 1..Len(up) : Shorter(up'[t], up[t])
  BY ServeSessions
<1>1. PageTypes'
  BY DEF Serve, page, counts, CInv, PageTypes
<1>2. /\ UNCHANGED <<cur, handler, asked, rows, answered, said, auto, buffer>>
      /\ announced' = announced /\ up[s] # <<>>
  BY DEF Serve, page
<1>3. /\ e.evt = "report-channels" /\ e.evt # "new-channel" /\ e.nr = q /\ e.from = s
      /\ e.rows = Report(s) /\ DOMAIN e.rows = listed /\ \A k \in listed : e.rows[k] = (k \in rooms[s])
  BY Zenon DEF Report
<1>4. CASE ~IsAsk(Head(up[s]))
  <2> DEFINE d == [evt |-> "closed-channel"]
  <2>1. d.evt = "closed-channel" /\ d.evt # "new-channel" /\ d.evt # "report-channels"
    OBVIOUS
  <2>2. EventOK(d) /\ IsTrue(d)
    BY <2>1 DEF EventOK, IsTrue
  <2>3. down' = down
    BY <1>4 DEF Serve
  <2> HIDE DEF d
  <2> QED
    BY <1>0, <1>1, <1>2, <2>2, <2>3, Later
<1>5. CASE IsAsk(Head(up[s]))
  <2>1. down' = down \/ down' = Append(down, e)
    BY <1>5 DEF Serve, Answer, Broadcast
  <2>2. Head(up[s]) = Ask(q) /\ q \in 0..asked
    <3>1. /\ s \in 1..Len(up) /\ up[s] \in Seq(Requests) /\ asked \in Nat
      BY SessionFacts DEF CInv, PageTypes, Sessions
    <3>2. Head(up[s]) \in Requests /\ Head(up[s]) = up[s][1] /\ 1 \in 1..Len(up[s])
      BY <1>2, <3>1
    <3>3. PICK p \in Nat : Head(up[s]) = Ask(p)
      BY <1>5, <3>2, RequestFacts DEF Requests
    <3>4. p <= asked
      BY <3>2, <3>3 DEF CInv, Questions
    <3> QED
      BY <3>1, <3>3, <3>4, RequestFacts
  <2> HIDE DEF q, e
  <2>3. EventOK(e)
    <3>1. s \in 0..Len(up) /\ listed \subseteq Keys
      BY SessionFacts DEF CInv, PageTypes, Sessions
    <3> QED
      BY <1>3, <2>2, <3>1 DEF EventOK
  <2>4. handler /\ cur # 0 => IsTrue(e)
    <3> SUFFICES ASSUME handler, cur # 0, q = asked, s = cur, NEW k \in listed \ auto
                 PROVE  e.rows[k] <=> k \in Future
      BY <1>3, Zenon DEF IsTrue
    <3>1. k \in Keys \ auto
      BY DEF CInv, PageTypes
    <3>2. k \in rooms[cur] <=> k \in Future
      BY <1>2, <2>2, <3>1, AnswerIsTrue
    <3>3. e.rows[k] = (k \in rooms[s])
      BY <1>3
    <3> QED
      BY <3>2, <3>3, Zenon
  <2> QED
    BY <1>0, <1>1, <1>2, <2>1, <2>3, <2>4, Later
<1> QED
  BY <1>4, <1>5

(* The server notices that a session is gone.                              *)
LEMMA NoticeKeeps == ASSUME CInv, NEW s \in Sessions, Notice(s) PROVE CInv'
<1>0. /\ SessionTypes /\ Len(up) \in Nat /\ Sessions = 1..Len(up) /\ cur \in 0..Len(up)
      /\ Len(rooms) = Len(up) /\ rooms \in Seq(SUBSET Keys) /\ up \in Seq(Seq(Requests))
      /\ s \in 1..Len(up)
  BY SessionFacts DEF CInv, SessionTypes
<1>1. /\ s # cur /\ open' = open \ {s} /\ UNCHANGED <<cur, buffer>>
      /\ up' = [up EXCEPT ![s] = <<>>] /\ rooms' = [rooms EXCEPT ![s] = {}]
  BY DEF Notice
<1>2. /\ up' \in Seq(Seq(Requests)) /\ Len(up') = Len(up) /\ up'[s] = <<>>
      /\ \A t \in 1..Len(up) : t # s => up'[t] = up[t]
  BY <1>0, <1>1, OnePlace
<1>3. /\ rooms' \in Seq(SUBSET Keys) /\ Len(rooms') = Len(rooms) /\ rooms'[s] = {}
      /\ \A t \in 1..Len(rooms) : t # s => rooms'[t] = rooms[t]
  BY <1>0, <1>1, OnePlace
<1>4. SessionTypes'
  <2>1. Sessions' = Sessions
    BY <1>2 DEF Sessions
  <2>2. \A t \in Sessions \ open' : rooms'[t] = {} /\ up'[t] = <<>>
    <3> TAKE t \in Sessions \ open'
    <3>1. CASE t = s
      BY <1>2, <1>3, <3>1
    <3>2. CASE t # s
      <4>1. up'[t] = up[t] /\ rooms'[t] = rooms[t] /\ t \in Sessions \ open
        BY <1>0, <1>1, <1>2, <1>3, <3>2
      <4> QED
        BY <1>0, <4>1 DEF SessionTypes
    <3> QED
      BY <3>1, <3>2
  <2> QED
    BY <1>0, <1>1, <1>2, <1>3, <2>1, <2>2 DEF SessionTypes
<1>5. \A t \in 1..Len(up) : Shorter(up'[t], up[t])
  BY <1>2 DEF Shorter
<1>6. Future' = Future
  <2>1. CASE cur = 0
    BY <1>1, <2>1, Zenon DEF Future
  <2>2. CASE cur # 0
    <3>1. up'[cur] = up[cur] /\ rooms'[cur] = rooms[cur]
      BY <1>0, <1>1, <1>2, <1>3, <2>2
    <3>2. Served(rooms'[cur'], up'[cur']) = Served(rooms[cur], up[cur])
      BY <1>1, <3>1
    <3> QED
      BY <1>1, <2>2, <3>2, Zenon DEF Future, Coming
  <2> QED
    BY <2>1, <2>2
<1>7. PageTypes'
  BY DEF Notice, page, counts, CInv, PageTypes
<1>8. UNCHANGED <<handler, asked, rows, answered, said, auto, announced, down>>
  BY DEF Notice, page
<1> DEFINE d == [evt |-> "closed-channel"]
<1>9. d.evt = "closed-channel" /\ d.evt # "new-channel" /\ d.evt # "report-channels"
  OBVIOUS
<1>10. EventOK(d) /\ IsTrue(d)
  BY <1>9 DEF EventOK, IsTrue
<1> HIDE DEF d
<1> QED
  BY <1>1, <1>2, <1>4, <1>5, <1>6, <1>7, <1>8, <1>10, Later

(* The worker loses its session.                                           *)
LEMMA LoseKeeps ==
    ASSUME CInv, Lose, PageTypes', UNCHANGED page, announced' = announced
    PROVE  CInv'
<1>0. /\ SessionTypes /\ Len(up) \in Nat /\ cur # 0 /\ buffer = <<>> /\ asked \in Nat
  BY SessionFacts DEF CInv, Lose, PageTypes
<1>1. /\ cur' = 0 /\ UNCHANGED <<open, rooms, up, buffer>> /\ said' = Silent
      /\ UNCHANGED <<handler, rows, asked, answered, auto>>
  BY DEF Lose, page
<1>2. PICK n \in 0..Len(down) : down' = SubSeq(down, 1, n)
  BY DEF Lose
<1>3. SessionTypes'
  BY <1>0, <1>1 DEF SessionTypes, Sessions
<1>4. DownTypes'
  <2>1. Passed(down', down, [evt |-> "closed-channel"])
    BY <1>2, Zenon DEF Passed
  <2>2. answered'.from \in 0..Len(up')
    BY <1>1 DEF CInv, DownTypes
  <2> QED
    BY <1>0, <1>1, <2>1, <2>2, DownLess DEF CInv
<1>5. Words'
  BY <1>1 DEF Words, Silent
<1>6. Questions'
  <2>1. \A s \in 1..Len(up) : Shorter(up'[s], up[s])
    BY <1>1 DEF Shorter
  <2>2. Shorter(buffer', buffer) /\ asked <= asked'
    BY <1>0, <1>1 DEF Shorter
  <2>3. \A q \in Nat : Ask(0) = Ask(q) => q <= asked'
    BY <1>0, <1>1, RequestFacts
  <2> QED
    BY <1>0, <1>1, <2>1, <2>2, <2>3, QuestionsKept DEF CInv
<1>7. OnlyAccepts'
  <2>1. Outgoing' = <<>>
    BY <1>0, <1>1, Zenon DEF Outgoing
  <2> QED
    BY <2>1 DEF OnlyAccepts
<1>8. WillAccept' /\ ReportsTrue' /\ BoxesTrue'
  BY <1>1 DEF WillAccept, ReportsTrue, BoxesTrue
<1>9. Waiting'
  BY <1>1, Zenon DEF CInv, Waiting
<1> QED
  BY <1>3, <1>4, <1>5, <1>6, <1>7, <1>8, <1>9 DEF CInv

(* The link breaks.                                                        *)
LEMMA DropKeeps == ASSUME CInv, Drop PROVE CInv'
<1>1. PageTypes'
  BY DEF Drop, Lose, page, counts, CInv, PageTypes, Silent
<1> QED
  BY <1>1, LoseKeeps DEF Drop

(* The Stop button.                                                        *)
LEMMA StopKeeps == ASSUME CInv, Stop PROVE CInv'
<1>1. CASE Lose
  <2>1. PageTypes'
    <3>1. asked' \in 0..did' /\ did' \in Nat
      BY DEF Stop, page, CInv, PageTypes
    <3>2. on' = FALSE /\ cur' = 0
      BY <1>1 DEF Stop, Lose
    <3>3. said' \in [Keys -> {"nothing", "subscribe", "unsubscribe"}]
      BY <1>1 DEF Lose, Silent
    <3>4. UNCHANGED <<listed, handler, rows, auto, announced>>
      BY DEF Stop, page
    <3> QED
      BY <3>1, <3>2, <3>3, <3>4 DEF CInv, PageTypes
  <2> QED
    BY <1>1, <2>1, LoseKeeps DEF Stop
<1>2. CASE /\ cur = 0 /\ on /\ on' \in BOOLEAN
           /\ UNCHANGED <<open, rooms, up, cur, buffer, down, said>>
  <2>1. PageTypes'
    BY <1>2 DEF Stop, page, CInv, PageTypes
  <2>2. UNCHANGED <<handler, asked, rows, answered, auto, announced>>
    BY DEF Stop, page
  <2> QED
    BY <1>2, <2>1, <2>2, Quiet
<1> QED
  BY <1>1, <1>2 DEF Stop

(* A new session: what was emitted while there was none is given to it.    *)
LEMMA ConnectKeeps == ASSUME CInv, Connect PROVE CInv'
<1>0. /\ SessionTypes /\ Len(up) \in Nat /\ cur = 0 /\ on /\ asked \in Nat
      /\ Len(rooms) = Len(up) /\ up \in Seq(Seq(Requests)) /\ rooms \in Seq(SUBSET Keys)
      /\ buffer \in Seq(Requests) /\ Sessions = 1..Len(up) /\ open \subseteq Sessions
  BY SessionFacts, SMTT(30) DEF CInv, Connect, PageTypes, SessionTypes
<1>1. /\ cur' = Len(up) + 1 /\ open' = open \cup {Len(up) + 1} /\ announced' = {}
      /\ rooms' = Append(rooms, {}) /\ up' = Append(up, buffer) /\ buffer' = <<>>
      /\ UNCHANGED <<handler, rows, asked, answered, auto, said, down>>
  BY DEF Connect, page, Flush
<1>2. /\ up' \in Seq(Seq(Requests)) /\ Len(up') = Len(up) + 1 /\ up'[Len(up) + 1] = buffer
      /\ \A s \in 1..Len(up) : up'[s] = up[s]
  BY <1>0, <1>1
<1>3. /\ rooms' \in Seq(SUBSET Keys) /\ Len(rooms') = Len(up) + 1 /\ rooms'[Len(up) + 1] = {}
      /\ \A s \in 1..Len(up) : rooms'[s] = rooms[s]
  BY <1>0, <1>1
<1>4. SessionTypes'
  <2>1. Sessions' = 1..(Len(up) + 1)
    BY <1>2 DEF Sessions
  <2>2. open' \in SUBSET Sessions' /\ cur' \in open'
    <3>1. \A s \in 1..Len(up) : s \in 1..(Len(up) + 1)
      BY <1>0
    <3>2. Len(up) + 1 \in 1..(Len(up) + 1)
      BY <1>0
    <3>3. \A s \in open' : s \in Sessions'
      BY <1>0, <1>1, <2>1, <3>1, <3>2
    <3>4. cur' \in open'
      BY <1>1
    <3> QED
      BY <3>3, <3>4, Zenon
  <2>3. \A s \in Sessions' \ open' : rooms'[s] = {} /\ up'[s] = <<>>
    <3> TAKE s \in Sessions' \ open'
    <3>1. s \in Sessions \ open
      BY <1>0, <1>1, <2>1
    <3> QED
      BY <1>0, <1>2, <1>3, <3>1 DEF SessionTypes
  <2>4. buffer' \in Seq(Requests)
    BY <1>1
  <2> QED
    BY <1>1, <1>2, <1>3, <2>2, <2>3, <2>4 DEF SessionTypes
<1>5. PageTypes'
  BY DEF Connect, page, counts, CInv, PageTypes
<1>6. Future' = Future
  <2>1. cur' # 0
    BY <1>0, <1>1
  <2>2. Served(rooms'[cur'], up'[cur']) = Served({}, buffer)
    BY <1>1, <1>2, <1>3
  <2> QED
    BY <1>0, <2>1, <2>2, Zenon DEF Future, Coming
<1>7. Outgoing' = Outgoing
  <2>1. cur' # 0 /\ up'[cur'] = buffer
    BY <1>0, <1>1, <1>2
  <2> QED
    BY <1>0, <2>1, Zenon DEF Outgoing
<1>8. DownTypes'
  <2>1. Passed(down', down, [evt |-> "closed-channel"])
    BY <1>1, Zenon DEF Passed, Shorter
  <2>2. answered'.from \in 0..Len(up') /\ Len(up') \in Nat /\ Len(up) <= Len(up')
    BY <1>0, <1>1, <1>2 DEF CInv, DownTypes
  <2>3. asked' \in Nat /\ asked <= asked'
    BY <1>0, <1>1
  <2> QED
    BY <1>0, <2>1, <2>2, <2>3, DownLess DEF CInv
<1>9. Words'
  BY <1>1, <1>6, Zenon DEF CInv, Words
<1>10. WillAccept'
  BY <1>1 DEF WillAccept
<1>11. Questions'
  <2>1. \A i \in 1..Len(buffer), q \in Nat : buffer[i] = Ask(q) => q <= asked
    BY DEF CInv, Questions
  <2>2. \A s \in 1..Len(up) : \A i \in 1..Len(up[s]), q \in Nat : up[s][i] = Ask(q) => q <= asked
    BY <1>0 DEF CInv, Questions
  <2>3. \A s \in Sessions' : up'[s] = buffer \/ (s \in 1..Len(up) /\ up'[s] = up[s])
    <3>1. \A s \in Sessions' : s = Len(up) + 1 \/ s \in 1..Len(up)
      BY <1>0, <1>2 DEF Sessions
    <3> QED
      BY <1>2, <3>1
  <2>4. \A s \in Sessions' : \A i \in 1..Len(up'[s]), q \in Nat : up'[s][i] = Ask(q) => q <= asked
    BY <2>1, <2>2, <2>3, Zenon
  <2>5. 1..Len(buffer') = {}
    BY <1>1
  <2> QED
    BY <1>1, <2>4, <2>5 DEF Questions
<1>12. OnlyAccepts'
  BY <1>1, <1>7, Zenon DEF CInv, OnlyAccepts
<1>13. ReportsTrue' /\ BoxesTrue'
  <2>1. \A i \in 1..Len(down) : down[i].evt = "report-channels" => down[i].from # cur'
    BY <1>0, <1>1 DEF CInv, DownTypes, EventOK
  <2>2. \A nr : answered # [nr |-> nr, from |-> cur']
    <3>1. answered.from # cur'
      BY <1>0, <1>1 DEF CInv, DownTypes
    <3>2. \A nr, c : [nr |-> nr, from |-> c].from = c
      OBVIOUS
    <3> QED
      BY <3>1, <3>2, Zenon
  <2>3. ReportsTrue'
    BY <1>1, <2>1, Zenon DEF ReportsTrue, IsTrue
  <2>4. BoxesTrue'
    BY <1>1, <2>2, Zenon DEF BoxesTrue
  <2> QED
    BY <2>3, <2>4
<1>14. Waiting'
  BY <1>1, Zenon DEF CInv, Waiting
<1> QED
  BY <1>4, <1>5, <1>8, <1>9, <1>10, <1>11, <1>12, <1>13, <1>14 DEF CInv

(* What is said when a request is emitted.                                 *)
LEMMA EmitWords ==
    ASSUME Words, NEW r \in Requests, Future' = After(Future, r),
           said \in [Keys -> {"nothing", "subscribe", "unsubscribe"}],
           said' = [k \in Keys |-> IF r = Subscribe(k) THEN "subscribe"
                                   ELSE IF r = Unsubscribe(k) THEN "unsubscribe" ELSE said[k]]
    PROVE  Words' /\ said' \in [Keys -> {"nothing", "subscribe", "unsubscribe"}]
<1>1. ASSUME NEW k \in Keys
      PROVE  /\ said'[k] = "subscribe"   => k \in Future'
             /\ said'[k] = "unsubscribe" => k \notin Future'
  <2>1. k \in Future' <=> r = Subscribe(k) \/ (k \in Future /\ r # Unsubscribe(k))
    BY AfterOne
  <2>2. /\ said[k] = "subscribe"   => k \in Future
        /\ said[k] = "unsubscribe" => k \notin Future
    BY DEF Words
  <2>3. CASE r = Subscribe(k)
    <3>1. said'[k] = "subscribe" /\ "subscribe" # "unsubscribe"
      BY <2>3
    <3> QED
      BY <2>1, <2>3, <3>1
  <2>4. CASE r # Subscribe(k) /\ r = Unsubscribe(k)
    <3>1. said'[k] = "unsubscribe" /\ "subscribe" # "unsubscribe"
      BY <2>4
    <3> QED
      BY <2>1, <2>4, <3>1
  <2>5. CASE r # Subscribe(k) /\ r # Unsubscribe(k)
    <3>1. said'[k] = said[k]
      BY <2>5
    <3> QED
      BY <2>1, <2>2, <2>5, <3>1
  <2> QED
    BY <2>3, <2>4, <2>5
<1>2. said' \in [Keys -> {"nothing", "subscribe", "unsubscribe"}]
  OBVIOUS
<1> QED
  BY <1>1, <1>2 DEF Words

(* What is emitted is all that is added to what is on its way.             *)
LEMMA EmitGrows ==
    ASSUME SessionTypes, NEW r \in Requests, Emit(<<r>>)
    PROVE  /\ \A s \in 1..Len(up) : Shorter(up'[s], up[s]) \/ up'[s] = Append(up[s], r)
           /\ Shorter(buffer', buffer) \/ buffer' = Append(buffer, r)
<1>1. /\ \A s \in Sessions : s # cur => up'[s] = up[s]
      /\ cur = 0 => up' = up /\ buffer' = Append(buffer, r)
      /\ cur # 0 => up'[cur] = Append(up[cur], r) /\ buffer' = buffer
  BY EmitFacts
<1>2. Sessions = 1..Len(up)
  BY SessionFacts
<1> QED
  BY <1>1, <1>2 DEF Shorter

(* The dialog is opened.                                                   *)
LEMMA OpenDialogKeeps == ASSUME CInv, OpenDialog PROVE CInv'
<1>0. /\ SessionTypes /\ Len(up) \in Nat /\ asked \in Nat /\ Sessions = 1..Len(up)
      /\ asked' = asked + 1 /\ asked' \in Nat /\ asked <= asked'
  <2>1. SessionTypes /\ asked \in Nat /\ asked' = asked + 1
    BY DEF CInv, PageTypes, OpenDialog
  <2> QED
    BY <2>1, SessionFacts
<1> DEFINE r == Ask(asked')
<1>1. /\ r \in Requests /\ Emit(<<r>>) /\ handler' = TRUE
      /\ DOMAIN rows' = {} /\ answered'.from = 0 /\ auto' = {}
      /\ UNCHANGED <<listed, down, announced>>
  BY <1>0 DEF OpenDialog, Requests, Nothing
<1>2. \A q : r = Ask(q) => q = asked'
  BY RequestFacts, Zenon
<1>3. \A k : r # Subscribe(k) /\ r # Unsubscribe(k)
  BY RequestFacts, Zenon
<1>4. After(Future, r) = Future
  BY AfterFacts, Zenon
<1> HIDE DEF r
<1>5. /\ SessionTypes' /\ Len(up') = Len(up)
      /\ UNCHANGED <<open, rooms, cur, on>>
      /\ Outgoing' = Append(Outgoing, r) /\ Future' = After(Future, r)
      /\ said' = [k \in Keys |-> IF r = Subscribe(k) THEN "subscribe"
                                 ELSE IF r = Unsubscribe(k) THEN "unsubscribe" ELSE said[k]]
  BY <1>0, <1>1, EmitFacts
<1>6. Words' /\ said' \in [Keys -> {"nothing", "subscribe", "unsubscribe"}]
  BY <1>1, <1>5, EmitWords DEF CInv, PageTypes
<1>7. PageTypes'
  <2>1. asked' \in 0..did' /\ did' \in Nat
    BY DEF OpenDialog, CInv, PageTypes
  <2> QED
    BY <1>1, <1>5, <1>6, <2>1 DEF CInv, PageTypes
<1>8. DownTypes'
  <2>1. Passed(down', down, [evt |-> "closed-channel"])
    BY <1>1, Zenon DEF Passed, Shorter
  <2>2. answered'.from \in 0..Len(up') /\ Len(up') \in Nat /\ Len(up) <= Len(up')
    BY <1>0, <1>1, <1>5
  <2> QED
    BY <1>0, <2>1, <2>2, DownLess DEF CInv
<1>9. WillAccept'
  BY <1>1, <1>4, <1>5, Zenon DEF CInv, WillAccept
<1>10. Questions'
  <2>1. \A q \in Nat : r = Ask(q) => q <= asked'
    BY <1>0, <1>2
  <2>2. /\ \A s \in 1..Len(up) : Shorter(up'[s], up[s]) \/ up'[s] = Append(up[s], r)
        /\ Shorter(buffer', buffer) \/ buffer' = Append(buffer, r)
    BY <1>0, <1>1, EmitGrows
  <2> QED
    BY <1>0, <1>5, <2>1, <2>2, QuestionsKept DEF CInv
<1>11. OnlyAccepts'
  <2> SUFFICES ASSUME NEW i \in 1..Len(Outgoing'), NEW j \in 1..Len(Outgoing'),
                      i < j, Outgoing'[i] = Ask(asked')
               PROVE  FALSE
    BY DEF OnlyAccepts
  <2>1. PICK o \in Seq(Requests) : o = Outgoing
    BY <1>0, SessionFacts
  <2>2. PICK t : t = Outgoing' /\ t = Append(o, r)
    BY <1>5, <2>1
  <2>3. /\ Len(o) \in Nat /\ Len(t) = Len(o) + 1 /\ \A m \in 1..Len(o) : t[m] = o[m]
    BY <2>1, <2>2, Appended
  <2>4. i \in 1..Len(o)
    BY <2>2, <2>3
  <2>5. o[i] = Ask(asked')
    BY <2>2, <2>3, <2>4
  <2>6. \A m \in 1..Len(o), q \in Nat : o[m] = Ask(q) => q <= asked
    <3>1. CASE cur = 0
      <4>1. o = buffer
        BY <2>1, <3>1, Zenon DEF Outgoing
      <4> QED
        BY <4>1 DEF CInv, Questions
    <3>2. CASE cur # 0
      <4>1. o = up[cur] /\ cur \in Sessions
        <5>1. o = up[cur]
          BY <2>1, <3>2, Zenon DEF Outgoing
        <5> QED
          BY <1>0, <3>2, <5>1, SessionFacts
      <4> QED
        BY <4>1 DEF CInv, Questions
    <3> QED
      BY <3>1, <3>2
  <2> QED
    BY <1>0, <2>4, <2>5, <2>6
<1>12. ReportsTrue'
  <2>1. \A i \in 1..Len(down) : down[i].evt = "report-channels" => down[i].nr # asked'
    BY <1>0 DEF CInv, DownTypes, EventOK
  <2> QED
    BY <1>1, <2>1, Zenon DEF ReportsTrue, IsTrue
<1>13. Waiting' /\ BoxesTrue'
  <2>1. \A k : k \notin DOMAIN rows'
    BY <1>1
  <2>2. Waiting'
    BY <1>1, Zenon DEF Waiting
  <2>3. BoxesTrue'
    BY <2>1, Zenon DEF BoxesTrue
  <2> QED
    BY <2>2, <2>3
<1> QED
  BY <1>5, <1>6, <1>7, <1>8, <1>9, <1>10, <1>11, <1>12, <1>13 DEF CInv

(* A box of the dialog is clicked.                                         *)
LEMMA ClickKeeps == ASSUME CInv, NEW k \in Keys, Click(k) PROVE CInv'
<1>0. /\ SessionTypes /\ Len(up) \in Nat /\ asked \in Nat /\ Sessions = 1..Len(up)
      /\ asked' = asked /\ asked' \in Nat /\ asked <= asked'
  <2>1. SessionTypes /\ asked \in Nat /\ asked' = asked
    BY DEF CInv, PageTypes, Click
  <2> QED
    BY <2>1, SessionFacts
<1>1. PICK r : /\ r \in Requests /\ Emit(<<r>>) /\ r = IF rows[k] THEN Unsubscribe(k) ELSE Subscribe(k)
               /\ \A q : r # Ask(q)
               /\ \A l : l # k => r # Subscribe(l) /\ r # Unsubscribe(l)
  <2>1. \E r : r = (IF rows[k] THEN Unsubscribe(k) ELSE Subscribe(k)) /\ Emit(<<r>>)
    BY Zenon DEF Click
  <2>2. PICK r : r = (IF rows[k] THEN Unsubscribe(k) ELSE Subscribe(k)) /\ Emit(<<r>>)
    BY <2>1
  <2>3. r = Unsubscribe(k) \/ r = Subscribe(k)
    BY <2>2, Zenon
  <2>4. r \in Requests
    BY <2>3, Zenon DEF Requests
  <2>5. /\ \A q : r # Ask(q)
        /\ \A l : l # k => r # Subscribe(l) /\ r # Unsubscribe(l)
    BY <2>3, RequestFacts
  <2> QED
    BY <2>2, <2>4, <2>5, Zenon
<1>2. /\ k \in DOMAIN rows /\ rows' = [rows EXCEPT ![k] = ~rows[k]]
      /\ announced' = announced \ {k} /\ auto' = auto \ {k}
      /\ UNCHANGED <<listed, down, handler, answered>>
  BY DEF Click
<1>3. ~handler /\ ~handler'
  BY <1>2 DEF CInv, Waiting
<1>5. /\ SessionTypes' /\ Len(up') = Len(up)
      /\ UNCHANGED <<open, rooms, cur, on>>
      /\ Future' = After(Future, r)
      /\ said' = [l \in Keys |-> IF r = Subscribe(l) THEN "subscribe"
                                 ELSE IF r = Unsubscribe(l) THEN "unsubscribe" ELSE said[l]]
  BY <1>0, <1>1, EmitFacts
<1>6. Words' /\ said' \in [Keys -> {"nothing", "subscribe", "unsubscribe"}]
  BY <1>1, <1>5, EmitWords DEF CInv, PageTypes
<1>7. PageTypes'
  <2>1. asked' \in 0..did' /\ did' \in Nat
    BY <1>0 DEF Click, CInv, PageTypes
  <2>2. DOMAIN rows' \subseteq Keys
    BY <1>2 DEF CInv, PageTypes
  <2>3. handler' \in BOOLEAN
    BY <1>2, Zenon DEF CInv, PageTypes
  <2> QED
    BY <1>2, <1>5, <1>6, <2>1, <2>2, <2>3 DEF CInv, PageTypes
<1>8. DownTypes'
  <2>1. Passed(down', down, [evt |-> "closed-channel"])
    BY <1>2, Zenon DEF Passed, Shorter
  <2>2. answered'.from \in 0..Len(up') /\ Len(up') \in Nat /\ Len(up) <= Len(up')
    BY <1>0, <1>2, <1>5 DEF CInv, DownTypes
  <2> QED
    BY <1>0, <2>1, <2>2, DownLess DEF CInv
<1>9. \A l : l # k => (l \in Future' <=> l \in Future)
  <2>1. \A l : l \in After(Future, r) <=> r = Subscribe(l) \/ (l \in Future /\ r # Unsubscribe(l))
    BY <1>1, AfterOne
  <2> QED
    BY <1>1, <1>5, <2>1, Zenon
<1>10. WillAccept'
  <2> SUFFICES ASSUME cur # 0, NEW l \in announced, l # k
               PROVE  l \in Future' \/ \E i \in 1..Len(down) : down[i].evt = "new-channel" /\ down[i].key = l
    BY <1>2, <1>5 DEF WillAccept
  <2> QED
    BY <1>9 DEF CInv, WillAccept
<1>11. Questions'
  <2>1. /\ \A s \in 1..Len(up) : Shorter(up'[s], up[s]) \/ up'[s] = Append(up[s], r)
        /\ Shorter(buffer', buffer) \/ buffer' = Append(buffer, r)
    BY <1>0, <1>1, EmitGrows
  <2> QED
    BY <1>0, <1>1, <1>5, <2>1, QuestionsKept DEF CInv
<1>12. OnlyAccepts' /\ ReportsTrue' /\ Waiting'
  BY <1>3 DEF OnlyAccepts, ReportsTrue, Waiting
<1>13. BoxesTrue'
  <2> SUFFICES ASSUME cur # 0, answered = [nr |-> asked, from |-> cur],
                      NEW l \in DOMAIN rows' \ auto'
               PROVE  rows'[l] <=> l \in Future'
    BY <1>0, <1>2, <1>5, Zenon DEF BoxesTrue
  <2>1. CASE l = k
    <3>1. rows'[k] <=> ~rows[k]
      BY <1>2
    <3>2. k \in Future' <=> r = Subscribe(k)
      <4>1. k \in After(Future, r) <=> r = Subscribe(k) \/ (k \in Future /\ r # Unsubscribe(k))
        BY <1>1, AfterOne
      <4>2. r = Subscribe(k) \/ r = Unsubscribe(k)
        BY <1>1, Zenon
      <4> QED
        BY <1>5, <4>1, <4>2, Zenon
    <3>3. r = Subscribe(k) <=> ~rows[k]
      <4>1. Subscribe(k) # Unsubscribe(k)
        BY RequestFacts
      <4> QED
        BY <1>1, <4>1, Zenon
    <3> QED
      BY <2>1, <3>1, <3>2, <3>3, Zenon
  <2>2. CASE l # k
    <3>1. l \in DOMAIN rows \ auto /\ rows'[l] = rows[l]
      BY <1>2, <2>2
    <3>2. rows[l] <=> l \in Future
      BY <3>1, Zenon DEF CInv, BoxesTrue
    <3> QED
      BY <1>9, <2>2, <3>1, <3>2, Zenon
  <2> QED
    BY <2>1, <2>2
<1> QED
  BY <1>5, <1>6, <1>7, <1>8, <1>10, <1>11, <1>12, <1>13 DEF CInv

(* What was on its way to the page is the event at the head, and the rest. *)
LEMMA HeadOrRest ==
    ASSUME NEW S, NEW s \in Seq(S), s # <<>>
    PROVE  /\ Head(s) = s[1] /\ 1 \in 1..Len(s)
           /\ \A i \in 1..Len(s) : s[i] = Head(s) \/ \E m \in 1..Len(Tail(s)) : Tail(s)[m] = s[i]
           /\ \A m \in 1..Len(Tail(s)) : \E i \in 1..Len(s) : Tail(s)[m] = s[i]
<1>1. /\ Len(s) \in Nat \ {0} /\ Head(s) = s[1] /\ Len(Tail(s)) = Len(s) - 1
      /\ \A m \in 1..(Len(s) - 1) : Tail(s)[m] = s[m + 1] /\ m + 1 \in 1..Len(s)
  OBVIOUS
<1>2. ASSUME NEW i \in 1..Len(s), i # 1 PROVE \E m \in 1..Len(Tail(s)) : Tail(s)[m] = s[i]
  <2>1. i - 1 \in 1..Len(Tail(s)) /\ i = (i - 1) + 1
    BY <1>1, <1>2
  <2> QED
    BY <1>1, <2>1
<1> QED
  BY <1>1, <1>2

(* The page handles an event.                                              *)
LEMMA MessageFacts ==
    ASSUME CInv, OnWorkerMessage
    PROVE  /\ down # <<>> /\ down' = Tail(down) /\ \E S : down \in Seq(S)
           /\ EventOK(Head(down)) /\ \E i \in 1..Len(down) : down[i] = Head(down)
           /\ \A i \in 1..Len(down) : down[i] = Head(down) \/ \E m \in 1..Len(down') : down'[m] = down[i]
           /\ \A m \in 1..Len(down') : \E i \in 1..Len(down) : down'[m] = down[i]
           /\ UNCHANGED <<listed, asked, announced, did>>
<1>1. PICK S : down \in Seq(S)
  BY DEF CInv, DownTypes
<1>2. down # <<>> /\ down' = Tail(down) /\ UNCHANGED <<listed, asked, announced, did>>
  BY DEF OnWorkerMessage, counts
<1>3. /\ Head(down) = down[1] /\ 1 \in 1..Len(down)
      /\ \A i \in 1..Len(down) : down[i] = Head(down) \/ \E m \in 1..Len(down') : down'[m] = down[i]
      /\ \A m \in 1..Len(down') : \E i \in 1..Len(down) : down'[m] = down[i]
  BY <1>1, <1>2, HeadOrRest
<1>4. EventOK(Head(down))
  BY <1>3 DEF CInv, DownTypes
<1> QED
  BY <1>1, <1>2, <1>3, <1>4

(* A new channel: the page accepts it.                                     *)
LEMMA AcceptKeeps ==
    ASSUME CInv, OnWorkerMessage, Head(down).evt = "new-channel"
    PROVE  CInv'
<1>1. PICK e : e = Head(down)
  OBVIOUS
<1> DEFINE r == Subscribe(e.key)
<1>2. /\ e.key \in Keys /\ r \in Requests /\ (\A q : r # Ask(q))
      /\ \A l : /\ r = Subscribe(l) <=> l = e.key
                /\ r # Unsubscribe(l)
  <2>1. e.key \in Keys
    BY <1>1, MessageFacts DEF EventOK
  <2> QED
    BY <2>1, RequestFacts DEF Requests
<1>3. /\ Emit(<<r>>) /\ auto' = auto \cup {e.key}
      /\ UNCHANGED <<rows, answered, handler>>
  <2>1. "new-channel" # "report-channels" /\ e.evt = "new-channel"
    BY <1>1
  <2>2. Emit(<<r>>)
    BY <1>1, <2>1, Zenon DEF OnWorkerMessage, Reply
  <2>3. UNCHANGED <<rows, answered, handler>>
    BY <1>1, <2>1 DEF OnWorkerMessage
  <2>4. auto' = auto \cup {e.key}
    BY <1>1, <2>1, Zenon DEF OnWorkerMessage
  <2> QED
    BY <2>2, <2>3, <2>4
<1>4. /\ SessionTypes /\ Len(up) \in Nat /\ asked \in Nat /\ asked' = asked
      /\ asked' \in Nat /\ asked <= asked' /\ UNCHANGED <<listed, announced, did>>
  <2>1. SessionTypes /\ asked \in Nat
    BY DEF CInv, PageTypes
  <2> QED
    BY <2>1, SessionFacts, MessageFacts
<1> HIDE DEF r
<1>5. /\ SessionTypes' /\ Len(up') = Len(up)
      /\ UNCHANGED <<open, rooms, cur, on>>
      /\ Outgoing' = Append(Outgoing, r) /\ Future' = After(Future, r)
      /\ said' = [k \in Keys |-> IF r = Subscribe(k) THEN "subscribe"
                                 ELSE IF r = Unsubscribe(k) THEN "unsubscribe" ELSE said[k]]
  BY <1>2, <1>3, <1>4, EmitFacts
<1>6. Words' /\ said' \in [Keys -> {"nothing", "subscribe", "unsubscribe"}]
  BY <1>2, <1>5, EmitWords DEF CInv, PageTypes
<1>7. \A l : l \in Future' <=> l = e.key \/ l \in Future
  <2>1. \A l : l \in After(Future, r) <=> r = Subscribe(l) \/ (l \in Future /\ r # Unsubscribe(l))
    BY <1>2, AfterOne
  <2> QED
    BY <1>2, <1>5, <2>1, Zenon
<1>8. PageTypes'
  <2>1. asked' \in 0..did' /\ did' \in Nat
    BY <1>4 DEF CInv, PageTypes
  <2>2. auto' \subseteq Keys
    BY <1>2, <1>3 DEF CInv, PageTypes
  <2>3. handler' \in BOOLEAN
    BY <1>3, Zenon DEF CInv, PageTypes
  <2> QED
    BY <1>3, <1>4, <1>5, <1>6, <2>1, <2>2, <2>3 DEF CInv, PageTypes
<1>9. DownTypes'
  <2>1. Passed(down', down, [evt |-> "closed-channel"])
    BY MessageFacts, Zenon DEF Passed, Shorter
  <2>2. answered'.from \in 0..Len(up') /\ Len(up') \in Nat /\ Len(up) <= Len(up')
    BY <1>3, <1>4, <1>5 DEF CInv, DownTypes
  <2> QED
    BY <1>4, <2>1, <2>2, DownLess DEF CInv
<1>10. WillAccept'
  <2> SUFFICES ASSUME cur # 0, NEW k \in announced, k \notin Future, k # e.key
               PROVE  \E i \in 1..Len(down') : down'[i].evt = "new-channel" /\ down'[i].key = k
    BY <1>4, <1>5, <1>7 DEF WillAccept
  <2>1. PICK i \in 1..Len(down) : down[i].evt = "new-channel" /\ down[i].key = k
    BY DEF CInv, WillAccept
  <2>2. down[i] # Head(down)
    BY <1>1, <2>1
  <2>3. \E m \in 1..Len(down') : down'[m] = down[i]
    BY <2>2, MessageFacts
  <2> QED
    BY <2>1, <2>3
<1>11. Questions'
  <2>1. /\ \A s \in 1..Len(up) : Shorter(up'[s], up[s]) \/ up'[s] = Append(up[s], r)
        /\ Shorter(buffer', buffer) \/ buffer' = Append(buffer, r)
    BY <1>2, <1>3, <1>4, EmitGrows
  <2> QED
    BY <1>2, <1>4, <1>5, <2>1, QuestionsKept DEF CInv
<1>12. OnlyAccepts'
  <2>1. e.key \in auto' /\ r = Subscribe(e.key)
    BY <1>2, <1>3
  <2>2. /\ auto \subseteq auto'
        /\ handler' => handler /\ asked' = asked
    BY <1>3, <1>4
  <2>3. OnlyAccepts
    BY DEF CInv
  <2> QED
    BY <1>4, <1>5, <2>1, <2>2, <2>3, WaitingOnlyAccepts
<1>13. \A l : l \notin auto' => l \notin auto /\ (l \in Future' <=> l \in Future)
  BY <1>3, <1>7
<1>14. ReportsTrue'
  <2> SUFFICES ASSUME handler, cur # 0, NEW i \in 1..Len(down') PROVE IsTrue(down[i])'
    BY <1>3, <1>5 DEF ReportsTrue
  <2>1. PICK d : d = down'[i]
    OBVIOUS
  <2>2. \E m \in 1..Len(down) : d = down[m]
    BY <2>1, MessageFacts
  <2>3. IsTrue(d)
    BY <2>2 DEF CInv, ReportsTrue
  <2>4. IsTrue(d)'
    BY <1>4, <1>5, <1>13, <2>3, Zenon DEF IsTrue
  <2> QED
    BY <2>1, <2>4, Zenon DEF IsTrue
<1>15. Waiting'
  BY <1>3, Zenon DEF CInv, Waiting
<1>16. BoxesTrue'
  BY <1>3, <1>4, <1>5, <1>13, Zenon DEF CInv, BoxesTrue
<1> QED
  BY <1>5, <1>6, <1>8, <1>9, <1>10, <1>11, <1>12, <1>14, <1>15, <1>16 DEF CInv

(* Any other event: a report may fill the table.                           *)
LEMMA ReportKeeps ==
    ASSUME CInv, OnWorkerMessage, Head(down).evt # "new-channel"
    PROVE  CInv'
<1>1. PICK e : e = Head(down) /\ e.evt # "new-channel" /\ EventOK(e)
  BY MessageFacts
<1>2. Emit(<<>>) /\ auto' = auto
  BY <1>1, Zenon DEF OnWorkerMessage, Reply
<1>3. UNCHANGED <<open, rooms, cur, on, up, buffer, said>>
  BY <1>2, EmitNothing DEF CInv
<1>4. \/ UNCHANGED <<rows, answered, handler>>
      \/ /\ e.evt = "report-channels" /\ handler /\ handler' = FALSE
         /\ rows' = e.rows /\ answered' = [nr |-> e.nr, from |-> e.from]
  BY <1>1, Zenon DEF OnWorkerMessage
<1>5. /\ SessionTypes /\ Len(up) \in Nat /\ asked \in Nat /\ asked' = asked
      /\ asked' \in Nat /\ asked <= asked' /\ UNCHANGED <<listed, announced, did>>
  <2>1. SessionTypes /\ asked \in Nat
    BY DEF CInv, PageTypes
  <2> QED
    BY <2>1, SessionFacts, MessageFacts
<1>6. Future' = Future /\ Outgoing' = Outgoing
  <2>1. Future' = Future
    BY <1>3, Zenon DEF Future, Coming
  <2>2. Outgoing' = Outgoing
    BY <1>3, Zenon DEF Outgoing
  <2> QED
    BY <2>1, <2>2
<1>7. SessionTypes'
  BY <1>3, <1>5 DEF SessionTypes, Sessions
<1>8. handler' => handler /\ UNCHANGED <<rows, answered>>
  BY <1>4
<1>9. PageTypes'
  <2>1. DOMAIN rows' \subseteq Keys
    BY <1>1, <1>4 DEF EventOK, CInv, PageTypes
  <2>2. handler' \in BOOLEAN
    BY <1>4 DEF CInv, PageTypes
  <2> QED
    BY <1>2, <1>3, <1>5, <2>1, <2>2 DEF CInv, PageTypes
<1>10. DownTypes'
  <2>1. Passed(down', down, [evt |-> "closed-channel"])
    BY MessageFacts, Zenon DEF Passed, Shorter
  <2>2. answered'.from \in 0..Len(up')
    BY <1>1, <1>3, <1>4 DEF CInv, DownTypes, EventOK
  <2>3. Len(up') \in Nat /\ Len(up) <= Len(up')
    BY <1>3, <1>5
  <2> QED
    BY <1>5, <2>1, <2>2, <2>3, DownLess DEF CInv
<1>11. Words'
  BY <1>3, <1>6, Zenon DEF CInv, Words
<1>12. WillAccept'
  <2> SUFFICES ASSUME cur # 0, NEW k \in announced, k \notin Future
               PROVE  \E i \in 1..Len(down') : down'[i].evt = "new-channel" /\ down'[i].key = k
    BY <1>3, <1>5, <1>6 DEF WillAccept
  <2>1. PICK i \in 1..Len(down) : down[i].evt = "new-channel" /\ down[i].key = k
    BY DEF CInv, WillAccept
  <2>2. down[i] # Head(down)
    BY <1>1, <2>1
  <2>3. \E m \in 1..Len(down') : down'[m] = down[i]
    BY <2>2, MessageFacts
  <2> QED
    BY <2>1, <2>3
<1>13. Questions'
  BY <1>3, <1>5 DEF CInv, Questions, Sessions
<1>14. OnlyAccepts'
  BY <1>2, <1>5, <1>6, <1>8, Zenon DEF CInv, OnlyAccepts
<1>15. ReportsTrue'
  <2> SUFFICES ASSUME handler, cur # 0, NEW i \in 1..Len(down') PROVE IsTrue(down[i])'
    BY <1>3, <1>8 DEF ReportsTrue
  <2>1. PICK d : d = down'[i]
    OBVIOUS
  <2>2. \E m \in 1..Len(down) : d = down[m]
    BY <2>1, MessageFacts
  <2>3. IsTrue(d)
    BY <2>2 DEF CInv, ReportsTrue
  <2>4. IsTrue(d)'
    BY <1>2, <1>3, <1>5, <1>6, <2>3, Zenon DEF IsTrue
  <2> QED
    BY <2>1, <2>4, Zenon DEF IsTrue
<1>16. Waiting'
  BY <1>8, Zenon DEF CInv, Waiting
<1>17. BoxesTrue'
  <2>1. CASE UNCHANGED <<rows, answered, handler>>
    BY <1>2, <1>3, <1>5, <1>6, <2>1, Zenon DEF CInv, BoxesTrue
  <2>2. CASE /\ e.evt = "report-channels" /\ handler
             /\ rows' = e.rows /\ answered' = [nr |-> e.nr, from |-> e.from]
    <3> SUFFICES ASSUME cur # 0, e.nr = asked, e.from = cur, NEW k \in DOMAIN e.rows \ auto
                 PROVE  e.rows[k] <=> k \in Future
      <4>1. answered' = [nr |-> asked', from |-> cur'] => e.nr = asked /\ e.from = cur
        <5>1. ASSUME NEW a, NEW b, NEW c, NEW d, [nr |-> a, from |-> b] = [nr |-> c, from |-> d]
              PROVE  a = c /\ b = d
          <6>1. /\ [nr |-> a, from |-> b].nr = a /\ [nr |-> a, from |-> b].from = b
                /\ [nr |-> c, from |-> d].nr = c /\ [nr |-> c, from |-> d].from = d
            OBVIOUS
          <6> QED
            BY <5>1, <6>1
        <5> QED
          BY <1>3, <1>5, <2>2, <5>1
      <4> QED
        BY <1>2, <1>3, <1>6, <2>2, <4>1, Zenon DEF BoxesTrue
    <3>1. IsTrue(e)
      <4>1. \E i \in 1..Len(down) : down[i] = e
        BY <1>1, MessageFacts
      <4> QED
        BY <2>2, <4>1 DEF CInv, ReportsTrue
    <3> QED
      BY <2>2, <3>1, Zenon DEF IsTrue
  <2> QED
    BY <1>4, <2>1, <2>2
<1> QED
  BY <1>7, <1>9, <1>10, <1>11, <1>12, <1>13, <1>14, <1>15, <1>16, <1>17 DEF CInv

(* The invariant holds at the start.                                       *)
LEMMA InitHolds == ASSUME Init PROVE CInv
<1>1. /\ listed = {} /\ open = {} /\ rooms = <<>> /\ up = <<>>
      /\ cur = 0 /\ on = TRUE /\ buffer = <<>> /\ down = <<>>
      /\ handler = FALSE /\ DOMAIN rows = {}
      /\ asked = 0 /\ answered = Nothing /\ auto = {}
      /\ said = Silent /\ announced = {} /\ did = 0
  BY DEF Init
<1>2. /\ Len(up) = 0 /\ Len(rooms) = 0 /\ Sessions = {} /\ Len(buffer) = 0 /\ 1..0 = {}
      /\ up \in Seq(Seq(Requests)) /\ rooms \in Seq(SUBSET Keys) /\ buffer \in Seq(Requests)
      /\ down \in Seq({}) /\ Len(down) = 0
  BY <1>1 DEF Sessions
<1>3. SessionTypes
  BY <1>1, <1>2 DEF SessionTypes
<1>4. PageTypes
  <2>1. said \in [Keys -> {"nothing", "subscribe", "unsubscribe"}]
    BY <1>1 DEF Silent
  <2>2. asked \in 0..did /\ did \in Nat
    BY <1>1
  <2>3. /\ listed \in SUBSET Keys /\ DOMAIN rows \subseteq Keys
        /\ auto \in SUBSET Keys /\ announced \in SUBSET Keys
    BY <1>1
  <2>4. on \in BOOLEAN /\ (cur # 0 => on) /\ handler \in BOOLEAN
    BY <1>1
  <2> QED
    BY <2>1, <2>2, <2>3, <2>4, Zenon DEF PageTypes
<1>5. DownTypes
  BY <1>1, <1>2 DEF DownTypes, Nothing
<1>6. Words
  BY <1>1 DEF Words, Silent
<1>7. WillAccept /\ ReportsTrue /\ BoxesTrue
  BY <1>1 DEF WillAccept, ReportsTrue, BoxesTrue
<1>8. Questions
  BY <1>2 DEF Questions
<1>9. OnlyAccepts /\ Waiting
  BY <1>1 DEF OnlyAccepts, Waiting
<1> QED
  BY <1>3, <1>4, <1>5, <1>6, <1>7, <1>8, <1>9 DEF CInv

(* Every step keeps it.                                                    *)
LEMMA NextKeeps == ASSUME CInv, Next PROVE CInv'
<1>1. ASSUME NEW k \in Keys, Register(k) \/ Unregister(k) \/ Click(k) PROVE CInv'
  BY <1>1, RegisterKeeps, UnregisterKeeps, ClickKeeps
<1>2. ASSUME NEW s \in Sessions, Serve(s) \/ Notice(s) PROVE CInv'
  BY <1>2, ServeKeeps, NoticeKeeps
<1>3. CASE OnWorkerMessage
  BY <1>3, AcceptKeeps, ReportKeeps
<1> QED
  BY <1>1, <1>2, <1>3, AnswerAnotherKeeps, ConnectKeeps, DropKeeps, GiveUpKeeps,
     PlayKeeps, StopKeeps, OpenDialogKeeps DEF Next

(* CInv is an invariant of the behaviours.                                 *)
THEOREM ChannelsInvariant == Spec => []CInv
<1>1. CInv /\ [Next]_vars => CInv'
  BY NextKeeps, StutterKeeps
<1> QED
  BY <1>1, InitHolds, PTL DEF Spec

(* The shape of the state, and a session the server has given up is in no  *)
(* room and has nothing to be served, in every behaviour.                  *)
THEOREM TypeCorrect == Spec => []TypeOK
<1>1. CInv => TypeOK
  <2> SUFFICES ASSUME CInv PROVE TypeOK
    OBVIOUS
  <2>1. /\ open \in SUBSET Sessions /\ Len(rooms) = Len(up) /\ cur \in open \cup {0}
        /\ \A s \in Sessions \ open : rooms[s] = {} /\ up[s] = <<>>
        /\ buffer # <<>> => cur = 0
    BY DEF CInv, SessionTypes
  <2>2. \A s \in Sessions : rooms[s] \in SUBSET Keys
    BY SessionFacts DEF CInv
  <2>3. /\ listed \in SUBSET Keys /\ on \in BOOLEAN /\ (cur # 0 => on)
        /\ handler \in BOOLEAN /\ DOMAIN rows \subseteq Keys
        /\ asked \in 0..did /\ said \in [Keys -> {"nothing", "subscribe", "unsubscribe"}]
        /\ auto \in SUBSET Keys /\ announced \in SUBSET Keys
    BY Zenon DEF CInv, PageTypes
  <2> QED
    BY <2>1, <2>2, <2>3, Zenon DEF TypeOK
<1> QED
  BY <1>1, ChannelsInvariant, PTL

(* Every channel announced to the present session is accepted, unless the  *)
(* user has clicked it since, once the page has seen what was sent: any    *)
(* number of channels, clicks, dialogs and reconnections between.          *)
THEOREM AcceptedEver == Spec => []Accepted
<1>1. CInv => Accepted
  <2> SUFFICES ASSUME CInv, cur # 0, down = <<>>, NEW k \in announced PROVE k \in Coming
    BY DEF Accepted
  <2>1. 1..Len(down) = {}
    OBVIOUS
  <2>2. Future = Coming
    BY Zenon DEF Future
  <2> QED
    BY <2>1, <2>2 DEF CInv, WillAccept
<1> QED
  BY <1>1, ChannelsInvariant, PTL

(* What the page said last about a channel is what the server will do,     *)
(* also when it was said while there was no connection.                    *)
THEOREM LastWordEver == Spec => []LastWordCounts
<1>1. CInv => LastWordCounts
  <2>1. cur # 0 => Future = Coming
    BY Zenon DEF Future
  <2> QED
    BY <2>1, Zenon DEF CInv, Words, LastWordCounts
<1> QED
  BY <1>1, ChannelsInvariant, PTL

(* A box that answers the question of this opening of the dialog, on this  *)
(* connection, tells the truth about the room, whatever is under way.      *)
THEOREM DialogIsTrueEver == Spec => []DialogIsTrue
<1>1. CInv => DialogIsTrue
  <2>1. cur # 0 => Future = Coming
    BY Zenon DEF Future
  <2> QED
    BY <2>1, Zenon DEF CInv, BoxesTrue, DialogIsTrue
<1> QED
  BY <1>1, ChannelsInvariant, PTL
=============================================================================
