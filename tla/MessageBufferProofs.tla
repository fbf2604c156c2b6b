------------------------- MODULE MessageBufferProofs -------------------------
(***************************************************************************)
(* What holds of MessageBuffer for every length of the buffer, every size  *)
(* of a batch, every row and container height and any number of messages   *)
(* and of the user's doings: the types, what the buffer keeps and counts,  *)
(* what the page shows of it, and where it stands.                         *)
(*                                                                         *)
(* Three invariants, each above the one before.  BInv is about the buffer  *)
(* and the counters of the status bar.  SInv adds the layout: a rendering  *)
(* that is due has something pending that will do it.  FInv adds the place *)
(* of the container: the table is where it is scrolled once no event is on *)
(* its way, and with Follow on that is the end.                            *)
(***************************************************************************)
EXTENDS MessageBuffer, FiniteSetTheorems, WellFoundedInduction, TLAPS

-----------------------------------------------------------------------------
(* A set of numbers has a least one.  From it follows, by the least        *)
(* counterexample, what the recursive function of Filtered returns.        *)
LEMMA LeastNat ==
    ASSUME NEW T \in SUBSET Nat, T # {}
    PROVE  \E n \in T : \A m \in T : n <= m
<1> DEFINE R == OpToRel(<, Nat)
<1>1. IsWellFoundedOn(R, Nat)
  BY NatLessThanWellFounded
<1>2. \A x, y \in Nat : x < y => <<x, y>> \in R
  BY DEF OpToRel
<1> HIDE DEF R
<1>3. PICK n \in T : \A m \in T : ~(<<m, n>> \in R)
  BY <1>1, WFMin
<1>4. ASSUME NEW m \in T PROVE n <= m
  <2>1. m \in Nat /\ n \in Nat
    OBVIOUS
  <2>2. ~(m < n)
    BY <1>2, <1>3, <2>1, Zenon
  <2> QED
    BY <2>1, <2>2
<1> QED
  BY <1>4

(* One step of Filtered.                                                   *)
Step(s, T, f, i) ==
    IF i = 0 THEN <<>>
    ELSE IF s[i] \in T THEN Append(f[i - 1], s[i]) ELSE f[i - 1]

(* There is a function that steps through a sequence as Filtered does.     *)
LEMMA KeepExists ==
    ASSUME NEW s, NEW T, NEW N \in Nat
    PROVE  \E f : f = [i \in 0..N |-> Step(s, T, f, i)]
<1> DEFINE Ok(n) == \E f : f = [i \in 0..n |-> Step(s, T, f, i)]
           Bad == {n \in Nat : ~Ok(n)}
<1>1. Ok(0)
  <2>1. [i \in 0..0 |-> <<>>] = [i \in 0..0 |-> Step(s, T, [j \in 0..0 |-> <<>>], i)]
    BY DEF Step
  <2> QED
    BY <2>1, Zenon
<1>2. ASSUME NEW n \in Nat, n # 0, Ok(n - 1) PROVE Ok(n)
  <2>1. PICK g : g = [i \in 0..(n - 1) |-> Step(s, T, g, i)]
    BY <1>2
  <2> DEFINE h == [i \in 0..n |-> IF i = n THEN Step(s, T, g, n) ELSE g[i]]
  <2>2. ASSUME NEW i \in 0..n PROVE h[i] = Step(s, T, h, i)
    <3>1. CASE i = 0
      <4>1. h[i] = g[i] /\ i \in 0..(n - 1)
        BY <1>2, <3>1
      <4>2. g[i] = Step(s, T, g, i)
        BY <2>1, <4>1
      <4> QED
        BY <3>1, <4>1, <4>2 DEF Step
    <3>2. CASE i # 0
      <4>1. i - 1 \in 0..(n - 1) /\ i - 1 \in 0..n /\ i - 1 # n
        BY <3>2
      <4>2. h[i - 1] = g[i - 1]
        BY <4>1
      <4>3. Step(s, T, h, i) = Step(s, T, g, i)
        BY <3>2, <4>2 DEF Step
      <4>4. h[i] = Step(s, T, g, i)
        <5>1. CASE i = n
          BY <5>1
        <5>2. CASE i # n
          <6>1. i \in 0..(n - 1)
            BY <5>2
          <6>2. g[i] = Step(s, T, g, i)
            BY <2>1, <6>1
          <6>3. h[i] = g[i]
            BY <5>2
          <6> QED
            BY <6>2, <6>3
        <5> QED
          BY <5>1, <5>2
      <4> QED
        BY <4>3, <4>4
    <3> QED
      BY <3>1, <3>2
  <2>3. h = [i \in 0..n |-> h[i]]
    OBVIOUS
  <2> HIDE DEF h
  <2>4. h = [i \in 0..n |-> Step(s, T, h, i)]
    BY <2>2, <2>3, Zenon
  <2> QED
    BY <2>4, Zenon
<1> HIDE DEF Ok
<1>3. Bad = {}
  <2> SUFFICES ASSUME Bad # {} PROVE FALSE
    OBVIOUS
  <2>1. PICK n \in Bad : \A m \in Bad : n <= m
    BY LeastNat
  <2>2. n # 0 /\ n \in Nat /\ ~Ok(n)
    BY <1>1
  <2>3. n - 1 \in Nat /\ ~(n <= n - 1)
    BY <2>2
  <2>4. Ok(n - 1)
    BY <2>1, <2>3
  <2> QED
    BY <1>2, <2>2, <2>4
<1> QED
  BY <1>3 DEF Ok

(* The function of Filtered is one that steps.                             *)
LEMMA KeepIs ==
    ASSUME NEW s, NEW T, Len(s) \in Nat
    PROVE  \E f : /\ Filtered(s, T) = f[Len(s)]
                  /\ f = [i \in 0..Len(s) |-> Step(s, T, f, i)]
<1> DEFINE f == CHOOSE f : f = [i \in 0..Len(s) |-> 
            IF i = 0 THEN <<>>
            ELSE IF s[i] \in T THEN Append(f[i - 1], s[i]) ELSE f[i - 1]]
<1>0. \E g : g = [i \in 0..Len(s) |-> Step(s, T, g, i)]
  BY KeepExists, Zenon
<1>1. \E g : g = [i \in 0..Len(s) |-> 
            IF i = 0 THEN <<>>
            ELSE IF s[i] \in T THEN Append(g[i - 1], s[i]) ELSE g[i - 1]]
  BY <1>0, Zenon DEF Step
<1>2. f = [i \in 0..Len(s) |-> 
            IF i = 0 THEN <<>>
            ELSE IF s[i] \in T THEN Append(f[i - 1], s[i]) ELSE f[i - 1]]
  BY <1>1, Zenon
<1>3. Filtered(s, T) = f[Len(s)]
  BY Zenon DEF Filtered
<1> QED
  BY <1>2, <1>3, Zenon DEF Step

(* What Filtered returns: the elements that are in the set, in order.      *)
Increasing(s) == \A i, j \in 1..Len(s) : i < j => s[i] < s[j]

Prefix(s, T, r, n) ==
    /\ Len(r) <= n
    /\ \A j \in 1..Len(r) : \E k \in 1..n : s[k] \in T /\ r[j] = s[k]
    /\ \A k \in 1..n : s[k] \in T => \E j \in 1..Len(r) : r[j] = s[k]
    /\ Increasing(s) => Increasing(r)

(* One element more.                                                       *)
LEMMA PrefixGrows ==
    ASSUME NEW s \in Seq(Nat), NEW T, NEW n \in Nat \ {0}, n <= Len(s),
           NEW r \in Seq(Nat), Prefix(s, T, r, n - 1)
    PROVE  IF s[n] \in T THEN Prefix(s, T, Append(r, s[n]), n) ELSE Prefix(s, T, r, n)
<1>1. CASE s[n] \in T
  <2> DEFINE q == Append(r, s[n])
             k == Len(r)
  <2>1. s[n] \in Nat /\ n \in 1..Len(s) /\ k \in Nat /\ n \in 1..n
    OBVIOUS
  <2>2. /\ Len(q) = k + 1 /\ q[k + 1] = s[n] /\ k + 1 \in 1..(k + 1)
        /\ \A j \in 1..k : q[j] = r[j] /\ j \in 1..(k + 1)
    BY <2>1
  <2> HIDE DEF q
  <2>3. Len(q) <= n
    BY <2>1, <2>2 DEF Prefix
  <2>4. ASSUME NEW j \in 1..(k + 1) PROVE \E i \in 1..n : s[i] \in T /\ q[j] = s[i]
    <3>1. CASE j = k + 1
      BY <1>1, <2>1, <2>2, <3>1
    <3>2. CASE j \in 1..k
      <4>1. PICK i \in 1..(n - 1) : s[i] \in T /\ r[j] = s[i]
        BY <3>2 DEF Prefix
      <4>2. i \in 1..n /\ q[j] = r[j]
        BY <2>2, <3>2, <4>1
      <4> QED
        BY <4>1, <4>2
    <3> QED
      BY <2>1, <3>1, <3>2
  <2>5. ASSUME NEW i \in 1..n, s[i] \in T PROVE \E j \in 1..(k + 1) : q[j] = s[i]
    <3>1. CASE i = n
      BY <2>1, <2>2, <3>1
    <3>2. CASE i # n
      <4>1. i \in 1..(n - 1)
        BY <3>2
      <4>2. PICK j \in 1..k : r[j] = s[i]
        BY <2>5, <4>1 DEF Prefix
      <4> QED
        BY <2>1, <2>2, <4>2
    <3> QED
      BY <3>1, <3>2
  <2>6. ASSUME Increasing(s) PROVE Increasing(q)
    <3> SUFFICES ASSUME NEW i \in 1..(k + 1), NEW j \in 1..(k + 1), i < j PROVE q[i] < q[j]
      BY <2>2 DEF Increasing
    <3>1. i \in 1..k /\ q[i] = r[i]
      BY <2>1, <2>2
    <3>2. CASE j = k + 1
      <4>1. PICK m \in 1..(n - 1) : r[i] = s[m]
        BY <3>1 DEF Prefix
      <4>2. m \in 1..Len(s) /\ m < n
        BY <2>1, <4>1
      <4>3. s[m] < s[n]
        BY <2>1, <2>6, <4>2 DEF Increasing
      <4> QED
        BY <2>2, <3>1, <3>2, <4>1, <4>3
    <3>3. CASE j \in 1..k
      <4>1. j \in 1..k /\ q[j] = r[j]
        BY <2>2, <3>3
      <4>2. Increasing(r)
        BY <2>6 DEF Prefix
      <4> QED
        BY <3>1, <4>1, <4>2 DEF Increasing
    <3>4. j = k + 1 \/ j \in 1..k
      BY <2>1, SMTT(30)
    <3> QED
      BY <3>2, <3>3, <3>4, Zenon
  <2>7. Prefix(s, T, q, n)
    BY <2>2, <2>3, <2>4, <2>5, <2>6 DEF Prefix
  <2> QED
    BY <1>1, <2>7 DEF q
<1>2. CASE s[n] \notin T
  <2>1. \A i \in 1..(n - 1) : i \in 1..n
    OBVIOUS
  <2>2. \A i \in 1..n : s[i] \in T => i \in 1..(n - 1)
    BY <1>2
  <2>3. Len(r) <= n
    BY DEF Prefix
  <2>4. Prefix(s, T, r, n)
    BY <2>1, <2>2, <2>3 DEF Prefix
  <2> QED
    BY <1>2, <2>4
<1> QED
  BY <1>1, <1>2

(* A sequence over a set is one over any larger set.                       *)
LEMMA SeqWidens == ASSUME NEW S, NEW N, S \subseteq N, NEW s \in Seq(S) PROVE s \in Seq(N)
OBVIOUS

(* The same for the natural numbers.                                       *)
LEMMA SeqWidensToNat == ASSUME NEW S, S \subseteq Nat, NEW s \in Seq(S) PROVE s \in Seq(Nat)
<1>1. PICK N : N = Nat
  OBVIOUS
<1>2. S \subseteq N
  BY <1>1
<1> QED
  BY <1>1, <1>2, SeqWidens

(* Array.filter, as the buffer and the rows use it: what stays is in the   *)
(* set, nothing that is in the set goes, and the order stays.              *)
LEMMA FilteredFacts ==
    ASSUME NEW S, S \subseteq Nat, NEW s \in Seq(S), NEW T
    PROVE  Filtered(s, T) \in Seq(S) /\ Prefix(s, T, Filtered(s, T), Len(s))
<1>0. Len(s) \in Nat /\ s \in Seq(Nat) /\ \A i \in 1..Len(s) : s[i] \in S
  <2>1. s \in Seq(Nat)
    BY SeqWidensToNat
  <2>2. Len(s) \in Nat /\ \A i \in 1..Len(s) : s[i] \in S
    OBVIOUS
  <2> QED
    BY <2>1, <2>2
<1>1. PICK f : /\ Filtered(s, T) = f[Len(s)]
               /\ f = [i \in 0..Len(s) |-> Step(s, T, f, i)]
  BY <1>0, KeepIs
<1> DEFINE Good(n) == f[n] \in Seq(S) /\ Prefix(s, T, f[n], n)
           Bad == {n \in Nat : n <= Len(s) /\ ~Good(n)}
<1>2. \A n \in 0..Len(s) : f[n] = Step(s, T, f, n)
  BY <1>1
<1>3. Good(0)
  <2>1. f[0] = <<>>
    BY <1>0, <1>2 DEF Step
  <2>2. <<>> \in Seq(S) /\ Len(<<>>) = 0
    OBVIOUS
  <2>3. Prefix(s, T, <<>>, 0)
    BY <2>2 DEF Prefix, Increasing
  <2> QED
    BY <2>1, <2>2, <2>3
<1>4. ASSUME NEW n \in 1..Len(s), Good(n - 1) PROVE Good(n)
  <2>1. f[n] = IF s[n] \in T THEN Append(f[n - 1], s[n]) ELSE f[n - 1]
    <3>1. n \in 0..Len(s) /\ n # 0
      BY <1>0
    <3> QED
      BY <1>2, <3>1 DEF Step
  <2>2. PICK r : r = f[n - 1]
    OBVIOUS
  <2>3. r \in Seq(S) /\ r \in Seq(Nat) /\ Prefix(s, T, r, n - 1) /\ s[n] \in S
    <3>1. r \in Seq(S) /\ Prefix(s, T, r, n - 1) /\ s[n] \in S
      BY <1>0, <1>4, <2>2
    <3> QED
      BY <3>1, SeqWidensToNat
  <2>4. IF s[n] \in T THEN Prefix(s, T, Append(r, s[n]), n) ELSE Prefix(s, T, r, n)
    <3>1. n \in Nat \ {0} /\ n <= Len(s)
      BY <1>0
    <3> QED
      BY <1>0, <2>3, <3>1, PrefixGrows
  <2>5. Append(r, s[n]) \in Seq(S)
    BY <2>3
  <2> QED
    BY <2>1, <2>2, <2>3, <2>4, <2>5
<1> HIDE DEF Good
<1>5. Bad = {}
  <2> SUFFICES ASSUME Bad # {} PROVE FALSE
    OBVIOUS
  <2>1. PICK n \in Bad : \A m \in Bad : n <= m
    BY LeastNat
  <2>2. n # 0 /\ n \in 0..Len(s) /\ ~Good(n)
    BY <1>3
  <2>3. n - 1 \in 0..Len(s) /\ ~(n <= n - 1) /\ n \in 1..Len(s)
    BY <1>0, <2>2
  <2>4. Good(n - 1)
    BY <2>1, <2>3
  <2> QED
    BY <1>4, <2>2, <2>3, <2>4
<1>6. Good(Len(s))
  BY <1>0, <1>5
<1> QED
  BY <1>1, <1>6 DEF Good

(* A concatenation and a rest, place by place.                             *)
LEMMA Joined ==
    ASSUME NEW a \in Seq(Nat), NEW b \in Seq(Nat)
    PROVE  /\ a \o b \in Seq(Nat) /\ Len(a \o b) = Len(a) + Len(b)
           /\ \A i \in 1..Len(a) : (a \o b)[i] = a[i]
           /\ \A i \in 1..Len(b) : (a \o b)[Len(a) + i] = b[i]
<1> DEFINE c == a \o b
<1>1. c \in Seq(Nat) /\ Len(c) = Len(a) + Len(b)
  OBVIOUS
<1>2. \A i \in 1..Len(a) : c[i] = a[i]
  OBVIOUS
<1>3. ASSUME NEW i \in 1..Len(b) PROVE c[Len(a) + i] = b[i]
  <2>1. /\ Len(a) + i \in 1..(Len(a) + Len(b)) /\ ~(Len(a) + i <= Len(a))
        /\ (Len(a) + i) - Len(a) = i
    OBVIOUS
  <2> QED
    BY <2>1
<1> QED
  BY <1>1, <1>2, <1>3

(* What is left of a sequence without its first o elements.                *)
LEMMA Rest ==
    ASSUME NEW s \in Seq(Nat), NEW o \in 0..Len(s), NEW k, k = Len(s) - o,
           NEW c, c = SubSeq(s, o + 1, Len(s))
    PROVE  /\ c \in Seq(Nat) /\ Len(c) = k /\ k \in Nat
           /\ \A i \in 1..k : c[i] = s[i + o]
<1>1. Len(s) \in Nat /\ o \in Nat /\ k \in Nat
  OBVIOUS
<1>2. Len(c) = k
  BY <1>1
<1>3. \A i \in 1..k : c[i] = s[i + o]
  BY <1>1
<1>4. c \in Seq(Nat)
  BY <1>1
<1> QED
  BY <1>1, <1>2, <1>3, <1>4

(* A sequence is one over any set that holds its elements.                 *)
LEMMA SeqNarrows ==
    ASSUME NEW S, NEW N, NEW s \in Seq(N), \A i \in 1..Len(s) : s[i] \in S
    PROVE  s \in Seq(S)
OBVIOUS

-----------------------------------------------------------------------------
(* The buffer and its counters.                                            *)
BufferTypes ==
    /\ buffer \in Seq(Messages)
    /\ counter \in [new : Nat, message : Nat, dropped : Nat]
    /\ selected \in SUBSET Messages /\ removed \in SUBSET Messages
    /\ arrived \in 0..MaxArrivals /\ cleared \in 0..arrived

(* What the user removed has arrived and is not in the buffer.             *)
RemovedIsGone ==
    /\ \A m \in removed : m <= arrived
    /\ \A i \in 1..Len(buffer) : buffer[i] <= arrived /\ buffer[i] \notin removed

BInv == BufferTypes /\ RemovedIsGone /\ KeepsNewest /\ CountersAreTrue

(* Numbers and places of the messages.                                     *)
LEMMA BufferFacts ==
    ASSUME BufferTypes
    PROVE  /\ Messages \subseteq Nat /\ buffer \in Seq(Nat) /\ Len(buffer) \in Nat
           /\ DOMAIN buffer = 1..Len(buffer)
           /\ \A i \in 1..Len(buffer) : buffer[i] \in Messages /\ buffer[i] \in Nat
           /\ arrived \in Nat /\ cleared \in Nat /\ cleared <= arrived
           /\ MaxLength \in Nat /\ MaxBatch \in Nat /\ MaxBatch <= MaxLength
<1>1. Messages \subseteq Nat
  BY MessageBufferAssumption DEF Messages
<1>2. buffer \in Seq(Messages)
  BY DEF BufferTypes
<1>3. buffer \in Seq(Nat)
  BY <1>1, <1>2, SeqWidensToNat
<1>4. /\ Len(buffer) \in Nat /\ DOMAIN buffer = 1..Len(buffer)
      /\ \A i \in 1..Len(buffer) : buffer[i] \in Messages
  BY <1>2
<1>5. \A i \in 1..Len(buffer) : buffer[i] \in Nat
  BY <1>3
<1>6. arrived \in Nat /\ cleared \in Nat /\ cleared <= arrived
  BY MessageBufferAssumption DEF BufferTypes
<1> QED
  BY <1>1, <1>3, <1>4, <1>5, <1>6, MessageBufferAssumption

(* The messages of the buffer by their places.                             *)
LEMMA LostByPlace ==
    ASSUME BufferTypes
    PROVE  \A m : m \in Lost <=>
              /\ m \in (cleared + 1)..arrived /\ m \notin removed
              /\ \A i \in 1..Len(buffer) : m # buffer[i]
BY BufferFacts DEF Lost, ToSet

(* The messages that were dropped can be counted.                          *)
LEMMA LostIsFinite ==
    ASSUME BufferTypes
    PROVE  IsFiniteSet(Lost) /\ Lost \subseteq Nat /\ Cardinality(Lost) \in Nat
<1>1. IsFiniteSet((cleared + 1)..arrived)
  BY BufferFacts, FS_Interval
<1>2. Lost \in SUBSET ((cleared + 1)..arrived)
  BY DEF Lost
<1>3. IsFiniteSet(Lost)
  BY <1>1, <1>2, FS_Subset
<1> QED
  BY <1>2, <1>3, BufferFacts, FS_CardinalityType

(* The places of the buffer after n new messages, which drop o.            *)
LEMMA NewPlaces ==
    ASSUME buffer \in Seq(Nat), NEW o \in 0..Len(buffer), NEW n \in Nat, arrived \in Nat,
           buffer' = Kept(o) \o [i \in 1..n |-> arrived + i]
    PROVE  /\ buffer' \in Seq(Nat) /\ Len(buffer') = Len(buffer) - o + n
           /\ Len(Kept(o)) = Len(buffer) - o
           /\ \A i \in 1..(Len(buffer) - o) : buffer'[i] = buffer[i + o]
           /\ \A i \in 1..n : buffer'[Len(buffer) - o + i] = arrived + i
<1> DEFINE new == [i \in 1..n |-> arrived + i]
           kept == Kept(o)
           k == Len(buffer) - o
<1>3. k \in Nat
  OBVIOUS
<1>4. kept \in Seq(Nat) /\ Len(kept) = k /\ \A i \in 1..k : kept[i] = buffer[i + o]
  BY <1>3, Rest DEF Kept
<1>5. new \in Seq(Nat) /\ Len(new) = n /\ \A i \in 1..n : new[i] = arrived + i
  OBVIOUS
<1>6. buffer' = kept \o new
  OBVIOUS
<1> HIDE DEF new, kept, k
<1>7. /\ kept \o new \in Seq(Nat) /\ Len(kept \o new) = Len(kept) + Len(new)
      /\ \A i \in 1..Len(kept) : (kept \o new)[i] = kept[i]
      /\ \A i \in 1..Len(new) : (kept \o new)[Len(kept) + i] = new[i]
  BY <1>4, <1>5, Joined, Zenon
<1>8. /\ buffer' \in Seq(Nat) /\ Len(buffer') = k + n
      /\ \A i \in 1..k : buffer'[i] = kept[i]
      /\ \A i \in 1..n : buffer'[k + i] = new[i]
  BY <1>4, <1>5, <1>6, <1>7, Zenon
<1> QED
  BY <1>4, <1>5, <1>8 DEF k, kept

(* triggerNewMessages in terms of what it drops, o, and what it keeps, k:  *)
(* an empty batch drops nothing.                                           *)
LEMMA TriggerFacts ==
    ASSUME BInv, NEW n \in 0..MaxBatch, TriggerNewMessages(n)
    PROVE  \E o, k \in Nat :
           /\ n \in Nat /\ Len(buffer) = k + o
           /\ buffer' \in Seq(Nat) /\ Len(buffer') = k + n /\ k + n <= MaxLength
           /\ \A i \in 1..k : buffer'[i] = buffer[i + o]
           /\ \A i \in 1..n : buffer'[k + i] = arrived + i
           /\ n = 0 => o = 0
           /\ counter' = [new |-> counter.new + n, message |-> k + n,
                          dropped |-> counter.dropped + o]
<1>1. /\ Len(buffer) \in Nat /\ Len(buffer) <= MaxLength /\ n \in Nat /\ n <= MaxLength
      /\ buffer \in Seq(Nat) /\ arrived \in Nat /\ MaxLength \in Nat
  BY BufferFacts DEF BInv, KeepsNewest
<1>2. PICK o \in 0..Len(buffer) :
          o = Over(n) /\ Len(buffer) - o + n <= MaxLength /\ (n = 0 => o = 0)
  <2>1. /\ Over(n) \in 0..Len(buffer) /\ Len(buffer) - Over(n) + n <= MaxLength
        /\ n = 0 => Over(n) = 0
    BY <1>1 DEF Over
  <2> QED
    BY <2>1, Zenon
<1>3. /\ buffer' = Kept(o) \o [i \in 1..n |-> arrived + i]
      /\ counter' = [new |-> counter.new + n, message |-> Len(Kept(o)) + n,
                     dropped |-> counter.dropped + o]
  BY <1>2 DEF TriggerNewMessages
<1>4. /\ buffer' \in Seq(Nat) /\ Len(buffer') = Len(buffer) - o + n
      /\ Len(Kept(o)) = Len(buffer) - o
      /\ \A i \in 1..(Len(buffer) - o) : buffer'[i] = buffer[i + o]
      /\ \A i \in 1..n : buffer'[Len(buffer) - o + i] = arrived + i
  BY <1>1, <1>3, NewPlaces
<1>5. PICK k \in Nat : k = Len(buffer) - o /\ Len(buffer) = k + o /\ o \in Nat
  BY <1>1, <1>2
<1>6. /\ n \in Nat /\ Len(buffer) = k + o
      /\ buffer' \in Seq(Nat) /\ Len(buffer') = k + n /\ k + n <= MaxLength
      /\ n = 0 => o = 0
  BY <1>1, <1>2, <1>4, <1>5
<1>7. /\ \A i \in 1..k : buffer'[i] = buffer[i + o]
      /\ \A i \in 1..n : buffer'[k + i] = arrived + i
  BY <1>4, <1>5
<1>8. counter' = [new |-> counter.new + n, message |-> k + n, dropped |-> counter.dropped + o]
  BY <1>3, <1>4, <1>5
<1> QED
  BY <1>5, <1>6, <1>7, <1>8

(* The first messages of an increasing sequence are as many as their       *)
(* places.                                                                 *)
LEMMA FirstMessages ==
    ASSUME NEW s \in Seq(Nat), NEW o \in Nat, o <= Len(s), Increasing(s),
           NEW d, d = {s[i] : i \in 1..o}
    PROVE  IsFiniteSet(d) /\ Cardinality(d) = o
<1> DEFINE f == [i \in 1..o |-> s[i]]
<1>1. /\ f \in [1..o -> d] /\ \A i \in 1..o : f[i] = s[i]
      /\ \A x \in d : \E i \in 1..o : f[i] = x
  OBVIOUS
<1>2. \A i \in 1..o : i \in 1..Len(s) /\ s[i] \in Nat
  OBVIOUS
<1> HIDE DEF f
<1>3. ASSUME NEW i \in 1..o, NEW j \in 1..o, i # j PROVE f[i] # f[j]
  <2>1. i < j \/ j < i
    BY <1>3
  <2>2. s[i] < s[j] \/ s[j] < s[i]
    BY <1>2, <2>1 DEF Increasing
  <2>3. s[i] # s[j]
    BY <1>2, <2>2
  <2> QED
    BY <1>1, <2>3
<1>4. f \in Bijection(1..o, d)
  BY <1>1, <1>3 DEF Bijection, Injection, Surjection, IsInjective
<1>5. ExistsBijection(1..o, d)
  BY <1>4 DEF ExistsBijection
<1>6. IsFiniteSet(1..o) /\ Cardinality(1..o) = o
  BY FS_Interval
<1> QED
  BY <1>5, <1>6, FS_Bijection

(* A batch loses the oldest messages, and no other.                        *)
LEMMA TriggerLoses ==
    ASSUME BInv, NEW n \in Nat, NEW o \in Nat, NEW k \in Nat,
           Len(buffer) = k + o, Len(buffer') = k + n, buffer' \in Seq(Nat),
           \A i \in 1..k : buffer'[i] = buffer[i + o],
           \A i \in 1..n : buffer'[k + i] = arrived + i,
           arrived' = arrived + n, cleared' = cleared, removed' = removed
    PROVE  \A m : m \in Lost' <=> m \in Lost \/ \E i \in 1..o : m = buffer[i]
<1>1. /\ \A m : m \in Lost <=>
              /\ m \in (cleared + 1)..arrived /\ m \notin removed
              /\ \A i \in 1..(k + o) : m # buffer[i]
      /\ arrived \in Nat /\ cleared \in Nat /\ cleared <= arrived
      /\ \A i \in 1..(k + o) : buffer[i] \in Nat
  BY LostByPlace, BufferFacts DEF BInv
<1>2. \A m : m \in Lost' <=>
              /\ m \in (cleared + 1)..(arrived + n) /\ m \notin removed
              /\ \A i \in 1..(k + n) : m # buffer'[i]
  <2>1. DOMAIN (buffer') = 1..(k + n)
    OBVIOUS
  <2> QED
    BY <2>1 DEF Lost, ToSet
<1>3. /\ \A i, j \in 1..(k + o) : i < j => buffer[i] < buffer[j]
      /\ \A i \in 1..(k + o) : buffer[i] > cleared /\ buffer[i] <= arrived
                                /\ buffer[i] \notin removed
  BY DEF BInv, KeepsNewest, RemovedIsGone
<1>4. \A j \in 1..(k + n) : j \in 1..k \/ \E i \in 1..n : j = k + i
  <2> SUFFICES ASSUME NEW j \in 1..(k + n), j \notin 1..k PROVE \E i \in 1..n : j = k + i
    OBVIOUS
  <2>1. j - k \in 1..n /\ j = k + (j - k)
    OBVIOUS
  <2> QED
    BY <2>1
<1>5. ASSUME NEW m, m \in Lost' PROVE m \in Lost \/ \E i \in 1..o : m = buffer[i]
  <2>1. m \in (cleared + 1)..(arrived + n) /\ m \notin removed
    BY <1>2, <1>5
  <2>2. m <= arrived
    <3> SUFFICES ASSUME m > arrived PROVE FALSE
      BY <1>1, <2>1
    <3>1. m - arrived \in 1..n /\ m = arrived + (m - arrived)
      BY <1>1, <2>1
    <3>2. PICK i \in 1..n : m = arrived + i
      BY <3>1
    <3>3. k + i \in 1..(k + n) /\ buffer'[k + i] = m
      BY <3>2
    <3> QED
      BY <1>2, <1>5, <3>3
  <2>3. CASE \A i \in 1..(k + o) : m # buffer[i]
    BY <1>1, <2>1, <2>2, <2>3
  <2>4. CASE \E i \in 1..(k + o) : m = buffer[i]
    <3>1. PICK i \in 1..(k + o) : m = buffer[i]
      BY <2>4
    <3>2. CASE i <= o
      BY <3>1, <3>2
    <3>3. CASE i > o
      <4>1. i - o \in 1..k /\ i = (i - o) + o
        BY <3>3
      <4>2. PICK j \in 1..k : i = j + o
        BY <4>1
      <4>3. j \in 1..(k + n) /\ buffer'[j] = m
        BY <3>1, <4>2
      <4> QED
        BY <1>2, <1>5, <4>3
    <3> QED
      BY <3>2, <3>3
  <2> QED
    BY <2>3, <2>4
<1>6. ASSUME NEW m, m \in Lost PROVE m \in Lost'
  <2>1. m \in (cleared + 1)..(arrived + n) /\ m \notin removed /\ m <= arrived
    BY <1>1, <1>6
  <2>2. ASSUME NEW j \in 1..(k + n) PROVE m # buffer'[j]
    <3>1. CASE j \in 1..k
      <4>1. j + o \in 1..(k + o) /\ buffer'[j] = buffer[j + o]
        BY <3>1
      <4> QED
        BY <1>1, <1>6, <4>1
    <3>2. CASE \E i \in 1..n : j = k + i
      <4>1. PICK i \in 1..n : j = k + i
        BY <3>2
      <4>2. buffer'[j] = arrived + i
        BY <4>1
      <4>3. arrived + i > arrived /\ m \in Nat
        BY <1>1, <2>1
      <4> QED
        BY <1>1, <2>1, <4>2, <4>3
    <3> QED
      BY <1>4, <3>1, <3>2
  <2> QED
    BY <1>2, <2>1, <2>2
<1>7. ASSUME NEW i \in 1..o PROVE buffer[i] \in Lost'
  <2>1. i \in 1..(k + o)
    OBVIOUS
  <2>2. /\ buffer[i] \in Nat /\ buffer[i] > cleared /\ buffer[i] <= arrived
        /\ buffer[i] \notin removed
    BY <1>1, <1>3, <2>1
  <2>3. ASSUME NEW j \in 1..(k + n) PROVE buffer[i] # buffer'[j]
    <3>1. CASE j \in 1..k
      <4>1. j + o \in 1..(k + o) /\ i < j + o /\ buffer'[j] = buffer[j + o]
        BY <3>1
      <4>2. buffer[i] < buffer[j + o] /\ buffer[j + o] \in Nat
        BY <1>1, <1>3, <2>1, <4>1
      <4> QED
        BY <2>2, <4>1, <4>2
    <3>2. CASE \E m \in 1..n : j = k + m
      <4>1. PICK m \in 1..n : j = k + m
        BY <3>2
      <4>2. buffer'[j] = arrived + m
        BY <4>1
      <4>3. arrived + m > arrived
        BY <1>1
      <4> QED
        BY <1>1, <2>2, <4>2, <4>3
    <3> QED
      BY <1>4, <3>1, <3>2
  <2>4. buffer[i] \in (cleared + 1)..(arrived + n)
    BY <1>1, <2>2
  <2> QED
    BY <1>2, <2>2, <2>3, <2>4
<1> QED
  BY <1>5, <1>6, <1>7

(* The count of what is dropped grows by what a batch drops.               *)
LEMMA TriggerCounts ==
    ASSUME BInv, NEW n \in Nat, NEW o \in Nat, NEW k \in Nat,
           Len(buffer) = k + o, Len(buffer') = k + n, buffer' \in Seq(Nat),
           \A i \in 1..k : buffer'[i] = buffer[i + o],
           \A i \in 1..n : buffer'[k + i] = arrived + i,
           arrived' = arrived + n, cleared' = cleared, removed' = removed
    PROVE  Cardinality(Lost') = Cardinality(Lost) + o
<1> DEFINE d == {buffer[i] : i \in 1..o}
<1>1. \A m : m \in Lost' <=> m \in Lost \/ \E i \in 1..o : m = buffer[i]
  BY TriggerLoses
<1>2. buffer \in Seq(Nat) /\ o <= Len(buffer) /\ Increasing(buffer)
  <2>1. buffer \in Seq(Nat)
    BY BufferFacts DEF BInv
  <2>2. \A i, j \in 1..Len(buffer) : i < j => buffer[i] < buffer[j]
    BY Zenon DEF BInv, KeepsNewest
  <2>3. o <= Len(buffer)
    OBVIOUS
  <2> QED
    BY <2>1, <2>2, <2>3, Zenon DEF Increasing
<1>3. IsFiniteSet(d) /\ Cardinality(d) = o
  BY <1>2, FirstMessages
<1>4. IsFiniteSet(Lost) /\ Cardinality(Lost) \in Nat
  BY LostIsFinite DEF BInv
<1>5. Lost' = Lost \cup d
  BY <1>1
<1>6. Lost \cap d = {}
  <2> SUFFICES ASSUME NEW i \in 1..o, buffer[i] \in Lost PROVE FALSE
    OBVIOUS
  <2>1. i \in 1..Len(buffer)
    OBVIOUS
  <2> QED
    BY <2>1, LostByPlace DEF BInv
<1> HIDE DEF d
<1>7. Cardinality(Lost \cup d) = Cardinality(Lost) + Cardinality(d) - Cardinality(Lost \cap d)
  BY <1>3, <1>4, FS_Union
<1>8. Cardinality(Lost \cap d) = 0
  BY <1>6, FS_EmptySet
<1> QED
  BY <1>3, <1>4, <1>5, <1>7, <1>8

(* A batch leaves the buffer in the order of arrival, and what it drops is *)
(* older than what stays.                                                  *)
LEMMA TriggerSorted ==
    ASSUME BInv, NEW n \in Nat, NEW o \in Nat, NEW k \in Nat,
           Len(buffer) = k + o, Len(buffer') = k + n, buffer' \in Seq(Nat),
           \A i \in 1..k : buffer'[i] = buffer[i + o],
           \A i \in 1..n : buffer'[k + i] = arrived + i,
           arrived' = arrived + n, cleared' = cleared, removed' = removed
    PROVE  /\ \A i, j \in 1..(k + n) : i < j => buffer'[i] < buffer'[j]
           /\ \A i \in 1..(k + n) : /\ buffer'[i] > cleared /\ buffer'[i] <= arrived + n
                                    /\ buffer'[i] \notin removed
           /\ \A m \in Lost' : \A i \in 1..(k + n) : m < buffer'[i]
<1>1. /\ \A m \in Lost : m \in Nat /\ m <= arrived
      /\ arrived \in Nat /\ cleared \in Nat /\ cleared <= arrived
      /\ \A i \in 1..(k + o) : buffer[i] \in Nat
  BY LostByPlace, BufferFacts DEF BInv
<1>2. \A m : m \in Lost' <=> m \in Lost \/ \E i \in 1..o : m = buffer[i]
  BY TriggerLoses
<1>3. /\ \A i, j \in 1..(k + o) : i < j => buffer[i] < buffer[j]
      /\ \A i \in 1..(k + o) : buffer[i] > cleared /\ buffer[i] <= arrived
                                /\ buffer[i] \notin removed
      /\ \A m \in Lost : \A i \in 1..(k + o) : m < buffer[i]
      /\ \A m \in removed : m <= arrived
  BY DEF BInv, KeepsNewest, RemovedIsGone
<1>4. removed \subseteq Nat
  BY BufferFacts DEF BInv, BufferTypes
<1>5. ASSUME NEW j \in 1..(k + n)
      PROVE  \/ j \in 1..k /\ j + o \in 1..(k + o) /\ buffer'[j] = buffer[j + o]
             \/ \E i \in 1..n : j = k + i /\ buffer'[j] = arrived + i
  <2>1. CASE j \in 1..k
    <3>1. j + o \in 1..(k + o) /\ buffer'[j] = buffer[j + o]
      BY <2>1
    <3> QED
      BY <2>1, <3>1
  <2>2. CASE j \notin 1..k
    <3>1. j - k \in 1..n /\ j = k + (j - k)
      BY <2>2
    <3> QED
      BY <3>1
  <2> QED
    BY <2>1, <2>2
<1>6. ASSUME NEW i \in 1..(k + n), NEW j \in 1..(k + n), i < j PROVE buffer'[i] < buffer'[j]
  <2>1. CASE j \in 1..k
    <3>1. /\ i \in 1..k /\ i + o \in 1..(k + o) /\ j + o \in 1..(k + o) /\ i + o < j + o
          /\ buffer'[i] = buffer[i + o] /\ buffer'[j] = buffer[j + o]
      BY <1>6, <2>1
    <3> QED
      BY <1>3, <3>1
  <2>2. CASE \E b \in 1..n : j = k + b /\ buffer'[j] = arrived + b
    <3>1. PICK b \in 1..n : j = k + b /\ buffer'[j] = arrived + b
      BY <2>2
    <3>2. CASE i \in 1..k /\ i + o \in 1..(k + o) /\ buffer'[i] = buffer[i + o]
      <4>1. buffer[i + o] \in Nat /\ buffer[i + o] <= arrived
        BY <1>1, <1>3, <3>2
      <4> QED
        BY <1>1, <3>1, <3>2, <4>1
    <3>3. CASE \E a \in 1..n : i = k + a /\ buffer'[i] = arrived + a
      <4>1. PICK a \in 1..n : i = k + a /\ buffer'[i] = arrived + a
        BY <3>3
      <4> QED
        BY <1>1, <1>6, <3>1, <4>1
    <3> QED
      BY <1>5, <3>2, <3>3
  <2> QED
    BY <1>5, <2>1, <2>2
<1>7. ASSUME NEW i \in 1..(k + n)
      PROVE  buffer'[i] > cleared /\ buffer'[i] <= arrived + n /\ buffer'[i] \notin removed
  <2>1. CASE i \in 1..k /\ i + o \in 1..(k + o) /\ buffer'[i] = buffer[i + o]
    <3>1. /\ buffer[i + o] \in Nat /\ buffer[i + o] <= arrived /\ buffer[i + o] > cleared
          /\ buffer[i + o] \notin removed
      BY <1>1, <1>3, <2>1
    <3> QED
      BY <1>1, <2>1, <3>1
  <2>2. CASE \E a \in 1..n : i = k + a /\ buffer'[i] = arrived + a
    <3>1. PICK a \in 1..n : buffer'[i] = arrived + a
      BY <2>2
    <3>2. arrived + a > cleared /\ arrived + a <= arrived + n /\ ~(arrived + a <= arrived)
      BY <1>1
    <3> QED
      BY <1>3, <3>1, <3>2
  <2> QED
    BY <1>5, <2>1, <2>2
<1>8. ASSUME NEW m \in Lost', NEW i \in 1..(k + n) PROVE m < buffer'[i]
  <2>1. CASE i \in 1..k /\ i + o \in 1..(k + o) /\ buffer'[i] = buffer[i + o]
    <3>1. CASE m \in Lost
      BY <1>3, <2>1, <3>1
    <3>2. CASE \E j \in 1..o : m = buffer[j]
      <4>1. PICK j \in 1..o : m = buffer[j]
        BY <3>2
      <4>2. j \in 1..(k + o) /\ j < i + o
        BY <2>1
      <4> QED
        BY <1>3, <2>1, <4>1, <4>2
    <3> QED
      BY <1>2, <3>1, <3>2
  <2>2. CASE \E a \in 1..n : i = k + a /\ buffer'[i] = arrived + a
    <3>1. PICK a \in 1..n : buffer'[i] = arrived + a
      BY <2>2
    <3>2. m \in Nat /\ m <= arrived
      <4>1. CASE m \in Lost
        BY <1>1, <4>1
      <4>2. CASE \E j \in 1..o : m = buffer[j]
        <5>1. PICK j \in 1..o : m = buffer[j]
          BY <4>2
        <5>2. j \in 1..(k + o)
          OBVIOUS
        <5> QED
          BY <1>1, <1>3, <5>1, <5>2
      <4> QED
        BY <1>2, <4>1, <4>2
    <3> QED
      BY <1>1, <3>1, <3>2
  <2> QED
    BY <1>5, <2>1, <2>2
<1> QED
  BY <1>6, <1>7, <1>8

(* A batch keeps the buffer in order and the status bar true.              *)
LEMMA TriggerKeepsBuffer ==
    ASSUME BInv, NEW n \in 0..MaxBatch, TriggerNewMessages(n)
    PROVE  BInv'
<1>1. PICK o \in Nat, k \in Nat :
           /\ n \in Nat /\ Len(buffer) = k + o
           /\ buffer' \in Seq(Nat) /\ Len(buffer') = k + n /\ k + n <= MaxLength
           /\ \A i \in 1..k : buffer'[i] = buffer[i + o]
           /\ \A i \in 1..n : buffer'[k + i] = arrived + i
           /\ n = 0 => o = 0
           /\ counter' = [new |-> counter.new + n, message |-> k + n,
                          dropped |-> counter.dropped + o]
  BY TriggerFacts, Zenon
<1>2. /\ arrived' = arrived + n /\ arrived' <= MaxArrivals /\ cleared' = cleared
      /\ removed' = removed /\ selected' = selected
  BY DEF TriggerNewMessages, options
<1>3. /\ arrived \in Nat /\ cleared \in Nat /\ cleared <= arrived /\ MaxLength \in Nat
      /\ MaxArrivals \in Nat
  BY BufferFacts, MessageBufferAssumption DEF BInv
<1>4. /\ counter.new \in Nat /\ counter.dropped \in Nat
      /\ counter.dropped = Cardinality(Lost)
  BY DEF BInv, BufferTypes, CountersAreTrue
<1>5. /\ \A i, j \in 1..(k + n) : i < j => buffer'[i] < buffer'[j]
      /\ \A i \in 1..(k + n) : /\ buffer'[i] > cleared /\ buffer'[i] <= arrived + n
                               /\ buffer'[i] \notin removed
      /\ \A m \in Lost' : \A i \in 1..(k + n) : m < buffer'[i]
  BY <1>1, <1>2, TriggerSorted
<1>6. Cardinality(Lost') = Cardinality(Lost) + o
  BY <1>1, <1>2, TriggerCounts
<1>7. KeepsNewest'
  BY <1>1, <1>2, <1>5 DEF KeepsNewest
<1>8. CountersAreTrue'
  BY <1>1, <1>4, <1>6 DEF CountersAreTrue
<1>9. RemovedIsGone'
  <2>1. \A m \in removed : m \in Nat /\ m <= arrived
    BY BufferFacts DEF BInv, BufferTypes, RemovedIsGone
  <2>2. \A m \in removed : m <= arrived + n
    BY <1>1, <1>3, <2>1
  <2> QED
    BY <1>1, <1>2, <1>5, <2>2 DEF RemovedIsGone
<1>10. BufferTypes'
  <2>1. \A i \in 1..Len(buffer') : buffer'[i] \in Messages
    <3> SUFFICES ASSUME NEW i \in 1..(k + n) PROVE buffer'[i] \in Messages
      BY <1>1
    <3>1. buffer'[i] \in Nat /\ buffer'[i] > cleared /\ buffer'[i] <= arrived + n
      BY <1>1, <1>5
    <3> QED
      BY <1>1, <1>2, <1>3, <3>1 DEF Messages
  <2>2. buffer' \in Seq(Messages)
    BY <1>1, <2>1, SeqNarrows
  <2>3. counter' \in [new : Nat, message : Nat, dropped : Nat]
    BY <1>1, <1>4, SMTT(30)
  <2>4. arrived' \in 0..MaxArrivals /\ cleared' \in 0..arrived'
    BY <1>1, <1>2, <1>3
  <2>5. selected' \in SUBSET Messages /\ removed' \in SUBSET Messages
    BY <1>2 DEF BInv, BufferTypes
  <2> QED
    BY <2>2, <2>3, <2>4, <2>5 DEF BufferTypes
<1> QED
  BY <1>7, <1>8, <1>9, <1>10 DEF BInv

(* What clears the buffer starts the count anew.                           *)
LEMMA ClearKeepsBuffer == ASSUME BInv, ClearView PROVE BInv'
<1>1. /\ buffer' = <<>> /\ counter' = ZeroCounter /\ cleared' = arrived /\ removed' = {}
      /\ arrived' = arrived /\ selected' = selected
  BY DEF ClearView, options
<1>2. arrived \in Nat /\ Len(<<>>) = 0 /\ <<>> \in Seq(Messages)
  BY BufferFacts DEF BInv
<1>3. Lost' = {}
  BY <1>1, <1>2 DEF Lost
<1>4. Cardinality({}) = 0
  BY FS_EmptySet
<1>5. KeepsNewest'
  BY <1>1, <1>2, <1>3, MessageBufferAssumption DEF KeepsNewest
<1>6. CountersAreTrue'
  BY <1>1, <1>2, <1>3, <1>4 DEF CountersAreTrue, ZeroCounter
<1>7. BufferTypes'
  BY <1>1, <1>2 DEF BInv, BufferTypes, ZeroCounter
<1>8. RemovedIsGone'
  BY <1>1, <1>2 DEF RemovedIsGone
<1> QED
  BY <1>5, <1>6, <1>7, <1>8 DEF BInv

(* What the user removes is not counted as dropped.                        *)
LEMMA ClearSelectedKeepsBuffer == ASSUME BInv, ClearSelectedMessages PROVE BInv'
<1> DEFINE rest == Filtered(buffer, Messages \ selected)
<1>1. /\ buffer' = rest /\ counter' = [counter EXCEPT !.message = Len(rest)]
      /\ removed' = removed \cup (selected \cap ToSet(buffer))
      /\ arrived' = arrived /\ cleared' = cleared /\ selected' = selected
  BY DEF ClearSelectedMessages, options
<1>2. /\ Messages \subseteq Nat /\ buffer \in Seq(Nat) /\ Len(buffer) \in Nat
      /\ DOMAIN buffer = 1..Len(buffer)
      /\ \A i \in 1..Len(buffer) : buffer[i] \in Messages /\ buffer[i] \in Nat
      /\ arrived \in Nat /\ cleared \in Nat /\ MaxLength \in Nat
  BY BufferFacts DEF BInv
<1>3. rest \in Seq(Messages) /\ Prefix(buffer, Messages \ selected, rest, Len(buffer))
  BY <1>2, FilteredFacts DEF BInv, BufferTypes
<1> HIDE DEF rest
<1>4. buffer' \in Seq(Messages) /\ Len(buffer') \in Nat /\ DOMAIN (buffer') = 1..Len(buffer')
  BY <1>1, <1>3
<1>5. /\ Len(buffer') <= Len(buffer)
      /\ \A j \in 1..Len(buffer') : \E i \in 1..Len(buffer) :
            buffer[i] \in Messages \ selected /\ buffer'[j] = buffer[i]
      /\ \A i \in 1..Len(buffer) : buffer[i] \in Messages \ selected =>
            \E j \in 1..Len(buffer') : buffer'[j] = buffer[i]
  BY <1>1, <1>3 DEF Prefix
<1>6. \A i, j \in 1..Len(buffer') : i < j => buffer'[i] < buffer'[j]
  <2>1. Increasing(buffer)
    BY Zenon DEF Increasing, BInv, KeepsNewest
  <2> QED
    BY <1>1, <1>3, <2>1, Zenon DEF Prefix, Increasing
<1>7. ToSet(buffer') = ToSet(buffer) \ selected
  <2>1. ASSUME NEW x \in ToSet(buffer') PROVE x \in ToSet(buffer) \ selected
    <3>1. PICK j \in 1..Len(buffer') : x = buffer'[j]
      BY <1>4 DEF ToSet
    <3>2. PICK i \in 1..Len(buffer) : buffer[i] \in Messages \ selected /\ buffer'[j] = buffer[i]
      BY <1>5
    <3> QED
      BY <1>2, <3>1, <3>2 DEF ToSet
  <2>2. ASSUME NEW x \in ToSet(buffer), x \notin selected PROVE x \in ToSet(buffer')
    <3>1. PICK i \in 1..Len(buffer) : x = buffer[i]
      BY <1>2 DEF ToSet
    <3>2. PICK j \in 1..Len(buffer') : buffer'[j] = buffer[i]
      BY <1>2, <1>5, <2>2, <3>1
    <3> QED
      BY <1>4, <3>1, <3>2 DEF ToSet
  <2> QED
    BY <2>1, <2>2
<1>8. Lost' = Lost
  BY <1>1, <1>7 DEF Lost
<1>9. KeepsNewest'
  <2>1. Len(buffer') <= MaxLength
    BY <1>2, <1>4, <1>5 DEF BInv, KeepsNewest
  <2>2. \A j \in 1..Len(buffer') : buffer'[j] > cleared
    BY <1>5 DEF BInv, KeepsNewest
  <2>3. \A m \in Lost : \A j \in 1..Len(buffer') : m < buffer'[j]
    BY <1>5 DEF BInv, KeepsNewest
  <2> QED
    BY <1>1, <1>6, <1>8, <2>1, <2>2, <2>3 DEF KeepsNewest
<1>10. counter' \in [new : Nat, message : Nat, dropped : Nat]
       /\ counter'.message = Len(buffer') /\ counter'.dropped = counter.dropped
  BY <1>1, <1>4 DEF BInv, BufferTypes
<1>11. CountersAreTrue'
  BY <1>8, <1>10 DEF BInv, CountersAreTrue
<1>12. BufferTypes'
  <2>1. removed' \in SUBSET Messages
    BY <1>1 DEF BInv, BufferTypes
  <2> QED
    BY <1>1, <1>4, <1>10, <2>1 DEF BInv, BufferTypes
<1>13. RemovedIsGone'
  <2>1. ASSUME NEW m \in removed' PROVE m <= arrived
    <3>1. CASE m \in removed
      BY <3>1 DEF BInv, RemovedIsGone
    <3>2. CASE m \in ToSet(buffer)
      BY <1>2, <3>2 DEF BInv, RemovedIsGone, ToSet
    <3> QED
      BY <1>1, <3>1, <3>2
  <2>2. ASSUME NEW j \in 1..Len(buffer') PROVE buffer'[j] <= arrived /\ buffer'[j] \notin removed'
    <3>1. PICK i \in 1..Len(buffer) : buffer[i] \in Messages \ selected /\ buffer'[j] = buffer[i]
      BY <1>5
    <3>2. buffer[i] <= arrived /\ buffer[i] \notin removed
      BY DEF BInv, RemovedIsGone
    <3> QED
      BY <1>1, <3>1, <3>2
  <2> QED
    BY <1>1, <2>1, <2>2 DEF RemovedIsGone
<1> QED
  BY <1>9, <1>11, <1>12, <1>13 DEF BInv

(* What leaves buffer, counts and history alone.                           *)
LEMMA SameBuffer ==
    ASSUME BInv, UNCHANGED <<buffer, history>>, selected' \in SUBSET Messages,
           counter' \in [new : Nat, message : Nat, dropped : Nat],
           counter'.message = counter.message, counter'.dropped = counter.dropped
    PROVE  BInv'
<1>1. /\ buffer' = buffer /\ arrived' = arrived /\ cleared' = cleared /\ removed' = removed
  BY DEF history
<1>2. Lost' = Lost
  BY <1>1 DEF Lost
<1>3. KeepsNewest' /\ CountersAreTrue'
  BY <1>1, <1>2 DEF BInv, KeepsNewest, CountersAreTrue
<1>4. BufferTypes' /\ RemovedIsGone'
  BY <1>1 DEF BInv, BufferTypes, RemovedIsGone
<1> QED
  BY <1>3, <1>4 DEF BInv

(* BInv holds at the start and is preserved by every step.                 *)
THEOREM BufferInvariant == Spec => []BInv
<1>1. Init => BInv
  <2> SUFFICES ASSUME Init PROVE BInv
    OBVIOUS
  <2>1. /\ buffer = <<>> /\ counter = ZeroCounter /\ arrived = 0 /\ cleared = 0
        /\ removed = {} /\ selected = {}
    BY DEF Init
  <2>2. Lost = {} /\ Cardinality({}) = 0 /\ Len(<<>>) = 0 /\ <<>> \in Seq(Messages)
    BY <2>1, FS_EmptySet DEF Lost
  <2>3. KeepsNewest
    BY <2>1, <2>2, MessageBufferAssumption DEF KeepsNewest
  <2>4. CountersAreTrue
    BY <2>1, <2>2 DEF CountersAreTrue, ZeroCounter
  <2>5. BufferTypes
    BY <2>1, <2>2, MessageBufferAssumption DEF BufferTypes, ZeroCounter
  <2>6. RemovedIsGone
    BY <2>1, <2>2 DEF RemovedIsGone
  <2> QED
    BY <2>3, <2>4, <2>5, <2>6 DEF BInv
<1>2. BInv /\ [Next]_vars => BInv'
  <2> SUFFICES ASSUME BInv, [Next]_vars PROVE BInv'
    OBVIOUS
  <2>0. /\ selected \in SUBSET Messages
        /\ counter \in [new : Nat, message : Nat, dropped : Nat]
    BY DEF BInv, BufferTypes
  <2>1. ASSUME NEW n \in 0..MaxBatch, TriggerNewMessages(n) PROVE BInv'
    BY <2>1, TriggerKeepsBuffer
  <2>2. CASE MessageReadyTimer
    BY <2>0, <2>2, SameBuffer DEF MessageReadyTimer, options
  <2>3. CASE ApplyNewMessageLayout
    BY <2>0, <2>3, SameBuffer DEF ApplyNewMessageLayout, options
  <2>4. CASE OnScroll
    BY <2>0, <2>4, SameBuffer DEF OnScroll, options
  <2>5. CASE ResizeTimer
    BY <2>0, <2>5, SameBuffer DEF ResizeTimer, options
  <2>6. CASE Resume
    BY <2>0, <2>6, SameBuffer DEF Resume, options
  <2>7. CASE User
    <3>1. CASE ClearView
      BY <3>1, ClearKeepsBuffer
    <3>2. CASE ClearSelectedMessages
      BY <3>2, ClearSelectedKeepsBuffer
    <3>3. CASE MsgTypeToggle
      BY <2>0, <3>3, SameBuffer DEF MsgTypeToggle
    <3>4. CASE FollowToggle
      BY <2>0, <3>4, SameBuffer DEF FollowToggle
    <3>5. ASSUME NEW m \in 1..arrived, NEW extend \in BOOLEAN, Select(m, extend) PROVE BInv'
      <4>1. m \in Messages
        BY MessageBufferAssumption DEF BInv, BufferTypes, Messages
      <4>2. selected' \in SUBSET Messages
        BY <2>0, <3>5, <4>1 DEF Select
      <4> QED
        BY <2>0, <3>5, <4>2, SameBuffer DEF Select
    <3>6. CASE Pause
      BY <2>0, <3>6, SameBuffer DEF Pause, options
    <3>7. ASSUME NEW y \in 0..Bottom, Scroll(y) PROVE BInv'
      BY <2>0, <3>7, SameBuffer DEF Scroll, options
    <3>8. ASSUME NEW h \in Heights, Resize(h) PROVE BInv'
      BY <2>0, <3>8, SameBuffer DEF Resize
    <3> QED
      BY <2>7, <3>1, <3>2, <3>3, <3>4, <3>5, <3>6, <3>7, <3>8, Zenon DEF User
  <2>8. CASE UNCHANGED vars
    BY <2>0, <2>8, SameBuffer DEF vars, options, history
  <2> QED
    BY <2>1, <2>2, <2>3, <2>4, <2>5, <2>6, <2>7, <2>8, Zenon DEF Next
<1> QED
  BY <1>1, <1>2, PTL DEF Spec

(* The buffer never grows beyond its limit, holds each message once and in *)
(* the order of arrival, and loses only the oldest: triggerNewMessages with *)
(* the two ways to clear, in any order, for any limit and batch.           *)
THEOREM KeepsNewestEver == Spec => []KeepsNewest
<1>1. BInv => KeepsNewest
  BY Zenon DEF BInv
<1> QED
  BY <1>1, BufferInvariant, PTL

(* The status bar counts the messages in the buffer, and as dropped those  *)
(* that are neither there nor removed, whatever came, was dropped, removed *)
(* or cleared before.                                                      *)
THEOREM CountersEver == Spec => []CountersAreTrue
<1>1. BInv => CountersAreTrue
  BY Zenon DEF BInv
<1> QED
  BY <1>1, BufferInvariant, PTL

-----------------------------------------------------------------------------
(* The screen.                                                             *)

(* A quotient of natural numbers is one.                                   *)
LEMMA Quotient == ASSUME NEW a \in Nat, NEW b \in Nat \ {0} PROVE a \div b \in Nat
OBVIOUS

(* A product of natural numbers is one.                                    *)
LEMMA Product == ASSUME NEW a \in Nat, NEW b \in Nat PROVE a * b \in Nat
OBVIOUS

(* How much more one number is than another.                               *)
LEMMA Excess == ASSUME NEW a \in Nat, NEW b \in Nat PROVE (IF a > b THEN a - b ELSE 0) \in Nat
OBVIOUS

(* What the rows are computed from.                                        *)
RowsArgs ==
    buffer \in Seq(Messages) /\ height \in Heights /\ total \in Nat /\ top \in Nat

(* The first row and the number of rows are natural numbers, for any place *)
(* of the table.                                                           *)
LEMMA TargetType == RowsArgs => TargetIdx \in Nat /\ RowLimit \in Nat
<1> SUFFICES ASSUME RowsArgs PROVE TargetIdx \in Nat /\ RowLimit \in Nat
  OBVIOUS
<1>1. /\ Len(buffer) \in Nat /\ total \in Nat /\ top \in Nat /\ height \in Nat
      /\ RowHeight \in Nat \ {0} /\ MaxLength \in Nat
  BY MessageBufferAssumption DEF RowsArgs
<1>2. RowLimit \in Nat
  <2>1. height \div RowHeight \in Nat
    BY <1>1, Quotient
  <2> QED
    BY <1>1, <2>1, Zenon DEF RowLimit
<1>3. TargetIdx \in Nat
  <2>1. CASE top = 0 \/ total = 0
    BY <1>1, <2>1 DEF TargetIdx
  <2>2. CASE ~(top = 0 \/ total = 0)
    <3>1. 2 * Len(buffer) * top + total \in Nat
      <4>1. 2 * Len(buffer) \in Nat
        BY <1>1
      <4>2. 2 * Len(buffer) * top \in Nat
        BY <1>1, <4>1, Product
      <4> QED
        BY <1>1, <4>2
    <3>2. 2 * total \in Nat \ {0}
      BY <1>1, <2>2
    <3>3. (2 * Len(buffer) * top + total) \div (2 * total) \in Nat
      BY <3>1, <3>2, Quotient
    <3>4. TargetIdx = (2 * Len(buffer) * top + total) \div (2 * total)
      BY <2>2, Zenon DEF TargetIdx
    <3> QED
      BY <3>3, <3>4
  <2> QED
    BY <2>1, <2>2
<1> QED
  BY <1>2, <1>3

(* The rows are messages of the buffer, and none if it is empty.           *)
LEMMA RowsType == RowsArgs => Rows \in Seq(Messages) /\ (buffer = <<>> => Rows = <<>>)
<1> SUFFICES ASSUME RowsArgs PROVE Rows \in Seq(Messages) /\ (buffer = <<>> => Rows = <<>>)
  OBVIOUS
<1>1. PICK t \in Nat : t = TargetIdx
  BY TargetType, Zenon
<1>2. PICK l \in Nat : l = RowLimit
  BY TargetType, Zenon
<1>3. PICK s : s = SubSeq(buffer, t + 1, Len(buffer))
  OBVIOUS
<1>4. s \in Seq(Messages) /\ (buffer = <<>> => Len(s) = 0)
  BY <1>3 DEF RowsArgs
<1>5. Messages \subseteq Nat
  BY MessageBufferAssumption DEF Messages
<1>6. PICK r : r = Filtered(s, Viewable)
  OBVIOUS
<1>7. r \in Seq(Messages) /\ Prefix(s, Viewable, r, Len(s))
  BY <1>4, <1>5, <1>6, FilteredFacts
<1>8. buffer = <<>> => Len(r) = 0
  BY <1>4, <1>7 DEF Prefix
<1>9. Rows = SubSeq(r, 1, IF Len(r) < l THEN Len(r) ELSE l)
  BY <1>1, <1>2, <1>3, <1>6, Zenon DEF Rows
<1>10. PICK e \in 0..Len(r) : e = IF Len(r) < l THEN Len(r) ELSE l
  BY <1>7
<1>11. SubSeq(r, 1, e) \in Seq(Messages) /\ (Len(r) = 0 => SubSeq(r, 1, e) = <<>>)
  BY <1>7
<1> QED
  BY <1>8, <1>9, <1>10, <1>11

(* The same after a step.                                                  *)
LEMMA RowsTypeNext == RowsArgs' => (Rows \in Seq(Messages) /\ (buffer = <<>> => Rows = <<>>))'
BY RowsType, PTL

(* What a layout leaves behind: the container scrolled to a place it has,  *)
(* and either drawn rows or something that will draw them.                 *)
LEMMA LayoutFacts ==
    ASSUME UpdateLayout, buffer' \in Seq(Messages), height' \in Heights,
           top \in Nat, scrollTop \in Nat, scrolled \in BOOLEAN
    PROVE  /\ total' = RowHeight * Len(buffer') /\ total' \in Nat /\ top' = top
           /\ scrollTop' \in 0..Bottom'
           /\ scrolled' = (scrolled \/ scrollTop' # scrollTop)
           /\ \/ Draw
              \/ DrawLater /\ scrollTop' # scrollTop /\ height' < total'
              \/ stale' = TRUE /\ shown' = shown /\ height' < total'
<1>1. /\ RowHeight \in Nat /\ Len(buffer') \in Nat /\ height' \in Nat
  BY MessageBufferAssumption
<1>2. total' = RowHeight * Len(buffer') /\ top' = top
  BY DEF UpdateLayout
<1>3. total' \in Nat
  BY <1>1, <1>2, Product
<1>5. Bottom' \in Nat
  BY <1>1, <1>3, Excess, Zenon DEF Bottom
<1>6. CASE height' >= total' /\ ScrollTo(0) /\ Draw
  BY <1>2, <1>3, <1>5, <1>6 DEF ScrollTo
<1>7. CASE /\ height' < total' /\ follow' /\ ScrollTo(Bottom')
           /\ IF Clamped(Bottom') = Bottom' THEN Draw ELSE DrawLater
  <2>1. scrollTop' = Bottom' /\ scrolled' = (scrolled \/ scrollTop' # scrollTop)
    BY <1>7 DEF ScrollTo
  <2>2. Draw \/ (DrawLater /\ scrollTop' # scrollTop)
    <3>1. CASE Clamped(Bottom') = Bottom'
      BY <1>7, <3>1
    <3>2. CASE Clamped(Bottom') # Bottom'
      BY <1>5, <1>7, <2>1, <3>2 DEF Clamped
    <3> QED
      BY <3>1, <3>2
  <2>3. scrollTop' \in 0..Bottom'
    BY <1>5, <2>1
  <2> QED
    BY <1>2, <1>3, <1>7, <2>1, <2>2, <2>3
<1>8. CASE /\ height' < total' /\ ~follow' /\ ScrollTo(Clamped(Bottom'))
           /\ stale' = TRUE /\ UNCHANGED shown
  <2>1. scrollTop' = Clamped(Bottom') /\ scrolled' = (scrolled \/ scrollTop' # scrollTop)
    BY <1>8 DEF ScrollTo
  <2>2. scrollTop' \in 0..Bottom'
    BY <1>5, <2>1 DEF Clamped
  <2> QED
    BY <1>2, <1>3, <1>8, <2>1, <2>2
<1> QED
  BY <1>6, <1>7, <1>8, Zenon DEF UpdateLayout

(* While the buffer is empty, nothing is laid out and nothing is drawn:    *)
(* the timer that finds it empty has nothing to do.                        *)
EmptyIsDrawn == buffer = <<>> => total = 0 /\ shown = <<>>

(* The switches and the places, apart: the provers want them apart.        *)
SwitchTypes ==
    /\ paused \in BOOLEAN /\ msgTimer \in BOOLEAN /\ viewTimer \in BOOLEAN
    /\ sizeTimer \in BOOLEAN /\ typeOn \in BOOLEAN /\ follow \in BOOLEAN
    /\ scrolled \in BOOLEAN /\ stale \in BOOLEAN /\ quiet \in BOOLEAN /\ moved \in BOOLEAN
    /\ did \in 0..MaxUser

PlaceTypes ==
    /\ shown \in Seq(Messages) /\ height \in Heights
    /\ total \in Nat /\ top \in Nat /\ scrollTop \in 0..Bottom

(* The page, and the whole invariant of the buffer and the page.           *)
Shows == PlaceTypes /\ EmptyIsDrawn /\ ScreenIsPending

SInv == BInv /\ SwitchTypes /\ Shows

(* A layout sets its switches to truth values.                             *)
LEMMA LayoutSwitches ==
    ASSUME SwitchTypes, UpdateLayout
    PROVE  scrolled' \in BOOLEAN /\ stale' \in BOOLEAN /\ quiet' \in BOOLEAN /\ moved' \in BOOLEAN
<1>1. scrolled' \in BOOLEAN /\ stale' \in BOOLEAN
  <2>1. scrolled \in BOOLEAN /\ stale \in BOOLEAN
    BY DEF SwitchTypes
  <2>2. ASSUME NEW y, ScrollTo(y) PROVE scrolled' \in BOOLEAN
    BY <2>2, Zenon DEF ScrollTo
  <2>3. stale' = FALSE \/ stale' = TRUE \/ stale' = stale
    BY Zenon DEF UpdateLayout, Draw, DrawLater
  <2> QED
    BY <2>1, <2>2, <2>3, Zenon DEF UpdateLayout
<1>2. quiet' \in BOOLEAN /\ moved' \in BOOLEAN
  BY Zenon DEF UpdateLayout
<1> QED
  BY <1>1, <1>2

(* The switches are truth values after every step.                         *)
LEMMA SwitchesStay == ASSUME SwitchTypes, [Next]_vars PROVE SwitchTypes'
<1>0. /\ paused \in BOOLEAN /\ msgTimer \in BOOLEAN /\ viewTimer \in BOOLEAN
      /\ sizeTimer \in BOOLEAN /\ typeOn \in BOOLEAN /\ follow \in BOOLEAN
      /\ scrolled \in BOOLEAN /\ stale \in BOOLEAN /\ quiet \in BOOLEAN /\ moved \in BOOLEAN
      /\ did \in 0..MaxUser /\ MaxUser \in Nat
  BY MessageBufferAssumption DEF SwitchTypes
<1>1. ASSUME NEW n \in 0..MaxBatch, TriggerNewMessages(n) PROVE SwitchTypes'
  BY <1>0, <1>1 DEF SwitchTypes, TriggerNewMessages, place, options
<1>2. CASE MessageReadyTimer
  BY <1>0, <1>2 DEF SwitchTypes, MessageReadyTimer, place, screen, options
<1>3. CASE ApplyNewMessageLayout
  <2>1. /\ paused' = paused /\ msgTimer' = msgTimer /\ viewTimer' = FALSE
        /\ sizeTimer' = sizeTimer /\ typeOn' = typeOn /\ follow' = follow /\ did' = did
    BY <1>3 DEF ApplyNewMessageLayout, options
  <2>2. scrolled' \in BOOLEAN /\ stale' \in BOOLEAN /\ quiet' \in BOOLEAN /\ moved' \in BOOLEAN
    <3>1. CASE UNCHANGED <<place, screen>>
      BY <1>0, <3>1 DEF place, screen
    <3> QED
      BY <1>3, <3>1, LayoutSwitches DEF ApplyNewMessageLayout
  <2> QED
    BY <1>0, <2>1, <2>2 DEF SwitchTypes
<1>4. CASE OnScroll
  <2>1. stale' = FALSE
    BY <1>4 DEF OnScroll, Draw
  <2> QED
    BY <1>0, <1>4, <2>1 DEF SwitchTypes, OnScroll, timers, options
<1>5. CASE ResizeTimer
  <2>1. scrolled' \in BOOLEAN /\ stale' \in BOOLEAN /\ quiet' \in BOOLEAN /\ moved' \in BOOLEAN
    BY <1>5, LayoutSwitches DEF ResizeTimer
  <2>2. /\ paused' = paused /\ msgTimer' = msgTimer /\ viewTimer' = viewTimer
        /\ sizeTimer' = FALSE /\ typeOn' = typeOn /\ follow' = follow /\ did' = did
    BY <1>5 DEF ResizeTimer, options
  <2> QED
    BY <1>0, <2>1, <2>2 DEF SwitchTypes
<1>6. CASE Resume
  BY <1>0, <1>6 DEF SwitchTypes, Resume, timers, place, screen, options
<1>7. CASE User
  <2>1. did' \in 0..MaxUser
    BY <1>0, <1>7 DEF User
  <2>2. CASE ClearView \/ ClearSelectedMessages
    <3>1. /\ paused' = paused /\ msgTimer' = msgTimer /\ viewTimer' = viewTimer
          /\ sizeTimer' = sizeTimer /\ typeOn' = typeOn /\ follow' = follow
      BY <2>2 DEF ClearView, ClearSelectedMessages, timers, options
    <3>2. scrolled' \in BOOLEAN /\ stale' \in BOOLEAN /\ quiet' \in BOOLEAN /\ moved' \in BOOLEAN
      BY <2>2, LayoutSwitches DEF ClearView, ClearSelectedMessages
    <3> QED
      BY <1>0, <2>1, <3>1, <3>2 DEF SwitchTypes
  <2>3. CASE MsgTypeToggle
    <3>1. /\ paused' = paused /\ msgTimer' = msgTimer /\ viewTimer' = viewTimer
          /\ sizeTimer' = sizeTimer /\ follow' = follow
      BY <2>3 DEF MsgTypeToggle, timers
    <3>2. typeOn' \in BOOLEAN
      BY <2>3, Zenon DEF MsgTypeToggle
    <3>3. scrolled' \in BOOLEAN /\ stale' \in BOOLEAN /\ quiet' \in BOOLEAN /\ moved' \in BOOLEAN
      BY <2>3, LayoutSwitches DEF MsgTypeToggle
    <3> QED
      BY <1>0, <2>1, <3>1, <3>2, <3>3 DEF SwitchTypes
  <2>4. CASE FollowToggle
    BY <1>0, <2>1, <2>4 DEF SwitchTypes, FollowToggle, timers, place
  <2>5. ASSUME NEW m \in 1..arrived, NEW extend \in BOOLEAN, Select(m, extend) PROVE SwitchTypes'
    BY <1>0, <2>1, <2>5 DEF SwitchTypes, Select, timers, place
  <2>6. CASE Pause
    BY <1>0, <2>1, <2>6 DEF SwitchTypes, Pause, timers, place, screen, options
  <2>7. ASSUME NEW y \in 0..Bottom, Scroll(y) PROVE SwitchTypes'
    <3>1. scrolled' \in BOOLEAN
      BY <2>7, Zenon DEF Scroll, ScrollTo
    <3> QED
      BY <1>0, <2>1, <2>7, <3>1 DEF SwitchTypes, Scroll, timers, options
  <2>8. ASSUME NEW h \in Heights, Resize(h) PROVE SwitchTypes'
    <3>1. scrolled' \in BOOLEAN
      BY <2>8, Zenon DEF Resize, ScrollTo
    <3> QED
      BY <1>0, <2>1, <2>8, <3>1 DEF SwitchTypes, Resize, screen
  <2> QED
    BY <1>7, <2>2, <2>3, <2>4, <2>5, <2>6, <2>7, <2>8, Zenon DEF User
<1>8. CASE UNCHANGED vars
  BY <1>0, <1>8 DEF SwitchTypes, vars, timers, place, screen, options
<1> QED
  BY <1>1, <1>2, <1>3, <1>4, <1>5, <1>6, <1>7, <1>8, Zenon DEF Next

(* The rows depend on the buffer, the place and the options alone.         *)
LEMMA SameRows ==
    ASSUME UNCHANGED <<buffer, total, top, height, selected, typeOn>>
    PROVE  Rows' = Rows
<1>1. TargetIdx' = TargetIdx
  BY Zenon DEF TargetIdx
<1>2. RowLimit' = RowLimit
  BY Zenon DEF RowLimit
<1>3. Viewable' = Viewable
  BY Zenon DEF Viewable
<1>4. buffer' = buffer
  OBVIOUS
<1> QED
  BY <1>1, <1>2, <1>3, <1>4, Zenon DEF Rows

(* A layout leaves a page that agrees with the buffer, or will.            *)
LEMMA LayoutShows ==
    ASSUME SInv, UpdateLayout, buffer' \in Seq(Messages), height' \in Heights
    PROVE  Shows'
<1>1. /\ shown \in Seq(Messages) /\ top \in Nat /\ scrollTop \in Nat /\ scrolled \in BOOLEAN
  <2>1. Bottom \in Nat
    <3>1. total \in Nat /\ height \in Nat
      BY MessageBufferAssumption DEF SInv, Shows, PlaceTypes
    <3> QED
      BY <3>1, Excess, Zenon DEF Bottom
  <2>2. shown \in Seq(Messages) /\ top \in Nat /\ scrollTop \in 0..Bottom
    BY DEF SInv, Shows, PlaceTypes
  <2>3. scrolled \in BOOLEAN
    BY DEF SInv, SwitchTypes
  <2> QED
    BY <2>1, <2>2, <2>3
<1>2. /\ total' = RowHeight * Len(buffer') /\ total' \in Nat /\ top' = top
      /\ scrollTop' \in 0..Bottom'
      /\ scrolled' = (scrolled \/ scrollTop' # scrollTop)
      /\ \/ Draw
         \/ DrawLater /\ scrollTop' # scrollTop /\ height' < total'
         \/ stale' = TRUE /\ shown' = shown /\ height' < total'
  BY <1>1, LayoutFacts
<1>3. RowsArgs'
  BY <1>1, <1>2 DEF RowsArgs
<1>4. Rows' \in Seq(Messages) /\ (buffer' = <<>> => Rows' = <<>>)
  BY <1>3, RowsTypeNext
<1>5. PlaceTypes'
  <2>1. shown' \in Seq(Messages)
    <3>1. shown' = Rows' \/ shown' = shown
      BY <1>2, Zenon DEF Draw, DrawLater
    <3> QED
      BY <1>1, <1>4, <3>1
  <2> QED
    BY <1>1, <1>2, <2>1 DEF PlaceTypes
<1>6. EmptyIsDrawn'
  <2> SUFFICES ASSUME buffer' = <<>> PROVE total' = 0 /\ shown' = <<>>
    BY DEF EmptyIsDrawn
  <2>1. total' = 0
    <3>1. RowHeight \in Nat /\ Len(buffer') = 0
      BY MessageBufferAssumption
    <3> QED
      BY <1>2, <3>1
  <2>2. ~(height' < total')
    <3>1. height' \in Nat
      BY MessageBufferAssumption
    <3> QED
      BY <2>1, <3>1
  <2>3. Draw
    BY <1>2, <2>2
  <2> QED
    BY <1>4, <2>1, <2>3 DEF Draw
<1>7. LayoutIsPending'
  BY <1>2 DEF LayoutIsPending
<1>8. ViewIsPending'
  <2>1. CASE Draw
    BY <2>1, Zenon DEF Draw, ViewIsPending
  <2>2. CASE scrollTop' # scrollTop
    <3>1. scrolled'
      BY <1>2, <2>2, Zenon
    <3> QED
      BY <3>1, Zenon DEF ViewIsPending, Pending
  <2>3. CASE stale' = TRUE
    BY <2>3, Zenon DEF ViewIsPending
  <2> QED
    BY <1>2, <2>1, <2>2, <2>3, Zenon
<1> QED
  BY <1>5, <1>6, <1>7, <1>8 DEF Shows, ScreenIsPending

(* A step that leaves the page alone and ends nothing that is pending.     *)
LEMMA StillShows ==
    ASSUME Shows, UNCHANGED <<buffer, total, top, height, shown, selected, typeOn>>,
           scrollTop' \in 0..Bottom,
           msgTimer \/ viewTimer \/ sizeTimer \/ quiet
               => msgTimer' \/ viewTimer' \/ sizeTimer' \/ quiet',
           Pending \/ stale \/ quiet => Pending' \/ stale' \/ quiet'
    PROVE  Shows'
<1>1. Bottom' = Bottom
  BY Zenon DEF Bottom
<1>2. Rows' = Rows
  BY SameRows
<1>3. PlaceTypes'
  BY <1>1 DEF Shows, PlaceTypes
<1>4. EmptyIsDrawn'
  BY DEF Shows, EmptyIsDrawn
<1>5. LayoutIsPending'
  BY Zenon DEF Shows, ScreenIsPending, LayoutIsPending
<1>6. ViewIsPending'
  BY <1>2, Zenon DEF Shows, ScreenIsPending, ViewIsPending
<1> QED
  BY <1>3, <1>4, <1>5, <1>6 DEF Shows, ScreenIsPending

(* A page nobody has to redraw: one of the timers will.                    *)
LEMMA WillShow ==
    ASSUME PlaceTypes', EmptyIsDrawn', msgTimer' \/ viewTimer' \/ sizeTimer' \/ quiet'
    PROVE  Shows'
<1>1. LayoutIsPending' /\ ViewIsPending'
  BY Zenon DEF LayoutIsPending, ViewIsPending, Pending
<1> QED
  BY <1>1 DEF Shows, ScreenIsPending

(* A batch sets the timer, or is told of by quiet, or changes nothing.     *)
LEMMA TriggerShows ==
    ASSUME SInv, NEW n \in 0..MaxBatch, TriggerNewMessages(n)
    PROVE  Shows'
<1>1. PICK o \in Nat, k \in Nat :
           /\ n \in Nat /\ Len(buffer) = k + o
           /\ buffer' \in Seq(Nat) /\ Len(buffer') = k + n
           /\ \A i \in 1..k : buffer'[i] = buffer[i + o]
           /\ n = 0 => o = 0
  BY TriggerFacts, Zenon DEF SInv
<1>2. UNCHANGED <<viewTimer, sizeTimer, total, scrollTop, scrolled, top, shown, stale,
                  selected, typeOn, height>>
  BY DEF TriggerNewMessages, place, options
<1>3. msgTimer' = (msgTimer \/ ~paused) /\ quiet' = (paused /\ (quiet \/ n > 0))
  BY DEF TriggerNewMessages
<1>4. buffer \in Seq(Nat)
  BY BufferFacts DEF SInv, BInv
<1>5. CASE n = 0 /\ paused
  <2>1. buffer' = buffer
    BY <1>1, <1>4, <1>5
  <2>2. scrollTop' \in 0..Bottom
    BY <1>2 DEF SInv, Shows, PlaceTypes
  <2>3. (msgTimer' <=> msgTimer) /\ (quiet' <=> quiet)
    <3>1. ~(n > 0)
      BY <1>5
    <3> QED
      BY <1>3, <1>5, <3>1, Zenon
  <2>4. /\ msgTimer \/ viewTimer \/ sizeTimer \/ quiet
               => msgTimer' \/ viewTimer' \/ sizeTimer' \/ quiet'
        /\ Pending \/ stale \/ quiet => Pending' \/ stale' \/ quiet'
    BY <1>2, <2>3, Zenon DEF Pending
  <2> QED
    BY <1>2, <2>1, <2>2, <2>4, StillShows DEF SInv
<1>6. CASE n > 0 \/ ~paused
  <2>1. msgTimer' \/ quiet'
    <3>1. CASE paused
      BY <1>3, <1>6, <3>1, Zenon
    <3>2. CASE ~paused
      BY <1>3, <3>2, Zenon
    <3> QED
      BY <3>1, <3>2
  <2>2. PlaceTypes'
    <3>1. Bottom' = Bottom
      BY <1>2, Zenon DEF Bottom
    <3> QED
      BY <1>2, <3>1 DEF SInv, Shows, PlaceTypes
  <2>3. EmptyIsDrawn'
    <3> SUFFICES ASSUME buffer' = <<>> PROVE total' = 0 /\ shown' = <<>>
      BY DEF EmptyIsDrawn
    <3>1. Len(buffer') = 0
      OBVIOUS
    <3>2. Len(buffer) = 0
      BY <1>1, <3>1
    <3>3. buffer = <<>>
      BY <1>4, <3>2
    <3> QED
      BY <1>2, <3>3 DEF SInv, Shows, EmptyIsDrawn
  <2> QED
    BY <2>1, <2>2, <2>3, WillShow
<1> QED
  BY <1>1, <1>5, <1>6

(* Every step keeps Shows.                                                 *)
LEMMA StepShows == ASSUME SInv, [Next]_vars, BInv' PROVE Shows'
<1>0. /\ Shows /\ buffer \in Seq(Messages) /\ buffer' \in Seq(Messages)
      /\ height \in Heights /\ scrollTop \in 0..Bottom
  BY DEF SInv, BInv, BufferTypes, Shows, PlaceTypes
<1>1. ASSUME NEW n \in 0..MaxBatch, TriggerNewMessages(n) PROVE Shows'
  BY <1>1, TriggerShows
<1>2. CASE MessageReadyTimer
  <2>1. UNCHANGED <<buffer, total, top, height, shown, selected, typeOn, scrollTop>>
    BY <1>2 DEF MessageReadyTimer, place, screen, options
  <2>2. viewTimer' = TRUE
    BY <1>2 DEF MessageReadyTimer
  <2> QED
    BY <1>0, <2>1, <2>2, StillShows DEF Pending
<1>3. CASE ApplyNewMessageLayout
  <2>1. height' = height
    BY <1>3 DEF ApplyNewMessageLayout, options
  <2>2. CASE buffer = <<>> /\ UNCHANGED <<place, screen>>
    <3>1. buffer' = <<>> /\ Len(<<>>) = 0 /\ height' = height
      BY <1>3, <2>2 DEF ApplyNewMessageLayout, options
    <3>2. total' = total /\ top' = top /\ scrollTop' = scrollTop /\ shown' = shown
      BY <2>2 DEF place, screen
    <3>3. total = 0 /\ shown = <<>>
      BY <2>2 DEF SInv, Shows, EmptyIsDrawn
    <3>4. PlaceTypes'
      <4>1. Bottom' = Bottom
        <5>1. total' = total /\ height' = height
          BY <3>1, <3>2
        <5> QED
          BY <5>1, Zenon DEF Bottom
      <4> QED
        BY <3>1, <3>2, <4>1 DEF SInv, Shows, PlaceTypes
    <3>5. EmptyIsDrawn'
      BY <3>2, <3>3 DEF EmptyIsDrawn
    <3>6. RowsArgs'
      BY <1>0, <3>4 DEF PlaceTypes, RowsArgs
    <3>7. Rows' = <<>>
      BY <3>1, <3>6, RowsTypeNext
    <3>8. LayoutIsPending'
      <4>1. RowHeight \in Nat
        BY MessageBufferAssumption
      <4>2. total' = RowHeight * Len(buffer')
        BY <3>1, <3>2, <3>3, <4>1
      <4> QED
        BY <4>2, Zenon DEF LayoutIsPending
    <3>9. ViewIsPending'
      BY <3>2, <3>3, <3>7, Zenon DEF ViewIsPending
    <3> QED
      BY <3>4, <3>5, <3>8, <3>9 DEF Shows, ScreenIsPending
  <2>3. CASE UpdateLayout
    BY <1>0, <2>1, <2>3, LayoutShows
  <2> QED
    BY <1>3, <2>2, <2>3, Zenon DEF ApplyNewMessageLayout
<1>4. CASE OnScroll
  <2>1. /\ scrolled' = FALSE /\ top' = scrollTop /\ shown' = Rows'
        /\ UNCHANGED <<buffer, msgTimer, viewTimer, sizeTimer, total, scrollTop, quiet, height>>
    BY <1>4 DEF OnScroll, Draw, timers, options
  <2>2. Bottom' = Bottom /\ Bottom \in Nat
    <3>1. total \in Nat /\ height \in Nat
      BY MessageBufferAssumption DEF SInv, Shows, PlaceTypes
    <3>2. Bottom \in Nat
      BY <3>1, Excess, Zenon DEF Bottom
    <3>3. total' = total /\ height' = height
      BY <2>1
    <3>4. Bottom' = Bottom
      BY <3>3, Zenon DEF Bottom
    <3> QED
      BY <3>2, <3>4
  <2>3. RowsArgs'
    <3>1. scrollTop \in Nat
      BY <1>0, <2>2
    <3> QED
      BY <1>0, <2>1, <3>1 DEF SInv, Shows, PlaceTypes, RowsArgs
  <2>4. Rows' \in Seq(Messages) /\ (buffer' = <<>> => Rows' = <<>>)
    BY <2>3, RowsTypeNext
  <2>5. PlaceTypes'
    <3>1. shown' \in Seq(Messages) /\ scrollTop' \in 0..Bottom'
      BY <1>0, <2>1, <2>2, <2>4
    <3> QED
      BY <2>3, <3>1 DEF RowsArgs, PlaceTypes
  <2>6. EmptyIsDrawn'
    BY <2>1, <2>4 DEF SInv, Shows, EmptyIsDrawn
  <2>7. ViewIsPending'
    BY <2>1, Zenon DEF ViewIsPending
  <2>8. LayoutIsPending'
    BY <2>1, Zenon DEF SInv, Shows, ScreenIsPending, LayoutIsPending
  <2> QED
    BY <2>5, <2>6, <2>7, <2>8 DEF Shows, ScreenIsPending
<1>5. CASE ResizeTimer
  BY <1>0, <1>5, LayoutShows DEF ResizeTimer, options
<1>6. CASE Resume
  <2>1. /\ UNCHANGED <<buffer, total, top, height, shown, selected, typeOn, scrollTop>>
        /\ UNCHANGED <<msgTimer, viewTimer, sizeTimer, scrolled, stale, quiet>>
    BY <1>6 DEF Resume, timers, place, screen, options
  <2> QED
    BY <1>0, <2>1, StillShows DEF Pending
<1>7. CASE User
  <2>1. CASE ClearView
    BY <1>0, <2>1, LayoutShows DEF ClearView, options
  <2>2. CASE ClearSelectedMessages
    BY <1>0, <2>2, LayoutShows DEF ClearSelectedMessages, options
  <2>3. CASE MsgTypeToggle
    BY <1>0, <2>3, LayoutShows DEF MsgTypeToggle
  <2>4. CASE FollowToggle
    <3>1. /\ UNCHANGED <<buffer, total, top, height, shown, selected, typeOn, scrollTop>>
          /\ UNCHANGED <<msgTimer, viewTimer, sizeTimer, scrolled, stale, quiet>>
      BY <2>4 DEF FollowToggle, timers, place
    <3> QED
      BY <1>0, <3>1, StillShows DEF Pending
  <2>5. ASSUME NEW m \in 1..arrived, NEW extend \in BOOLEAN, Select(m, extend) PROVE Shows'
    <3>1. /\ UNCHANGED <<buffer, total, top, height, shown, scrollTop>> /\ stale' = TRUE
          /\ UNCHANGED <<msgTimer, viewTimer, sizeTimer, quiet>>
      BY <2>5 DEF Select, timers, place
    <3>2. Bottom' = Bottom
      BY <3>1, Zenon DEF Bottom
    <3>3. PlaceTypes' /\ EmptyIsDrawn'
      BY <3>1, <3>2 DEF SInv, Shows, PlaceTypes, EmptyIsDrawn
    <3>4. LayoutIsPending'
      BY <3>1, Zenon DEF SInv, Shows, ScreenIsPending, LayoutIsPending
    <3>5. ViewIsPending'
      BY <3>1, Zenon DEF ViewIsPending
    <3> QED
      BY <3>3, <3>4, <3>5 DEF Shows, ScreenIsPending
  <2>6. CASE Pause
    <3>1. /\ UNCHANGED <<buffer, total, top, height, shown, selected, typeOn, scrollTop>>
          /\ UNCHANGED <<msgTimer, viewTimer, sizeTimer, scrolled, stale, quiet>>
      BY <2>6 DEF Pause, timers, place, screen, options
    <3> QED
      BY <1>0, <3>1, StillShows DEF Pending
  <2>7. ASSUME NEW y \in 0..Bottom, Scroll(y) PROVE Shows'
    <3>1. /\ UNCHANGED <<buffer, total, top, height, shown, selected, typeOn>>
          /\ UNCHANGED <<msgTimer, viewTimer, sizeTimer, stale, quiet>> /\ scrollTop' = y
      BY <2>7 DEF Scroll, ScrollTo, timers, options
    <3>2. scrolled'
      BY <2>7, Zenon DEF Scroll, ScrollTo
    <3> QED
      BY <1>0, <3>1, <3>2, StillShows DEF Pending
  <2>8. ASSUME NEW h \in Heights, Resize(h) PROVE Shows'
    <3>1. /\ UNCHANGED <<buffer, total, top, shown>> /\ height' = h /\ sizeTimer' = TRUE
          /\ scrollTop' = Clamped(Bottom')
      BY <2>8 DEF Resize, ScrollTo, screen
    <3>2. /\ total' \in Nat /\ height' \in Nat /\ Bottom \in Nat
      <4>1. total \in Nat /\ height \in Nat /\ h \in Nat
        BY MessageBufferAssumption DEF SInv, Shows, PlaceTypes
      <4>2. Bottom \in Nat
        BY <4>1, Excess, Zenon DEF Bottom
      <4> QED
        BY <3>1, <4>1, <4>2
    <3>3. Bottom' \in Nat
      BY <3>2, Excess, Zenon DEF Bottom
    <3>4. scrollTop' \in 0..Bottom'
      BY <1>0, <3>1, <3>2, <3>3 DEF Clamped
    <3>5. PlaceTypes' /\ EmptyIsDrawn'
      BY <3>1, <3>4 DEF SInv, Shows, PlaceTypes, EmptyIsDrawn
    <3> QED
      BY <3>1, <3>5, WillShow
  <2> QED
    BY <1>7, <2>1, <2>2, <2>3, <2>4, <2>5, <2>6, <2>7, <2>8, Zenon DEF User
<1>8. CASE UNCHANGED vars
  <2>1. /\ UNCHANGED <<buffer, total, top, height, shown, selected, typeOn, scrollTop>>
        /\ UNCHANGED <<msgTimer, viewTimer, sizeTimer, scrolled, stale, quiet>>
    BY <1>8 DEF vars, timers, place, screen, options
  <2> QED
    BY <1>0, <2>1, StillShows DEF Pending
<1> QED
  BY <1>1, <1>2, <1>3, <1>4, <1>5, <1>6, <1>7, <1>8, Zenon DEF Next

(* SInv holds at the start and is preserved by every step.                 *)
THEOREM ScreenInvariant == Spec => []SInv
<1>1. Init => SwitchTypes /\ Shows
  <2> SUFFICES ASSUME Init PROVE SwitchTypes /\ Shows
    OBVIOUS
  <2>1. /\ buffer = <<>> /\ shown = <<>> /\ total = 0 /\ top = 0 /\ scrollTop = 0
        /\ height \in Heights /\ sizeTimer = TRUE /\ did = 0
        /\ paused = FALSE /\ msgTimer = FALSE /\ viewTimer = FALSE /\ typeOn = TRUE
        /\ follow = TRUE /\ scrolled = FALSE /\ stale = FALSE /\ quiet = FALSE /\ moved = FALSE
    BY DEF Init
  <2>2. SwitchTypes
    <3>1. did \in 0..MaxUser
      BY <2>1, MessageBufferAssumption
    <3> QED
      BY <2>1, <3>1, Zenon DEF SwitchTypes
  <2>3. PlaceTypes /\ EmptyIsDrawn
    <3>1. total \in Nat /\ height \in Nat
      BY <2>1, MessageBufferAssumption
    <3>2. Bottom \in Nat
      BY <3>1, Excess, Zenon DEF Bottom
    <3>3. <<>> \in Seq(Messages) /\ scrollTop \in 0..Bottom
      BY <2>1, <3>2
    <3> QED
      BY <2>1, <3>3 DEF PlaceTypes, EmptyIsDrawn
  <2>4. LayoutIsPending /\ ViewIsPending
    BY <2>1, Zenon DEF LayoutIsPending, ViewIsPending, Pending
  <2> QED
    BY <2>2, <2>3, <2>4 DEF Shows, ScreenIsPending
<1>2. BInv /\ BInv' /\ SwitchTypes /\ Shows /\ [Next]_vars => (SwitchTypes /\ Shows)'
  <2> SUFFICES ASSUME BInv, BInv', SwitchTypes, Shows, [Next]_vars PROVE (SwitchTypes /\ Shows)'
    OBVIOUS
  <2>1. SwitchTypes'
    BY SwitchesStay
  <2>2. Shows'
    BY StepShows DEF SInv
  <2> QED
    BY <2>1, <2>2
<1>3. SInv <=> BInv /\ SwitchTypes /\ Shows
  BY Zenon DEF SInv
<1> QED
  BY <1>1, <1>2, <1>3, BufferInvariant, PTL DEF Spec

(* The shape of the state, and the container is never scrolled past the    *)
(* end, in every behaviour.                                                *)
THEOREM TypeCorrect == Spec => []TypeOK
<1>1. SInv => TypeOK
  BY DEF SInv, BInv, BufferTypes, SwitchTypes, Shows, PlaceTypes, TypeOK
<1> QED
  BY <1>1, ScreenInvariant, PTL

(* What the page shows agrees with the buffer, or will: no order of the two *)
(* timers, arrivals, pauses, jumps, clears and resizes loses a drawing.    *)
THEOREM ScreenIsPendingEver == Spec => []ScreenIsPending
<1>1. SInv => ScreenIsPending
  BY Zenon DEF SInv, Shows
<1> QED
  BY <1>1, ScreenInvariant, PTL

-----------------------------------------------------------------------------
(* What a quotient is.                                                     *)
LEMMA Divides ==
    ASSUME NEW a \in Nat, NEW b \in Nat \ {0}
    PROVE  \E q \in Nat : q = a \div b /\ q * b <= a /\ a < (q + 1) * b
<1>1. a \div b \in Nat
  OBVIOUS
<1>2. (a \div b) * b <= a /\ a < (a \div b) * b + b
  OBVIOUS
<1>3. PICK q \in Nat : q = a \div b
  BY <1>1
<1>4. (q + 1) * b = q * b + b
  OBVIOUS
<1> QED
  BY <1>2, <1>3, <1>4

(* A product grows with its factor.                                        *)
LEMMA TimesMonotonic ==
    ASSUME NEW a \in Int, NEW b \in Int, a <= b, NEW c \in Nat
    PROVE  a * c <= b * c
OBVIOUS

(* The first row of a table at the end of the padding: n messages, rows of *)
(* height r, a container of height h.                                      *)
LEMMA LastRows ==
    ASSUME NEW n \in Nat \ {0}, NEW r \in Nat \ {0}, NEW h \in Nat, 2 * h > r,
           NEW w \in Nat, w = r * n, h < w,
           NEW t \in Nat, t = (2 * n * (w - h) + w) \div (2 * w)
    PROVE  t < n /\ \A c \in Nat : h = r * c => n - t <= c
<1> DEFINE a == 2 * n * (w - h) + w
           b == 2 * w
<1>1. a \in Nat /\ b \in Nat \ {0}
  <2>1. w - h \in Nat /\ 2 * n \in Nat
    OBVIOUS
  <2>2. 2 * n * (w - h) \in Nat
    BY <2>1, Product
  <2> QED
    BY <2>2
<1>2. t * b <= a /\ a < (t + 1) * b
  <2> HIDE DEF a, b
  <2>1. PICK q \in Nat : q = a \div b /\ q * b <= a /\ a < (q + 1) * b
    BY <1>1, Divides
  <2>2. q = t
    BY <2>1 DEF a, b
  <2> QED
    BY <2>1, <2>2
<1>3. t < n
  <2> SUFFICES ASSUME n <= t PROVE FALSE
    OBVIOUS
  <2>1. n * b <= t * b
    <3> HIDE DEF b
    <3> QED
      BY <1>1, TimesMonotonic
  <2>2. n * b <= a
    <3> HIDE DEF a, b
    <3>1. n * b \in Int /\ t * b \in Int
      BY <1>1
    <3> QED
      BY <1>1, <1>2, <2>1, <3>1
  <2>3. n * b = 2 * (n * w) /\ a = 2 * (n * w) - 2 * (n * h) + r * n
    OBVIOUS
  <2>4. 2 * (n * h) <= r * n
    BY <2>2, <2>3
  <2>5. (r + 1) * n <= (2 * h) * n
    BY TimesMonotonic
  <2>6. (r + 1) * n = r * n + n /\ (2 * h) * n = 2 * (n * h)
    OBVIOUS
  <2> QED
    BY <2>4, <2>5, <2>6
<1>4. ASSUME NEW c \in Nat, h = r * c PROVE n - t <= c
  <2> SUFFICES ASSUME t + 1 <= n - c PROVE FALSE
    OBVIOUS
  <2>1. (t + 1) * b <= (n - c) * b
    <3> HIDE DEF b
    <3> QED
      BY <1>1, TimesMonotonic
  <2>2. a < (n - c) * b
    <3> HIDE DEF a, b
    <3>1. (t + 1) * b \in Int /\ (n - c) * b \in Int
      BY <1>1
    <3> QED
      BY <1>1, <1>2, <2>1, <3>1
  <2>3. (n - c) * b = 2 * (n * w) - 2 * (c * w)
    OBVIOUS
  <2>4. a = 2 * (n * w) - 2 * (n * h) + w
    OBVIOUS
  <2>5. n * h = c * w
    BY <1>4
  <2> QED
    BY <2>2, <2>3, <2>4, <2>5
<1> QED
  BY <1>3, <1>4

(* Where the table and the container are.                                  *)
TopFollows == ~scrolled => top = scrollTop

AtEnd == follow /\ ~moved /\ ~sizeTimer => scrollTop = Bottom

FInv == TopFollows /\ AtEnd

(* A layout with Follow on goes to the end, and says so by an event.       *)
LEMMA LayoutFollows ==
    ASSUME SInv, FInv, UpdateLayout, buffer' \in Seq(Messages), height' \in Heights
    PROVE  FInv'
<1>1. /\ total' \in Nat /\ height' \in Nat /\ top' = top
      /\ scrolled' = (scrolled \/ scrollTop' # scrollTop)
  <2>1. height' \in Nat /\ RowHeight \in Nat /\ Len(buffer') \in Nat
    BY MessageBufferAssumption
  <2>2. total' = RowHeight * Len(buffer') /\ top' = top
    BY DEF UpdateLayout
  <2>3. scrolled' = (scrolled \/ scrollTop' # scrollTop)
    BY Zenon DEF UpdateLayout, ScrollTo
  <2> QED
    BY <2>1, <2>2, <2>3, Product
<1>2. TopFollows'
  BY <1>1, Zenon DEF FInv, TopFollows
<1>3. ASSUME follow' PROVE scrollTop' = Bottom'
  <2>1. CASE height' >= total' /\ ScrollTo(0)
    <3>1. scrollTop' = 0 /\ ~(total' > height')
      BY <1>1, <2>1 DEF ScrollTo
    <3> QED
      BY <3>1, Zenon DEF Bottom
  <2>2. CASE ScrollTo(Bottom')
    BY <2>2, Zenon DEF ScrollTo
  <2> QED
    BY <1>3, <2>1, <2>2, Zenon DEF UpdateLayout
<1> QED
  BY <1>2, <1>3, Zenon DEF FInv, AtEnd

(* A step that moves nothing.                                              *)
LEMMA StillFollows ==
    ASSUME FInv, UNCHANGED <<scrolled, top, scrollTop, total, height, sizeTimer, follow, moved>>
    PROVE  FInv'
<1>1. Bottom' = Bottom
  BY Zenon DEF Bottom
<1> QED
  BY <1>1, Zenon DEF FInv, TopFollows, AtEnd

(* Every step keeps FInv.                                                  *)
LEMMA StepFollows == ASSUME SInv, FInv, [Next]_vars, BInv' PROVE FInv'
<1>0. /\ buffer' \in Seq(Messages) /\ height \in Heights
  BY DEF SInv, BInv, BufferTypes, Shows, PlaceTypes
<1>1. ASSUME NEW n \in 0..MaxBatch, TriggerNewMessages(n) PROVE FInv'
  BY <1>1, StillFollows DEF TriggerNewMessages, place, options
<1>2. CASE MessageReadyTimer
  BY <1>2, StillFollows DEF MessageReadyTimer, place, screen, options
<1>3. CASE ApplyNewMessageLayout
  <2>1. height' = height /\ sizeTimer' = sizeTimer /\ follow' = follow
    BY <1>3 DEF ApplyNewMessageLayout, options
  <2>2. CASE UNCHANGED <<place, screen>>
    BY <2>1, <2>2, StillFollows DEF place, screen
  <2>3. CASE UpdateLayout
    BY <1>0, <2>1, <2>3, LayoutFollows
  <2> QED
    BY <1>3, <2>2, <2>3, Zenon DEF ApplyNewMessageLayout
<1>4. CASE OnScroll
  <2>1. /\ top' = scrollTop /\ scrollTop' = scrollTop /\ total' = total /\ height' = height
        /\ sizeTimer' = sizeTimer /\ follow' = follow /\ moved' = moved
    BY <1>4 DEF OnScroll, timers, options
  <2>2. Bottom' = Bottom
    BY <2>1, Zenon DEF Bottom
  <2> QED
    BY <2>1, <2>2, Zenon DEF FInv, TopFollows, AtEnd
<1>5. CASE ResizeTimer
  BY <1>0, <1>5, LayoutFollows DEF ResizeTimer, options
<1>6. CASE Resume
  BY <1>6, StillFollows DEF Resume, timers, place, screen, options
<1>7. CASE User
  <2>1. CASE ClearView
    BY <1>0, <2>1, LayoutFollows DEF ClearView, options
  <2>2. CASE ClearSelectedMessages
    BY <1>0, <2>2, LayoutFollows DEF ClearSelectedMessages, options
  <2>3. CASE MsgTypeToggle
    BY <1>0, <2>3, LayoutFollows DEF MsgTypeToggle
  <2>4. CASE FollowToggle
    <3>1. moved' = TRUE /\ scrolled' = scrolled /\ top' = top /\ scrollTop' = scrollTop
      BY <2>4 DEF FollowToggle, place
    <3> QED
      BY <3>1, Zenon DEF FInv, TopFollows, AtEnd
  <2>5. ASSUME NEW m \in 1..arrived, NEW extend \in BOOLEAN, Select(m, extend) PROVE FInv'
    BY <2>5, StillFollows DEF Select, timers, place
  <2>6. CASE Pause
    BY <2>6, StillFollows DEF Pause, timers, place, screen, options
  <2>7. ASSUME NEW y \in 0..Bottom, Scroll(y) PROVE FInv'
    <3>1. moved' = TRUE /\ scrolled' = (scrolled \/ y # scrollTop) /\ y # scrollTop
      BY <2>7 DEF Scroll, ScrollTo
    <3> QED
      BY <3>1, Zenon DEF FInv, TopFollows, AtEnd
  <2>8. ASSUME NEW h \in Heights, Resize(h) PROVE FInv'
    <3>1. sizeTimer' = TRUE /\ top' = top
      BY <2>8 DEF Resize
    <3>2. scrolled' = (scrolled \/ scrollTop' # scrollTop)
      BY <2>8, Zenon DEF Resize, ScrollTo
    <3> QED
      BY <3>1, <3>2, Zenon DEF FInv, TopFollows, AtEnd
  <2> QED
    BY <1>7, <2>1, <2>2, <2>3, <2>4, <2>5, <2>6, <2>7, <2>8, Zenon DEF User
<1>8. CASE UNCHANGED vars
  BY <1>8, StillFollows DEF vars, timers, place, screen, options
<1> QED
  BY <1>1, <1>2, <1>3, <1>4, <1>5, <1>6, <1>7, <1>8, Zenon DEF Next

(* The newest row, when the table stands at the end.                       *)
LEMMA NewestIsARow ==
    ASSUME SInv, total = RowHeight * Len(buffer), top = Bottom, 2 * height > RowHeight,
           NEW n \in Nat \ {0}, n = Len(buffer), buffer[n] \in Viewable
    PROVE  buffer[n] \in ToSet(Rows)
<1>1. /\ buffer \in Seq(Messages) /\ Messages \subseteq Nat /\ n <= MaxLength
      /\ RowHeight \in Nat \ {0} /\ height \in Nat \ {0} /\ MaxLength \in Nat
      /\ total \in Nat \ {0} /\ top \in Nat
  <2>1. /\ buffer \in Seq(Messages) /\ n <= MaxLength
        /\ total \in Nat /\ top \in Nat /\ height \in Heights
    BY DEF SInv, BInv, BufferTypes, KeepsNewest, Shows, PlaceTypes
  <2>2. Messages \subseteq Nat /\ RowHeight \in Nat \ {0} /\ MaxLength \in Nat
        /\ height \in Nat \ {0}
    BY <2>1, MessageBufferAssumption DEF Messages
  <2>3. n <= RowHeight * n
    BY <2>2
  <2>4. total # 0
    BY <2>2, <2>3
  <2> QED
    BY <2>1, <2>2, <2>4
<1>2. PICK t \in Nat : t = TargetIdx
  <2>1. RowsArgs
    BY DEF RowsArgs, SInv, BInv, BufferTypes, Shows, PlaceTypes
  <2> QED
    BY <2>1, TargetType, Zenon
<1>3. PICK l \in Nat : l = RowLimit
  <2>1. RowsArgs
    BY DEF RowsArgs, SInv, BInv, BufferTypes, Shows, PlaceTypes
  <2> QED
    BY <2>1, TargetType, Zenon
<1>4. l = MaxLength \/ \E c \in Nat : height = RowHeight * c /\ l = c
  <2>1. CASE (height % RowHeight) = 0
    <3>1. PICK q \in Nat : q = height \div RowHeight
      BY <1>1, Divides
    <3>2. height = RowHeight * q
      BY <1>1, <2>1, <3>1
    <3>3. l = q
      BY <1>3, <2>1, <3>1, Zenon DEF RowLimit
    <3> QED
      BY <3>2, <3>3
  <2>2. CASE (height % RowHeight) # 0
    BY <1>3, <2>2, Zenon DEF RowLimit
  <2> QED
    BY <2>1, <2>2
<1>5. t < n /\ n - t <= l
  <2>1. CASE total > height
    <3>1. top = total - height /\ top # 0
      <4>1. top = total - height
        BY <2>1, Zenon DEF Bottom
      <4> QED
        BY <1>1, <2>1, <4>1
    <3>2. t = (2 * n * top + total) \div (2 * total)
      BY <1>1, <1>2, <3>1, Zenon DEF TargetIdx
    <3>3. t = (2 * n * (total - height) + total) \div (2 * total)
      BY <3>1, <3>2, Zenon
    <3>4. total = RowHeight * n /\ height < total /\ 2 * height > RowHeight
      BY <1>1, <2>1
    <3>5. t < n /\ \A c \in Nat : height = RowHeight * c => n - t <= c
      BY <1>1, <3>3, <3>4, LastRows
    <3> QED
      BY <1>1, <1>4, <3>5
  <2>2. CASE ~(total > height)
    <3>1. top = 0
      BY <2>2, Zenon DEF Bottom
    <3>2. t = 0
      BY <1>2, <3>1, Zenon DEF TargetIdx
    <3>3. ASSUME NEW c \in Nat, height = RowHeight * c PROVE n <= c
      <4> SUFFICES ASSUME c + 1 <= n PROVE FALSE
        OBVIOUS
      <4>1. (c + 1) * RowHeight <= n * RowHeight
        BY <1>1, TimesMonotonic
      <4> QED
        BY <1>1, <2>2, <3>3, <4>1
    <3> QED
      BY <1>1, <1>4, <3>2, <3>3
  <2> QED
    BY <2>1, <2>2
<1>6. PICK s : s = SubSeq(buffer, t + 1, n)
  OBVIOUS
<1>7. s \in Seq(Messages) /\ Len(s) = n - t /\ n - t \in 1..Len(s) /\ s[n - t] = buffer[n]
  <2>1. s \in Seq(Messages) /\ Len(s) = n - t
    BY <1>1, <1>5, <1>6
  <2>2. n - t \in 1..(n - t) /\ (n - t) + (t + 1) - 1 = n
    BY <1>5
  <2>3. s[n - t] = buffer[n]
    BY <1>1, <1>5, <1>6, <2>2
  <2> QED
    BY <2>1, <2>2, <2>3
<1>8. PICK r : r = Filtered(s, Viewable)
  OBVIOUS
<1>9. r \in Seq(Messages) /\ Prefix(s, Viewable, r, Len(s))
  BY <1>1, <1>7, <1>8, FilteredFacts
<1>10. PICK j \in 1..Len(r) : r[j] = buffer[n]
  BY <1>7, <1>9 DEF Prefix
<1>11. Len(r) \in Nat /\ Len(r) <= l
  <2>1. Len(r) \in Nat
    BY <1>9
  <2>2. Len(r) <= n - t
    BY <1>7, <1>9 DEF Prefix
  <2>3. n - t \in Nat
    BY <1>5
  <2> QED
    BY <1>5, <2>1, <2>2, <2>3
<1>12. Rows = SubSeq(r, 1, IF Len(r) < l THEN Len(r) ELSE l)
  BY <1>2, <1>3, <1>6, <1>8, Zenon DEF Rows
<1>13. Rows = SubSeq(r, 1, Len(r))
  <2>1. (IF Len(r) < l THEN Len(r) ELSE l) = Len(r)
    BY <1>11
  <2> QED
    BY <1>12, <2>1, Zenon
<1>14. Rows = r
  BY <1>9, <1>11, <1>13
<1> QED
  BY <1>9, <1>10, <1>14 DEF ToSet

(* FInv holds at the start and is preserved by every step.                 *)
THEOREM FollowInvariant == Spec => []FInv
<1>1. Init => FInv
  <2> SUFFICES ASSUME Init PROVE FInv
    OBVIOUS
  <2>1. top = 0 /\ scrollTop = 0 /\ sizeTimer = TRUE
    BY DEF Init
  <2> QED
    BY <2>1, Zenon DEF FInv, TopFollows, AtEnd
<1>2. SInv /\ BInv' /\ FInv /\ [Next]_vars => FInv'
  BY StepFollows
<1> QED
  BY <1>1, <1>2, BufferInvariant, ScreenInvariant, PTL DEF Spec

(* With Follow on and nothing pending, the view stands at the end and the  *)
(* newest message is in the table, in a container of more than half a row: *)
(* in a lower one Math.round in updateMessageView goes past the last row.  *)
THEOREM FollowsNewestEver ==
    ASSUME \A h \in Heights : 2 * h > RowHeight
    PROVE  Spec => []FollowsNewest
<1>1. SInv /\ FInv => FollowsNewest
  <2> SUFFICES ASSUME SInv, FInv, follow, ~moved, ~Pending, ~stale, ~quiet
               PROVE  /\ scrollTop = Bottom
                      /\ \A i \in 1..Len(buffer) :
                            i = Len(buffer) /\ buffer[i] \in Viewable => buffer[i] \in ToSet(shown)
    BY Zenon DEF FollowsNewest
  <2>1. scrollTop = Bottom /\ top = scrollTop
    BY Zenon DEF FInv, AtEnd, TopFollows, Pending
  <2>2. shown = Rows /\ total = RowHeight * Len(buffer)
    BY Zenon DEF SInv, Shows, ScreenIsPending, ViewIsPending, LayoutIsPending, Pending
  <2>3. ASSUME NEW i \in 1..Len(buffer), i = Len(buffer), buffer[i] \in Viewable
        PROVE  buffer[i] \in ToSet(shown)
    <3>1. i \in Nat \ {0}
      BY DEF SInv, BInv, BufferTypes
    <3>2. 2 * height > RowHeight
      BY DEF SInv, Shows, PlaceTypes
    <3> QED
      BY <2>1, <2>2, <2>3, <3>1, <3>2, NewestIsARow
  <2> QED
    BY <2>1, <2>3
<1> QED
  BY <1>1, ScreenInvariant, FollowInvariant, PTL
=============================================================================
