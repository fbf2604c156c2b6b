-------------------------- MODULE FrameReaderProofs --------------------------
(***************************************************************************)
(* What holds of FrameReader for every set of payload lengths, every       *)
(* stream and every way the kernel cuts it, whatever is read where no      *)
(* header starts and whatever DiagMessageQueue.push makes of a buffer that *)
(* is no frame: the types, that nothing is handed over twice or backwards, *)
(* and that a stream cut cleanly is read.                                  *)
(*                                                                         *)
(* The state keeps three places in order: what has been handed over lies   *)
(* before the buffer that is kept, and the buffer ends where the chunks    *)
(* have come to (Kept, Before).  One run of the handler hands over frames  *)
(* that lie between these places and leaves them in order (GoodRun); while *)
(* the stream is clean, it hands over the very next ones (CleanRun).  Both *)
(* are shown of the while loop from the end of the chunk backwards         *)
(* (LoopInduction).                                                        *)
(***************************************************************************)
EXTENDS FrameReader, FiniteSetTheorems, WellFoundedInduction, TLAPS

-----------------------------------------------------------------------------
(* A set of numbers has a least one.  From it follows, by the least        *)
(* counterexample, what the recursive function of Loop returns.            *)
LEMMA LeastNat ==
    ASSUME NEW T \in SUBSET Nat, T # {}
    PROVE  \E n \in T : \A m \in T : n <= m
<1> DEFINE R == OpToRel(<, Nat)
<1>1. IsWellFoundedOn(R, Nat)
  BY NatLessThanWellFounded
<1>2. \A x, y \in Nat : x < y => <<x, y>> \in R
  BY DEF OpToRel
<1> HIDE DEF R
<1>3. PICK n \in T : \A m \in T : ~(<<m, n>> \in R)
  BY <1>1, WFMin
<1>4. ASSUME NEW m \in T PROVE n <= m
  <2>1. m \in Nat /\ n \in Nat
    OBVIOUS
  <2>2. ~(m < n)
    BY <1>2, <1>3, <2>1, Zenon
  <2> QED
    BY <2>1, <2>2
<1> QED
  BY <1>4

(* Where the frames lie: one after the other.                              *)
Ends(c) == IF c = 0 THEN 0 ELSE EndOf(frames[c])

(* The frames are numbered in the order in which they lie.                 *)
Layout ==
    /\ frames \in Seq([at : Nat, len : Lengths])
    /\ \A j \in 1..Len(frames) : frames[j].at = Ends(j - 1)
    /\ \A i, j \in 1..Len(frames) : i < j => EndOf(frames[i]) <= frames[j].at

(* What has been read: up to pos, and at most the buffer is kept of it.    *)
Kept ==
    /\ pos \in 0..StreamEnd /\ last \in Buffers \cup {None}
    /\ last # None => last.from + last.written = pos /\ last.written < last.len

(* What is handed over lies before what is kept.                           *)
ReadUpTo(l, end) == IF l = None THEN end ELSE l.from

Before ==
    \A i \in 1..Len(handed) :
        handed[i] # Chimera => EndOf(frames[handed[i]]) <= ReadUpTo(last, pos)

(* The invariant.                                                          *)
ReaderInv ==
    /\ Layout /\ Kept
    /\ handed \in Seq(0..Len(frames)) /\ alive \in BOOLEAN /\ clean \in BOOLEAN
    /\ Before /\ NeverBackwards

(* While the stream is clean, c frames have been handed over, and the next *)
(* is in progress or starts here.                                          *)
InProgress(l, end, c) ==
    \/ l = None /\ end = Ends(c)
    \/ /\ l # None /\ c + 1 \in 1..Len(frames)
       /\ l.from = PayloadAt(frames[c + 1]) /\ l.len = frames[c + 1].len
       /\ end < EndOf(frames[c + 1])

(* The invariant of a clean stream.                                        *)
CleanInv ==
    clean =>
        /\ alive /\ Len(handed) \in 0..Len(frames)
        /\ \A i \in 1..Len(handed) : handed[i] = i
        /\ InProgress(last, pos, Len(handed))

(* The frames lie one after the other, and the last ends the stream.       *)
LEMMA Places ==
    ASSUME Layout
    PROVE  /\ Len(frames) \in Nat /\ StreamEnd = Ends(Len(frames)) /\ StreamEnd \in Nat
           /\ \A j \in 1..Len(frames) :
                /\ frames[j].at \in Nat /\ frames[j].len \in Lengths /\ frames[j].len \in Nat \ {0}
                /\ PayloadAt(frames[j]) = frames[j].at + 4
                /\ EndOf(frames[j]) = frames[j].at + 4 + frames[j].len
                /\ EndOf(frames[j]) \in Nat /\ EndOf(frames[j]) <= StreamEnd
           /\ \A i, j \in 1..Len(frames) : i < j => EndOf(frames[i]) <= frames[j].at
           /\ \A j \in 1..Len(frames) : frames[j].at = Ends(j - 1)
<1> DEFINE Frames == [at : Nat, len : Lengths]
<1>0. ASSUME NEW f \in Frames
      PROVE  /\ f.at \in Nat /\ f.len \in Lengths /\ f.len \in Nat \ {0}
             /\ PayloadAt(f) = f.at + 4 /\ EndOf(f) = f.at + 4 + f.len /\ EndOf(f) \in Nat
  <2>1. f.at \in Nat /\ f.len \in Lengths
    OBVIOUS
  <2>2. f.len \in Nat \ {0}
    BY <2>1, FrameReaderAssumption
  <2> QED
    BY <2>1, <2>2 DEF PayloadAt, EndOf, HeaderSize
<1>1. Len(frames) \in Nat /\ \A j \in 1..Len(frames) : frames[j] \in Frames
  <2>1. frames \in Seq(Frames)
    BY DEF Layout
  <2> HIDE DEF Frames
  <2> QED
    BY <2>1
<1>2. \A j \in 1..Len(frames) :
          /\ frames[j].at \in Nat /\ frames[j].len \in Lengths /\ frames[j].len \in Nat \ {0}
          /\ PayloadAt(frames[j]) = frames[j].at + 4
          /\ EndOf(frames[j]) = frames[j].at + 4 + frames[j].len
          /\ EndOf(frames[j]) \in Nat
  BY <1>0, <1>1
<1>3. \A i, j \in 1..Len(frames) : i < j => EndOf(frames[i]) <= frames[j].at
  BY DEF Layout
<1>4. StreamEnd = Ends(Len(frames))
  <2>1. frames = <<>> <=> Len(frames) = 0
    BY DEF Layout
  <2> QED
    BY <2>1, Zenon DEF StreamEnd, Ends
<1>5. StreamEnd \in Nat
  <2>1. CASE Len(frames) = 0
    BY <1>4, <2>1 DEF Ends
  <2>2. CASE Len(frames) # 0
    <3>1. Len(frames) \in 1..Len(frames)
      BY <1>1, <2>2
    <3> QED
      BY <1>2, <1>4, <2>2, <3>1 DEF Ends
  <2> QED
    BY <2>1, <2>2
<1>6. \A j \in 1..Len(frames) : EndOf(frames[j]) <= StreamEnd
  <2> TAKE j \in 1..Len(frames)
  <2>1. Len(frames) \in 1..Len(frames) /\ Len(frames) # 0
    BY <1>1
  <2>2. StreamEnd = EndOf(frames[Len(frames)])
    BY <1>4, <2>1, Zenon DEF Ends
  <2>3. CASE j = Len(frames)
    BY <1>5, <2>2, <2>3
  <2>4. CASE j < Len(frames)
    <3>1. EndOf(frames[j]) <= frames[Len(frames)].at
      BY <1>3, <2>1, <2>4
    <3>2. /\ EndOf(frames[j]) \in Nat /\ frames[Len(frames)].at \in Nat
          /\ StreamEnd = frames[Len(frames)].at + 4 + frames[Len(frames)].len
          /\ frames[Len(frames)].len \in Nat
      BY <1>2, <2>1, <2>2
    <3> QED
      BY <3>1, <3>2
  <2> QED
    BY <1>1, <2>3, <2>4
<1>7. \A j \in 1..Len(frames) : frames[j].at = Ends(j - 1)
  BY DEF Layout
<1> QED
  BY <1>1, <1>2, <1>3, <1>4, <1>5, <1>6, <1>7

(* A frame is told by where it lies.                                       *)
LEMMA FramesApart ==
    ASSUME Layout, NEW i \in 1..Len(frames), NEW j \in 1..Len(frames)
    PROVE  /\ frames[i].at < frames[j].at <=> i < j
           /\ frames[i].at = frames[j].at <=> i = j
           /\ PayloadAt(frames[i]) = PayloadAt(frames[j]) <=> i = j
<1>1. /\ i \in Nat /\ j \in Nat
      /\ frames[i].at \in Nat /\ frames[i].len \in Nat \ {0} /\ frames[j].at \in Nat
      /\ PayloadAt(frames[i]) = frames[i].at + 4 /\ PayloadAt(frames[j]) = frames[j].at + 4
      /\ frames[j].len \in Nat \ {0}
      /\ EndOf(frames[i]) = frames[i].at + 4 + frames[i].len
      /\ EndOf(frames[j]) = frames[j].at + 4 + frames[j].len
  <2>1. /\ i \in Nat /\ frames[i].at \in Nat /\ frames[i].len \in Nat \ {0}
        /\ PayloadAt(frames[i]) = frames[i].at + 4
        /\ EndOf(frames[i]) = frames[i].at + 4 + frames[i].len
    BY Places
  <2>2. /\ j \in Nat /\ frames[j].at \in Nat /\ frames[j].len \in Nat \ {0}
        /\ PayloadAt(frames[j]) = frames[j].at + 4
        /\ EndOf(frames[j]) = frames[j].at + 4 + frames[j].len
    BY Places
  <2> QED
    BY <2>1, <2>2, Zenon
<1>2. i < j => EndOf(frames[i]) <= frames[j].at
  BY DEF Layout
<1>3. j < i => EndOf(frames[j]) <= frames[i].at
  BY DEF Layout
<1> DEFINE x == frames[i].at
           y == frames[j].at
<1>4. CASE i < j
  <2>1. x < y
    BY <1>1, <1>2, <1>4
  <2>2. x \in Nat /\ y \in Nat /\ ~(x = y) /\ ~(x + 4 = y + 4)
    BY <1>1, <2>1
  <2>3. i # j
    BY <1>4
  <2>4. PayloadAt(frames[i]) # PayloadAt(frames[j])
    BY <1>1, <2>2
  <2> QED
    BY <1>4, <2>1, <2>2, <2>3, <2>4, Zenon
<1>5. CASE j < i
  <2>1. y < x
    BY <1>1, <1>3, <1>5
  <2>2. x \in Nat /\ y \in Nat /\ ~(x = y) /\ ~(x < y) /\ ~(x + 4 = y + 4)
    BY <1>1, <2>1
  <2>3. i # j /\ ~(i < j)
    BY <1>1, <1>5
  <2>4. PayloadAt(frames[i]) # PayloadAt(frames[j])
    BY <1>1, <2>2
  <2> QED
    BY <2>2, <2>3, <2>4, Zenon
<1>6. CASE i = j
  BY <1>1, <1>6
<1> QED
  BY <1>1, <1>4, <1>5, <1>6

(* What is read at a place.                                                *)
LEMMA LengthIs ==
    ASSUME Layout, NEW i \in Nat, NEW garbage \in Garbage
    PROVE  /\ LengthAt(i, garbage) \in Nat \ {0}
           /\ \A j \in 1..Len(frames) : frames[j].at = i => LengthAt(i, garbage) = frames[j].len
<1>1. garbage \in Nat \ {0}
  BY FrameReaderAssumption
<1>2. CASE \E j \in 1..Len(frames) : frames[j].at = i
  <2> DEFINE c == CHOOSE j \in 1..Len(frames) : frames[j].at = i
  <2>1. c \in 1..Len(frames) /\ frames[c].at = i
    BY <1>2, Zenon
  <2>2. LengthAt(i, garbage) = frames[c].len
    BY <1>2, Zenon DEF LengthAt
  <2> HIDE DEF c
  <2>3. \A j \in 1..Len(frames) : frames[j].at = i => j = c
    BY <2>1, FramesApart
  <2> QED
    BY <2>1, <2>2, <2>3, Places
<1>3. CASE ~ \E j \in 1..Len(frames) : frames[j].at = i
  BY <1>1, <1>3 DEF LengthAt
<1> QED
  BY <1>2, <1>3

(* What a buffer holds.                                                    *)
LEMMA ContentIs ==
    ASSUME Layout, NEW b \in Buffers
    PROVE  /\ Content(b) \in 0..Len(frames)
           /\ Content(b) # Chimera =>
                /\ Content(b) \in 1..Len(frames)
                /\ PayloadAt(frames[Content(b)]) = b.from /\ frames[Content(b)].len = b.len
                /\ b.written = b.len
           /\ \A j \in 1..Len(frames) :
                (PayloadAt(frames[j]) = b.from /\ frames[j].len = b.len /\ b.written = b.len)
                    => Content(b) = j
<1> DEFINE Is(j) == PayloadAt(frames[j]) = b.from /\ frames[j].len = b.len
           c == CHOOSE j \in 1..Len(frames) : Is(j)
<1>0. Len(frames) \in Nat
  BY Places
<1>1. CASE b.written = b.len /\ \E j \in 1..Len(frames) : Is(j)
  <2>1. c \in 1..Len(frames) /\ Is(c)
    BY <1>1, Zenon
  <2>2. Content(b) = c
    BY <1>1, Zenon DEF Content
  <2> HIDE DEF c
  <2>3. \A j \in 1..Len(frames) : Is(j) => j = c
    BY <2>1, FramesApart
  <2> QED
    BY <1>0, <1>1, <2>1, <2>2, <2>3
<1>2. CASE ~(b.written = b.len /\ \E j \in 1..Len(frames) : Is(j))
  <2>1. Content(b) = 0
    BY <1>2, Zenon DEF Content, Chimera
  <2> QED
    BY <1>0, <1>2, <2>1 DEF Chimera
<1> QED
  BY <1>1, <1>2

(* The buffer that a run of the loop takes at place i, and what the run    *)
(* does there, f being what it does further on.                            *)
Taken(i, garbage) ==
    [from |-> i + HeaderSize, len |-> LengthAt(i, garbage), written |-> LengthAt(i, garbage)]

(* What a run does at place i.                                             *)
AtPlace(f, i, end, garbage, outcome) ==
    LET n == LengthAt(i, garbage)
        b == [from |-> i + HeaderSize, len |-> n, written |-> n]
    IN
    CASE i = end -> Done
      [] i < end /\ ~HeaderInside(i, end) -> Throw
      [] i < end /\ HeaderInside(i, end) /\ CutOff(b, end) ->
             IF n > MaxBuffer THEN Throw ELSE Keep(Front(b, end))
      [] OTHER -> Push(b, outcome, f[b.from + n])

(* The buffer that is taken at a place.                                    *)
LEMMA TakenIs ==
    ASSUME Layout, NEW i \in Nat, NEW garbage \in Garbage
    PROVE  /\ Taken(i, garbage) \in Buffers /\ Taken(i, garbage).from = i + 4
           /\ Taken(i, garbage).len = LengthAt(i, garbage)
           /\ Taken(i, garbage).written = LengthAt(i, garbage)
           /\ LengthAt(i, garbage) \in Nat \ {0}
<1>1. LengthAt(i, garbage) \in Nat \ {0}
  BY LengthIs
<1> QED
  BY <1>1 DEF Taken, Buffers, HeaderSize

(* The four things that can happen at a place.                             *)
AsPlaced(r, f, i, end, n, b, outcome) ==
    /\ i = end => r = Done
    /\ i < end /\ i + 4 > end => r = Throw
    /\ i + 4 <= end /\ i + 4 + n > end =>
           r = IF n > MaxBuffer THEN Throw ELSE Keep(Front(b, end))
    /\ i + 4 + n <= end => r = Push(b, outcome, f[i + 4 + n])

(* One of them does, according to where the frame read at the place ends.  *)
LEMMA AtPlaceIs ==
    ASSUME Layout, NEW f, NEW i \in Nat, NEW end \in Nat, NEW garbage \in Garbage, NEW outcome,
           i <= end
    PROVE  AsPlaced(AtPlace(f, i, end, garbage, outcome), f, i, end,
                    LengthAt(i, garbage), Taken(i, garbage), outcome)
<1>10. PICK n : n = LengthAt(i, garbage)
  OBVIOUS
<1>11. PICK b : b = Taken(i, garbage)
  OBVIOUS
<1>12. PICK r : r = AtPlace(f, i, end, garbage, outcome)
  OBVIOUS
<1> SUFFICES AsPlaced(r, f, i, end, n, b, outcome)
  BY <1>10, <1>11, <1>12
<1>1. /\ b \in Buffers /\ b.from = i + 4 /\ b.len = n /\ n \in Nat \ {0}
  BY <1>10, <1>11, TakenIs
<1>2. r = CASE i = end -> Done
            [] i < end /\ ~HeaderInside(i, end) -> Throw
            [] i < end /\ HeaderInside(i, end) /\ CutOff(b, end) ->
                   IF n > MaxBuffer THEN Throw ELSE Keep(Front(b, end))
            [] OTHER -> Push(b, outcome, f[b.from + n])
  BY <1>10, <1>11, <1>12, Zenon DEF AtPlace, Taken
<1>3. (HeaderInside(i, end) <=> i + 4 <= end) /\ (CutOff(b, end) <=> i + 4 + n > end)
  BY <1>1 DEF HeaderInside, CutOff, HeaderSize
<1>4. CASE i = end
  <2>1. ~(i < end) /\ ~(i + 4 <= end) /\ ~(i + 4 + n <= end)
    BY <1>1, <1>4
  <2>2. r = Done
    BY <1>2, <1>4, <2>1
  <2> QED
    BY <2>1, <2>2, Zenon DEF AsPlaced
<1>5. CASE i < end /\ i + 4 > end
  <2>1. i # end /\ ~(i + 4 <= end) /\ ~(i + 4 + n <= end) /\ ~HeaderInside(i, end)
    BY <1>1, <1>3, <1>5
  <2>2. r = Throw
    BY <1>2, <1>5, <2>1
  <2> QED
    BY <2>1, <2>2, Zenon DEF AsPlaced
<1>6. CASE i + 4 <= end /\ i + 4 + n > end
  <2>1. /\ i # end /\ i < end /\ ~(i + 4 > end) /\ ~(i + 4 + n <= end)
        /\ HeaderInside(i, end) /\ CutOff(b, end)
    BY <1>1, <1>3, <1>6
  <2>2. r = IF n > MaxBuffer THEN Throw ELSE Keep(Front(b, end))
    BY <1>2, <2>1
  <2> QED
    BY <2>1, <2>2, Zenon DEF AsPlaced
<1>7. CASE i + 4 + n <= end
  <2>1. /\ i # end /\ i < end /\ ~(i + 4 > end) /\ ~(i + 4 + n > end)
        /\ HeaderInside(i, end) /\ ~CutOff(b, end)
    BY <1>1, <1>3, <1>7
  <2>2. r = Push(b, outcome, f[b.from + n])
    BY <1>1, <1>2, <2>1
  <2>3. b.from + n = i + 4 + n
    BY <1>1
  <2> QED
    BY <2>1, <2>2, <2>3, Zenon DEF AsPlaced
<1>8. \/ i = end
      \/ i < end /\ i + 4 > end
      \/ i + 4 <= end /\ i + 4 + n > end
      \/ i + 4 + n <= end
  BY <1>1
<1> QED
  BY <1>4, <1>5, <1>6, <1>7, <1>8

(* What happens at a place depends on what happens further on, not before. *)
LEMMA OnlyFurther ==
    ASSUME Layout, NEW f, NEW g, NEW i \in Nat, NEW end \in Nat, NEW garbage \in Garbage,
           NEW outcome, i <= end, \A j \in (i + 1)..end : f[j] = g[j]
    PROVE  AtPlace(f, i, end, garbage, outcome) = AtPlace(g, i, end, garbage, outcome)
<1>1. PICK n \in Nat \ {0} : n = LengthAt(i, garbage)
  BY LengthIs
<1>2. PICK b : b = Taken(i, garbage)
  OBVIOUS
<1>3. ASSUME NEW h PROVE AsPlaced(AtPlace(h, i, end, garbage, outcome), h, i, end, n, b, outcome)
  BY <1>1, <1>2, AtPlaceIs
<1>4. PICK r, s : r = AtPlace(f, i, end, garbage, outcome) /\ s = AtPlace(g, i, end, garbage, outcome)
  OBVIOUS
<1>5. AsPlaced(r, f, i, end, n, b, outcome)
  BY <1>3, <1>4
<1>6. AsPlaced(s, g, i, end, n, b, outcome)
  BY <1>3, <1>4
<1>7. i + 4 + n <= end => f[i + 4 + n] = g[i + 4 + n]
  <2>1. i + 4 + n <= end => i + 4 + n \in (i + 1)..end
    OBVIOUS
  <2> QED
    BY <2>1
<1>8. \/ i = end
      \/ i < end /\ i + 4 > end
      \/ i + 4 <= end /\ i + 4 + n > end
      \/ i + 4 + n <= end
  OBVIOUS
<1>9. r = s
  BY <1>5, <1>6, <1>7, <1>8, Zenon DEF AsPlaced
<1> QED
  BY <1>4, <1>9

(* A function that says what happens at every place of a chunk.            *)
Runs(f, start, end, garbage, outcome) ==
    f = [i \in start..end |-> AtPlace(f, i, end, garbage, outcome)]

(* There is a function that says what happens at every place of a chunk:   *)
(* from its end backwards.                                                 *)
LEMMA LoopExists ==
    ASSUME Layout, NEW start \in Nat, NEW end \in Nat, NEW garbage \in Garbage, NEW outcome,
           start <= end
    PROVE  \E f : Runs(f, start, end, garbage, outcome)
<1>0. ASSUME NEW g, NEW h
      PROVE  AtPlace(g, end, end, garbage, outcome) = AtPlace(h, end, end, garbage, outcome)
  <2>1. PICK e \in Nat : e = end
    OBVIOUS
  <2>2. e <= end /\ \A j \in (e + 1)..end : g[j] = h[j]
    BY <2>1
  <2>3. AtPlace(g, e, end, garbage, outcome) = AtPlace(h, e, end, garbage, outcome)
    BY <2>2, OnlyFurther
  <2> QED
    BY <2>1, <2>3
<1> DEFINE Ok(m) == \E f : f = [i \in (end - m)..end |-> AtPlace(f, i, end, garbage, outcome)]
           Bad == {m \in Nat : m <= end - start /\ ~Ok(m)}
<1>1. Ok(0)
  <2>1. (end - 0)..end = {end}
    OBVIOUS
  <2> DEFINE g == [i \in {end} |-> Done]
             h == [i \in {end} |-> AtPlace(g, i, end, garbage, outcome)]
  <2>2. AtPlace(g, end, end, garbage, outcome) = AtPlace(h, end, end, garbage, outcome)
    BY <1>0, Zenon
  <2>3. h = [i \in {end} |-> AtPlace(h, i, end, garbage, outcome)]
    BY <2>2
  <2> HIDE DEF h
  <2> QED
    BY <2>1, <2>3
<1>2. ASSUME NEW m \in Nat, m # 0, m <= end - start, Ok(m - 1) PROVE Ok(m)
  <2>1. PICK k \in Nat : k = end - m /\ end - (m - 1) = k + 1 /\ k < end
    <3>1. end - m \in Nat /\ end - (m - 1) = (end - m) + 1 /\ end - m < end
      BY <1>2
    <3> QED
      BY <3>1
  <2>2. PICK g : g = [i \in (k + 1)..end |-> AtPlace(g, i, end, garbage, outcome)]
    BY <1>2, <2>1
  <2> DEFINE h == [i \in k..end |-> IF i = k THEN AtPlace(g, k, end, garbage, outcome) ELSE g[i]]
  <2>3. ASSUME NEW i \in k..end PROVE h[i] = AtPlace(h, i, end, garbage, outcome)
    <3>1. \A j \in (i + 1)..end : g[j] = h[j]
      BY <2>1
    <3>2. i \in Nat /\ i <= end
      BY <2>1
    <3>3. AtPlace(g, i, end, garbage, outcome) = AtPlace(h, i, end, garbage, outcome)
      <4> HIDE DEF h
      <4> QED
        BY <3>1, <3>2, OnlyFurther
    <3>4. h[i] = AtPlace(g, i, end, garbage, outcome)
      <4>1. CASE i = k
        BY <4>1
      <4>2. CASE i # k
        <5>1. i \in (k + 1)..end
          BY <4>2
        <5>2. g[i] = AtPlace(g, i, end, garbage, outcome)
          BY <2>2, <5>1
        <5>3. h[i] = g[i]
          BY <4>2
        <5> QED
          BY <5>2, <5>3
      <4> QED
        BY <4>1, <4>2
    <3> QED
      BY <3>3, <3>4
  <2>4. h = [i \in k..end |-> h[i]]
    OBVIOUS
  <2> HIDE DEF h
  <2>5. h = [i \in k..end |-> AtPlace(h, i, end, garbage, outcome)]
    BY <2>3, <2>4, Zenon
  <2> QED
    BY <2>1, <2>5, Zenon
<1> HIDE DEF Ok
<1>3. Bad = {}
  <2> SUFFICES ASSUME Bad # {} PROVE FALSE
    OBVIOUS
  <2>1. PICK m \in Bad : \A p \in Bad : m <= p
    BY LeastNat
  <2>2. m \in Nat /\ m # 0 /\ m <= end - start /\ ~Ok(m)
    BY <1>1
  <2>3. m - 1 \in Nat /\ m - 1 <= end - start /\ ~(m <= m - 1)
    BY <2>2
  <2>4. Ok(m - 1)
    BY <2>1, <2>3
  <2> QED
    BY <1>2, <2>2, <2>4
<1>4. Ok(end - start) /\ end - (end - start) = start
  <2>1. end - start \in Nat /\ end - (end - start) = start
    OBVIOUS
  <2> QED
    BY <1>3, <2>1
<1> QED
  BY <1>4, Zenon DEF Ok, Runs

(* The function of Loop is one that says so.                               *)
LEMMA LoopIs ==
    ASSUME Layout, NEW start \in Nat, NEW end \in Nat, NEW garbage \in Garbage, NEW outcome,
           start < end
    PROVE  \E f : /\ Loop(start, end, garbage, outcome) = f[start]
                  /\ \A i \in start..end : f[i] = AtPlace(f, i, end, garbage, outcome)
<1>1. \E f : Runs(f, start, end, garbage, outcome)
  <2>1. start <= end
    OBVIOUS
  <2> QED
    BY <2>1, LoopExists
<1> DEFINE f == CHOOSE f : f = [i \in start..end |-> AtPlace(f, i, end, garbage, outcome)]
<1>2. f = [i \in start..end |-> AtPlace(f, i, end, garbage, outcome)]
  BY <1>1, Zenon DEF Runs
<1>3. Loop(start, end, garbage, outcome) = f[start]
  <2>1. ~(start >= end)
    OBVIOUS
  <2> QED
    BY <2>1, Zenon DEF Loop, AtPlace
<1> HIDE DEF f
<1>4. \A i \in start..end : f[i] = AtPlace(f, i, end, garbage, outcome)
  BY <1>2
<1> QED
  BY <1>3, <1>4

(* What a run of the handler hands over lies between what was read before  *)
(* and what it keeps, and goes forwards.                                   *)
Results == [handed : Seq(0..Len(frames)), last : Buffers \cup {None}, returns : BOOLEAN]

(* The frames handed over follow one another.                              *)
Forwards(h) ==
    \A i, j \in 1..Len(h) :
        i < j /\ h[i] # Chimera /\ h[j] # Chimera => h[i] < h[j]

(* They lie between two places.                                            *)
Within(h, start, bound) ==
    \A i \in 1..Len(h) :
        h[i] # Chimera => /\ start <= PayloadAt(frames[h[i]])
                          /\ EndOf(frames[h[i]]) <= bound

(* The buffer kept is filled up to where the chunks have come to.          *)
KeepsFront(l, start, end) ==
    l # None => start <= l.from /\ l.from + l.written = end /\ l.written < l.len

(* All of it, of a run over the stretch of the stream from start to end.   *)
GoodRun(r, start, end) ==
    /\ r \in Results /\ KeepsFront(r.last, start, end)
    /\ Within(r.handed, start, ReadUpTo(r.last, end)) /\ Forwards(r.handed)

(* The parts of a run.                                                     *)
LEMMA RunIs ==
    ASSUME Len(frames) \in Nat, NEW h \in Seq(0..Len(frames)), NEW l \in Buffers \cup {None},
           NEW x \in BOOLEAN
    PROVE  /\ Run(h, l, x) \in Results /\ Run(h, l, x).handed = h
           /\ Run(h, l, x).last = l /\ Run(h, l, x).returns = x
BY DEF Run, Results

(* The runs that hand nothing over.                                        *)
LEMMA PlainResults ==
    ASSUME Len(frames) \in Nat
    PROVE  /\ Done \in Results /\ Done.handed = <<>> /\ Done.last = None /\ Done.returns = TRUE
           /\ Throw \in Results /\ Throw.handed = <<>> /\ Throw.last = None /\ Throw.returns = FALSE
           /\ \A b \in Buffers : /\ Keep(b) \in Results /\ Keep(b).handed = <<>>
                                 /\ Keep(b).last = b /\ Keep(b).returns = TRUE
<1>1. <<>> \in Seq(0..Len(frames)) /\ TRUE \in BOOLEAN /\ FALSE \in BOOLEAN
  OBVIOUS
<1>2. Done \in Results /\ Done.handed = <<>> /\ Done.last = None /\ Done.returns = TRUE
  <2>1. None \in Buffers \cup {None}
    OBVIOUS
  <2> QED
    BY <1>1, <2>1, RunIs, Zenon DEF Done
<1>3. Throw \in Results /\ Throw.handed = <<>> /\ Throw.last = None /\ Throw.returns = FALSE
  <2>1. None \in Buffers \cup {None}
    OBVIOUS
  <2> QED
    BY <1>1, <2>1, RunIs, Zenon DEF Throw
<1>4. ASSUME NEW b \in Buffers
      PROVE  /\ Keep(b) \in Results /\ Keep(b).handed = <<>>
             /\ Keep(b).last = b /\ Keep(b).returns = TRUE
  <2>1. b \in Buffers \cup {None}
    OBVIOUS
  <2> QED
    BY <1>1, <2>1, RunIs, Zenon DEF Keep
<1> QED
  BY <1>2, <1>3, <1>4

(* A frame that ends before the payload of another starts before it.       *)
LEMMA Gap ==
    ASSUME NEW a \in Nat, NEW l \in Nat \ {0}, NEW n \in Nat, NEW k \in Nat,
           a + 4 + l <= n, n <= k + 4
    PROVE  a < k
OBVIOUS

(* DiagMessageQueue.push accepts what it gets, or the handler goes on      *)
(* without it, or an exception ends it; a frame is always accepted.        *)
Pushed(b, rest, r) ==
    \/ /\ r \in Results /\ r.handed = <<Content(b)>> \o rest.handed
       /\ r.last = rest.last /\ r.returns = rest.returns
    \/ Content(b) = Chimera /\ r = rest
    \/ Content(b) = Chimera /\ r = Throw

(* The result of Push is one of these.                                     *)
LEMMA PushIs ==
    ASSUME Layout, NEW b \in Buffers, NEW rest \in Results, NEW outcome,
           NEW r, r = Push(b, outcome, rest)
    PROVE  Pushed(b, rest, r)
<1> SUFFICES \/ /\ r \in Results /\ r.handed = <<Content(b)>> \o rest.handed
                /\ r.last = rest.last /\ r.returns = rest.returns
             \/ Content(b) = Chimera /\ r = rest
             \/ Content(b) = Chimera /\ r = Throw
  BY Zenon DEF Pushed
<1>1. PICK m \in 0..Len(frames) : m = Content(b)
  BY ContentIs
<1> DEFINE a == Run(<<m>> \o rest.handed, rest.last, rest.returns)
<1>2. /\ a \in Results /\ a.handed = <<m>> \o rest.handed
      /\ a.last = rest.last /\ a.returns = rest.returns
  <2>1. rest.handed \in Seq(0..Len(frames)) /\ rest.last \in Buffers \cup {None} /\ rest.returns \in BOOLEAN
    BY DEF Results
  <2>2. <<m>> \o rest.handed \in Seq(0..Len(frames)) /\ Len(frames) \in Nat
    BY <2>1, Places
  <2>3. PICK h \in Seq(0..Len(frames)) : h = <<m>> \o rest.handed
    BY <2>2, Zenon
  <2>4. PICK l \in Buffers \cup {None} : l = rest.last
    BY <2>1, Zenon
  <2>5. PICK x \in BOOLEAN : x = rest.returns
    BY <2>1, Zenon
  <2>6. PICK run : run = Run(h, l, x)
    OBVIOUS
  <2>7. run \in Results /\ run.handed = h /\ run.last = l /\ run.returns = x
    BY <2>2, <2>6 DEF Run, Results
  <2>8. a = run
    BY <2>3, <2>4, <2>5, <2>6, Zenon
  <2> QED
    BY <2>3, <2>4, <2>5, <2>7, <2>8, Zenon
<1>3. r = CASE m # Chimera                          -> a
            [] m = Chimera /\ outcome = "accepted" -> a
            [] m = Chimera /\ outcome = "refused"  -> rest
            [] OTHER                               -> Throw
  <2>1. m = Chimera => Run(<<Chimera>> \o rest.handed, rest.last, rest.returns) = a
    OBVIOUS
  <2> QED
    BY <1>1, <2>1, Zenon DEF Push
<1> HIDE DEF a
<1>4. CASE m # Chimera
  <2>1. r = a
    BY <1>3, <1>4
  <2> QED
    BY <1>1, <1>2, <2>1
<1>5. CASE m = Chimera /\ outcome = "accepted"
  <2>1. r = a
    BY <1>3, <1>5
  <2> QED
    BY <1>1, <1>2, <1>5, <2>1
<1>6. CASE m = Chimera /\ outcome = "refused"
  <2>1. "refused" # "accepted"
    OBVIOUS
  <2>2. r = rest
    BY <1>3, <1>6, <2>1
  <2> QED
    BY <1>1, <1>6, <2>2
<1>7. CASE m = Chimera /\ outcome # "accepted" /\ outcome # "refused"
  <2>1. r = Throw
    BY <1>3, <1>7
  <2> QED
    BY <1>1, <1>7, <2>1
<1> QED
  BY <1>4, <1>5, <1>6, <1>7

(* A sequence with one element more in front.                              *)
LEMMA InFront ==
    ASSUME NEW S, NEW s \in Seq(S), NEW m \in S, NEW t, t = <<m>> \o s
    PROVE  /\ t \in Seq(S) /\ Len(t) = Len(s) + 1 /\ Len(s) \in Nat /\ t[1] = m
           /\ \A i \in 1..Len(s) : t[i + 1] = s[i]
           /\ \A i \in 1..Len(t) : i = 1 \/ (i - 1 \in 1..Len(s) /\ t[i] = s[i - 1])
<1>1. t \in Seq(S) /\ Len(t) = Len(s) + 1 /\ Len(s) \in Nat /\ t[1] = m
  OBVIOUS
<1>2. \A i \in 1..Len(s) : t[i + 1] = s[i]
  OBVIOUS
<1>3. ASSUME NEW i \in 1..Len(t), i # 1 PROVE i - 1 \in 1..Len(s) /\ t[i] = s[i - 1]
  <2>1. i - 1 \in 1..Len(s) /\ (i - 1) + 1 = i
    BY <1>1, <1>3
  <2> QED
    BY <1>2, <2>1
<1> QED
  BY <1>1, <1>2, <1>3

(* Nothing handed over, nothing kept.                                      *)
LEMMA DoneIsGood ==
    ASSUME Layout, NEW start \in Nat, NEW end \in Nat
    PROVE  GoodRun(Done, start, end) /\ GoodRun(Throw, start, end)
<1>1. Len(frames) \in Nat
  BY Places
<1>2. 1..Len(<<>>) = {}
  OBVIOUS
<1>3. ASSUME NEW r \in Results, r.handed = <<>>, r.last = None PROVE GoodRun(r, start, end)
  BY <1>2, <1>3 DEF GoodRun, KeepsFront, Within, Forwards
<1> QED
  BY <1>1, <1>3, PlainResults

(* A buffer pushed in front of a good run gives a good run.                *)
LEMMA PushIsGood ==
    ASSUME Layout, NEW start \in Nat, NEW next \in Nat, NEW end \in Nat, NEW outcome,
           start <= next, next <= end,
           NEW b \in Buffers, start <= b.from, Content(b) # Chimera => b.from + b.len <= next,
           NEW rest, GoodRun(rest, next, end)
    PROVE  GoodRun(Push(b, outcome, rest), start, end)
<1>0. /\ Len(frames) \in Nat /\ b.from \in Nat /\ b.len \in Nat
      /\ rest \in Results /\ rest.handed \in Seq(0..Len(frames)) /\ rest.last \in Buffers \cup {None}
  <2>1. rest \in Results
    BY DEF GoodRun
  <2> QED
    BY <2>1, Places DEF Buffers, Results
<1>1. PICK m \in 0..Len(frames) : m = Content(b)
  BY ContentIs
<1>2. m # Chimera => /\ m \in 1..Len(frames) /\ PayloadAt(frames[m]) = b.from
                     /\ EndOf(frames[m]) = b.from + b.len
                     /\ start <= PayloadAt(frames[m]) /\ EndOf(frames[m]) <= next
  <2> SUFFICES ASSUME m # Chimera
               PROVE  /\ m \in 1..Len(frames) /\ PayloadAt(frames[m]) = b.from
                      /\ EndOf(frames[m]) = b.from + b.len
                      /\ start <= PayloadAt(frames[m]) /\ EndOf(frames[m]) <= next
    OBVIOUS
  <2>1. m \in 1..Len(frames) /\ PayloadAt(frames[m]) = b.from /\ frames[m].len = b.len
    BY <1>1, ContentIs
  <2>2. /\ frames[m].at \in Nat /\ PayloadAt(frames[m]) = frames[m].at + 4
        /\ EndOf(frames[m]) = frames[m].at + 4 + frames[m].len
    BY <2>1, Places
  <2> QED
    BY <1>0, <1>1, <2>1, <2>2
<1>3. PICK u : u = ReadUpTo(rest.last, end) /\ u \in Nat /\ next <= u
  <2>1. CASE rest.last = None
    BY <2>1 DEF ReadUpTo
  <2>2. CASE rest.last # None
    <3>1. rest.last.from \in Nat /\ next <= rest.last.from
      BY <1>0, <2>2 DEF GoodRun, KeepsFront, Buffers
    <3> QED
      BY <2>2, <3>1 DEF ReadUpTo
  <2> QED
    BY <2>1, <2>2
<1>4. \A i \in 1..Len(rest.handed) : rest.handed[i] # Chimera =>
          /\ rest.handed[i] \in 1..Len(frames)
          /\ next <= PayloadAt(frames[rest.handed[i]])
          /\ start <= PayloadAt(frames[rest.handed[i]])
          /\ EndOf(frames[rest.handed[i]]) <= u
  <2> TAKE i \in 1..Len(rest.handed)
  <2> HAVE rest.handed[i] # Chimera
  <2>1. rest.handed[i] \in 0..Len(frames)
    BY <1>0, SMTT(30)
  <2>2. PICK j \in 1..Len(frames) : j = rest.handed[i]
    BY <1>0, <2>1 DEF Chimera
  <2>3. next <= PayloadAt(frames[j]) /\ EndOf(frames[j]) <= u
    BY <1>3, <2>2 DEF GoodRun, Within
  <2>4. PayloadAt(frames[j]) \in Nat
    <3>1. frames[j].at \in Nat /\ PayloadAt(frames[j]) = frames[j].at + 4
      BY Places
    <3> QED
      BY <3>1
  <2> QED
    BY <2>2, <2>3, <2>4
<1>5. KeepsFront(rest.last, start, end)
  <2> SUFFICES ASSUME rest.last # None
               PROVE  /\ start <= rest.last.from /\ rest.last.from + rest.last.written = end
                      /\ rest.last.written < rest.last.len
    BY DEF KeepsFront
  <2>1. /\ next <= rest.last.from /\ rest.last.from + rest.last.written = end
        /\ rest.last.written < rest.last.len
    BY DEF GoodRun, KeepsFront
  <2>2. rest.last.from \in Nat
    BY <1>0 DEF Buffers
  <2> QED
    BY <2>1, <2>2
<1>6. GoodRun(rest, start, end)
  BY <1>0, <1>3, <1>4, <1>5 DEF GoodRun, Within
<1>7. ASSUME NEW r \in Results, r.handed = <<m>> \o rest.handed, r.last = rest.last
      PROVE  GoodRun(r, start, end)
  <2>1. PICK h \in Seq(0..Len(frames)) : h = rest.handed
    BY <1>0
  <2>2. PICK t : t = r.handed /\ t = <<m>> \o h
    BY <1>7, <2>1
  <2>3. /\ Len(t) = Len(h) + 1 /\ Len(h) \in Nat /\ t[1] = m
        /\ \A i \in 1..Len(t) : i = 1 \/ (i - 1 \in 1..Len(h) /\ t[i] = h[i - 1])
    BY <2>2, InFront
  <2>4. Within(t, start, u)
    <3> SUFFICES ASSUME NEW i \in 1..Len(t), t[i] # Chimera
                 PROVE  start <= PayloadAt(frames[t[i]]) /\ EndOf(frames[t[i]]) <= u
      BY DEF Within
    <3>1. CASE i = 1
      <4>1. start <= PayloadAt(frames[m]) /\ EndOf(frames[m]) <= next /\ EndOf(frames[m]) \in Nat
        BY <1>2, <2>3, <3>1, Places
      <4> QED
        BY <1>3, <2>3, <3>1, <4>1
    <3>2. CASE i # 1
      BY <1>4, <2>1, <2>3, <3>2
    <3> QED
      BY <3>1, <3>2
  <2>5. Forwards(t)
    <3> SUFFICES ASSUME NEW i \in 1..Len(t), NEW j \in 1..Len(t), i < j,
                        t[i] # Chimera, t[j] # Chimera
                 PROVE  t[i] < t[j]
      BY DEF Forwards
    <3>1. j - 1 \in 1..Len(h) /\ t[j] = h[j - 1]
      BY <2>3
    <3>2. CASE i = 1
      <4>1. PICK k \in 1..Len(frames) : k = t[j] /\ next <= PayloadAt(frames[k])
        BY <1>4, <2>1, <3>1
      <4>2. m \in 1..Len(frames) /\ EndOf(frames[m]) <= next
        BY <1>2, <2>3, <3>2
      <4>3. /\ frames[m].at \in Nat /\ frames[k].at \in Nat /\ frames[m].len \in Nat \ {0}
            /\ PayloadAt(frames[k]) = frames[k].at + 4
            /\ EndOf(frames[m]) = frames[m].at + 4 + frames[m].len
        BY <4>2, Places
      <4>4. frames[m].at < frames[k].at
        <5>1. frames[m].at + 4 + frames[m].len <= next /\ next <= frames[k].at + 4
          BY <4>1, <4>2, <4>3
        <5> QED
          BY <4>3, <5>1, Gap
      <4>5. m < k
        BY <4>2, <4>4, FramesApart
      <4> QED
        BY <2>3, <3>2, <4>1, <4>5
    <3>3. CASE i # 1
      <4>1. i - 1 \in 1..Len(h) /\ t[i] = h[i - 1] /\ i - 1 < j - 1
        BY <2>3, <3>3
      <4> QED
        BY <2>1, <3>1, <4>1 DEF GoodRun, Forwards
    <3> QED
      BY <3>2, <3>3
  <2> QED
    BY <1>3, <1>5, <1>7, <2>2, <2>4, <2>5 DEF GoodRun
<1>8. GoodRun(Throw, start, end)
  BY DoneIsGood
<1>9. PICK r : r = Push(b, outcome, rest)
  OBVIOUS
<1>10. \/ r \in Results /\ r.handed = <<m>> \o rest.handed /\ r.last = rest.last
       \/ r = rest \/ r = Throw
  <2>1. \/ /\ r \in Results /\ r.handed = <<Content(b)>> \o rest.handed
           /\ r.last = rest.last /\ r.returns = rest.returns
        \/ Content(b) = Chimera /\ r = rest
        \/ Content(b) = Chimera /\ r = Throw
    <3>1. rest \in Results
      BY <1>0
    <3>2. Pushed(b, rest, r)
      BY <1>9, <3>1, PushIs
    <3> QED
      BY <3>2, Zenon DEF Pushed
  <2> QED
    BY <1>1, <2>1, Zenon
<1> QED
  BY <1>6, <1>7, <1>8, <1>9, <1>10

(* The backup of what the chunk has of a frame.                            *)
LEMMA FrontIs ==
    ASSUME NEW b \in Buffers, NEW end \in Nat, b.from <= end
    PROVE  /\ Front(b, end) \in Buffers /\ Front(b, end).from = b.from
           /\ Front(b, end).len = b.len /\ Front(b, end).written = end - b.from
<1>1. b.from \in Nat /\ end - b.from \in Nat
  BY DEF Buffers
<1> QED
  BY <1>1 DEF Front, Buffers

(* No buffer is mistaken for none.                                         *)
LEMMA BuffersAreNotNone == \A b \in Buffers : b # None
BY FrameReaderAssumption

(* A frame that goes on in a later chunk is kept.                          *)
LEMMA KeepIsGood ==
    ASSUME Layout, NEW start \in Nat, NEW end \in Nat,
           NEW b \in Buffers, start <= b.from, b.from <= end, end < b.from + b.len
    PROVE  GoodRun(Keep(Front(b, end)), start, end)
<1>1. PICK a \in Buffers : /\ a = Front(b, end) /\ a.from = b.from
                           /\ a.len = b.len /\ a.written = end - b.from
  BY FrontIs
<1>2. Len(frames) \in Nat /\ b.from \in Nat /\ b.len \in Nat
  BY Places DEF Buffers
<1>3. PICK r \in Results : r = Keep(a) /\ r.handed = <<>> /\ r.last = a
  BY <1>2, PlainResults
<1>4. KeepsFront(a, start, end)
  <2>1. start <= a.from /\ a.from + a.written = end /\ a.written < a.len
    BY <1>1, <1>2
  <2> QED
    BY <2>1, Zenon DEF KeepsFront
<1>5. 1..Len(<<>>) = {}
  OBVIOUS
<1>6. GoodRun(r, start, end)
  BY <1>3, <1>4, <1>5 DEF GoodRun, Within, Forwards
<1> QED
  BY <1>1, <1>3, <1>6

(* What holds of every run of the loop, from the end of the chunk          *)
(* backwards: G[i] is a set of runs that the run from place i belongs to.  *)
LEMMA LoopInduction ==
    ASSUME Layout, NEW start \in Nat, NEW end \in Nat, start <= end,
           NEW garbage \in Garbage, NEW outcome, NEW G,
           Done \in G[end],
           \A i \in start..end : i < end /\ i + 4 > end => Throw \in G[i],
           \A i \in start..end : LET n == LengthAt(i, garbage) IN
               i + 4 <= end /\ i + 4 + n > end =>
                   (IF n > MaxBuffer THEN Throw ELSE Keep(Front(Taken(i, garbage), end))) \in G[i],
           \A i \in start..end : LET n == LengthAt(i, garbage) IN
               i + 4 + n <= end =>
                   \A rest \in G[i + 4 + n] : Push(Taken(i, garbage), outcome, rest) \in G[i]
    PROVE  Loop(start, end, garbage, outcome) \in G[start]
<1>1. CASE start = end
  <2>1. start >= end
    BY <1>1
  <2>2. Loop(start, end, garbage, outcome) = Done
    BY <2>1, Zenon DEF Loop
  <2> QED
    BY <1>1, <2>2
<1>2. CASE start < end
  <2>1. PICK f : /\ Loop(start, end, garbage, outcome) = f[start]
                 /\ \A i \in start..end : f[i] = AtPlace(f, i, end, garbage, outcome)
    BY <1>2, LoopIs
  <2>2. ASSUME NEW i \in start..end
        PROVE  AsPlaced(f[i], f, i, end, LengthAt(i, garbage), Taken(i, garbage), outcome)
    <3>1. i \in Nat /\ i <= end
      OBVIOUS
    <3>2. AsPlaced(AtPlace(f, i, end, garbage, outcome), f, i, end,
                   LengthAt(i, garbage), Taken(i, garbage), outcome)
      BY <3>1, AtPlaceIs
    <3> QED
      BY <2>1, <3>2
  <2>3. ASSUME NEW i \in start..end, \A j \in (i + 1)..end : f[j] \in G[j]
        PROVE  f[i] \in G[i]
    <3>1. PICK n \in Nat \ {0} : n = LengthAt(i, garbage)
      BY LengthIs
    <3>2. /\ i = end => f[i] = Done
          /\ i < end /\ i + 4 > end => f[i] = Throw
          /\ i + 4 <= end /\ i + 4 + n > end =>
                 f[i] = IF n > MaxBuffer THEN Throw ELSE Keep(Front(Taken(i, garbage), end))
          /\ i + 4 + n <= end => f[i] = Push(Taken(i, garbage), outcome, f[i + 4 + n])
      BY <2>2, <3>1 DEF AsPlaced
    <3>3. CASE i = end
      BY <3>2, <3>3
    <3>4. CASE i < end /\ i + 4 > end
      BY <3>2, <3>4
    <3>5. CASE i + 4 <= end /\ i + 4 + n > end
      BY <3>1, <3>2, <3>5
    <3>6. CASE i + 4 + n <= end
      <4>1. i + 4 + n \in (i + 1)..end
        BY <3>6
      <4>2. f[i + 4 + n] \in G[i + 4 + n]
        BY <2>3, <4>1
      <4> QED
        BY <3>1, <3>2, <3>6, <4>2
    <3> QED
      BY <3>3, <3>4, <3>5, <3>6
  <2>4. f[start] \in G[start]
    <3> DEFINE Bad == {m \in Nat : m <= end - start /\ f[end - m] \notin G[end - m]}
    <3> SUFFICES ASSUME f[start] \notin G[start] PROVE FALSE
      OBVIOUS
    <3>1. Bad # {}
      <4>1. end - start \in Nat /\ end - (end - start) = start
        BY <1>2
      <4>2. end - start \in Bad
        BY <4>1
      <4> QED
        BY <4>2
    <3>2. PICK m \in Bad : \A p \in Bad : m <= p
      BY <3>1, LeastNat
    <3>3. PICK i \in start..end : i = end - m /\ f[i] \notin G[i]
      <4>1. end - m \in start..end /\ f[end - m] \notin G[end - m]
        OBVIOUS
      <4> QED
        BY <4>1
    <3>4. ASSUME NEW j \in (i + 1)..end PROVE f[j] \in G[j]
      <4>1. end - j \in Nat /\ end - j <= end - start /\ end - (end - j) = j /\ ~(m <= end - j)
        BY <3>3
      <4>2. end - j \notin Bad
        BY <3>2, <4>1
      <4> QED
        BY <4>1, <4>2
    <3> QED
      BY <2>3, <3>3, <3>4
  <2> QED
    BY <2>1, <2>4
<1> QED
  BY <1>1, <1>2

(* The loop, from any place of a chunk on.                                 *)
LEMMA LoopIsGood ==
    ASSUME Layout, NEW start \in Nat, NEW end \in Nat, start <= end,
           NEW garbage \in Garbage, NEW outcome
    PROVE  GoodRun(Loop(start, end, garbage, outcome), start, end)
<1> DEFINE G == [i \in start..end |-> {r \in Results : GoodRun(r, i, end)}]
<1>0. ASSUME NEW i \in start..end PROVE \A r : r \in G[i] <=> GoodRun(r, i, end)
  BY DEF GoodRun
<1> HIDE DEF G
<1>1. Done \in G[end]
  <2>1. end \in start..end
    OBVIOUS
  <2> QED
    BY <1>0, <2>1, DoneIsGood
<1>2. ASSUME NEW i \in start..end PROVE Throw \in G[i]
  <2>1. i \in Nat
    OBVIOUS
  <2> QED
    BY <1>0, <2>1, DoneIsGood
<1>3. ASSUME NEW i \in start..end, NEW n, n = LengthAt(i, garbage), i + 4 <= end, i + 4 + n > end
      PROVE  (IF n > MaxBuffer THEN Throw ELSE Keep(Front(Taken(i, garbage), end))) \in G[i]
  <2>1. PICK b \in Buffers : b = Taken(i, garbage) /\ b.from = i + 4 /\ b.len = n /\ n \in Nat
    BY <1>3, TakenIs
  <2>2. i \in Nat /\ i <= b.from /\ b.from <= end /\ end < b.from + b.len
    BY <1>3, <2>1
  <2>3. GoodRun(Keep(Front(b, end)), i, end)
    BY <2>2, KeepIsGood
  <2> QED
    BY <1>0, <1>2, <2>1, <2>3
<1>4. ASSUME NEW i \in start..end, NEW n, n = LengthAt(i, garbage), i + 4 + n <= end,
             NEW rest \in G[i + 4 + n]
      PROVE  Push(Taken(i, garbage), outcome, rest) \in G[i]
  <2>1. PICK b \in Buffers : b = Taken(i, garbage) /\ b.from = i + 4 /\ b.len = n /\ n \in Nat \ {0}
    BY <1>4, TakenIs
  <2>2. PICK next \in start..end : next = i + 4 + n
    <3>1. i + 4 + n \in start..end
      BY <1>4, <2>1
    <3> QED
      BY <3>1
  <2>3. GoodRun(rest, next, end)
    BY <1>0, <1>4, <2>2
  <2>4. i \in Nat /\ next \in Nat /\ i <= next /\ next <= end /\ i <= b.from /\ b.from + b.len <= next
    BY <2>1, <2>2
  <2>5. GoodRun(Push(b, outcome, rest), i, end)
    BY <2>3, <2>4, PushIsGood
  <2> QED
    BY <1>0, <2>1, <2>5
<1>5. Loop(start, end, garbage, outcome) \in G[start]
  BY <1>1, <1>2, <1>3, <1>4, LoopInduction
<1>6. start \in start..end
  OBVIOUS
<1> QED
  BY <1>0, <1>5, <1>6

(* The buffer kept from the chunk before, with more of it written.         *)
LEMMA WrittenIs ==
    ASSUME NEW l \in Buffers, NEW w \in Nat
    PROVE  /\ [l EXCEPT !.written = w] \in Buffers
           /\ [l EXCEPT !.written = w].from = l.from
           /\ [l EXCEPT !.written = w].len = l.len
           /\ [l EXCEPT !.written = w].written = w
BY DEF Buffers

(* The handler: the buffer kept from the chunk before, and the loop.       *)
LEMMA HandleIsGood ==
    ASSUME Layout, Kept, NEW end \in Nat, pos < end, NEW garbage \in Garbage, NEW outcome
    PROVE  GoodRun(Handle(end, garbage, outcome), ReadUpTo(last, pos), end)
<1>0. pos \in Nat /\ pos <= end
  <2>1. StreamEnd \in Nat
    BY Places
  <2> QED
    BY <2>1 DEF Kept
<1>1. CASE last = None
  <2>1. GoodRun(Loop(pos, end, garbage, outcome), pos, end)
    BY <1>0, LoopIsGood
  <2> QED
    BY <1>1, <2>1, Zenon DEF Handle, ReadUpTo
<1>2. CASE last # None
  <2>1. /\ last \in Buffers /\ last.from \in Nat /\ last.len \in Nat /\ last.written \in Nat
        /\ last.from + last.written = pos /\ last.written < last.len
    BY <1>2 DEF Kept, Buffers
  <2>2. PICK missing \in Nat : /\ missing = last.len - last.written
                               /\ pos + missing = last.from + last.len /\ missing # 0
    <3>1. /\ last.len - last.written \in Nat /\ last.len - last.written # 0
          /\ pos + (last.len - last.written) = last.from + last.len
      BY <2>1
    <3> QED
      BY <3>1
  <2>3. PICK present \in Nat : /\ present = IF pos + missing <= end THEN missing ELSE end - pos
                               /\ pos + missing > end => present < missing
    <3>1. CASE pos + missing <= end
      <4>1. ~(pos + missing > end)
        BY <1>0, <3>1
      <4> QED
        BY <3>1, <4>1
    <3>2. CASE ~(pos + missing <= end)
      <4>1. end - pos \in Nat /\ end - pos < missing
        BY <1>0, <3>2
      <4> QED
        BY <3>2, <4>1
    <3> QED
      BY <3>1, <3>2
  <2>4. PICK b \in Buffers : /\ b = [last EXCEPT !.written = last.written + present]
                             /\ b.from = last.from /\ b.len = last.len
                             /\ b.written = last.written + present
    <3>1. last.written + present \in Nat
      BY <2>1
    <3>2. PICK w \in Nat : w = last.written + present
      BY <3>1
    <3>3. /\ [last EXCEPT !.written = w] \in Buffers
          /\ [last EXCEPT !.written = w].from = last.from
          /\ [last EXCEPT !.written = w].len = last.len
          /\ [last EXCEPT !.written = w].written = w
      BY <2>1, WrittenIs
    <3> QED
      BY <3>2, <3>3, Zenon
  <2>5. PICK rest : rest = Loop(pos + missing, end, garbage, outcome)
    OBVIOUS
  <2>6. Handle(end, garbage, outcome) = Push(b, outcome, rest)
    BY <1>2, <2>2, <2>3, <2>4, <2>5, Zenon DEF Handle
  <2>7. CASE pos + missing <= end
    <3>1. PICK next \in Nat : next = pos + missing
      BY <1>0
    <3>2. GoodRun(rest, next, end)
      BY <2>5, <2>7, <3>1, LoopIsGood
    <3>3. b.from \in Nat /\ b.from <= next /\ b.from <= b.from /\ b.from + b.len <= next /\ next <= end
      BY <2>1, <2>2, <2>4, <2>7, <3>1
    <3>4. GoodRun(Push(b, outcome, rest), b.from, end)
      BY <3>2, <3>3, PushIsGood
    <3> QED
      BY <1>2, <2>4, <2>6, <3>4 DEF ReadUpTo
  <2>8. CASE pos + missing > end
    <3>1. rest = Done
      <4>1. pos + missing >= end
        BY <1>0, <2>8
      <4> QED
        BY <2>5, <4>1, Zenon DEF Loop
    <3>2. Content(b) = Chimera
      <4>1. b.written # b.len
        BY <2>1, <2>2, <2>3, <2>4, <2>8
      <4> QED
        BY <4>1, ContentIs
    <3>3. GoodRun(rest, end, end)
      BY <3>1, DoneIsGood
    <3>4. b.from \in Nat /\ b.from <= end /\ b.from <= b.from /\ end <= end
      BY <1>0, <2>1, <2>4
    <3>5. GoodRun(Push(b, outcome, rest), b.from, end)
      BY <3>2, <3>3, <3>4, PushIsGood
    <3> QED
      BY <1>2, <2>4, <2>6, <3>5 DEF ReadUpTo
  <2> QED
    BY <1>0, <2>7, <2>8
<1> QED
  BY <1>1, <1>2

(* A frame more in the stream.                                             *)
LEMMA AppendIs ==
    ASSUME NEW S, NEW s \in Seq(S), NEW e \in S, NEW t, t = Append(s, e)
    PROVE  /\ t \in Seq(S) /\ Len(t) = Len(s) + 1 /\ Len(s) \in Nat /\ t[Len(s) + 1] = e
           /\ \A i \in 1..Len(s) : t[i] = s[i]
OBVIOUS

(* The library writes a frame.                                             *)
LEMMA WriteKeeps ==
    ASSUME ReaderInv, NEW n \in Lengths, Write(n)
    PROVE  ReaderInv'
<1> DEFINE Frames == [at : Nat, len : Lengths]
<1>0. /\ Layout /\ frames \in Seq(Frames) /\ Len(frames) \in Nat /\ StreamEnd \in Nat
      /\ pos' = pos /\ last' = last /\ handed' = handed /\ alive' = alive /\ clean' = clean
  BY Places DEF ReaderInv, Layout, Write
<1>1. PICK e \in Frames : e = [at |-> StreamEnd, len |-> n] /\ e.at = StreamEnd /\ e.len = n
  <2>1. PICK s \in Nat : s = StreamEnd
    BY <1>0
  <2>2. /\ [at |-> s, len |-> n] \in Frames
        /\ [at |-> s, len |-> n].at = s /\ [at |-> s, len |-> n].len = n
    OBVIOUS
  <2> HIDE DEF Frames
  <2> QED
    BY <2>1, <2>2, Zenon
<1>2. frames' = Append(frames, e)
  BY <1>1 DEF Write
<1> HIDE DEF Frames
<1>3. PICK k \in Nat : k = Len(frames)
  BY <1>0
<1>4. /\ frames' \in Seq(Frames) /\ Len(frames') = k + 1 /\ frames'[k + 1] = e
      /\ \A i \in 1..k : frames'[i] = frames[i]
  BY <1>0, <1>2, <1>3, AppendIs
<1>5. StreamEnd <= StreamEnd' /\ StreamEnd' \in Nat
  <2>1. Len(frames') # 0
    BY <1>4
  <2>2. frames' # <<>>
    BY <2>1
  <2>3. StreamEnd' = EndOf(frames'[Len(frames')])
    BY <2>2 DEF StreamEnd
  <2>4. StreamEnd' = StreamEnd + 4 + n
    BY <1>1, <1>4, <2>3 DEF EndOf, HeaderSize
  <2>5. n \in Nat
    BY FrameReaderAssumption
  <2> QED
    BY <1>0, <2>4, <2>5
<1>6. Layout'
  <2>1. \A j \in 1..Len(frames') : j \in 1..k \/ j = k + 1
    BY <1>4
  <2>2. \A c \in 0..k : Ends(c)' = Ends(c)
    <3> TAKE c \in 0..k
    <3>1. CASE c = 0
      BY <3>1, Zenon DEF Ends
    <3>2. CASE c # 0
      <4>1. frames'[c] = frames[c]
        BY <1>4, <3>2
      <4> QED
        BY <3>2, <4>1 DEF Ends, EndOf
    <3> QED
      BY <3>1, <3>2
  <2>3. ASSUME NEW j \in 1..Len(frames') PROVE frames'[j].at = Ends(j - 1)'
    <3>1. j - 1 \in 0..k
      BY <1>4
    <3>2. CASE j \in 1..k
      <4>1. frames'[j] = frames[j] /\ frames[j].at = Ends(j - 1)
        BY <1>0, <1>3, <1>4, <3>2, Places
      <4> QED
        BY <2>2, <3>1, <4>1
    <3>3. CASE j = k + 1
      <4>1. frames'[j].at = Ends(k) /\ j - 1 = k
        BY <1>0, <1>1, <1>3, <1>4, <3>3, Places
      <4> QED
        BY <2>2, <3>1, <4>1
    <3> QED
      BY <2>1, <3>2, <3>3
  <2>4. ASSUME NEW i \in 1..Len(frames'), NEW j \in 1..Len(frames'), i < j
        PROVE  EndOf(frames'[i]) <= frames'[j].at
    <3>1. i \in 1..k
      BY <1>4, <2>4
    <3>2. frames'[i] = frames[i]
      BY <1>4, <3>1
    <3>3. CASE j \in 1..k
      <4>1. frames'[j] = frames[j] /\ EndOf(frames[i]) <= frames[j].at
        BY <1>0, <1>3, <1>4, <2>4, <3>1, <3>3, Places
      <4> QED
        BY <3>2, <4>1
    <3>4. CASE j = k + 1
      <4>1. frames'[j].at = StreamEnd /\ EndOf(frames[i]) <= StreamEnd
        BY <1>0, <1>1, <1>3, <1>4, <3>1, <3>4, Places
      <4> QED
        BY <3>2, <4>1
    <3> QED
      BY <2>1, <3>3, <3>4
  <2> QED
    BY <1>4, <2>3, <2>4 DEF Layout, Frames
<1>7. Kept'
  <2>1. pos \in Nat /\ pos <= StreamEnd
    BY <1>0 DEF ReaderInv, Kept
  <2>2. pos' \in 0..StreamEnd'
    BY <1>0, <1>5, <2>1
  <2> QED
    BY <1>0, <2>2 DEF ReaderInv, Kept
<1>8. handed' \in Seq(0..Len(frames'))
  <2>1. handed \in Seq(0..k)
    BY <1>3 DEF ReaderInv
  <2>2. 0..k \subseteq 0..(k + 1)
    OBVIOUS
  <2>3. handed \in Seq(0..(k + 1))
    BY <2>1, <2>2
  <2> QED
    BY <1>0, <1>4, <2>3
<1>9. Before'
  <2> SUFFICES ASSUME NEW i \in 1..Len(handed), handed[i] # Chimera
               PROVE  EndOf(frames'[handed[i]]) <= ReadUpTo(last, pos)
    BY <1>0 DEF Before, ReadUpTo
  <2>1. handed[i] \in 1..k
    <3>1. handed[i] \in 0..k
      BY <1>3 DEF ReaderInv
    <3> QED
      BY <3>1 DEF Chimera
  <2>2. frames'[handed[i]] = frames[handed[i]]
    BY <1>4, <2>1
  <2> QED
    BY <2>2 DEF ReaderInv, Before
<1>10. NeverBackwards'
  BY <1>0 DEF ReaderInv, NeverBackwards
<1> QED
  BY <1>0, <1>6, <1>7, <1>8, <1>9, <1>10 DEF ReaderInv

(* Two sequences, one after the other.                                     *)
LEMMA JoinIs ==
    ASSUME NEW S, NEW s \in Seq(S), NEW u \in Seq(S), NEW t, t = s \o u
    PROVE  /\ t \in Seq(S) /\ Len(t) = Len(s) + Len(u) /\ Len(s) \in Nat /\ Len(u) \in Nat
           /\ \A i \in 1..Len(s) : t[i] = s[i]
           /\ \A i \in 1..Len(t) : i \in 1..Len(s) \/ (i - Len(s) \in 1..Len(u) /\ t[i] = u[i - Len(s)])
<1>1. t \in Seq(S) /\ Len(t) = Len(s) + Len(u) /\ Len(s) \in Nat /\ Len(u) \in Nat
  OBVIOUS
<1>2. \A i \in 1..Len(s) : t[i] = s[i]
  OBVIOUS
<1>3. ASSUME NEW i \in 1..Len(t), i \notin 1..Len(s)
      PROVE  i - Len(s) \in 1..Len(u) /\ t[i] = u[i - Len(s)]
  <2>1. i - Len(s) \in 1..Len(u)
    BY <1>1, <1>3
  <2>2. t[i] = u[i - Len(s)]
    BY <1>1, <1>3
  <2> QED
    BY <2>1, <2>2
<1> QED
  BY <1>1, <1>2, <1>3

(* What a good run hands over comes after what was handed over before.     *)
LEMMA JoinKeeps ==
    ASSUME ReaderInv, NEW end \in Nat, NEW r, GoodRun(r, ReadUpTo(last, pos), end),
           NEW t, t = handed \o r.handed, ReadUpTo(last, pos) <= ReadUpTo(r.last, end)
    PROVE  /\ t \in Seq(0..Len(frames)) /\ Forwards(t)
           /\ \A i \in 1..Len(t) :
                t[i] # Chimera => EndOf(frames[t[i]]) <= ReadUpTo(r.last, end)
<1>0. /\ Layout /\ Len(frames) \in Nat /\ handed \in Seq(0..Len(frames))
      /\ r.handed \in Seq(0..Len(frames))
  BY Places DEF ReaderInv, GoodRun, Results
<1>1. PICK u \in Nat : u = ReadUpTo(last, pos)
  <2>1. pos \in Nat /\ last \in Buffers \cup {None}
    BY <1>0, Places DEF ReaderInv, Kept
  <2>2. last # None => last.from \in Nat
    BY <2>1 DEF Buffers
  <2> QED
    BY <2>1, <2>2 DEF ReadUpTo
<1>2. PICK v \in Nat : v = ReadUpTo(r.last, end) /\ u <= v
  <2>1. r.last \in Buffers \cup {None}
    BY DEF GoodRun, Results
  <2>2. r.last # None => r.last.from \in Nat
    BY <2>1 DEF Buffers
  <2> QED
    BY <1>1, <2>1, <2>2 DEF ReadUpTo
<1>3. PICK h \in Seq(0..Len(frames)) : h = r.handed
  BY <1>0
<1>4. /\ t \in Seq(0..Len(frames)) /\ Len(handed) \in Nat
      /\ \A i \in 1..Len(t) : \/ i \in 1..Len(handed) /\ t[i] = handed[i]
                              \/ i - Len(handed) \in 1..Len(h) /\ t[i] = h[i - Len(handed)]
  <2>1. t = handed \o h
    BY <1>3
  <2> QED
    BY <1>0, <2>1, JoinIs
<1>5. \A i \in 1..Len(handed) : handed[i] # Chimera =>
          handed[i] \in 1..Len(frames) /\ EndOf(frames[handed[i]]) <= u
  <2> TAKE i \in 1..Len(handed)
  <2> HAVE handed[i] # Chimera
  <2>1. handed[i] \in 0..Len(frames)
    BY <1>0
  <2> QED
    BY <1>0, <1>1, <2>1 DEF ReaderInv, Before, Chimera
<1>6. \A i \in 1..Len(h) : h[i] # Chimera =>
          /\ h[i] \in 1..Len(frames)
          /\ u <= PayloadAt(frames[h[i]]) /\ EndOf(frames[h[i]]) <= v
  <2> TAKE i \in 1..Len(h)
  <2> HAVE h[i] # Chimera
  <2>1. h[i] \in 0..Len(frames)
    BY <1>3
  <2> QED
    BY <1>0, <1>1, <1>2, <1>3, <2>1, SMTT(30) DEF GoodRun, Within, Chimera
<1>7. ASSUME NEW i \in 1..Len(t), t[i] # Chimera
      PROVE  t[i] \in 1..Len(frames) /\ EndOf(frames[t[i]]) <= v
  <2>1. CASE i \in 1..Len(handed) /\ t[i] = handed[i]
    <3>1. t[i] \in 1..Len(frames) /\ EndOf(frames[t[i]]) <= u
      BY <1>5, <1>7, <2>1
    <3>2. EndOf(frames[t[i]]) \in Nat
      BY <1>0, <3>1, Places
    <3> QED
      BY <1>2, <3>1, <3>2
  <2>2. CASE i - Len(handed) \in 1..Len(h) /\ t[i] = h[i - Len(handed)]
    BY <1>6, <1>7, <2>2
  <2> QED
    BY <1>4, <2>1, <2>2
<1>8. ASSUME NEW i \in 1..Len(t), NEW j \in 1..Len(t), i < j, t[i] # Chimera, t[j] # Chimera
      PROVE  t[i] < t[j]
  <2>1. CASE j \in 1..Len(handed) /\ t[j] = handed[j]
    <3>1. i \in 1..Len(handed) /\ t[i] = handed[i]
      BY <1>4, <1>8, <2>1
    <3> QED
      BY <1>8, <2>1, <3>1 DEF ReaderInv, NeverBackwards
  <2>2. CASE j - Len(handed) \in 1..Len(h) /\ t[j] = h[j - Len(handed)]
    <3>1. CASE i \in 1..Len(handed) /\ t[i] = handed[i]
      <4>1. PICK m \in 1..Len(frames) : m = t[i] /\ EndOf(frames[m]) <= u
        BY <1>5, <1>8, <3>1
      <4>2. PICK k \in 1..Len(frames) : k = t[j] /\ u <= PayloadAt(frames[k])
        BY <1>6, <1>8, <2>2
      <4>3. /\ frames[m].at \in Nat /\ frames[k].at \in Nat /\ frames[m].len \in Nat \ {0}
            /\ PayloadAt(frames[k]) = frames[k].at + 4
            /\ EndOf(frames[m]) = frames[m].at + 4 + frames[m].len
        BY <1>0, Places
      <4>4. frames[m].at < frames[k].at
        <5>1. frames[m].at + 4 + frames[m].len <= u /\ u <= frames[k].at + 4
          BY <4>1, <4>2, <4>3
        <5> QED
          BY <4>3, <5>1, Gap
      <4>5. m < k
        BY <1>0, <4>4, FramesApart
      <4> QED
        BY <4>1, <4>2, <4>5
    <3>2. CASE i - Len(handed) \in 1..Len(h) /\ t[i] = h[i - Len(handed)]
      <4>1. i - Len(handed) < j - Len(handed)
        BY <1>4, <1>8
      <4> QED
        BY <1>3, <1>8, <2>2, <3>2, <4>1 DEF GoodRun, Forwards
    <3> QED
      BY <1>4, <3>1, <3>2
  <2> QED
    BY <1>4, <2>1, <2>2
<1> QED
  BY <1>2, <1>4, <1>7, <1>8 DEF Forwards

(* A chunk is delivered.                                                   *)
LEMMA OnClientDataKeeps ==
    ASSUME ReaderInv, NEW n \in 1..(StreamEnd - pos), NEW garbage \in Garbage,
           NEW outcome, OnClientData(n, garbage, outcome)
    PROVE  ReaderInv'
<1>0. /\ Layout /\ Kept /\ StreamEnd \in Nat /\ pos \in Nat /\ Len(frames) \in Nat
      /\ frames' = frames
  BY Places DEF ReaderInv, Kept, OnClientData
<1>1. PICK end \in Nat : end = pos + n /\ pos < end /\ end <= StreamEnd
  <2>1. pos + n \in Nat /\ pos < pos + n /\ pos + n <= StreamEnd
    BY <1>0
  <2> QED
    BY <2>1
<1>2. PICK r : r = Handle(end, garbage, outcome)
  OBVIOUS
<1>3. /\ pos' = end /\ last' = r.last /\ handed' = handed \o r.handed /\ alive' = r.returns
      /\ clean' = (clean /\ ~CutsHeader(end) /\ ~CutsTwice(pos, end))
  BY <1>1, <1>2, Zenon DEF OnClientData
<1>4. GoodRun(r, ReadUpTo(last, pos), end)
  BY <1>0, <1>1, <1>2, HandleIsGood
<1>5. /\ r.last \in Buffers \cup {None} /\ r.returns \in BOOLEAN
      /\ KeepsFront(r.last, ReadUpTo(last, pos), end)
  BY <1>4 DEF GoodRun, Results
<1>6. ReadUpTo(last, pos) <= ReadUpTo(r.last, end)
  <2>1. ReadUpTo(last, pos) <= end
    <3>1. CASE last = None
      BY <1>0, <1>1, <3>1 DEF ReadUpTo
    <3>2. CASE last # None
      <4>1. last.from \in Nat /\ last.written \in Nat /\ last.from + last.written = pos
        BY <1>0, <3>2 DEF Kept, Buffers
      <4>2. last.from <= end
        BY <1>0, <1>1, <4>1
      <4> QED
        BY <3>2, <4>2 DEF ReadUpTo
    <3> QED
      BY <3>1, <3>2
  <2>2. CASE r.last = None
    BY <2>1, <2>2 DEF ReadUpTo
  <2>3. CASE r.last # None
    BY <1>5, <2>3 DEF KeepsFront, ReadUpTo
  <2> QED
    BY <2>2, <2>3
<1>7. Layout' /\ StreamEnd' = StreamEnd
  BY <1>0 DEF Layout, Ends, EndOf, StreamEnd
<1>8. Kept'
  <2>1. pos' \in 0..StreamEnd'
    BY <1>1, <1>3, <1>7
  <2>2. last' # None => last'.from + last'.written = pos' /\ last'.written < last'.len
    BY <1>3, <1>5 DEF KeepsFront
  <2> QED
    BY <1>3, <1>5, <2>1, <2>2 DEF Kept
<1>9. PICK t : t = handed' /\ t = handed \o r.handed
  BY <1>3
<1>10. /\ t \in Seq(0..Len(frames)) /\ Forwards(t)
       /\ \A i \in 1..Len(t) :
            t[i] # Chimera => EndOf(frames[t[i]]) <= ReadUpTo(r.last, end)
  BY <1>4, <1>6, <1>9, JoinKeeps
<1>11. Before'
  BY <1>0, <1>3, <1>9, <1>10 DEF Before, ReadUpTo, EndOf
<1>12. NeverBackwards'
  BY <1>9, <1>10 DEF NeverBackwards, Forwards
<1>13. alive' \in BOOLEAN /\ clean' \in BOOLEAN
  <2>1. clean' \in BOOLEAN
    <3>1. clean' = TRUE \/ clean' = FALSE
      BY <1>3, Zenon
    <3> QED
      BY <3>1
  <2> QED
    BY <1>3, <1>5, <2>1
<1> QED
  BY <1>0, <1>7, <1>8, <1>9, <1>10, <1>11, <1>12, <1>13 DEF ReaderInv

(* The invariant holds at the start.                                       *)
LEMMA ReaderInit == Init => ReaderInv
<1> SUFFICES ASSUME Init PROVE ReaderInv
  OBVIOUS
<1>1. frames = <<>> /\ pos = 0 /\ last = None /\ handed = <<>> /\ alive = TRUE /\ clean = TRUE
  BY DEF Init
<1>2. 1..Len(<<>>) = {} /\ Len(<<>>) = 0
  OBVIOUS
<1>3. frames \in Seq([at : Nat, len : Lengths]) /\ handed \in Seq(0..Len(frames))
  BY <1>1
<1>4. Layout
  BY <1>1, <1>2, <1>3 DEF Layout
<1>5. Kept
  <2>1. StreamEnd = 0
    BY <1>1 DEF StreamEnd
  <2> QED
    BY <1>1, <2>1 DEF Kept
<1>6. Before /\ NeverBackwards
  BY <1>1, <1>2 DEF Before, NeverBackwards
<1> QED
  BY <1>1, <1>3, <1>4, <1>5, <1>6 DEF ReaderInv

(* Every step keeps it.                                                    *)
LEMMA ReaderNext == ReaderInv /\ [Next]_vars => ReaderInv'
<1> SUFFICES ASSUME ReaderInv, [Next]_vars PROVE ReaderInv'
  OBVIOUS
<1>1. ASSUME NEW n \in Lengths, Write(n) PROVE ReaderInv'
  BY <1>1, WriteKeeps
<1>2. ASSUME NEW n \in 1..(StreamEnd - pos), NEW garbage \in Garbage, NEW outcome \in Outcomes,
             OnClientData(n, garbage, outcome)
      PROVE  ReaderInv'
  BY <1>2, OnClientDataKeeps
<1>3. CASE UNCHANGED vars
  BY <1>3 DEF vars, ReaderInv, Layout, Ends, EndOf, Kept, StreamEnd, Before, ReadUpTo, NeverBackwards
<1> QED
  BY <1>1, <1>2, <1>3 DEF Next

(* ReaderInv is an invariant of the behaviours.                            *)
THEOREM ReaderInvariant == Spec => []ReaderInv
<1>1. Init => ReaderInv
  BY ReaderInit
<1>2. ReaderInv /\ [Next]_vars => ReaderInv'
  BY ReaderNext
<1> QED
  BY <1>1, <1>2, PTL DEF Spec

(* The shape of the state, in every behaviour: the buffer kept and the     *)
(* frame numbers handed over are what they should be, however the stream   *)
(* is cut.                                                                 *)
THEOREM TypeCorrect == Spec => []TypeOK
<1>1. ReaderInv => TypeOK
  BY DEF ReaderInv, Layout, Kept, TypeOK
<1> QED
  BY <1>1, ReaderInvariant, PTL

(* In every behaviour: after the reader has lost the frame boundaries, and *)
(* found them again, no frame is handed over twice or after a later one.   *)
THEOREM NeverBackwardsEver == Spec => []NeverBackwards
<1>1. ReaderInv => NeverBackwards
  BY DEF ReaderInv
<1> QED
  BY <1>1, ReaderInvariant, PTL

(* A run over a clean stretch of the stream, of which c frames have been   *)
(* handed over: the next ones in order, up to the one in progress.         *)
CleanRun(r, c, end) ==
    /\ r \in Results /\ r.returns
    /\ c + Len(r.handed) \in 0..Len(frames)
    /\ \A i \in 1..Len(r.handed) : r.handed[i] = c + i
    /\ InProgress(r.last, end, c + Len(r.handed))

(* A frame that ends before another starts ends before it.                 *)
LEMMA Order ==
    ASSUME NEW a \in Nat, NEW l \in Nat, NEW k \in Nat, NEW m \in Nat, a + 4 + l <= k
    PROVE  a + 4 + l <= k + 4 + m /\ ~(k + 4 + m <= a + 4 + l)
OBVIOUS

(* The first c frames are those that end where the c-th does.              *)
LEMMA EndsIs ==
    ASSUME Layout, NEW c \in 0..Len(frames)
    PROVE  /\ Ends(c) \in Nat /\ Ends(c) <= StreamEnd
           /\ \A j \in 1..Len(frames) : j <= c <=> EndOf(frames[j]) <= Ends(c)
<1>1. Len(frames) \in Nat /\ StreamEnd \in Nat
  BY Places
<1>2. CASE c = 0
  <2>1. Ends(c) = 0
    BY <1>2 DEF Ends
  <2>2. \A j \in 1..Len(frames) : EndOf(frames[j]) \in Nat /\ EndOf(frames[j]) # 0
    <3> TAKE j \in 1..Len(frames)
    <3>1. /\ frames[j].at \in Nat /\ frames[j].len \in Nat
          /\ EndOf(frames[j]) = frames[j].at + 4 + frames[j].len
      BY Places
    <3> QED
      BY <3>1, SMTT(30)
  <2> QED
    BY <1>1, <1>2, <2>1, <2>2
<1>3. CASE c # 0
  <2>1. c \in 1..Len(frames) /\ Ends(c) = EndOf(frames[c])
    BY <1>3 DEF Ends
  <2>2. Ends(c) \in Nat /\ Ends(c) <= StreamEnd
    BY <2>1, Places
  <2>3. ASSUME NEW j \in 1..Len(frames) PROVE j <= c <=> EndOf(frames[j]) <= Ends(c)
    <3>1. /\ frames[j].at \in Nat /\ frames[j].len \in Nat
          /\ EndOf(frames[j]) = frames[j].at + 4 + frames[j].len
          /\ frames[c].at \in Nat /\ frames[c].len \in Nat
          /\ EndOf(frames[c]) = frames[c].at + 4 + frames[c].len
      BY <2>1, Places
    <3>2. j < c => EndOf(frames[j]) <= frames[c].at
      BY <2>1, Places
    <3>3. c < j => EndOf(frames[c]) <= frames[j].at
      BY <2>1, Places
    <3>4. CASE j = c
      BY <2>1, <2>2, <3>4
    <3>5. CASE j < c
      <4>1. PICK a \in Nat, l \in Nat, k \in Nat, m \in Nat :
                /\ a = frames[j].at /\ l = frames[j].len /\ k = frames[c].at /\ m = frames[c].len
                /\ EndOf(frames[j]) = a + 4 + l /\ EndOf(frames[c]) = k + 4 + m
        BY <3>1
      <4>2. a + 4 + l <= k
        BY <3>2, <3>5, <4>1
      <4>3. a + 4 + l <= k + 4 + m
        BY <4>2, Order
      <4>4. EndOf(frames[j]) <= Ends(c)
        BY <2>1, <4>1, <4>3
      <4> QED
        BY <2>1, <3>5, <4>4
    <3>6. CASE c < j
      <4>1. PICK a \in Nat, l \in Nat, k \in Nat, m \in Nat :
                /\ a = frames[c].at /\ l = frames[c].len /\ k = frames[j].at /\ m = frames[j].len
                /\ EndOf(frames[c]) = a + 4 + l /\ EndOf(frames[j]) = k + 4 + m
        BY <3>1
      <4>2. a + 4 + l <= k
        BY <3>3, <3>6, <4>1
      <4>3. ~(k + 4 + m <= a + 4 + l)
        BY <4>2, Order
      <4>4. ~(EndOf(frames[j]) <= Ends(c))
        BY <2>1, <4>1, <4>3
      <4> QED
        BY <2>1, <3>6, <4>4
    <3> QED
      BY <2>1, <3>4, <3>5, <3>6
  <2> QED
    BY <2>2, <2>3
<1> QED
  BY <1>2, <1>3

(* Where one frame ends, the next one starts.                              *)
LEMMA NextFrame ==
    ASSUME Layout, NEW c \in 0..Len(frames), Ends(c) < StreamEnd
    PROVE  /\ c + 1 \in 1..Len(frames) /\ frames[c + 1].at = Ends(c)
           /\ PayloadAt(frames[c + 1]) = Ends(c) + 4
           /\ EndOf(frames[c + 1]) = Ends(c) + 4 + frames[c + 1].len
           /\ Ends(c + 1) = Ends(c) + 4 + frames[c + 1].len
           /\ frames[c + 1].len \in Nat \ {0} /\ frames[c + 1].len <= MaxBuffer
<1>1. Ends(c) \in Nat /\ StreamEnd \in Nat /\ StreamEnd = Ends(Len(frames)) /\ Len(frames) \in Nat
  BY EndsIs, Places
<1>2. c # Len(frames)
  BY <1>1
<1>3. c + 1 \in 1..Len(frames) /\ c + 1 # 0 /\ (c + 1) - 1 = c
  BY <1>1, <1>2
<1>4. /\ frames[c + 1].at = Ends((c + 1) - 1) /\ frames[c + 1].len \in Lengths
      /\ PayloadAt(frames[c + 1]) = frames[c + 1].at + 4
      /\ EndOf(frames[c + 1]) = frames[c + 1].at + 4 + frames[c + 1].len
      /\ frames[c + 1].len \in Nat \ {0}
  BY <1>3, Places
<1>5. Ends(c + 1) = EndOf(frames[c + 1])
  BY <1>3 DEF Ends
<1>6. frames[c + 1].len <= MaxBuffer
  BY <1>4, FrameReaderAssumption
<1> QED
  BY <1>3, <1>4, <1>5, <1>6

(* The buffer that holds the next frame is pushed and accepted.            *)
LEMMA PushIsClean ==
    ASSUME Layout, NEW c \in 0..Len(frames), c + 1 \in 1..Len(frames), NEW end \in Nat,
           NEW b \in Buffers, b.from = PayloadAt(frames[c + 1]), b.len = frames[c + 1].len,
           b.written = b.len, NEW outcome, NEW rest, CleanRun(rest, c + 1, end)
    PROVE  CleanRun(Push(b, outcome, rest), c, end)
<1>1. Content(b) = c + 1
  BY ContentIs
<1>2. PICK r : r = Push(b, outcome, rest)
  OBVIOUS
<1>3. rest \in Results /\ rest.handed \in Seq(0..Len(frames)) /\ Len(frames) \in Nat
  BY Places DEF CleanRun, Results
<1>4. /\ r \in Results /\ r.handed = <<c + 1>> \o rest.handed
      /\ r.last = rest.last /\ r.returns = rest.returns
  <2>1. \/ /\ r \in Results /\ r.handed = <<Content(b)>> \o rest.handed
           /\ r.last = rest.last /\ r.returns = rest.returns
        \/ Content(b) = Chimera /\ r = rest
        \/ Content(b) = Chimera /\ r = Throw
    <3>1. Pushed(b, rest, r)
      BY <1>2, <1>3, PushIs
    <3> QED
      BY <3>1, Zenon DEF Pushed
  <2>2. Content(b) # Chimera
    <3>1. c + 1 # 0
      OBVIOUS
    <3> QED
      BY <1>1, <3>1, Zenon DEF Chimera
  <2> QED
    BY <1>1, <2>1, <2>2, Zenon
<1>5. PICK h \in Seq(0..Len(frames)) : h = rest.handed
  BY <1>3
<1>6. PICK t : t = r.handed /\ t = <<c + 1>> \o h
  BY <1>4, <1>5
<1>7. /\ Len(t) = Len(h) + 1 /\ Len(h) \in Nat /\ t[1] = c + 1
      /\ \A i \in 1..Len(t) : i = 1 \/ (i - 1 \in 1..Len(h) /\ t[i] = h[i - 1])
  <2>1. c + 1 \in 0..Len(frames)
    OBVIOUS
  <2> QED
    BY <1>6, <2>1, InFront
<1>8. /\ c + 1 + Len(h) \in 0..Len(frames) /\ InProgress(rest.last, end, c + 1 + Len(h))
      /\ \A i \in 1..Len(h) : h[i] = c + 1 + i
  BY <1>5 DEF CleanRun
<1>9. c + Len(t) = c + 1 + Len(h)
  BY <1>7
<1>10. \A i \in 1..Len(t) : t[i] = c + i
  <2> TAKE i \in 1..Len(t)
  <2>1. CASE i = 1
    BY <1>7, <2>1
  <2>2. CASE i # 1
    <3>1. i - 1 \in 1..Len(h) /\ t[i] = h[i - 1]
      BY <1>7, <2>2
    <3>2. h[i - 1] = c + 1 + (i - 1)
      BY <1>8, <3>1
    <3> QED
      BY <3>1, <3>2
  <2> QED
    BY <2>1, <2>2
<1>11. r.returns
  BY <1>4 DEF CleanRun
<1> QED
  BY <1>2, <1>4, <1>6, <1>8, <1>9, <1>10, <1>11 DEF CleanRun

(* A clean run that hands nothing over.                                    *)
LEMMA PlainIsClean ==
    ASSUME Len(frames) \in Nat, NEW c \in 0..Len(frames), NEW end \in Nat,
           NEW r \in Results, r.handed = <<>>, r.returns, InProgress(r.last, end, c)
    PROVE  CleanRun(r, c, end)
<1>1. Len(<<>>) = 0 /\ 1..Len(<<>>) = {} /\ c + 0 = c
  OBVIOUS
<1> QED
  BY <1>1 DEF CleanRun

(* What push can make of a run.                                            *)
LEMMA PushResults ==
    ASSUME Layout, NEW b \in Buffers, NEW rest \in Results, NEW outcome,
           NEW r, r = Push(b, outcome, rest)
    PROVE  r \in Results \/ r = rest \/ r = Throw
<1>1. \/ /\ r \in Results /\ r.handed = <<Content(b)>> \o rest.handed
         /\ r.last = rest.last /\ r.returns = rest.returns
      \/ Content(b) = Chimera /\ r = rest
      \/ Content(b) = Chimera /\ r = Throw
  <2>1. Pushed(b, rest, r)
    BY PushIs
  <2> QED
    BY <2>1, Zenon DEF Pushed
<1> QED
  BY <1>1, Zenon

(* The loop from the start of a frame on, in a chunk that cuts no header.  *)
LEMMA LoopIsClean ==
    ASSUME Layout, NEW c \in 0..Len(frames), NEW start \in Nat, start = Ends(c),
           NEW end \in Nat, start <= end, end <= StreamEnd, ~CutsHeader(end),
           NEW garbage \in Garbage, NEW outcome
    PROVE  CleanRun(Loop(start, end, garbage, outcome), c, end)
<1>b. ASSUME NEW i \in start..end, NEW n, n = LengthAt(i, garbage)
      PROVE  /\ n \in Nat \ {0}
             /\ Taken(i, garbage) \in Buffers /\ Taken(i, garbage).from = i + 4
             /\ Taken(i, garbage).len = n /\ Taken(i, garbage).written = n
             /\ \A j \in 1..Len(frames) : frames[j].at = i => n = frames[j].len
  <2>1. i \in Nat
    OBVIOUS
  <2> QED
    <3>1. /\ LengthAt(i, garbage) \in Nat \ {0}
          /\ \A j \in 1..Len(frames) : frames[j].at = i => LengthAt(i, garbage) = frames[j].len
      BY <2>1, LengthIs
    <3>2. /\ Taken(i, garbage) \in Buffers /\ Taken(i, garbage).from = i + 4
          /\ Taken(i, garbage).len = LengthAt(i, garbage)
          /\ Taken(i, garbage).written = LengthAt(i, garbage)
          /\ LengthAt(i, garbage) \in Nat \ {0}
      BY <2>1, TakenIs
    <3> QED
      BY <1>b, <3>1, <3>2, Zenon
<1>c. ASSUME NEW b \in Buffers, NEW rest \in Results, NEW r, r = Push(b, outcome, rest)
      PROVE  r \in Results \/ r = rest \/ r = Throw
  BY <1>c, PushResults
<1> DEFINE G == [i \in start..end |->
                   {r \in Results : \A d \in 0..Len(frames) : i = Ends(d) => CleanRun(r, d, end)}]
<1>0. ASSUME NEW i \in start..end
      PROVE \A r : r \in G[i] <=>
                /\ r \in Results
                /\ \A d \in 0..Len(frames) : i = Ends(d) => CleanRun(r, d, end)
  OBVIOUS
<1> HIDE DEF G
<1>a. Len(frames) \in Nat /\ StreamEnd \in Nat /\ StreamEnd = Ends(Len(frames))
  BY Places
<1>1. Done \in G[end]
  <2>1. end \in start..end
    OBVIOUS
  <2>2. Done \in Results /\ Done.handed = <<>> /\ Done.last = None /\ Done.returns
    BY <1>a, PlainResults
  <2>3. ASSUME NEW d \in 0..Len(frames), end = Ends(d) PROVE CleanRun(Done, d, end)
    <3>1. InProgress(Done.last, end, d)
      BY <2>2, <2>3, Zenon DEF InProgress
    <3> QED
      BY <1>a, <2>2, <3>1, PlainIsClean
  <2> QED
    BY <1>0, <2>1, <2>2, <2>3
<1>2. ASSUME NEW i \in start..end, i < end, i + 4 > end PROVE Throw \in G[i]
  <2>1. Throw \in Results
    BY <1>a, PlainResults
  <2>2. ASSUME NEW d \in 0..Len(frames), i = Ends(d) PROVE FALSE
    <3>1. Ends(d) < StreamEnd
      BY <1>2, <1>a, <2>2
    <3>2. /\ d + 1 \in 1..Len(frames) /\ frames[d + 1].at = i
          /\ PayloadAt(frames[d + 1]) = i + 4
      BY <2>2, <3>1, NextFrame
    <3> QED
      BY <1>2, <3>2 DEF CutsHeader
  <2> QED
    BY <1>0, <2>1, <2>2
<1>3. ASSUME NEW i \in start..end, NEW n, n = LengthAt(i, garbage), i + 4 <= end, i + 4 + n > end
      PROVE  (IF n > MaxBuffer THEN Throw ELSE Keep(Front(Taken(i, garbage), end))) \in G[i]
  <2>0. /\ n \in Nat \ {0}
        /\ Taken(i, garbage) \in Buffers /\ Taken(i, garbage).from = i + 4
        /\ Taken(i, garbage).len = n /\ Taken(i, garbage).written = n
        /\ \A j \in 1..Len(frames) : frames[j].at = i => n = frames[j].len
    BY <1>b, n = LengthAt(i, garbage)
  <2>1. PICK b \in Buffers : b = Taken(i, garbage) /\ b.from = i + 4 /\ b.len = n /\ b.written = n
    BY <2>0, Zenon
  <2>2. PICK a \in Buffers : /\ a = Front(b, end) /\ a.from = i + 4
                             /\ a.len = n /\ a.written = end - (i + 4)
    <3>1. b.from <= end
      BY <1>3, <2>1
    <3> QED
      BY <2>1, <3>1, FrontIs
  <2>3. Keep(a) \in Results /\ Keep(a).handed = <<>> /\ Keep(a).last = a /\ Keep(a).returns
    BY <1>a, PlainResults
  <2>4. Throw \in Results
    BY <1>a, PlainResults
  <2>5. ASSUME NEW d \in 0..Len(frames), i = Ends(d)
        PROVE  ~(n > MaxBuffer) /\ CleanRun(Keep(a), d, end)
    <3>1. Ends(d) < StreamEnd
      BY <1>3, <1>a, <2>5
    <3>2. /\ d + 1 \in 1..Len(frames) /\ frames[d + 1].at = i
          /\ PayloadAt(frames[d + 1]) = i + 4
          /\ EndOf(frames[d + 1]) = i + 4 + frames[d + 1].len
          /\ frames[d + 1].len <= MaxBuffer /\ frames[d + 1].len \in Nat
      BY <2>5, <3>1, NextFrame
    <3>3. n = frames[d + 1].len
      BY <2>0, <3>2
    <3>4. ~(n > MaxBuffer)
      BY <3>2, <3>3, FrameReaderAssumption
    <3>5. InProgress(a, end, d)
      <4>1. a # None
        BY BuffersAreNotNone
      <4>2. end < EndOf(frames[d + 1])
        BY <1>3, <3>2, <3>3
      <4> QED
        BY <2>2, <3>2, <3>3, <4>1, <4>2, Zenon DEF InProgress
    <3>6. CleanRun(Keep(a), d, end)
      BY <1>a, <2>3, <3>5, PlainIsClean
    <3> QED
      BY <3>4, <3>6
  <2>6. CASE n > MaxBuffer
    <3>1. Throw \in G[i]
      BY <1>0, <2>4, <2>5, <2>6
    <3> QED
      BY <2>6, <3>1
  <2>7. CASE ~(n > MaxBuffer)
    <3>1. Keep(a) \in G[i]
      BY <1>0, <2>3, <2>5
    <3> QED
      BY <2>1, <2>2, <2>7, <3>1
  <2> QED
    BY <2>6, <2>7
<1>4. ASSUME NEW i \in start..end, NEW n, n = LengthAt(i, garbage), i + 4 + n <= end,
             NEW rest \in G[i + 4 + n]
      PROVE  Push(Taken(i, garbage), outcome, rest) \in G[i]
  <2>0. /\ n \in Nat \ {0}
        /\ Taken(i, garbage) \in Buffers /\ Taken(i, garbage).from = i + 4
        /\ Taken(i, garbage).len = n /\ Taken(i, garbage).written = n
        /\ \A j \in 1..Len(frames) : frames[j].at = i => n = frames[j].len
    BY <1>b, n = LengthAt(i, garbage)
  <2>1. PICK b \in Buffers : b = Taken(i, garbage) /\ b.from = i + 4 /\ b.len = n /\ b.written = n
    BY <2>0, Zenon
  <2>2. PICK next \in start..end : next = i + 4 + n
    <3>1. i + 4 + n \in start..end
      BY <1>4, <2>0
    <3> QED
      BY <3>1
  <2>3. /\ rest \in Results
        /\ \A d \in 0..Len(frames) : next = Ends(d) => CleanRun(rest, d, end)
    BY <1>0, <1>4, <2>2
  <2>4. PICK r : r = Push(b, outcome, rest)
    OBVIOUS
  <2>5. r \in Results
    <3>1. \/ r \in Results \/ r = rest \/ r = Throw
      BY <1>c, <2>3, <2>4
    <3>2. Throw \in Results
      BY <1>a, PlainResults
    <3> QED
      BY <2>3, <3>1, <3>2
  <2>6. ASSUME NEW d \in 0..Len(frames), i = Ends(d) PROVE CleanRun(r, d, end)
    <3>1. Ends(d) < StreamEnd
      BY <1>4, <1>a, <2>0, <2>6
    <3>2. /\ d + 1 \in 1..Len(frames) /\ frames[d + 1].at = i
          /\ PayloadAt(frames[d + 1]) = i + 4
          /\ Ends(d + 1) = i + 4 + frames[d + 1].len
      BY <2>6, <3>1, NextFrame
    <3>3. n = frames[d + 1].len
      BY <2>0, <3>2
    <3>4. CleanRun(rest, d + 1, end)
      <4>1. d + 1 \in 0..Len(frames)
        BY <3>2
      <4>2. next = Ends(d + 1)
        BY <2>2, <3>2, <3>3
      <4> QED
        BY <2>3, <4>1, <4>2
    <3>5. /\ b.from = PayloadAt(frames[d + 1]) /\ b.len = frames[d + 1].len
          /\ b.written = b.len
      BY <2>1, <3>2, <3>3
    <3> QED
      BY <2>4, <3>2, <3>4, <3>5, PushIsClean
  <2>7. r \in G[i]
    BY <1>0, <2>5, <2>6
  <2> QED
    BY <2>1, <2>4, <2>7
<1>5. Loop(start, end, garbage, outcome) \in G[start]
  BY <1>1, <1>2, <1>3, <1>4, LoopInduction
<1>6. start \in start..end
  OBVIOUS
<1> QED
  BY <1>0, <1>5, <1>6

(* The handler, while the stream is clean.                                 *)
LEMMA HandleIsClean ==
    ASSUME Layout, Kept, NEW c \in 0..Len(frames), InProgress(last, pos, c),
           NEW end \in Nat, pos < end, end <= StreamEnd,
           ~CutsHeader(end), ~CutsTwice(pos, end), NEW garbage \in Garbage, NEW outcome
    PROVE  CleanRun(Handle(end, garbage, outcome), c, end)
<1>0. pos \in Nat /\ StreamEnd \in Nat /\ Len(frames) \in Nat /\ Ends(c) \in Nat
  BY Places, EndsIs DEF Kept
<1>1. CASE last = None
  <2>1. pos = Ends(c)
    BY <1>1, Zenon DEF InProgress
  <2>2. CleanRun(Loop(pos, end, garbage, outcome), c, end)
    <3>1. pos <= end
      BY <1>0
    <3> QED
      BY <1>0, <2>1, <3>1, LoopIsClean
  <2> QED
    BY <1>1, <2>2, Zenon DEF Handle
<1>2. CASE last # None
  <2>1. /\ last \in Buffers /\ last.from \in Nat /\ last.len \in Nat /\ last.written \in Nat
        /\ last.from + last.written = pos /\ last.written < last.len
    BY <1>2 DEF Kept, Buffers
  <2>2. /\ c + 1 \in 1..Len(frames) /\ last.from = PayloadAt(frames[c + 1])
        /\ last.len = frames[c + 1].len /\ pos < EndOf(frames[c + 1])
    BY <1>2, Zenon DEF InProgress
  <2>3. /\ frames[c + 1].at = Ends(c) /\ EndOf(frames[c + 1]) = last.from + last.len
        /\ Ends(c + 1) = last.from + last.len /\ last.from + last.len <= StreamEnd
    <3>1. /\ frames[c + 1].at = Ends((c + 1) - 1)
          /\ PayloadAt(frames[c + 1]) = frames[c + 1].at + 4
          /\ EndOf(frames[c + 1]) = frames[c + 1].at + 4 + frames[c + 1].len
          /\ EndOf(frames[c + 1]) <= StreamEnd
      BY <2>2, Places
    <3>2. (c + 1) - 1 = c /\ c + 1 # 0
      BY <2>2
    <3>3. Ends(c + 1) = EndOf(frames[c + 1])
      BY <3>2 DEF Ends
    <3> QED
      BY <2>2, <3>1, <3>2, <3>3
  <2>4. PICK missing \in Nat : /\ missing = last.len - last.written
                               /\ pos + missing = last.from + last.len
                               /\ last.written + missing = last.len
    <3>1. /\ last.len - last.written \in Nat
          /\ pos + (last.len - last.written) = last.from + last.len
          /\ last.written + (last.len - last.written) = last.len
      BY <2>1
    <3> QED
      BY <3>1
  <2>5. pos + missing <= end
    <3>1. last.from + last.len <= end
      <4>1. last.from <= pos
        BY <2>1
      <4>2. ~(end < EndOf(frames[c + 1]))
        BY <2>2, <4>1 DEF CutsTwice
      <4> QED
        BY <2>1, <2>3, <4>2
    <3> QED
      BY <2>4, <3>1
  <2>6. PICK b \in Buffers : /\ b = [last EXCEPT !.written = last.written + missing]
                             /\ b.from = last.from /\ b.len = last.len /\ b.written = last.len
    <3>1. PICK w \in Nat : w = last.written + missing /\ w = last.len
      BY <2>1, <2>4
    <3>2. /\ [last EXCEPT !.written = w] \in Buffers
          /\ [last EXCEPT !.written = w].from = last.from
          /\ [last EXCEPT !.written = w].len = last.len
          /\ [last EXCEPT !.written = w].written = w
      BY <2>1, WrittenIs
    <3> QED
      BY <3>1, <3>2, Zenon
  <2>7. PICK next \in Nat : next = pos + missing /\ next = Ends(c + 1)
    <3>1. pos + missing \in Nat /\ pos + missing = Ends(c + 1)
      BY <1>0, <2>3, <2>4
    <3> QED
      BY <3>1
  <2>8. PICK rest : rest = Loop(next, end, garbage, outcome)
    OBVIOUS
  <2>9. Handle(end, garbage, outcome) = Push(b, outcome, rest)
    BY <1>2, <2>4, <2>5, <2>6, <2>7, <2>8, Zenon DEF Handle
  <2>10. CleanRun(rest, c + 1, end)
    <3>1. PICK d \in 0..Len(frames) : d = c + 1
      BY <2>2
    <3>2. next = Ends(d) /\ next <= end
      BY <2>5, <2>7, <3>1
    <3>3. CleanRun(rest, d, end)
      BY <2>8, <3>2, LoopIsClean
    <3> QED
      BY <3>1, <3>3
  <2>11. /\ b.from = PayloadAt(frames[c + 1]) /\ b.len = frames[c + 1].len
         /\ b.written = b.len
    BY <2>2, <2>6
  <2>12. CleanRun(Push(b, outcome, rest), c, end)
    BY <2>2, <2>10, <2>11, PushIsClean
  <2> QED
    BY <2>9, <2>12
<1> QED
  BY <1>1, <1>2

(* The library writes a frame.                                             *)
LEMMA WriteIsClean ==
    ASSUME ReaderInv, CleanInv, NEW n \in Lengths, Write(n)
    PROVE  CleanInv'
<1> SUFFICES ASSUME clean'
             PROVE  /\ alive' /\ Len(handed') \in 0..Len(frames')
                    /\ \A i \in 1..Len(handed') : handed'[i] = i
                    /\ InProgress(last, pos, Len(handed))'
  BY DEF CleanInv
<1>0. /\ Layout /\ Len(frames) \in Nat
      /\ pos' = pos /\ last' = last /\ handed' = handed /\ alive' = alive /\ clean' = clean
  BY Places DEF ReaderInv, Write
<1>1. Len(frames') = Len(frames) + 1 /\ \A i \in 1..Len(frames) : frames'[i] = frames[i]
  <2>1. PICK e : frames' = Append(frames, e)
    BY DEF Write
  <2>2. frames \in Seq([at : Nat, len : Lengths])
    BY <1>0 DEF Layout
  <2> QED
    BY <2>1, <2>2
<1>2. PICK c \in 0..Len(frames) : /\ c = Len(handed) /\ alive /\ \A i \in 1..c : handed[i] = i
                                  /\ InProgress(last, pos, c)
  BY <1>0 DEF CleanInv
<1>3. c \in 0..Len(frames') /\ c + 1 \in 1..Len(frames) => c + 1 \in 1..Len(frames')
  BY <1>0, <1>1
<1>4. Ends(c)' = Ends(c)
  <2>1. c # 0 => c \in 1..Len(frames)
    BY <1>0
  <2>2. c # 0 => frames'[c] = frames[c]
    BY <1>1, <2>1
  <2> QED
    BY <2>2 DEF Ends, EndOf
<1>5. InProgress(last, pos, c)'
  <2>1. CASE last = None /\ pos = Ends(c)
    BY <1>0, <1>4, <2>1 DEF InProgress
  <2>2. CASE /\ last # None /\ c + 1 \in 1..Len(frames)
             /\ last.from = PayloadAt(frames[c + 1]) /\ last.len = frames[c + 1].len
             /\ pos < EndOf(frames[c + 1])
    <3>1. frames'[c + 1] = frames[c + 1] /\ c + 1 \in 1..Len(frames')
      BY <1>0, <1>1, <2>2
    <3> QED
      BY <1>0, <2>2, <3>1 DEF InProgress, PayloadAt, EndOf
  <2> QED
    BY <1>2, <2>1, <2>2 DEF InProgress
<1>6. Len(handed') \in 0..Len(frames')
  BY <1>0, <1>1, <1>2
<1>7. InProgress(last, pos, Len(handed))'
  BY <1>0, <1>2, <1>5
<1> QED
  BY <1>0, <1>2, <1>6, <1>7

(* A chunk is delivered.                                                   *)
LEMMA OnClientDataIsClean ==
    ASSUME ReaderInv, CleanInv, NEW n \in 1..(StreamEnd - pos), NEW garbage \in Garbage,
           NEW outcome, OnClientData(n, garbage, outcome)
    PROVE  CleanInv'
<1> SUFFICES ASSUME clean'
             PROVE  /\ alive' /\ Len(handed') \in 0..Len(frames')
                    /\ \A i \in 1..Len(handed') : handed'[i] = i
                    /\ InProgress(last, pos, Len(handed))'
  BY DEF CleanInv
<1>0. /\ Layout /\ Kept /\ StreamEnd \in Nat /\ pos \in Nat /\ Len(frames) \in Nat
      /\ frames' = frames /\ handed \in Seq(0..Len(frames))
  BY Places DEF ReaderInv, Kept, OnClientData
<1>1. PICK end \in Nat : end = pos + n /\ pos < end /\ end <= StreamEnd
  <2>1. pos + n \in Nat /\ pos < pos + n /\ pos + n <= StreamEnd
    BY <1>0
  <2> QED
    BY <2>1
<1>2. PICK r : r = Handle(end, garbage, outcome)
  OBVIOUS
<1>3. /\ pos' = end /\ last' = r.last /\ handed' = handed \o r.handed /\ alive' = r.returns
      /\ clean' = (clean /\ ~CutsHeader(end) /\ ~CutsTwice(pos, end))
  BY <1>1, <1>2, Zenon DEF OnClientData
<1>4. clean /\ ~CutsHeader(end) /\ ~CutsTwice(pos, end)
  BY <1>3, Zenon
<1>5. PICK c \in 0..Len(frames) : /\ c = Len(handed) /\ \A i \in 1..c : handed[i] = i
                                  /\ InProgress(last, pos, c)
  BY <1>4 DEF CleanInv
<1>6. CleanRun(r, c, end)
  BY <1>0, <1>1, <1>2, <1>4, <1>5, HandleIsClean
<1>7. PICK h \in Seq(0..Len(frames)) : h = r.handed
  BY <1>6 DEF CleanRun, Results
<1>8. PICK t : t = handed' /\ t = handed \o h
  BY <1>3, <1>7
<1>9. /\ Len(t) = c + Len(h) /\ Len(h) \in Nat
      /\ \A i \in 1..c : t[i] = handed[i]
      /\ \A i \in 1..Len(t) : i \in 1..c \/ (i - c \in 1..Len(h) /\ t[i] = h[i - c])
  <2>1. /\ Len(t) = Len(handed) + Len(h) /\ Len(h) \in Nat
        /\ \A i \in 1..Len(handed) : t[i] = handed[i]
        /\ \A i \in 1..Len(t) : \/ i \in 1..Len(handed)
                                \/ i - Len(handed) \in 1..Len(h) /\ t[i] = h[i - Len(handed)]
    BY <1>0, <1>8, JoinIs
  <2> QED
    BY <1>5, <2>1
<1>10. /\ r.returns /\ c + Len(h) \in 0..Len(frames)
       /\ \A i \in 1..Len(h) : h[i] = c + i
       /\ InProgress(r.last, end, c + Len(h))
  BY <1>6, <1>7 DEF CleanRun
<1>11. \A i \in 1..Len(t) : t[i] = i
  <2> TAKE i \in 1..Len(t)
  <2>1. CASE i \in 1..c
    BY <1>5, <1>9, <2>1
  <2>2. CASE i \notin 1..c
    <3>1. i - c \in 1..Len(h) /\ t[i] = h[i - c]
      BY <1>9, <2>2
    <3>2. h[i - c] = c + (i - c)
      BY <1>10, <3>1
    <3> QED
      BY <1>9, <3>1, <3>2
  <2> QED
    BY <2>1, <2>2
<1>12. InProgress(last, pos, Len(handed))'
  <2>1. InProgress(r.last, end, Len(t))
    BY <1>9, <1>10
  <2> QED
    BY <1>0, <1>3, <1>8, <2>1 DEF InProgress, Ends, EndOf, PayloadAt
<1>13. alive'
  BY <1>3, <1>10
<1>14. Len(handed') \in 0..Len(frames') /\ \A i \in 1..Len(handed') : handed'[i] = i
  BY <1>0, <1>8, <1>9, <1>10, <1>11
<1> QED
  BY <1>12, <1>13, <1>14

(* The stream is clean at the start.                                       *)
LEMMA CleanInit == Init => CleanInv
<1> SUFFICES ASSUME Init PROVE CleanInv
  OBVIOUS
<1>1. frames = <<>> /\ pos = 0 /\ last = None /\ handed = <<>> /\ alive = TRUE /\ clean = TRUE
  BY DEF Init
<1>2. Len(<<>>) = 0 /\ 1..Len(<<>>) = {} /\ 0 \in 0..0
  OBVIOUS
<1>3. InProgress(last, pos, 0)
  BY <1>1 DEF InProgress, Ends
<1> QED
  BY <1>1, <1>2, <1>3 DEF CleanInv

(* Every step keeps what is known of a clean stream.                       *)
LEMMA CleanNext == ReaderInv /\ CleanInv /\ [Next]_vars => CleanInv'
<1> SUFFICES ASSUME ReaderInv, CleanInv, [Next]_vars PROVE CleanInv'
  OBVIOUS
<1>1. ASSUME NEW n \in Lengths, Write(n) PROVE CleanInv'
  BY <1>1, WriteIsClean
<1>2. ASSUME NEW n \in 1..(StreamEnd - pos), NEW garbage \in Garbage, NEW outcome \in Outcomes,
             OnClientData(n, garbage, outcome)
      PROVE  CleanInv'
  BY <1>2, OnClientDataIsClean
<1>3. CASE UNCHANGED vars
  BY <1>3 DEF vars, CleanInv, InProgress, Ends, EndOf, PayloadAt
<1> QED
  BY <1>1, <1>2, <1>3 DEF Next

(* What is known of a clean stream says that it has been read.             *)
LEMMA CleanIsRead == ReaderInv /\ CleanInv => CleanStreamIsRead
<1> SUFFICES ASSUME ReaderInv, CleanInv, clean
             PROVE  /\ alive /\ LastIsFront
                    /\ \A j \in 1..Len(frames) : EndOf(frames[j]) <= pos => j \in 1..Len(handed)
                    /\ \A i \in 1..Len(handed) :
                         handed[i] = i /\ i \in 1..Len(frames) /\ EndOf(frames[i]) <= pos
  BY DEF CleanStreamIsRead
<1>0. Layout /\ Kept /\ Len(frames) \in Nat /\ StreamEnd \in Nat /\ pos \in Nat
  BY Places DEF ReaderInv, Kept
<1>1. PICK c \in 0..Len(frames) : /\ c = Len(handed) /\ alive /\ \A i \in 1..c : handed[i] = i
                                  /\ InProgress(last, pos, c)
  BY DEF CleanInv
<1>2. /\ Ends(c) \in Nat
      /\ \A j \in 1..Len(frames) : j <= c <=> EndOf(frames[j]) <= Ends(c)
  BY <1>0, EndsIs
<1>3. LastIsFront /\ Ends(c) <= pos
      /\ \A j \in 1..Len(frames) : EndOf(frames[j]) <= pos => j <= c
  <2>1. CASE last = None
    <3>1. pos = Ends(c)
      BY <1>1, <2>1, Zenon DEF InProgress
    <3> QED
      BY <1>2, <2>1, <3>1 DEF LastIsFront
  <2>2. CASE last # None
    <3>1. /\ c + 1 \in 1..Len(frames) /\ last.from = PayloadAt(frames[c + 1])
          /\ last.len = frames[c + 1].len /\ pos < EndOf(frames[c + 1])
      BY <1>1, <2>2, Zenon DEF InProgress
    <3>2. last.from + last.written = pos /\ last.from \in Nat /\ last.written \in Nat
      BY <1>0, <2>2 DEF Kept, Buffers
    <3>3. LastIsFront
      BY <3>1, <3>2 DEF LastIsFront
    <3>4. /\ frames[c + 1].at = Ends((c + 1) - 1) /\ (c + 1) - 1 = c
          /\ PayloadAt(frames[c + 1]) = frames[c + 1].at + 4
          /\ frames[c + 1].at \in Nat
      BY <1>0, <3>1, Places
    <3>5. Ends(c) <= pos
      BY <3>1, <3>2, <3>4
    <3>6. ASSUME NEW j \in 1..Len(frames), ~(j <= c) PROVE ~(EndOf(frames[j]) <= pos)
      <4>1. CASE j = c + 1
        <5>1. EndOf(frames[j]) \in Nat /\ pos < EndOf(frames[j])
          BY <1>0, <3>1, <4>1, Places
        <5> QED
          BY <1>0, <5>1
      <4>2. CASE c + 1 < j
        <5>1. EndOf(frames[c + 1]) <= frames[j].at /\ EndOf(frames[c + 1]) \in Nat
          BY <1>0, <3>1, <4>2, Places
        <5>2. /\ frames[j].at \in Nat /\ frames[j].len \in Nat
              /\ EndOf(frames[j]) = frames[j].at + 4 + frames[j].len
          BY <1>0, Places
        <5> QED
          BY <1>0, <3>1, <5>1, <5>2, SMTT(30)
      <4> QED
        BY <3>6, <4>1, <4>2
    <3> QED
      BY <3>3, <3>5, <3>6
  <2> QED
    BY <2>1, <2>2
<1>4. \A i \in 1..c : i \in 1..Len(frames) /\ EndOf(frames[i]) <= pos
  <2> TAKE i \in 1..c
  <2>1. i \in 1..Len(frames) /\ i <= c
    BY <1>0
  <2>2. EndOf(frames[i]) <= Ends(c) /\ EndOf(frames[i]) \in Nat
    BY <1>0, <1>2, <2>1, Places
  <2> QED
    BY <1>0, <1>2, <1>3, <2>1, <2>2
<1>5. \A j \in 1..Len(frames) : j <= c => j \in 1..c
  OBVIOUS
<1> QED
  BY <1>1, <1>3, <1>4, <1>5

(* The contract of the reader, in every behaviour: while no boundary cuts a *)
(* header and no payload is cut twice, what was handed over are the frames *)
(* received completely, each once and in order, the buffer is the front of *)
(* the next, and no exception has left the handler.                        *)
THEOREM CleanStreamEver == Spec => []CleanStreamIsRead
<1>1. Init => CleanInv
  BY CleanInit
<1>2. ReaderInv /\ CleanInv /\ [Next]_vars => CleanInv'
  BY CleanNext
<1>3. Spec => []CleanInv
  BY <1>1, <1>2, ReaderInvariant, PTL DEF Spec
<1> QED
  BY <1>3, ReaderInvariant, CleanIsRead, PTL
=============================================================================
