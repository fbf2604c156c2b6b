--------------------------- MODULE LogTextProofs ----------------------------
(***************************************************************************)
(* Proofs about the formatter of the log library, for every set of tokens, *)
(* arguments, texts, frames and dumps that satisfies LogTextAssumption: the*)
(* type invariant, which says that no message leaves the stream bad or     *)
(* adjusting to the left; from it the layout of the tokens; that the       *)
(* conversions read the arguments meant for them; the stack lists; and what*)
(* the two folds of the formatter make: the lines of a dump, and what is   *)
(* read of a frame.                                                        *)
(*                                                                         *)
(* A fold is a CHOOSE of a function on sets of indices.  That there is such*)
(* a function, and that at the prefixes it steps through the sequence, is  *)
(* proved by the least counterexample (FoldExists, FoldSteps); so are the  *)
(* facts about all prefixes that the two last theorems need.               *)
(***************************************************************************)
EXTENDS LogText, FiniteSetTheorems, WellFoundedInduction, TLAPS

(* The states of a string stream.                                          *)
Streams == [width : Int, fill : {" ", "0"}, prec : Int, left : BOOLEAN, bad : BOOLEAN]

(* The width is set.                                                       *)
LEMMA WidthSet ==
    ASSUME NEW S, NEW v \in Int, NEW s \in [width : Int, fill : {" ", "0"}, prec : Int, left : S, bad : S],
           NEW r, r = [s EXCEPT !.width = v]
    PROVE  /\ r \in [width : Int, fill : {" ", "0"}, prec : Int, left : S, bad : S]
           /\ r.width = v /\ r.fill = s.fill /\ r.prec = s.prec
           /\ r.left = s.left /\ r.bad = s.bad
OBVIOUS

(* The side is set.                                                        *)
LEMMA LeftSet ==
    ASSUME NEW S, NEW v \in S, NEW s \in [width : Int, fill : {" ", "0"}, prec : Int, left : S, bad : S],
           NEW r, r = [s EXCEPT !.left = v]
    PROVE  /\ r \in [width : Int, fill : {" ", "0"}, prec : Int, left : S, bad : S]
           /\ r.width = s.width /\ r.fill = s.fill /\ r.prec = s.prec
           /\ r.left = v /\ r.bad = s.bad
OBVIOUS

(* The state of the stream is set.                                         *)
LEMMA BadSet ==
    ASSUME NEW S, NEW v \in S, NEW s \in [width : Int, fill : {" ", "0"}, prec : Int, left : S, bad : S],
           NEW r, r = [s EXCEPT !.bad = v]
    PROVE  /\ r \in [width : Int, fill : {" ", "0"}, prec : Int, left : S, bad : S]
           /\ r.width = s.width /\ r.fill = s.fill /\ r.prec = s.prec
           /\ r.left = s.left /\ r.bad = v
OBVIOUS

(* The fill is set.                                                        *)
LEMMA FillSet ==
    ASSUME NEW S, NEW v \in {" ", "0"}, NEW s \in [width : Int, fill : {" ", "0"}, prec : Int, left : S, bad : S],
           NEW r, r = [s EXCEPT !.fill = v]
    PROVE  /\ r \in [width : Int, fill : {" ", "0"}, prec : Int, left : S, bad : S]
           /\ r.width = s.width /\ r.fill = v /\ r.prec = s.prec
           /\ r.left = s.left /\ r.bad = s.bad
OBVIOUS

(* operator<< uses up the width of a stream that is good, and nothing      *)
(* else.                                                                   *)
LEMMA InsertIs ==
    ASSUME NEW s \in Streams
    PROVE  /\ Insert(s) \in Streams
           /\ Insert(s).fill = s.fill /\ Insert(s).prec = s.prec
           /\ Insert(s).left = s.left /\ Insert(s).bad = s.bad
           /\ ~s.bad => Insert(s).width = 0
<1>1. CASE s.bad
  <2>1. Insert(s) = s
    BY <1>1, Zenon DEF Insert
  <2> QED
    BY <1>1, <2>1
<1>2. CASE ~s.bad
  <2>1. PICK r : r = [s EXCEPT !.width = 0]
    OBVIOUS
  <2>2. Insert(s) = r
    BY <1>2, <2>1, Zenon DEF Insert
  <2>3. /\ r \in Streams /\ r.width = 0 /\ r.fill = s.fill /\ r.prec = s.prec
        /\ r.left = s.left /\ r.bad = s.bad
    <3>1. 0 \in Int
      OBVIOUS
    <3>2. s \in [width : Int, fill : {" ", "0"}, prec : Int, left : BOOLEAN, bad : BOOLEAN]
      BY Zenon DEF Streams
    <3> QED
      BY <2>1, <3>1, <3>2, WidthSet, Zenon DEF Streams
  <2> QED
    BY <2>2, <2>3
<1> QED
  BY <1>1, <1>2

(* A token is one of the grammar.                                          *)
LEMMA TokenParts ==
    ASSUME NEW t \in Tokens
    PROVE  /\ t.w \in {"", "2", "*", "*1$", "1$"} /\ t.p \in {"", ".", ".1", ".3", ".*"}
           /\ t.flags \subseteq {"#", "0", "-", " ", "+"}
           /\ t.conv \in Ints \cup Floats \cup {"c", "s", "p", "n", "m", "%"}
BY LogTextAssumption

(* The width and the precision of a token are numbers.                     *)
LEMMA WidthIs ==
    ASSUME NEW t \in Tokens, NEW w \in WidthArgs(t), NEW p \in PrecisionArgs(t)
    PROVE  FieldWidth(t, w) \in Int /\ Precision(t, p) \in Int
<1>0. 0 \in Int /\ 1 \in Int /\ 2 \in Int /\ 3 \in Int
  OBVIOUS
<1>1. Stars \subseteq Int
  BY LogTextAssumption, Zenon
<1>2. w \in Stars \cup {0} /\ p \in Stars \cup {0}
  BY DEF WidthArgs, PrecisionArgs
<1>3. w \in Int /\ p \in Int
  BY <1>0, <1>1, <1>2, Zenon
<1>4. FieldWidth(t, w) = 0 \/ FieldWidth(t, w) = 2 \/ FieldWidth(t, w) = 1 \/ FieldWidth(t, w) = w
  BY Zenon DEF FieldWidth
<1>5. Precision(t, p) = 1 \/ Precision(t, p) = 0 \/ Precision(t, p) = 3 \/ Precision(t, p) = p
  BY Zenon DEF Precision
<1> QED
  BY <1>0, <1>3, <1>4, <1>5, Zenon

(* What a token makes of the stream.                                       *)
Ready(s, t, w, p, r) ==
    /\ r.fill = IF t.conv = "s" \/ " " \in t.flags THEN " "
                ELSE IF "0" \in t.flags /\ "-" \notin t.flags THEN "0" ELSE s.fill
    /\ r.left <=> ("+" \notin t.flags /\ ("-" \in t.flags \/ s.left))
    /\ r.width = IF FieldWidth(t, w) # 0 THEN FieldWidth(t, w) ELSE s.width
    /\ r.prec = IF Precision(t, p) # 1 THEN Precision(t, p) ELSE s.prec
    /\ r.bad = s.bad

(* The stream is ready for the conversion, and is a stream.                *)
LEMMA SetUpIs ==
    ASSUME NEW s \in Streams, NEW t \in Tokens, NEW w \in WidthArgs(t), NEW p \in PrecisionArgs(t)
    PROVE  SetUp(s, t, w, p) \in Streams /\ Ready(s, t, w, p, SetUp(s, t, w, p))
<1>1. FieldWidth(t, w) \in Int /\ Precision(t, p) \in Int
  BY WidthIs
<1>2. SetUp(s, t, w, p) \in Streams
  BY <1>1 DEF SetUp, Streams
<1>3. PICK r : r = SetUp(s, t, w, p)
  OBVIOUS
<1>4. r.fill = IF t.conv = "s" \/ " " \in t.flags THEN " "
               ELSE IF "0" \in t.flags /\ "-" \notin t.flags THEN "0" ELSE s.fill
  BY <1>1, <1>3 DEF SetUp, Streams
<1>5. r.left <=> ("+" \notin t.flags /\ ("-" \in t.flags \/ s.left))
  BY <1>1, <1>3 DEF SetUp, Streams
<1>6. r.width = IF FieldWidth(t, w) # 0 THEN FieldWidth(t, w) ELSE s.width
  BY <1>1, <1>3 DEF SetUp, Streams
<1>7. r.prec = IF Precision(t, p) # 1 THEN Precision(t, p) ELSE s.prec
  BY <1>1, <1>3 DEF SetUp, Streams
<1>8. r.bad = s.bad
  BY <1>1, <1>3 DEF SetUp, Streams
<1>9. Ready(s, t, w, p, r)
  BY <1>4, <1>5, <1>6, <1>7, <1>8, Zenon DEF Ready
<1> QED
  BY <1>2, <1>3, <1>9

(* After a token the stream adjusts to the side it did before, null string *)
(* or not.                                                                 *)
LEMMA HandleIs ==
    ASSUME NEW s \in Streams, NEW t \in Tokens, NEW w \in WidthArgs(t), NEW p \in PrecisionArgs(t),
           NEW null \in BOOLEAN, NEW r, r = HandleFmtToken(s, t, w, p, null)
    PROVE  r \in Streams /\ r.left = s.left
<1>1. PICK a \in Streams : a = SetUp(s, t, w, p)
  BY SetUpIs
<1>2. PICK b \in Streams : b = IF null THEN [a EXCEPT !.bad = TRUE] ELSE Insert(a)
  <2>1. CASE null
    <3>1. PICK c : c = [a EXCEPT !.bad = TRUE]
      OBVIOUS
    <3>2. c \in Streams
      <4>1. TRUE \in BOOLEAN
        OBVIOUS
      <4>2. a \in [width : Int, fill : {" ", "0"}, prec : Int, left : BOOLEAN, bad : BOOLEAN]
        BY Zenon DEF Streams
      <4> QED
        BY <3>1, <4>1, <4>2, BadSet, Zenon DEF Streams
    <3> QED
      BY <2>1, <3>1, <3>2, Zenon
  <2>2. CASE ~null
    <3>1. Insert(a) \in Streams
      BY InsertIs
    <3> QED
      BY <2>2, <3>1, Zenon
  <2> QED
    BY <2>1, <2>2
<1>3. r = [b EXCEPT !.left = s.left]
  BY <1>1, <1>2, Zenon DEF HandleFmtToken, Restore
<1>4. s.left \in BOOLEAN
  BY DEF Streams
<1>5. b \in [width : Int, fill : {" ", "0"}, prec : Int, left : BOOLEAN, bad : BOOLEAN]
  BY Zenon DEF Streams
<1> QED
  BY <1>3, <1>4, <1>5, LeftSet, Zenon DEF Streams

(* The slots of a va_list.                                                 *)
LEMMA SlotsAre == Slots = {"gp", "fp", "mem"} /\ "none" \notin Slots
BY DEF Slots

(* The stars of a token.                                                   *)
LEMMA StarsAre ==
    ASSUME NEW t \in Tokens
    PROVE  StarsOf(t) = (IF t.w = "*" THEN 1 ELSE 0) + (IF t.p = ".*" THEN 1 ELSE 0)
<1> DEFINE S == {x \in {t.w, t.p} : x \in {"*", ".*"}}
<1>1. t.w \in {"", "2", "*", "*1$", "1$"} /\ t.p \in {"", ".", ".1", ".3", ".*"}
  BY TokenParts
<1>2. CASE t.w = "*" /\ t.p = ".*"
  <2>1. S = {"*"} \cup {".*"} /\ ".*" \notin {"*"}
    BY <1>2
  <2>2. IsFiniteSet({"*"}) /\ Cardinality({"*"}) = 1
    BY FS_Singleton
  <2>3. Cardinality({"*"} \cup {".*"}) = 2
    BY <2>1, <2>2, FS_AddElement
  <2>4. StarsOf(t) = 2
    BY <2>1, <2>3 DEF StarsOf
  <2> QED
    BY <1>2, <2>4
<1>3. CASE t.w = "*" /\ t.p # ".*"
  <2>1. S = {"*"}
    BY <1>1, <1>3
  <2>2. StarsOf(t) = 1
    BY <2>1, FS_Singleton DEF StarsOf
  <2> QED
    BY <1>3, <2>2
<1>4. CASE t.w # "*" /\ t.p = ".*"
  <2>1. S = {".*"}
    BY <1>1, <1>4
  <2>2. StarsOf(t) = 1
    BY <2>1, FS_Singleton DEF StarsOf
  <2> QED
    BY <1>4, <2>2
<1>5. CASE t.w # "*" /\ t.p # ".*"
  <2>1. S = {}
    BY <1>1, <1>5
  <2>2. StarsOf(t) = 0
    BY <2>1, FS_EmptySet DEF StarsOf
  <2> QED
    BY <1>5, <2>2
<1> QED
  BY <1>2, <1>3, <1>4, <1>5

(* A token that is not odd reads what C takes for it.                      *)
LEMMA ReadsAsC ==
    ASSUME NEW t \in Tokens
    PROVE  /\ \A c \in Slots : Reads(t)[c] \in Int /\ Takes(t)[c] \in Int
           /\ ~Odd(t) => \A c \in Slots : Reads(t)[c] = Takes(t)[c]
<1> DEFINE stars == (IF t.w = "*" THEN 1 ELSE 0) + (IF t.p = ".*" THEN 1 ELSE 0)
           slot  == CASE t.conv \in {"%", "m"}             -> "none"
                      [] t.conv \in Floats /\ t.len = "L"  -> "mem"
                      [] t.conv \in Floats /\ t.len # "L"  -> "fp"
                      [] OTHER                             -> "gp"
<1>1. PICK n \in Int : n = stars /\ n = StarsOf(t)
  <2>1. stars \in Int
    OBVIOUS
  <2> QED
    BY <2>1, StarsAre
<1>2. PICK x : x = slot
  OBVIOUS
<1>3. PICK y : y = SlotOf(t)
  OBVIOUS
<1>4. ASSUME NEW c \in Slots
      PROVE  /\ Reads(t)[c] = (IF c = y THEN 1 ELSE 0) + (IF c = "gp" THEN n ELSE 0)
             /\ Takes(t)[c] = (IF c = x THEN 1 ELSE 0) + (IF c = "gp" THEN n ELSE 0)
  <2>1. Reads(t)[c] = (IF c = y THEN 1 ELSE 0) + (IF c = "gp" THEN n ELSE 0)
    BY <1>1, <1>3, Zenon DEF Reads
  <2>2. Takes(t)[c] = (IF c = x THEN 1 ELSE 0) + (IF c = "gp" THEN n ELSE 0)
    BY <1>1, <1>2, Zenon DEF Takes
  <2> QED
    BY <2>1, <2>2
<1>5. ASSUME ~Odd(t) PROVE x = y
  <2>1. t.conv # "m" /\ (t.conv \in Ints => t.len # "L")
    BY <1>5 DEF Odd
  <2>2. CASE t.conv = "%"
    <3>0. t.conv \in {"%", "m"} /\ t.conv \notin Floats /\ t.conv \notin Ints \cup Floats
      BY <2>2 DEF Floats, Ints
    <3>1. x = "none"
      BY <1>2, <3>0, Zenon
    <3>2. y = "none"
      BY <1>3, <2>2, <3>0, Zenon DEF SlotOf
    <3> QED
      BY <3>1, <3>2
  <2>3. CASE t.conv # "%" /\ t.conv \in Floats /\ t.len = "L"
    <3>0. t.conv \notin {"%", "m"} /\ t.conv \in Ints \cup Floats
      BY <2>1, <2>3
    <3>1. x = "mem"
      BY <1>2, <3>0, <2>3, Zenon
    <3>2. y = "mem"
      BY <1>3, <3>0, <2>3, Zenon DEF SlotOf
    <3> QED
      BY <3>1, <3>2
  <2>4. CASE t.conv # "%" /\ t.conv \in Floats /\ t.len # "L"
    <3>0. t.conv \notin {"%", "m"} /\ t.conv \in Ints \cup Floats
      BY <2>1, <2>4
    <3>1. x = "fp"
      BY <1>2, <3>0, <2>4, Zenon
    <3>2. y = "fp"
      BY <1>3, <3>0, <2>4, Zenon DEF SlotOf
    <3> QED
      BY <3>1, <3>2
  <2>5. CASE t.conv # "%" /\ t.conv \notin Floats
    <3>1. x = "gp" /\ y = "gp"
      BY <1>2, <1>3, <2>1, <2>5 DEF SlotOf
    <3> QED
      BY <3>1
  <2> QED
    BY <2>2, <2>3, <2>4, <2>5
<1> HIDE DEF stars, slot
<1>6. ASSUME NEW c \in Slots PROVE Reads(t)[c] \in Int /\ Takes(t)[c] \in Int
  BY <1>4
<1>7. ASSUME ~Odd(t), NEW c \in Slots PROVE Reads(t)[c] = Takes(t)[c]
  BY <1>4, <1>5, <1>7
<1> QED
  BY <1>6, <1>7

(* The streams of TypeOK are those that do not adjust to the left.         *)
LEMMA Sided ==
    ASSUME NEW s
    PROVE  s \in [width : Int, fill : {" ", "0"}, prec : Int, left : {FALSE}, bad : BOOLEAN]
              <=> s \in Streams /\ s.left = FALSE
BY DEF Streams

(* The parts of the type invariant.                                        *)
Good == stream \in Streams /\ stream.left = FALSE

Counted == skew \in [Slots -> Int] /\ odd \in BOOLEAN /\ tokens \in 0..MaxTokens

Idle == phase = "idle" => ~stream.bad /\ skew = NoSkew /\ ~odd /\ tokens = 0

Positions == [depth : Nat, list : Seq([frame : Nat, symbol : BOOLEAN])]

(* The type invariant in parts: the stream, the counts, what holds between *)
(* messages, and the position.                                             *)
LEMMA TypeParts ==
    TypeOK <=> /\ phase \in {"idle", "format"} /\ Good /\ Counted /\ Idle
               /\ position \in Positions
<1>1. (stream \in [width : Int, fill : {" ", "0"}, prec : Int, left : {FALSE}, bad : BOOLEAN]) <=> Good
  BY Sided, Zenon DEF Good
<1> QED
  BY <1>1, Zenon DEF TypeOK, Counted, Idle, Positions

(* The same after a step.                                                  *)
LEMMA TypePartsNext ==
    TypeOK' <=> /\ phase' \in {"idle", "format"} /\ Good' /\ Counted' /\ Idle'
                /\ position' \in Positions
<1>1. (stream' \in [width : Int, fill : {" ", "0"}, prec : Int, left : {FALSE}, bad : BOOLEAN]) <=> Good'
  BY Sided, Zenon DEF Good
<1> QED
  BY <1>1, Zenon DEF TypeOK, Counted, Idle, Positions

(* The assumptions on numbers.                                             *)
LEMMA Bounds == MaxTokens \in Nat /\ SizeMax \in Nat /\ Frames \subseteq 0..(SizeMax - 1)
BY LogTextAssumption, Zenon

(* Nothing is read in excess at first.                                     *)
LEMMA NoSkewIs == NoSkew \in [Slots -> Int] /\ \A c \in Slots : NoSkew[c] = 0
BY DEF NoSkew

(* What StackAgrees says of a position.                                    *)
Agrees(q) ==
    /\ Len(q.list) = q.depth
    /\ \A i \in 1..Len(q.list) : q.list[i].frame = i + 2
    /\ \/ \A i \in 1..Len(q.list) : ~q.list[i].symbol
       \/ \A i \in 1..Len(q.list) : q.list[i].symbol <=> i <= 5

StackEntry == [frame : Nat, symbol : BOOLEAN]

(* What one of the two loops of setPosition lists, k frames, and what both *)
(* list together, with symbols for the first i frames.                     *)
Loop(s, from, k, symbol) ==
    /\ s \in Seq(StackEntry) /\ Len(s) = k
    /\ \A i \in 1..k : s[i].frame = from + i + 2 /\ s[i].symbol = symbol

Both(s, depth, i) ==
    /\ s \in Seq(StackEntry) /\ Len(s) = depth
    /\ \A j \in 1..depth : s[j].frame = j + 2 /\ (s[j].symbol <=> j <= i)

(* A loop lists from where it begins.                                      *)
LEMMA PushedIs ==
    ASSUME NEW from \in Nat, NEW k \in Nat, NEW to, to = from + k, NEW symbol \in BOOLEAN,
           NEW s, s = Pushed(from, to, symbol)
    PROVE  Loop(s, from, k, symbol)
<1>1. k = to - from
  OBVIOUS
<1>2. s = [i \in 1..k |-> [frame |-> from + i + 2, symbol |-> symbol]]
  BY <1>1, Zenon DEF Pushed
<1>3. ASSUME NEW i \in 1..k
      PROVE  /\ s[i] \in StackEntry
             /\ s[i].frame = from + i + 2 /\ s[i].symbol = symbol
  <2>1. PICK f \in Nat : f = from + i + 2
    OBVIOUS
  <2>2. s[i] = [frame |-> f, symbol |-> symbol]
    BY <1>2, <2>1, Zenon
  <2>3. s[i] \in StackEntry /\ s[i].frame = f /\ s[i].symbol = symbol
    BY <2>2 DEF StackEntry
  <2> QED
    BY <2>1, <2>3, Zenon
<1>4. s = [i \in 1..k |-> s[i]]
  BY <1>2, Zenon
<1>5. s \in Seq(StackEntry) /\ Len(s) = k
  BY <1>3, <1>4
<1> QED
  BY <1>3, <1>5, Zenon DEF Loop

(* The second loop goes on where the first has stopped.                    *)
LEMMA TwoLoops ==
    ASSUME NEW depth \in Nat, NEW i \in Nat, NEW rest \in Nat, depth = i + rest,
           NEW s, s = Pushed(0, i, TRUE) \o Pushed(i, depth, FALSE)
    PROVE  Both(s, depth, i)
<1>1. PICK yes \in BOOLEAN : yes = TRUE
  OBVIOUS
<1>2. PICK no \in BOOLEAN : no = FALSE
  OBVIOUS
<1>3. PICK z \in Nat : z = 0 /\ i = z + i
  OBVIOUS
<1>4. PICK a : a = Pushed(z, i, yes)
  OBVIOUS
<1>5. PICK b : b = Pushed(i, depth, no)
  OBVIOUS
<1>6. Loop(a, z, i, yes)
  BY <1>3, <1>4, PushedIs, Zenon
<1>7. Loop(b, i, rest, no)
  BY <1>5, PushedIs, Zenon
<1>8. s = a \o b
  BY <1>1, <1>2, <1>3, <1>4, <1>5, Zenon
<1>9. a \in Seq(StackEntry) /\ b \in Seq(StackEntry) /\ Len(a) = i /\ Len(b) = rest
  BY <1>6, <1>7, Zenon DEF Loop
<1>10. a \o b \in Seq(StackEntry) /\ Len(a \o b) = depth
  BY <1>9
<1>11. ASSUME NEW j \in 1..depth PROVE s[j].frame = j + 2 /\ (s[j].symbol <=> j <= i)
  <2>0. \A k \in 1..depth : (a \o b)[k] = IF k <= i THEN a[k] ELSE b[k - i]
    BY <1>9
  <2>1. CASE j <= i
    <3>1. j \in 1..i /\ z + j + 2 = j + 2
      BY <1>3, <2>1
    <3>2. s[j] = a[j]
      BY <1>8, <2>0, <2>1, Zenon
    <3>3. s[j].frame = j + 2 /\ s[j].symbol = yes
      BY <1>6, <3>1, <3>2, Zenon DEF Loop
    <3> QED
      BY <1>1, <2>1, <3>3, Zenon
  <2>2. CASE ~(j <= i)
    <3>1. PICK k \in 1..rest : k = j - i /\ i + k + 2 = j + 2
      BY <2>2
    <3>2. s[j] = b[k]
      BY <1>8, <2>0, <2>2, <3>1, Zenon
    <3>3. s[j].frame = j + 2 /\ s[j].symbol = no
      BY <1>7, <3>1, <3>2, Zenon DEF Loop
    <3> QED
      BY <1>2, <2>2, <3>3, Zenon
  <2> QED
    BY <2>1, <2>2, Zenon
<1> QED
  BY <1>8, <1>10, <1>11, Zenon DEF Both

(* The position that setPosition makes, of its type and in agreement.      *)
LEMMA PositionedIs ==
    ASSUME NEW n \in Frames, NEW trace \in BOOLEAN, NEW found \in BOOLEAN,
           NEW q, q = Positioned(n, trace, found)
    PROVE  q \in Positions /\ Agrees(q)
<1>1. PICK d \in Nat : d = Depth(n)
  <2>1. n \in Int /\ SizeMax \in Nat /\ SizeMax > 0
    BY Bounds
  <2>2. (n - 3) % SizeMax \in Nat
    BY <2>1
  <2> QED
    BY <2>2, Zenon DEF Depth
<1>2. PICK i \in Nat, rest \in Nat :
          /\ i = Investigated(n, trace, found) /\ d = i + rest
          /\ i = 0 \/ \A j \in 1..d : j <= i <=> j <= 5
  <2>1. CASE ~(trace /\ found)
    <3>1. Investigated(n, trace, found) = 0
      BY <2>1, Zenon DEF Investigated
    <3>2. 0 \in Nat /\ d = 0 + d
      OBVIOUS
    <3> QED
      BY <3>1, <3>2, Zenon
  <2>2. CASE trace /\ found /\ d > 5
    <3>1. Investigated(n, trace, found) = 5
      BY <1>1, <2>2, Zenon DEF Investigated
    <3>2. 5 \in Nat /\ d - 5 \in Nat /\ d = 5 + (d - 5)
      BY <2>2
    <3> QED
      BY <3>1, <3>2, Zenon
  <2>3. CASE trace /\ found /\ ~(d > 5)
    <3>1. Investigated(n, trace, found) = d
      BY <1>1, <2>3, Zenon DEF Investigated
    <3>2. \A j \in 1..d : j <= d /\ j <= 5
      BY <2>3
    <3>3. 0 \in Nat /\ d = d + 0
      OBVIOUS
    <3> QED
      BY <3>1, <3>2, <3>3, Zenon
  <2> QED
    BY <2>1, <2>2, <2>3, Zenon
<1>3. PICK s : s = Pushed(0, i, TRUE) \o Pushed(i, d, FALSE)
  OBVIOUS
<1>4. /\ s \in Seq(StackEntry) /\ Len(s) = d
      /\ \A j \in 1..d : s[j].frame = j + 2 /\ (s[j].symbol <=> j <= i)
  <2>1. Both(s, d, i)
    BY <1>2, <1>3, TwoLoops, Zenon
  <2> QED
    BY <2>1, Zenon DEF Both
<1>5. q = [depth |-> d, list |-> s]
  <2>1. q = [depth |-> d, list |-> <<>> \o s]
    BY <1>1, <1>2, <1>3, Zenon DEF Positioned, Listed
  <2>2. <<>> \o s = s
    BY <1>4
  <2> QED
    BY <2>1, <2>2, Zenon
<1>6. q.depth = d /\ q.list = s
  BY <1>5
<1>7. q \in Positions
  BY <1>4, <1>5 DEF Positions, StackEntry
<1>8. i = 0 => \A j \in 1..d : ~(j <= i)
  OBVIOUS
<1>9. Agrees(q)
  BY <1>2, <1>4, <1>6, <1>8, Zenon DEF Agrees
<1> QED
  BY <1>7, <1>9

(* A channel is made with a good stream that adjusts to the right.         *)
LEMMA TypeInit == Init => TypeOK
<1> SUFFICES ASSUME Init PROVE TypeOK
  OBVIOUS
<1>1. stream \in Streams /\ stream.left = FALSE /\ stream.bad = FALSE
  <2>1. stream = [width |-> 0, fill |-> " ", prec |-> 6, left |-> FALSE, bad |-> FALSE]
    BY Zenon DEF Init
  <2>2. PICK a \in Int : a = 0
    OBVIOUS
  <2>3. PICK b \in Int : b = 6
    OBVIOUS
  <2>4. PICK f \in {" ", "0"} : f = " "
    OBVIOUS
  <2>5. PICK l \in BOOLEAN : l = FALSE
    OBVIOUS
  <2>6. stream = [width |-> a, fill |-> f, prec |-> b, left |-> l, bad |-> l]
    BY <2>1, <2>2, <2>3, <2>4, <2>5, Zenon
  <2>7. stream \in Streams /\ stream.left = l /\ stream.bad = l
    BY <2>6 DEF Streams
  <2> QED
    BY <2>5, <2>7, Zenon
<1>2. skew = NoSkew /\ odd = FALSE /\ tokens = 0 /\ phase = "idle"
  BY DEF Init
<1>3. 0 \in 0..MaxTokens
  BY Bounds
<1>4. Counted
  BY <1>2, <1>3, NoSkewIs, Zenon DEF Counted
<1>5. Good /\ Idle /\ phase \in {"idle", "format"}
  BY <1>1, <1>2, Zenon DEF Good, Idle
<1>6. position \in Positions
  <2>1. PICK d \in Nat : d = 0
    OBVIOUS
  <2>0. \A S : <<>> \in Seq(S)
    OBVIOUS
  <2>2. PICK l \in Seq([frame : Nat, symbol : BOOLEAN]) : l = <<>>
    BY <2>0, Zenon
  <2>3. position = [depth |-> d, list |-> l]
    BY <2>1, <2>2, Zenon DEF Init
  <2> QED
    BY <2>3, Zenon DEF Positions
<1> QED
  BY <1>4, <1>5, <1>6, TypeParts

(* Every operation keeps the type invariant.                               *)
LEMMA TypeStep == TypeOK /\ [Next]_vars => TypeOK'
<1> SUFFICES ASSUME TypeOK, [Next]_vars PROVE TypeOK'
  OBVIOUS
<1>0. phase \in {"idle", "format"} /\ Good /\ Counted /\ Idle /\ position \in Positions
  BY TypeParts
<1>1. ASSUME NEW n \in Frames, NEW trace \in BOOLEAN, NEW found \in BOOLEAN,
             SetPosition(n, trace, found)
      PROVE  TypeOK'
  <2>1. phase' = "format" /\ UNCHANGED <<stream, skew, odd, tokens>>
    BY <1>1, Zenon DEF SetPosition
  <2>2. Good' /\ Counted'
    BY <1>0, <2>1, Zenon DEF Good, Counted
  <2>3. Idle' /\ phase' \in {"idle", "format"}
    BY <2>1 DEF Idle
  <2>4. position' \in Positions
    <3>1. PICK q : q = Positioned(n, trace, found)
      OBVIOUS
    <3>2. q \in Positions
      BY <3>1, PositionedIs, Zenon
    <3> QED
      BY <1>1, <3>1, <3>2, Zenon DEF SetPosition
  <2> QED
    BY <2>2, <2>3, <2>4, TypePartsNext
<1>2. ASSUME NEW t \in Tokens, NEW w \in WidthArgs(t), NEW p \in PrecisionArgs(t),
             NEW null \in Nulls(t), Token(t, w, p, null)
      PROVE  TypeOK'
  <2>1. /\ phase = "format" /\ tokens < MaxTokens /\ phase' = phase
        /\ stream' = HandleFmtToken(Insert(stream), t, w, p, null)
        /\ skew' = [c \in Slots |-> skew[c] + Reads(t)[c] - Takes(t)[c]]
        /\ odd' = (odd \/ Odd(t)) /\ tokens' = tokens + 1
    BY <1>2, Zenon DEF Token
  <2>2. Good'
    <3>1. stream \in Streams /\ stream.left = FALSE
      BY <1>0, Zenon DEF Good
    <3>2. PICK s \in Streams : s = Insert(stream) /\ s.left = FALSE
      BY <3>1, InsertIs
    <3>3. null \in BOOLEAN
      BY DEF Nulls
    <3>4. stream' = HandleFmtToken(s, t, w, p, null)
      BY <2>1, <3>2, Zenon
    <3>5. PICK r : r = HandleFmtToken(s, t, w, p, null)
      OBVIOUS
    <3>6. r \in Streams /\ r.left = s.left
      BY <3>3, <3>5, HandleIs
    <3>7. stream' = r
      BY <3>4, <3>5, Zenon
    <3> QED
      BY <3>2, <3>6, <3>7, Zenon DEF Good
  <2>3. Counted'
    <3>1. skew' \in [Slots -> Int]
      <4>1. \A c \in Slots : skew[c] \in Int
        BY <1>0 DEF Counted
      <4>2. \A c \in Slots : Reads(t)[c] \in Int /\ Takes(t)[c] \in Int
        BY ReadsAsC
      <4>3. \A c \in Slots : skew[c] + Reads(t)[c] - Takes(t)[c] \in Int
        BY <4>1, <4>2
      <4> QED
        BY <2>1, <4>3
    <3>2. tokens' \in 0..MaxTokens
      BY <1>0, <2>1, Bounds DEF Counted
    <3>3. odd' \in BOOLEAN
      BY <2>1, Zenon
    <3> QED
      BY <3>1, <3>2, <3>3, Zenon DEF Counted
  <2>4. Idle' /\ phase' \in {"idle", "format"}
    BY <2>1 DEF Idle
  <2>5. position' \in Positions
    BY <1>0, <1>2, Zenon DEF Token
  <2> QED
    BY <2>2, <2>3, <2>4, <2>5, TypePartsNext
<1>3. ASSUME NEW text \in Texts, NEW symbol \in Symbols, Flush(text, symbol) PROVE TypeOK'
  <2>1. /\ phase' = "idle" /\ stream' = [Insert(stream) EXCEPT !.bad = FALSE]
        /\ skew' = NoSkew /\ odd' = FALSE /\ tokens' = 0
    BY <1>3, Zenon DEF Flush
  <2>2. stream \in Streams /\ stream.left = FALSE
    BY <1>0, Zenon DEF Good
  <2>3. PICK s \in Streams : s = Insert(stream) /\ s.left = FALSE
    BY <2>2, InsertIs
  <2>4. stream' \in Streams /\ stream'.left = FALSE /\ stream'.bad = FALSE
    <3>1. stream' = [s EXCEPT !.bad = FALSE]
      BY <2>1, <2>3, Zenon
    <3>2. s \in [width : Int, fill : {" ", "0"}, prec : Int, left : BOOLEAN, bad : BOOLEAN]
      BY Zenon DEF Streams
    <3>3. FALSE \in BOOLEAN
      OBVIOUS
    <3>4. /\ stream' \in [width : Int, fill : {" ", "0"}, prec : Int, left : BOOLEAN, bad : BOOLEAN]
          /\ stream'.width = s.width /\ stream'.fill = s.fill /\ stream'.prec = s.prec
          /\ stream'.left = s.left /\ stream'.bad = FALSE
      BY <3>1, <3>2, <3>3, BadSet, Zenon
    <3> QED
      BY <2>3, <3>4, Zenon DEF Streams
  <2>5. 0 \in 0..MaxTokens
    BY Bounds
  <2>6. Counted'
    BY <2>1, <2>5, NoSkewIs, Zenon DEF Counted
  <2>7. Good' /\ Idle' /\ phase' \in {"idle", "format"}
    BY <2>1, <2>4, Zenon DEF Good, Idle
  <2>8. position' \in Positions
    BY <1>0, <1>3, Zenon DEF Flush
  <2> QED
    BY <2>6, <2>7, <2>8, TypePartsNext
<1>4. ASSUME NEW n \in Dumps, NEW frames \in Frames, Dump(n, frames) PROVE TypeOK'
  <2>1. /\ UNCHANGED <<phase, skew, odd, tokens>> /\ phase = "idle"
        /\ stream' = IF n = 0 THEN stream ELSE [Insert(stream) EXCEPT !.fill = " "]
    BY <1>4, Zenon DEF Dump
  <2>2. stream \in Streams /\ stream.left = FALSE /\ stream.bad = FALSE
    BY <1>0, <2>1, Zenon DEF Good, Idle, Streams
  <2>3. PICK s \in Streams : s = Insert(stream) /\ s.left = FALSE /\ s.bad = FALSE
    BY <2>2, InsertIs
  <2>4. stream' \in Streams /\ stream'.left = FALSE /\ stream'.bad = FALSE
    <3>1. CASE n = 0
      BY <2>1, <2>2, <3>1
    <3>2. CASE n # 0
      <4>1. stream' = [s EXCEPT !.fill = " "]
        BY <2>1, <2>3, <3>2, Zenon
      <4>2. s \in [width : Int, fill : {" ", "0"}, prec : Int, left : BOOLEAN, bad : BOOLEAN]
        BY Zenon DEF Streams
      <4>3. " " \in {" ", "0"}
        OBVIOUS
      <4>4. /\ stream' \in [width : Int, fill : {" ", "0"}, prec : Int, left : BOOLEAN, bad : BOOLEAN]
            /\ stream'.width = s.width /\ stream'.fill = " " /\ stream'.prec = s.prec
            /\ stream'.left = s.left /\ stream'.bad = s.bad
        BY <4>1, <4>2, <4>3, FillSet, Zenon
      <4> QED
        BY <2>3, <4>4, Zenon DEF Streams
    <3> QED
      BY <3>1, <3>2
  <2>5. Good' /\ Counted' /\ Idle' /\ phase' \in {"idle", "format"}
    BY <1>0, <2>1, <2>4, Zenon DEF Good, Counted, Idle
  <2>6. position' \in Positions
    <3>1. PICK q : q = Positioned(frames, FALSE, FALSE)
      OBVIOUS
    <3>2. q \in Positions
      BY <3>1, PositionedIs, Zenon
    <3> QED
      BY <1>4, <3>1, <3>2, Zenon DEF Dump
  <2> QED
    BY <2>5, <2>6, TypePartsNext
<1>5. CASE UNCHANGED vars
  BY <1>5 DEF TypeOK, vars
<1> QED
  BY <1>1, <1>2, <1>3, <1>4, <1>5 DEF Next

(* Between messages the stream is good again and the arguments are         *)
(* forgotten, and no token leaves the stream adjusting to the left, however *)
(* many messages have been through it.                                     *)
THEOREM TypeCorrect == Spec => []TypeOK
<1>1. Init => TypeOK
  BY TypeInit
<1>2. TypeOK /\ [Next]_vars => TypeOK'
  BY TypeStep
<1> QED
  BY <1>1, <1>2, PTL DEF Spec

-----------------------------------------------------------------------------
(* A token of C's grammar reads what C takes, so what is read in excess     *)
(* stays nothing; the next message starts with a list of its own.          *)
LEMMA StepInStep == TypeOK /\ ArgumentsInStep /\ [Next]_vars => ArgumentsInStep'
<1> SUFFICES ASSUME TypeOK, ArgumentsInStep, [Next]_vars PROVE ArgumentsInStep'
  OBVIOUS
<1>1. ASSUME NEW n \in Frames, NEW trace \in BOOLEAN, NEW found \in BOOLEAN,
             SetPosition(n, trace, found)
      PROVE  ArgumentsInStep'
  BY <1>1, Zenon DEF SetPosition, ArgumentsInStep, NoSkew
<1>2. ASSUME NEW t \in Tokens, NEW w \in WidthArgs(t), NEW p \in PrecisionArgs(t),
             NEW null \in Nulls(t), Token(t, w, p, null)
      PROVE  ArgumentsInStep'
  <2>1. /\ skew' = [c \in Slots |-> skew[c] + Reads(t)[c] - Takes(t)[c]]
        /\ odd' = (odd \/ Odd(t))
    BY <1>2, Zenon DEF Token
  <2>2. CASE odd \/ Odd(t)
    BY <2>1, <2>2, Zenon DEF ArgumentsInStep
  <2>3. CASE ~odd /\ ~Odd(t)
    <3>1. skew = NoSkew
      BY <2>3, Zenon DEF ArgumentsInStep
    <3>2. ASSUME NEW c \in Slots PROVE skew[c] + Reads(t)[c] - Takes(t)[c] = 0
      <4>1. skew[c] = 0
        BY <3>1, NoSkewIs
      <4>2. PICK a \in Int : a = Reads(t)[c] /\ a = Takes(t)[c]
        BY <2>3, ReadsAsC
      <4>3. 0 + a - a = 0
        OBVIOUS
      <4> QED
        BY <4>1, <4>2, <4>3, Zenon
    <3>3. skew' = [c \in Slots |-> 0]
      BY <2>1, <3>2, Zenon
    <3> QED
      BY <3>3, Zenon DEF ArgumentsInStep, NoSkew
  <2> QED
    BY <2>2, <2>3, Zenon
<1>3. ASSUME NEW text \in Texts, NEW symbol \in Symbols, Flush(text, symbol) PROVE ArgumentsInStep'
  BY <1>3, Zenon DEF Flush, ArgumentsInStep, NoSkew
<1>4. ASSUME NEW n \in Dumps, NEW frames \in Frames, Dump(n, frames) PROVE ArgumentsInStep'
  BY <1>4, Zenon DEF Dump, ArgumentsInStep, NoSkew
<1>5. CASE UNCHANGED vars
  BY <1>5, Zenon DEF ArgumentsInStep, NoSkew, vars
<1> QED
  BY <1>1, <1>2, <1>3, <1>4, <1>5 DEF Next

(* Each conversion of vprintf reads the arguments that the caller passed   *)
(* for it, whatever tokens and messages came before, unless a token of the *)
(* message is one that the code reads otherwise than C: %m, an integer     *)
(* with L, or a width by position.                                         *)
THEOREM ArgumentsInStepEver == Spec => []ArgumentsInStep
<1>1. Init => ArgumentsInStep
  BY Zenon DEF Init, ArgumentsInStep
<1>2. Spec => []TypeOK
  BY TypeCorrect
<1>3. TypeOK /\ ArgumentsInStep /\ [Next]_vars => ArgumentsInStep'
  BY StepInStep
<1> QED
  BY <1>1, <1>2, <1>3, PTL DEF Spec

-----------------------------------------------------------------------------
(* The position of a message.                                              *)

(* Only setPosition, of a message or of a dump, changes the position.      *)
LEMMA StackStep == StackAgrees /\ [Next]_vars => StackAgrees'
<1> SUFFICES ASSUME StackAgrees, [Next]_vars PROVE StackAgrees'
  OBVIOUS
<1>0. ASSUME NEW n \in Frames, NEW trace \in BOOLEAN, NEW found \in BOOLEAN,
             position' = Positioned(n, trace, found)
      PROVE  StackAgrees'
  <2>1. PICK q : q = Positioned(n, trace, found)
    OBVIOUS
  <2>2. Agrees(q)
    BY <2>1, PositionedIs, Zenon
  <2>3. position' = q
    BY <1>0, <2>1, Zenon
  <2> QED
    BY <2>2, <2>3, Zenon DEF StackAgrees, Agrees
<1>1. ASSUME NEW n \in Frames, NEW trace \in BOOLEAN, NEW found \in BOOLEAN,
             SetPosition(n, trace, found)
      PROVE  StackAgrees'
  BY <1>0, <1>1, Zenon DEF SetPosition
<1>2. ASSUME NEW n \in Dumps, NEW frames \in Frames, Dump(n, frames) PROVE StackAgrees'
  BY <1>0, <1>2, FALSE \in BOOLEAN, Zenon DEF Dump
<1>3. CASE position' = position
  BY <1>3, Zenon DEF StackAgrees
<1>4. ASSUME NEW t \in Tokens, NEW w \in WidthArgs(t), NEW p \in PrecisionArgs(t),
             NEW null \in Nulls(t), Token(t, w, p, null)
      PROVE  position' = position
  BY <1>4, Zenon DEF Token
<1>5. ASSUME NEW text \in Texts, NEW symbol \in Symbols, Flush(text, symbol)
      PROVE  position' = position
  BY <1>5, Zenon DEF Flush
<1>6. UNCHANGED vars => position' = position
  BY Zenon DEF vars
<1> QED
  BY <1>1, <1>2, <1>3, <1>4, <1>5, <1>6, Zenon DEF Next

(* Over any number of messages and dumps, traces or not, with or without   *)
(* the memory that backtrace_symbols() needs, and for every number of      *)
(* frames, the stack list agrees with the depth that is sent next to it:   *)
(* the frames above those skipped, each once and in order.                 *)
THEOREM StackAgreesEver == Spec => []StackAgrees
<1>1. Init => StackAgrees
  <2> SUFFICES ASSUME Init PROVE StackAgrees
    OBVIOUS
  <2>1. PICK d : d = 0
    OBVIOUS
  <2>2. PICK l : l = <<>>
    OBVIOUS
  <2>3. position = [depth |-> d, list |-> l]
    BY <2>1, <2>2, Zenon DEF Init
  <2>4. position.depth = d /\ position.list = l
    BY <2>3
  <2>5. Len(l) = d /\ 1..Len(l) = {}
    BY <2>1, <2>2
  <2> QED
    BY <2>4, <2>5, Zenon DEF StackAgrees
<1>2. StackAgrees /\ [Next]_vars => StackAgrees'
  BY StackStep
<1> QED
  BY <1>1, <1>2, PTL DEF Spec

-----------------------------------------------------------------------------
(* The layout of a conversion.                                             *)
(* The layout of C, by parts.                                              *)
LEMMA InCIs ==
    ASSUME NEW t \in Tokens, NEW w \in WidthArgs(t), NEW p \in PrecisionArgs(t), NEW c, c = InC(t, w, p)
    PROVE  /\ c.width = FieldWidth(t, w) /\ c.left = ("-" \in t.flags)
           /\ c.zero = ("0" \in t.flags /\ "-" \notin t.flags)
           /\ Precision(t, p) # 1 => c.prec = IF Precision(t, p) < 0 THEN 6 ELSE Precision(t, p)
<1>1. PICK width : width = FieldWidth(t, w)
  OBVIOUS
<1>2. PICK left : left = ("-" \in t.flags)
  OBVIOUS
<1>3. PICK zero : zero = ("0" \in t.flags /\ "-" \notin t.flags)
  OBVIOUS
<1>4. PICK prec : prec = CASE t.p = ""                -> 6
                          [] t.p = ".1"              -> 1
                          [] Precision(t, p) < 0     -> 6
                          [] OTHER                   -> Precision(t, p)
  OBVIOUS
<1>5. c = [width |-> width, left |-> left, zero |-> zero, prec |-> prec]
  BY <1>1, <1>2, <1>3, <1>4, Zenon DEF InC
<1>6. c.width = width /\ c.left = left /\ c.zero = zero /\ c.prec = prec
  BY <1>5
<1>7. ASSUME Precision(t, p) # 1
      PROVE  prec = IF Precision(t, p) < 0 THEN 6 ELSE Precision(t, p)
  <2>1. t.p \notin {"", ".1"}
    BY <1>7, Zenon DEF Precision
  <2>2. Precision(t, p) \in Int
    BY WidthIs
  <2> QED
    BY <1>4, <2>1, <2>2
<1> QED
  BY <1>1, <1>2, <1>3, <1>6, <1>7, Zenon

(* What LayoutAsC says of a token.                                         *)
AsC(t, p, here, c) ==
    /\ here.width = c.width /\ here.left = c.left
    /\ \/ (here.fill = "0") = c.zero
       \/ stream.fill = "0" /\ t.conv # "s" /\ " " \notin t.flags
    /\ t.conv \in Floats =>
         \/ (IF here.prec < 0 THEN 6 ELSE here.prec) = c.prec
         \/ Precision(t, p) = 1 /\ here.prec = stream.prec

(* An ordinary token is laid out as C does, in a stream that satisfies the *)
(* type invariant: operator<< has used up the width, and the side is the   *)
(* right one.                                                              *)
LEMMA LaidOut ==
    ASSUME TypeOK, phase = "format", ~stream.bad,
           NEW t \in Tokens, NEW w \in WidthArgs(t), NEW p \in PrecisionArgs(t), Ordinary(t, w),
           NEW here, here = SetUp(Insert(stream), t, w, p), NEW c, c = InC(t, w, p)
    PROVE  AsC(t, p, here, c)
<1>1. stream \in Streams /\ stream.left = FALSE
  BY TypeParts, Zenon DEF Good
<1>2. PICK s \in Streams : /\ s = Insert(stream) /\ s.width = 0 /\ s.left = FALSE
                           /\ s.fill = stream.fill /\ s.prec = stream.prec
  BY <1>1, InsertIs
<1>3. here \in Streams /\ Ready(s, t, w, p, here)
  BY <1>2, SetUpIs, Zenon
<1>4. /\ c.width = FieldWidth(t, w) /\ c.left = ("-" \in t.flags)
      /\ c.zero = ("0" \in t.flags /\ "-" \notin t.flags)
      /\ Precision(t, p) # 1 => c.prec = IF Precision(t, p) < 0 THEN 6 ELSE Precision(t, p)
  BY InCIs
<1>5. /\ ~({"-", "+"} \subseteq t.flags) /\ ~({"0", " "} \subseteq t.flags)
      /\ "0" \in t.flags => t.conv \in Floats \/ (t.conv \in Ints /\ t.p = "")
  BY Zenon DEF Ordinary
<1>6. here.width = c.width
  <2>1. here.width = IF FieldWidth(t, w) # 0 THEN FieldWidth(t, w) ELSE s.width
    BY <1>3, Zenon DEF Ready
  <2> QED
    BY <1>2, <1>4, <2>1, Zenon
<1>7. here.left = c.left
  <2>1. here.left <=> ("+" \notin t.flags /\ ("-" \in t.flags \/ s.left))
    BY <1>3, Zenon DEF Ready
  <2>2. ~("-" \in t.flags /\ "+" \in t.flags)
    BY <1>5, Zenon
  <2>3. here.left <=> "-" \in t.flags
    BY <1>2, <2>1, <2>2, Zenon
  <2>4. here.left \in BOOLEAN /\ c.left \in BOOLEAN
    <3>1. here.left \in BOOLEAN
      BY <1>3 DEF Streams
    <3>2. c.left = ("-" \in t.flags)
      BY <1>4, Zenon
    <3>3. c.left \in BOOLEAN
      BY <3>2, SMT
    <3> QED
      BY <3>1, <3>3, Zenon
  <2> QED
    BY <1>4, <2>3, <2>4, Zenon
<1>8. \/ (here.fill = "0") = c.zero
      \/ stream.fill = "0" /\ t.conv # "s" /\ " " \notin t.flags
  <2>0. here.fill = IF t.conv = "s" \/ " " \in t.flags THEN " "
                    ELSE IF "0" \in t.flags /\ "-" \notin t.flags THEN "0" ELSE stream.fill
    BY <1>2, <1>3, Zenon DEF Ready
  <2>z. c.zero \in BOOLEAN
    <3>1. c.zero = ("0" \in t.flags /\ "-" \notin t.flags)
      BY <1>4, Zenon
    <3> QED
      BY <3>1, Zenon
  <2>1. CASE t.conv = "s" \/ " " \in t.flags
    <3>1. here.fill # "0"
      <4>1. here.fill = " "
        BY <2>0, <2>1, Zenon
      <4> QED
        BY <4>1
    <3>2. "0" \notin t.flags
      <4>1. t.conv # "s" \/ (t.conv \notin Floats /\ t.conv \notin Ints)
        BY DEF Floats, Ints
      <4> QED
        BY <1>5, <2>1, <4>1, Zenon
    <3> QED
      BY <1>4, <2>z, <3>1, <3>2, Zenon
  <2>2. CASE ~(t.conv = "s" \/ " " \in t.flags) /\ "0" \in t.flags /\ "-" \notin t.flags
    <3>1. here.fill = "0"
      BY <2>0, <2>2, Zenon
    <3> QED
      BY <1>4, <2>z, <2>2, <3>1, Zenon
  <2>3. CASE ~(t.conv = "s" \/ " " \in t.flags) /\ ~("0" \in t.flags /\ "-" \notin t.flags)
    <3>1. here.fill = stream.fill
      BY <2>0, <2>3, Zenon
    <3> QED
      BY <1>4, <2>z, <2>3, <3>1, Zenon
  <2> QED
    BY <2>1, <2>2, <2>3, Zenon
<1>9. \/ (IF here.prec < 0 THEN 6 ELSE here.prec) = c.prec
      \/ Precision(t, p) = 1 /\ here.prec = stream.prec
  <2>1. here.prec = IF Precision(t, p) # 1 THEN Precision(t, p) ELSE stream.prec
    BY <1>2, <1>3, Zenon DEF Ready
  <2>2. CASE Precision(t, p) = 1
    BY <2>1, <2>2, Zenon
  <2>3. CASE Precision(t, p) # 1
    BY <1>4, <2>1, <2>3, Zenon
  <2> QED
    BY <2>2, <2>3
<1> QED
  BY <1>6, <1>7, <1>8, <1>9, Zenon DEF AsC

(* The same of every token.                                                *)
LEMMA LayoutHolds == TypeOK => LayoutAsC
<1> SUFFICES ASSUME TypeOK PROVE LayoutAsC
  OBVIOUS
<1>1. ASSUME phase = "format", ~stream.bad,
             NEW t \in Tokens, NEW w \in WidthArgs(t), NEW p \in PrecisionArgs(t), Ordinary(t, w)
      PROVE  AsC(t, p, SetUp(Insert(stream), t, w, p), InC(t, w, p))
  BY <1>1, LaidOut
<1> QED
  BY <1>1, Zenon DEF LayoutAsC, AsC

(* Whatever messages came before, an ordinary token has the width and the  *)
(* side that C would give it, and the fill and the precision of C or of an *)
(* earlier token: what is left in the stream is bounded to these two.      *)
THEOREM LayoutAsCEver == Spec => []LayoutAsC
<1>1. Spec => []TypeOK
  BY TypeCorrect
<1>2. TypeOK => LayoutAsC
  BY LayoutHolds
<1> QED
  BY <1>1, <1>2, PTL

-----------------------------------------------------------------------------
(* The folds.                                                              *)

(* A set of numbers has a least one.  From it follows, by the least        *)
(* counterexample, what the folds of the formatter return.                 *)
LEMMA LeastNat ==
    ASSUME NEW T \in SUBSET Nat, T # {}
    PROVE  \E n \in T : \A m \in T : n <= m
<1> DEFINE R == OpToRel(<, Nat)
<1>1. IsWellFoundedOn(R, Nat)
  BY NatLessThanWellFounded
<1>2. \A x, y \in Nat : x < y => <<x, y>> \in R
  BY DEF OpToRel
<1> HIDE DEF R
<1>3. PICK n \in T : \A m \in T : ~(<<m, n>> \in R)
  BY <1>1, WFMin
<1>4. ASSUME NEW m \in T PROVE n <= m
  <2>1. m \in Nat /\ n \in Nat
    OBVIOUS
  <2>2. ~(m < n)
    BY <1>2, <1>3, <2>1, Zenon
  <2> QED
    BY <2>1, <2>2
<1> QED
  BY <1>4

(* The largest number of a set that has the bound of the set in it.        *)
LEMMA MaxIs ==
    ASSUME NEW N \in Nat, NEW s \in SUBSET (1..N), N \in s
    PROVE  Max(s) = N
<1>1. \A y \in s : N >= y
  OBVIOUS
<1>2. PICK x : x = Max(s)
  OBVIOUS
<1>3. x \in s /\ \A y \in s : x >= y
  BY <1>1, <1>2, Zenon DEF Max
<1>4. x >= N /\ N >= x /\ x \in Nat
  BY <1>1, <1>3
<1>5. x = N
  BY <1>4
<1> QED
  BY <1>2, <1>5

(* One step of the two folds of the formatter: over the numbers of the     *)
(* bytes of a dump, and, where n is none, over the characters of a frame.  *)
Turn(n, a, c) == IF n \in Nat THEN Byte(n, a, c) ELSE ReadChar(a, c)

Folded(n, base, seq, g, s) ==
    IF s = {} THEN base ELSE Turn(n, g[s \ {Max(s)}], seq[Max(s)])

IsFold(n, base, seq, N, g) ==
    g = [s \in SUBSET (1..N) |-> Folded(n, base, seq, g, s)]

(* A function that steps through a sequence to a value.                    *)
Steps(n, base, seq, N, v, f) ==
    /\ f[0] = base /\ f[N] = v
    /\ \A i \in 1..N : f[i] = Turn(n, f[i - 1], seq[i])

(* There is a function on sets of indices that folds as FoldLeft does.     *)
LEMMA FoldExists ==
    ASSUME NEW n, NEW base, NEW seq, NEW N \in Nat
    PROVE  \E g : IsFold(n, base, seq, N, g)
<1> DEFINE Ok(m) == \E g : g = [s \in SUBSET (1..m) |-> Folded(n, base, seq, g, s)]
           Bad == {m \in Nat : ~Ok(m)}
<1>1. Ok(0)
  <2> DEFINE h == [s \in SUBSET (1..0) |-> base]
  <2>1. ASSUME NEW s \in SUBSET (1..0) PROVE h[s] = Folded(n, base, seq, h, s)
    <3>1. s = {}
      OBVIOUS
    <3>2. h[s] = base
      OBVIOUS
    <3> QED
      BY <3>1, <3>2, Zenon DEF Folded
  <2>2. h = [s \in SUBSET (1..0) |-> h[s]]
    OBVIOUS
  <2> HIDE DEF h
  <2>3. h = [s \in SUBSET (1..0) |-> Folded(n, base, seq, h, s)]
    BY <2>1, <2>2, Zenon
  <2> QED
    BY <2>3, Zenon
<1>2. ASSUME NEW m \in Nat, m # 0, Ok(m - 1) PROVE Ok(m)
  <2>1. PICK g : g = [s \in SUBSET (1..(m - 1)) |-> Folded(n, base, seq, g, s)]
    BY <1>2
  <2> DEFINE h == [s \in SUBSET (1..m) |-> IF m \in s THEN Turn(n, g[s \ {m}], seq[m]) ELSE g[s]]
  <2>2. ASSUME NEW s \in SUBSET (1..m) PROVE h[s] = Folded(n, base, seq, h, s)
    <3>1. CASE m \in s
      <4>1. Max(s) = m
        BY <3>1, MaxIs
      <4>2. s # {} /\ s \ {m} \in SUBSET (1..m) /\ m \notin s \ {m}
        BY <3>1
      <4>3. h[s] = Turn(n, g[s \ {m}], seq[m])
        BY <3>1, Zenon
      <4>4. h[s \ {m}] = g[s \ {m}]
        BY <4>2, Zenon
      <4>5. Folded(n, base, seq, h, s) = Turn(n, h[s \ {m}], seq[m])
        BY <4>1, <4>2, Zenon DEF Folded
      <4> QED
        BY <4>3, <4>4, <4>5, Zenon
    <3>2. CASE m \notin s
      <4>1. s \in SUBSET (1..(m - 1))
        BY <3>2
      <4>2. h[s] = g[s]
        BY <3>2, Zenon
      <4>3. g[s] = Folded(n, base, seq, g, s)
        BY <2>1, <4>1, Zenon
      <4>4. s \ {Max(s)} \in SUBSET (1..m) /\ m \notin s \ {Max(s)}
        BY <3>2, Zenon
      <4>5. h[s \ {Max(s)}] = g[s \ {Max(s)}]
        BY <4>4, Zenon
      <4> QED
        BY <4>2, <4>3, <4>5, Zenon DEF Folded
    <3> QED
      BY <3>1, <3>2
  <2>3. h = [s \in SUBSET (1..m) |-> h[s]]
    OBVIOUS
  <2> HIDE DEF h
  <2>4. h = [s \in SUBSET (1..m) |-> Folded(n, base, seq, h, s)]
    BY <2>2, <2>3, Zenon
  <2> QED
    BY <2>4, Zenon
<1> HIDE DEF Ok
<1>3. Bad = {}
  <2> SUFFICES ASSUME Bad # {} PROVE FALSE
    OBVIOUS
  <2>1. PICK m \in Bad : \A k \in Bad : m <= k
    BY LeastNat
  <2>2. m # 0 /\ m \in Nat /\ ~Ok(m)
    BY <1>1
  <2>3. m - 1 \in Nat /\ ~(m <= m - 1)
    BY <2>2
  <2>4. Ok(m - 1)
    BY <2>1, <2>3
  <2> QED
    BY <1>2, <2>2, <2>4
<1> QED
  BY <1>3 DEF Ok, IsFold

(* Such a function, at the prefixes of the indices, steps through the      *)
(* sequence.                                                               *)
LEMMA FoldSteps ==
    ASSUME NEW n, NEW base, NEW seq, NEW N \in Nat,
           NEW g, IsFold(n, base, seq, N, g)
    PROVE  \E f : Steps(n, base, seq, N, g[1..N], f)
<1>0. g = [s \in SUBSET (1..N) |-> Folded(n, base, seq, g, s)]
  BY Zenon DEF IsFold
<1> DEFINE f == [i \in 0..N |-> g[1..i]]
<1>1. f[0] = base
  <2>1. f[0] = g[1..0]
    OBVIOUS
  <2>2. 1..0 = {} /\ {} \in SUBSET (1..N)
    OBVIOUS
  <2>3. g[{}] = Folded(n, base, seq, g, {})
    BY <1>0, <2>2, Zenon
  <2> QED
    BY <2>1, <2>2, <2>3, Zenon DEF Folded
<1>2. f[N] = g[1..N]
  OBVIOUS
<1>3. ASSUME NEW i \in 1..N PROVE f[i] = Turn(n, f[i - 1], seq[i])
  <2>1. i \in Nat /\ i - 1 \in 0..N /\ i \in 0..N
    OBVIOUS
  <2>2. i \in 1..i /\ 1..i \in SUBSET (1..i) /\ 1..i \in SUBSET (1..N)
    OBVIOUS
  <2>3. Max(1..i) = i
    BY <2>1, <2>2, MaxIs, Zenon
  <2>4. (1..i) \ {i} = 1..(i - 1)
    OBVIOUS
  <2>5. g[1..i] = Folded(n, base, seq, g, 1..i)
    BY <1>0, <2>2, Zenon
  <2>6. 1..i # {}
    BY <2>2, Zenon
  <2>7. g[1..i] = Turn(n, g[1..(i - 1)], seq[i])
    BY <2>3, <2>4, <2>5, <2>6, Zenon DEF Folded
  <2>8. f[i] = g[1..i] /\ f[i - 1] = g[1..(i - 1)]
    BY <2>1, Zenon
  <2> QED
    BY <2>7, <2>8, Zenon
<1> HIDE DEF f
<1> QED
  BY <1>1, <1>2, <1>3, Zenon DEF Steps

(* Before the first character nothing is read.                             *)
ReadStart == [mode |-> "out", strings |-> <<>>]

(* Read steps through the characters.                                      *)
LEMMA ReadSteps ==
    ASSUME NEW seq, NEW N \in Nat, DOMAIN seq = 1..N, NEW n, n \notin Nat
    PROVE  \E f : Steps(n, ReadStart, seq, N, Read(seq), f)
<1> DEFINE g == CHOOSE iter : iter = [s \in SUBSET DOMAIN seq |->
                 IF s = {} THEN [mode |-> "out", strings |-> <<>>]
                 ELSE ReadChar(iter[s \ {Max(s)}], seq[Max(s)])]
<1>1. Read(seq) = g[DOMAIN seq]
  BY Zenon DEF Read, FoldLeft, MapThenFoldSet
<1>2. \A h, s : Folded(n, ReadStart, seq, h, s) =
                 IF s = {} THEN [mode |-> "out", strings |-> <<>>]
                 ELSE ReadChar(h[s \ {Max(s)}], seq[Max(s)])
  BY Zenon DEF Folded, Turn, ReadStart
<1>3. PICK k : IsFold(n, ReadStart, seq, N, k)
  <2>1. PICK b : b = ReadStart
    OBVIOUS
  <2> QED
    BY <2>1, FoldExists, Zenon
<1>4. k = [s \in SUBSET DOMAIN seq |->
                 IF s = {} THEN [mode |-> "out", strings |-> <<>>]
                 ELSE ReadChar(k[s \ {Max(s)}], seq[Max(s)])]
  BY <1>2, <1>3, Zenon DEF IsFold
<1>5. g = [s \in SUBSET DOMAIN seq |->
                 IF s = {} THEN [mode |-> "out", strings |-> <<>>]
                 ELSE ReadChar(g[s \ {Max(s)}], seq[Max(s)])]
  BY <1>4, Zenon
<1>6. IsFold(n, ReadStart, seq, N, g)
  <2>1. DOMAIN g = SUBSET (1..N) /\ g = [s \in DOMAIN g |-> g[s]]
    BY <1>5, Zenon
  <2>2. ASSUME NEW s \in SUBSET (1..N) PROVE g[s] = Folded(n, ReadStart, seq, g, s)
    BY <1>2, <1>5, Zenon
  <2> HIDE DEF g
  <2>3. g = [s \in SUBSET (1..N) |-> Folded(n, ReadStart, seq, g, s)]
    BY <2>1, <2>2, Zenon
  <2> QED
    BY <2>3, Zenon DEF IsFold
<1>7. PICK g2 : g2 = g
  OBVIOUS
<1> HIDE DEF g
<1>8. \E f : Steps(n, ReadStart, seq, N, g2[1..N], f)
  <2>1. PICK b : b = ReadStart
    OBVIOUS
  <2>2. IsFold(n, b, seq, N, g2)
    BY <1>6, <1>7, <2>1, Zenon
  <2> QED
    BY <2>1, <2>2, FoldSteps, Zenon
<1> QED
  BY <1>1, <1>7, <1>8, Zenon

(* Before the first byte no line is begun.                                 *)
DumpStart == [hex |-> <<>>, out |-> <<>>]

(* The fold of Lines steps through the numbers of the bytes.               *)
LEMMA DumpSteps ==
    ASSUME NEW seq, NEW N \in Nat, DOMAIN seq = 1..N, NEW n \in Nat
    PROVE  \E f : Steps(n, DumpStart, seq, N,
                FoldLeft(LAMBDA a, i : Byte(n, a, i), [hex |-> <<>>, out |-> <<>>], seq), f)
<1> DEFINE g == CHOOSE iter : iter = [s \in SUBSET DOMAIN seq |->
                 IF s = {} THEN [hex |-> <<>>, out |-> <<>>]
                 ELSE Byte(n, iter[s \ {Max(s)}], seq[Max(s)])]
<1>1. FoldLeft(LAMBDA a, i : Byte(n, a, i), [hex |-> <<>>, out |-> <<>>], seq) = g[DOMAIN seq]
  BY Zenon DEF FoldLeft, MapThenFoldSet
<1>2. \A h, s : Folded(n, DumpStart, seq, h, s) =
                 IF s = {} THEN [hex |-> <<>>, out |-> <<>>]
                 ELSE Byte(n, h[s \ {Max(s)}], seq[Max(s)])
  BY Zenon DEF Folded, Turn, DumpStart
<1>3. PICK k : IsFold(n, DumpStart, seq, N, k)
  <2>1. PICK b : b = DumpStart
    OBVIOUS
  <2> QED
    BY <2>1, FoldExists, Zenon
<1>4. k = [s \in SUBSET DOMAIN seq |->
                 IF s = {} THEN [hex |-> <<>>, out |-> <<>>]
                 ELSE Byte(n, k[s \ {Max(s)}], seq[Max(s)])]
  BY <1>2, <1>3, Zenon DEF IsFold
<1>5. g = [s \in SUBSET DOMAIN seq |->
                 IF s = {} THEN [hex |-> <<>>, out |-> <<>>]
                 ELSE Byte(n, g[s \ {Max(s)}], seq[Max(s)])]
  BY <1>4, Zenon
<1>6. IsFold(n, DumpStart, seq, N, g)
  <2>1. DOMAIN g = SUBSET (1..N) /\ g = [s \in DOMAIN g |-> g[s]]
    BY <1>5, Zenon
  <2>2. ASSUME NEW s \in SUBSET (1..N) PROVE g[s] = Folded(n, DumpStart, seq, g, s)
    BY <1>2, <1>5, Zenon
  <2> HIDE DEF g
  <2>3. g = [s \in SUBSET (1..N) |-> Folded(n, DumpStart, seq, g, s)]
    BY <2>1, <2>2, Zenon
  <2> QED
    BY <2>3, Zenon DEF IsFold
<1>7. PICK g2 : g2 = g
  OBVIOUS
<1> HIDE DEF g
<1>8. \E f : Steps(n, DumpStart, seq, N, g2[1..N], f)
  <2>1. PICK b : b = DumpStart
    OBVIOUS
  <2>2. IsFold(n, b, seq, N, g2)
    BY <1>6, <1>7, <2>1, Zenon
  <2> QED
    BY <2>1, <2>2, FoldSteps, Zenon
<1> QED
  BY <1>1, <1>7, <1>8, Zenon

(* What is read of a frame, character by character.                        *)
LEMMA ReadIs ==
    ASSUME NEW json, NEW N \in Nat, DOMAIN json = 1..N
    PROVE  \E f : /\ f[0] = ReadStart /\ f[N] = Read(json)
                  /\ \A i \in 1..N : f[i] = ReadChar(f[i - 1], json[i])
<1>1. PICK n : n \notin Nat
  BY -1 \notin Nat
<1>2. PICK f : Steps(n, ReadStart, json, N, Read(json), f)
  BY <1>1, ReadSteps, Zenon
<1> QED
  BY <1>1, <1>2, Zenon DEF Steps, Turn

(* The lines of a dump, byte by byte.                                      *)
LEMMA LinesIs ==
    ASSUME NEW n \in Nat
    PROVE  \E f : /\ f[0] = DumpStart /\ f[n].out = Lines(n)
                  /\ \A i \in 1..n : f[i] = Byte(n, f[i - 1], i - 1)
<1>1. PICK q : q = [i \in 1..n |-> i - 1]
  OBVIOUS
<1>2. DOMAIN q = 1..n /\ \A i \in 1..n : q[i] = i - 1
  BY <1>1
<1>3. PICK v : v = FoldLeft(LAMBDA a, i : Byte(n, a, i), [hex |-> <<>>, out |-> <<>>], q)
  OBVIOUS
<1>4. Lines(n) = v.out
  BY <1>1, <1>3, Zenon DEF Lines
<1>5. PICK f : Steps(n, DumpStart, q, n, v, f)
  BY <1>2, <1>3, DumpSteps, Zenon
<1> QED
  BY <1>2, <1>4, <1>5, Zenon DEF Steps, Turn

(* Nothing is read of an empty text.                                       *)
LEMMA ReadEmpty == Read(<<>>) = ReadStart
<1>1. PICK json : json = <<>>
  OBVIOUS
<1>2. DOMAIN json = 1..0 /\ 0 \in Nat
  BY <1>1
<1>3. PICK f : f[0] = ReadStart /\ f[0] = Read(json)
  BY <1>2, ReadIs
<1> QED
  BY <1>1, <1>3, Zenon

(* One more character is read after all that stand before it.              *)
LEMMA ReadAppend ==
    ASSUME NEW s \in Seq(Chars), NEW c \in Chars
    PROVE  Read(Append(s, c)) = ReadChar(Read(s), c)
<1>1. PICK N \in Nat : N = Len(s)
  OBVIOUS
<1>2. PICK t : t = Append(s, c)
  OBVIOUS
<1>3. DOMAIN s = 1..N
  BY <1>1
<1>4. DOMAIN t = 1..(N + 1) /\ t[N + 1] = c /\ \A i \in 1..N : t[i] = s[i]
  BY <1>1, <1>2
<1>5. N + 1 \in Nat
  OBVIOUS
<1>6. PICK f : /\ f[0] = ReadStart /\ f[N] = Read(s)
               /\ \A i \in 1..N : f[i] = ReadChar(f[i - 1], s[i])
  BY <1>3, ReadIs
<1>7. PICK M \in Nat : M = N + 1
  BY <1>5
<1>8. PICK h : /\ h[0] = ReadStart /\ h[M] = Read(t)
               /\ \A i \in 1..M : h[i] = ReadChar(h[i - 1], t[i])
  <2>1. DOMAIN t = 1..M
    BY <1>4, <1>7
  <2> QED
    BY <2>1, ReadIs
<1> DEFINE Bad == {i \in 0..N : h[i] # f[i]}
<1>9. Bad = {}
  <2> SUFFICES ASSUME Bad # {} PROVE FALSE
    OBVIOUS
  <2>1. PICK i \in Bad : \A m \in Bad : i <= m
    <3>1. Bad \in SUBSET Nat
      OBVIOUS
    <3> QED
      BY <3>1, LeastNat
  <2>2. i \in 0..N /\ h[i] # f[i]
    OBVIOUS
  <2>3. i # 0
    BY <1>6, <1>8, <2>2, Zenon
  <2>4. i - 1 \in 0..N /\ i \in 1..N /\ i \in 1..M /\ ~(i <= i - 1)
    BY <1>7, <2>2, <2>3
  <2>5. h[i - 1] = f[i - 1]
    BY <2>1, <2>4, Zenon
  <2>6. h[i] = ReadChar(h[i - 1], t[i]) /\ f[i] = ReadChar(f[i - 1], s[i]) /\ t[i] = s[i]
    BY <1>4, <1>6, <1>8, <2>4, Zenon
  <2> QED
    BY <2>2, <2>5, <2>6, Zenon
<1>10. h[N] = f[N]
  BY <1>9
<1>11. M \in 1..M /\ M - 1 = N
  BY <1>7
<1>12. h[M] = ReadChar(h[N], c)
  <2>1. h[M] = ReadChar(h[M - 1], t[M])
    BY <1>8, <1>11, Zenon
  <2> QED
    BY <1>4, <1>7, <1>11, <2>1, Zenon
<1> QED
  BY <1>2, <1>6, <1>8, <1>10, <1>12, Zenon

(* One step of FlattenSeq.                                                 *)
Joined(s, f, i) == IF i = 1 THEN s[i] ELSE f[i - 1] \o s[i]

(* There is a function that joins as FlattenSeq does.                      *)
LEMMA JoinExists ==
    ASSUME NEW s, NEW N \in Nat
    PROVE  \E f : f = [i \in 1..N |-> Joined(s, f, i)]
<1> DEFINE Ok(n) == \E f : f = [i \in 1..n |-> Joined(s, f, i)]
           Bad == {n \in Nat : ~Ok(n)}
<1>1. Ok(0)
  <2>1. PICK f : f = [i \in 1..0 |-> s[i]]
    OBVIOUS
  <2>2. f = [i \in 1..0 |-> Joined(s, f, i)]
    BY <2>1
  <2> QED
    BY <2>2, Zenon
<1>2. ASSUME NEW n \in Nat, n # 0, Ok(n - 1) PROVE Ok(n)
  <2>1. PICK g : g = [i \in 1..(n - 1) |-> Joined(s, g, i)]
    BY <1>2
  <2> DEFINE h == [i \in 1..n |-> IF i = n THEN Joined(s, g, n) ELSE g[i]]
  <2>2. ASSUME NEW i \in 1..n PROVE h[i] = Joined(s, h, i)
    <3>1. h[i] = Joined(s, g, i)
      <4>1. CASE i = n
        BY <4>1
      <4>2. CASE i # n
        <5>1. i \in 1..(n - 1)
          BY <4>2
        <5>2. g[i] = Joined(s, g, i)
          BY <2>1, <5>1, Zenon
        <5>3. h[i] = g[i]
          BY <4>2
        <5> QED
          BY <5>2, <5>3
      <4> QED
        BY <4>1, <4>2
    <3>2. CASE i = 1
      BY <3>1, <3>2, Zenon DEF Joined
    <3>3. CASE i # 1
      <4>1. i - 1 \in 1..n /\ i - 1 # n
        BY <3>3
      <4>2. h[i - 1] = g[i - 1]
        BY <4>1, Zenon
      <4> QED
        BY <3>1, <3>3, <4>2, Zenon DEF Joined
    <3> QED
      BY <3>2, <3>3
  <2>3. h = [i \in 1..n |-> h[i]]
    OBVIOUS
  <2> HIDE DEF h
  <2>4. h = [i \in 1..n |-> Joined(s, h, i)]
    BY <2>2, <2>3, Zenon
  <2> QED
    BY <2>4, Zenon
<1> HIDE DEF Ok
<1>3. Bad = {}
  <2> SUFFICES ASSUME Bad # {} PROVE FALSE
    OBVIOUS
  <2>1. PICK n \in Bad : \A m \in Bad : n <= m
    BY LeastNat
  <2>2. n # 0 /\ n \in Nat /\ ~Ok(n)
    BY <1>1
  <2>3. n - 1 \in Nat /\ ~(n <= n - 1)
    BY <2>2
  <2>4. Ok(n - 1)
    BY <2>1, <2>3
  <2> QED
    BY <1>2, <2>2, <2>4
<1> QED
  BY <1>3 DEF Ok

(* The function of FlattenSeq is one that joins.                           *)
LEMMA FlattenIs ==
    ASSUME NEW s, NEW N \in Nat, N = Len(s), N # 0
    PROVE  \E f : /\ FlattenSeq(s) = f[N]
                  /\ \A i \in 1..N : f[i] = IF i = 1 THEN s[i] ELSE f[i - 1] \o s[i]
<1> DEFINE f == CHOOSE f : f = [i \in 1..Len(s) |->
                  IF i = 1 THEN s[i] ELSE f[i - 1] \o s[i]]
<1>1. \E g : g = [i \in 1..Len(s) |-> Joined(s, g, i)]
  BY JoinExists, Zenon
<1>2. \E g : g = [i \in 1..Len(s) |-> IF i = 1 THEN s[i] ELSE g[i - 1] \o s[i]]
  BY <1>1, Zenon DEF Joined
<1>3. f = [i \in 1..Len(s) |-> IF i = 1 THEN s[i] ELSE f[i - 1] \o s[i]]
  BY <1>2, Zenon
<1>4. FlattenSeq(s) = f[Len(s)]
  BY Zenon DEF FlattenSeq
<1> HIDE DEF f
<1>5. \A i \in 1..N : f[i] = IF i = 1 THEN s[i] ELSE f[i - 1] \o s[i]
  BY <1>3, Zenon
<1> QED
  BY <1>4, <1>5, Zenon

(* Of nothing, nothing is made.                                            *)
LEMMA FlattenEmpty == FlattenSeq(<<>>) = <<>>
<1>1. Len(<<>>) = 0
  OBVIOUS
<1> QED
  BY <1>1, Zenon DEF FlattenSeq

(* Joining what stands before, and then one sequence more.                 *)
LEMMA FlattenAppend ==
    ASSUME NEW X, NEW s \in Seq(Seq(X)), NEW x \in Seq(X)
    PROVE  FlattenSeq(Append(s, x)) = FlattenSeq(s) \o x /\ FlattenSeq(s) \in Seq(X)
<1>1. PICK N \in Nat : N = Len(s)
  OBVIOUS
<1>2. PICK t : t = Append(s, x)
  OBVIOUS
<1>3. PICK M \in Nat : M = N + 1
  OBVIOUS
<1>4. M = Len(t) /\ M # 0 /\ t[M] = x /\ \A i \in 1..N : t[i] = s[i] /\ s[i] \in Seq(X)
  BY <1>1, <1>2, <1>3
<1>5. PICK h : /\ FlattenSeq(t) = h[M]
               /\ \A i \in 1..M : h[i] = IF i = 1 THEN t[i] ELSE h[i - 1] \o t[i]
  BY <1>4, FlattenIs
<1>6. CASE N = 0
  <2>1. s = <<>>
    <3>1. PICK Y : Y = Seq(X)
      OBVIOUS
    <3>2. s \in Seq(Y) /\ Len(s) = 0
      BY <1>1, <1>6, <3>1, Zenon
    <3> QED
      BY <3>2
  <2>2. FlattenSeq(s) = <<>>
    BY <2>1, FlattenEmpty
  <2>3. M = 1 /\ 1 \in 1..M
    BY <1>3, <1>6
  <2>4. h[M] = x
    BY <1>4, <1>5, <2>3, Zenon
  <2>5. <<>> \o x = x /\ <<>> \in Seq(X)
    OBVIOUS
  <2> QED
    BY <1>2, <1>5, <2>2, <2>4, <2>5, Zenon
<1>7. CASE N # 0
  <2>1. PICK f : /\ FlattenSeq(s) = f[N]
                 /\ \A i \in 1..N : f[i] = IF i = 1 THEN s[i] ELSE f[i - 1] \o s[i]
    BY <1>1, <1>7, FlattenIs
  <2> DEFINE Bad == {i \in 1..N : ~(h[i] = f[i] /\ f[i] \in Seq(X))}
  <2>2. Bad = {}
    <3> SUFFICES ASSUME Bad # {} PROVE FALSE
      OBVIOUS
    <3>1. PICK i \in Bad : \A m \in Bad : i <= m
      <4>1. Bad \in SUBSET Nat
        OBVIOUS
      <4> QED
        BY <4>1, LeastNat
    <3>2. i \in 1..N /\ i \in 1..M /\ ~(h[i] = f[i] /\ f[i] \in Seq(X))
      BY <1>3
    <3>3. CASE i = 1
      <4>1. h[i] = t[i] /\ f[i] = s[i] /\ t[i] = s[i] /\ s[i] \in Seq(X)
        BY <1>4, <1>5, <2>1, <3>2, <3>3, Zenon
      <4> QED
        BY <3>2, <4>1, Zenon
    <3>4. CASE i # 1
      <4>1. i - 1 \in 1..N /\ ~(i <= i - 1)
        BY <3>2, <3>4
      <4>2. h[i - 1] = f[i - 1] /\ f[i - 1] \in Seq(X)
        BY <3>1, <4>1, Zenon
      <4>3. h[i] = h[i - 1] \o t[i] /\ f[i] = f[i - 1] \o s[i] /\ t[i] = s[i] /\ s[i] \in Seq(X)
        BY <1>4, <1>5, <2>1, <3>2, <3>4, Zenon
      <4>4. f[i - 1] \o s[i] \in Seq(X)
        BY <4>2, <4>3
      <4> QED
        BY <3>2, <4>2, <4>3, <4>4, Zenon
    <3> QED
      BY <3>3, <3>4
  <2>3. N \in 1..N /\ M \in 1..M /\ M # 1 /\ M - 1 = N
    BY <1>3, <1>7
  <2>4. h[N] = f[N] /\ f[N] \in Seq(X)
    BY <2>2, <2>3, Zenon
  <2>5. h[M] = h[N] \o x
    BY <1>4, <1>5, <2>3, Zenon
  <2> QED
    BY <1>2, <1>5, <2>1, <2>4, <2>5, Zenon
<1> QED
  BY <1>6, <1>7

-----------------------------------------------------------------------------
(* The dump.                                                               *)

(* Sixteen bytes to a line.                                                *)
LEMMA Sixteen ==
    ASSUME NEW b \in Nat
    PROVE  /\ b % 16 \in 0..15
           /\ b % 16 = 15 => (b + 1) % 16 = 0
           /\ b % 16 < 15 => (b + 1) % 16 = (b % 16) + 1
OBVIOUS

(* One element more.                                                       *)
LEMMA AppendIs ==
    ASSUME NEW X, NEW s \in Seq(X), NEW x \in X
    PROVE  Append(s, x) \in Seq(X)
OBVIOUS

(* Two sequences, one after the other.                                     *)
LEMMA JoinIs ==
    ASSUME NEW X, NEW s \in Seq(X), NEW t \in Seq(X)
    PROVE  s \o t \in Seq(X)
OBVIOUS

(* The same with one element more.                                         *)
LEMMA JoinGrows ==
    ASSUME NEW s \in Seq(Nat), NEW t \in Seq(Nat), NEW x \in Nat,
           NEW u, u = s \o t, NEW v, v = s \o Append(t, x)
    PROVE  v = Append(u, x)
OBVIOUS

(* A sequence is a function.                                               *)
LEMMA SeqIsFunction ==
    ASSUME NEW X, NEW s \in Seq(X)
    PROVE  s = [i \in 1..Len(s) |-> s[i]]
OBVIOUS

(* A function on 1 .. k is a sequence.                                     *)
LEMMA FunctionIsSeq ==
    ASSUME NEW X, NEW k \in Nat, NEW s, DOMAIN s = 1..k, s = [i \in 1..k |-> s[i]],
           \A i \in 1..k : s[i] \in X
    PROVE  s \in Seq(X) /\ Len(s) = k
OBVIOUS

(* The same sequence, element by element.                                  *)
LEMMA SameSeq ==
    ASSUME NEW X, NEW s \in Seq(X), NEW t \in Seq(X), Len(s) = Len(t),
           \A i \in 1..Len(s) : s[i] = t[i]
    PROVE  s = t
OBVIOUS

(* What a line of a dump is, and the hexadecimal parts of lines.           *)
LineSet == [hex : Seq(Nat), gap : Int, ascii : Seq(Nat)]

Hexes(out) == [k \in 1..Len(out) |-> out[k].hex]

(* They are sequences of numbers.                                          *)
LEMMA HexesAre ==
    ASSUME NEW out \in Seq(LineSet)
    PROVE  Hexes(out) \in Seq(Seq(Nat))
<1>1. PICK k \in Nat : k = Len(out)
  OBVIOUS
<1>2. PICK s : s = [i \in 1..k |-> out[i].hex]
  OBVIOUS
<1>3. PICK X : X = Seq(Nat)
  OBVIOUS
<1>4. ASSUME NEW i \in 1..k PROVE s[i] \in X
  <2>1. out[i] \in LineSet
    BY <1>1
  <2>2. out[i].hex \in Seq(Nat)
    BY <2>1, Zenon DEF LineSet
  <2> QED
    BY <1>2, <1>3, <2>2, Zenon
<1>5. DOMAIN s = 1..k /\ s = [i \in 1..k |-> s[i]]
  BY <1>2
<1>6. s \in Seq(X)
  BY <1>4, <1>5, FunctionIsSeq
<1> QED
  BY <1>1, <1>2, <1>3, <1>6, Zenon DEF Hexes

(* They grow with the lines.                                               *)
LEMMA HexesGrow ==
    ASSUME NEW out \in Seq(LineSet), NEW line \in LineSet
    PROVE  Hexes(Append(out, line)) = Append(Hexes(out), line.hex)
<1>1. PICK k \in Nat : k = Len(out)
  OBVIOUS
<1>2. PICK s : s = Hexes(out)
  OBVIOUS
<1>3. PICK t \in Seq(LineSet) : t = Append(out, line)
  BY AppendIs, Zenon
<1>4. PICK x \in Seq(Nat) : x = line.hex
  BY DEF LineSet
<1>5. PICK X : X = Seq(Nat)
  OBVIOUS
<1>6. s \in Seq(X) /\ Hexes(t) \in Seq(X) /\ x \in X
  BY <1>2, <1>4, <1>5, HexesAre
<1>7. PICK u \in Seq(X) : u = Hexes(t)
  BY <1>6
<1>8. s = [i \in 1..k |-> out[i].hex] /\ u = [i \in 1..(k + 1) |-> t[i].hex]
  <2>1. Len(t) = k + 1
    BY <1>1, <1>3
  <2> QED
    BY <1>1, <1>2, <1>7, <2>1, Zenon DEF Hexes
<1>9. Len(s) = k /\ Len(u) = k + 1
  <2>1. DOMAIN s = 1..k /\ DOMAIN u = 1..(k + 1)
    BY <1>8
  <2>2. DOMAIN s = 1..Len(s) /\ DOMAIN u = 1..Len(u) /\ Len(s) \in Nat /\ Len(u) \in Nat
    BY <1>6
  <2> QED
    BY <2>1, <2>2
<1>10. PICK v \in Seq(X) : v = Append(s, x)
  BY <1>6, AppendIs, Zenon
<1>11. Len(v) = k + 1 /\ v[k + 1] = x /\ \A i \in 1..k : v[i] = s[i]
  BY <1>6, <1>9, <1>10
<1>12. ASSUME NEW i \in 1..(k + 1) PROVE u[i] = v[i]
  <2>1. CASE i = k + 1
    <3>1. t[i] = line
      BY <1>1, <1>3, <2>1
    <3>2. u[i] = x
      BY <1>4, <1>8, <3>1, Zenon
    <3> QED
      BY <1>11, <2>1, <3>2
  <2>2. CASE i # k + 1
    <3>1. i \in 1..k
      BY <2>2
    <3>2. t[i] = out[i]
      BY <1>1, <1>3, <3>1
    <3>3. u[i] = s[i]
      BY <1>8, <3>1, <3>2, Zenon
    <3> QED
      BY <1>11, <3>1, <3>3, Zenon
  <2> QED
    BY <2>1, <2>2
<1>13. u = v
  BY <1>9, <1>11, <1>12, SameSeq
<1> QED
  BY <1>2, <1>3, <1>4, <1>7, <1>10, <1>13, Zenon

(* After i of n bytes: those of the line that is begun, and those of all.  *)
Begun(n, i, hex) ==
    /\ hex \in Seq(Nat)
    /\ i >= n => Len(hex) = 0
    /\ ~(i >= n) => Len(hex) = i % 16
    /\ \A j \in 1..Len(hex) : hex[j] = i - Len(hex) + j - 1

UpTo(i, s) == s = [j \in 1..i |-> j - 1]

Dumped(i, hex, out) == UpTo(i, FlattenSeq(Hexes(out)) \o hex)

InColumn(line) == line.ascii = line.hex /\ 3 * Len(line.hex) + line.gap = 48

DumpInv(n, i, a) ==
    /\ Begun(n, i, a.hex) /\ a.out \in Seq(LineSet)
    /\ Dumped(i, a.hex, a.out)
    /\ \A k \in 1..Len(a.out) : InColumn(a.out[k])

(* All lines are in column when one more is.                               *)
LEMMA ColumnGrows ==
    ASSUME NEW out \in Seq(LineSet), NEW line \in LineSet, NEW lines, lines = Append(out, line),
           InColumn(line), \A k \in 1..Len(out) : InColumn(out[k])
    PROVE  \A k \in 1..Len(lines) : InColumn(lines[k])
<1>1. PICK m \in Nat : m = Len(out)
  OBVIOUS
<1>2. Len(lines) = m + 1 /\ lines[m + 1] = line /\ \A i \in 1..m : lines[i] = out[i]
  BY <1>1
<1>3. ASSUME NEW k \in 1..(m + 1) PROVE InColumn(lines[k])
  <2>1. CASE k = m + 1
    BY <1>2, <2>1, Zenon
  <2>2. CASE k # m + 1
    <3>1. k \in 1..m
      BY <2>2
    <3> QED
      BY <1>1, <1>2, <3>1, Zenon
  <2> QED
    BY <2>1, <2>2
<1> QED
  BY <1>2, <1>3, Zenon

(* At first no line is begun.                                              *)
LEMMA DumpInvStart ==
    ASSUME NEW n \in Nat
    PROVE  DumpInv(n, 0, DumpStart)
<1>1. PICK e : e = <<>>
  OBVIOUS
<1>2. DumpStart = [hex |-> e, out |-> e]
  BY <1>1, Zenon DEF DumpStart
<1>3. DumpStart.hex = e /\ DumpStart.out = e
  BY <1>2
<1>4. e \in Seq(Nat) /\ e \in Seq(LineSet) /\ Len(e) = 0 /\ 0 % 16 = 0 /\ 1..0 = {}
  BY <1>1
<1>5. Begun(n, 0, e)
  BY <1>4 DEF Begun
<1>6. Hexes(e) = <<>>
  BY <1>4 DEF Hexes
<1>7. Dumped(0, e, e)
  <2>1. FlattenSeq(Hexes(e)) = <<>>
    BY <1>6, FlattenEmpty
  <2>2. UpTo(0, <<>> \o e)
    BY <1>1 DEF UpTo
  <2> QED
    BY <2>1, <2>2, Zenon DEF Dumped
<1>8. \A k \in 1..Len(e) : InColumn(e[k])
  BY <1>4
<1> QED
  BY <1>3, <1>4, <1>5, <1>7, <1>8, Zenon DEF DumpInv

(* A line with one byte more, the r-th after the first.                    *)
Longer(n, b, r, more) ==
    /\ Len(more) = r + 1
    /\ \A j \in 1..(r + 1) : more[j] = b - r + j - 1
    /\ ~EndsLine(b, n) => Begun(n, b + 1, more)

(* The line that is begun grows so, and goes on if it is not full.         *)
LEMMA ByteBegun ==
    ASSUME NEW n \in Nat, NEW b \in Nat, b < n, NEW hex, Begun(n, b, hex),
           NEW more, more = Append(hex, b), NEW r \in 0..15, r = b % 16
    PROVE  Longer(n, b, r, more)
<1>1. hex \in Seq(Nat) /\ Len(hex) = r /\ \A j \in 1..r : hex[j] = b - r + j - 1
  <2>1. ~(b >= n)
    OBVIOUS
  <2> QED
    BY <2>1, Zenon DEF Begun
<1>2. more \in Seq(Nat) /\ Len(more) = r + 1 /\ more[r + 1] = b /\ \A j \in 1..r : more[j] = hex[j]
  BY <1>1
<1>3. ASSUME NEW j \in 1..(r + 1) PROVE more[j] = b - r + j - 1
  <2>1. CASE j = r + 1
    BY <1>2, <2>1
  <2>2. CASE j # r + 1
    <3>1. j \in 1..r
      BY <2>2
    <3> QED
      BY <1>1, <1>2, <3>1
  <2> QED
    BY <2>1, <2>2
<1>4. ASSUME ~EndsLine(b, n) PROVE Begun(n, b + 1, more)
  <2>1. r < 15 /\ ~(b + 1 >= n)
    BY <1>4 DEF EndsLine
  <2>2. (b + 1) % 16 = r + 1
    BY <2>1, Sixteen
  <2>3. Len(more) = (b + 1) % 16
    BY <1>2, <2>2, Zenon
  <2>4. \A j \in 1..Len(more) : more[j] = b + 1 - Len(more) + j - 1
    BY <1>2, <1>3
  <2>5. PICK i : i = b + 1
    OBVIOUS
  <2>6. ~(i >= n) /\ Len(more) = i % 16 /\ \A j \in 1..Len(more) : more[j] = i - Len(more) + j - 1
    BY <2>1, <2>3, <2>4, <2>5
  <2>7. Begun(n, i, more)
    BY <1>2, <2>6, Zenon DEF Begun
  <2> QED
    BY <2>5, <2>7, Zenon
<1> QED
  BY <1>2, <1>3, <1>4, Zenon DEF Longer

(* The bytes of all lines are one more.                                    *)
LEMMA ByteDumped ==
    ASSUME NEW b \in Nat, NEW F \in Seq(Nat), NEW hex \in Seq(Nat), NEW s, s = F \o hex,
           UpTo(b, s), NEW t, t = F \o Append(hex, b), NEW i, i = b + 1
    PROVE  UpTo(i, t)
<1>1. s \in Seq(Nat)
  BY JoinIs, Zenon
<1>2. t \in Seq(Nat)
  BY AppendIs, JoinIs, Zenon
<1>3. t = Append(s, b)
  BY JoinGrows
<1>4. DOMAIN s = 1..b /\ \A j \in 1..b : s[j] = j - 1
  BY DEF UpTo
<1>5. Len(s) = b
  <2>1. DOMAIN s = 1..Len(s) /\ Len(s) \in Nat
    BY <1>1
  <2> QED
    BY <1>4, <2>1
<1>6. DOMAIN t = 1..i
  BY <1>1, <1>3, <1>5
<1>7. ASSUME NEW j \in 1..i PROVE t[j] = j - 1
  <2>1. CASE j = i
    BY <1>1, <1>3, <1>5, <2>1
  <2>2. CASE j # i
    <3>1. j \in 1..b
      BY <2>2
    <3> QED
      BY <1>1, <1>3, <1>4, <1>5, <3>1
  <2> QED
    BY <2>1, <2>2
<1>8. t = [j \in DOMAIN t |-> t[j]]
  <2>1. DOMAIN t = 1..Len(t)
    BY <1>2
  <2> QED
    BY <1>2, <2>1, SeqIsFunction, Zenon
<1> QED
  BY <1>6, <1>7, <1>8, Zenon DEF UpTo

(* One byte more.                                                          *)
LEMMA DumpInvByte ==
    ASSUME NEW n \in Nat, NEW b \in Nat, b < n, NEW a, DumpInv(n, b, a), NEW e, e = Byte(n, a, b)
    PROVE  DumpInv(n, b + 1, e)
<1>1. Begun(n, b, a.hex) /\ a.out \in Seq(LineSet) /\ Dumped(b, a.hex, a.out)
      /\ \A k \in 1..Len(a.out) : InColumn(a.out[k])
  BY Zenon DEF DumpInv
<1>2. PICK hex \in Seq(Nat) : hex = a.hex
  BY <1>1, Zenon DEF Begun
<1>3. PICK out \in Seq(LineSet) : out = a.out
  BY <1>1, Zenon
<1>4. PICK r \in 0..15 : r = b % 16
  BY Sixteen
<1>5. PICK more \in Seq(Nat) : more = Append(hex, b)
  BY AppendIs, Zenon
<1>6. /\ Len(more) = r + 1 /\ \A j \in 1..(r + 1) : more[j] = b - r + j - 1
      /\ ~EndsLine(b, n) => Begun(n, b + 1, more)
  <2>1. Begun(n, b, hex)
    BY <1>1, <1>2, Zenon
  <2>2. Longer(n, b, r, more)
    BY <1>4, <1>5, <2>1, ByteBegun, Zenon
  <2> QED
    BY <1>4, <1>5, <2>1, <2>2, Zenon DEF Longer
<1>7. PICK i \in Nat : i = b + 1
  OBVIOUS
<1>8. PICK H \in Seq(Seq(Nat)) : H = Hexes(out)
  BY HexesAre, Zenon
<1>9. PICK F \in Seq(Nat) : F = FlattenSeq(H) /\ \A x \in Seq(Nat) : FlattenSeq(Append(H, x)) = F \o x
  <2>1. <<>> \in Seq(Nat)
    OBVIOUS
  <2>2. FlattenSeq(H) \in Seq(Nat)
    BY <2>1, FlattenAppend, Zenon
  <2> QED
    BY <2>2, FlattenAppend, Zenon
<1>10. UpTo(i, F \o more)
  <2>1. UpTo(b, F \o hex)
    BY <1>1, <1>2, <1>3, <1>8, <1>9, Zenon DEF Dumped
  <2> QED
    BY <1>5, <1>7, <2>1, ByteDumped, Zenon
<1>11. CASE ~EndsLine(b, n)
  <2>1. e = [hex |-> more, out |-> out]
    BY <1>2, <1>3, <1>5, <1>11, Zenon DEF Byte
  <2>2. e.hex = more /\ e.out = out
    BY <2>1
  <2>3. Dumped(i, more, out)
    BY <1>8, <1>9, <1>10, Zenon DEF Dumped
  <2>4. Begun(n, i, more)
    BY <1>6, <1>7, <1>11, Zenon
  <2> QED
    BY <1>1, <1>3, <1>7, <2>2, <2>3, <2>4, Zenon DEF DumpInv
<1>12. CASE EndsLine(b, n)
  <2>1. PICK gap \in Int : gap = IF b >= n - 1 THEN (15 - (b % 16)) * 3 ELSE 0
    BY <1>4
  <2>2. PICK ascii : ascii = [j \in 1..((b % 16) + 1) |-> b - (b % 16) + j - 1]
    OBVIOUS
  <2>3. ascii = more
    <3>1. more = [j \in DOMAIN more |-> more[j]] /\ DOMAIN more = 1..(r + 1)
      BY <1>6
    <3>2. ascii = [j \in 1..(r + 1) |-> b - r + j - 1]
      BY <1>4, <2>2, Zenon
    <3> QED
      BY <1>6, <3>1, <3>2, Zenon
  <2>4. PICK line : line = [hex |-> more, gap |-> gap, ascii |-> ascii]
    OBVIOUS
  <2>5. line.hex = more /\ line.gap = gap /\ line.ascii = more
    BY <2>3, <2>4
  <2>6. line \in LineSet
    BY <2>1, <2>3, <2>4, Zenon DEF LineSet
  <2>7. InColumn(line)
    <3>1. r < 15 => b >= n - 1
      BY <1>4, <1>12 DEF EndsLine
    <3>2. 3 * (r + 1) + gap = 48
      BY <1>4, <2>1, <3>1
    <3> QED
      BY <1>6, <2>5, <3>2, Zenon DEF InColumn
  <2>8. PICK lines \in Seq(LineSet) : lines = Append(out, line)
    BY <2>6, AppendIs, Zenon
  <2>9. PICK none \in Seq(Nat) : none = <<>> /\ Len(none) = 0
    <3>1. <<>> \in Seq(Nat) /\ Len(<<>>) = 0
      OBVIOUS
    <3> QED
      BY <3>1, Zenon
  <2>10. e = [hex |-> none, out |-> lines]
    <3>1. e = [hex |-> <<>>,
               out |-> Append(a.out, [hex |-> Append(a.hex, b),
                           gap |-> IF b >= n - 1 THEN (15 - (b % 16)) * 3 ELSE 0,
                           ascii |-> [j \in 1..((b % 16) + 1) |-> b - (b % 16) + j - 1]])]
      BY <1>12, Zenon DEF Byte
    <3>2. e = [hex |-> <<>>,
               out |-> Append(out, [hex |-> more, gap |-> gap, ascii |-> ascii])]
      BY <1>2, <1>3, <1>5, <2>1, <2>2, <3>1, Zenon
    <3> QED
      BY <2>4, <2>8, <2>9, <3>2, Zenon
  <2>11. e.hex = none /\ e.out = lines
    BY <2>10
  <2>12. Begun(n, i, none)
    <3>1. i < n => r = 15
      BY <1>4, <1>7, <1>12 DEF EndsLine
    <3>2. r = 15 => i % 16 = 0
      BY <1>4, <1>7, Sixteen
    <3>3. ~(i >= n) => i % 16 = 0
      BY <3>1, <3>2
    <3>4. \A j \in 1..Len(none) : none[j] = i - Len(none) + j - 1
      BY <2>9
    <3> QED
      BY <2>9, <3>3, <3>4, Zenon DEF Begun
  <2>13. Dumped(i, none, lines)
    <3>1. Hexes(lines) = Append(H, more)
      BY <1>8, <2>5, <2>6, <2>8, HexesGrow, Zenon
    <3>2. FlattenSeq(Hexes(lines)) = F \o more
      BY <1>9, <3>1, Zenon
    <3>3. PICK G \in Seq(Nat) : G = F \o more
      BY JoinIs, Zenon
    <3>4. G \o none = G
      BY <2>9
    <3> QED
      BY <1>10, <3>2, <3>3, <3>4, Zenon DEF Dumped
  <2>14. \A k \in 1..Len(lines) : InColumn(lines[k])
    BY <1>1, <1>3, <2>6, <2>7, <2>8, ColumnGrows, Zenon
  <2> QED
    BY <1>7, <2>8, <2>11, <2>12, <2>13, <2>14, Zenon DEF DumpInv
<1> QED
  BY <1>11, <1>12, Zenon

(* What DumpIsComplete says of the lines of n bytes.                       *)
Complete(n, lines) ==
    /\ FlattenSeq([i \in 1..Len(lines) |-> lines[i].hex]) = [i \in 1..n |-> i - 1]
    /\ \A i \in 1..Len(lines) : InColumn(lines[i])

(* It is true of the lines of every n.                                     *)
LEMMA LinesAre ==
    ASSUME NEW n \in Nat, NEW lines, lines = Lines(n)
    PROVE  Complete(n, lines)
<1>1. PICK f : /\ f[0] = DumpStart /\ f[n].out = Lines(n)
               /\ \A i \in 1..n : f[i] = Byte(n, f[i - 1], i - 1)
  BY LinesIs
<1> DEFINE Bad == {i \in 0..n : ~DumpInv(n, i, f[i])}
<1>2. Bad = {}
  <2> SUFFICES ASSUME Bad # {} PROVE FALSE
    OBVIOUS
  <2>1. PICK i \in Bad : \A m \in Bad : i <= m
    <3>1. Bad \in SUBSET Nat
      OBVIOUS
    <3> QED
      BY <3>1, LeastNat
  <2>2. i \in 0..n /\ ~DumpInv(n, i, f[i])
    OBVIOUS
  <2>3. i # 0
    BY <1>1, <2>2, DumpInvStart, Zenon
  <2>4. PICK b \in Nat : b = i - 1
    BY <2>2, <2>3
  <2>5. b \in 0..n /\ i \in 1..n /\ b < n /\ i = b + 1 /\ ~(i <= b)
    BY <2>2, <2>3, <2>4
  <2>6. DumpInv(n, b, f[b])
    BY <2>1, <2>5, Zenon
  <2>7. f[i] = Byte(n, f[b], b)
    BY <1>1, <2>4, <2>5, Zenon
  <2>8. DumpInv(n, b + 1, f[i])
    BY <2>5, <2>6, <2>7, DumpInvByte, Zenon
  <2> QED
    BY <2>2, <2>5, <2>8, Zenon
<1>3. DumpInv(n, n, f[n])
  <2>1. n \in 0..n
    OBVIOUS
  <2> QED
    BY <1>2, <2>1, Zenon
<1>4. PICK a : a = f[n]
  OBVIOUS
<1>5. lines = a.out /\ lines \in Seq(LineSet) /\ Begun(n, n, a.hex) /\ Dumped(n, a.hex, lines)
      /\ \A k \in 1..Len(lines) : InColumn(lines[k])
  BY <1>1, <1>3, <1>4, Zenon DEF DumpInv
<1>6. PICK hex \in Seq(Nat) : hex = a.hex
  BY <1>5, Zenon DEF Begun
<1>7. Len(hex) = 0
  <2>1. n >= n
    OBVIOUS
  <2> QED
    BY <1>5, <1>6, <2>1, Zenon DEF Begun
<1>8. PICK G \in Seq(Nat) : G = FlattenSeq(Hexes(lines))
  <2>1. <<>> \in Seq(Nat)
    OBVIOUS
  <2> QED
    BY <1>5, <2>1, HexesAre, FlattenAppend, Zenon
<1>9. G \o hex = G
  BY <1>7
<1>10. G = [j \in 1..n |-> j - 1]
  BY <1>5, <1>6, <1>8, <1>9, Zenon DEF Dumped, UpTo
<1> QED
  BY <1>5, <1>8, <1>10, Zenon DEF Hexes, Complete

(* Only dump makes a dump.                                                 *)
LEMMA DumpStep == DumpIsComplete /\ [Next]_vars => DumpIsComplete'
<1> SUFFICES ASSUME DumpIsComplete, [Next]_vars PROVE DumpIsComplete'
  OBVIOUS
<1>1. ASSUME NEW n \in Frames, NEW trace \in BOOLEAN, NEW found \in BOOLEAN,
             SetPosition(n, trace, found)
      PROVE  DumpIsComplete'
  <2>1. made' = None
    BY <1>1, Zenon DEF SetPosition
  <2>2. made'.kind # "dump"
    BY <2>1 DEF None
  <2> QED
    BY <2>2, Zenon DEF DumpIsComplete
<1>2. ASSUME NEW t \in Tokens, NEW w \in WidthArgs(t), NEW p \in PrecisionArgs(t),
             NEW null \in Nulls(t), Token(t, w, p, null)
      PROVE  DumpIsComplete'
  <2>1. made' = None
    BY <1>2, Zenon DEF Token
  <2>2. made'.kind # "dump"
    BY <2>1 DEF None
  <2> QED
    BY <2>2, Zenon DEF DumpIsComplete
<1>3. ASSUME NEW text \in Texts, NEW symbol \in Symbols, Flush(text, symbol) PROVE DumpIsComplete'
  <2>1. PICK j : j = Json(symbol, text)
    OBVIOUS
  <2>2. made' = [kind |-> "frame", text |-> text, symbol |-> symbol, json |-> j]
    BY <1>3, <2>1, Zenon DEF Flush
  <2>3. made'.kind # "dump"
    BY <2>2
  <2> QED
    BY <2>3, Zenon DEF DumpIsComplete
<1>4. ASSUME NEW n \in Dumps, NEW frames \in Frames, Dump(n, frames) PROVE DumpIsComplete'
  <2>1. PICK l : l = Lines(n)
    OBVIOUS
  <2>2. made' = [kind |-> "dump", n |-> n, lines |-> l]
    BY <1>4, <2>1, Zenon DEF Dump
  <2>3. made'.n = n /\ made'.lines = l
    BY <2>2, Zenon
  <2>4. n \in Nat
    BY LogTextAssumption, Zenon
  <2>5. Complete(n, l)
    BY <2>1, <2>4, LinesAre, Zenon
  <2> QED
    BY <2>3, <2>5, Zenon DEF DumpIsComplete, InColumn, Complete
<1>5. CASE UNCHANGED vars
  BY <1>5, Zenon DEF DumpIsComplete, vars
<1> QED
  BY <1>1, <1>2, <1>3, <1>4, <1>5 DEF Next

(* Whatever its size, a dump shows every byte once in hexadecimal and once *)
(* as a character, in order, on one line both, and the characters of all   *)
(* lines, the last and shorter one too, are in one column.                 *)
THEOREM DumpIsCompleteEver == Spec => []DumpIsComplete
<1>1. Init => DumpIsComplete
  <2>1. Init => made.kind = "none"
    <3>1. Init => made = [kind |-> "none"]
      BY Zenon DEF Init, None
    <3> QED
      BY <3>1
  <2>2. "none" # "dump"
    OBVIOUS
  <2> QED
    BY <2>1, <2>2, Zenon DEF DumpIsComplete
<1>2. DumpIsComplete /\ [Next]_vars => DumpIsComplete'
  BY DumpStep
<1> QED
  BY <1>1, <1>2, PTL DEF Spec

-----------------------------------------------------------------------------
(* The frame that the server reads.                                        *)

(* Chars, one by one.                                                      *)
LEMMA CharsAre ==
    Chars = {"plain", "n", "quote", "backslash", "slash", "newline", "raw"}
BY DEF Chars

(* The reader in the string w, after the strings of pre.                   *)
At(mode, pre, w) == [mode |-> mode, strings |-> Append(pre, w)]

(* The last of several strings has become v.                               *)
LastSet(ss, pre, w, v) ==
    ss[Len(ss)] = w /\ [ss EXCEPT ![Len(ss)] = v] = Append(pre, v)

(* One character more in the last string of several.                       *)
LEMMA LastGrows ==
    ASSUME NEW X, NEW pre \in Seq(X), NEW w \in X, NEW v \in X, NEW ss, ss = Append(pre, w)
    PROVE  LastSet(ss, pre, w, v)
<1>1. PICK m \in Nat : m = Len(pre)
  OBVIOUS
<1>2. ss \in Seq(X) /\ Len(ss) = m + 1 /\ ss[m + 1] = w /\ \A i \in 1..m : ss[i] = pre[i]
  BY <1>1
<1>3. PICK tt : tt = [ss EXCEPT ![Len(ss)] = v]
  OBVIOUS
<1>4. DOMAIN ss = 1..(m + 1)
  BY <1>2
<1>5. DOMAIN tt = 1..(m + 1) /\ tt = [i \in 1..(m + 1) |-> tt[i]]
  BY <1>3, <1>4
<1>6. tt[m + 1] = v /\ \A i \in 1..m : tt[i] = ss[i]
  <2>1. PICK k : k = Len(ss) /\ k = m + 1
    BY <1>2
  <2>2. tt = [ss EXCEPT ![k] = v] /\ k \in DOMAIN ss
    BY <1>3, <1>4, <2>1
  <2>3. tt[k] = v
    BY <2>2
  <2>4. ASSUME NEW i \in 1..m PROVE tt[i] = ss[i]
    <3>1. i # k /\ i \in DOMAIN ss
      BY <1>4, <2>1
    <3> QED
      BY <2>2, <3>1
  <2> QED
    BY <2>1, <2>3, <2>4
<1>7. ASSUME NEW i \in 1..(m + 1) PROVE tt[i] \in X
  <2>1. CASE i = m + 1
    BY <1>6, <2>1
  <2>2. CASE i # m + 1
    <3>1. i \in 1..m
      BY <2>2
    <3>2. ss[i] \in X
      BY <1>2
    <3> QED
      BY <1>6, <3>1, <3>2, Zenon
  <2> QED
    BY <2>1, <2>2
<1>8. PICK k \in Nat : k = m + 1
  OBVIOUS
<1>9. tt \in Seq(X) /\ Len(tt) = m + 1
  <2>1. DOMAIN tt = 1..k /\ tt = [i \in 1..k |-> tt[i]] /\ \A i \in 1..k : tt[i] \in X
    BY <1>5, <1>7, <1>8, Zenon
  <2>2. tt \in Seq(X) /\ Len(tt) = k
    BY <2>1, FunctionIsSeq, Zenon
  <2> QED
    BY <1>8, <2>2, Zenon
<1>10. PICK uu \in Seq(X) : uu = Append(pre, v)
  BY AppendIs, Zenon
<1>11. Len(uu) = m + 1 /\ uu[m + 1] = v /\ \A i \in 1..m : uu[i] = pre[i]
  BY <1>1, <1>10
<1>12. ASSUME NEW i \in 1..(m + 1) PROVE tt[i] = uu[i]
  <2>1. CASE i = m + 1
    BY <1>6, <1>11, <2>1
  <2>2. CASE i # m + 1
    <3>1. i \in 1..m
      BY <2>2
    <3> QED
      BY <1>2, <1>6, <1>11, <3>1, Zenon
  <2> QED
    BY <2>1, <2>2
<1>13. tt = uu
  BY <1>9, <1>11, <1>12, SameSeq
<1>14. ss[Len(ss)] = w
  BY <1>2
<1> QED
  BY <1>3, <1>10, <1>13, <1>14, Zenon DEF LastSet

(* A quote begins a string.                                                *)
LEMMA ReadOpen ==
    ASSUME NEW pre, NEW r, r = [mode |-> "out", strings |-> pre]
    PROVE  ReadChar(r, "quote") = At("in", pre, <<>>)
<1>1. r.mode = "out" /\ r.strings = pre
  OBVIOUS
<1>2. r.mode # "error"
  BY <1>1
<1> QED
  BY <1>1, <1>2, Zenon DEF ReadChar, At

(* A quote ends the string.                                                *)
LEMMA ReadClose ==
    ASSUME NEW pre \in Seq(Seq(Chars)), NEW w \in Seq(Chars), NEW r, r = At("in", pre, w)
    PROVE  ReadChar(r, "quote") = [mode |-> "out", strings |-> Append(pre, w)]
<1>0. PICK ss : ss = Append(pre, w)
  OBVIOUS
<1>r. r = [mode |-> "in", strings |-> ss]
  BY <1>0, Zenon DEF At
<1>1. r = [mode |-> "in", strings |-> ss] /\ r.mode = "in" /\ r.strings = ss
  BY <1>r
<1>2. r.mode # "error" /\ r.mode # "out"
  BY <1>1
<1>3. ReadChar(r, "quote") = [r EXCEPT !.mode = "out"]
  BY <1>1, <1>2, Zenon DEF ReadChar
<1>4. [r EXCEPT !.mode = "out"] = [mode |-> "out", strings |-> ss]
  BY <1>1
<1> QED
  BY <1>0, <1>3, <1>4, Zenon

(* A backslash in a string is half a character.                            *)
LEMMA ReadBackslash ==
    ASSUME NEW pre \in Seq(Seq(Chars)), NEW w \in Seq(Chars), NEW r, r = At("in", pre, w)
    PROVE  ReadChar(r, "backslash") = At("escape", pre, w)
<1>0. PICK ss : ss = Append(pre, w)
  OBVIOUS
<1>r. r = [mode |-> "in", strings |-> ss]
  BY <1>0, Zenon DEF At
<1>1. r = [mode |-> "in", strings |-> ss] /\ r.mode = "in" /\ r.strings = ss
  BY <1>r
<1>2. r.mode # "error" /\ r.mode # "out" /\ "backslash" # "quote"
  BY <1>1
<1>3. ReadChar(r, "backslash") = [r EXCEPT !.mode = "escape"]
  BY <1>1, <1>2, Zenon DEF ReadChar
<1>4. [r EXCEPT !.mode = "escape"] = [mode |-> "escape", strings |-> ss]
  BY <1>1
<1> QED
  BY <1>0, <1>3, <1>4, Zenon DEF At

(* Any other character but a control character stands for itself.          *)
LEMMA ReadPlain ==
    ASSUME NEW pre \in Seq(Seq(Chars)), NEW w \in Seq(Chars), NEW r, r = At("in", pre, w),
           NEW c \in Chars, c \notin {"quote", "backslash", "newline", "raw"}
    PROVE  ReadChar(r, c) = At("in", pre, Append(w, c))
<1>0. PICK ss : ss = Append(pre, w)
  OBVIOUS
<1>r. r = [mode |-> "in", strings |-> ss]
  BY <1>0, Zenon DEF At
<1>1. r = [mode |-> "in", strings |-> ss] /\ r.mode = "in" /\ r.strings = ss
  BY <1>r
<1>2. r.mode # "error" /\ r.mode # "out"
  BY <1>1
<1>3. c # "quote" /\ c # "backslash" /\ c \notin {"raw", "newline"}
  OBVIOUS
<1>4. PICK e : e = [r EXCEPT !.strings[Len(r.strings)] = Append(@, c)]
  OBVIOUS
<1>5. ReadChar(r, c) = e
  BY <1>1, <1>2, <1>3, <1>4, Zenon DEF ReadChar
<1>6. PICK m : m = Len(ss)
  OBVIOUS
<1>7. PICK tt : tt = [ss EXCEPT ![m] = Append(ss[m], c)]
  OBVIOUS
<1>8. e = [mode |-> "in", strings |-> tt]
  <2>1. e = [r EXCEPT !.strings[m] = Append(r.strings[m], c)]
    BY <1>1, <1>4, <1>6
  <2> QED
    BY <1>1, <1>7, <2>1
<1>9. tt = Append(pre, Append(w, c))
  <2>1. PICK v \in Seq(Chars) : v = Append(w, c)
    BY AppendIs, Zenon
  <2>2. LastSet(ss, pre, w, v)
    BY <1>0, LastGrows, Zenon
  <2>3. ss[m] = w /\ [ss EXCEPT ![m] = v] = Append(pre, v)
    BY <1>6, <2>2, Zenon DEF LastSet
  <2> QED
    BY <1>7, <2>1, <2>3, Zenon
<1> QED
  BY <1>5, <1>8, <1>9, Zenon DEF At

(* The characters that may follow a backslash, and what they stand for.    *)
Escapes == {"quote", "backslash", "slash", "n"}

Unescaped(c) == IF c = "n" THEN "newline" ELSE c

(* After a backslash, a character stands for itself or for a newline.      *)
LEMMA ReadEscape ==
    ASSUME NEW pre \in Seq(Seq(Chars)), NEW w \in Seq(Chars), NEW r, r = At("escape", pre, w),
           NEW c \in Escapes,
           NEW d \in Chars, d = Unescaped(c)
    PROVE  ReadChar(r, c) = At("in", pre, Append(w, d))
<1>0. PICK ss : ss = Append(pre, w)
  OBVIOUS
<1>r. r = [mode |-> "escape", strings |-> ss]
  BY <1>0, Zenon DEF At
<1>1. r = [mode |-> "escape", strings |-> ss] /\ r.mode = "escape" /\ r.strings = ss
  BY <1>r
<1>2. r.mode # "error" /\ r.mode # "out" /\ r.mode # "in"
  BY <1>1
<1>3. ReadChar(r, c) = [mode |-> "in", strings |-> [r.strings EXCEPT ![Len(r.strings)] =
                     Append(@, IF c = "n" THEN "newline" ELSE c)]]
  BY <1>1, <1>2, Zenon DEF ReadChar, Escapes
<1>4. PICK m : m = Len(ss)
  OBVIOUS
<1>5. PICK tt : tt = [ss EXCEPT ![m] = Append(ss[m], d)]
  OBVIOUS
<1>6. ReadChar(r, c) = [mode |-> "in", strings |-> tt]
  BY <1>1, <1>3, <1>4, <1>5, Zenon DEF Unescaped
<1>7. tt = Append(pre, Append(w, d))
  <2>1. PICK v \in Seq(Chars) : v = Append(w, d)
    BY AppendIs, Zenon
  <2>2. LastSet(ss, pre, w, v)
    BY <1>0, LastGrows, Zenon
  <2>3. ss[m] = w /\ [ss EXCEPT ![m] = v] = Append(pre, v)
    BY <1>4, <2>2, Zenon DEF LastSet
  <2> QED
    BY <1>5, <2>1, <2>3, Zenon
<1> QED
  BY <1>6, <1>7, Zenon DEF At

(* What is written for a character.                                        *)
LEMMA EscapeIs ==
    ASSUME NEW c \in Chars
    PROVE  /\ Escape(c) \in Seq(Chars)
           /\ c \in {"quote", "backslash", "slash"} => Escape(c) = <<"backslash", c>>
           /\ c = "newline" => Escape(c) = <<"backslash", "n">>
           /\ c \notin {"quote", "backslash", "slash", "newline"} => Escape(c) = <<c>>
<1>1. "backslash" \in Chars /\ "n" \in Chars /\ "newline" \notin {"quote", "backslash", "slash"}
  BY CharsAre
<1>2. CASE c \in {"quote", "backslash", "slash"}
  <2>1. Escape(c) = <<"backslash", c>> /\ c # "newline"
    BY <1>1, <1>2, Zenon DEF Escape
  <2>2. <<"backslash", c>> \in Seq(Chars)
    BY <1>1
  <2> QED
    BY <1>2, <2>1, <2>2, Zenon
<1>3. CASE c = "newline"
  <2>1. Escape(c) = <<"backslash", "n">>
    BY <1>1, <1>3, Zenon DEF Escape
  <2>2. <<"backslash", "n">> \in Seq(Chars)
    BY <1>1
  <2> QED
    BY <1>1, <1>3, <2>1, <2>2, Zenon
<1>4. CASE c \notin {"quote", "backslash", "slash"} /\ c # "newline"
  <2>1. Escape(c) = <<c>>
    BY <1>4, Zenon DEF Escape
  <2>2. <<c>> \in Seq(Chars)
    OBVIOUS
  <2> QED
    BY <1>4, <2>1, <2>2, Zenon
<1> QED
  BY <1>2, <1>3, <1>4, Zenon

(* What is written for the characters of a text, one by one.               *)
Pieces(text) == [i \in 1..Len(text) |-> Escape(text[i])]

(* They are as many.                                                       *)
LEMMA PiecesAre ==
    ASSUME NEW text \in Seq(Chars)
    PROVE  Pieces(text) \in Seq(Seq(Chars)) /\ Len(Pieces(text)) = Len(text)
<1>1. PICK k \in Nat : k = Len(text)
  OBVIOUS
<1>2. PICK s : s = [i \in 1..k |-> Escape(text[i])]
  OBVIOUS
<1>3. PICK X : X = Seq(Chars)
  OBVIOUS
<1>4. ASSUME NEW i \in 1..k PROVE s[i] \in X
  <2>1. text[i] \in Chars
    BY <1>1
  <2> QED
    BY <1>2, <1>3, <2>1, EscapeIs, Zenon
<1>5. DOMAIN s = 1..k /\ s = [i \in 1..k |-> s[i]]
  BY <1>2
<1>6. s \in Seq(X) /\ Len(s) = k
  BY <1>4, <1>5, FunctionIsSeq
<1> QED
  BY <1>1, <1>2, <1>3, <1>6, Zenon DEF Pieces

(* They grow with the text.                                                *)
LEMMA PiecesGrow ==
    ASSUME NEW text \in Seq(Chars), NEW c \in Chars
    PROVE  Pieces(Append(text, c)) = Append(Pieces(text), Escape(c))
<1>1. PICK k \in Nat : k = Len(text)
  OBVIOUS
<1>2. PICK X : X = Seq(Chars)
  OBVIOUS
<1>3. PICK t \in Seq(Chars) : t = Append(text, c)
  BY AppendIs, Zenon
<1>4. Len(t) = k + 1 /\ t[k + 1] = c /\ \A i \in 1..k : t[i] = text[i]
  BY <1>1, <1>3
<1>5. PICK s \in Seq(X) : s = Pieces(text) /\ Len(s) = k
  BY <1>1, <1>2, PiecesAre, Zenon
<1>6. PICK u \in Seq(X) : u = Pieces(t) /\ Len(u) = k + 1
  BY <1>2, <1>4, PiecesAre, Zenon
<1>7. PICK x \in X : x = Escape(c)
  BY <1>2, EscapeIs, Zenon
<1>8. s = [i \in 1..k |-> Escape(text[i])] /\ u = [i \in 1..(k + 1) |-> Escape(t[i])]
  BY <1>1, <1>4, <1>5, <1>6, Zenon DEF Pieces
<1>9. PICK v \in Seq(X) : v = Append(s, x)
  BY AppendIs, Zenon
<1>10. Len(v) = k + 1 /\ v[k + 1] = x /\ \A i \in 1..k : v[i] = s[i]
  BY <1>5, <1>9
<1>11. ASSUME NEW i \in 1..(k + 1) PROVE u[i] = v[i]
  <2>1. u[i] = Escape(t[i])
    BY <1>8, Zenon
  <2>2. CASE i = k + 1
    BY <1>4, <1>7, <1>10, <2>1, <2>2, Zenon
  <2>3. CASE i # k + 1
    <3>1. i \in 1..k
      BY <2>3
    <3>2. s[i] = Escape(text[i])
      BY <1>8, <3>1, Zenon
    <3> QED
      BY <1>4, <1>10, <2>1, <3>1, <3>2, Zenon
  <2> QED
    BY <2>2, <2>3
<1>12. u = v
  BY <1>6, <1>10, <1>11, SameSeq
<1> QED
  BY <1>3, <1>5, <1>6, <1>7, <1>9, <1>12, Zenon

(* Of an empty text nothing is written.                                    *)
LEMMA EscapedIs == Escaped(<<>>) = <<>>
<1>1. PICK e : e = <<>> /\ Len(e) = 0
  OBVIOUS
<1>2. [i \in 1..Len(e) |-> Escape(e[i])] = <<>>
  BY <1>1
<1> QED
  BY <1>1, <1>2, FlattenEmpty, Zenon DEF Escaped

(* A text is escaped character by character.                               *)
LEMMA EscapedGrows ==
    ASSUME NEW text \in Seq(Chars), NEW c \in Chars
    PROVE  /\ Escaped(Append(text, c)) = Escaped(text) \o Escape(c)
           /\ Escaped(text) \in Seq(Chars)
<1>1. PICK s \in Seq(Seq(Chars)) : s = Pieces(text)
  BY PiecesAre, Zenon
<1>2. PICK x \in Seq(Chars) : x = Escape(c)
  BY EscapeIs, Zenon
<1>3. Escaped(text) = FlattenSeq(s)
  BY <1>1, Zenon DEF Escaped, Pieces
<1>4. Escaped(Append(text, c)) = FlattenSeq(Append(s, x))
  <2>1. Pieces(Append(text, c)) = Append(s, x)
    BY <1>1, <1>2, PiecesGrow, Zenon
  <2> QED
    BY <2>1, Zenon DEF Escaped, Pieces
<1>5. FlattenSeq(Append(s, x)) = FlattenSeq(s) \o x /\ FlattenSeq(s) \in Seq(Chars)
  BY FlattenAppend, Zenon
<1> QED
  BY <1>2, <1>3, <1>4, <1>5, Zenon

(* The reader is in the string w after the text s.                         *)
ReadTo(s, pre, w) == s \in Seq(Chars) /\ Read(s) = At("in", pre, w)

(* A character of a symbol is read as it is.                               *)
LEMMA PlainIsRead ==
    ASSUME NEW pre \in Seq(Seq(Chars)), NEW w \in Seq(Chars), NEW s, ReadTo(s, pre, w),
           NEW c \in Chars, c \notin {"quote", "backslash", "newline", "raw"}
    PROVE  ReadTo(Append(s, c), pre, Append(w, c))
<1>1. s \in Seq(Chars) /\ Read(s) = At("in", pre, w)
  BY Zenon DEF ReadTo
<1>2. PICK r : r = At("in", pre, w)
  OBVIOUS
<1>3. ReadChar(r, c) = At("in", pre, Append(w, c))
  BY <1>2, ReadPlain, Zenon
<1>4. Read(Append(s, c)) = ReadChar(r, c)
  BY <1>1, <1>2, ReadAppend, Zenon
<1>5. Append(s, c) \in Seq(Chars)
  BY <1>1, AppendIs, Zenon
<1> QED
  BY <1>3, <1>4, <1>5, Zenon DEF ReadTo

(* A character that has been escaped is read as what it was.               *)
LEMMA EscapedIsRead ==
    ASSUME NEW pre \in Seq(Seq(Chars)), NEW w \in Seq(Chars), NEW s, ReadTo(s, pre, w),
           NEW c \in Chars, c # "raw"
    PROVE  ReadTo(s \o Escape(c), pre, Append(w, c))
<1>1. s \in Seq(Chars) /\ Read(s) = At("in", pre, w)
  BY Zenon DEF ReadTo
<1>2. ASSUME NEW d \in Escapes, c = Unescaped(d),
             Escape(c) = <<"backslash", d>>
      PROVE  ReadTo(s \o Escape(c), pre, Append(w, c))
  <2>1. PICK b \in Chars : b = "backslash"
    BY CharsAre
  <2>2. PICK r : r = At("in", pre, w)
    OBVIOUS
  <2>3. PICK t \in Seq(Chars) : t = Append(s, b)
    BY <1>1, AppendIs, Zenon
  <2>4. PICK q : q = At("escape", pre, w)
    OBVIOUS
  <2>5. Read(t) = q
    <3>1. Read(t) = ReadChar(r, b)
      BY <1>1, <2>2, <2>3, ReadAppend, Zenon
    <3>2. ReadChar(r, "backslash") = q
      BY <2>2, <2>4, ReadBackslash, Zenon
    <3> QED
      BY <2>1, <3>1, <3>2, Zenon
  <2>6. PICK e \in Chars : e = d
    BY CharsAre DEF Escapes
  <2>7. Read(Append(t, e)) = At("in", pre, Append(w, c))
    <3>1. Read(Append(t, e)) = ReadChar(q, e)
      BY <2>5, ReadAppend, Zenon
    <3>2. ReadChar(q, d) = At("in", pre, Append(w, c))
      <4>1. d \in Escapes /\ c = Unescaped(d)
        BY <1>2
      <4> QED
        BY <2>4, <4>1, ReadEscape
    <3> QED
      BY <2>6, <3>1, <3>2, Zenon
  <2>8. s \o <<b, e>> = Append(t, e)
    BY <1>1, <2>3
  <2>9. Append(t, e) \in Seq(Chars)
    BY AppendIs, Zenon
  <2>10. s \o Escape(c) = Append(t, e)
    BY <1>2, <2>1, <2>6, <2>8, Zenon
  <2> QED
    BY <2>7, <2>9, <2>10, Zenon DEF ReadTo
<1>3. CASE c \in {"quote", "backslash", "slash"}
  <2>1. c \in Escapes /\ c # "n"
    BY <1>3 DEF Escapes
  <2>2. Escape(c) = <<"backslash", c>>
    BY <1>3, EscapeIs, Zenon
  <2> QED
    BY <1>2, <2>1, <2>2, Zenon DEF Unescaped
<1>4. CASE c = "newline"
  <2>1. Escape(c) = <<"backslash", "n">>
    BY <1>4, EscapeIs, Zenon
  <2>2. PICK d \in Escapes : d = "n"
    BY DEF Escapes
  <2> QED
    BY <1>2, <1>4, <2>1, <2>2, Zenon DEF Unescaped
<1>5. CASE c \notin {"quote", "backslash", "slash", "newline"}
  <2>1. Escape(c) = <<c>>
    BY <1>5, EscapeIs, Zenon
  <2>2. s \o <<c>> = Append(s, c)
    BY <1>1
  <2>3. c \notin {"quote", "backslash", "newline", "raw"}
    BY <1>5
  <2>4. ReadTo(Append(s, c), pre, Append(w, c))
    BY <2>3, PlainIsRead, Zenon
  <2> QED
    BY <2>1, <2>2, <2>4, Zenon
<1> QED
  BY <1>3, <1>4, <1>5, Zenon

(* A text up to its k-th character.                                        *)
Prefix(text, k) == SubSeq(text, 1, k)

(* From the empty text to the whole.                                       *)
LEMMA PrefixIs ==
    ASSUME NEW text \in Seq(Chars), NEW N, N = Len(text)
    PROVE  N \in Nat /\ Prefix(text, 0) = <<>> /\ Prefix(text, N) = text
<1>1. N \in Nat /\ Prefix(text, 0) = <<>>
  BY DEF Prefix
<1>2. PICK s \in Seq(Chars) : s = SubSeq(text, 1, N)
  BY <1>1
<1>3. Len(s) = N /\ \A i \in 1..N : s[i] = text[i]
  BY <1>1, <1>2
<1>4. s = text
  BY <1>3, SameSeq
<1> QED
  BY <1>1, <1>2, <1>4, Zenon DEF Prefix

(* By one character each time.                                             *)
LEMMA PrefixGrows ==
    ASSUME NEW text \in Seq(Chars), NEW N \in Nat, N = Len(text), NEW k \in 1..N, NEW m, m = k - 1
    PROVE  /\ Prefix(text, m) \in Seq(Chars) /\ text[k] \in Chars
           /\ Prefix(text, k) = Append(Prefix(text, m), text[k])
<1>0. SubSeq(text, 1, m) \in Seq(Chars) /\ SubSeq(text, 1, k) \in Seq(Chars)
  OBVIOUS
<1>1. PICK s \in Seq(Chars) : s = SubSeq(text, 1, m)
  BY <1>0, Zenon
<1>2. PICK t \in Seq(Chars) : t = SubSeq(text, 1, k)
  BY <1>0, Zenon
<1>3. PICK c \in Chars : c = text[k]
  OBVIOUS
<1>4. PICK u \in Seq(Chars) : u = Append(s, c)
  BY AppendIs, Zenon
<1>5. Len(s) = m /\ \A i \in 1..m : s[i] = text[i]
  BY <1>1
<1>6. Len(t) = k /\ \A i \in 1..k : t[i] = text[i]
  BY <1>2
<1>7. Len(u) = k /\ u[k] = c /\ \A i \in 1..m : u[i] = s[i]
  BY <1>4, <1>5
<1>8. ASSUME NEW i \in 1..k PROVE t[i] = u[i]
  <2>1. CASE i = k
    BY <1>3, <1>6, <1>7, <2>1
  <2>2. CASE i # k
    <3>1. i \in 1..m
      BY <2>2
    <3> QED
      BY <1>5, <1>6, <1>7, <3>1
  <2> QED
    BY <2>1, <2>2
<1>9. t = u
  BY <1>6, <1>7, <1>8, SameSeq
<1> QED
  BY <1>1, <1>2, <1>3, <1>4, <1>9, Zenon DEF Prefix

(* Every character of a text is in its set.                                *)
LEMMA InToSet ==
    ASSUME NEW text \in Seq(Chars), NEW N \in Nat, N = Len(text)
    PROVE  \A i \in 1..N : text[i] \in ToSet(text)
<1>1. DOMAIN text = 1..N
  OBVIOUS
<1>2. ToSet(text) = {text[i] : i \in DOMAIN text}
  BY Zenon DEF ToSet
<1> QED
  BY <1>1, <1>2, Zenon

(* A symbol with nothing to escape is read as it is: by the least beginning*)
(* of it that would not be.                                                *)
LEMMA SymbolIsRead ==
    ASSUME NEW pre \in Seq(Seq(Chars)), NEW s, ReadTo(s, pre, <<>>), NEW symbol \in Seq(Chars),
           ToSet(symbol) \cap {"quote", "backslash", "newline", "raw"} = {}
    PROVE  ReadTo(s \o symbol, pre, symbol)
<1>1. PICK N \in Nat : N = Len(symbol)
  OBVIOUS
<1>2. Prefix(symbol, 0) = <<>> /\ Prefix(symbol, N) = symbol
  BY <1>1, PrefixIs
<1>3. s \in Seq(Chars)
  BY Zenon DEF ReadTo
<1>4. \A i \in 1..N : symbol[i] \notin {"quote", "backslash", "newline", "raw"}
  <2>1. \A i \in 1..N : symbol[i] \in ToSet(symbol)
    BY <1>1, InToSet
  <2> QED
    BY <2>1, Zenon
<1> DEFINE Ok(k) == ReadTo(s \o Prefix(symbol, k), pre, Prefix(symbol, k))
           Bad == {k \in 0..N : ~Ok(k)}
<1>5. Ok(0)
  <2>1. s \o <<>> = s
    BY <1>3
  <2> QED
    BY <1>2, <2>1, Zenon
<1>6. ASSUME NEW k \in 1..N, NEW m, m = k - 1, Ok(m) PROVE Ok(k)
  <2>0. /\ Prefix(symbol, m) \in Seq(Chars) /\ symbol[k] \in Chars
        /\ Prefix(symbol, k) = Append(Prefix(symbol, m), symbol[k])
    BY <1>1, <1>6, PrefixGrows, Zenon
  <2>1. PICK w \in Seq(Chars) : w = Prefix(symbol, m)
    BY <2>0, Zenon
  <2>2. PICK c \in Chars : c = symbol[k] /\ Prefix(symbol, k) = Append(w, c)
    BY <2>0, <2>1, Zenon
  <2>3. c \notin {"quote", "backslash", "newline", "raw"}
    BY <1>4, <2>2, Zenon
  <2>4. PICK t : t = s \o w
    OBVIOUS
  <2>5. ReadTo(t, pre, w)
    BY <1>6, <2>1, <2>4, Zenon
  <2>6. ReadTo(Append(t, c), pre, Append(w, c))
    BY <2>3, <2>5, PlainIsRead, Zenon
  <2>7. s \o Append(w, c) = Append(t, c)
    BY <1>3, <2>4
  <2> QED
    BY <2>2, <2>6, <2>7, Zenon
<1> HIDE DEF Ok
<1>7. Bad = {}
  <2> SUFFICES ASSUME Bad # {} PROVE FALSE
    OBVIOUS
  <2>1. PICK k \in Bad : \A j \in Bad : k <= j
    <3>1. Bad \in SUBSET Nat
      OBVIOUS
    <3> QED
      BY <3>1, LeastNat
  <2>2. k # 0 /\ k \in 0..N /\ ~Ok(k)
    BY <1>5
  <2>3. PICK m \in 0..N : m = k - 1 /\ ~(k <= m)
    BY <2>2
  <2>4. Ok(m) /\ k \in 1..N
    BY <2>1, <2>2, <2>3
  <2> QED
    BY <1>6, <2>2, <2>3, <2>4, Zenon
<1>8. N \in 0..N
  OBVIOUS
<1>9. Ok(N)
  BY <1>7, <1>8
<1> QED
  BY <1>2, <1>9, Zenon DEF Ok

(* A text that has been escaped is read as what it was, likewise.          *)
LEMMA TextIsRead ==
    ASSUME NEW pre \in Seq(Seq(Chars)), NEW s, ReadTo(s, pre, <<>>), NEW text \in Seq(Chars),
           "raw" \notin ToSet(text)
    PROVE  ReadTo(s \o Escaped(text), pre, text)
<1>1. PICK N \in Nat : N = Len(text)
  OBVIOUS
<1>2. Prefix(text, 0) = <<>> /\ Prefix(text, N) = text
  BY <1>1, PrefixIs
<1>3. s \in Seq(Chars)
  BY Zenon DEF ReadTo
<1>4. \A i \in 1..N : text[i] # "raw"
  <2>1. \A i \in 1..N : text[i] \in ToSet(text)
    BY <1>1, InToSet
  <2> QED
    BY <2>1, Zenon
<1> DEFINE Ok(k) == ReadTo(s \o Escaped(Prefix(text, k)), pre, Prefix(text, k))
           Bad == {k \in 0..N : ~Ok(k)}
<1>5. Ok(0)
  <2>1. s \o <<>> = s
    BY <1>3
  <2> QED
    BY <1>2, <2>1, EscapedIs, Zenon
<1>6. ASSUME NEW k \in 1..N, NEW m, m = k - 1, Ok(m) PROVE Ok(k)
  <2>0. /\ Prefix(text, m) \in Seq(Chars) /\ text[k] \in Chars
        /\ Prefix(text, k) = Append(Prefix(text, m), text[k])
    BY <1>1, <1>6, PrefixGrows, Zenon
  <2>1. PICK w \in Seq(Chars) : w = Prefix(text, m)
    BY <2>0, Zenon
  <2>2. PICK c \in Chars : c = text[k] /\ Prefix(text, k) = Append(w, c)
    BY <2>0, <2>1, Zenon
  <2>3. c # "raw"
    BY <1>4, <2>2, Zenon
  <2>4. PICK v \in Seq(Chars) : v = Escaped(w) /\ Escaped(Append(w, c)) = v \o Escape(c)
    BY EscapedGrows, Zenon
  <2>5. PICK e \in Seq(Chars) : e = Escape(c)
    BY EscapeIs, Zenon
  <2>6. PICK t : t = s \o v
    OBVIOUS
  <2>7. ReadTo(t, pre, w)
    BY <1>6, <2>1, <2>4, <2>6, Zenon
  <2>8. ReadTo(t \o e, pre, Append(w, c))
    BY <2>3, <2>5, <2>7, EscapedIsRead, Zenon
  <2>9. s \o (v \o e) = t \o e
    BY <1>3, <2>6
  <2>10. Escaped(Prefix(text, k)) = v \o e
    BY <2>2, <2>4, <2>5, Zenon
  <2>11. s \o Escaped(Prefix(text, k)) = t \o e
    BY <2>9, <2>10, Zenon
  <2> QED
    BY <2>2, <2>8, <2>11, Zenon
<1> HIDE DEF Ok
<1>7. Bad = {}
  <2> SUFFICES ASSUME Bad # {} PROVE FALSE
    OBVIOUS
  <2>1. PICK k \in Bad : \A j \in Bad : k <= j
    <3>1. Bad \in SUBSET Nat
      OBVIOUS
    <3> QED
      BY <3>1, LeastNat
  <2>2. k # 0 /\ k \in 0..N /\ ~Ok(k)
    BY <1>5
  <2>3. PICK m \in 0..N : m = k - 1 /\ ~(k <= m)
    BY <2>2
  <2>4. Ok(m) /\ k \in 1..N
    BY <2>1, <2>2, <2>3
  <2> QED
    BY <1>6, <2>2, <2>3, <2>4, Zenon
<1>8. N \in 0..N
  OBVIOUS
<1>9. Ok(N)
  BY <1>7, <1>8
<1> QED
  BY <1>2, <1>9, Zenon DEF Ok

(* Two strings.                                                            *)
LEMMA TwoStrings ==
    ASSUME NEW a, NEW b
    PROVE  Append(Append(<<>>, a), b) = <<a, b>>
<1>1. PICK X : X = {a, b}
  OBVIOUS
<1>2. PICK x \in X : x = a
  BY <1>1
<1>3. PICK y \in X : y = b
  BY <1>1
<1>4. Append(<<>>, x) = <<x>> /\ <<x>> \in Seq(X)
  OBVIOUS
<1>5. Append(<<x>>, y) = <<x, y>>
  <2>1. PICK s \in Seq(X) : s = <<x>> /\ Len(s) = 1 /\ s[1] = x
    BY <1>4
  <2>2. PICK t \in Seq(X) : t = Append(s, y)
    BY AppendIs, Zenon
  <2>3. Len(t) = 2 /\ t[1] = x /\ t[2] = y
    BY <2>1, <2>2
  <2>4. PICK u : u = <<x, y>>
    OBVIOUS
  <2>5. u \in Seq(X) /\ Len(u) = 2 /\ u[1] = x /\ u[2] = y
    BY <2>4
  <2>6. \A i \in 1..2 : t[i] = u[i]
    BY <2>3, <2>5
  <2>7. t = u
    BY <2>3, <2>5, <2>6, SameSeq
  <2> QED
    BY <2>1, <2>2, <2>4, <2>7, Zenon
<1> QED
  BY <1>2, <1>3, <1>4, <1>5, Zenon

(* What is read of a whole frame.                                          *)
LEMMA JsonIsRead ==
    ASSUME NEW symbol \in Seq(Chars), NEW text \in Seq(Chars), "raw" \notin ToSet(text),
           ToSet(symbol) \cap {"quote", "backslash", "newline", "raw"} = {}
    PROVE  Read(Json(symbol, text)) = [mode |-> "out", strings |-> <<symbol, text>>]
<1>1. PICK quote \in Chars : quote = "quote"
  BY CharsAre
<1>2. PICK none \in Seq(Chars) : none = <<>>
  <2>1. <<>> \in Seq(Chars)
    OBVIOUS
  <2> QED
    BY <2>1, Zenon
<1>3. PICK p0 \in Seq(Seq(Chars)) : p0 = <<>>
  <2>1. <<>> \in Seq(Seq(Chars))
    OBVIOUS
  <2> QED
    BY <2>1, Zenon
<1>4. PICK s0 \in Seq(Chars) : s0 = <<quote>>
  <2>1. <<quote>> \in Seq(Chars)
    OBVIOUS
  <2> QED
    BY <2>1, Zenon
<1>5. ReadTo(s0, p0, none)
  <2>1. s0 = Append(none, quote)
    BY <1>2, <1>4
  <2>2. PICK r : r = ReadStart
    OBVIOUS
  <2>3. r = [mode |-> "out", strings |-> p0]
    BY <1>3, <2>2, Zenon DEF ReadStart
  <2>4. Read(none) = r
    BY <1>2, <2>2, ReadEmpty, Zenon
  <2>5. Read(s0) = ReadChar(r, "quote")
    BY <1>1, <2>1, <2>4, ReadAppend, Zenon
  <2>6. ReadChar(r, "quote") = At("in", p0, <<>>)
    BY <2>3, ReadOpen, Zenon
  <2> QED
    BY <1>2, <2>5, <2>6, Zenon DEF ReadTo
<1>6. PICK s1 \in Seq(Chars) : s1 = s0 \o symbol
  BY JoinIs, Zenon
<1>7. ReadTo(s1, p0, symbol)
  BY <1>2, <1>5, <1>6, SymbolIsRead, Zenon
<1>8. PICK p1 \in Seq(Seq(Chars)) : p1 = Append(p0, symbol)
  BY AppendIs, Zenon
<1>9. PICK s2 \in Seq(Chars) : s2 = Append(s1, quote)
  BY AppendIs, Zenon
<1>10. Read(s2) = [mode |-> "out", strings |-> p1]
  <2>1. PICK r : r = At("in", p0, symbol)
    OBVIOUS
  <2>2. Read(s1) = r
    BY <1>7, <2>1, Zenon DEF ReadTo
  <2>3. Read(s2) = ReadChar(r, "quote")
    BY <1>1, <1>9, <2>2, ReadAppend, Zenon
  <2>4. ReadChar(r, "quote") = [mode |-> "out", strings |-> Append(p0, symbol)]
    BY <2>1, ReadClose, Zenon
  <2> QED
    BY <1>8, <2>3, <2>4, Zenon
<1>11. PICK s3 \in Seq(Chars) : s3 = Append(s2, quote)
  BY AppendIs, Zenon
<1>12. ReadTo(s3, p1, none)
  <2>1. PICK r : r = [mode |-> "out", strings |-> p1]
    OBVIOUS
  <2>2. Read(s3) = ReadChar(r, "quote")
    BY <1>1, <1>10, <1>11, <2>1, ReadAppend, Zenon
  <2>3. ReadChar(r, "quote") = At("in", p1, <<>>)
    BY <2>1, ReadOpen, Zenon
  <2> QED
    BY <1>2, <2>2, <2>3, Zenon DEF ReadTo
<1>13. PICK e \in Seq(Chars) : e = Escaped(text)
  BY <1>1, EscapedGrows, Zenon
<1>14. PICK s4 \in Seq(Chars) : s4 = s3 \o e
  BY JoinIs, Zenon
<1>15. ReadTo(s4, p1, text)
  BY <1>2, <1>12, <1>13, <1>14, TextIsRead, Zenon
<1>16. PICK s5 \in Seq(Chars) : s5 = Append(s4, quote)
  BY AppendIs, Zenon
<1>17. Read(s5) = [mode |-> "out", strings |-> Append(p1, text)]
  <2>1. PICK r : r = At("in", p1, text)
    OBVIOUS
  <2>2. Read(s4) = r
    BY <1>15, <2>1, Zenon DEF ReadTo
  <2>3. Read(s5) = ReadChar(r, "quote")
    BY <1>1, <1>16, <2>2, ReadAppend, Zenon
  <2> QED
    BY <2>1, <2>3, ReadClose, Zenon
<1>18. Json(symbol, text) = s5
  <2>1. s1 \o <<quote, quote>> = s3
    BY <1>9, <1>11
  <2>2. s4 \o <<quote>> = s5
    BY <1>16
  <2>3. Json(symbol, text) = s1 \o <<quote, quote>> \o e \o <<quote>>
    <3>1. Json(symbol, text) = <<quote>> \o symbol \o <<quote, quote>> \o Escaped(text) \o <<quote>>
      BY <1>1, Zenon DEF Json
    <3> QED
      BY <1>4, <1>6, <1>13, <3>1, Zenon
  <2>4. Json(symbol, text) = (s3 \o e) \o <<quote>>
    BY <2>1, <2>3
  <2>5. Json(symbol, text) = s4 \o <<quote>>
    BY <1>14, <2>4
  <2> QED
    BY <2>2, <2>5
<1>19. Append(p1, text) = <<symbol, text>>
  BY <1>3, <1>8, TwoStrings, Zenon
<1> QED
  BY <1>17, <1>18, <1>19, Zenon

(* Only flush makes a frame.                                               *)
LEMMA FrameStep == FrameIsRead /\ [Next]_vars => FrameIsRead'
<1> SUFFICES ASSUME FrameIsRead, [Next]_vars PROVE FrameIsRead'
  OBVIOUS
<1>1. ASSUME NEW n \in Frames, NEW trace \in BOOLEAN, NEW found \in BOOLEAN,
             SetPosition(n, trace, found)
      PROVE  FrameIsRead'
  <2>1. made' = None
    BY <1>1, Zenon DEF SetPosition
  <2>2. made'.kind # "frame"
    BY <2>1 DEF None
  <2> QED
    BY <2>2, Zenon DEF FrameIsRead
<1>2. ASSUME NEW t \in Tokens, NEW w \in WidthArgs(t), NEW p \in PrecisionArgs(t),
             NEW null \in Nulls(t), Token(t, w, p, null)
      PROVE  FrameIsRead'
  <2>1. made' = None
    BY <1>2, Zenon DEF Token
  <2>2. made'.kind # "frame"
    BY <2>1 DEF None
  <2> QED
    BY <2>2, Zenon DEF FrameIsRead
<1>3. ASSUME NEW text \in Texts, NEW symbol \in Symbols, Flush(text, symbol) PROVE FrameIsRead'
  <2>1. PICK j : j = Json(symbol, text)
    OBVIOUS
  <2>2. made' = [kind |-> "frame", text |-> text, symbol |-> symbol, json |-> j]
    BY <1>3, <2>1, Zenon DEF Flush
  <2>3. made'.text = text /\ made'.symbol = symbol /\ made'.json = j
    BY <2>2
  <2>4. text \in Seq(Chars) /\ symbol \in Seq(Chars)
    BY LogTextAssumption, Zenon
  <2>5. \/ Read(j) = [mode |-> "out", strings |-> <<symbol, text>>]
        \/ "raw" \in ToSet(text)
        \/ ToSet(symbol) \cap {"quote", "backslash", "newline", "raw"} # {}
    BY <2>1, <2>4, JsonIsRead, Zenon
  <2> QED
    BY <2>3, <2>5, Zenon DEF FrameIsRead
<1>4. ASSUME NEW n \in Dumps, NEW frames \in Frames, Dump(n, frames) PROVE FrameIsRead'
  <2>1. PICK l : l = Lines(n)
    OBVIOUS
  <2>2. made' = [kind |-> "dump", n |-> n, lines |-> l]
    BY <1>4, <2>1, Zenon DEF Dump
  <2>3. made'.kind # "frame"
    BY <2>2
  <2> QED
    BY <2>3, Zenon DEF FrameIsRead
<1>5. CASE UNCHANGED vars
  BY <1>5, Zenon DEF FrameIsRead, vars
<1> QED
  BY <1>1, <1>2, <1>3, <1>4, <1>5 DEF Next

(* The server reads back the text and the symbol of every frame, however   *)
(* long they are and whatever is in them, but for a control character that *)
(* escapeJsonString has no name for and a symbol that needs escaping.      *)
THEOREM FrameIsReadEver == Spec => []FrameIsRead
<1>1. Init => FrameIsRead
  <2>1. Init => made.kind = "none"
    <3>1. Init => made = [kind |-> "none"]
      BY Zenon DEF Init, None
    <3> QED
      BY <3>1
  <2>2. "none" # "frame"
    OBVIOUS
  <2> QED
    BY <2>1, <2>2, Zenon DEF FrameIsRead
<1>2. FrameIsRead /\ [Next]_vars => FrameIsRead'
  BY FrameStep
<1> QED
  BY <1>1, <1>2, PTL DEF Spec
=============================================================================
