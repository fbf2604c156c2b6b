------------------------------ MODULE LogText ------------------------------
(***************************************************************************)
(* How a log channel of the library composes a message (Library/logger.cc):*)
(* setPosition with its stack list, vprintf with its format tokens, flush  *)
(* with its JSON text, and dump.  A channel is one string stream that all  *)
(* its messages share, so what a token leaves in the stream is there for   *)
(* the tokens and the messages after it.                                   *)
(*                                                                         *)
(* A token is its parts, not its characters: flags, width, precision,      *)
(* length modifier and conversion.  An argument is the class of va_list    *)
(* slot it is in (x86-64: general, floating or memory).  The text of a     *)
(* message stands for itself where it is escaped; what a conversion writes *)
(* is abstracted to the layout in which it is written.                     *)
(***************************************************************************)
EXTENDS Integers, Sequences, FiniteSets, SequencesExt

CONSTANTS
    Tokens,     \* format tokens that programs use
    Stars,      \* values of an argument that a * takes
    Texts,      \* texts of messages, as sequences of characters
    Symbols,    \* what backtrace_symbols() says of a frame, likewise
    Frames,     \* numbers of frames that backtrace() may return
    Dumps,      \* sizes of dumped memory
    SizeMax,    \* size_t has the values 0 .. SizeMax - 1
    MaxTokens   \* tokens of one message (bound of the model)

Ints   == {"d", "i", "o", "u", "x", "X"}
Floats == {"e", "E", "f", "F", "g", "G", "a", "A"}
Slots  == {"gp", "fp", "mem"}
Chars  == {"plain", "n", "quote", "backslash", "slash", "newline", "raw"}

ASSUME LogTextAssumption ==
    /\ \A t \in Tokens :
        /\ t.flags \subseteq {"#", "0", "-", " ", "+"}
        /\ t.w \in {"", "2", "*", "*1$", "1$"} /\ t.p \in {"", ".", ".1", ".3", ".*"}
        /\ t.len \in {"", "hh", "h", "l", "ll", "L", "j", "z", "t"}
        /\ t.conv \in Ints \cup Floats \cup {"c", "s", "p", "n", "m", "%"}
    /\ Stars \subseteq Int /\ Dumps \subseteq Nat
    /\ SizeMax \in Nat /\ Frames \subseteq 0..(SizeMax - 1) /\ MaxTokens \in Nat
    /\ Texts \subseteq Seq(Chars) /\ Symbols \subseteq Seq(Chars)

VARIABLES
    phase,     \* "idle", or "format" between setPosition and flush
    stream,    \* the formatting state of the stream
    skew,      \* slots taken from the va_list more than the format says
    odd,       \* the message has had a token that is not read as in C
    tokens,    \* how many tokens the message has had
    position,  \* stack depth and list of the last position, which the channel keeps
    made       \* what the last operation composed

vars == <<phase, stream, skew, odd, tokens, position, made>>

NoSkew == [c \in Slots |-> 0]
None   == [kind |-> "none"]

Init ==
    /\ phase = "idle"
    /\ stream = [width |-> 0, fill |-> " ", prec |-> 6, left |-> FALSE, bad |-> FALSE]
    /\ skew = NoSkew /\ odd = FALSE /\ tokens = 0
    /\ position = [depth |-> 0, list |-> <<>>]
    /\ made = None

-----------------------------------------------------------------------------
(* Format tokens.                                                          *)

(* operator<< of the stream: uses the width up, unless the stream is bad,  *)
(* in which case nothing is written.                                       *)
Insert(s) == IF s.bad THEN s ELSE [s EXCEPT !.width = 0]

(* getFieldWidthPrecision: a number, the next argument, or for *1$ the     *)
(* first one; "1$" is taken for the number.  v is the argument of a star.  *)
FieldWidth(t, v) == CASE t.w = ""   -> 0
                      [] t.w = "2"  -> 2
                      [] t.w = "1$" -> 1
                      [] OTHER      -> v

Precision(t, v) == CASE t.p \in {"", ".1"} -> 1
                     [] t.p = "."          -> 0
                     [] t.p = ".3"         -> 3
                     [] OTHER              -> v

(* The arguments that a token can be given for its stars and its %s.       *)
WidthArgs(t)     == IF t.w \in {"*", "*1$"} THEN Stars ELSE {0}
PrecisionArgs(t) == IF t.p = ".*" THEN Stars ELSE {0}
Nulls(t)         == IF t.conv = "s" THEN BOOLEAN ELSE {FALSE}

(* The stream as handleFmtToken has set it up for the conversion.          *)
SetUp(s, t, w, p) == [s EXCEPT
    !.fill  = IF t.conv = "s" \/ " " \in t.flags THEN " "
              ELSE IF "0" \in t.flags /\ "-" \notin t.flags THEN "0" ELSE @,
    !.left  = "+" \notin t.flags /\ ("-" \in t.flags \/ @),
    !.width = IF FieldWidth(t, w) # 0 THEN FieldWidth(t, w) ELSE @,
    !.prec  = IF Precision(t, p) # 1 THEN Precision(t, p) ELSE @]

(* flags(fmtflags): the flags, and only they, are as before the token.     *)
RestoreNothing(before, s) == s                                  \* mutant

Restore(before, s) == [s EXCEPT !.left = before.left]

(* The slot that the conversion reads with va_arg.                         *)
SlotOf(t) == CASE t.conv = "%"                                 -> "none"
               [] t.conv \in Ints \cup Floats /\ t.len = "L"   -> "mem"
               [] t.conv \in Floats /\ t.len # "L"             -> "fp"
               [] OTHER                                        -> "gp"

StarsOfWidth(t) == IF t.w = "*" THEN 1 ELSE 0                   \* mutant

StarsOf(t) == Cardinality({x \in {t.w, t.p} : x \in {"*", ".*"}})

Reads(t) == [c \in Slots |-> (IF c = SlotOf(t) THEN 1 ELSE 0) +
                             (IF c = "gp" THEN StarsOf(t) ELSE 0)]

(* What C's printf takes for the same token, and the tokens for which the  *)
(* code does otherwise: %m takes no argument, an integer is never a long   *)
(* double, and a position is not a width.                                  *)
Takes(t) ==
    LET slot == CASE t.conv \in {"%", "m"}             -> "none"
                  [] t.conv \in Floats /\ t.len = "L"  -> "mem"
                  [] t.conv \in Floats /\ t.len # "L"  -> "fp"
                  [] OTHER                             -> "gp"
        stars == (IF t.w = "*" THEN 1 ELSE 0) + (IF t.p = ".*" THEN 1 ELSE 0)
    IN [c \in Slots |-> (IF c = slot THEN 1 ELSE 0) + (IF c = "gp" THEN stars ELSE 0)]

Odd(t) == \/ t.conv = "m" \/ t.w = "1$"
          \/ t.conv \in Ints /\ t.len = "L"

(* handleFmtToken.  A null pointer for %s makes the stream bad.            *)
HandleFmtToken(s, t, w, p, null) ==
    LET ready == SetUp(s, t, w, p)
    IN Restore(s, IF null THEN [ready EXCEPT !.bad = TRUE] ELSE Insert(ready))

(* One turn of the loop of vprintf: the text before a token and the token. *)
Token(t, w, p, null) ==
    /\ phase = "format" /\ tokens < MaxTokens
    /\ stream' = HandleFmtToken(Insert(stream), t, w, p, null)
    /\ skew' = [c \in Slots |-> skew[c] + Reads(t)[c] - Takes(t)[c]]
    /\ odd' = (odd \/ Odd(t))
    /\ tokens' = tokens + 1
    /\ made' = None
    /\ UNCHANGED <<phase, position>>

-----------------------------------------------------------------------------
(* Positions.                                                              *)

(* The stack list of PositionInfo::setPosition, for n frames that          *)
(* backtrace() has returned.  The depth is a size_t, from which the three  *)
(* skipped frames are subtracted.  A trace lists up to five frames with    *)
(* what backtrace_symbols() says of them, if that found the memory to say  *)
(* it; a second loop goes on from there with the addresses alone.          *)
Depth(n) == (n - 3) % SizeMax

Pushed(from, to, symbol) ==
    [i \in 1..(to - from) |-> [frame |-> from + i + 2, symbol |-> symbol]]

Investigated(n, trace, found) ==
    IF ~(trace /\ found) THEN 0 ELSE IF Depth(n) > 5 THEN 5 ELSE Depth(n)

Listed(list, n, i) == list \o (Pushed(0, i, TRUE) \o Pushed(i, Depth(n), FALSE))

PositionedAfter(n, trace, found) ==   \* mutant: the list is not cleared first
    [depth |-> Depth(n), list |-> Listed(position.list, n, Investigated(n, trace, found))]

Positioned(n, trace, found) ==
    [depth |-> Depth(n), list |-> Listed(<<>>, n, Investigated(n, trace, found))]

SetPosition(n, trace, found) ==
    /\ phase = "idle"
    /\ phase' = "format"
    /\ position' = Positioned(n, trace, found)
    /\ made' = None
    /\ UNCHANGED <<stream, skew, odd, tokens>>

-----------------------------------------------------------------------------
(* The JSON text of a message.                                             *)

(* escapeJsonString.                                                       *)
EscapeNoBackslash(c) ==             \* mutant: a backslash is not escaped
    CASE c \in {"quote", "slash"} -> <<"backslash", c>>
      [] c = "newline"            -> <<"backslash", "n">>
      [] OTHER                    -> <<c>>

Escape(c) ==
    CASE c \in {"quote", "backslash", "slash"} -> <<"backslash", c>>
      [] c = "newline"                         -> <<"backslash", "n">>
      [] OTHER                                 -> <<c>>

Escaped(text) == FlattenSeq([i \in 1..Len(text) |-> Escape(text[i])])

(* PositionInfo::JSON puts the symbols of the stack into the frame as they  *)
(* are, flush the message escaped.                                         *)
Json(symbol, text) ==
    <<"quote">> \o symbol \o <<"quote", "quote">> \o Escaped(text) \o <<"quote">>

(* LogChannel::flush after the last piece of text.                         *)
Flush(text, symbol) ==
    /\ phase = "format"
    /\ phase' = "idle"
    /\ made' = [kind |-> "frame", text |-> text, symbol |-> symbol,
                json |-> Json(symbol, text)]
    /\ stream' = [Insert(stream) EXCEPT !.bad = FALSE]
    /\ skew' = NoSkew /\ odd' = FALSE /\ tokens' = 0
    /\ UNCHANGED position

-----------------------------------------------------------------------------
(* LogChannel::dump of n bytes: sixteen to a line, in hexadecimal, then, at *)
(* the end of a line or of all, filled up and in characters.               *)
EndsLineTooLate(i, n) == i % 16 >= 15 \/ i >= n                 \* mutant

EndsLine(i, n) == i % 16 >= 15 \/ i >= n - 1

Byte(n, a, i) ==
    LET hex == Append(a.hex, i)
        gap == IF i >= n - 1 THEN (15 - (i % 16)) * 3 ELSE 0
    IN IF EndsLine(i, n)
       THEN [hex |-> <<>>,
             out |-> Append(a.out, [hex |-> hex, gap |-> gap,
                         ascii |-> [j \in 1..((i % 16) + 1) |-> i - (i % 16) + j - 1]])]
       ELSE [hex |-> hex, out |-> a.out]

Lines(n) ==
    FoldLeft(LAMBDA a, i : Byte(n, a, i), [hex |-> <<>>, out |-> <<>>],
             [i \in 1..n |-> i - 1]).out

(* _dz_dump sets the position, in a channel that is not the trace, and     *)
(* dumps.  Each line is flushed.  %02x leaves a fill of zeros, which the   *)
(* %*s of the last line takes back.                                        *)
Dump(n, frames) ==
    /\ phase = "idle"
    /\ position' = Positioned(frames, FALSE, FALSE)
    /\ made' = [kind |-> "dump", n |-> n, lines |-> Lines(n)]
    /\ stream' = IF n = 0 THEN stream ELSE [Insert(stream) EXCEPT !.fill = " "]
    /\ UNCHANGED <<phase, skew, odd, tokens>>

-----------------------------------------------------------------------------
Next ==
    \/ \E n \in Frames, trace, found \in BOOLEAN : SetPosition(n, trace, found)
    \/ \E t \in Tokens : \E w \in WidthArgs(t), p \in PrecisionArgs(t), null \in Nulls(t) :
          Token(t, w, p, null)
    \/ \E text \in Texts, symbol \in Symbols : Flush(text, symbol)
    \/ \E n \in Dumps, frames \in Frames : Dump(n, frames)

Spec == Init /\ [][Next]_vars

-----------------------------------------------------------------------------
(* The shape of the state; between messages the stream is good and the     *)
(* arguments are forgotten.                                                *)
TypeOK ==
    /\ phase \in {"idle", "format"}
    /\ stream \in [width : Int, fill : {" ", "0"}, prec : Int, left : {FALSE}, bad : BOOLEAN]
    /\ skew \in [Slots -> Int] /\ odd \in BOOLEAN /\ tokens \in 0..MaxTokens
    /\ position \in [depth : Nat, list : Seq([frame : Nat, symbol : BOOLEAN])]
    /\ phase = "idle" => ~stream.bad /\ skew = NoSkew /\ ~odd /\ tokens = 0

(* Each conversion reads the arguments that the caller passed for it,      *)
(* however many tokens came before, unless one of them was odd.            *)
ArgumentsInStep ==
    odd \/ skew = NoSkew

(* How C's printf would lay a conversion out.                              *)
InC(t, w, p) ==
    [width |-> FieldWidth(t, w),
     left  |-> "-" \in t.flags,
     zero  |-> "0" \in t.flags /\ "-" \notin t.flags,
     prec  |-> CASE t.p = ""                -> 6
                 [] t.p = ".1"              -> 1
                 [] Precision(t, p) < 0     -> 6
                 [] OTHER                   -> Precision(t, p)]

(* Tokens for which the code differs from C in the token itself: odd ones, *)
(* a negative *, + after -, a blank with zeros, and zeros where C has none.*)
Ordinary(t, w) ==
    /\ ~Odd(t) /\ t.conv \notin {"n", "%"} /\ FieldWidth(t, w) >= 0
    /\ ~({"-", "+"} \subseteq t.flags) /\ ~({"0", " "} \subseteq t.flags)
    /\ "0" \in t.flags => t.conv \in Floats \/ (t.conv \in Ints /\ t.p = "")

(* Whatever messages came before, an ordinary token is laid out as in C in *)
(* width and side: no width is left of an earlier one, not even the one    *)
(* that a null string keeps (with all further output of its message        *)
(* suppressed) for the text that begins the next message, and no side.  It *)
(* may be filled with zeros that an earlier token asked for, and a float   *)
(* without a precision (or with 1, which the code takes for none) has the  *)
(* precision of an earlier token.                                          *)
LayoutAsC ==
    phase = "format" /\ ~stream.bad =>
      \A t \in Tokens : \A w \in WidthArgs(t), p \in PrecisionArgs(t) :
        Ordinary(t, w) =>
            LET here == SetUp(Insert(stream), t, w, p)
                c    == InC(t, w, p)
            IN
            /\ here.width = c.width /\ here.left = c.left
            /\ \/ (here.fill = "0") = c.zero
               \/ stream.fill = "0" /\ t.conv # "s" /\ " " \notin t.flags
            /\ t.conv \in Floats =>
                \/ (IF here.prec < 0 THEN 6 ELSE here.prec) = c.prec
                \/ Precision(t, p) = 1 /\ here.prec = stream.prec

(* The stack list that goes out with a message agrees with the depth next  *)
(* to it, from which WebSocket.js:169 numbers the rows: as many entries,   *)
(* the frames from the fourth on, each once and in order, nothing left of  *)
(* the messages before.  Symbols are there for a first part of the list,   *)
(* empty (no trace, or no memory) or the five frames looked into.          *)
StackAgrees ==
    LET depth == position.depth
        list  == position.list
    IN  /\ Len(list) = depth
        /\ \A i \in 1..Len(list) : list[i].frame = i + 2
        /\ \/ \A i \in 1..Len(list) : ~list[i].symbol
           \/ \A i \in 1..Len(list) : list[i].symbol <=> i <= 5

(* What JSON.parse reads from the two strings of a frame: inside a string  *)
(* a backslash escapes one character, and a control character is an error. *)
ReadChar(r, c) ==
    CASE r.mode = "error" -> r
      [] r.mode = "out" ->
            IF c = "quote" THEN [mode |-> "in", strings |-> Append(r.strings, <<>>)]
            ELSE [r EXCEPT !.mode = "error"]
      [] r.mode = "in" ->
            IF c = "quote" THEN [r EXCEPT !.mode = "out"]
            ELSE IF c = "backslash" THEN [r EXCEPT !.mode = "escape"]
            ELSE IF c \in {"raw", "newline"} THEN [r EXCEPT !.mode = "error"]
            ELSE [r EXCEPT !.strings[Len(r.strings)] = Append(@, c)]
      [] r.mode = "escape" ->
            IF c \in {"quote", "backslash", "slash", "n"}
            THEN [mode |-> "in", strings |-> [r.strings EXCEPT ![Len(r.strings)] =
                     Append(@, IF c = "n" THEN "newline" ELSE c)]]
            ELSE [r EXCEPT !.mode = "error"]

Read(json) == FoldLeft(ReadChar, [mode |-> "out", strings |-> <<>>], json)

(* The server reads back what was logged.  Only a control character that   *)
(* escapeJsonString has no name for, or a symbol that needs escaping,      *)
(* makes a frame that is not JSON, or says something else.                 *)
FrameIsRead ==
    made.kind = "frame" =>
        \/ Read(made.json) = [mode |-> "out", strings |-> <<made.symbol, made.text>>]
        \/ "raw" \in ToSet(made.text)
        \/ ToSet(made.symbol) \cap {"quote", "backslash", "newline", "raw"} # {}

(* A dump shows every byte once in hexadecimal and once as a character, in *)
(* order, on one line both, and the characters of all lines are in one     *)
(* column.                                                                 *)
DumpIsComplete ==
    made.kind = "dump" =>
        /\ FlattenSeq([i \in 1..Len(made.lines) |-> made.lines[i].hex]) =
              [i \in 1..made.n |-> i - 1]
        /\ \A i \in 1..Len(made.lines) :
              LET line == made.lines[i] IN
              line.ascii = line.hex /\ 3 * Len(line.hex) + line.gap = 48
=============================================================================
