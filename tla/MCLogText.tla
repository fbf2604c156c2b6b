----------------------------- MODULE MCLogText -----------------------------
(* Instances of LogText for TLC.                                           *)
EXTENDS LogText

CONSTANT MaxText    \* length of texts and symbols

(* The flags alone and in the pairs that touch each other; every width and *)
(* precision with an integer and a float, fewer with the others.           *)
MCFlags == {{}, {"#"}, {"-"}, {"0"}, {" "}, {"+"}, {"-", "0"}, {"-", "+"}, {"0", " "}}

MCTokens ==
    [flags : MCFlags, w : {"", "2", "*", "*1$", "1$"}, p : {"", ".", ".1", ".3", ".*"},
     len : {""}, conv : {"d", "f"}]
    \cup
    [flags : {{}, {"0"}, {"-"}, {" "}}, w : {"", "2", "*"}, p : {"", ".3"}, len : {""},
     conv : {"s", "c", "m", "n", "%", "X"}]
    \cup
    [flags : {{}}, w : {"", "*"}, p : {"", ".*"}, len : {"L", "ll", "hh"}, conv : {"d", "g"}]

MCStars == {-1, 0, 1, 3}
MCTexts == SeqOf(Chars, MaxText)
MCSymbols == {<<"plain">>, <<"quote">>, <<"raw">>}
(* Depths that wrap around, that end the first loop and that go beyond it; *)
(* dumps of no line, a short one, a full one, full ones and a short one.   *)
MCFrames == {2, 5, 9}
MCDumps  == {0, 1, 16, 17, 33}
=============================================================================
