----------------------------- MODULE FrameReader -----------------------------
(***************************************************************************)
(* How Daemon.onClientData (Server/daemon/daemon.js) cuts the byte stream  *)
(* of one socket into frames.  A frame is a big-endian length of four      *)
(* bytes and so many bytes of JSON (sendServer in Library/logger.cc); the  *)
(* kernel delivers the stream in chunks of any size.                       *)
(*                                                                         *)
(* A byte is its offset in the stream, so a buffer is described by where   *)
(* it was filled from.  Bytes read as a length where no header starts give *)
(* a number that depends on the text: any of Garbage.  A buffer that is    *)
(* not one sent frame is pushed with text, or uninitialised memory, that   *)
(* may be refused, may throw in JSON.parse, or may pass for a message.     *)
(***************************************************************************)
EXTENDS Naturals, Sequences

CONSTANTS
    Lengths,    \* payload lengths
    Garbage,    \* values read from bytes that are not a header
    MaxBuffer,  \* kMaxLength of node: a longer Buffer throws
    MaxFrames,  \* frames in the stream (bound of the model)
    None

(* A buffer of len bytes of which the first written came from offset from. *)
Buffers == [from : Nat, len : Nat, written : Nat]

ASSUME FrameReaderAssumption ==
    /\ Lengths \subseteq (Nat \ {0}) /\ Garbage \subseteq (Nat \ {0})
    /\ \A n \in Lengths : n <= MaxBuffer
    /\ MaxBuffer \in Nat /\ MaxFrames \in Nat
    /\ None \notin Buffers

VARIABLES
    frames,   \* the frames written: where each starts and its payload length
    pos,      \* offset up to which chunks have been delivered
    last,     \* sock.lastObjstr: first offset, length, bytes written; or None
    handed,   \* what DiagMessageQueue.push accepted: a frame number or Chimera
    alive,    \* FALSE once an exception has left onClientData
    clean     \* no header was cut and no payload cut more than once (history)

vars == <<frames, pos, last, handed, alive, clean>>

HeaderSize == 4
Chimera    == 0
Outcomes   == {"refused", "accepted", "throws"}

PayloadAt(f) == f.at + HeaderSize
EndOf(f)     == f.at + HeaderSize + f.len
StreamEnd    == IF frames = <<>> THEN 0 ELSE EndOf(frames[Len(frames)])

Init ==
    /\ frames = <<>>
    /\ pos    = 0
    /\ last   = None
    /\ handed = <<>>
    /\ alive  = TRUE
    /\ clean  = TRUE

(* sendServer: header and payload enter the stream.                        *)
Write(n) ==
    /\ Len(frames) < MaxFrames
    /\ frames' = Append(frames, [at |-> StreamEnd, len |-> n])
    /\ UNCHANGED <<pos, last, handed, alive, clean>>

-----------------------------------------------------------------------------
(* The frame whose payload a buffer is, or Chimera.                        *)
Content(b) ==
    LET is(j) == PayloadAt(frames[j]) = b.from /\ frames[j].len = b.len
    IN  IF b.written = b.len /\ \E j \in 1..Len(frames) : is(j)
        THEN CHOOSE j \in 1..Len(frames) : is(j)
        ELSE Chimera

(* The number that readUInt32BE returns at offset i.                       *)
LengthAt(i, garbage) ==
    IF \E j \in 1..Len(frames) : frames[j].at = i
    THEN frames[CHOOSE j \in 1..Len(frames) : frames[j].at = i].len
    ELSE garbage

(* What a run of the handler does: the messages it hands over, the buffer  *)
(* it leaves in sock.lastObjstr and whether it returns.                    *)
Run(messages, buffer, returns) ==
    [handed |-> messages, last |-> buffer, returns |-> returns]

DoneKeepsLast == Run(<<>>, last, TRUE)  \* mutant: lastObjstr is not deleted

Done    == Run(<<>>, None, TRUE)
Keep(b) == Run(<<>>, b, TRUE)
Throw   == Run(<<>>, None, FALSE)

(* DiagMessageQueue.push of a buffer, and what the handler does after it.  *)
Push(b, outcome, rest) ==
    LET accept(m) == Run(<<m>> \o rest.handed, rest.last, rest.returns) IN
    CASE Content(b) # Chimera                          -> accept(Content(b))
      [] Content(b) = Chimera /\ outcome = "accepted" -> accept(Chimera)
      [] Content(b) = Chimera /\ outcome = "refused"  -> rest
      [] OTHER                                         -> Throw

(* readUInt32BE asserts that the header lies inside the chunk.             *)
HeaderUnchecked(i, end) == TRUE                 \* mutant: noAssert

HeaderInside(i, end) == i + HeaderSize <= end

(* objEndIdx > data.length: the frame goes on in a later chunk.            *)
CutOffAtEnd(b, end) == b.from + b.len >= end    \* mutant

CutOff(b, end) == b.from + b.len > end

(* The backup of what the chunk has of a frame.                            *)
Front(b, end) == [b EXCEPT !.written = end - b.from]

(* The while loop over the part start..end of a chunk.                     *)
Loop(start, end, garbage, outcome) ==
    LET from[i \in start..end] ==
            LET n == LengthAt(i, garbage)
                b == [from |-> i + HeaderSize, len |-> n, written |-> n]
            IN
            CASE i = end -> Done
              [] i < end /\ ~HeaderInside(i, end) -> Throw
              [] i < end /\ HeaderInside(i, end) /\ CutOff(b, end) ->
                     IF n > MaxBuffer THEN Throw ELSE Keep(Front(b, end))
              [] OTHER -> Push(b, outcome, from[b.from + n])
    IN  IF start >= end THEN Done ELSE from[start]

(* The handler: complete the buffer left by the previous chunk, as far as  *)
(* this chunk reaches, push it, and go on where its frame should end.      *)
Handle(end, garbage, outcome) ==
    IF last = None
    THEN Loop(pos, end, garbage, outcome)
    ELSE LET missing == last.len - last.written
             present == IF pos + missing <= end THEN missing ELSE end - pos
         IN  Push([last EXCEPT !.written = @ + present], outcome,
                  Loop(pos + missing, end, garbage, outcome))

(* A chunk boundary cuts a header when it falls inside it; two boundaries  *)
(* cut one payload when both fall before its last byte.                    *)
CutsHeader(x) ==
    \E j \in 1..Len(frames) : frames[j].at < x /\ x < PayloadAt(frames[j])
CutsTwice(x, y) ==
    \E j \in 1..Len(frames) : PayloadAt(frames[j]) <= x /\ y < EndOf(frames[j])

(* Daemon.onClientData on the next n bytes.                                *)
OnClientData(n, garbage, outcome) ==
    LET end == pos + n
        run == Handle(end, garbage, outcome)
    IN
    /\ alive
    /\ n \in 1..(StreamEnd - pos)
    /\ pos'    = end
    /\ last'   = run.last
    /\ handed' = handed \o run.handed
    /\ alive'  = run.returns
    /\ clean'  = (clean /\ ~CutsHeader(end) /\ ~CutsTwice(pos, end))
    /\ UNCHANGED frames

Next ==
    \/ \E n \in Lengths : Write(n)
    \/ \E n \in 1..(StreamEnd - pos), garbage \in Garbage, outcome \in Outcomes :
           OnClientData(n, garbage, outcome)

Spec == Init /\ [][Next]_vars

-----------------------------------------------------------------------------
(* The shape of the state.                                                 *)
TypeOK ==
    /\ frames \in Seq([at : Nat, len : Lengths])
    /\ pos \in 0..StreamEnd
    /\ last \in Buffers \cup {None}
    /\ handed \in Seq(0..Len(frames))
    /\ alive \in BOOLEAN /\ clean \in BOOLEAN

(* The buffer kept between chunks is the front of a frame in progress.     *)
LastIsFront ==
    last # None =>
        \E j \in 1..Len(frames) :
            /\ last.from = PayloadAt(frames[j]) /\ last.len = frames[j].len
            /\ last.from + last.written = pos /\ pos < EndOf(frames[j])

(* The contract of the reader: as long as no chunk boundary falls inside a *)
(* header and at most one inside each payload, the messages handed over    *)
(* are the frames received completely, each once and in order, what it     *)
(* keeps is the front of the next one, and no exception leaves the handler.*)
CleanStreamIsRead ==
    clean =>
        /\ alive /\ LastIsFront
        /\ LET complete == {j \in 1..Len(frames) : EndOf(frames[j]) <= pos}
           IN  /\ \A j \in complete : j \in 1..Len(handed)
               /\ \A i \in 1..Len(handed) : handed[i] = i /\ i \in complete

(* Even after the reader has lost the frame boundaries, and maybe found    *)
(* them again, no frame is handed over twice or after a later one.         *)
NeverBackwards ==
    \A i, j \in 1..Len(handed) :
        (i < j /\ handed[i] # Chimera /\ handed[j] # Chimera) =>
            handed[i] < handed[j]

(* "restore" (daemon.js:56): a frame interrupted by the end of a chunk is  *)
(* completed from what follows, so none that was received is lost.         *)
RestoreCompletes ==
    alive => \A j \in 1..Len(frames) :
        EndOf(frames[j]) <= pos => \E i \in 1..Len(handed) : handed[i] = j
=============================================================================
