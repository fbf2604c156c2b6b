---------------------------- MODULE MessageBuffer ----------------------------
(***************************************************************************)
(* The viewer's page, Server/WebClient/WebClient.js: DZMessageViewer.      *)
(* Buffer, the two timers that DZMessageViewer puts between the buffer and *)
(* the layout, the view that draws only the rows in sight, and what the    *)
(* user does to all of them.  Each handler is one action; timers, scroll   *)
(* events and worker messages come in any order.  Messages are numbered in *)
(* the order in which they arrive.                                         *)
(*                                                                         *)
(* The rows stand in a table that is moved to where the container is       *)
(* scrolled ("top"), inside a padding as high as all messages ("total").   *)
(* The browser keeps scrollTop within the padding at once, and tells of    *)
(* any change of it by an event that comes later.                          *)
(***************************************************************************)
EXTENDS Naturals, Sequences, FiniteSets, SequencesExt

CONSTANTS
    MaxLength,   \* counter.max
    MaxBatch,    \* messages in one 'diagMessages' post of the worker
    RowHeight,   \* table.info.rowHeight
    Heights,     \* heights that the window gives to the container
    Verbose,     \* the messages whose type has a button that is switched
    MaxArrivals, \* messages in a behaviour (bound of the model)
    MaxUser      \* what the user does in a behaviour (bound of the model)

ASSUME MessageBufferAssumption ==
    /\ MaxLength \in Nat \ {0} /\ MaxBatch \in 1..MaxLength
    /\ RowHeight \in Nat \ {0} /\ Heights \subseteq Nat \ {0} /\ Heights # {}
    /\ MaxArrivals \in Nat /\ MaxUser \in Nat /\ Verbose \subseteq 1..MaxArrivals

VARIABLES
    buffer,    \* Buffer.buffer
    counter,   \* Buffer.counter
    paused,    \* Buffer.paused
    msgTimer,  \* newMsgOnBufferTimerId is pending
    viewTimer, \* viewerNewMessageTimerId is pending
    selected,  \* the messages whose element has the class 'selected'
    typeOn,    \* the type of the Verbose messages is switched on
    follow,    \* the Follow box is checked
    height,    \* container.height()
    total,     \* scrollPadding.height()
    scrollTop, \* container.scrollTop()
    scrolled,  \* a scroll event is pending
    sizeTimer, \* resizeTimerId is pending
    top,       \* the position of the table
    shown,     \* the rows of the table
    stale,     \* since the last drawing, a selection or a layout without Follow
    quiet,     \* since the last layout, a batch came in while paused
    moved,     \* since the last layout, the user scrolled or switched Follow
    arrived,   \* messages that have arrived so far
    cleared,   \* how many had arrived at the last clear
    removed,   \* the messages the user removed since then
    did        \* what the user has done so far

timers  == <<msgTimer, viewTimer, sizeTimer>>
place   == <<total, scrollTop, scrolled, top>>
screen  == <<shown, stale, quiet, moved>>
options == <<selected, typeOn, follow, height>>
history == <<arrived, cleared, removed>>
vars    == <<buffer, counter, paused, timers, place, screen, options, history, did>>

(* The counter that Buffer.initBuffer sets.                                *)
HalfCounter == [new |-> 0, message |-> 0]   \* mutant

ZeroCounter == [new |-> 0, message |-> 0, dropped |-> 0]

Init ==
    /\ buffer = <<>> /\ counter = ZeroCounter /\ paused = FALSE
    /\ msgTimer = FALSE /\ viewTimer = FALSE /\ sizeTimer = TRUE
    /\ selected = {} /\ typeOn = TRUE /\ follow = TRUE /\ height \in Heights
    /\ total = 0 /\ scrollTop = 0 /\ scrolled = FALSE /\ top = 0
    /\ shown = <<>> /\ stale = FALSE /\ quiet = FALSE /\ moved = FALSE
    /\ arrived = 0 /\ cleared = 0 /\ removed = {} /\ did = 0

-----------------------------------------------------------------------------
Messages == 1..MaxArrivals

(* Array.filter: the elements of a sequence that are in a set.  A function *)
(* on numbers rather than SelectSeq, so that one can prove what it returns.*)
Filtered(s, T) ==
    LET keep[i \in 0..Len(s)] ==
            IF i = 0 THEN <<>>
            ELSE IF s[i] \in T THEN Append(keep[i - 1], s[i]) ELSE keep[i - 1]
    IN  keep[Len(s)]

(* getTypeFilteredMessages.  The class of a selected row does not end in   *)
(* its type, and what is no type is viewable.  A row count that is not     *)
(* whole never counts down to zero, so it is no limit.                     *)
Viewable == {m \in Messages : typeOn \/ m \notin Verbose \/ m \in selected}

RowLimit == IF (height % RowHeight) = 0 THEN height \div RowHeight ELSE MaxLength

(* Math.round of the share of the messages that is above the table.        *)
TargetIdxOfScroll ==        \* mutant: the share of the way one can scroll
    IF top = 0 THEN 0
    ELSE IF total <= height THEN Len(buffer)
    ELSE (2 * Len(buffer) * top + total - height) \div (2 * (total - height))

TargetIdx ==
    IF top = 0 THEN 0
    ELSE IF total = 0 THEN Len(buffer)
    ELSE (2 * Len(buffer) * top + total) \div (2 * total)

Rows ==
    LET rest == Filtered(SubSeq(buffer, TargetIdx + 1, Len(buffer)), Viewable)
    IN  SubSeq(rest, 1, IF Len(rest) < RowLimit THEN Len(rest) ELSE RowLimit)

(* updateMessageView, after everything else has changed.                   *)
Draw == shown' = Rows' /\ stale' = FALSE

DrawLater == UNCHANGED <<shown, stale>>

(* How far the container can be scrolled, and what the browser does when   *)
(* that becomes less.                                                      *)
Bottom == IF total > height THEN total - height ELSE 0

ScrollTo(y) == scrollTop' = y /\ scrolled' = (scrolled \/ y # scrollTop)

Clamped(bottom) == IF scrollTop > bottom THEN bottom ELSE scrollTop

(* viewer.updateLayout with the 'jumpToBottom' handler: setting scrollTop  *)
(* to what it is gives no event, so the handler draws in that case.        *)
UpdateLayoutByEvent ==      \* mutant: 'jumpToBottom' only scrolls
    /\ total' = RowHeight * Len(buffer')
    /\ top' = top
    /\ quiet' = FALSE /\ moved' = (moved /\ ~follow')
    /\ \/ height' >= total' /\ ScrollTo(0) /\ Draw
       \/ height' < total' /\ follow' /\ ScrollTo(Bottom') /\ DrawLater
       \/ height' < total' /\ ~follow' /\ ScrollTo(Clamped(Bottom'))
          /\ stale' = TRUE /\ UNCHANGED shown

UpdateLayout ==
    /\ total' = RowHeight * Len(buffer')
    /\ top' = top
    /\ quiet' = FALSE /\ moved' = (moved /\ ~follow')
    /\ \/ height' >= total' /\ ScrollTo(0) /\ Draw
       \/ /\ height' < total' /\ follow' /\ ScrollTo(Bottom')
          /\ IF Clamped(Bottom') = Bottom' THEN Draw ELSE DrawLater
       \/ /\ height' < total' /\ ~follow' /\ ScrollTo(Clamped(Bottom'))
          /\ stale' = TRUE /\ UNCHANGED shown

-----------------------------------------------------------------------------
(* How many of the oldest make room for n new messages, and what is kept.  *)
Over(n) ==
    IF Len(buffer) + n > MaxLength THEN Len(buffer) + n - MaxLength ELSE 0

KeptOldest(over) == SubSeq(buffer, 1, Len(buffer) - over)       \* mutant

Kept(over) == SubSeq(buffer, over + 1, Len(buffer))

(* Buffer.triggerNewMessages with n messages; n is 0 when the filters of   *)
(* the worker have removed the whole batch.  MessageReady sets the timer   *)
(* anew, unless the buffer is paused.                                      *)
TriggerNewMessages(n) ==
    LET over == Over(n)
        kept == Kept(over)
        new  == [i \in 1..n |-> arrived + i]
    IN
    /\ arrived + n <= MaxArrivals
    /\ arrived' = arrived + n
    /\ buffer'  = kept \o new
    /\ counter' = [new     |-> counter.new + n,
                   message |-> Len(kept) + n,
                   dropped |-> counter.dropped + over]
    /\ msgTimer' = (msgTimer \/ ~paused)
    /\ quiet'    = (paused /\ (quiet \/ n > 0))
    /\ UNCHANGED <<paused, viewTimer, sizeTimer, place, shown, stale, moved, options,
                   cleared, removed, did>>

(* The first timer triggers 'NewMessage', whose handler sets the second.   *)
MessageReadyTimer ==
    /\ msgTimer
    /\ msgTimer' = FALSE /\ viewTimer' = TRUE
    /\ UNCHANGED <<buffer, counter, paused, sizeTimer, place, screen, options,
                   history, did>>

(* The second timer: viewer.applyNewMessageLayout.  Buffer.newMessages is  *)
(* slice(-counter.new), all of the buffer for 0: it is empty only if the   *)
(* buffer is, and then an exception ends the callback.                     *)
ApplyNewMessageLayout ==
    /\ viewTimer
    /\ viewTimer' = FALSE
    /\ counter' = [counter EXCEPT !.new = 0]
    /\ UNCHANGED <<buffer, paused, msgTimer, sizeTimer, options, history, did>>
    /\ \/ buffer = <<>> /\ UNCHANGED <<place, screen>>
       \/ buffer # <<>> /\ UpdateLayout

(* The scroll handler.                                                     *)
OnScroll ==
    /\ scrolled
    /\ scrolled' = FALSE /\ top' = scrollTop
    /\ UNCHANGED <<buffer, counter, paused, timers, total, scrollTop, quiet, moved,
                   options, history, did>>
    /\ Draw

(* The timer that doResize has set.                                        *)
ResizeTimer ==
    /\ sizeTimer
    /\ sizeTimer' = FALSE
    /\ UNCHANGED <<buffer, counter, paused, msgTimer, viewTimer, options, history, did>>
    /\ UpdateLayout

-----------------------------------------------------------------------------
(* 'clearView': Buffer.clear, then the layout.                             *)
ClearViewKeepsCounter ==        \* mutant: the counter is not set anew
    /\ buffer'  = <<>>
    /\ cleared' = arrived /\ removed' = {}
    /\ UNCHANGED <<counter, paused, timers, options, arrived>>
    /\ UpdateLayout

ClearView ==
    /\ buffer'  = <<>>
    /\ counter' = ZeroCounter
    /\ cleared' = arrived /\ removed' = {}
    /\ UNCHANGED <<paused, timers, options, arrived>>
    /\ UpdateLayout

(* 'clearSelectedMessages': Buffer.clearSelectedMessages, then the layout. *)
ClearSelectedMessages ==
    LET rest == Filtered(buffer, Messages \ selected) IN
    /\ buffer'  = rest
    /\ counter' = [counter EXCEPT !.message = Len(rest)]
    /\ removed' = removed \cup (selected \cap ToSet(buffer))
    /\ UNCHANGED <<paused, timers, options, arrived, cleared>>
    /\ UpdateLayout

(* 'msgTypeToggle': a type of messages is switched.                        *)
MsgTypeToggle ==
    /\ typeOn' = ~typeOn
    /\ UNCHANGED <<buffer, counter, paused, timers, selected, follow, height, history>>
    /\ UpdateLayout

(* The Follow box is only read by the layout.                              *)
FollowToggle ==
    /\ follow' = ~follow /\ moved' = TRUE
    /\ UNCHANGED <<buffer, counter, paused, timers, place, shown, stale, quiet,
                   selected, typeOn, height, history>>

(* beginSelection and trackSelection with the left button: the buffer is   *)
(* paused and the row toggled; without Ctrl or Shift the other rows of the *)
(* table lose their selection first.                                       *)
Select(m, extend) ==
    /\ m \in ToSet(shown)
    /\ paused' = TRUE /\ stale' = TRUE
    /\ selected' = IF ~extend THEN (selected \ ToSet(shown)) \cup {m}
                   ELSE IF m \in selected THEN selected \ {m}
                   ELSE selected \cup {m}
    /\ UNCHANGED <<buffer, counter, timers, place, shown, quiet, moved, typeOn,
                   follow, height, history>>

(* Buffer.pause, from the Pause button or a column being resized.          *)
Pause ==
    /\ paused' = TRUE
    /\ UNCHANGED <<buffer, counter, timers, place, screen, options, history>>

(* The user scrolls.                                                       *)
Scroll(y) ==
    /\ y # scrollTop /\ y <= Bottom
    /\ ScrollTo(y) /\ moved' = TRUE
    /\ UNCHANGED <<buffer, counter, paused, timers, total, top, shown, stale, quiet,
                   options, history>>

(* doResize with gatherTableInfo: the layout follows by a timer.           *)
Resize(h) ==
    /\ height' = h /\ sizeTimer' = TRUE
    /\ UNCHANGED <<buffer, counter, paused, msgTimer, viewTimer, total, top, screen,
                   selected, typeOn, follow, history>>
    /\ ScrollTo(Clamped(Bottom'))

(* Buffer.resume: the mouse is released, or a filter has been registered.  *)
(* Nothing is triggered for what came in meanwhile.                        *)
Resume ==
    /\ paused' = FALSE
    /\ UNCHANGED <<buffer, counter, timers, place, screen, options, history, did>>

User ==
    /\ did < MaxUser /\ did' = did + 1
    /\ \/ ClearView
       \/ ClearSelectedMessages
       \/ MsgTypeToggle
       \/ FollowToggle
       \/ \E m \in 1..arrived, extend \in BOOLEAN : Select(m, extend)
       \/ Pause
       \/ \E y \in 0..Bottom : Scroll(y)
       \/ \E h \in Heights : Resize(h)

Next ==
    \/ \E n \in 0..MaxBatch : TriggerNewMessages(n)
    \/ MessageReadyTimer
    \/ ApplyNewMessageLayout
    \/ OnScroll
    \/ ResizeTimer
    \/ Resume
    \/ User

Spec == Init /\ [][Next]_vars

-----------------------------------------------------------------------------
(* The shape of the state; the container is never scrolled past the end.   *)
TypeOK ==
    /\ buffer \in Seq(Messages) /\ shown \in Seq(Messages)
    /\ counter \in [new : Nat, message : Nat, dropped : Nat]
    /\ selected \in SUBSET Messages /\ removed \in SUBSET Messages
    /\ paused \in BOOLEAN /\ msgTimer \in BOOLEAN /\ viewTimer \in BOOLEAN
    /\ sizeTimer \in BOOLEAN /\ typeOn \in BOOLEAN /\ follow \in BOOLEAN
    /\ scrolled \in BOOLEAN /\ stale \in BOOLEAN /\ quiet \in BOOLEAN /\ moved \in BOOLEAN
    /\ height \in Heights /\ total \in Nat /\ top \in Nat /\ scrollTop \in 0..Bottom
    /\ arrived \in 0..MaxArrivals /\ cleared \in 0..arrived /\ did \in 0..MaxUser

(* The status bar tells the truth: it counts the messages in the buffer,   *)
(* and as dropped those since the last clear that are neither there nor    *)
(* removed by the user.                                                    *)
Lost == {m \in (cleared + 1)..arrived : m \notin ToSet(buffer) \cup removed}

CountersAreTrue ==
    /\ counter.message = Len(buffer)
    /\ counter.dropped = Cardinality(Lost)

(* The buffer never grows beyond the limit shown in the status bar; it     *)
(* holds each message once, in the order of arrival, and those dropped for *)
(* the limit are older than all that are kept.                             *)
KeepsNewest ==
    /\ Len(buffer) <= MaxLength
    /\ \A i, j \in 1..Len(buffer) : i < j => buffer[i] < buffer[j]
    /\ \A i \in 1..Len(buffer) : buffer[i] > cleared
    /\ \A m \in Lost : \A i \in 1..Len(buffer) : m < buffer[i]

(* The padding is as high as the buffer unless a timer is pending or a     *)
(* batch came in during a pause: the two timers never lose the last batch. *)
Pending == msgTimer \/ viewTimer \/ sizeTimer \/ scrolled

LayoutIsPending ==
    total # RowHeight * Len(buffer) => msgTimer \/ viewTimer \/ sizeTimer \/ quiet

(* The table holds the rows it should, unless a timer or a scroll event is *)
(* pending, or there was a batch during a pause, a selection, or a layout  *)
(* without Follow, which draw nothing.  No order of timers, arrivals,      *)
(* jumps, clears and resizes loses the last drawing.                       *)
ViewIsPending == shown # Rows => Pending \/ stale \/ quiet

(* What the page shows agrees with the buffer, or will.                    *)
ScreenIsPending == LayoutIsPending /\ ViewIsPending

(* With Follow on, and nothing pending, the view stands at the end and the *)
(* newest message is in the table if its type is, whatever was dropped,    *)
(* deleted or resized before.                                              *)
FollowsNewest ==
    follow /\ ~moved /\ ~Pending /\ ~stale /\ ~quiet =>
        /\ scrollTop = Bottom
        /\ \A i \in 1..Len(buffer) : i = Len(buffer) /\ buffer[i] \in Viewable =>
               buffer[i] \in ToSet(shown)
=============================================================================
