------------------------------ MODULE PagerView ------------------------------
(***************************************************************************)
(* The cursor and the scroll position of a pager (pager.c).  Every move is *)
(* a call of pager_move_cursor_to or pager_scroll_to, which call each      *)
(* other until the cursor is on the screen, while the command's output     *)
(* makes the buffer longer, a reload empties it and the terminal changes   *)
(* its size.  The resize signal runs the same code from its handler, on    *)
(* top of whatever the program was doing: there are two frames.            *)
(*                                                                         *)
(* The signal comes between any two accesses to memory.  A step ends with  *)
(* a store or with its call of box_height, and what it read of the cursor  *)
(* and of the scroll position before that may be older: from after any of  *)
(* the signals that came since the frame's last step, or from before them. *)
(*                                                                         *)
(* The pager has a box; rat_run lays it out before the first key.          *)
(***************************************************************************)
EXTENDS Integers

CONSTANTS
  MaxLines,     \* bound: lines of the buffer
  Heights,      \* heights of the terminal
  Deltas,       \* arguments of moveCursor and scroll
  HalfRange,    \* a ssize_t is below this, a size_t below twice this
  MaxInterrupts,\* bound: resize signals during one operation
  MaxCalls      \* bound: calls are counted up to this

ASSUME ConstantsAssumption ==
  /\ MaxLines \in Nat \ {0} /\ MaxInterrupts \in Nat /\ MaxCalls \in Nat
  /\ Heights \subseteq Nat \ {0} /\ Deltas \subseteq Int /\ HalfRange \in Nat
  /\ \A h \in Heights : 2 * MaxLines + 2 * h < HalfRange
  /\ \A h \in Heights, d \in Deltas : MaxLines + h + d < HalfRange /\ d > h - HalfRange

Frames == {"main", "handler"}

VARIABLES
  lines, height,     \* buffer_num_lines, box_height
  scroll, cursor,
  function, at, arg, \* which of the two functions a frame is in, where, and its argument
  seen,              \* what the main frame may have read since its last step
  calls,             \* calls the operation of the frame has made so far
  interrupts,        \* signals since the main frame was idle
  struck,            \* history: one came in the main frame's scroll_to before its store
  reloaded, ragged   \* history: see CursorInBuffer and OnScreen

frameVars == <<function, at, arg, seen, calls, interrupts, struck>>
vars == <<lines, height, scroll, cursor, frameVars, reloaded, ragged>>

Init ==
  /\ lines = 1 /\ height \in Heights
  /\ scroll = 0 /\ cursor = 0
  /\ function = [f \in Frames |-> "none"]
  /\ at = [f \in Frames |-> "idle"] /\ arg = [f \in Frames |-> 0]
  /\ seen = {}
  /\ calls = [f \in Frames |-> 0]
  /\ interrupts = 0 /\ struck = FALSE
  /\ reloaded = FALSE /\ ragged = FALSE

Idle == \A f \in Frames : at[f] = "idle"
Running(f, place) == at[f] = place /\ (f = "main" => at["handler"] = "idle")

(* size_t, and its conversion to ssize_t.                                  *)
Wrapped(x) == IF x < 0 THEN x + 2 * HalfRange
              ELSE IF x >= 2 * HalfRange THEN x - 2 * HalfRange ELSE x
Signed(x) == IF x >= HalfRange THEN x - 2 * HalfRange ELSE x

Now == [cursor |-> cursor, scroll |-> scroll]
Read(f) == IF f = "main" THEN seen ELSE {Now}
-----------------------------------------------------------------------------
Call(f, name, argument) ==
  /\ function' = [function EXCEPT ![f] = name]
  /\ at' = [at EXCEPT ![f] = "entry"]
  /\ arg' = [arg EXCEPT ![f] = argument]
  /\ calls' = [calls EXCEPT ![f] = IF @ < MaxCalls THEN @ + 1 ELSE @]
  /\ seen' = IF f = "main" THEN {Now} ELSE seen
  /\ UNCHANGED interrupts

(* The main frame goes on after the handler's, and may not have read yet.  *)
Return(f) ==
  /\ function' = [function EXCEPT ![f] = "none"]
  /\ at' = [at EXCEPT ![f] = "idle"]
  /\ arg' = [arg EXCEPT ![f] = 0]
  /\ calls' = [calls EXCEPT ![f] = 0]
  /\ seen' = IF f = "main" \/ at["main"] = "idle" THEN {} ELSE seen \cup {Now}
  /\ interrupts' = IF f = "main" THEN 0 ELSE interrupts

Goes(f, place, argument) ==
  /\ at' = [at EXCEPT ![f] = place]
  /\ arg' = [arg EXCEPT ![f] = argument]
  /\ seen' = IF f = "main" THEN {Now'} ELSE seen
  /\ UNCHANGED <<function, calls, interrupts>>

(* pager_move_cursor_to sets the cursor.  (A signal changes no lines.)     *)
MoveCursorToEnd(f) ==       \* wrong on purpose: to the line after the last
  /\ Running(f, "entry") /\ function[f] = "move_cursor_to"
  /\ cursor' = IF arg[f] < 0 THEN 0 ELSE IF arg[f] > lines THEN lines ELSE arg[f]
  /\ reloaded' = FALSE
  /\ UNCHANGED <<lines, height, scroll, ragged, struck>>
  /\ Goes(f, "above", 0)
MoveCursorTo(f) ==
  /\ Running(f, "entry") /\ function[f] = "move_cursor_to"
  /\ cursor' = IF arg[f] < 0 THEN 0
               ELSE IF arg[f] > lines - 1 THEN lines - 1 ELSE arg[f]
  /\ reloaded' = FALSE
  /\ UNCHANGED <<lines, height, scroll, ragged, struck>>
  /\ Goes(f, "above", 0)

(* pager_scroll_to sets the scroll position.  The height is read for each  *)
(* of the two tests and for the difference.  With fewer lines than rows    *)
(* that is huge, and the argument is taken as it is.                       *)
ScrollToTop(f) ==
  /\ Running(f, "entry") /\ function[f] = "scroll_to" /\ arg[f] < 0
  /\ scroll' = 0 /\ ragged' = FALSE
  /\ UNCHANGED <<lines, height, cursor, reloaded, struck>>
  /\ Goes(f, "above", 0)

TestTooFar(f) ==
  /\ Running(f, "entry") /\ function[f] = "scroll_to" /\ arg[f] >= 0
  /\ UNCHANGED <<lines, height, scroll, cursor, reloaded, ragged, struck>>
  /\ Goes(f, IF arg[f] > Wrapped(lines - height) THEN "too_far" ELSE "store", arg[f])

TestScreenful(f) ==
  /\ Running(f, "too_far")
  /\ UNCHANGED <<lines, height, scroll, cursor, reloaded, ragged, struck>>
  /\ IF lines > height THEN Goes(f, "last_screen", 0) ELSE Goes(f, "store", 0)

LastScreen(f) ==
  /\ Running(f, "last_screen")
  /\ UNCHANGED <<lines, height, scroll, cursor, reloaded, ragged, struck>>
  /\ Goes(f, "store", Wrapped(lines - height))

SetScroll(f) ==
  /\ Running(f, "store")
  /\ scroll' = arg[f]
  /\ ragged' = (lines < height \/ (f = "main" /\ struck))
  /\ struck' = (f # "main" /\ struck)
  /\ UNCHANGED <<lines, height, cursor, reloaded>>
  /\ Goes(f, "above", 0)

(* Both then test the cursor against the first row of the screen and       *)
(* against the last ...                                                    *)
TestAbove(f) ==
  /\ Running(f, "above")
  /\ UNCHANGED <<lines, height, scroll, cursor, reloaded, ragged, struck>>
  /\ \E c, s \in Read(f) : Goes(f, IF c.cursor < s.scroll THEN "follow_up" ELSE "below", 0)

BelowScreenOrLast(c, s) == c >= Wrapped(s + height - 1)     \* wrong on purpose
BelowScreen(c, s) == c > Wrapped(s + height - 1)

TestBelow(f) ==
  /\ Running(f, "below")
  /\ UNCHANGED <<lines, height, scroll, cursor, reloaded, ragged, struck>>
  /\ \E c, s \in Read(f) : IF BelowScreen(c.cursor, s.scroll)
                          THEN Goes(f, "follow_down", 0) ELSE Return(f)

(* ... and if it is off the screen, each calls the other.                  *)
FollowUp(f) ==
  /\ Running(f, "follow_up")
  /\ \E r \in Read(f) :
       IF function[f] = "move_cursor_to" THEN Call(f, "scroll_to", Signed(r.cursor))
       ELSE Call(f, "move_cursor_to", Signed(r.scroll))
  /\ UNCHANGED <<lines, height, scroll, cursor, reloaded, ragged, struck>>

FollowDown(f) ==
  /\ Running(f, "follow_down")
  /\ \E r \in Read(f) :
       IF function[f] = "move_cursor_to"
       THEN Call(f, "scroll_to", Signed(Wrapped(r.cursor - (height - 1))))
       ELSE Call(f, "move_cursor_to", Signed(Wrapped(r.scroll + height - 1)))
  /\ UNCHANGED <<lines, height, scroll, cursor, reloaded, ragged, struck>>

Step(f) ==
  \/ MoveCursorTo(f) \/ ScrollToTop(f) \/ TestTooFar(f) \/ TestScreenful(f) \/ LastScreen(f)
  \/ SetScroll(f) \/ TestAbove(f) \/ TestBelow(f) \/ FollowUp(f) \/ FollowDown(f)
-----------------------------------------------------------------------------
(* What a script asks for: moveCursor, firstLine, lastLine, scroll, pageUp *)
(* and pageDown (which reads the height first, maybe before a signal).     *)
Moves == {cursor + d : d \in Deltas} \cup {0, lines}
Scrolls == {scroll + d : d \in Deltas \cup Heights \cup {-h : h \in Heights}}

Move ==
  /\ Idle
  /\ \/ \E c \in Moves : Call("main", "move_cursor_to", c)
     \/ \E s \in Scrolls : Call("main", "scroll_to", s)
  /\ UNCHANGED <<lines, height, scroll, cursor, reloaded, ragged, struck>>

(* set_pager_box, from rat_run after a push or a pop, or from the handler. *)
SetPagerBoxOnly(h) ==       \* wrong on purpose: nothing is scrolled
  /\ height' = h
  /\ UNCHANGED <<lines, scroll, cursor, frameVars, reloaded, ragged>>

SetPagerBox(h) ==
  /\ height' = h
  /\ \/ /\ Idle
        /\ Call("main", "scroll_to", scroll) /\ UNCHANGED struck
     \/ /\ at["handler"] = "idle"
        /\ interrupts' = IF at["main"] = "idle" THEN 0 ELSE interrupts + 1
        /\ interrupts' <= MaxInterrupts
        /\ struck' = (struck \/ at["main"] \in {"too_far", "last_screen", "store"})
        /\ function' = [function EXCEPT !["handler"] = "scroll_to"]
        /\ at' = [at EXCEPT !["handler"] = "entry"]
        /\ arg' = [arg EXCEPT !["handler"] = Signed(scroll)]
        /\ calls' = [calls EXCEPT !["handler"] = 1]
        /\ UNCHANGED seen
  /\ UNCHANGED <<lines, scroll, cursor, reloaded, ragged>>

(* Output arrives.                                                         *)
Grow ==
  /\ Idle /\ lines < MaxLines
  /\ lines' = lines + 1
  /\ UNCHANGED <<height, scroll, cursor, frameVars, reloaded, ragged>>

(* pager_reload: an empty buffer, the same cursor and scroll position.     *)
Reload ==
  /\ Idle
  /\ lines' = 1 /\ reloaded' = TRUE /\ ragged' = TRUE
  /\ UNCHANGED <<height, scroll, cursor, frameVars>>

Next ==
  \/ \E f \in Frames : Step(f)
  \/ \E h \in Heights : SetPagerBox(h)
  \/ Move \/ Grow \/ Reload

Spec == Init /\ [][Next]_vars
-----------------------------------------------------------------------------
Places == {"idle", "entry", "too_far", "last_screen", "store", "above", "below", "follow_up", "follow_down"}

(* Types.  A position may wrap around, where a signal made the screen      *)
(* taller than the buffer between the test and the subtraction.            *)
Position == 0 .. 2 * HalfRange - 1
TypeOK ==
  /\ lines \in 1..MaxLines /\ height \in Heights
  /\ scroll \in Position /\ cursor \in 0..MaxLines-1
  /\ function \in [Frames -> {"none", "move_cursor_to", "scroll_to"}]
  /\ at \in [Frames -> Places] /\ arg \in [Frames -> Int]
  /\ seen \subseteq [cursor : 0..MaxLines-1, scroll : Position]
  /\ calls \in [Frames -> Nat] /\ interrupts \in 0..MaxInterrupts
  /\ struck \in BOOLEAN /\ reloaded \in BOOLEAN /\ ragged \in BOOLEAN

(* Whenever no call is in progress the cursor is on the screen, whatever   *)
(* the signal handler did in the middle of a move; and the screen is full  *)
(* of lines or starts at the first, unless the position was last set in a  *)
(* buffer with fewer lines than rows, or reloaded, or was tested against   *)
(* one height and set after a signal that changed it.                      *)
OnScreen ==
  Idle =>
    /\ scroll <= cursor /\ cursor < scroll + height
    /\ ~ragged => scroll = 0 \/ scroll + height <= lines

(* The cursor is on a line of the buffer, but between a reload and the     *)
(* next time it is moved.                                                  *)
CursorInBuffer == cursor < lines \/ reloaded

(* Every operation ends: it makes at most three calls of the two functions *)
(* and two more for each signal that comes in between.                     *)
FewCalls == calls["handler"] <= 3 /\ calls["main"] <= 3 + 2 * interrupts
=============================================================================
