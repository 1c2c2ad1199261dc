--------------------------- MODULE PagerViewProofs ---------------------------
(***************************************************************************)
(* Theorems about PagerView, for every buffer, screen and argument.        *)
(*                                                                         *)
(* That the calls are few is proved with a rank: how many more calls a     *)
(* frame will make if no signal comes any more.  A frame that was          *)
(* interrupted finds the cursor on the screen, but may test what it read   *)
(* before; from then on it makes at most two calls.                        *)
(***************************************************************************)
EXTENDS PagerView, TLAPS

Sees(s, c) == s <= c /\ c < s + height

Clamped(a) == IF a < 0 THEN 0 ELSE IF a > lines - 1 THEN lines - 1 ELSE a
FirstOfLast == IF lines > height THEN lines - height ELSE 0
Landing(a) == IF a < 0 THEN 0 ELSE IF a > Wrapped(lines - height) THEN FirstOfLast ELSE a

(* Calls to come after a move and after a scroll, and from each place.     *)
MoveRank(s, a) == IF Sees(s, Clamped(a)) THEN 0 ELSE 1
Row(s) == Signed(IF cursor < s THEN s ELSE Wrapped(s + height - 1))
ScrollRank(s) == IF Sees(s, cursor) THEN 0 ELSE 1 + MoveRank(s, Row(s))
TestRank(f) ==
  IF function[f] # "move_cursor_to" THEN ScrollRank(scroll)
  ELSE IF Sees(scroll, cursor) THEN 0 ELSE 1

UpRank(f) ==
  1 + IF function[f] = "move_cursor_to" THEN ScrollRank(Landing(Signed(cursor)))
      ELSE MoveRank(scroll, Signed(scroll))
DownRank(f) ==
  1 + IF function[f] = "move_cursor_to"
      THEN ScrollRank(Landing(Signed(Wrapped(cursor - (height - 1)))))
      ELSE MoveRank(scroll, Signed(Wrapped(scroll + height - 1)))

Rank(f) ==
  IF at[f] = "entry" THEN IF function[f] = "move_cursor_to" THEN MoveRank(scroll, arg[f])
                          ELSE ScrollRank(Landing(arg[f]))
  ELSE IF at[f] = "too_far" THEN ScrollRank(FirstOfLast)
  ELSE IF at[f] = "last_screen" THEN ScrollRank(Wrapped(lines - height))
  ELSE IF at[f] = "store" THEN ScrollRank(arg[f])
  ELSE IF at[f] \in {"above", "below"} THEN TestRank(f)
  ELSE IF at[f] = "follow_up" THEN UpRank(f)
  ELSE IF at[f] = "follow_down" THEN DownRank(f)
  ELSE 0
-----------------------------------------------------------------------------
(* The screen is full unless a frame is about to set the scroll position,  *)
(* and what it is about to set makes it full.                              *)
Full(s) == s = 0 \/ s + height <= lines
Scrolling == {"too_far", "last_screen", "store"}
Setting(f) == function[f] = "scroll_to" /\ at[f] \in Scrolling \cup {"entry"}
FullInv ==
  /\ ~ragged /\ (\A f \in Frames : ~Setting(f)) => Full(scroll)
  /\ \A f \in Frames :
       at[f] = "store" /\ lines >= height /\ (f = "handler" \/ ~struck) => Full(arg[f])

Signeds == -HalfRange .. HalfRange - 1
ArgInv ==
  \A f \in Frames :
    /\ at[f] = "entry" => arg[f] \in Signeds /\ function[f] # "none"
    /\ at[f] \in Scrolling => arg[f] \in Position /\ function[f] = "scroll_to"

(* Unless a signal came, the main frame has read what is there now.        *)
SeenInv ==
  /\ at["main"] = "idle" => seen = {}
  /\ at["main"] # "idle" /\ at["handler"] = "idle" =>
       seen = {Now} \/ (Now \in seen /\ Sees(scroll, cursor))
  /\ Idle => Sees(scroll, cursor)
  /\ \A f \in Frames : Running(f, "below") => scroll <= cursor

(* A cursor that was just set is in the buffer.                            *)
Moved(f) == function[f] = "move_cursor_to" /\ at[f] \notin {"idle", "entry"}
PlacesInv ==
  /\ \A f \in Frames : Moved(f) => cursor < lines
  /\ Moved("main") => \A r \in seen : r.cursor < lines

Fresh(f) == f = "main" => at["handler"] = "idle" /\ seen \subseteq {Now}
RankInv ==
  /\ \A f \in Frames : at[f] = "idle" => calls[f] = 0
  /\ calls["handler"] + Rank("handler") <= 3
  /\ calls["main"] + (IF Fresh("main") THEN Rank("main") ELSE 2) <= 3 + 2 * interrupts

IInv == TypeOK /\ FullInv /\ ArgInv /\ SeenInv /\ PlacesInv /\ CursorInBuffer /\ RankInv
-----------------------------------------------------------------------------
LEMMA Sizes ==
  ASSUME TypeOK
  PROVE  /\ MaxLines \in Nat /\ HalfRange \in Nat /\ height \in Nat \ {0}
         /\ 2 * MaxLines + 2 * height < HalfRange
         /\ lines \in Nat /\ 1 <= lines /\ lines <= MaxLines
         /\ cursor \in Nat /\ cursor < MaxLines /\ scroll \in Nat /\ scroll < 2 * HalfRange
BY ConstantsAssumption DEF TypeOK, Position

(* Conversions.                                                            *)
LEMMA Conversions ==
  ASSUME TypeOK
  PROVE  /\ \A x \in Signeds : Wrapped(x) \in Position /\ Signed(Wrapped(x)) = x
         /\ \A x \in Position : Signed(x) \in Signeds
         /\ \A x \in Position : x + height - 1 < 2 * HalfRange => Wrapped(x + height - 1) = x + height - 1
         /\ \A x \in Position : Wrapped(x + height - 1) \in Position
         /\ Wrapped(lines - height) \in Position
BY Sizes DEF Signeds, Position, Wrapped, Signed

(* Where the clamps of both functions come out.                            *)
LEMMA ClampInBuffer ==
  ASSUME TypeOK, NEW a \in Int
  PROVE  Clamped(a) \in 0..lines-1 /\ (a \in 0..lines-1 => Clamped(a) = a)
BY Sizes DEF Clamped

LEMMA LandingIsFull ==
  ASSUME TypeOK, NEW a \in Signeds
  PROVE  /\ Landing(a) \in Position
         /\ lines >= height => Full(Landing(a))
         /\ a < lines => Landing(a) < lines
BY Sizes DEF Landing, FirstOfLast, Wrapped, Full, Position, Signeds

(* A cursor in the buffer that is scrolled to is on the screen.            *)
LEMMA ScrollFindsCursor ==
  ASSUME TypeOK, cursor < lines
  PROVE  /\ Sees(Landing(cursor), cursor)
         /\ cursor >= scroll + height => Sees(Landing(cursor - (height - 1)), cursor)
BY Sizes DEF Landing, FirstOfLast, Wrapped, Sees

LEMMA MoveRankBound ==
  ASSUME NEW s, NEW a
  PROVE  MoveRank(s, a) \in 0..1
BY DEF MoveRank

LEMMA ScrollRankBound ==
  ASSUME TypeOK, NEW s \in Position
  PROVE  ScrollRank(s) \in 0..2 /\ (cursor < lines /\ s < lines => ScrollRank(s) \in 0..1)
<1>1. ScrollRank(s) \in 0..2
  BY MoveRankBound DEF ScrollRank
<1>2. ASSUME cursor < lines, s < lines, ~Sees(s, cursor)
      PROVE  MoveRank(s, Row(s)) = 0
  <2>1. s \in 0..lines-1 /\ lines < HalfRange /\ s \in Nat
    BY <1>2, Sizes DEF Position
  <2>2. CASE cursor < s
    <3>1. Row(s) = s
      BY <2>1, <2>2, Sizes DEF Row, Signed
    <3>2. Clamped(s) = s
      BY <2>1, ClampInBuffer
    <3> QED
      BY <2>1, <3>1, <3>2, Sizes DEF MoveRank, Sees
  <2>3. CASE ~(cursor < s)
    <3>1. s + height - 1 < cursor /\ s + height - 1 \in 0..lines-1
      BY <1>2, <2>1, <2>3, Sizes DEF Sees
    <3>2. Row(s) = s + height - 1
      BY <2>1, <2>3, <3>1, Sizes DEF Row, Signed, Wrapped
    <3>3. Clamped(s + height - 1) = s + height - 1
      BY <3>1, ClampInBuffer
    <3> QED
      BY <2>1, <3>2, <3>3, Sizes DEF MoveRank, Sees
  <2> QED
    BY <2>2, <2>3
<1> QED
  BY <1>1, <1>2 DEF ScrollRank

LEMMA RankBound ==
  ASSUME TypeOK, ArgInv, PlacesInv, NEW f \in Frames
  PROVE  Rank(f) \in 0..2
<1>1. scroll \in Position /\ cursor \in Signeds /\ cursor - (height - 1) \in Signeds
  BY Sizes DEF TypeOK, Signeds
<1>2. CASE at[f] = "entry"
  <2>1. Landing(arg[f]) \in Position
    BY <1>2, LandingIsFull DEF ArgInv
  <2> QED
    BY <1>2, <2>1, MoveRankBound, ScrollRankBound DEF Rank
<1>3. CASE at[f] \in Scrolling
  <2>1. FirstOfLast \in Position /\ Wrapped(lines - height) \in Position /\ arg[f] \in Position
    BY <1>3, Sizes, Conversions DEF FirstOfLast, Position, ArgInv
  <2> QED
    BY <1>3, <2>1, ScrollRankBound DEF Rank, Scrolling
<1>4. CASE at[f] \in {"above", "below"}
  BY <1>1, <1>4, ScrollRankBound DEF Rank, TestRank
<1>5. CASE at[f] \in {"follow_up", "follow_down"}
  <2>1. CASE function[f] = "move_cursor_to"
    <3>1. cursor < lines
      BY <1>5, <2>1 DEF PlacesInv, Moved
    <3>2. Signed(cursor) = cursor /\ Signed(Wrapped(cursor - (height - 1))) = cursor - (height - 1)
      BY <1>1, Conversions, Sizes DEF Signed
    <3>3. /\ Landing(cursor) \in Position /\ Landing(cursor) < lines
          /\ Landing(cursor - (height - 1)) \in Position /\ Landing(cursor - (height - 1)) < lines
      BY <1>1, <3>1, LandingIsFull, Sizes
    <3> QED
      BY <1>5, <2>1, <3>1, <3>2, <3>3, ScrollRankBound DEF Rank, UpRank, DownRank
  <2>2. CASE function[f] # "move_cursor_to"
    BY <1>5, <2>2, MoveRankBound DEF Rank, UpRank, DownRank
  <2> QED
    BY <2>1, <2>2
<1>6. CASE at[f] = "idle"
  BY <1>6 DEF Rank
<1> QED
  BY <1>2, <1>3, <1>4, <1>5, <1>6 DEF TypeOK, Places, Scrolling
LEMMA RanksBounded == TypeOK /\ ArgInv /\ PlacesInv => \A f \in Frames : Rank(f) \in 0..2
BY RankBound
LEMMA RanksBoundedNext ==
  (TypeOK /\ ArgInv /\ PlacesInv)' => \A f \in Frames : Rank(f)' \in 0..2
<1>1. (TypeOK /\ ArgInv /\ PlacesInv => \A f \in Frames : Rank(f) \in 0..2)'
  BY RanksBounded, PTL
<1> QED
  BY <1>1

(* The ranks depend on the buffer, the screen and the cursor only.         *)
LEMMA TestRankSame ==
  ASSUME UNCHANGED <<lines, height, scroll, cursor, function>>, NEW f
  PROVE  TestRank(f)' = TestRank(f)
BY DEF TestRank, ScrollRank, MoveRank, Row, Sees, Clamped

LEMMA UpRankSame ==
  ASSUME UNCHANGED <<lines, height, scroll, cursor, function>>, NEW f
  PROVE  UpRank(f)' = UpRank(f)
<1> DEFINE a == Landing(Signed(cursor))
<1>1. a' = a
  BY DEF Landing, FirstOfLast
<1>2. ScrollRank(a)' = ScrollRank(a)
  <2> HIDE DEF a
  <2> QED
    BY <1>1 DEF ScrollRank, MoveRank, Row, Sees, Clamped
<1>3. MoveRank(scroll, Signed(scroll))' = MoveRank(scroll, Signed(scroll))
  BY DEF MoveRank, Sees, Clamped
<1> QED
  BY <1>2, <1>3 DEF UpRank

LEMMA DownRankSame ==
  ASSUME UNCHANGED <<lines, height, scroll, cursor, function>>, NEW f
  PROVE  DownRank(f)' = DownRank(f)
<1> DEFINE a == Landing(Signed(Wrapped(cursor - (height - 1))))
           b == Signed(Wrapped(scroll + height - 1))
<1>1. a' = a /\ b' = b
  BY DEF Landing, FirstOfLast
<1>2. ScrollRank(a)' = ScrollRank(a) /\ MoveRank(scroll, b)' = MoveRank(scroll, b)
  <2> HIDE DEF a, b
  <2> QED
    BY <1>1 DEF ScrollRank, MoveRank, Row, Sees, Clamped
<1> QED
  BY <1>2 DEF DownRank

(* A frame that finds the cursor off the screen has its calls still to     *)
(* come.                                                                   *)
LEMMA UpRankIsTestRank ==
  ASSUME TypeOK, NEW f \in Frames, cursor < scroll, function[f] = "move_cursor_to" => cursor < lines
  PROVE  UpRank(f) = TestRank(f)
<1>1. ~Sees(scroll, cursor)
  BY Sizes DEF Sees
<1>2. CASE function[f] = "move_cursor_to"
  <2>1. Signed(cursor) = cursor
    BY Sizes DEF Signed
  <2>2. ScrollRank(Landing(cursor)) = 0
    BY <1>2, ScrollFindsCursor DEF ScrollRank
  <2> QED
    BY <1>1, <1>2, <2>1, <2>2 DEF UpRank, TestRank
<1>3. CASE function[f] # "move_cursor_to"
  BY <1>1, <1>3 DEF UpRank, TestRank, ScrollRank, Row
<1> QED
  BY <1>2, <1>3

LEMMA DownRankIsTestRank ==
  ASSUME TypeOK, NEW f \in Frames, scroll <= cursor, scroll + height <= cursor,
         function[f] = "move_cursor_to" => cursor < lines
  PROVE  DownRank(f) = TestRank(f)
<1>1. ~Sees(scroll, cursor) /\ ~(cursor < scroll)
  BY Sizes DEF Sees
<1>2. CASE function[f] = "move_cursor_to"
  <2>1. Signed(Wrapped(cursor - (height - 1))) = cursor - (height - 1)
    BY Sizes DEF Signed, Wrapped
  <2>2. ScrollRank(Landing(cursor - (height - 1))) = 0
    BY <1>2, ScrollFindsCursor, Sizes DEF ScrollRank
  <2> QED
    BY <1>1, <1>2, <2>1, <2>2 DEF DownRank, TestRank
<1>3. CASE function[f] # "move_cursor_to"
  BY <1>1, <1>3 DEF DownRank, TestRank, ScrollRank, Row
<1> QED
  BY <1>2, <1>3
-----------------------------------------------------------------------------
(* What going on, a call and a return do to the frames.                    *)
LEMMA GoesFacts ==
  ASSUME TypeOK, NEW f \in Frames, NEW place \in Places, NEW a \in Int, Goes(f, place, a),
         cursor' \in 0..MaxLines-1, scroll' \in Position
  PROVE  /\ function' = function /\ calls' = calls /\ interrupts' = interrupts
         /\ at' \in [Frames -> Places] /\ arg' \in [Frames -> Int]
         /\ seen' \subseteq [cursor : 0..MaxLines-1, scroll : Position]
         /\ seen' = IF f = "main" THEN {Now'} ELSE seen
         /\ at'[f] = place /\ arg'[f] = a
         /\ \A g \in Frames : g # f => at'[g] = at[g] /\ arg'[g] = arg[g]
BY DEF Goes, TypeOK, Now

LEMMA CallFacts ==
  ASSUME TypeOK, NEW f \in Frames, NEW name \in {"move_cursor_to", "scroll_to"}, NEW a \in Int,
         Call(f, name, a)
  PROVE  /\ function' \in [Frames -> {"none", "move_cursor_to", "scroll_to"}]
         /\ at' \in [Frames -> Places] /\ arg' \in [Frames -> Int]
         /\ calls' \in [Frames -> Nat] /\ interrupts' = interrupts
         /\ seen' \subseteq [cursor : 0..MaxLines-1, scroll : Position]
         /\ seen' = IF f = "main" THEN {Now} ELSE seen
         /\ function'[f] = name /\ at'[f] = "entry" /\ arg'[f] = a /\ calls'[f] <= calls[f] + 1
         /\ \A g \in Frames : g # f => /\ function'[g] = function[g] /\ at'[g] = at[g]
                                      /\ arg'[g] = arg[g] /\ calls'[g] = calls[g]
<1>1. Now \in [cursor : 0..MaxLines-1, scroll : Position]
  BY DEF TypeOK, Now
<1>2. calls' \in [Frames -> Nat] /\ calls'[f] <= calls[f] + 1
      /\ \A g \in Frames : g # f => calls'[g] = calls[g]
  BY ConstantsAssumption DEF Call, TypeOK
<1>3. /\ function' \in [Frames -> {"none", "move_cursor_to", "scroll_to"}]
      /\ at' \in [Frames -> Places] /\ arg' \in [Frames -> Int]
      /\ function'[f] = name /\ at'[f] = "entry" /\ arg'[f] = a
      /\ \A g \in Frames : g # f => function'[g] = function[g] /\ at'[g] = at[g] /\ arg'[g] = arg[g]
  BY DEF Call, TypeOK, Places
<1> QED
  BY <1>1, <1>2, <1>3 DEF Call, TypeOK

LEMMA ReturnFacts ==
  ASSUME TypeOK, NEW f \in Frames, Return(f)
  PROVE  /\ function' \in [Frames -> {"none", "move_cursor_to", "scroll_to"}]
         /\ at' \in [Frames -> Places] /\ arg' \in [Frames -> Int]
         /\ calls' \in [Frames -> Nat] /\ interrupts' \in 0..MaxInterrupts
         /\ seen' \subseteq [cursor : 0..MaxLines-1, scroll : Position]
         /\ seen' = IF f = "main" \/ at["main"] = "idle" THEN {} ELSE seen \cup {Now}
         /\ interrupts' = IF f = "main" THEN 0 ELSE interrupts
         /\ at'[f] = "idle" /\ calls'[f] = 0
         /\ \A g \in Frames : g # f => /\ function'[g] = function[g] /\ at'[g] = at[g]
                                      /\ arg'[g] = arg[g] /\ calls'[g] = calls[g]
<1>1. Now \in [cursor : 0..MaxLines-1, scroll : Position]
  BY DEF TypeOK, Now
<1>2. /\ function' \in [Frames -> {"none", "move_cursor_to", "scroll_to"}]
      /\ at' \in [Frames -> Places] /\ arg' \in [Frames -> Int] /\ calls' \in [Frames -> Nat]
      /\ at'[f] = "idle" /\ calls'[f] = 0
      /\ \A g \in Frames : g # f => /\ function'[g] = function[g] /\ at'[g] = at[g]
                                   /\ arg'[g] = arg[g] /\ calls'[g] = calls[g]
  BY DEF Return, TypeOK, Places
<1> QED
  BY <1>1, <1>2, ConstantsAssumption DEF Return, TypeOK

(* Where the scroll position stays, what matters is the frame that steps.  *)
LEMMA FullKept ==
  ASSUME FullInv, NEW f \in Frames, UNCHANGED <<lines, height, scroll, ragged, struck>>,
         \A g \in Frames : g # f => /\ function'[g] = function[g] /\ at'[g] = at[g]
                                  /\ arg'[g] = arg[g],
         Setting(f) => Setting(f)',
         at'[f] = "store" /\ lines >= height /\ (f = "handler" \/ ~struck) => Full(arg'[f])
  PROVE  FullInv'
<1>1. ASSUME \A g \in Frames : ~Setting(g)'
      PROVE  \A g \in Frames : ~Setting(g)
  BY <1>1 DEF Setting
<1>2. (~ragged /\ (\A g \in Frames : ~Setting(g)) => Full(scroll))'
  BY <1>1 DEF FullInv, Full
<1>3. ASSUME NEW g \in Frames, at'[g] = "store", lines >= height, g = "handler" \/ ~struck
      PROVE  Full(arg[g])'
  BY <1>3 DEF FullInv, Full
<1> QED
  BY <1>2, <1>3 DEF FullInv

(* The rank, where a frame goes on or calls: never more calls to come than *)
(* there were, and at most two in all once it may have been interrupted.   *)
LEMMA RankStep ==
  ASSUME IInv, TypeOK', NEW f \in Frames, at[f] # "idle", at'[f] # "idle",
         f = "main" => at["handler"] = "idle" /\ seen' = {Now'},
         f = "handler" => seen' = seen,
         interrupts' = interrupts,
         \A g \in Frames : g # f => at'[g] = at[g] /\ calls'[g] = calls[g],
         Rank(f)' \in Nat,
         Fresh(f) => calls'[f] + Rank(f)' <= calls[f] + Rank(f),
         calls'[f] + Rank(f)' <= calls[f] + 2
  PROVE  RankInv'
<1> USE DEF IInv
<1>1. /\ calls["main"] \in Nat /\ calls["handler"] \in Nat /\ interrupts \in Nat
      /\ calls'["main"] \in Nat /\ calls'["handler"] \in Nat
  BY ConstantsAssumption DEF TypeOK, Frames
<1>2. Rank("main") \in 0..2 /\ Rank("handler") \in 0..2
  BY RankBound DEF Frames
<1>3. \A g \in Frames : at'[g] = "idle" => calls'[g] = 0
  BY DEF RankInv
<1>4. CASE f = "main"
  <2>1. Rank("handler")' = 0 /\ Fresh("main")' /\ calls'["handler"] = 0
    BY <1>4 DEF Rank, Fresh, Frames, RankInv
  <2> QED
    BY <1>1, <1>2, <1>3, <1>4, <2>1 DEF RankInv
<1>5. CASE f = "handler"
  <2>1. Fresh("handler") /\ ~Fresh("main") /\ ~Fresh("main")' /\ calls'["main"] = calls["main"]
    BY <1>5 DEF Fresh, Frames
  <2> QED
    BY <1>1, <1>2, <1>3, <1>5, <2>1 DEF RankInv
<1> QED
  BY <1>4, <1>5 DEF Frames

(* A frame that goes on.                                                   *)
LEMMA GoesInvariant ==
  ASSUME IInv, NEW f \in Frames, at[f] # "idle", f = "main" => at["handler"] = "idle",
         NEW place \in Places \ {"idle", "entry"}, NEW a \in Int, Goes(f, place, a),
         UNCHANGED <<lines, height>>,
         cursor' \in 0..MaxLines-1, scroll' \in Position,
         struck' \in BOOLEAN, reloaded' \in BOOLEAN, ragged' \in BOOLEAN,
         FullInv', CursorInBuffer',
         place \in Scrolling => a \in Position /\ function[f] = "scroll_to",
         place = "below" => scroll' <= cursor',
         function[f] = "move_cursor_to" => cursor' < lines,
         cursor < lines => cursor' < lines,
         Fresh(f) => Rank(f)' <= Rank(f)
  PROVE  IInv'
<1> USE DEF IInv
<1>1. /\ function' = function /\ calls' = calls /\ interrupts' = interrupts
      /\ at' \in [Frames -> Places] /\ arg' \in [Frames -> Int]
      /\ seen' \subseteq [cursor : 0..MaxLines-1, scroll : Position]
      /\ seen' = IF f = "main" THEN {Now'} ELSE seen
      /\ at'[f] = place /\ arg'[f] = a
      /\ \A g \in Frames : g # f => at'[g] = at[g] /\ arg'[g] = arg[g]
  BY GoesFacts
<1>2. TypeOK'
  BY <1>1 DEF TypeOK
<1>3. ArgInv'
  BY <1>1 DEF ArgInv, Signeds, Position
<1>4. SeenInv'
  <2>1. /\ at'["main"] = "idle" => seen' = {}
        /\ at'["main"] # "idle" /\ at'["handler"] = "idle" => seen' = {Now'}
        /\ ~Idle'
    BY <1>1 DEF SeenInv, Idle, Frames
  <2>2. ASSUME NEW g \in Frames, Running(g, "below")'
        PROVE  scroll' <= cursor'
    <3>1. g = f
      BY <1>1, <2>2 DEF Running, Frames
    <3> QED
      BY <1>1, <2>2, <3>1 DEF Running
  <2> QED
    BY <2>1, <2>2 DEF SeenInv
<1>5. PlacesInv'
  <2>1. CASE f = "main"
    BY <1>1, <2>1 DEF PlacesInv, Moved, Frames, Now
  <2>2. CASE f = "handler"
    BY <1>1, <2>2 DEF PlacesInv, Moved, Frames
  <2> QED
    BY <2>1, <2>2 DEF Frames
<1>6. RankInv'
  <2>1. Rank(f)' \in 0..2
    BY <1>2, <1>3, <1>5, RanksBoundedNext
  <2>2. Rank(f) \in 0..2 /\ calls[f] \in Nat
    BY RankBound DEF TypeOK
  <2> QED
    BY <1>1, <1>2, <2>1, <2>2, RankStep DEF Frames
<1> QED
  BY <1>2, <1>3, <1>4, <1>5, <1>6

(* A frame that calls on uses up one of its calls.                         *)
LEMMA CallInvariant ==
  ASSUME IInv, NEW f \in Frames, f = "main" => at["handler"] = "idle",
         at[f] \in {"follow_up", "follow_down"},
         NEW name \in {"move_cursor_to", "scroll_to"}, NEW a \in Signeds, Call(f, name, a),
         UNCHANGED <<lines, height, scroll, cursor, reloaded, ragged, struck>>,
         Rank(f)' \in 0..1,
         Fresh(f) => Rank(f)' < Rank(f)
  PROVE  IInv'
<1> USE DEF IInv
<1>0. a \in Int
  BY Sizes DEF Signeds
<1>1. /\ function' \in [Frames -> {"none", "move_cursor_to", "scroll_to"}]
      /\ at' \in [Frames -> Places] /\ arg' \in [Frames -> Int]
      /\ calls' \in [Frames -> Nat] /\ interrupts' = interrupts
      /\ seen' \subseteq [cursor : 0..MaxLines-1, scroll : Position]
      /\ seen' = IF f = "main" THEN {Now} ELSE seen
      /\ function'[f] = name /\ at'[f] = "entry" /\ arg'[f] = a /\ calls'[f] <= calls[f] + 1
      /\ \A g \in Frames : g # f => /\ function'[g] = function[g] /\ at'[g] = at[g]
                                   /\ arg'[g] = arg[g] /\ calls'[g] = calls[g]
  BY <1>0, CallFacts
<1>2. TypeOK'
  BY <1>1 DEF TypeOK
<1>3. FullInv'
  BY <1>1, FullKept DEF Setting, Scrolling
<1>4. ArgInv' /\ CursorInBuffer'
  BY <1>1 DEF ArgInv, Signeds, Position, CursorInBuffer, Scrolling
<1>5. SeenInv'
  <2>1. /\ at'["main"] = "idle" => seen' = {}
        /\ at'["main"] # "idle" /\ at'["handler"] = "idle" => seen' = {Now'}
        /\ ~Idle'
    BY <1>1 DEF SeenInv, Idle, Frames, Now
  <2>2. ASSUME NEW g \in Frames, Running(g, "below")'
        PROVE  FALSE
    BY <1>1, <2>2 DEF Running, Frames
  <2> QED
    BY <2>1, <2>2 DEF SeenInv
<1>6. PlacesInv'
  BY <1>1 DEF PlacesInv, Moved, Frames
<1>7. RankInv'
  <2>1. Now' = Now
    BY DEF Now
  <2>2. calls'[f] \in Nat /\ calls[f] \in Nat /\ Rank(f) \in 0..2
    BY <1>1, RankBound DEF TypeOK
  <2> QED
    BY <1>1, <1>2, <2>1, <2>2, RankStep DEF Frames
<1> QED
  BY <1>2, <1>3, <1>4, <1>5, <1>6, <1>7

(* The two ways to call.                                                   *)
LEMMA CallScrollInvariant ==
  ASSUME IInv, NEW f \in Frames, f = "main" => at["handler"] = "idle",
         at[f] \in {"follow_up", "follow_down"},
         NEW a \in Signeds, a < lines, cursor < lines, Call(f, "scroll_to", a),
         UNCHANGED <<lines, height, scroll, cursor, reloaded, ragged, struck>>,
         Fresh(f) => Rank(f) = 1 + ScrollRank(Landing(a))
  PROVE  IInv'
<1> USE DEF IInv
<1>1. function'[f] = "scroll_to" /\ at'[f] = "entry" /\ arg'[f] = a
  BY Sizes, CallFacts DEF Signeds
<1>2. Rank(f)' = ScrollRank(Landing(a))
  <2>1. Rank(f)' = ScrollRank(Landing(a))'
    BY <1>1 DEF Rank, ScrollRank, MoveRank, Row, Sees, Clamped, Landing, FirstOfLast
  <2> QED
    BY <2>1 DEF ScrollRank, MoveRank, Row, Sees, Clamped, Landing, FirstOfLast
<1>3. ScrollRank(Landing(a)) \in 0..1
  BY LandingIsFull, ScrollRankBound
<1> QED
  BY <1>2, <1>3, CallInvariant

LEMMA CallMoveInvariant ==
  ASSUME IInv, NEW f \in Frames, f = "main" => at["handler"] = "idle",
         at[f] \in {"follow_up", "follow_down"},
         NEW a \in Signeds, Call(f, "move_cursor_to", a),
         UNCHANGED <<lines, height, scroll, cursor, reloaded, ragged, struck>>,
         Fresh(f) => Rank(f) = 1 + MoveRank(scroll, a)
  PROVE  IInv'
<1> USE DEF IInv
<1>1. function'[f] = "move_cursor_to" /\ at'[f] = "entry" /\ arg'[f] = a
  BY Sizes, CallFacts DEF Signeds
<1>2. Rank(f)' = MoveRank(scroll, a)
  BY <1>1 DEF Rank, MoveRank, Sees, Clamped
<1>3. MoveRank(scroll, a) \in 0..1
  BY MoveRankBound
<1> QED
  BY <1>2, <1>3, CallInvariant

(* A frame that returns leaves the cursor on the screen.                   *)
LEMMA ReturnInvariant ==
  ASSUME IInv, NEW f \in Frames, f = "main" => at["handler"] = "idle",
         at[f] = "below", Sees(scroll, cursor), Return(f),
         UNCHANGED <<lines, height, scroll, cursor, reloaded, ragged, struck>>
  PROVE  IInv'
<1> USE DEF IInv
<1>1. /\ function' \in [Frames -> {"none", "move_cursor_to", "scroll_to"}]
      /\ at' \in [Frames -> Places] /\ arg' \in [Frames -> Int]
      /\ calls' \in [Frames -> Nat] /\ interrupts' \in 0..MaxInterrupts
      /\ seen' \subseteq [cursor : 0..MaxLines-1, scroll : Position]
      /\ seen' = IF f = "main" \/ at["main"] = "idle" THEN {} ELSE seen \cup {Now}
      /\ interrupts' = IF f = "main" THEN 0 ELSE interrupts
      /\ at'[f] = "idle" /\ calls'[f] = 0
      /\ \A g \in Frames : g # f => /\ function'[g] = function[g] /\ at'[g] = at[g]
                                   /\ arg'[g] = arg[g] /\ calls'[g] = calls[g]
  BY ReturnFacts
<1>2. TypeOK'
  BY <1>1 DEF TypeOK
<1>3. FullInv'
  BY <1>1, FullKept DEF Setting, Scrolling
<1>4. ArgInv' /\ CursorInBuffer'
  BY <1>1 DEF ArgInv, Signeds, Position, CursorInBuffer, Scrolling
<1>5. SeenInv'
  <2>1. Now' = Now /\ Sees(scroll, cursor)'
    BY DEF Now, Sees
  <2>2. scroll' <= cursor'
    BY DEF Sees
  <2>3. /\ at'["main"] = "idle" => seen' = {}
        /\ at'["main"] # "idle" /\ at'["handler"] = "idle" => Now' \in seen'
    BY <1>1, <2>1 DEF SeenInv, Frames
  <2> QED
    BY <2>1, <2>2, <2>3 DEF SeenInv
<1>6. PlacesInv'
  <2>1. CASE f = "main"
    BY <1>1, <2>1 DEF PlacesInv, Moved, Frames
  <2>2. CASE f = "handler"
    BY <1>1, <2>2 DEF PlacesInv, Moved, Frames, Now
  <2> QED
    BY <2>1, <2>2 DEF Frames
<1>7. RankInv'
  <2>1. Rank("main")' \in 0..2 /\ Rank(f)' = 0
    <3>1. \A g \in Frames : Rank(g)' \in 0..2
      BY <1>2, <1>4, <1>6, RanksBoundedNext
    <3> QED
      BY <1>1, <3>1 DEF Rank, Frames
  <2>2. CASE f = "main"
    <3>1. Rank("handler")' = Rank("handler") /\ calls'["handler"] = calls["handler"] /\ Fresh("main")'
      BY <1>1, <2>2 DEF Rank, Frames, Fresh, SeenInv
    <3> QED
      BY <1>1, <2>1, <2>2, <3>1 DEF RankInv, Frames
  <2>3. CASE f = "handler"
    <3>1. ~Fresh("main") /\ calls'["main"] = calls["main"] /\ at'["main"] = at["main"] /\ interrupts' = interrupts
      BY <1>1, <2>3 DEF Fresh, Frames
    <3>2. calls["main"] \in Nat /\ interrupts \in Nat
      BY ConstantsAssumption DEF TypeOK, Frames
    <3> QED
      BY <1>1, <2>1, <2>3, <3>1, <3>2 DEF RankInv, Frames
  <2> QED
    BY <2>2, <2>3 DEF Frames
<1> QED
  BY <1>2, <1>3, <1>4, <1>5, <1>6, <1>7
-----------------------------------------------------------------------------
(* One lemma per action.                                                   *)
LEMMA MoveCursorToInvariant ==
  ASSUME IInv, NEW f \in Frames, MoveCursorTo(f)
  PROVE  IInv'
<1> USE DEF IInv
<1>1. cursor' = Clamped(arg[f]) /\ cursor' \in 0..lines-1 /\ cursor' \in 0..MaxLines-1
  BY ClampInBuffer, Sizes DEF MoveCursorTo, Clamped, TypeOK
<1>2. /\ Running(f, "entry") /\ function[f] = "move_cursor_to" /\ Goes(f, "above", 0)
      /\ UNCHANGED <<lines, height, scroll, ragged, struck>> /\ reloaded' = FALSE
  BY DEF MoveCursorTo
<1>3. function' = function /\ at'[f] = "above"
      /\ \A g \in Frames : g # f => at'[g] = at[g] /\ arg'[g] = arg[g]
  BY <1>1, <1>2, GoesFacts DEF Places, TypeOK
<1>4. FullInv'
  BY <1>2, <1>3, FullKept DEF Setting, Running
<1>5. Rank(f)' = Rank(f)
  BY <1>1, <1>2, <1>3 DEF Rank, TestRank, MoveRank, Sees, Running
<1>6. cursor' < lines /\ CursorInBuffer'
  BY <1>1, <1>2, Sizes DEF CursorInBuffer
<1>7. Rank(f)' <= Rank(f)
  BY <1>5, RankBound
<1>8. /\ at[f] # "idle" /\ (f = "main" => at["handler"] = "idle") /\ scroll' \in Position
      /\ struck' \in BOOLEAN /\ reloaded' \in BOOLEAN /\ ragged' \in BOOLEAN
  BY <1>2 DEF Running, TypeOK
<1>9. "above" \in Places \ {"idle", "entry"} /\ "above" \notin Scrolling /\ 0 \in Int
  BY DEF Places, Scrolling
<1> QED
  BY <1>1, <1>2, <1>4, <1>6, <1>7, <1>8, <1>9, GoesInvariant

LEMMA ScrollToTopInvariant ==
  ASSUME IInv, NEW f \in Frames, ScrollToTop(f)
  PROVE  IInv'
<1> USE DEF IInv
<1>1. /\ Running(f, "entry") /\ function[f] = "scroll_to" /\ arg[f] < 0 /\ Goes(f, "above", 0)
      /\ UNCHANGED <<lines, height, cursor, reloaded, struck>> /\ scroll' = 0 /\ ragged' = FALSE
  BY DEF ScrollToTop
<1>2. scroll' \in Position
  BY <1>1, Sizes DEF Position
<1>3. function' = function /\ at'[f] = "above"
      /\ \A g \in Frames : g # f => at'[g] = at[g] /\ arg'[g] = arg[g]
  BY <1>1, <1>2, GoesFacts DEF Places, TypeOK
<1>4. FullInv'
  BY <1>1, <1>3 DEF FullInv, Full
<1>5. Rank(f)' = Rank(f)
  <2>1. Landing(arg[f]) = 0
    BY <1>1 DEF Landing
  <2> QED
    BY <1>1, <1>3, <2>1 DEF Rank, TestRank, ScrollRank, MoveRank, Row, Sees, Clamped, Wrapped, Signed, Running
<1>6. Rank(f)' <= Rank(f) /\ CursorInBuffer'
  BY <1>1, <1>5, RankBound DEF CursorInBuffer
<1>7. /\ at[f] # "idle" /\ (f = "main" => at["handler"] = "idle") /\ cursor' \in 0..MaxLines-1
      /\ struck' \in BOOLEAN /\ reloaded' \in BOOLEAN /\ ragged' \in BOOLEAN
  BY <1>1 DEF Running, TypeOK
<1>8. "above" \in Places \ {"idle", "entry"} /\ "above" \notin Scrolling /\ 0 \in Int /\ "above" # "below"
  BY DEF Places, Scrolling
<1> QED
  BY <1>1, <1>2, <1>4, <1>6, <1>7, <1>8, GoesInvariant

(* The tests and the difference, before the scroll position is set.        *)
LEMMA BeforeStoreInvariant ==
  ASSUME IInv, NEW f \in Frames, at[f] \in {"entry", "too_far", "last_screen"},
         f = "main" => at["handler"] = "idle", function[f] = "scroll_to",
         UNCHANGED <<lines, height, scroll, cursor, reloaded, ragged, struck>>,
         NEW place \in Scrolling, NEW a \in Position, Goes(f, place, a),
         place = "store" /\ lines >= height => Full(a),
         Rank(f) = IF place = "too_far" THEN ScrollRank(FirstOfLast)
                   ELSE IF place = "last_screen" THEN ScrollRank(Wrapped(lines - height))
                   ELSE ScrollRank(a)
  PROVE  IInv'
<1> USE DEF IInv
<1>1. a \in Int /\ place \in Places \ {"idle", "entry"} /\ place # "below"
  BY Sizes DEF Position, Scrolling, Places
<1>2. function' = function /\ at'[f] = place /\ arg'[f] = a
      /\ \A g \in Frames : g # f => at'[g] = at[g] /\ arg'[g] = arg[g]
  BY <1>1, GoesFacts DEF TypeOK
<1>3. FullInv'
  BY <1>2, FullKept DEF Setting, Scrolling
<1>4. Rank(f)' = Rank(f)
  <2>1. CASE place = "too_far"
    <3>1. Rank(f)' = ScrollRank(FirstOfLast)'
      BY <1>2, <2>1 DEF Rank
    <3> QED
      BY <2>1, <3>1 DEF ScrollRank, MoveRank, Row, Sees, Clamped, FirstOfLast
  <2>2. CASE place = "last_screen"
    <3>1. Rank(f)' = ScrollRank(Wrapped(lines - height))'
      BY <1>2, <2>2 DEF Rank
    <3> QED
      BY <2>2, <3>1 DEF ScrollRank, MoveRank, Row, Sees, Clamped
  <2>3. CASE place = "store"
    <3>1. Rank(f)' = ScrollRank(arg[f])'
      BY <1>2, <2>3 DEF Rank
    <3> QED
      BY <1>2, <2>3, <3>1 DEF ScrollRank, MoveRank, Row, Sees, Clamped
  <2> QED
    BY <2>1, <2>2, <2>3 DEF Scrolling
<1>5. Rank(f)' <= Rank(f) /\ CursorInBuffer'
  BY <1>4, RankBound DEF CursorInBuffer
<1> QED
  BY <1>1, <1>3, <1>5, GoesInvariant DEF TypeOK

LEMMA TestTooFarInvariant ==
  ASSUME IInv, NEW f \in Frames, TestTooFar(f)
  PROVE  IInv'
<1> USE DEF IInv
<1> DEFINE place == IF arg[f] > Wrapped(lines - height) THEN "too_far" ELSE "store"
<1>1. Running(f, "entry") /\ function[f] = "scroll_to" /\ arg[f] \in Position /\ place \in Scrolling
  BY Sizes DEF TestTooFar, Running, ArgInv, Signeds, Position, Scrolling
<1>2. place = "store" /\ lines >= height => Full(arg[f])
  BY <1>1, Sizes DEF Wrapped, Full, Position
<1>3. Rank(f) = IF place = "too_far" THEN ScrollRank(FirstOfLast) ELSE ScrollRank(arg[f])
  BY <1>1 DEF Rank, Running, Landing, Position
<1>4. Goes(f, place, arg[f]) /\ UNCHANGED <<lines, height, scroll, cursor, reloaded, ragged, struck>>
  BY DEF TestTooFar
<1>5. place # "last_screen"
  OBVIOUS
<1> HIDE DEF place
<1> QED
  BY <1>1, <1>2, <1>3, <1>4, <1>5, BeforeStoreInvariant DEF Running

LEMMA TestScreenfulInvariant ==
  ASSUME IInv, NEW f \in Frames, TestScreenful(f)
  PROVE  IInv'
<1> USE DEF IInv
<1> DEFINE place == IF lines > height THEN "last_screen" ELSE "store"
<1>1. Running(f, "too_far") /\ function[f] = "scroll_to" /\ 0 \in Position /\ place \in Scrolling
  BY Sizes DEF TestScreenful, Running, ArgInv, Position, Scrolling
<1>2. Rank(f) = IF place = "last_screen" THEN ScrollRank(Wrapped(lines - height)) ELSE ScrollRank(0)
  BY <1>1, Sizes DEF Rank, Running, FirstOfLast, Wrapped
<1>3. Goes(f, place, 0) /\ UNCHANGED <<lines, height, scroll, cursor, reloaded, ragged, struck>>
  BY DEF TestScreenful
<1>4. Full(0) /\ place # "too_far"
  BY DEF Full
<1> HIDE DEF place
<1> QED
  BY <1>1, <1>2, <1>3, <1>4, BeforeStoreInvariant DEF Running

LEMMA LastScreenInvariant ==
  ASSUME IInv, NEW f \in Frames, LastScreen(f)
  PROVE  IInv'
<1> USE DEF IInv
<1> DEFINE a == Wrapped(lines - height)
<1>1. Running(f, "last_screen") /\ function[f] = "scroll_to" /\ a \in Position
  BY Conversions DEF LastScreen, Running, ArgInv, Scrolling
<1>2. Rank(f) = ScrollRank(a)
  BY <1>1 DEF Rank, Running
<1>3. Goes(f, "store", a) /\ UNCHANGED <<lines, height, scroll, cursor, reloaded, ragged, struck>>
  BY DEF LastScreen
<1>4. lines >= height => Full(a)
  BY Sizes DEF Full, Wrapped
<1> HIDE DEF a
<1> QED
  BY <1>1, <1>2, <1>3, <1>4, BeforeStoreInvariant DEF Running, Scrolling

LEMMA SetScrollInvariant ==
  ASSUME IInv, NEW f \in Frames, SetScroll(f)
  PROVE  IInv'
<1> USE DEF IInv
<1>1. /\ Running(f, "store") /\ Goes(f, "above", 0) /\ scroll' = arg[f]
      /\ UNCHANGED <<lines, height, cursor, reloaded>>
      /\ ragged' = (lines < height \/ (f = "main" /\ struck)) /\ struck' = (f # "main" /\ struck)
  BY DEF SetScroll
<1>2. scroll' \in Position /\ function[f] = "scroll_to"
  BY <1>1 DEF ArgInv, Running, Scrolling
<1>3. function' = function /\ at'[f] = "above"
      /\ \A g \in Frames : g # f => at'[g] = at[g] /\ arg'[g] = arg[g]
  BY <1>1, <1>2, GoesFacts DEF Places, TypeOK
<1>4. FullInv'
  <2>1. ASSUME ~ragged'
        PROVE  Full(scroll)'
    <3>1. ~(lines < height) /\ ~(f = "main" /\ struck)
      BY <1>1, <2>1, Zenon
    <3>2. Full(arg[f])
      BY <1>1, <3>1, Sizes DEF FullInv, Running, Frames
    <3> QED
      BY <1>1, <3>2 DEF Full
  <2>2. ASSUME NEW g \in Frames, at'[g] = "store", lines >= height, g = "handler" \/ ~struck'
        PROVE  Full(arg[g])'
    BY <1>1, <1>3, <2>2 DEF FullInv, Full, Running, Frames
  <2> QED
    BY <1>1, <2>1, <2>2 DEF FullInv
<1>5. Rank(f)' = Rank(f)
  <2>1. Rank(f)' = ScrollRank(scroll)' /\ Rank(f) = ScrollRank(arg[f])
    BY <1>1, <1>2, <1>3 DEF Rank, TestRank, Running
  <2> QED
    BY <1>1, <2>1 DEF ScrollRank, MoveRank, Row, Sees, Clamped
<1>6. Rank(f)' <= Rank(f) /\ CursorInBuffer'
  BY <1>1, <1>5, RankBound DEF CursorInBuffer
<1>7. struck' \in BOOLEAN /\ ragged' \in BOOLEAN
  BY <1>1
<1> QED
  BY <1>1, <1>2, <1>4, <1>6, <1>7, GoesInvariant DEF Running, Places, Scrolling, TypeOK

(* What a frame may have read: what is there, unless it was interrupted.   *)
LEMMA ReadFacts ==
  ASSUME IInv, NEW f \in Frames, at[f] # "idle", f = "main" => at["handler"] = "idle"
  PROVE  /\ Read(f) \subseteq [cursor : 0..MaxLines-1, scroll : Position]
         /\ Read(f) = {Now} \/ Sees(scroll, cursor)
         /\ Fresh(f) => Read(f) = {Now}
         /\ Moved(f) => \A r \in Read(f) : r.cursor < lines
<1>1. Now \in [cursor : 0..MaxLines-1, scroll : Position]
  BY DEF IInv, TypeOK, Now
<1>2. CASE f = "main"
  BY <1>2 DEF IInv, Read, SeenInv, PlacesInv, Fresh, TypeOK
<1>3. CASE f = "handler"
  BY <1>1, <1>3 DEF IInv, Read, PlacesInv, Now
<1> QED
  BY <1>2, <1>3 DEF Frames

LEMMA TestAboveInvariant ==
  ASSUME IInv, NEW f \in Frames, TestAbove(f)
  PROVE  IInv'
<1> USE DEF IInv
<1>1. PICK c \in Read(f), s \in Read(f) :
        Goes(f, IF c.cursor < s.scroll THEN "follow_up" ELSE "below", 0)
  BY DEF TestAbove
<1> DEFINE place == IF c.cursor < s.scroll THEN "follow_up" ELSE "below"
<1>2. /\ Running(f, "above") /\ at[f] # "idle" /\ (f = "main" => at["handler"] = "idle")
      /\ UNCHANGED <<lines, height, scroll, cursor, reloaded, ragged, struck>>
  BY DEF TestAbove, Running
<1>3. place \in Places \ {"idle", "entry"} /\ place \notin Scrolling /\ 0 \in Int
  BY DEF Places, Scrolling
<1>4. Goes(f, place, 0)
  BY <1>1
<1>5. place = "below" => scroll <= cursor
  <2>1. ASSUME Read(f) = {Now}, place = "below"
        PROVE  scroll <= cursor
    BY <2>1, Sizes DEF Now
  <2> QED
    BY <1>2, <2>1, ReadFacts DEF Sees
<1>6. Fresh(f) => place = IF cursor < scroll THEN "follow_up" ELSE "below"
  <2>1. ASSUME Read(f) = {Now}
        PROVE  c.cursor = cursor /\ s.scroll = scroll
    BY <2>1 DEF Now
  <2> QED
    BY <1>2, <2>1, ReadFacts
<1> HIDE DEF place
<1>7. function' = function /\ at'[f] = place
      /\ \A g \in Frames : g # f => at'[g] = at[g] /\ arg'[g] = arg[g]
  BY <1>2, <1>3, <1>4, GoesFacts DEF TypeOK
<1>8. FullInv' /\ CursorInBuffer'
  <2>1. FullInv'
    BY <1>2, <1>3, <1>7, FullKept DEF Setting, Running, Scrolling
  <2> QED
    BY <1>2, <2>1 DEF CursorInBuffer
<1>9. ASSUME Fresh(f)
      PROVE  Rank(f)' <= Rank(f)
  <2>1. CASE place = "below"
    <3>1. Rank(f)' = Rank(f)
      BY <1>2, <1>7, <2>1, TestRankSame DEF Rank, Running
    <3> QED
      BY <3>1, RankBound
  <2>2. CASE place = "follow_up"
    <3>1. cursor < scroll /\ ~Sees(scroll, cursor)
      BY <1>6, <1>9, <2>2, Sizes DEF Sees
    <3>2. Rank(f)' = UpRank(f) /\ Rank(f) = TestRank(f)
      <4>1. Rank(f)' = UpRank(f)' /\ Rank(f) = TestRank(f)
        BY <1>2, <1>7, <2>2 DEF Rank, Running
      <4> QED
        BY <1>2, <1>7, <4>1, UpRankSame
    <3> QED
      BY <1>2, <3>1, <3>2, UpRankIsTestRank, RankBound DEF Moved, Running, PlacesInv
  <2> QED
    BY <1>6, <1>9, <2>1, <2>2
<1> QED
  BY <1>2, <1>3, <1>4, <1>5, <1>8, <1>9, GoesInvariant DEF TypeOK, PlacesInv, Moved, Running

LEMMA TestBelowInvariant ==
  ASSUME IInv, NEW f \in Frames, TestBelow(f)
  PROVE  IInv'
<1> USE DEF IInv
<1>1. PICK c \in Read(f), s \in Read(f) :
        IF BelowScreen(c.cursor, s.scroll) THEN Goes(f, "follow_down", 0) ELSE Return(f)
  BY DEF TestBelow
<1>2. /\ Running(f, "below") /\ at[f] = "below" /\ (f = "main" => at["handler"] = "idle")
      /\ UNCHANGED <<lines, height, scroll, cursor, reloaded, ragged, struck>>
  BY DEF TestBelow, Running
<1>3. scroll <= cursor
  BY <1>2 DEF SeenInv
<1>4. Read(f) = {Now} => (BelowScreen(c.cursor, s.scroll) <=> cursor >= scroll + height)
  <2>1. Wrapped(scroll + height - 1) = scroll + height - 1
    BY <1>3, Sizes DEF Wrapped
  <2> QED
    BY <2>1, Sizes DEF Now, BelowScreen
<1>5. CASE ~BelowScreen(c.cursor, s.scroll)
  <2>1. Sees(scroll, cursor)
    BY <1>2, <1>3, <1>4, <1>5, ReadFacts, Sizes DEF Sees
  <2> QED
    BY <1>1, <1>2, <1>5, <2>1, ReturnInvariant
<1>6. CASE BelowScreen(c.cursor, s.scroll)
  <2>1. /\ "follow_down" \in Places \ {"idle", "entry"} /\ "follow_down" \notin Scrolling
        /\ 0 \in Int /\ at[f] # "idle"
    BY <1>2 DEF Places, Scrolling
  <2>2. Goes(f, "follow_down", 0)
    BY <1>1, <1>6
  <2>3. function' = function /\ at'[f] = "follow_down"
        /\ \A g \in Frames : g # f => at'[g] = at[g] /\ arg'[g] = arg[g]
    BY <1>2, <2>1, <2>2, GoesFacts DEF TypeOK
  <2>4. FullInv'
    BY <1>2, <2>3, FullKept DEF Setting, Running, Scrolling
  <2>5. CursorInBuffer'
    BY <1>2 DEF CursorInBuffer
  <2>6. ASSUME Fresh(f)
        PROVE  Rank(f)' <= Rank(f)
    <3>1. scroll + height <= cursor
      BY <1>2, <1>4, <1>6, <2>1, <2>6, ReadFacts, Sizes
    <3>2. Rank(f)' = DownRank(f)' /\ Rank(f) = TestRank(f)
      BY <1>2, <2>3 DEF Rank
    <3>3. DownRank(f)' = DownRank(f)
      BY <1>2, <2>3, DownRankSame
    <3> QED
      BY <1>2, <1>3, <3>1, <3>2, <3>3, DownRankIsTestRank, RankBound DEF Moved, PlacesInv
  <2>7. function[f] = "move_cursor_to" => cursor' < lines
    BY <1>2 DEF PlacesInv, Moved
  <2> QED
    BY <1>2, <2>1, <2>2, <2>4, <2>5, <2>6, <2>7, GoesInvariant DEF TypeOK
<1> QED
  BY <1>5, <1>6

(* The argument of a call, from what was read.                             *)
LEMMA FollowUpInvariant ==
  ASSUME IInv, NEW f \in Frames, FollowUp(f)
  PROVE  IInv'
<1> USE DEF IInv
<1>1. /\ Running(f, "follow_up") /\ at[f] = "follow_up" /\ (f = "main" => at["handler"] = "idle")
      /\ UNCHANGED <<lines, height, scroll, cursor, reloaded, ragged, struck>>
  BY DEF FollowUp, Running
<1>2. PICK r \in Read(f) :
        IF function[f] = "move_cursor_to" THEN Call(f, "scroll_to", Signed(r.cursor))
        ELSE Call(f, "move_cursor_to", Signed(r.scroll))
  BY DEF FollowUp
<1>3. r.cursor \in 0..MaxLines-1 /\ r.scroll \in Position /\ (Fresh(f) => r = Now)
  BY <1>1, ReadFacts
<1>4. Rank(f) = UpRank(f)
  BY <1>1 DEF Rank
<1>5. CASE function[f] = "move_cursor_to"
  <2> DEFINE a == Signed(r.cursor)
  <2>1. cursor < lines /\ r.cursor < lines
    BY <1>1, <1>5, ReadFacts DEF PlacesInv, Moved
  <2>2. a = r.cursor /\ a \in Signeds /\ a < lines
    BY <1>3, <2>1, Sizes DEF Signed, Signeds
  <2>3. Fresh(f) => UpRank(f) = 1 + ScrollRank(Landing(a))
    BY <1>3, <1>5 DEF UpRank, Now
  <2>4. Call(f, "scroll_to", a)
    BY <1>2, <1>5
  <2> HIDE DEF a
  <2> QED
    BY <1>1, <1>4, <2>1, <2>2, <2>3, <2>4, CallScrollInvariant
<1>6. CASE function[f] # "move_cursor_to"
  <2> DEFINE a == Signed(r.scroll)
  <2>1. a \in Signeds
    BY <1>3, Conversions
  <2>2. Fresh(f) => UpRank(f) = 1 + MoveRank(scroll, a)
    BY <1>3, <1>6 DEF UpRank, Now
  <2>3. Call(f, "move_cursor_to", a)
    BY <1>2, <1>6
  <2> HIDE DEF a
  <2> QED
    BY <1>1, <1>4, <2>1, <2>2, <2>3, CallMoveInvariant
<1> QED
  BY <1>5, <1>6

LEMMA FollowDownInvariant ==
  ASSUME IInv, NEW f \in Frames, FollowDown(f)
  PROVE  IInv'
<1> USE DEF IInv
<1>1. /\ Running(f, "follow_down") /\ at[f] = "follow_down" /\ (f = "main" => at["handler"] = "idle")
      /\ UNCHANGED <<lines, height, scroll, cursor, reloaded, ragged, struck>>
  BY DEF FollowDown, Running
<1>2. PICK r \in Read(f) :
        IF function[f] = "move_cursor_to"
        THEN Call(f, "scroll_to", Signed(Wrapped(r.cursor - (height - 1))))
        ELSE Call(f, "move_cursor_to", Signed(Wrapped(r.scroll + height - 1)))
  BY DEF FollowDown
<1>3. r.cursor \in 0..MaxLines-1 /\ r.scroll \in Position /\ (Fresh(f) => r = Now)
  BY <1>1, ReadFacts
<1>4. Rank(f) = DownRank(f)
  BY <1>1 DEF Rank
<1>5. CASE function[f] = "move_cursor_to"
  <2> DEFINE a == Signed(Wrapped(r.cursor - (height - 1)))
  <2>1. cursor < lines /\ r.cursor < lines
    BY <1>1, <1>5, ReadFacts DEF PlacesInv, Moved
  <2>2. r.cursor - (height - 1) \in Signeds /\ r.cursor - (height - 1) < lines
    BY <1>3, <2>1, Sizes DEF Signeds
  <2>3. a \in Signeds /\ a < lines
    BY <2>2, Conversions
  <2>4. Fresh(f) => DownRank(f) = 1 + ScrollRank(Landing(a))
    BY <1>3, <1>5 DEF DownRank, Now
  <2>5. Call(f, "scroll_to", a)
    BY <1>2, <1>5
  <2> HIDE DEF a
  <2> QED
    BY <1>1, <1>4, <2>1, <2>3, <2>4, <2>5, CallScrollInvariant
<1>6. CASE function[f] # "move_cursor_to"
  <2> DEFINE a == Signed(Wrapped(r.scroll + height - 1))
  <2>1. a \in Signeds
    BY <1>3, Conversions
  <2>2. Fresh(f) => DownRank(f) = 1 + MoveRank(scroll, a)
    BY <1>3, <1>6 DEF DownRank, Now
  <2>3. Call(f, "move_cursor_to", a)
    BY <1>2, <1>6
  <2> HIDE DEF a
  <2> QED
    BY <1>1, <1>4, <2>1, <2>2, <2>3, CallMoveInvariant
<1> QED
  BY <1>5, <1>6

(* Operations and the signal start from an idle frame.                     *)
LEMMA StartInvariant ==
  ASSUME IInv, Idle, NEW name \in {"move_cursor_to", "scroll_to"}, NEW a \in Signeds,
         Call("main", name, a), height' \in Heights,
         UNCHANGED <<lines, scroll, cursor, reloaded, ragged, struck>>,
         name = "scroll_to" \/ height' = height
  PROVE  IInv'
<1> USE DEF IInv
<1>0. a \in Int /\ "main" \in Frames /\ at["main"] = "idle" /\ at["handler"] = "idle"
      /\ calls["main"] = 0 /\ calls["handler"] = 0
  BY Sizes DEF Signeds, Frames, Idle, RankInv
<1>1. /\ function' \in [Frames -> {"none", "move_cursor_to", "scroll_to"}]
      /\ at' \in [Frames -> Places] /\ arg' \in [Frames -> Int]
      /\ calls' \in [Frames -> Nat] /\ interrupts' = interrupts
      /\ seen' \subseteq [cursor : 0..MaxLines-1, scroll : Position] /\ seen' = {Now}
      /\ function'["main"] = name /\ at'["main"] = "entry" /\ arg'["main"] = a
      /\ calls'["main"] <= 1 /\ at'["handler"] = "idle" /\ calls'["handler"] = 0
  BY <1>0, CallFacts DEF Frames
<1>2. TypeOK'
  BY <1>1 DEF TypeOK
<1>3. FullInv'
  <2>1. ASSUME name = "scroll_to"
        PROVE  Setting("main")'
    BY <1>1, <2>1 DEF Setting
  <2>2. \A f \in Frames : at'[f] # "store"
    BY <1>1 DEF Frames
  <2>3. \A f \in Frames : ~Setting(f)
    BY <1>0 DEF Setting, Frames, Scrolling
  <2> QED
    BY <2>1, <2>2, <2>3 DEF FullInv, Full, Frames
<1>4. ArgInv' /\ CursorInBuffer'
  BY <1>1 DEF ArgInv, Signeds, Position, CursorInBuffer, Scrolling, Frames
<1>5. SeenInv' /\ PlacesInv'
  BY <1>1 DEF SeenInv, PlacesInv, Moved, Idle, Frames, Now, Running
<1>6. RankInv'
  <2>1. Rank("main")' \in 0..2 /\ Rank("handler")' = 0 /\ Fresh("main")'
    <3>1. \A f \in Frames : Rank(f)' \in 0..2
      BY <1>2, <1>4, <1>5, RanksBoundedNext
    <3> QED
      BY <1>1, <3>1 DEF Rank, Frames, Fresh, Now
  <2>2. calls'["main"] \in Nat /\ interrupts' \in Nat
    BY <1>0, <1>1, ConstantsAssumption DEF TypeOK
  <2> QED
    BY <1>1, <2>1, <2>2 DEF RankInv, Frames
<1> QED
  BY <1>2, <1>3, <1>4, <1>5, <1>6

LEMMA MoveInvariant ==
  ASSUME IInv, Move
  PROVE  IInv'
<1> USE DEF IInv
<1>1. Idle /\ UNCHANGED <<lines, height, scroll, cursor, reloaded, ragged, struck>>
  BY DEF Move
<1>2. scroll <= cursor
  BY <1>1 DEF SeenInv, Sees
<1>3. \A d \in Deltas : d \in Int /\ MaxLines + d < HalfRange /\ d > -HalfRange
  BY Sizes, ConstantsAssumption DEF TypeOK
<1>4. \A h \in Heights : h \in Nat /\ MaxLines + h < HalfRange
  BY ConstantsAssumption
<1>5. Moves \subseteq Signeds /\ Scrolls \subseteq Signeds
  BY <1>2, <1>3, <1>4, Sizes DEF Moves, Scrolls, Signeds
<1>6. PICK name \in {"move_cursor_to", "scroll_to"}, a \in Signeds : Call("main", name, a)
  BY <1>5 DEF Move
<1> QED
  BY <1>1, <1>6, StartInvariant DEF TypeOK

LEMMA GrowInvariant ==
  ASSUME IInv, Grow \/ Reload
  PROVE  IInv'
<1> USE DEF IInv
<1>1. /\ Idle /\ UNCHANGED <<height, scroll, cursor, frameVars>> /\ lines' \in 1..MaxLines
      /\ (lines' > lines /\ UNCHANGED <<reloaded, ragged>>) \/ (reloaded' = TRUE /\ ragged' = TRUE)
  BY Sizes DEF Grow, Reload
<1>2. UNCHANGED <<function, at, arg, seen, calls, interrupts, struck>>
  BY <1>1 DEF frameVars
<1>3. at["main"] = "idle" /\ at["handler"] = "idle"
  BY <1>1 DEF Idle, Frames
<1>4. TypeOK'
  BY <1>1, <1>2 DEF TypeOK
<1>5. FullInv'
  <2>1. \A f \in Frames : ~Setting(f) /\ at'[f] # "store"
    BY <1>2, <1>3 DEF Setting, Scrolling, Frames
  <2>2. ~ragged' => Full(scroll)'
    BY <1>1, <2>1, Sizes DEF FullInv, Full
  <2> QED
    BY <2>1, <2>2 DEF FullInv
<1>6. SeenInv'
  BY <1>1, <1>2, <1>3 DEF SeenInv, Sees, Idle, Frames, Running
<1>7. ArgInv' /\ PlacesInv' /\ CursorInBuffer'
  BY <1>1, <1>2, <1>3, Sizes DEF ArgInv, PlacesInv, Moved, CursorInBuffer, Frames, Scrolling
<1>8. RankInv'
  BY <1>2, <1>3 DEF RankInv, Rank, Fresh, Frames, SeenInv
<1> QED
  BY <1>4, <1>5, <1>6, <1>7, <1>8

LEMMA SetPagerBoxInvariant ==
  ASSUME IInv, NEW h \in Heights, SetPagerBox(h)
  PROVE  IInv'
<1> USE DEF IInv
<1>1. height' = h /\ UNCHANGED <<lines, scroll, cursor, reloaded, ragged>>
  BY DEF SetPagerBox
<1>2. CASE Idle /\ Call("main", "scroll_to", scroll) /\ UNCHANGED struck
  <2>1. scroll \in Signeds
    BY <1>2, Sizes DEF SeenInv, Sees, Signeds
  <2> QED
    BY <1>1, <1>2, <2>1, StartInvariant
<1>3. CASE /\ at["handler"] = "idle"
           /\ interrupts' = IF at["main"] = "idle" THEN 0 ELSE interrupts + 1
           /\ interrupts' <= MaxInterrupts
           /\ struck' = (struck \/ at["main"] \in {"too_far", "last_screen", "store"})
           /\ function' = [function EXCEPT !["handler"] = "scroll_to"]
           /\ at' = [at EXCEPT !["handler"] = "entry"]
           /\ arg' = [arg EXCEPT !["handler"] = Signed(scroll)]
           /\ calls' = [calls EXCEPT !["handler"] = 1]
           /\ UNCHANGED seen
  <2>1. interrupts \in Nat /\ interrupts' \in 0..MaxInterrupts
    BY <1>3, ConstantsAssumption DEF TypeOK
  <2>2. Signed(scroll) \in Signeds /\ Signed(scroll) \in Int
    BY Conversions, Sizes DEF TypeOK, Signeds
  <2>3. /\ function' \in [Frames -> {"none", "move_cursor_to", "scroll_to"}]
        /\ at' \in [Frames -> Places] /\ arg' \in [Frames -> Int] /\ calls' \in [Frames -> Nat]
        /\ function'["handler"] = "scroll_to" /\ at'["handler"] = "entry"
        /\ arg'["handler"] = Signed(scroll) /\ calls'["handler"] = 1
        /\ function'["main"] = function["main"] /\ at'["main"] = at["main"]
        /\ arg'["main"] = arg["main"] /\ calls'["main"] = calls["main"]
    BY <1>3, <2>2 DEF TypeOK, Frames, Places
  <2>4. TypeOK'
    BY <1>1, <1>3, <2>1, <2>3 DEF TypeOK
  <2>5. FullInv'
    <3>1. Setting("handler")' /\ at'["handler"] # "store"
      BY <2>3 DEF Setting
    <3>2. at'["main"] = "store" => struck'
      BY <1>3, <2>3
    <3> QED
      BY <3>1, <3>2 DEF FullInv, Frames
  <2>6. ArgInv' /\ CursorInBuffer'
    BY <1>1, <2>2, <2>3 DEF ArgInv, CursorInBuffer, Signeds, Position, Frames, Scrolling
  <2>7. SeenInv' /\ PlacesInv'
    BY <1>1, <1>3, <2>3 DEF SeenInv, PlacesInv, Moved, Running, Idle, Frames
  <2>8. RankInv'
    <3>1. Rank("handler")' \in 0..2 /\ ~Fresh("main")'
      BY <2>3, <2>4, <2>6, <2>7, RanksBoundedNext DEF Fresh, Frames
    <3>2. calls["main"] \in Nat /\ Rank("main") \in 0..2
      BY RankBound DEF TypeOK, Frames
    <3>3. at["main"] = "idle" => calls["main"] = 0
      BY DEF RankInv, Frames
    <3>4. calls["main"] <= 3 + 2 * interrupts
      BY <2>1, <3>2 DEF RankInv
    <3>5. calls'["main"] + 2 <= 3 + 2 * interrupts'
      BY <1>3, <2>1, <2>3, <3>2, <3>3, <3>4
    <3> QED
      BY <2>3, <3>1, <3>3, <3>5 DEF RankInv, Frames
  <2> QED
    BY <2>4, <2>5, <2>6, <2>7, <2>8
<1> QED
  BY <1>2, <1>3 DEF SetPagerBox
-----------------------------------------------------------------------------
LEMMA InitInvariant == Init => IInv
<1> SUFFICES ASSUME Init
             PROVE  IInv
  OBVIOUS
<1>1. TypeOK
  <2>1. 0 \in Position /\ 0 \in 0..MaxLines-1 /\ 1 \in 1..MaxLines /\ 0 \in 0..MaxInterrupts
    <3>1. height \in Nat \ {0} /\ 2 * MaxLines + 2 * height < HalfRange
      BY ConstantsAssumption DEF Init
    <3> QED
      BY <3>1, ConstantsAssumption DEF Position
  <2>2. /\ lines \in 1..MaxLines /\ height \in Heights /\ scroll \in Position /\ cursor \in 0..MaxLines-1
        /\ interrupts \in 0..MaxInterrupts
    BY <2>1 DEF Init
  <2>3. /\ function \in [Frames -> {"none", "move_cursor_to", "scroll_to"}]
        /\ at \in [Frames -> Places] /\ arg \in [Frames -> Int] /\ calls \in [Frames -> Nat]
    BY DEF Init, Places
  <2>4. seen \subseteq [cursor : 0..MaxLines-1, scroll : Position]
    BY DEF Init
  <2>5. struck \in BOOLEAN /\ reloaded \in BOOLEAN /\ ragged \in BOOLEAN
    BY DEF Init
  <2> QED
    BY <2>2, <2>3, <2>4, <2>5 DEF TypeOK
<1>2. FullInv /\ ArgInv /\ PlacesInv /\ CursorInBuffer
  BY DEF Init, FullInv, Full, ArgInv, PlacesInv, Moved, CursorInBuffer, Frames, Scrolling
<1>3. SeenInv
  BY <1>1, Sizes DEF Init, SeenInv, Sees, Frames, Running
<1>4. RankInv
  BY DEF Init, RankInv, Rank, Fresh, Frames
<1> QED
  BY <1>1, <1>2, <1>3, <1>4 DEF IInv

LEMMA StutterInvariant == IInv /\ UNCHANGED vars => IInv'
<1> SUFFICES ASSUME IInv, UNCHANGED vars
             PROVE  IInv'
  OBVIOUS
<1> USE DEF IInv, vars, frameVars
<1>1. (TypeOK /\ FullInv /\ ArgInv /\ SeenInv /\ PlacesInv /\ CursorInBuffer)'
  BY DEF TypeOK, FullInv, Full, Setting, ArgInv, SeenInv, Sees, Now, Idle, Running, PlacesInv,
         Moved, CursorInBuffer
<1>2. \A f \in Frames : Rank(f)' = Rank(f)
  <2> TAKE f \in Frames
  <2>1. UpRank(f)' = UpRank(f) /\ DownRank(f)' = DownRank(f) /\ TestRank(f)' = TestRank(f)
    BY UpRankSame, DownRankSame, TestRankSame
  <2>2. /\ ScrollRank(Landing(arg[f]))' = ScrollRank(Landing(arg[f]))
        /\ ScrollRank(FirstOfLast)' = ScrollRank(FirstOfLast)
        /\ ScrollRank(Wrapped(lines - height))' = ScrollRank(Wrapped(lines - height))
        /\ ScrollRank(arg[f])' = ScrollRank(arg[f])
        /\ MoveRank(scroll, arg[f])' = MoveRank(scroll, arg[f])
    BY DEF ScrollRank, MoveRank, Row, Sees, Clamped, Landing, FirstOfLast
  <2> QED
    BY <2>1, <2>2 DEF Rank
<1>3. RankInv'
  BY <1>2 DEF RankInv, Fresh, Now, Frames
<1> QED
  BY <1>1, <1>3

LEMMA NextInvariant == IInv /\ [Next]_vars => IInv'
<1> SUFFICES ASSUME IInv, [Next]_vars
             PROVE  IInv'
  OBVIOUS
<1>1. CASE \E f \in Frames : Step(f)
  BY <1>1, MoveCursorToInvariant, ScrollToTopInvariant, TestTooFarInvariant, TestScreenfulInvariant,
     LastScreenInvariant, SetScrollInvariant, TestAboveInvariant, TestBelowInvariant,
     FollowUpInvariant, FollowDownInvariant DEF Step
<1>2. CASE \E h \in Heights : SetPagerBox(h)
  BY <1>2, SetPagerBoxInvariant
<1>3. CASE Move
  BY <1>3, MoveInvariant
<1>4. CASE Grow \/ Reload
  BY <1>4, GrowInvariant
<1>5. CASE UNCHANGED vars
  BY <1>5, StutterInvariant
<1> QED
  BY <1>1, <1>2, <1>3, <1>4, <1>5 DEF Next

LEMMA InvariantHolds == Spec => []IInv
BY InitInvariant, NextInvariant, PTL DEF Spec
-----------------------------------------------------------------------------
(* The mutually recursive functions leave the cursor on the screen         *)
(* wherever resize signals interrupted them; and the screen full of lines, *)
(* unless the scroll position was last set with fewer lines than rows, in  *)
(* a buffer since reloaded, or after a signal that came between its test   *)
(* and its store.                                                          *)
THEOREM CursorOnScreen == Spec => []OnScreen
<1>1. IInv => OnScreen
  <2> SUFFICES ASSUME IInv, Idle
               PROVE  Sees(scroll, cursor) /\ (~ragged => Full(scroll))
    BY DEF OnScreen, Sees, Full
  <2> QED
    BY DEF IInv, SeenInv, FullInv, Idle, Setting, Scrolling
<1> QED
  BY <1>1, InvariantHolds, PTL

(* The cursor is on a line that is there, from the first move on that      *)
(* follows a reload.                                                       *)
THEOREM CursorOnLine == Spec => []CursorInBuffer
BY InvariantHolds, PTL DEF IInv

(* They end: after three calls, and two more for each interruption.        *)
THEOREM CallsAreFew == Spec => []FewCalls
<1>1. IInv => FewCalls
  <2> SUFFICES ASSUME IInv
               PROVE  FewCalls
    OBVIOUS
  <2>1. calls["handler"] \in Nat /\ calls["main"] \in Nat /\ interrupts \in Nat
    BY ConstantsAssumption DEF IInv, TypeOK, Frames
  <2>2. Rank("handler") \in 0..2 /\ Rank("main") \in 0..2
    BY RankBound DEF IInv, Frames
  <2> QED
    BY <2>1, <2>2 DEF FewCalls, IInv, RankInv
<1> QED
  BY <1>1, InvariantHolds, PTL
=============================================================================
