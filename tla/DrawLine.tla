------------------------------ MODULE DrawLine ------------------------------
(***************************************************************************)
(* render_line_draw and utf8_length: how much of a line is drawn into a    *)
(* box.  A line is spans of characters; of a character its bytes and its   *)
(* columns are kept.  The columns that are left are counted down by bytes, *)
(* in a size_t, and where none are left the loop stops; where more bytes   *)
(* were drawn than columns were left the difference wraps around, and the  *)
(* spans that follow have no limit to speak of.                            *)
(*                                                                         *)
(* The line is made up while it is drawn: what is never looked at need not *)
(* be chosen.                                                              *)
(***************************************************************************)
EXTENDS Integers

CONSTANTS
  Chars,        \* records of bytes and width
  BoxWidths,    \* widths of the box, which is its pager's less 3
  SizeRange,    \* a size_t is computed modulo this
  MaxChars      \* bound: characters of a line

ConstantsOK ==
  /\ \A c \in Chars : c.bytes \in Nat \ {0} /\ c.width \in Nat
  /\ SizeRange \in Nat \ {0} /\ MaxChars \in Nat
  /\ \A w \in BoxWidths : w \in Int /\ w < SizeRange

VARIABLES
  boxWidth,
  maxWidth,          \* argument of render_line_draw, counted down
  bytes, width,      \* of utf8_length: str - start, and width
  pc,                \* in a span, at its end, or through
  columns,           \* columns drawn
  n,                 \* history: characters of the line so far
  odd,               \* history: one drawn was not a byte and a column ...
  spansAfter,        \* ... and a span was drawn after it
  cut                \* history: how a span was left, if before its end

vars == <<boxWidth, maxWidth, bytes, width, pc, columns, n, odd, spansAfter, cut>>

Init ==
  /\ boxWidth \in BoxWidths
  /\ maxWidth = boxWidth % SizeRange
  /\ bytes = 0 /\ width = 0 /\ columns = 0 /\ pc = "next"
  /\ n = 0 /\ odd = FALSE /\ spansAfter = FALSE /\ cut = "no"
-----------------------------------------------------------------------------
(* The loop of render_line_draw.                                           *)
NextSpan ==
  /\ pc = "next" /\ n < MaxChars /\ maxWidth > 0 /\ pc' = "span"
  /\ spansAfter' = odd
  /\ UNCHANGED <<boxWidth, maxWidth, bytes, width, columns, n, odd, cut>>

(* The loop of utf8_length: a character that fits,                         *)
FitsRoomy(c) == ~(maxWidth > 0 /\ width > maxWidth)       \* wrong on purpose
Fits(c) == ~(maxWidth > 0 /\ width + c.width > maxWidth)

Letter(c) == c.bytes = 1 /\ c.width = 1      \* a byte in a column

TakeChar(c) ==
  /\ pc = "span" /\ n < MaxChars /\ Fits(c)
  /\ bytes' = bytes + c.bytes /\ width' = width + c.width
  /\ n' = n + 1
  /\ odd' = (odd \/ ~Letter(c))
  /\ UNCHANGED <<boxWidth, maxWidth, pc, columns, spansAfter, cut>>

(* ... one that does not, or bytes that are not a character; or the end.   *)
LeaveSpan(why) ==
  /\ pc = "span" /\ pc' = "drawn"
  /\ \/ why = "no"
     \/ why = "full" /\ n < MaxChars /\ \E c \in Chars : ~Fits(c) /\ Letter(c)
     \/ why = "wide" /\ n < MaxChars /\ \E c \in Chars : ~Fits(c) /\ ~Letter(c)
     \/ why = "bad" /\ n < MaxChars
  /\ n' = IF why = "no" THEN n ELSE n + 1
  /\ cut' = IF why # "no" /\ cut = "no" THEN why ELSE cut
  /\ UNCHANGED <<boxWidth, maxWidth, bytes, width, columns, odd, spansAfter>>

(* addnstr, and the rest of the width.                                     *)
SubtractBytes ==
  /\ pc = "drawn" /\ pc' = "next"
  /\ columns' = columns + width
  /\ maxWidth' = (maxWidth - bytes) % SizeRange
  /\ bytes' = 0 /\ width' = 0
  /\ UNCHANGED <<boxWidth, n, odd, spansAfter, cut>>

Next ==
  \/ NextSpan \/ SubtractBytes
  \/ \E c \in Chars : TakeChar(c)
  \/ \E why \in {"no", "full", "wide", "bad"} : LeaveSpan(why)

Spec == Init /\ [][Next]_vars
-----------------------------------------------------------------------------
TypeOK ==
  /\ boxWidth \in BoxWidths /\ maxWidth \in 0..SizeRange-1
  /\ bytes \in Nat /\ width \in Nat /\ columns \in Nat /\ n \in 0..MaxChars
  /\ pc \in {"next", "span", "drawn"} /\ cut \in {"no", "full", "wide", "bad"}
  /\ odd \in BOOLEAN /\ spansAfter \in BOOLEAN

(* The line stays inside a box of any width that is not negative, as long  *)
(* as no span follows one with a character that is not a byte in a column; *)
(* and a line of such characters that is cut fills the box.                *)
StaysInBox ==
  boxWidth >= 0 =>
    /\ ~spansAfter => columns <= boxWidth
    /\ pc = "next" /\ cut = "full" /\ ~odd => columns = boxWidth
=============================================================================
