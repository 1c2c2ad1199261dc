----------------------------- MODULE TermStyle -----------------------------
(***************************************************************************)
(* term_style_apply: what an escape sequence makes of the style in force.  *)
(* The parts of the sequence are collected into a list of codes, which is  *)
(* then gone through; some codes take the next one or two as arguments.    *)
(* A sequence with an intermediate byte, or that does not end in m, does   *)
(* nothing.  An empty parameter has no part, so it is as if not there.     *)
(***************************************************************************)
EXTENDS Integers, Sequences

CONSTANTS
  Params,       \* what atoi may make of a parameter
  CodeRange,    \* what a uint16_t holds is below this
  MaxCodes      \* bound: parameters of a sequence

ConstantsOK ==
  /\ Params \subseteq Nat /\ CodeRange \in Nat \ {0} /\ MaxCodes \in Nat

Attributes == {"bold", "underline", "reverse"}
On(c) == CASE c = 1 -> {"bold"} [] c = 4 -> {"underline"} [] c = 7 -> {"reverse"} [] OTHER -> {}
Off(c) == CASE c = 22 -> {"bold"} [] c = 24 -> {"underline"} [] c = 27 -> {"reverse"}
            [] c = 0 -> Attributes [] OTHER -> {}
Plain == [fg |-> -1, bg |-> -1, attrs |-> {}]

VARIABLES
  style, old,       \* the style; history: what it was before the sequence
  newFg, newBg,     \* locals
  codes, sc,        \* sgr, and its cursor: past the last is NULL
  pc

vars == <<style, old, newFg, newBg, codes, sc, pc>>

Init ==
  /\ style = Plain /\ old = Plain
  /\ newFg = -1 /\ newBg = -1
  /\ codes = <<>> /\ sc = 0 /\ pc = "idle"
-----------------------------------------------------------------------------
Begin ==
  /\ pc \in {"idle", "done"} /\ pc' = "parts"
  /\ old' = style /\ newFg' = style.fg /\ newBg' = style.bg
  /\ codes' = <<>> /\ sc' = 0
  /\ UNCHANGED style

SgrCodesAdd(param) ==
  /\ pc = "parts" /\ Len(codes) < MaxCodes
  /\ codes' = Append(codes, param % CodeRange)
  /\ UNCHANGED <<style, old, newFg, newBg, sc, pc>>

(* An intermediate part, or another final: goto cleanup.                   *)
Cleanup ==
  /\ pc = "parts" /\ pc' = "done"
  /\ codes' = <<>>
  /\ old' = style
  /\ UNCHANGED <<style, newFg, newBg, sc>>

EndOfParts ==
  /\ pc = "parts" /\ pc' = "codes" /\ sc' = 1
  /\ IF codes = <<>>
     THEN style' = [style EXCEPT !.attrs = {}] /\ newFg' = -1 /\ newBg' = -1
     ELSE UNCHANGED <<style, newFg, newBg>>
  /\ UNCHANGED <<old, codes>>

Code(k) == IF k <= Len(codes) THEN codes[k] ELSE -1     \* -1: NULL

(* A uint16_t as an NCURSES_COLOR_T, which is a short.                     *)
Short(c) == IF 2 * c >= CodeRange THEN c - CodeRange ELSE c

(* Where the cursor is after a 38 or 48, before the loop moves it on.      *)
ColorAtUnchecked == IF Code(sc + 1) = 5 THEN sc + 2 ELSE sc    \* wrong on purpose
ColorAt == IF Code(sc + 1) = 5 THEN sc + 2 ELSE sc + 1

Color(base, extended, current) ==
  IF Code(sc) = 0 \/ Code(sc) = base + 9 THEN -1
  ELSE IF Code(sc) \in base..base+7 THEN Code(sc) - base
  ELSE IF Code(sc) = extended /\ Code(sc + 1) = 5 /\ Code(sc + 2) # -1 THEN Short(Code(sc + 2))
  ELSE current

(* One turn of the loop.  Where the color's arguments are missing the      *)
(* cursor is NULL when the loop moves it on.                               *)
NextCode ==
  /\ pc = "codes" /\ sc <= Len(codes)
  /\ style' = [style EXCEPT !.attrs = (@ \ Off(Code(sc))) \cup On(Code(sc))]
  /\ newFg' = Color(30, 38, newFg) /\ newBg' = Color(40, 48, newBg)
  /\ LET last == IF Code(sc) \in {38, 48} THEN ColorAt ELSE sc
     IN  sc' = last + 1 /\ pc' = IF last > Len(codes) THEN "crashed" ELSE pc
  /\ UNCHANGED <<old, codes>>

Finish ==
  /\ pc = "codes" /\ sc > Len(codes) /\ pc' = "done"
  /\ style' = [style EXCEPT !.fg = newFg, !.bg = newBg]
  /\ UNCHANGED <<old, newFg, newBg, codes, sc>>
-----------------------------------------------------------------------------
Next ==
  \/ Begin \/ \E param \in Params : SgrCodesAdd(param)
  \/ Cleanup \/ EndOfParts \/ NextCode \/ Finish

Spec == Init /\ [][Next]_vars
-----------------------------------------------------------------------------
Shorts == -CodeRange..CodeRange

TypeOK ==
  /\ \A s \in {style, old} : s.fg \in Shorts /\ s.bg \in Shorts /\ s.attrs \subseteq Attributes
  /\ newFg \in Shorts /\ newBg \in Shorts
  /\ codes \in Seq(0..CodeRange-1) /\ sc \in 0..MaxCodes+2
  /\ pc \in {"idle", "parts", "codes", "done", "crashed"}

(* The reference.  A code begins a command unless the one before takes it  *)
(* as an argument: what follows 38 or 48, and what follows a 5 there.      *)
Extended == {38, 48}
Begins[k \in DOMAIN codes] ==
  /\ k > 1 => ~(Begins[k-1] /\ codes[k-1] \in Extended)
  /\ k > 2 => ~(Begins[k-2] /\ codes[k-2] \in Extended /\ codes[k-1] = 5)

Commands == {k \in DOMAIN codes : Begins[k]}
Latest(S, otherwise, Value(_)) ==
  IF S = {} THEN otherwise ELSE Value(CHOOSE k \in S : \A j \in S : j <= k)

SetsColor(base, extended) ==
  {k \in Commands :
     \/ codes[k] \in {0, base + 9} \cup (base..base+7)
     \/ codes[k] = extended /\ k + 2 \in DOMAIN codes /\ codes[k+1] = 5}
LastColor(base, extended, otherwise) ==
  LET Value(k) == IF codes[k] \in {0, base + 9} THEN -1
                  ELSE IF codes[k] = extended THEN Short(codes[k+2]) ELSE codes[k] - base
  IN  Latest(SetsColor(base, extended), otherwise, Value)
LastAttribute(a) ==
  LET Value(k) == a \in On(codes[k])
  IN  Latest({k \in Commands : a \in On(codes[k]) \cup Off(codes[k])}, a \in old.attrs, Value)

(* Of the commands of a sequence the last that is about a color or an      *)
(* attribute decides it; what none is about stays; a sequence without      *)
(* codes resets everything.  A NULL pointer is followed exactly if the     *)
(* last command is a color whose arguments are missing, as in "\e[38m" and *)
(* "\e[38;5m".                                                             *)
Truncated ==
  \E k \in Commands : codes[k] \in Extended /\
    (k = Len(codes) \/ (codes[k+1] = 5 /\ k + 1 = Len(codes)))

LastCommandDecides ==
  /\ pc = "crashed" => Truncated
  /\ pc = "done" /\ sc > 0 =>
       /\ ~Truncated
       /\ codes = <<>> => style = Plain
       /\ codes # <<>> =>
            /\ style.fg = LastColor(30, 38, old.fg)
            /\ style.bg = LastColor(40, 48, old.bg)
            /\ \A a \in Attributes : a \in style.attrs <=> LastAttribute(a)
=============================================================================
