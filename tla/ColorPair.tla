----------------------------- MODULE ColorPair -----------------------------
(***************************************************************************)
(* color_pair_get: curses draws in numbered pairs of colors.  A number is  *)
(* computed from the two colors, and the pair is given its colors the      *)
(* first time the number comes up.  The default color is -1, so a number   *)
(* may be negative; then the table is read and written before its start,   *)
(* where anything may stand, and init_pair refuses, as it does for 0,      *)
(* which is curses' own.                                                   *)
(***************************************************************************)
EXTENDS Integers

CONSTANT Colors      \* what term_style_apply may set

ConstantsOK == Colors \subseteq Int

VARIABLES
  pairs,             \* which of the table's elements are set
  colors,            \* what curses draws a pair in
  asked              \* history: the styles asked for
vars == <<pairs, colors, asked>>

Style == Colors \X Colors
Unset == <<>>

Init == pairs = {} /\ colors = [n \in 0..63 |-> Unset] /\ asked = {}

(* C's remainder has the sign of the dividend.                             *)
Remainder(c) == IF c < 0 THEN -((-c) % 8) ELSE c % 8
Pair(fg, bg) == 8 * Remainder(fg) + Remainder(bg)

InitPairSwapped(n, fg, bg) ==       \* wrong on purpose: the colors change places
  colors' = IF n \in 1..63 THEN [colors EXCEPT ![n] = <<bg, fg>>] ELSE colors
InitPair(n, fg, bg) ==
  colors' = IF n \in 1..63 THEN [colors EXCEPT ![n] = <<fg, bg>>] ELSE colors

ColorPairGet(fg, bg) ==
  LET n == Pair(fg, bg)
  IN  /\ \/ /\ n < 0 \/ n \in pairs
            /\ UNCHANGED <<pairs, colors>>
         \/ /\ n \notin pairs
            /\ InitPair(n, fg, bg)
            /\ pairs' = pairs \cup ({n} \cap 0..63)
      /\ asked' = asked \cup {<<fg, bg>>}

Next == \E fg, bg \in Colors : ColorPairGet(fg, bg)

Spec == Init /\ [][Next]_vars
-----------------------------------------------------------------------------
(* As long as only the eight basic colors are used, and never with the     *)
(* default, every style but black on black is drawn in its own colors,     *)
(* whatever was drawn before.                                              *)
Basic(s) == s[1] \in 0..7 /\ s[2] \in 0..7
BasicColorsAreShown ==
  (\A s \in asked : Basic(s)) =>
    \A s \in asked \ {<<0, 0>>} : colors[Pair(s[1], s[2])] = s
=============================================================================
