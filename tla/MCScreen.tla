------------------------------ MODULE MCScreen ------------------------------
(***************************************************************************)
(* The stack of pagers with its layout, and what is in one pane of it.     *)
(* The layout hands a pane its box, whose height is all that matters there *)
(* and which may be any (PagerView!SetPagerBox): apart from this they are  *)
(* independent, and a behaviour is one of the stack or of a pager's view.  *)
(*                                                                         *)
(* Four items for two pagers, so that a pager is on the stack twice, and   *)
(* two of the items out of sight.  A buffer of up to six                   *)
(* lines on screens of one to four rows: fewer lines than rows, as many,   *)
(* and more than twice as many all occur.                                  *)
(***************************************************************************)
EXTENDS PagerView, Sequences, TLC

CONSTANTS Pagers, Items, Null, Widths, MaxVisible

VARIABLES
  part,
  first, last, len, valid, held, next, previous, pager, width, box,
  freed, stackAt, item, total, n, i, offset, order, mixed

stackVars == <<first, last, len, valid, held, next, previous, pager, width, box,
  freed, stackAt, item, total, n, i, offset, order, mixed>>

S == INSTANCE PagerStack WITH at <- stackAt

ASSUME StackAssumption == S!ConstantsOK

SomeDeltas == {-7, -2, -1, 1, 2, 7}
SamePagers == Permutations(Pagers)

(* Whatever the idle part starts from makes no difference.                 *)
Some(S0) == CHOOSE x \in S0 : TRUE

MCInit ==
  /\ part \in {"view", "stack"} /\ Init /\ S!Init
  /\ part = "view" => width = Some(Widths)
  /\ part = "stack" => height = Some(Heights)

MCNext ==
  /\ UNCHANGED part
  /\ \/ part = "view" /\ Next /\ UNCHANGED stackVars
     \/ part = "stack" /\ S!Next /\ UNCHANGED vars

MCSpec == MCInit /\ [][MCNext]_<<part, vars, stackVars>>

(* Properties of PagerStack, which states them.                            *)
LinksFollowOrder == S!LinksFollowOrder
PanesTile == S!PanesTile
Implements == S!Implements
=============================================================================
