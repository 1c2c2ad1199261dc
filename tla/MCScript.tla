------------------------------ MODULE MCScript ------------------------------
(***************************************************************************)
(* What scripts do: whom they keep alive, and the main loop between them.  *)
(* The counts of references do not depend on which key runs a script, nor  *)
(* the loop on what is freed, and a behaviour is one of Pagers or of Rat.  *)
(*                                                                         *)
(* Two pagers and an annotator that serves both, or one of them twice, and *)
(* a stack of three, so that a pager is on it twice with another between   *)
(* or above.  For the loop two letters beside the keys the program knows,  *)
(* listeners for both letters and for 'Q', and up to two keys that no      *)
(* listener takes.                                                         *)
(***************************************************************************)
EXTENDS Pagers

CONSTANTS a, b, Quit, Resize, Keys, Triggers, Global, Sizes, MaxShown, MaxListeners, MaxInput

VARIABLES
  part,
  ratAt, shown, listeners, input, done, content, size, drawing, screen, torn

ratVars == <<ratAt, shown, listeners, input, done, content, size, drawing, screen, torn>>

SomeKeys == {a, b, Quit, Resize}
SomeTriggers == {<<a, b>>, <<Quit>>}

R == INSTANCE Rat WITH at <- ratAt, stack <- shown, MaxStack <- MaxShown

ASSUME RatAssumption == R!ConstantsOK

MCInit ==
  /\ part \in {"pagers", "rat"} /\ Init /\ R!Init
  /\ part = "pagers" => size = CHOOSE s \in Sizes : TRUE

Step(A) == part = "pagers" /\ A /\ UNCHANGED <<part, ratVars>>

MCNext ==
  \/ Step(Next)
  \/ part = "rat" /\ R!Next /\ UNCHANGED <<part, vars>>

(* A call runs on; the heap finalizes what nothing refers to.              *)
MCSpec ==
  /\ MCInit /\ [][MCNext]_<<part, vars, ratVars>>
  /\ WF_vars(Step(PopItem \/ FreeItem))
  /\ \A p \in Pagers : WF_vars(Step(FinalizePager(p)))

(* Properties of Rat, which states them.                                   *)
InputIsUnmatched == R!InputIsUnmatched
ScreenIsCurrent == R!ScreenIsCurrent
=============================================================================
