----------------------------- MODULE PagerStack -----------------------------
(***************************************************************************)
(* The stack of pagers and the layout of its upper part on the screen      *)
(* (pager_stack.c, and reload in pager.c), one statement per step, because *)
(* the handler of the resize signal (handle_winch in rat.c) lays out and   *)
(* draws the same stack between any two of them.  The handler itself is    *)
(* one step: the program stands still while it runs, and the signal is     *)
(* blocked in its own handler.                                             *)
(*                                                                         *)
(* Of a box its place in the row is kept; all have the stack's height.     *)
(***************************************************************************)
EXTENDS Integers, Sequences

CONSTANTS
  Pagers,
  Items,         \* addresses of PagerStackItems: bounds the stack's length
  Null,
  Widths,        \* widths of the terminal
  MaxVisible     \* max_visible

ConstantsOK ==
  /\ Null \notin Items /\ Null \notin Pagers /\ Null \notin [left : Int, width : Int]
  /\ Widths \subseteq Nat /\ MaxVisible \in Nat \ {0}

VARIABLES
  first, last, len, valid,        \* the PagerStack, valid is has_valid_layout
  held, next, previous, pager,    \* allocated items and their fields
  width,                          \* box_width(ps->box)
  box,                            \* a pager's box, Null or its place
  freed,                          \* pager whose buffer is freed and not replaced
  at, item,                       \* the next statement, and psi or to_remove
  total, n, i, offset,            \* locals of pager_stack_layout
  order,                          \* history: the items, bottom to top
  mixed                           \* history: see PanesTile

links == <<first, last, len, held, next, previous, pager, order>>
layout == <<total, n, i, offset>>
screen == <<valid, width, box, mixed>>
vars == <<links, layout, screen, freed, at, item>>

Init ==
  /\ first = Null /\ last = Null /\ len = 0 /\ valid = FALSE
  /\ held = {} /\ order = <<>>
  /\ next = [x \in Items |-> Null] /\ previous = next /\ pager = next
  /\ width \in Widths
  /\ box = [p \in Pagers |-> Null] /\ mixed = FALSE
  /\ freed = Null /\ at = "idle" /\ item = Null
  /\ total = 0 /\ n = 0 /\ i = 0 /\ offset = 0

Goes(from, to) == at = from /\ at' = to
Top(s) == IF s = <<>> THEN Null ELSE s[Len(s)]
-----------------------------------------------------------------------------
(* pager_stack_push.  Which address malloc returns makes no difference.    *)
Push(p) ==
  /\ Goes("idle", "push")
  /\ held # Items /\ item' = CHOOSE x \in Items : x \notin held
  /\ held' = held \cup {item'}
  /\ pager' = [pager EXCEPT ![item'] = p]
  /\ UNCHANGED <<first, last, len, next, previous, order, layout, screen, freed>>

PushFirst ==
  /\ Goes("push", "pushLen") /\ last = Null
  /\ first' = item /\ last' = item
  /\ order' = Append(order, item)
  /\ UNCHANGED <<len, held, next, previous, pager, layout, screen, freed, item>>

PushPreviousNot ==       \* wrong on purpose: only linked forwards
  /\ Goes("push", "pushNext") /\ last # Null
  /\ UNCHANGED <<links, layout, screen, freed, item>>
PushPrevious ==
  /\ Goes("push", "pushNext") /\ last # Null
  /\ previous' = [previous EXCEPT ![item] = last]
  /\ UNCHANGED <<first, last, len, held, next, pager, order, layout, screen, freed, item>>

PushNext ==
  /\ Goes("pushNext", "pushLast")
  /\ next' = [next EXCEPT ![last] = item]
  /\ UNCHANGED <<first, last, len, held, previous, pager, order, layout, screen, freed, item>>

PushLast ==
  /\ Goes("pushLast", "pushLen")
  /\ last' = item
  /\ order' = Append(order, item)
  /\ UNCHANGED <<first, len, held, next, previous, pager, layout, screen, freed, item>>

PushLen ==
  /\ Goes("pushLen", "invalid")
  /\ len' = len + 1
  /\ UNCHANGED <<first, last, held, next, previous, pager, order, layout, screen, freed, item>>

(* The last statement of both: the layout is out of date.                  *)
Invalidate ==
  /\ Goes("invalid", "idle")
  /\ item' = Null
  /\ valid' = FALSE /\ mixed' = FALSE
  /\ UNCHANGED <<links, layout, width, box, freed>>
-----------------------------------------------------------------------------
(* pager_stack_pop; on an empty stack it returns at once.                  *)
Pop ==
  /\ Goes("idle", "pop") /\ last # Null
  /\ item' = last
  /\ UNCHANGED <<links, layout, screen, freed>>

PopFirst ==
  /\ Goes("pop", "popFree") /\ previous[item] = Null
  /\ first' = Null /\ last' = Null
  /\ order' = SubSeq(order, 1, Len(order) - 1)
  /\ UNCHANGED <<len, held, next, previous, pager, layout, screen, freed, item>>

PopNextNot ==            \* wrong on purpose: the link to it stays
  /\ Goes("pop", "popLast") /\ previous[item] # Null
  /\ UNCHANGED <<links, layout, screen, freed, item>>
PopNext ==
  /\ Goes("pop", "popLast") /\ previous[item] # Null
  /\ next' = [next EXCEPT ![previous[item]] = Null]
  /\ UNCHANGED <<first, last, len, held, previous, pager, order, layout, screen, freed, item>>

PopLast ==
  /\ Goes("popLast", "popFree")
  /\ last' = previous[item]
  /\ order' = SubSeq(order, 1, Len(order) - 1)
  /\ UNCHANGED <<first, len, held, next, previous, pager, layout, screen, freed, item>>

(* free_pager_stack_item; what it does to the pager is in Pagers.          *)
PopFree ==
  /\ Goes("popFree", "popLen")
  /\ held' = held \ {item}
  /\ next' = [next EXCEPT ![item] = Null]
  /\ previous' = [previous EXCEPT ![item] = Null]
  /\ pager' = [pager EXCEPT ![item] = Null]
  /\ UNCHANGED <<first, last, len, order, layout, screen, freed, item>>

PopLen ==
  /\ Goes("popLen", "invalid")
  /\ len' = len - 1
  /\ UNCHANGED <<first, last, held, next, previous, pager, order, layout, screen, freed, item>>
-----------------------------------------------------------------------------
(* Down from the top; pager_stack_get; and along the visible ones.         *)
Follow(link, x) == IF x = Null THEN Null ELSE link[x]

Below[k \in Nat] == IF k = 0 THEN last ELSE Follow(previous, Below[k-1])

Get(k) == IF k \in Nat THEN Follow(pager, Below[k]) ELSE Null

FirstVisible ==
  Below[CHOOSE k \in 0..MaxVisible-1 :
          Below[k] # Null /\ (k = MaxVisible - 1 \/ Below[k+1] = Null)]

Along[k \in Nat] == IF k = 0 THEN FirstVisible ELSE Follow(next, Along[k-1])

(* C division, and the width of the first of the panes that remain.        *)
Quotient(a, b) == IF a >= 0 THEN a \div b ELSE -((-a) \div b)
SizeSpacedEnd(remaining, panes) ==       \* wrong on purpose: a column after the last
  Quotient(remaining - panes, panes)
Size(remaining, panes) == Quotient(remaining - (panes - 1), panes)

Panes == IF len > MaxVisible THEN MaxVisible ELSE len

(* pager_stack_layout as the handler runs it, from end to end.             *)
Lefts(w, panes) ==
  LET left[k \in 0..panes-1] ==
        IF k = 0 THEN 0 ELSE left[k-1] + Size(w - left[k-1], panes - (k - 1)) + 1
  IN  left

Pane(w, panes, k) ==
  LET left == Lefts(w, panes)[k] IN [left |-> left, width |-> Size(w - left, panes - k)]

LaidOut(w) ==
  LET Of(p) == {k \in 0..Panes-1 : Follow(pager, Along[k]) = p}
  IN  [p \in Pagers |->
         IF Of(p) = {} THEN box[p]
         ELSE Pane(w, Panes, CHOOSE k \in Of(p) : \A j \in Of(p) : j <= k)]

(* The same in rat_run's render, pane by pane.                             *)
LayoutBegin ==
  /\ Goes("idle", "layout") /\ ~valid /\ len > 0
  /\ total' = width /\ n' = Panes /\ i' = 0 /\ offset' = 0
  /\ item' = FirstVisible
  /\ UNCHANGED <<links, screen, freed>>

LayoutPane ==
  /\ Goes("layout", "layout") /\ item # Null /\ i < n
  /\ LET size == Size(total - offset, n - i)
     IN  /\ box' = [box EXCEPT ![pager[item]] = [left |-> offset, width |-> size]]
         /\ offset' = offset + size + 1
  /\ item' = next[item] /\ i' = i + 1
  /\ UNCHANGED <<links, total, n, valid, width, mixed, freed>>

LayoutEnd ==
  /\ Goes("layout", "idle") /\ (item = Null \/ i >= n)
  /\ valid' = TRUE /\ mixed' = (width # total)
  /\ total' = 0 /\ n' = 0 /\ i' = 0 /\ offset' = 0 /\ item' = Null
  /\ UNCHANGED <<links, width, box, freed>>
-----------------------------------------------------------------------------
(* run_pager_command in a reload: the old buffer is freed, the new one     *)
(* allocated, and p->buffer set.                                           *)
ReloadFree(p) ==
  /\ Goes("idle", "reload")
  /\ freed' = p
  /\ UNCHANGED <<links, layout, screen, item>>

ReloadAssign ==
  /\ Goes("reload", "idle")
  /\ freed' = Null
  /\ UNCHANGED <<links, layout, screen, item>>

(* handle_winch: the stack's box, then the layout and the drawing.         *)
Winch(w) ==
  /\ width' = w
  /\ valid' = (last # Null)
  /\ box' = IF last = Null THEN box ELSE LaidOut(w)
  /\ mixed' = FALSE
  /\ UNCHANGED <<links, layout, freed, at, item>>
-----------------------------------------------------------------------------
Main ==
  \/ PushFirst \/ PushPrevious \/ PushNext \/ PushLast \/ PushLen \/ Invalidate
  \/ PopFirst \/ PopNext \/ PopLast \/ PopFree \/ PopLen
  \/ LayoutPane \/ LayoutEnd \/ ReloadAssign

Next ==
  \/ \E p \in Pagers : Push(p) \/ ReloadFree(p)
  \/ Pop \/ LayoutBegin \/ Main
  \/ \E w \in Widths : Winch(w)

Spec == Init /\ [][Next]_vars
-----------------------------------------------------------------------------
Places == {"idle", "push", "pushNext", "pushLast", "pushLen", "invalid",
           "pop", "popLast", "popFree", "popLen", "layout", "reload"}

(* Types; between any two statements a pointer is Null or to an item that  *)
(* is allocated.                                                           *)
TypeOK ==
  /\ held \subseteq Items
  /\ first \in held \cup {Null} /\ last \in held \cup {Null}
  /\ next \in [Items -> held \cup {Null}] /\ previous \in [Items -> held \cup {Null}]
  /\ pager \in [Items -> Pagers \cup {Null}]
  /\ at \in Places
  /\ at # "popLen" /\ at # "invalid" => item \in held \cup {Null}
  /\ len \in Nat /\ n \in Nat /\ i \in Nat /\ total \in Nat /\ offset \in Int
  /\ valid \in BOOLEAN /\ width \in Widths /\ mixed \in BOOLEAN
  /\ box \in [Pagers -> [left : Int, width : Int] \cup {Null}]
  /\ freed \in Pagers \cup {Null}

(* Between any two statements the items are linked in both directions in   *)
(* the order of pushing, but for the link that is about to be made or was  *)
(* just cut, and the length is off by one only next to its own update.     *)
LinksFollowOrder ==
  LET top == Len(order)
  IN  /\ order \in Seq(held)
      /\ \A j, k \in 1..top : order[j] = order[k] => j = k
      /\ last = Top(order)
      /\ first = IF order = <<>> THEN Null ELSE order[1]
      /\ \A k \in 1..top : previous[order[k]] = IF k = 1 THEN Null ELSE order[k-1]
      /\ \A k \in 1..top-1 : next[order[k]] = order[k+1] \/ (k = top-1 /\ at = "popLast")
      /\ order # <<>> => next[last] = IF at = "pushLast" THEN item ELSE Null
      /\ len = IF at = "pushLen" THEN top - 1
               ELSE IF at \in {"popFree", "popLen"} THEN top + 1 ELSE top
      /\ \A x \in held : x # item => \E k \in 1..top : x = order[k]

(* The links read from the top are a stack of pagers at every moment the   *)
(* signal handler may look at them.                                        *)
Depth == CHOOSE d \in 0..Len(order) + 1 : Below[d] = Null /\ \A k \in 0..d-1 : Below[k] # Null
Abstract == INSTANCE Stack WITH stack <- [k \in 1..Depth |-> Get(Depth - k)]
Implements == Abstract!Spec

Visible == [k \in 1..Panes |-> Get(Panes - k)]

(* Where a key handler may start to run, no push or pop having come after  *)
(* the last layout, the pagers on the screen have boxes: the functions     *)
(* that move the cursor follow the pointer of the active one unasked.  The *)
(* boxes fill the terminal from edge to edge with one column between panes *)
(* whose widths differ by one at most, unless the terminal changed while   *)
(* the layout was computed (or shows a pager twice).                       *)
ShownHaveBoxes == \A k \in DOMAIN Visible : box[Visible[k]] # Null

PanesTile ==
  at = "idle" /\ valid => ShownHaveBoxes /\
  (~mixed /\ (\A j, k \in DOMAIN Visible : Visible[j] = Visible[k] => j = k) =>
    /\ box[Visible[1]].left = 0
    /\ \A k \in 1..Panes-1 :
         box[Visible[k+1]].left = box[Visible[k]].left + box[Visible[k]].width + 1
    /\ box[Visible[Panes]].left + box[Visible[Panes]].width = width
    /\ width >= 2 * Panes - 1 =>
         \A j, k \in 1..Panes : /\ box[Visible[k]].width >= 1
                                /\ box[Visible[k]].width <= box[Visible[j]].width + 1)

(* "We should always have a buffer right?" (pager.c:53) - the resize       *)
(* handler draws every pager on the screen from its buffer.                *)
AlwaysHaveABuffer == \A k \in DOMAIN Visible : Visible[k] # freed
=============================================================================
