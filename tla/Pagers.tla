------------------------------- MODULE Pagers -------------------------------
(***************************************************************************)
(* Who refers to a pager or an annotator, and when it is freed (refs.h,    *)
(* js_api.c, pager.c, pager_stack.c, annotator.c).  A pager is shared by   *)
(* its JavaScript object and by the items of the stack, an annotator by    *)
(* its object and by the lists of pagers.  The object lives as long as the *)
(* script or the stash refers to it; the stash names it by the pager's     *)
(* address, which malloc may give to a new pager once it is free.          *)
(***************************************************************************)
EXTENDS Integers, Sequences, FiniteSets

CONSTANTS
  Pagers, Annotators,     \* addresses
  Null,
  MaxStack, MaxList       \* bounds: length of the stack and of a pager's list

ASSUME ConstantsAssumption ==
  /\ Null \notin Pagers /\ MaxStack \in Nat /\ MaxList \in Nat
  /\ IsFiniteSet(Pagers) /\ IsFiniteSet(Annotators)

VARIABLES
  pagerCount, annotatorCount,    \* refs.count of both, 0 where nothing is allocated
  list,                          \* a pager's annotators
  pagerObjects, annotatorObjects,\* what has a JavaScript object not yet finalized
  script, scriptAnnotators,      \* those the script has a reference to
  stash,                         \* pagers whose object is in the heap stash
  stack,                         \* pagers of the stack's items, the top last
  popping, at,                   \* pager being popped, and the next step of js_rat_pop
  running,                       \* until rat_cleanup destroys the heap
  unnamed                        \* history: allocated pagers that were popped

countVars == <<pagerCount, annotatorCount, list>>
scriptVars == <<pagerObjects, annotatorObjects, script, scriptAnnotators>>
popVars == <<popping, at>>
vars == <<countVars, scriptVars, stash, stack, popVars, running, unnamed>>

Init ==
  /\ pagerCount = [p \in Pagers |-> 0] /\ annotatorCount = [a \in Annotators |-> 0]
  /\ list = [p \in Pagers |-> <<>>]
  /\ pagerObjects = {} /\ annotatorObjects = {}
  /\ script = {} /\ scriptAnnotators = {} /\ stash = {}
  /\ stack = <<>> /\ popping = Null /\ at = "idle"
  /\ running = TRUE /\ unnamed = {}

Times(x, s) == Cardinality({k \in DOMAIN s : s[k] = x})
Scripting == at = "idle" /\ running
-----------------------------------------------------------------------------
(* free_pager gives back the references of its list.                       *)
FreePagerOnly(p) ==      \* wrong on purpose: the list is freed, not its items
  list' = [list EXCEPT ![p] = <<>>] /\ UNCHANGED annotatorCount
FreePager(p) ==
  /\ annotatorCount' = [a \in Annotators |-> annotatorCount[a] - Times(a, list[p])]
  /\ list' = [list EXCEPT ![p] = <<>>]

PagerRefInc(p) == pagerCount' = [pagerCount EXCEPT ![p] = @ + 1]

PagerRefDec(p) ==
  /\ pagerCount' = [pagerCount EXCEPT ![p] = @ - 1]
  /\ IF pagerCount[p] = 1 THEN FreePager(p) ELSE UNCHANGED <<list, annotatorCount>>
  /\ unnamed' = IF pagerCount[p] = 1 THEN unnamed \ {p} ELSE unnamed
-----------------------------------------------------------------------------
(* new Pager, new Annotator.                                               *)
NewPager(p) ==
  /\ Scripting /\ pagerCount[p] = 0
  /\ pagerCount' = [pagerCount EXCEPT ![p] = 1]
  /\ pagerObjects' = pagerObjects \cup {p} /\ script' = script \cup {p}
  /\ stash' = stash \cup {p}
  /\ UNCHANGED <<annotatorCount, list, annotatorObjects, scriptAnnotators,
                 stack, popVars, running, unnamed>>

NewAnnotator(a) ==
  /\ Scripting /\ annotatorCount[a] = 0
  /\ annotatorCount' = [annotatorCount EXCEPT ![a] = 1]
  /\ annotatorObjects' = annotatorObjects \cup {a}
  /\ scriptAnnotators' = scriptAnnotators \cup {a}
  /\ UNCHANGED <<pagerCount, list, pagerObjects, script, stash, stack, popVars, running, unnamed>>

AddAnnotator(p, a) ==
  /\ Scripting /\ p \in script /\ a \in scriptAnnotators /\ Len(list[p]) < MaxList
  /\ list' = [list EXCEPT ![p] = <<a>> \o @]
  /\ annotatorCount' = [annotatorCount EXCEPT ![a] = @ + 1]
  /\ UNCHANGED <<pagerCount, scriptVars, stash, stack, popVars, running, unnamed>>

(* Rat.push; a pager that was popped, or is on the stack, is taken as well. *)
PushBorrowed(p) ==       \* wrong on purpose: no reference is taken
  /\ Scripting /\ p \in script /\ Len(stack) < MaxStack
  /\ stack' = Append(stack, p)
  /\ UNCHANGED <<countVars, scriptVars, stash, popVars, running, unnamed>>
Push(p) ==
  /\ Scripting /\ p \in script /\ Len(stack) < MaxStack
  /\ stack' = Append(stack, p)
  /\ PagerRefInc(p)
  /\ UNCHANGED <<annotatorCount, list, scriptVars, stash, popVars, running, unnamed>>

(* Rat.getActivePager and getPager find an object by its pager's address.  *)
GetPager(k) ==
  /\ Scripting /\ stack[k] \in stash
  /\ script' = script \cup {stack[k]}
  /\ UNCHANGED <<countVars, pagerObjects, annotatorObjects, scriptAnnotators, stash,
                 stack, popVars, running, unnamed>>

(* Rat.pop: the name goes first, then the item leaves the stack, the       *)
(* command is cancelled through the pager, and the reference is given back. *)
Pop ==
  /\ Scripting /\ stack # <<>>
  /\ popping' = stack[Len(stack)] /\ at' = "pop"
  /\ stash' = stash \ {popping'} /\ unnamed' = unnamed \cup {popping'}
  /\ UNCHANGED <<countVars, scriptVars, stack, running>>

PopItem ==
  /\ at = "pop" /\ at' = "cancel"
  /\ stack' = SubSeq(stack, 1, Len(stack) - 1)
  /\ UNCHANGED <<countVars, scriptVars, stash, popping, running, unnamed>>

FreeItemKeeping ==       \* wrong on purpose: the reference is not given back
  /\ at = "cancel" /\ at' = "idle" /\ popping' = Null
  /\ UNCHANGED <<countVars, scriptVars, stash, stack, running, unnamed>>
FreeItem ==
  /\ at = "cancel" /\ at' = "idle" /\ popping' = Null
  /\ PagerRefDec(popping)
  /\ UNCHANGED <<scriptVars, stash, stack, running>>

(* The script forgets.                                                     *)
Drop(p) ==
  /\ Scripting /\ p \in script
  /\ script' = script \ {p}
  /\ UNCHANGED <<countVars, pagerObjects, annotatorObjects, scriptAnnotators, stash,
                 stack, popVars, running, unnamed>>

DropAnnotator(a) ==
  /\ Scripting /\ a \in scriptAnnotators
  /\ scriptAnnotators' = scriptAnnotators \ {a}
  /\ UNCHANGED <<countVars, pagerObjects, annotatorObjects, script, stash,
                 stack, popVars, running, unnamed>>

(* rat_cleanup: duk_destroy_heap finalizes every object there is.          *)
Cleanup ==
  /\ Scripting
  /\ running' = FALSE /\ script' = {} /\ scriptAnnotators' = {} /\ stash' = {}
  /\ UNCHANGED <<countVars, pagerObjects, annotatorObjects, stack, popVars, unnamed>>

(* js_finalize_pager and js_finalize_annotator, called by the heap once    *)
(* nothing refers to the object: at once, or when it looks for cycles.     *)
FinalizePager(p) ==
  /\ p \in pagerObjects \ (script \cup stash)
  /\ pagerObjects' = pagerObjects \ {p}
  /\ PagerRefDec(p)
  /\ UNCHANGED <<annotatorObjects, script, scriptAnnotators, stash, stack, popVars, running>>

FinalizeAnnotator(a) ==
  /\ a \in annotatorObjects \ scriptAnnotators
  /\ annotatorObjects' = annotatorObjects \ {a}
  /\ annotatorCount' = [annotatorCount EXCEPT ![a] = @ - 1]
  /\ UNCHANGED <<pagerCount, list, pagerObjects, script, scriptAnnotators, stash,
                 stack, popVars, running, unnamed>>
-----------------------------------------------------------------------------
Next ==
  \/ \E p \in Pagers : NewPager(p) \/ Push(p) \/ Drop(p) \/ FinalizePager(p)
  \/ \E a \in Annotators : NewAnnotator(a) \/ DropAnnotator(a) \/ FinalizeAnnotator(a)
  \/ \E p \in Pagers, a \in Annotators : AddAnnotator(p, a)
  \/ \E k \in DOMAIN stack : GetPager(k)
  \/ Pop \/ PopItem \/ FreeItem \/ Cleanup

Spec == Init /\ [][Next]_vars

-----------------------------------------------------------------------------
TypeOK ==
  /\ pagerCount \in [Pagers -> Nat] /\ annotatorCount \in [Annotators -> Nat]
  /\ list \in [Pagers -> Seq(Annotators)]
  /\ script \subseteq pagerObjects /\ stash \subseteq pagerObjects
  /\ pagerObjects \subseteq Pagers
  /\ scriptAnnotators \subseteq annotatorObjects /\ annotatorObjects \subseteq Annotators
  /\ stack \in Seq(Pagers)
  /\ popping \in Pagers \cup {Null} /\ at \in {"idle", "pop", "cancel"}
  /\ at = "idle" <=> popping = Null
  /\ running \in BOOLEAN /\ unnamed \subseteq Pagers

(* A count is the number of references: of items of the stack, the one     *)
(* being freed included, and of the object; of entries in the lists of     *)
(* pagers and of the object.                                               *)
One(condition) == IF condition THEN 1 ELSE 0

PagerReferences(p) ==
  Times(p, stack) + One(p \in pagerObjects) + One(at = "cancel" /\ popping = p)

Entries(a) == {e \in Pagers \X (1..MaxList) : e[2] \in DOMAIN list[e[1]] /\ list[e[1]][e[2]] = a}

CountsAreReferences ==
  /\ \A p \in Pagers : pagerCount[p] = PagerReferences(p)
  /\ \A a \in Annotators : annotatorCount[a] = Cardinality(Entries(a)) + One(a \in annotatorObjects)

(* Nothing freed is referred to: not by the objects the script may get     *)
(* hold of, not by the stack, which is drawn and handles keys, not by the  *)
(* item about to be freed, whose pager's command is cancelled first, and   *)
(* not by the annotators a reload starts.                                  *)
NothingFreedIsUsed ==
  /\ \A p \in script \cup stash \cup {stack[k] : k \in DOMAIN stack} : pagerCount[p] > 0
  /\ popping # Null => pagerCount[popping] > 0
  /\ \A a \in scriptAnnotators : annotatorCount[a] > 0
  /\ \A p \in Pagers : pagerCount[p] > 0 =>
       \A k \in DOMAIN list[p] : annotatorCount[list[p][k]] > 0

(* A pager that was popped and that neither the stack nor the script has   *)
(* any more is freed in the end.  (One that was never pushed is not: the   *)
(* stash keeps it.)                                                        *)
Forgotten(p) == p \in unnamed /\ p \notin script /\ \A k \in DOMAIN stack : stack[k] # p
PoppedAreFreed ==
  \A p \in Pagers : Forgotten(p) /\ at = "idle" ~> pagerCount[p] = 0
=============================================================================
