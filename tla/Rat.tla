-------------------------------- MODULE Rat --------------------------------
(***************************************************************************)
(* The program's main loop (rat.c) with the keys (key_seq.c) and their     *)
(* listeners (event_handlers.c, js_api.c): rat_run draws the screen and    *)
(* waits; a key is added to the input buffer and runs the first listener,  *)
(* of the pager in focus and then of Rat, that it ends; a listener may do  *)
(* anything with the stack of pagers and with the listeners.  The resize   *)
(* signal draws the screen at any point, from its handler.                 *)
(***************************************************************************)
EXTENDS Integers, Sequences, SequencesExt

CONSTANTS
  Pagers,           \* pagers the script has made
  Global,           \* stands for Rat as the owner of listeners
  Keys, Quit, Resize, \* names of keys; 'Q' and KEY_RESIZE
  Triggers,         \* sequences of keys that listeners are added for
  Sizes,            \* sizes of the terminal
  MaxStack, MaxListeners, MaxInput    \* bounds

Owners == Pagers \cup {Global}

ConstantsOK ==
  /\ Global \notin Pagers /\ Quit \in Keys /\ Resize \in Keys
  /\ Triggers \subseteq Seq(Keys) \ {<<>>}
  /\ MaxStack \in Nat /\ MaxListeners \in Nat /\ MaxInput \in Nat

VARIABLES
  at,               \* where the program is
  stack,            \* pagers, the one in focus last
  listeners,        \* triggers of an owner's listeners
  input,            \* input_buffer
  done,
  content,          \* what the pagers show; new output changes it
  size,             \* of the terminal
  drawing,          \* what the pass of render in the main loop has found
  screen,           \* what was drawn last
  torn              \* history: a signal came in the middle of that pass

vars == <<at, stack, listeners, input, done, content, size, drawing, screen, torn>>
shown == <<drawing, screen, torn>>

Places == {"script", "render", "drawing", "wait", "ended", "aborted"}
Current == [stack |-> stack, content |-> content, size |-> size]

(* rat_init: the configuration is run with nothing on the stack.           *)
Init ==
  /\ at = "script" /\ stack = <<>> /\ listeners = [o \in Owners |-> <<>>]
  /\ input = <<>> /\ done = FALSE /\ content = 0 /\ size \in Sizes
  /\ drawing = Current /\ screen = Current /\ torn = FALSE
-----------------------------------------------------------------------------
(* key_seq_ends_with compares the last keys only.                          *)
EndsWith(keys, trigger) == keys # <<>> /\ Last(keys) = Last(trigger)

(* event_handlers_handle finds a listener; which it is does not matter     *)
(* here, as it may do anything.                                            *)
Handles(o, keys) == \E k \in DOMAIN listeners[o] : EndsWith(keys, listeners[o][k])
Focused == IF stack = <<>> THEN {} ELSE {Last(stack)}
Matches(keys) == \E o \in Focused \cup {Global} : Handles(o, keys)

(* handle_input.  'Q' is also a key like others.                           *)
KeyResize ==
  /\ at = "wait" /\ at' = "render"
  /\ UNCHANGED <<stack, listeners, input, done, content, size, shown>>

Key(key) ==
  /\ at = "wait" /\ Len(input) < MaxInput
  /\ done' = (done \/ key = Quit)
  /\ input' = Append(input, key)
  /\ at' = IF Matches(input') THEN "script" ELSE "render"
  /\ UNCHANGED <<stack, listeners, content, size, shown>>

(* A script runs: a listener, or the configuration at the start.           *)
AddListener(o, trigger) ==
  /\ at = "script" /\ Len(listeners[o]) < MaxListeners
  /\ listeners' = [listeners EXCEPT ![o] = Append(@, trigger)]
  /\ UNCHANGED <<at, stack, input, done, content, size, shown>>

Push(p) ==
  /\ at = "script" /\ Len(stack) < MaxStack
  /\ stack' = Append(stack, p)
  /\ UNCHANGED <<at, listeners, input, done, content, size, shown>>

Pop ==
  /\ at = "script" /\ stack # <<>>
  /\ stack' = Front(stack)
  /\ UNCHANGED <<at, listeners, input, done, content, size, shown>>

(* Back in handle_input, the input buffer is replaced by an empty one.     *)
ReturnKeepingInput ==    \* wrong on purpose: the keys stay
  /\ at = "script" /\ at' = "render"
  /\ UNCHANGED <<stack, listeners, input, done, content, size, shown>>
Return ==
  /\ at = "script" /\ at' = "render"
  /\ input' = <<>>
  /\ UNCHANGED <<stack, listeners, done, content, size, shown>>

(* An exception the script does not catch is fatal.                        *)
Throw ==
  /\ at = "script" /\ at' = "aborted"
  /\ UNCHANGED <<stack, listeners, input, done, content, size, shown>>

(* io_tick without a key: output of a command or an annotator.             *)
Output ==
  /\ at = "wait" /\ at' = "render"
  /\ content' = 1 - content
  /\ UNCHANGED <<stack, listeners, input, done, size, shown>>

(* One turn of rat_run: render goes through the pagers with the boxes they *)
(* have, and the program waits.                                            *)
Render ==
  /\ at = "render"
  /\ at' = IF done \/ stack = <<>> THEN "ended" ELSE "drawing"
  /\ IF at' = "ended" THEN UNCHANGED shown
     ELSE drawing' = Current /\ torn' = FALSE /\ UNCHANGED screen
  /\ UNCHANGED <<stack, listeners, input, done, content, size>>

Drawn ==
  /\ at = "drawing" /\ at' = "wait"
  /\ screen' = drawing
  /\ UNCHANGED <<stack, listeners, input, done, content, size, drawing, torn>>

(* handle_winch: lays out and draws, on top of what the program does.      *)
HandleWinchLayout(s) ==  \* wrong on purpose: laid out, not drawn
  /\ at \notin {"ended", "aborted"} /\ s # size
  /\ size' = s
  /\ torn' = (torn \/ at = "drawing")
  /\ UNCHANGED <<at, stack, listeners, input, done, content, drawing, screen>>
HandleWinch(s) ==
  /\ at \notin {"ended", "aborted"} /\ s # size
  /\ size' = s
  /\ UNCHANGED <<at, stack, listeners, input, done, content, drawing>>
  /\ screen' = Current'
  /\ torn' = (torn \/ at = "drawing")

Next ==
  \/ \E key \in Keys \ {Resize} : Key(key)
  \/ \E o \in Owners, trigger \in Triggers : AddListener(o, trigger)
  \/ \E p \in Pagers : Push(p)
  \/ \E s \in Sizes : HandleWinch(s)
  \/ KeyResize \/ Pop \/ Return \/ Throw \/ Output \/ Render \/ Drawn

Spec == Init /\ [][Next]_vars

-----------------------------------------------------------------------------
TypeOK ==
  /\ at \in Places /\ stack \in Seq(Pagers)
  /\ listeners \in [Owners -> Seq(Triggers)]
  /\ input \in Seq(Keys) /\ done \in BOOLEAN /\ content \in {0, 1}
  /\ size \in Sizes /\ torn \in BOOLEAN

(* The input buffer holds the keys no listener has been found for since    *)
(* the last one ran, which is why they may pile up: while no script runs,  *)
(* no listener of the pager in focus or of Rat would be run by one of      *)
(* them, whatever was registered, pushed and popped meanwhile.             *)
InputIsUnmatched ==
  at # "script" /\ at # "aborted" => \A k \in DOMAIN input : ~Matches(<<input[k]>>)

(* While the program waits, the screen shows the stack as the script left  *)
(* it, the output read and the terminal's size, wherever resize signals    *)
(* came: but for one in the middle of drawing, which leaves the screen     *)
(* partly drawn for the old size until the next key or output.             *)
ScreenIsCurrent == at = "wait" /\ ~torn => screen = Current
=============================================================================
