# ratc: a TLA+ development

ratc is a pager for terminals, written in C and scripted in JavaScript. A *pager* shows the output
of a shell command. *Annotators* are further commands that are fed that output and answer with
*annotations* (typed regions of it) on which scripts act. Pagers are kept on a stack; keys run
handlers that the user's script installed. The modules here model the program's own logic. TLC checks
them on small instances. TLAPS proves what they say of safety for all instances: each of the 34 invariants
that TLC checks is a theorem, and so are both refinements.

## 1. The system

Everything in ratc runs in one thread: `rat_run` alternates `render` and `io_tick`. What makes the
program hard is around that thread: the processes it starts, the pipes that cut their output
anywhere, pointers that several structures keep to one object, and a signal handler that renders.

| Part (source) | State | Operations | Must be right |
|---|---|---|---|
| read queue (`read_queue.c`) | linked chunks; committed and read-ahead position | write, peek, read, advance, commit, rollback, free | it is a byte stream; no freed chunk is used; none leaks |
| event loop (`io.c`) | lists of commands and of annotator processes, items of a poll | start, cancel, poll, the three handlers, prune | every annotator gets the whole buffer and then its end of input; processes are reaped; nothing freed is used |
| tokenizer (`tokenizer.c`, `token.c`, `esc_seq.c`) | a read queue, the style in force | write, read | tokens do not depend on how the output was cut |
| annotation parser (`annotation_parser.c`, `annotation.c`) | a read queue, the version | write, read | records come out as sent, once, and as soon as they are complete |
| buffer (`buffer.c`, `annotations.c`) | text, line ends, highlights, annotations | handle a token, add an annotation, slice for drawing, find at a line | a slice covers its lines once; highlights do not overlap |
| pager (`pager.c`) | buffer, box, cursor, scroll, annotators | run, cancel, reload, move, scroll | the cursor is in the buffer and on the screen; the moves, which call each other, end |
| pager stack (`pager_stack.c`, `box.c`) | doubly linked items, layout flag | push, pop, get, layout, render | links, length and the visible part agree |
| main program (`rat.c`) | stack, handlers, key buffer, `done` | keys, resize signal, run | a signal finds a consistent state; the screen is current |
| script interface (`js_api.c`, `refs.h`) | references to pagers and annotators | constructors, methods, finalizers | nothing is freed while referred to |
| keys (`key_seq.c`, `event_handlers.c`) | key sequences, handlers | add, match | the first matching handler runs |
| styles and drawing (`term_style.c`, `color_pair.c`, `utf8.c`, `render_lines.c`) | style, color pairs, columns left | apply a sequence, number of a pair, draw a line | styles as the terminal would have them; a line stays in its box |
| strings (`js_api.c:48`) | surrogate in hand | convert to UTF-8 | characters come through; the result fits its block |

How they interact: the event loop reads a command's pipe, writes the tokenizer's queue and hands
every token to the buffer. It writes the buffer's text to each annotator, reads its answers into the
parser's queue and adds the annotations to the buffer. A key or the start-up script calls through
the script interface into pager, stack and event loop. Those calls cancel, free and start what the
loop's lists point to. The lists are cleaned only at the end of a tick.

Hard to test, and what the properties are for (`PROJECT.json` lists each with its line):
orders in which several processes finish; a key between two polls that frees what the loop points to;
addresses used again; descriptors inherited by later processes; input cut at every byte; pointers
to freed chunks; the limit on the items of a poll; a signal handler that lays out and draws between any
two statements; two functions that call each other; references counted from a script, a stash and a
stack; sizes that are subtracted without a sign; offsets cut to 32 bits.

## 2. The modules

| Module | Models | Relation |
|---|---|---|
| `ByteStream` | what the read queue promises | |
| `ReadQueue` | `read_queue.c` | implements `ByteStream` |
| `AnnotationParser` | `annotation_parser_read` | over `ByteStream` |
| `Tokenizer` | `tokenizer_read` | over `ByteStream` |
| `TermStyle` | `term_style_apply` | takes a sequence the tokenizer returns |
| `Buffer` | `buffer.c`, `annotations.c` | takes tokens and annotations |
| `ColorPair` | `color_pair_get` | takes the colors of a style |
| `DrawLine` | `render_line_draw`, `utf8_length` | takes the spans of a line |
| `Cesu8` | `cesu8_to_utf8` | takes a script's string |
| `IoLoop` | `io.c`, the processes, and the pager operations that reach it | |
| `PagerView` | cursor and scroll in `pager.c`, under the resize signal | |
| `Stack` | what the pager stack promises | |
| `PagerStack` | `pager_stack.c`, a reload, under the resize signal | implements `Stack` |
| `Pagers` | references in `refs.h`, `js_api.c`, `pager.c`, `annotator.c` | |
| `Rat` | `rat_run`, keys, listeners, under the resize signal | |
| `ReadQueueProofs`, `AnnotationParserProofs`, `TokenizerProofs`, `IoLoopProofs` | theorems about the module in the name | extend its MC module |
| `PagerViewProofs` | theorems about `PagerView` | extends `PagerView` |
| `ScreenProofs` | theorems about `PagerStack` | extends `MCScreen` |
| `ScriptProofs` | theorems about `Pagers` and `Rat` | extends `MCScript` |
| `TextProofs` | theorems about `Buffer`, `TermStyle`, `ColorPair`, `DrawLine`, `Cesu8` | extends `MCText` |
| `MCReadQueue`, `MCAnnotationParser`, `MCTokenizer`, `MCIoLoop`, `MCPagerStack` | instances for TLC | of one module each |
| `MCScreen` | `PagerStack` and `PagerView` | instance for TLC |
| `MCScript` | `Pagers` and `Rat` | instance for TLC |
| `MCText` | `Buffer`, `TermStyle`, `ColorPair`, `DrawLine`, `Cesu8` | instance for TLC |

Some definitions carry the comment "wrong on purpose". Each is another definition with a plausible
bug in it. The specification does not use them: putting one in the place of the right one must make
TLC report a property (`mutants` in `PROJECT.json`), which shows that the property depends on the code.

In `MCScreen`, `MCScript` and `MCText` a variable `part` is chosen at the start and says which of the
modules runs; the others keep their initial state. These modules have no state in common: what one
hands the next (the height of a pane, a style, a span) may be any value the other can give, and is
chosen freely there. Interleaving them would only multiply the states.

### ByteStream and ReadQueue

A byte is its place in the stream, so a chunk is `start`, `size`, `next`, and a byte lost, repeated or
out of order is a wrong number. `first`, `last`, `offset`, `tmpFirst`, `tmpOffset` are the fields of
`struct read_queue`; `freed` is the set of chunks given to `free`. Write, peek and rollback are single
steps. Read, advance, commit and `free_read_queue` are loops: one step to enter, one per iteration,
one to return, with the C locals as variables (`want`, `copied`, `cursor`, `newOffset`), so the
invariant holds between any two iterations. `read_queue_readable` is `ok` in the result of `Peek`. A
write of length 0 returns at once and changes nothing, so there is no step for it. `malloc` does not fail.

The refinement maps the committed position to the place of `first`/`offset` (during a commit, to the
place it is moving to), and the read position to the place of `tmpFirst`/`tmpOffset` less what a read
in progress has copied. A call of the queue is then one step of the stream: a read and an advance at
their return, a commit at its call, and a loop iteration changes nothing.

### AnnotationParser and Tokenizer

The event loop writes a piece of any size and then reads until there is nothing more; a piece comes
only when the parser waits (`pc = "idle"`). Each step is one call of the queue. `AnnotationParser`
keeps the bytes: numbers are `NumLen` digits in base `Base` (8 and 256 in the program, 2 and 2 in the
run) so that a shift by one byte gives the numbers it would give; `Weight` is what each digit counts.
What an annotator may send is the constant `Sendable`: numbers that fit in `NumLen` digits and values
without a zero byte (`SendableAssumption`). `Tokenizer` keeps the class of a byte, the only thing `tokenizer.c` looks at;
consecutive digits, which the code collects in an inner loop into one part, are consumed one per
step, for the parts of a sequence matter only to the style it stands for, which is in `TermStyle`. The
variable `tokens` is a history of what was returned and of the bytes each token stands for. The
reference it is compared with is `Kinds`, one pass over the whole output: the kind of a byte depends on
the kind of the byte before it and on its class (`KindAfter`), where a sequence that is not complete
leaves its bytes in one of the kinds `Open`.

### TermStyle, Buffer, ColorPair, DrawLine, Cesu8

`TermStyle`: `Begin` enters `term_style_apply`, `SgrCodesAdd` is one parameter (reduced to a `uint16_t`),
`NextCode` one turn of the loop over the codes, `Finish` the assignment of the colors. A cursor past the
end of the list is the NULL pointer; moving it on is `pc = "crashed"`. The reference, `Begins`, says of
every position in the list whether a command begins there or an argument stands there.

`Buffer`: a byte of the memory stream is kept as whether it is a newline and, as a history, the style in
force when it came. `HandleContent`, `HandleNewline` and `HandleTermStyle` are the cases of
`buffer_handle_token`. `get_render_lines` is a loop: `AddSpan` and `AddLine` are turns of its inner and
outer loop, `offset` and `highlight` its locals. A text of length 0 is a token whose bytes began with
a zero byte. `AnnotationAtLine` has a parameter for what the array of line ends holds past its last
element, which the code reads.

`ColorPair`: the table as a set of the numbers in use, curses' pairs as a function. A negative number is
possible (the default color is -1); the table is then read and written before its start, where anything
may stand, so such a call may or may not initialize. `init_pair` refuses numbers outside 1..63.

`DrawLine`: of a character its bytes and its columns. `TakeChar` and `LeaveSpan` are the loop of
`utf8_length`, `SubtractBytes` is what `render_line_draw` does after it, with the remaining width
counted down by bytes, modulo `SizeRange`.

`Cesu8`: one turn of the loop per unit of the input; `hs` is the high surrogate it has in hand. How many
bytes it takes is told by the first of them (`js_api.c:28-46`). Where the string ends in the middle of
a unit, the terminator is taken with it (`RunPast`), and the loop goes on behind the string: the model
stops there (`past`).

### IoLoop

`phase` is where the thread is: in the start-up `script`, waiting in `poll`, going through the `items`
of a poll, in a handler of `keys`, in `prune`, or `done`. `status` says how ratc came to an end:
`exited` (a failed kill), `killed` (SIGPIPE), `undefined` (freed memory was used).
`bios`, `bio`, `aios`, `aio` are the two lists and their structs. A `Buffer` is an address with a
length, whether it is allocated, and a generation: `run_pager_command` frees the old buffer before it
allocates the new one, which may get the same address, and `io.c` compares addresses only.

Processes (`procB`, `procA`): forked, running, ending, dead, reaped. A forked child has not called
`setpgrp` yet, so that killing its group fails. "Ending" is a process that closed its pipes or got
SIGTERM and is not dead yet: that is the time for which `waitpid` blocks. `wfd` records who holds the
write end of an annotator's input, since none is closed on exec: every process started later holds a
copy until it dies, and the end of input comes when nobody holds one.

An operation of a script or handler (`NewPager`, `AddAnnotator`, `Reload`, `PopPager`, `CollectPager`)
lists the calls it will make into `pager.c` and `io.c` (`Cancel`, `Run`, `Annotate`, `FreePager`), which
are then made one step at a time while the processes run on. The tick is `Poll`, one step per item, and
`Prune`. `Poll` computes the items as `build_io_items` does: `Candidate` is what could be polled,
`Wanted` what the conditions of the code let through, in the order of the lists (`Ascending`), and
`BuiltItems` its first part, up to the code's limit; `Polled` is what `poll` reports of one of them. A key
is handled instead of the items. `Prune` is the two loops of
`io_prune_finished` with what their unlinking really does.

Abstracted: data is counted; a pipe holds `PipeCap` units and a read takes one; a unit of output
becomes any amount of content, because the tokenizer drops escape sequences and holds incomplete ones
back. Whether what was read completes a token or an annotation is a choice.
Not modelled here: failing system calls, pushing a popped pager again or one pager twice (`Pagers` and
`PagerStack` have both), a process that ignores SIGTERM for ever, a process that closes only one of its
pipes.

### PagerView and PagerStack

The resize signal runs `set_pager_box`, the layout and the drawing inside its handler, on top of
whatever the program was doing.

`PagerView` has two frames, `main` and `handler`. A step of a frame ends with a store or with its call
of `box_height`, so that a signal may come between any two readings of the height, and between the
tests of `pager.c:188-189` and the store of `:190` or `:195`; an argument that has passed a test is
stored as it is, whatever the handler did since. What a frame reads of the cursor and the
scroll position within a step may be older than the signals that came since its last step: `seen` is all
that it may have read (the program is built without optimization and reads them anew
in every expression, in an order the language leaves open). The main frame stands still while the handler
runs (`Running`). Positions are a `size_t`, arguments a `ssize_t`: `Wrapped` and `Signed`, with
`HalfRange` for 2^63. The buffer grows, or is emptied by a reload, between operations. `calls` counts
the calls of an operation, `interrupts` the signals during it.

`PagerStack` is one statement per step for push, pop and the layout in `render`; `Winch` is the whole
handler in one step, since the program waits for it and the signal is blocked meanwhile. The layout
hands each pager in sight its `Pane`; `Lefts` is where panes begin, the running sum of widths that the loop of
`pager_stack_layout` keeps. A history `order` is the list the links stand for. The refinement reads an abstract stack from the links as
`pager_stack_get` does, from `last` downwards.

### Pagers and Rat

`Pagers`: counts of pagers and annotators, what JavaScript objects there are, which of them the script
and the heap stash refer to, the stack, and the lists of annotators. Addresses are used again.
`Rat.pop` is three steps (`Pop`, `PopItem`, `FreeItem`) because the pager's command is cancelled through
the pager between them. Finalizers run any time after the last reference is gone, and all of them
at the end (`Cleanup`).

`Rat`: `at` is where `rat_run` is (rendering, waiting in `io_tick`, in a script). `Key` appends to
the input buffer and looks for a listener of the pager in focus, then of `Rat`; while it runs, a script
may push, pop and add listeners. `EndsWith` compares the last keys only, as `key_seq_ends_with` does
("TODO: Check more than just the last"). `HandleWinch` draws from the signal handler, also in the middle of a
drawing (`torn`). An exception the script does not catch aborts the program (`Throw`).

## 3. What the runs check

| Run | Instance | Properties |
|---|---|---|
| `read_queue` | 3 chunks, calls of up to 2 bytes | `IInv`, `NoUseAfterFree`, `NoLeak`, `Implements`, `CallsReturn` |
| `annotation_parser` | up to 3 records, cut anywhere after the first | `RecordsAreRead`, `WaitsAtRecord` |
| `annotation_split` | the same, cut anywhere | `RecordsAreRead` is **violated** |
| `tokenizer` | every output of up to 5 bytes in 9 classes, cut anywhere | `TokensFitTheStream`, `OnlyNewlinesRepeat`, `HoldsBackOneSequence` |
| `tokenizer_once` | up to 4 bytes | `EachByteOnce` is **violated** |
| `io_one_load` | 1 pager, 1 load, 2 annotators that read all their input, 5 operations | `LostOnlyWhenLate`, `StaysUp` |
| `io_progress` | the same with 4 operations, fair | `CommandReaped`, `AnnotatorReaped` |
| `io_reload` | 2 loads, 2 annotators of any behaviour, 2 addresses, 5 operations; or 2 pagers with 1 annotator, 4 operations | `ItemsAreOpen`, `EofMeansAll`, `WaitsOnlyForEnded`, `ReadersHaveBuffers`, `OrphansHaveNewerSibling`, `LostBehindOlder`, `UndefinedOnlyInPrune` |
| `screen` | 6 lines on screens of 1 to 4 rows; a stack of 4 with 2 pagers, 2 panes | `OnScreen`, `CursorInBuffer`, `FewCalls`, `LinksFollowOrder`, `PanesTile`, `Implements` |
| `stack_winch` | 1 pager on a stack of 1 | `AlwaysHaveABuffer` is **violated** |
| `script` | 2 pagers, 1 annotator, a stack of 3; 4 keys | `CountsAreReferences`, `NothingFreedIsUsed`, `InputIsUnmatched`, `ScreenIsCurrent`, `PoppedAreFreed` |
| `text` | 5 bytes, 4 codes, 4 colors, 5 characters, 5 units | `HighlightsAreStyles`, `SliceShowsLines`, `AnnotationsFoundByByte`, `LastCommandDecides`, `BasicColorsAreShown`, `StaysInBox`, `WellFormedIsConverted`, `FitsAllocation` |

**Read queue.** The queue is the stream it stands for, whatever the order of calls; no pointer the code
may follow names a freed chunk; a freed queue has freed every chunk once; every call returns.

**Parsers.** Two disagreements with what the repository says, found while modelling:
- The version byte is consumed but not committed (`annotation_parser.c:54`). If the first piece from
  an annotator ends inside the first record, the byte is read again as part of the record, and every
  record is misread. Once a record has been committed the parser is right: `annotation_parser` assumes
  nothing but that the first piece reaches the end of the first record.
- A newline is consumed but not committed (`tokenizer.c:44`). If an escape sequence follows and is cut
  by the end of a piece, the newlines before it are returned again: blank lines appear, depending on
  timing. Nothing else is repeated and nothing is skipped (`OnlyNewlinesRepeat`), and tokens are those
  of a single pass over the whole output (`TokensFitTheStream`, against the reference `Kinds`).

`HoldsBackOneSequence` includes two facts about `tokenizer.c` that nothing in the repository
contradicts: a zero byte in a sequence holds back everything after it, and a private parameter
("\e[?25l") makes `read_esc_seq_cs_priv_param` loop for ever (`ReadPrivate`).

**From text to screen** (`text`).
- The style after a sequence is that of its last command about each color and attribute, against a
  reference that first says which codes are commands and which arguments. A NULL pointer is followed
  exactly when the last command is a color whose arguments are missing ("\e[38m").
- A byte of the buffer is in a highlight exactly if a style other than the default was in force when it
  came; the lines returned for drawing are the lines that have ended, every byte once and in its style.
- The annotation found for a line that has ended is the first that shares a byte with it or that holds no
  byte (its end is not after its start, which nothing forbids) and lies inside the line, as long as line
  ends fit in 32 bits. For the line that has not ended, an element past the array is read, and
  nothing can be said; the operator has the value read as a parameter.
- Colors: as long as only the eight basic colors are used, each style but black on black (pair 0, which
  curses keeps) has its own pair. With the default color or one beyond the eight, styles share pairs.
- A line stays in its box as long as no span follows one with a character that is not one byte in one
  column, and then may not: the width is counted down by bytes, and when the count passes zero
  it is huge, which is no limit; when it is zero the loop stops. A box of negative width (a pane of less than three
  columns) has no limit either.
- Strings of a script come out as the characters they are, if their surrogates are in pairs; the result
  never needs more room than the input, unless the input's last character is cut short.

**Screen** (`screen`, `stack_winch`).
- The functions that move cursor and scroll leave the cursor on the screen, wherever signals
  interrupted them. They call each other at most three times, and twice more for each signal (TLC finds
  no more than once more, with up to three signals; the bound is the one that is proved). The cursor is
  on a line of the buffer, but from a reload to the next move (`CursorInBuffer`).
- The screen is full or starts at the first line, with three exceptions (`ragged`): after a reload;
  after a scroll in a buffer shorter than the screen, where the unsigned difference lets any argument
  through; and after a signal between the test of an argument and its store. (Six lines on two rows,
  `scroll_to(4)` passes the test, four rows now: row 4 is stored, and two rows stay empty.) A signal
  between `pager.c:189` and `:190` may store a difference that has wrapped; the same function then moves
  the cursor and so the screen back.
- At every statement of push and pop, the links the signal handler follows form a stack, one before or
  one after the operation. What it draws between two statements of a reload is not so safe: the buffer
  is freed before the new one is assigned (`pager.c:95`), and `pager.c:54` says "We should always have a
  buffer right?". `stack_winch` shows the state in which the handler would draw a freed buffer.
- When a handler of a key starts with a valid layout, every pager on the screen has a box, and panes fill
  the terminal, but if a signal came between the reading of the width and the end of the layout
  (`mixed`), or a pager is shown twice (its one box is that of its last pane).

**Scripts** (`script`). A count is the number of references, and so nothing freed is referred to, also
when a pager is pushed twice, popped and pushed again, or found through the stash when its address is
used again. A popped pager that the script forgets is freed. (One that was never popped is not: the
stash refers to it.) Keys that no listener took stay in the input buffer, but never one that a
listener would take. While the program waits, the screen shows the present state, but if a signal came
in the middle of a drawing.

**Event loop.** With one load and annotators that read all their input, ratc survives every schedule
(`StaysUp`) and every process is waited for (`CommandReaped`, `AnnotatorReaped`). That annotators are
not lost is a coincidence the model explains: `io_prune_finished` takes all entries before a
finished one off the list, and only because the newest annotator inherited the older ones' inputs does
the first of the list finish first. Closing descriptors on exec would break it
(the mutant of `LostOnlyWhenLate` is that change), and so does an annotator added when an older one
has had its end of input.

Once a pager is reloaded or popped the loop makes real mistakes, for which no comment or
test says otherwise; they are stated as the exact circumstances in which they can happen:
- `io_close_buffer` stops at the newest annotator; the others keep a pointer to a buffer that is freed
  next (`OrphansHaveNewerSibling`: only if there was a newer one).
- A reload of a pager with an unfinished annotator kills it, and the new annotators stand before it in
  the list, so they are lost with it (`LostBehindOlder`).
- Two neighbouring commands that finish in one tick: the list is corrupted and freed memory written
  (`UndefinedOnlyInPrune`: nothing else, as long as there was one annotator at most).
- A popped pager that the script reloads or annotates is collected without being cancelled
  (`ReadersHaveBuffers`, the exception `Abandoned`).
- A pager cancelled before its child called `setpgrp`: the kill fails and ratc exits (status `exited`).

What stays right even then: items of a poll are about open descriptors and listed entries
(`ItemsAreOpen`); an annotator whose input ratc closed, and which still has its buffer, was given all of
it (`EofMeansAll`); `waitpid` is called only for processes that were killed or hung up (`WaitsOnlyForEnded`). `EofMeansAll` leaves out
abandoned pagers: the command of a pager that is collected without being cancelled goes on writing to the
address of its freed buffer, and if a later buffer has that address, an annotator of the later buffer can
have had its end of input before. The attempt to prove the property without the exception showed this; it
takes two pagers that share an address and three commands, more than `io_reload` has.

### Bounds

- `MCReadQueue`: with three chunks of one or two bytes a read crosses a boundary from the middle of a
  chunk, stops short at the end of the stream, and an uncommitted chunk lies between a committed
  and an unread one. Nothing in the code looks further than one chunk ahead. The proofs have no bound.
- `MCAnnotationParser`: headers of 6 bytes and values of 0 to 2 bytes, cut at every byte; the third
  record follows one that was cut.
- `MCTokenizer`: 5 bytes hold a newline, a sequence with one parameter and a byte after it, in every
  cut. The tokenizer's state is one of four, and each pair of a state and a class occurs.
- `MCIoLoop`: a pipe of one unit makes writes partial and processes wait. Two annotators
  are the least that can be orphaned or lost, two commands the least that can be neighbours, two
  addresses allow both reuse and a fresh one. `MaxOps` bounds key presses plus operations: five allow
  a pager, two annotators, a key and a reload or pop. `OneOrOther` keeps of the behaviours with two
  pagers those with one annotator that leave one operation unused: the two instances in one run.
- `MCScreen`: six lines on one to four rows are fewer than the rows, as many, and more than twice as
  many; moves by 1, 2 and 7, which is past either end; two signals in one operation, so that a second one
  meets what the first one left half done. `HalfRange` is more than any position a difference does not
  wrap to, and `MaxCalls` one more than the calls that two signals allow. A stack of four
  items with two pagers has a pager on it twice and items out of sight; widths with and without a
  remainder. The proofs about `PagerView` have no bound.
- `MCScript`: two pagers so that one is freed while the other is used, one annotator in two lists or
  twice in one, a stack on which one pager is above and below the other. Two letters and 'Q' with
  listeners of one and two keys; two keys in the input buffer.
- `MCText`: five bytes hold two lines and a piece of one, four a line with three highlights. `Bounded`
  keeps a third highlight to streams of four bytes, annotations to plain text of four bytes (annotations
  and highlights do not meet), and sequences of four codes to those from the default style (from any
  other, three). `OffsetRange = 4` makes lines past what 32 bits hold occur. Parameters include 65537
  and 131071, which are 1 and -1 as 16 bits.
  The boxes are too narrow for a tab, wide enough, and of negative width.

Symmetry is used for addresses (`io_reload`), pagers (`screen`) and styles other than the default
(`text`): runs of safety properties only, in which the members are not told apart.

Deadlock is not checked in any run. Queues and buffers reach their bounds, input ends, a script may
throw and ratc quits: a state without a next step is normal. That nothing waits for ever where it must
not is stated as liveness (`CallsReturn`, `CommandReaped`, `AnnotatorReaped`, `PoppedAreFreed`) or as a
bound on steps (`FewCalls`).

### Fairness

`ReadQueue`: a C function that was called runs on (weak fairness of `Step`); nothing obliges a caller.
`IoLoop`: the thread goes on (`Tick`, the calls of a handler, its return); a forked child gets to run; a
process that hung up or got SIGTERM dies; an annotator reads on unless it is blocked on a full output
pipe, and exits at the end of its input. The last two are assumptions about the user's commands, without
which ratc does hang (in `waitpid`) or wait. Nothing is assumed of a running command, which may run for
ever, nor of the user; the number of keys is bounded, so a user who never stops typing, for whom
ratc serves no pipe at all (`io.c:510`), is outside these two properties.
`Pagers`, in `MCScript`: `js_rat_pop` runs on (`PopItem`, `FreeItem`), and the heap finalizes an object
nothing refers to, which Duktape does when its count drops to zero or in its collection, at the
latest when the heap is destroyed. A script need not do anything.

## 4. What is proved

For every value of the constants that satisfies the assumptions of the modules (`ConstantsAssumption`,
`BoundsAssumption`, `StackAssumption` and so on, which TLC evaluates in the runs). These say what the
constants are (numbers, finite sets, a byte is a number of one of four lengths), and that lengths the
program adds up fit in a `size_t`. No theorem has a bound on data, on the number of processes, or on steps.

| Module | Theorem | Says |
|---|---|---|
| `ReadQueueProofs` | `Invariant` | `Spec => []IInv` |
| | `TypeCorrect` | `Spec => []TypeOK` |
| | `Safe` | `Spec => []NoUseAfterFree` |
| | `LeakFree` | `Spec => []NoLeak` |
| | `Refinement` | `Spec => Implements`, the byte stream |
| `AnnotationParserProofs` | `EveryRecordIsRead` | if `FirstWhole`, `Spec => []RecordsAreRead` |
| | `WaitsAtRecordEnd` | if `FirstWhole`, `Spec => []WaitsAtRecord` |
| `TokenizerProofs` | `TokensAreOfTheStream` | `Spec => []TokensFitTheStream` |
| | `TokensRepeatOnlyNewlines` | `Spec => []OnlyNewlinesRepeat` |
| | `OneSequenceIsHeldBack` | `Spec => []HoldsBackOneSequence` |
| `TextProofs` | `BytesKeepTheirStyle` | `Spec => []HighlightsAreStyles` (`Buffer`) |
| | `LinesAreShown` | `Spec => []SliceShowsLines` |
| | `AnnotationIsFound` | `Spec => []AnnotationsFoundByByte` |
| | `SequenceDecides` | `T!Spec => []LastCommandDecides` (`TermStyle`) |
| | `BasicColors` | `P!Spec => []BasicColorsAreShown` (`ColorPair`) |
| | `LineStaysInBox` | `D!Spec => []StaysInBox` (`DrawLine`) |
| | `ConversionFits` | `C!Spec => []FitsAllocation` (`Cesu8`) |
| | `CharactersComeThrough` | `C!Spec => []WellFormedIsConverted` |
| `PagerViewProofs` | `CursorOnScreen` | `Spec => []OnScreen` |
| | `CursorOnLine` | `Spec => []CursorInBuffer` |
| | `CallsAreFew` | `Spec => []FewCalls` |
| `ScreenProofs` | `StackIsLinked` | `S!Spec => []LinksFollowOrder` (`PagerStack`) |
| | `StackIsImplemented` | `S!Spec => Implements`, the abstract stack |
| | `LayoutTiles` | `S!Spec => []PanesTile` |
| `ScriptProofs` | `CountsAreTrue` | `Spec => []CountsAreReferences` (`Pagers`) |
| | `FreedIsForgotten` | `Spec => []NothingFreedIsUsed` |
| | `NoKeyWaitsUnheard` | `R!Spec => []InputIsUnmatched` (`Rat`) |
| | `WaitsWithCurrentScreen` | `R!Spec => []ScreenIsCurrent` |
| `IoLoopProofs` | `HandledItemsAreOpen` | `Spec => []ItemsAreOpen` |
| | `EofIsTheEnd` | `Spec => []EofMeansAll` |
| | `WaitsAreShort` | `Spec => []WaitsOnlyForEnded` |
| | `OutputHasItsBuffer` | `Spec => []ReadersHaveBuffers` |
| | `OrphansAreOlder` | `Spec => []OrphansHaveNewerSibling` |
| | `FallsBehindOlder` | `Spec => []LostBehindOlder` |
| | `OneAnnotatorUndefinedOnlyInPrune` | `Spec => []UndefinedOnlyInPrune` |
| | `IoTypesCorrect` | `Spec => []TypeOK` |
| | `OneLoadStaysUp` | if `OneLoad`, `Spec => []StaysUp` |
| | `OneLoadLosesOnlyLate` | if `OneLoad`, `Spec => []LostOnlyWhenLate` |

In each module there is an inductive invariant, one lemma per action that the action preserves it, and the
theorems follow from it.

**Read queue.** `NoUseAfterFree` is not inductive: that a pointer is not freed follows from
where it points in the chain. `IInv` adds that chunks hold consecutive pieces of the stream
(`ChunksAreTheStream`), that chunks are linked in the order of writing and `last` is the newest
(`ChainIsLinked`), that exactly the chunks before `first`, or before the cursor of `free_read_queue`, are
freed (`FreedIsCommittedPrefix`), that both positions are inside their chunk and in order
(`PositionsInBounds`), and what the locals of a loop mean (`LocalsInBounds`). TLC checks `IInv` in
`read_queue`. There is one lemma per action that it preserves `IInv`, one that says how it moves the two
places, and one that it is a step of the stream or a stutter; `ReadCopyFacts` does the arithmetic of one
copy for both.

**Annotation parser.** Under the condition `FirstWhole`, without which the run `annotation_split` shows
the property to be false. `ParserInv` says at each place of `annotation_parser_read` how far it
has read the record it is at, and that the committed position is the end of the last record returned
(`Mark`: or the start of the stream, as long as only the version byte was read). That a rollback then
gives back the version byte never happens, because a record is there. What is read is what was sent
because each record has its place in the stream (`SentIs`) and a number is what its digits weigh
(`NumberOfDigits`, by division with remainder).

**Tokenizer.** `TokenizerInv` places the committed position, the read position and the end of the last
token in the one pass of `Kinds` over the whole output: between two tokens (`Boundary`) all that
separates the three are newlines, which is why a rollback repeats newlines and nothing else; inside a
sequence (`InSequence`) the state of `read_esc_seq` is the kind of the last byte. More output changes no
kind of what was there (`MoreInput`).

**Buffer.** `Held` says that highlights are disjoint, in order and inside the text, that only the last can be open, that
its style is that of the bytes in it (`BytesAreStyled`), and that line ends are the newlines, ascending
(`EndsAreNewlines`). `Rendered` is the invariant of the two loops of `get_render_lines`: the spans so far are
the bytes up to `offset` and `highlight` is the first highlight that can matter for the next one.

**Style.** `StyleInv` relates the loop over the codes to the reference: the codes before the cursor are
accounted for (`GoneThrough`), the cursor is where a command begins, and colors and attributes are those of the last
commands before it.

**Colors.** Only as long as all styles asked for are of two basic colors: a style with the default color can
take the number of another. `PairsInv` says of every number in the table, once all styles
asked for are basic, that the pair has the colors the number stands for in base eight; two basic styles
never have the same number (`PairsDiffer`).

**Lines.** `LeftInv` relates columns drawn, columns left and the width of the box at each place of
the loop as long as bytes are columns; `CutInv` says that a span that was cut took all that was left.

**Strings.** Both theorems say nothing new of a string once the loop is past its end. Before that, a high
surrogate in hand is three bytes read and not written (`FitsWithRoom`). In a well-formed
string what is in hand is the last unit, if that is a high surrogate, and nothing otherwise, and what was
written is the characters that the units before it stand for (`StringInv`). The characters are pieces laid
end to end, one piece for each unit that ends a character, so that each unit adds one piece or none
(`CharactersOfMore`).

**Cursor and scroll.** That the cursor
is on the screen when the calls have returned is not inductive, because a signal finds the functions half way: `IInv` says
what holds at each place. A frame has a *rank*, how many more calls it will make if left
alone (`Rank`, from the place, the argument, and whether the cursor is on the screen); calls made plus
rank stay within the bound, which gives `FewCalls` and, since a frame returns only after it found the
cursor on the screen, the rest. When a signal interrupts the main frame its rank is no longer
known, for the handler changes what it depends on. But the handler ends with the cursor on the screen
(`SeenInv`), and no rank is above two (`RankBound`: after two calls the cursor is where the scroll
position is, or the other way round): those are the two calls each signal adds. `RankInv` uses the rank
while what the frame may have read is what is there (`Fresh`), and two otherwise.
`PlacesInv` keeps a cursor that was just set inside the buffer, `ArgInv` an argument within its type, and
`FullInv` says that the screen is full unless a frame is about to scroll, and that what it is about to store
makes it full, unless a signal came in between.

**Stack.** `StackInv` says what the links of every item are at every statement of push and pop, those of
the item that is being linked in or out included (`ItemInv`), and that unallocated items link to nothing.
Read from `last` downwards the links are then `order`, so that one statement of each operation is its
step of `Stack` and the others change nothing. `BoxInv` with `LoopInv` follows the layout from pane to pane: those
laid out so far lie side by side from the left, and the last takes what the division left over.

**References.** `PagersInv` is `CountsAreReferences` with the types and what `popping` means; the work is
to count what an action does to the stack, the lists and the objects (`PagerReferences`).
`NothingFreedIsUsed` follows, since what is referred to has a positive count.

**Main loop.** Whether keys match depends on the last key only (`LastKeyDecides`), so that what waits
is unmatched when a key is added or the buffer is emptied (`InputInv`). `ScreenInv` follows a drawing
from its start to its end, unless a signal tore it.

**Event loop.** `IoInv` has a part for each thing that the handlers rely on:
- the lists are in the order of starting (`ListsSorted`), and what is no longer listed and not reaped fell off
  behind something older (`Fallen`);
- which buffer a pager has, and that two pagers never share one (`BuffersHeld`, `OwnersDiffer`), what a
  pop or reload has stopped (`CancelledStopped`), that only the newest command of a pager still reads
  (`NewestReads`);
- why a listed annotator or command may have lost its buffer (`ReadersHeld`, `OrphansExplained`), and that
  an address used again has a later generation (`Generations`);
- who can hold a write end (`WriteEnds`), and that a write end ratc closed had all there was (`Eofs`);
- that what is waited for has ended (`EndedInv`);
- which calls can still be to come of the operation under way (`CallsFit`): between two calls of a reload most
  of the above is true only up to the calls that are left;
- during a tick, that each item left is about something open and no two are about the same (`ItemsInv`), and
  that nothing is finished when ratc polls but what was killed (`PolledInv`).

`TypeOK` also bounds what is in the pipes. That needs `Sizes`: an item that `poll` reported stays ready
until it is handled, since nobody but ratc reads or writes that end. It means that the one thread
never blocks in a `read` and that a `write` finds room in the pipe.

The last two theorems are under the condition `OneLoad`: one command of one pager is ever started, and
annotators read all their input before they end (`Polite`), of which there may be any number. Without it both
properties are false: after a reload ratc does use freed buffers (`UndefinedOnlyInPrune` says where), and an
annotator that stops reading ends ratc with SIGPIPE. `LoadInv` is the invariant, on top of `IoInv`. Every buffer that the loop
polls for is that of the pager, which is live until the pager is popped and ratc quits (`OneBuffer`, `Shown`).
An annotator that hung up had its end of input, and nobody holds the write end any more, or it was
killed (`HungHadAll`). Every younger annotator not in `late` holds that write end until it is dead
(`Inherited`). So when `poll` reports that one hung up, those that were listed before it and are not late for it have
hung up, too, and their items come first, within the limit of `build_io_items` (`EarlierBuilt`):
who finishes is preceded by those who finish, or will with the items left of this tick (`NewerFirst`). A pop
kills the first of the list only, before which there is nobody.

**How data are reasoned about.** The prover's induction theorems take an operator as a parameter and cannot
be used. Where a recursive function or a fold has to be known for every input (`Lefts`, `Begins`,
`Ascending`, `Kinds`, `Weight`, `Number`, `FlattenSeq`), the proofs go by least counterexample: a set of numbers that is not empty has
a least one (`LeastNatural`, from the library's theorem on well-founded relations), so if the recursion had no
solution, or the solution not the property, there would be a first place where it fails, and
the place before it gives the contradiction.

## 5. What is only model-checked, and what is not modelled

Model-checked only is liveness (`CallsReturn`, `CommandReaped`, `AnnotatorReaped`, `PoppedAreFreed`), which is out of the
prover's reach (`FewCalls`, a bound on calls, is proved, and says that the moves of `PagerView` end).

Not modelled:
- `duktape.c` and its headers, the JavaScript engine: nine of ten lines of the repository, taken
  over unchanged from another project. What the program uses of it (references, finalizers, exceptions)
  is in `Pagers` and `Rat`. Of the 3768 lines of ratc's own code without its tests, the modules
  translate about half; what is left is mostly declarations, allocation and freeing of single structs,
  the registration of script functions, and parsing of key names.
- `widget.c`, which nothing uses; `minunit.h` and the tests, which are read as statements about the code.
- Output: the calls of curses, the width tables of utf8proc, the border and status line of a pager.
- Failures of `malloc` and of system calls, among them `EINTR` (the handler is installed without
  `SA_RESTART`, so that `waitpid` and `read` can be interrupted), and the fact that the signal handler
  allocates and frees, which a handler must not do when the signal came in the middle of `malloc`.
- A signal before `rat_run` has the stack (`rat_init`).

Known, and in no property: a string whose last character is cut short, which an annotator may send or a
file's name be, is read past its end by `cesu8_to_utf8` (`js_api.c:31`); a zero byte ends the text of a token (`token.c:17`; `Buffer` has such tokens,
of length 0); annotations and their texts are cut the same way; listeners are never freed; a pager that
was never pushed stays in the stash; a script that moves a pager which never had a box follows a NULL
pointer; the infinite loop of `tokenizer.c:94`; the write end of a killed annotator's input stays
open (`io.c:357`).

## 6. Plan

Done: the modules of section 2 and the theorems of section 4. Left: `IoLoop` with a popped pager that is
pushed again, and with system calls that are interrupted.
