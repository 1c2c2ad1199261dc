------------------------------- MODULE IoLoop -------------------------------
(***************************************************************************)
(* io.c, the event loop of ratc, with the processes it talks to and the    *)
(* pager operations a key press makes it run.                              *)
(*                                                                         *)
(* A pager's command writes into a pipe, the loop reads the pipe into the  *)
(* pager's Buffer, feeds the buffer to every annotator process through a   *)
(* second pipe and reads annotations back through a third.  Everything in  *)
(* ratc runs in one thread, from poll to prune; the processes run beside   *)
(* it and may do anything between two of its steps.                        *)
(*                                                                         *)
(* Data is counted, not represented: a pipe holds up to PipeCap units, one *)
(* read takes one unit, and a unit of a command's output becomes any       *)
(* amount of buffer content, because the tokenizer in between drops escape *)
(* sequences and holds incomplete ones back.                               *)
(***************************************************************************)
EXTENDS Integers, Sequences, FiniteSets, SequencesExt

CONSTANTS
  MaxPagers,     \* bound: pagers ever created
  MaxBios,       \* bound: commands ever started
  MaxAios,       \* bound: annotator processes ever started
  Addr,          \* heap addresses a Buffer can have
  NULL,          \* no address
  PipeCap,       \* units of data a pipe holds
  MaxContent,    \* bound: units of content in a buffer
  MaxOutput,     \* bound: units of output of one process
  MaxOps,        \* bound: key presses, and operations on pagers, together
  Polite         \* annotators read all their input before they exit

ASSUME ConstantsAssumption ==
  /\ MaxPagers \in Nat /\ MaxBios \in Nat /\ MaxAios \in Nat
  /\ PipeCap \in Nat \ {0} /\ MaxContent \in Nat /\ MaxOutput \in Nat
  /\ MaxOps \in Nat /\ Polite \in BOOLEAN /\ NULL \notin Addr

Pager == 1..MaxPagers
Bio   == 1..MaxBios        \* struct buffer_io, with its process
Aio   == 1..MaxAios        \* struct annotator_io, with its process
Ratc  == <<"ratc", 0>>     \* holders of a file descriptor
BProc(i) == <<"command", i>>
AProc(a) == <<"annotator", a>>

VARIABLES
  phase,      \* where the thread is in rat_run and io_tick
  status,     \* running, or how ratc came to an end
  done,       \* the user asked to quit
  items,      \* the poll items of this tick still to be handled
  calls,      \* the calls a key handler has still to make
  bios, bio,  \* io->buffers, newest first, and the structs
  aios, aio,  \* io->annotators, newest first, and the structs
  nItems,     \* io->n_items
  buf,        \* the Buffer objects, by address
  pager,      \* the Pager objects
  procB, procA,        \* state of the processes
  outB, leftB,         \* a command's output pipe, output still to come
  inA, outA, leftA,    \* an annotator's two pipes, output still to come
  wfd,        \* who holds a write end of an annotator's input pipe
  ops,        \* key presses and operations left (bound)
  born,       \* history: the generation of the buffer an annotator is for
  late        \* history: older annotators that were wdone when it began

loopVars == <<phase, status, done, items, calls>>
listVars == <<bios, bio, aios, aio, nItems>>
heapVars == <<buf, pager>>
procVars == <<procB, procA, outB, leftB, inA, outA, leftA, wfd>>
histVars == <<ops, born, late>>
vars == <<loopVars, listVars, heapVars, procVars, histVars>>

Init ==
  /\ phase = "script" /\ status = "running" /\ done = FALSE
  /\ items = <<>> /\ calls = <<>>
  /\ bios = <<>> /\ bio = [i \in Bio |-> [buffer |-> NULL, rdone |-> FALSE]]
  /\ aios = <<>>
  /\ aio = [a \in Aio |-> [buffer |-> NULL, woffset |-> 0,
                           wdone |-> FALSE, rdone |-> FALSE]]
  /\ nItems = 0
  /\ buf = [x \in Addr |-> [live |-> FALSE, len |-> 0, gen |-> 0]]
  /\ pager = [p \in Pager |-> [state |-> "none", buffer |-> NULL, annotators |-> 0]]
  /\ procB = [i \in Bio |-> "none"] /\ procA = [a \in Aio |-> "none"]
  /\ outB = [i \in Bio |-> 0] /\ leftB = [i \in Bio |-> MaxOutput]
  /\ inA = [a \in Aio |-> 0]
  /\ outA = [a \in Aio |-> 0] /\ leftA = [a \in Aio |-> MaxOutput]
  /\ wfd = [a \in Aio |-> {}]
  /\ ops = MaxOps /\ born = [a \in Aio |-> 0]
  /\ late = [a \in Aio |-> {}]

nBios == Cardinality({i \in Bio : procB[i] # "none"})
nAios == Cardinality({a \in Aio : procA[a] # "none"})

(* The members of S, a set of numbers from 1 to n, in ascending order.     *)
Ascending(S, n) ==
  LET upTo[m \in 0..n] ==
        IF m = 0 THEN <<>> ELSE IF m \in S THEN Append(upTo[m-1], m) ELSE upTo[m-1]
  IN  upTo[n]

(* io_buffer_is_running: the first entry of the list for buffer b decides. *)
IsRunning(b) ==
  LET k == SelectInSeq(bios, LAMBDA i : bio[i].buffer = b)
  IN  k # 0 /\ ~bio[bios[k]].rdone
-----------------------------------------------------------------------------
(* The processes.  A forked child is in its own process group only after   *)
(* setpgrp.  One that is "ending" closed its pipes, or was sent SIGTERM,   *)
(* and lives on for a while; it keeps the descriptors it inherited until   *)
(* it is dead.                                                             *)
Gone(proc) == proc \in {"dead", "reaped"}
Hung(proc) == proc \in {"ending", "dead", "reaped"}

Release(c, holders) == [a \in Aio |-> holders[a] \ {c}]

CommandStarts(i) ==
  /\ procB[i] = "forked"
  /\ procB' = [procB EXCEPT ![i] = "running"]
  /\ UNCHANGED <<loopVars, listVars, heapVars, procA, outB, leftB, inA, outA,
                 leftA, wfd, histVars>>

CommandWrites(i) ==
  /\ procB[i] = "running" /\ outB[i] < PipeCap /\ leftB[i] > 0
  /\ outB' = [outB EXCEPT ![i] = @ + 1]
  /\ leftB' = [leftB EXCEPT ![i] = @ - 1]
  /\ UNCHANGED <<loopVars, listVars, heapVars, procB, procA, inA, outA, leftA,
                 wfd, histVars>>

CommandCloses(i) ==
  /\ procB[i] = "running"
  /\ procB' = [procB EXCEPT ![i] = "ending"]
  /\ UNCHANGED <<loopVars, listVars, heapVars, procA, outB, leftB, inA, outA,
                 leftA, wfd, histVars>>

CommandExits(i) ==
  /\ procB[i] \in {"running", "ending"}
  /\ procB' = [procB EXCEPT ![i] = "dead"]
  /\ wfd' = Release(BProc(i), wfd)
  /\ UNCHANGED <<loopVars, listVars, heapVars, procA, outB, leftB, inA, outA,
                 leftA, histVars>>

AnnotatorStarts(a) ==
  /\ procA[a] = "forked"
  /\ procA' = [procA EXCEPT ![a] = "running"]
  /\ UNCHANGED <<loopVars, listVars, heapVars, procB, outB, leftB, inA, outA,
                 leftA, wfd, histVars>>

AnnotatorConsumes(a) ==
  /\ procA[a] = "running" /\ inA[a] > 0
  /\ inA' = [inA EXCEPT ![a] = @ - 1]
  /\ UNCHANGED <<loopVars, listVars, heapVars, procB, procA, outB, leftB, outA,
                 leftA, wfd, histVars>>

AnnotatorAnswers(a) ==
  /\ procA[a] = "running" /\ outA[a] < PipeCap /\ leftA[a] > 0
  /\ outA' = [outA EXCEPT ![a] = @ + 1]
  /\ leftA' = [leftA EXCEPT ![a] = @ - 1]
  /\ UNCHANGED <<loopVars, listVars, heapVars, procB, procA, outB, leftB, inA,
                 wfd, histVars>>

(* End of input: everything was read and nobody can write any more.        *)
AtEof(a) == inA[a] = 0 /\ wfd[a] = {}

AnnotatorCloses(a) ==
  /\ procA[a] = "running" /\ (Polite => AtEof(a))
  /\ procA' = [procA EXCEPT ![a] = "ending"]
  /\ UNCHANGED <<loopVars, listVars, heapVars, procB, outB, leftB, inA, outA,
                 leftA, wfd, histVars>>

AnnotatorExits(a) ==
  /\ procA[a] = "ending" \/ (procA[a] = "running" /\ (Polite => AtEof(a)))
  /\ procA' = [procA EXCEPT ![a] = "dead"]
  /\ wfd' = Release(AProc(a), wfd)
  /\ UNCHANGED <<loopVars, listVars, heapVars, procB, outB, leftB, inA, outA,
                 leftA, histVars>>

Process ==
  /\ phase # "done"
  /\ \/ \E i \in Bio : \/ CommandStarts(i) \/ CommandWrites(i)
                       \/ CommandCloses(i) \/ CommandExits(i)
     \/ \E a \in Aio : \/ AnnotatorStarts(a) \/ AnnotatorConsumes(a)
                       \/ AnnotatorAnswers(a) \/ AnnotatorCloses(a)
                       \/ AnnotatorExits(a)
-----------------------------------------------------------------------------
(* What a key handler, or the start-up script, may ask of a pager.  One    *)
(* operation is a few calls into pager.c and io.c, made one after the      *)
(* other by the same thread while the processes run on.                    *)
Call(op, p) == [op |-> op, pager |-> p]

Asking == phase \in {"script", "keys"} /\ calls = <<>> /\ ops > 0

(* new Pager(cmd) and Rat.pushPager.                                       *)
NewPager(p) ==
  /\ Asking /\ nBios < MaxBios
  /\ pager[p].state = "none" /\ \A q \in 1..p-1 : pager[q].state # "none"
  /\ pager' = [pager EXCEPT ![p].state = "stacked"]
  /\ calls' = <<Call("run", p)>>
  /\ ops' = ops - 1
  /\ UNCHANGED <<phase, status, done, items, listVars, buf, procVars, born, late>>

(* A script can use a pager it holds a reference to: every one on the stack *)
(* and those popped ones it kept.  A popped one for which a process was     *)
(* started since is "revived".                                             *)
Usable == {"stacked", "popped", "revived"}
Used(state) == IF state = "stacked" THEN "stacked" ELSE "revived"

(* pager.addAnnotator.                                                     *)
AddAnnotator(p) ==
  /\ Asking /\ pager[p].state \in Usable /\ nAios < MaxAios
  /\ pager' = [pager EXCEPT ![p].annotators = @ + 1, ![p].state = Used(@)]
  /\ calls' = <<Call("annotate", p)>>
  /\ ops' = ops - 1
  /\ UNCHANGED <<phase, status, done, items, listVars, buf, procVars, born, late>>

(* pager.reload, also of a pager the script still holds after its pop.     *)
Reload(p) ==
  /\ Asking /\ pager[p].state \in Usable
  /\ nBios < MaxBios /\ nAios + pager[p].annotators <= MaxAios
  /\ pager' = [pager EXCEPT ![p].state = Used(@)]
  /\ calls' = <<Call("cancel", p), Call("run", p)>>
               \o [k \in 1..pager[p].annotators |-> Call("annotate", p)]
  /\ ops' = ops - 1
  /\ UNCHANGED <<phase, status, done, items, listVars, buf, procVars, born, late>>

(* Rat.popPager, of the newest pager on the stack.  It is freed at once     *)
(* when the script holds no other reference to it.                         *)
PopPager(p) ==
  /\ Asking /\ pager[p].state = "stacked"
  /\ \A q \in Pager : pager[q].state = "stacked" => q <= p
  /\ \E held \in BOOLEAN :
       /\ pager' = [pager EXCEPT ![p].state = IF held THEN "popped" ELSE "freed"]
       /\ calls' = <<Call("cancel", p)>> \o (IF held THEN <<>> ELSE <<Call("free", p)>>)
  /\ ops' = ops - 1
  /\ UNCHANGED <<phase, status, done, items, listVars, buf, procVars, born, late>>

(* The garbage collector finalizes a popped pager: nothing is cancelled.   *)
CollectPager(p) ==
  /\ Asking /\ pager[p].state \in {"popped", "revived"}
  /\ pager' = [pager EXCEPT ![p].state = IF @ = "revived" THEN "abandoned" ELSE "freed"]
  /\ calls' = <<Call("free", p)>>
  /\ ops' = ops - 1
  /\ UNCHANGED <<phase, status, done, items, listVars, buf, procVars, born, late>>

(* The script or the handler returns; rat_run goes on as long as a pager   *)
(* is on the stack.                                                        *)
ContinuesWithoutPagers == ~done    \* wrong on purpose: only the key ends it
Continues == ~done /\ \E p \in Pager : pager[p].state = "stacked"

HandlerReturns ==
  /\ phase \in {"script", "keys"} /\ calls = <<>>
  /\ phase' = IF phase = "keys" THEN "prune" ELSE IF Continues THEN "poll" ELSE "done"
  /\ UNCHANGED <<status, done, items, calls, listVars, heapVars, procVars, histVars>>
-----------------------------------------------------------------------------
(* The calls.                                                              *)
Calling(op, p) == calls # <<>> /\ Head(calls) = Call(op, p)

Ends(how) ==
  /\ status' = how /\ phase' = "done"
  /\ UNCHANGED <<done, items, calls, listVars, heapVars, procVars, histVars>>

(* Killing a child that has not called setpgrp yet fails, and ratc exits.  *)
TerminateNothing(proc) == proc          \* wrong on purpose: no kill
Terminate(proc) == IF Gone(proc) THEN proc ELSE "ending"

(* io_close_buffer kills the first entry for the buffer in each list: with *)
(* several annotators the newest only.                                     *)
CancelledCommandsNone(b) == {}          \* wrong on purpose: forgets them
CancelledCommands(b) ==
  LET k == SelectInSeq(bios, LAMBDA i : bio[i].buffer = b)
  IN  {i \in Bio : k # 0 /\ i = bios[k] /\ ~bio[i].rdone}

CancelledAnnotatorsNone(b) == {}        \* wrong on purpose: forgets them
CancelledAnnotators(b) ==
  LET k == SelectInSeq(aios, LAMBDA a : aio[a].buffer = b)
  IN  {a \in Aio : k # 0 /\ a = aios[k] /\ ~aio[a].rdone}

(* The write end of a killed annotator's input stays open in ratc.         *)
Cancel(p) ==
  /\ Calling("cancel", p)
  /\ LET is == CancelledCommands(pager[p].buffer)
         as == CancelledAnnotators(pager[p].buffer)
     IN  IF \/ \E i \in is : procB[i] = "forked"
            \/ \E a \in as : procA[a] = "forked"
         THEN Ends("exited")
         ELSE /\ bio' = [i \in Bio |-> [bio[i] EXCEPT !.rdone = @ \/ i \in is]]
              /\ aio' = [a \in Aio |-> [aio[a] EXCEPT !.wdone = @ \/ a \in as,
                                                      !.rdone = @ \/ a \in as]]
              /\ procB' = [i \in Bio |-> IF i \in is THEN Terminate(procB[i]) ELSE procB[i]]
              /\ procA' = [a \in Aio |-> IF a \in as THEN Terminate(procA[a]) ELSE procA[a]]
              /\ calls' = Tail(calls)
              /\ UNCHANGED <<phase, status, done, items, bios, aios, nItems, heapVars,
                             outB, leftB, inA, outA, leftA, wfd, histVars>>

(* A new process inherits every write end ratc has open.                   *)
InheritNothing(c) == wfd                \* wrong on purpose: closed on exec
Inherit(c) == [a \in Aio |-> IF Ratc \in wfd[a] THEN wfd[a] \cup {c} ELSE wfd[a]]

(* run_pager_command up to io_start_buffer: the old buffer is freed first, *)
(* so the new one can get its address.                                     *)
Run(p) ==
  /\ Calling("run", p)
  /\ LET old == pager[p].buffer
         i == nBios + 1
     IN  \E x \in {y \in Addr : ~buf[y].live \/ y = old} :
           /\ buf' = [y \in Addr |->
                        IF y = x THEN [live |-> TRUE, len |-> 0, gen |-> buf[y].gen + 1]
                        ELSE IF y = old THEN [buf[y] EXCEPT !.live = FALSE] ELSE buf[y]]
           /\ pager' = [pager EXCEPT ![p].buffer = x]
           /\ bio' = [bio EXCEPT ![i] = [buffer |-> x, rdone |-> FALSE]]
           /\ bios' = <<i>> \o bios
           /\ nItems' = nItems + 1
           /\ procB' = [procB EXCEPT ![i] = "forked"]
           /\ wfd' = Inherit(BProc(i))
  /\ calls' = Tail(calls)
  /\ UNCHANGED <<phase, status, done, items, aios, aio, procA, outB, leftB, inA,
                 outA, leftA, histVars>>

(* io_start_annotating_buffer.  The new entry is the first of the list.    *)
ListedLast(a) == Append(aios, a)        \* wrong on purpose: the last
Listed(a) == <<a>> \o aios

Annotate(p) ==
  /\ Calling("annotate", p)
  /\ LET a == nAios + 1
         b == pager[p].buffer
     IN  /\ aio' = [aio EXCEPT ![a] = [buffer |-> b, woffset |-> 0,
                                       wdone |-> FALSE, rdone |-> FALSE]]
         /\ aios' = Listed(a)
         /\ nItems' = nItems + 1
         /\ procA' = [procA EXCEPT ![a] = "forked"]
         /\ wfd' = [Inherit(AProc(a)) EXCEPT ![a] = {Ratc}]
         /\ born' = [born EXCEPT ![a] = buf[b].gen]
         /\ late' = [late EXCEPT ![a] = {c \in 1..nAios : aio[c].wdone}]
  /\ calls' = Tail(calls)
  /\ UNCHANGED <<phase, status, done, items, bios, bio, heapVars, procB, outB,
                 leftB, inA, outA, leftA, ops>>

(* free_pager frees the buffer; io.c is not told.                          *)
FreePager(p) ==
  /\ Calling("free", p)
  /\ buf' = [buf EXCEPT ![pager[p].buffer].live = FALSE]
  /\ calls' = Tail(calls)
  /\ UNCHANGED <<phase, status, done, items, listVars, pager, procVars, histVars>>

Handler ==
  \/ \E p \in Pager :
       \/ NewPager(p) \/ AddAnnotator(p) \/ Reload(p) \/ PopPager(p) \/ CollectPager(p)
       \/ Cancel(p) \/ Run(p) \/ Annotate(p) \/ FreePager(p)
  \/ HandlerReturns
-----------------------------------------------------------------------------
(* The tick.                                                               *)
Item(type, id) == [type |-> type, id |-> id]

WantsOutWithContent(a) ==               \* wrong on purpose: never at the end
  ~aio[a].wdone /\ aio[a].woffset < buf[aio[a].buffer].len
WantsOutWhenDone(a) ==                  \* wrong on purpose: after the end too
  aio[a].woffset < buf[aio[a].buffer].len \/ ~IsRunning(aio[a].buffer)
WantsOut(a) ==
  /\ ~aio[a].wdone
  /\ aio[a].woffset < buf[aio[a].buffer].len \/ ~IsRunning(aio[a].buffer)

(* What might be polled, in the order of io's lists, and what of it is.    *)
Places == 1 .. Len(bios) + 2 * Len(aios)

Candidate(k) ==
  IF k <= Len(bios) THEN Item("buffer_in", bios[k])
  ELSE Item(IF (k - Len(bios)) % 2 = 1 THEN "annotator_out" ELSE "annotator_in",
            aios[(k - Len(bios) + 1) \div 2])

Wanted(it) ==
  CASE it.type = "buffer_in"     -> ~bio[it.id].rdone
    [] it.type = "annotator_in"  -> ~aio[it.id].rdone
    [] it.type = "annotator_out" -> WantsOut(it.id)

(* build_io_items: at most n_items + 1 items, the terminal being one; the  *)
(* rest is silently left out (io_items_add).                               *)
BuiltItems ==
  LET wanted == {k \in Places : Wanted(Candidate(k))}
  IN  {k \in wanted : Cardinality({j \in wanted : j <= k}) <= nItems}

(* POLLIN or POLLHUP on what ratc reads, POLLOUT on what it writes; a pipe *)
(* without a reader still has room.                                        *)
ReadyWithData(it) ==                    \* wrong on purpose: POLLHUP ignored
  CASE it.type = "buffer_in"     -> outB[it.id] > 0
    [] it.type = "annotator_in"  -> outA[it.id] > 0
    [] it.type = "annotator_out" -> inA[it.id] < PipeCap
Ready(it) ==
  CASE it.type = "buffer_in"     -> outB[it.id] > 0 \/ Hung(procB[it.id])
    [] it.type = "annotator_in"  -> outA[it.id] > 0 \/ Hung(procA[it.id])
    [] it.type = "annotator_out" -> inA[it.id] < PipeCap

Hup(it) ==
  CASE it.type = "buffer_in"     -> Hung(procB[it.id])
    [] it.type = "annotator_in"  -> Hung(procA[it.id])
    [] it.type = "annotator_out" -> FALSE

Polled(it) == [type |-> it.type, id |-> it.id, hup |-> Hup(it)]

(* Deciding whether an annotator wants output reads its buffer.            *)
ReadsFreedBuffer == \E a \in ToSet(aios) : ~aio[a].wdone /\ ~buf[aio[a].buffer].live

Poll ==
  /\ phase = "poll"
  /\ IF ReadsFreedBuffer
     THEN Ends("undefined")
     ELSE \E ready \in {{k \in BuiltItems : Ready(Candidate(k))}} :
            /\ ready # {}
            /\ \E order \in {Ascending(ready, Len(bios) + 2 * Len(aios))} :
                 items' = [k \in DOMAIN order |-> Polled(Candidate(order[k]))]
            /\ phase' = "items"
            /\ UNCHANGED <<status, done, calls, listVars, heapVars, procVars, histVars>>

(* A key is handled by itself: the items of this poll are dropped.  'Q'     *)
(* ends the program after this tick, and is handled like any other key.    *)
PollKey ==
  /\ phase = "poll" /\ ~ReadsFreedBuffer
  /\ ops > 0 /\ ops' = ops - 1
  /\ phase' = "keys"
  /\ \E ch \in {"Q", "other"} : done' = (ch = "Q")
  /\ UNCHANGED <<status, items, calls, listVars, heapVars, procVars, born, late>>

Handling(type) == phase = "items" /\ items # <<>> /\ Head(items).type = type

(* buffer_io_read, once or, after a hang-up, until it returns 0.  Whether  *)
(* a unit of output completes a token is up to the tokenizer.              *)
BufferRead ==
  /\ Handling("buffer_in")
  /\ LET i == Head(items).id
         b == bio[i].buffer
         hup == Head(items).hup
     IN  \E token \in {FALSE, outB[i] > 0} :
           IF token /\ ~buf[b].live
           THEN Ends("undefined")
           ELSE /\ outB' = [outB EXCEPT ![i] = IF hup THEN 0 ELSE @ - 1]
                /\ \E g \in 0..(IF token THEN MaxContent - buf[b].len ELSE 0) :
                     buf' = [buf EXCEPT ![b].len = @ + g]
                /\ bio' = [bio EXCEPT ![i].rdone = hup]
                /\ items' = Tail(items)
                /\ UNCHANGED <<phase, status, done, calls, bios, aios, aio, nItems, pager,
                               procB, procA, leftB, inA, outA, leftA, wfd, histVars>>

(* annotator_io_write.  A write takes what the pipe has room for.  Writing  *)
(* to a process that closed its input raises SIGPIPE, which ratc does not  *)
(* handle.  When all is written and the command is done, the pipe is       *)
(* closed: the annotator's end of input.                                   *)
Remaining(a) == buf[aio[a].buffer].len - aio[a].woffset

Written(a) ==
  LET room == PipeCap - inA[a]
  IN  IF Remaining(a) <= 0 THEN 0 ELSE IF Remaining(a) < room THEN Remaining(a) ELSE room

EndOfInputEarly(a, n) == n = Remaining(a)   \* wrong on purpose: caught up is enough
EndOfInput(a, n) == n = Remaining(a) /\ ~IsRunning(aio[a].buffer)

AnnotatorWrite ==
  /\ Handling("annotator_out")
  /\ LET a == Head(items).id
         n == Written(a)
     IN  IF Remaining(a) > 0 /\ Hung(procA[a])
         THEN Ends("killed")
         ELSE /\ inA' = [inA EXCEPT ![a] = @ + n]
              /\ aio' = [aio EXCEPT ![a].woffset = @ + n,
                                    ![a].wdone = @ \/ EndOfInput(a, n)]
              /\ wfd' = [wfd EXCEPT ![a] = IF EndOfInput(a, n) THEN @ \ {Ratc} ELSE @]
              /\ items' = Tail(items)
              /\ UNCHANGED <<phase, status, done, calls, bios, bio, aios, nItems, heapVars,
                             procB, procA, outB, leftB, outA, leftA, histVars>>

(* annotator_io_read, once or until it returns 0.  What was read may       *)
(* complete an annotation, which is added to the buffer.                   *)
AnnotatorRead ==
  /\ Handling("annotator_in")
  /\ LET a == Head(items).id
         hup == Head(items).hup
     IN  \E complete \in {FALSE, outA[a] > 0} :
           IF complete /\ ~buf[aio[a].buffer].live
           THEN Ends("undefined")
           ELSE /\ outA' = [outA EXCEPT ![a] = IF hup THEN 0 ELSE @ - 1]
                /\ aio' = [aio EXCEPT ![a].rdone = hup]
                /\ items' = Tail(items)
                /\ UNCHANGED <<phase, status, done, calls, bios, bio, aios, nItems, heapVars,
                               procB, procA, outB, leftB, inA, leftA, wfd, histVars>>

ItemsDone ==
  /\ phase = "items" /\ items = <<>>
  /\ phase' = "prune"
  /\ UNCHANGED <<status, done, items, calls, listVars, heapVars, procVars, histVars>>

(* io_prune_finished.  Of two neighbours in the buffer list that both      *)
(* finished, the second is unlinked through the first, which is freed by   *)
(* then.  In the annotator list the entry before is never remembered, so   *)
(* a finished entry takes every entry before it off the list.  waitpid     *)
(* blocks until the process is gone; its descriptors are closed then.      *)
Prune ==
  /\ phase = "prune"
  /\ LET doneB == {i \in ToSet(bios) : bio[i].rdone}
         doneA == {a \in ToSet(aios) : aio[a].rdone}
         kept == Ascending({k \in DOMAIN bios : bios[k] \notin doneB}, Len(bios))
         last == SelectLastInSeq(aios, LAMBDA a : a \in doneA)
     IN  /\ \A i \in doneB : Gone(procB[i])
         /\ \A a \in doneA : Gone(procA[a])
         /\ IF \E k \in 1..Len(bios)-1 : {bios[k], bios[k+1]} \subseteq doneB
            THEN Ends("undefined")
            ELSE /\ bios' = [k \in DOMAIN kept |-> bios[kept[k]]]
                 /\ aios' = SubSeq(aios, last + 1, Len(aios))
                 /\ procB' = [i \in Bio |-> IF i \in doneB THEN "reaped" ELSE procB[i]]
                 /\ procA' = [a \in Aio |-> IF a \in doneA THEN "reaped" ELSE procA[a]]
                 /\ phase' = IF Continues THEN "poll" ELSE "done"
                 /\ UNCHANGED <<status, done, items, calls, bio, aio, nItems, heapVars, outB,
                                leftB, inA, outA, leftA, wfd, histVars>>

Tick == Poll \/ BufferRead \/ AnnotatorWrite \/ AnnotatorRead \/ ItemsDone \/ Prune

Next == Handler \/ PollKey \/ Tick \/ Process

Spec == Init /\ [][Next]_vars
-----------------------------------------------------------------------------
(* Fairness.  The thread never stops on its own: it is ratc's only one and *)
(* the processor is shared fairly.  A forked child gets to run.  A process *)
(* that was sent SIGTERM or closed its pipes comes to its end.  An         *)
(* annotator goes on reading its input unless it is blocked on a full      *)
(* output pipe, and exits at the end of it.  Nothing is assumed of a       *)
(* running command, of what the processes write, or of the user.           *)
Fairness ==
  /\ WF_vars(Tick) /\ WF_vars(HandlerReturns)
  /\ \A p \in Pager : WF_vars(Cancel(p) \/ Run(p) \/ Annotate(p) \/ FreePager(p))
  /\ \A i \in Bio : /\ WF_vars(CommandStarts(i))
                    /\ WF_vars(procB[i] = "ending" /\ CommandExits(i))
  /\ \A a \in Aio : /\ WF_vars(AnnotatorStarts(a))
                    /\ WF_vars(outA[a] < PipeCap /\ AnnotatorConsumes(a))
                    /\ WF_vars((procA[a] = "ending" \/ AtEof(a)) /\ AnnotatorExits(a))

FairSpec == Spec /\ Fairness
-----------------------------------------------------------------------------
(* Types: in particular a pipe never holds more than it has room for, so   *)
(* the event loop never writes what a non-blocking write would not take.   *)
TypeOK ==
  /\ phase \in {"script", "keys", "poll", "items", "prune", "done"}
  /\ status \in {"running", "exited", "killed", "undefined"}
  /\ done \in BOOLEAN /\ nItems = nBios + nAios /\ ops \in 0..MaxOps
  /\ ToSet(bios) \subseteq Bio /\ IsInjective(bios)
  /\ ToSet(aios) \subseteq Aio /\ IsInjective(aios)
  /\ bio \in [Bio -> [buffer : Addr \cup {NULL}, rdone : BOOLEAN]]
  /\ aio \in [Aio -> [buffer : Addr \cup {NULL}, woffset : 0..MaxContent,
                      wdone : BOOLEAN, rdone : BOOLEAN]]
  /\ buf \in [Addr -> [live : BOOLEAN, len : 0..MaxContent, gen : 0..MaxBios]]
  /\ procB \in [Bio -> {"none", "forked", "running", "ending", "dead", "reaped"}]
  /\ procA \in [Aio -> {"none", "forked", "running", "ending", "dead", "reaped"}]
  /\ outB \in [Bio -> 0..PipeCap] /\ leftB \in [Bio -> 0..MaxOutput]
  /\ inA \in [Aio -> 0..PipeCap]
  /\ outA \in [Aio -> 0..PipeCap] /\ leftA \in [Aio -> 0..MaxOutput]
  /\ born \in [Aio -> 0..MaxBios]

(* Every item that is still to be handled is about an entry that is still  *)
(* listed and a descriptor that is still open: handling one item must not  *)
(* close or finish what a later item of the same poll is about, and what   *)
(* was closed must not be polled again (its number may be reused).         *)
ItemsAreOpen ==
  phase = "items" =>
    \A it \in ToSet(items) :
      CASE it.type = "buffer_in"     -> it.id \in ToSet(bios) /\ ~bio[it.id].rdone
        [] it.type = "annotator_in"  -> it.id \in ToSet(aios) /\ ~aio[it.id].rdone
        [] it.type = "annotator_out" -> it.id \in ToSet(aios) /\ Ratc \in wfd[it.id]

(* An annotator has the buffer it was started for while nobody else got    *)
(* its address.                                                            *)
Own(a) == LET b == aio[a].buffer IN buf[b].live /\ buf[b].gen = born[a]

(* io_prune_finished calls waitpid only for processes that were killed or  *)
(* that closed their pipes: the user interface never waits for a process   *)
(* that goes on working.                                                   *)
WaitsOnlyForEnded ==
  /\ \A i \in ToSet(bios) : bio[i].rdone => procB[i] \in {"ending", "dead"}
  /\ \A a \in ToSet(aios) : aio[a].rdone => procA[a] \in {"ending", "dead"}

(* A command that ratc still reads from has its buffer: the only way to    *)
(* lose it is to use a pager again after its pop and to let the garbage    *)
(* collector have it (free_pager does not cancel).                         *)
Abandoned(b) == \E p \in Pager : pager[p].state = "abandoned" /\ pager[p].buffer = b

ReadersHaveBuffers ==
  \A i \in ToSet(bios) :
    ~bio[i].rdone /\ calls = <<>> => buf[bio[i].buffer].live \/ Abandoned(bio[i].buffer)

(* When ratc closes an annotator's input, the annotator was given the      *)
(* whole buffer: its command is finished and nothing is added afterwards   *)
(* (annotator_io_write and io_buffer_is_running).  Only the command of an  *)
(* abandoned pager may go on writing to an address that is used again.     *)
EofMeansAll ==
  \A a \in Aio :
    procA[a] # "none" /\ Ratc \notin wfd[a] /\ Own(a) /\ ~Abandoned(aio[a].buffer) =>
      aio[a].woffset = buf[aio[a].buffer].len /\ ~IsRunning(aio[a].buffer)

(* The one loss of a buffer under an annotator that cancelling allows: the *)
(* buffer had a newer annotator, which io_close_buffer stopped at.  (Every *)
(* annotator but the newest is left with a buffer that is freed next.)     *)
OrphansHaveNewerSibling ==
  \A a \in ToSet(aios) :
    ~aio[a].rdone /\ calls = <<>> =>
      \/ Own(a)
      \/ Abandoned(aio[a].buffer)
      \/ \E c \in Aio : /\ c > a /\ born[c] = born[a]
                        /\ aio[c].buffer = aio[a].buffer /\ aio[c].rdone

(* An annotator falls off io's list without being waited for only because  *)
(* an older one was finished: io_prune_finished unlinks a finished entry   *)
(* together with all entries before it.                                    *)
Lost(a) == procA[a] \notin {"none", "reaped"} /\ a \notin ToSet(aios)

LostBehindOlder == \A a \in Aio : Lost(a) => \E c \in 1..a-1 : procA[c] = "reaped"

(* With one load of one pager and annotators that read all their input,    *)
(* even that needs an annotator added late, when the older one had got its *)
(* end of input or was killed: any other inherited the write end of that   *)
(* input, the older one cannot finish before it, and the first entry of    *)
(* the list is always the first to finish.                                 *)
LostOnlyWhenLate ==
  status = "running" =>
    \A a \in Aio : Lost(a) => \E c \in late[a] : procA[c] = "reaped"

(* In the same setting ratc never touches a freed buffer and never dies of *)
(* SIGPIPE, whatever is popped or quit at whatever time.                   *)
StaysUp == status \notin {"undefined", "killed"}

(* With at most one annotator the one place where ratc itself touches      *)
(* freed memory is io_prune_finished, when two neighbours of the list of   *)
(* commands finish in the same tick, apart from abandoned pagers.          *)
UndefinedOnlyInPrune ==
  status = "undefined" /\ nAios <= 1 =>
    \/ \E k \in 1..Len(bios)-1 : bio[bios[k]].rdone /\ bio[bios[k+1]].rdone
    \/ \E p \in Pager : pager[p].state = "abandoned"

(* A command that ended is waited for, unless ratc ends before.            *)
CommandReaped ==
  \A i \in Bio : procB[i] = "dead" ~> procB[i] = "reaped" \/ phase = "done"

(* Once a command is finished, each of its annotators comes to its end: it *)
(* is given the rest of the buffer and its end of input, its answers are   *)
(* read, and it is waited for, if it does not fall off the list.           *)
AnnotatorReaped ==
  \A a \in Aio : (procA[a] # "none" /\ \A i \in Bio : procB[i] \in {"none", "reaped"})
                   ~> (procA[a] = "reaped" \/ Lost(a) \/ phase = "done")
=============================================================================
