------------------------------ MODULE ReadQueue ------------------------------
(***************************************************************************)
(* read_queue.c: a queue of malloc'ed chunks between the event loop, which *)
(* appends what it read from a pipe, and a parser, which reads ahead and   *)
(* either commits what it consumed or rolls back to the last commit.       *)
(*                                                                         *)
(* Writes, peeks and rollbacks are one step each.  read, advance, commit   *)
(* and free_read_queue loop over the chunks, one loop iteration per step.  *)
(* The bytes of a chunk are represented by their places in the stream.     *)
(***************************************************************************)
EXTENDS Integers, Sequences

CONSTANTS
  MaxChunks,   \* bound: chunks ever allocated
  MaxLen       \* bound: bytes in one write, read or advance

ASSUME BoundsAssumption == MaxChunks \in Nat /\ MaxLen \in Nat

NULL  == 0
Chunk == 1..MaxChunks

VARIABLES
  allocd, start, size, next, freed,                 \* the chunks
  first, last, offset, tmpFirst, tmpOffset,         \* struct read_queue
  pc, asked, want, copied, cursor, newOffset,       \* the call in progress
  written,                                          \* history: bytes written
  ret                                               \* history: last result

chunkVars == <<allocd, start, size, next>>
localVars == <<asked, want, copied, cursor, newOffset>>
vars == <<chunkVars, freed, first, last, offset, tmpFirst, tmpOffset,
          pc, localVars, written, ret>>

Nothing == [op |-> "none", asked |-> 0, ok |-> FALSE, bytes |-> <<>>]

Init ==
  /\ allocd = 0
  /\ start = [c \in Chunk |-> 0]
  /\ size = [c \in Chunk |-> 0]
  /\ next = [c \in Chunk |-> NULL]
  /\ freed = {}
  /\ first = NULL /\ last = NULL /\ offset = 0
  /\ tmpFirst = NULL /\ tmpOffset = 0
  /\ pc = "idle" /\ asked = 0 /\ want = 0 /\ copied = <<>> /\ cursor = NULL /\ newOffset = 0
  /\ written = 0
  /\ ret = Nothing
-----------------------------------------------------------------------------
(* read_queue_write.  len = 0 returns at once and changes nothing.         *)
Write(n) ==
  /\ pc = "idle" /\ allocd < MaxChunks /\ n > 0
  /\ LET c == allocd + 1
     IN  /\ allocd' = c
         /\ start' = [start EXCEPT ![c] = written]
         /\ size' = [size EXCEPT ![c] = n]
         /\ next' = [d \in Chunk |-> IF last # NULL /\ d = last THEN c ELSE next[d]]
         /\ first' = IF last = NULL THEN c ELSE first
         /\ last' = c
         /\ tmpFirst' = IF tmpFirst = NULL THEN c ELSE tmpFirst
  /\ written' = written + n
  /\ UNCHANGED <<freed, offset, tmpOffset, pc, localVars, ret>>

(* read_queue_peek, which read_queue_readable also stands for: the next    *)
(* byte, or none.                                                          *)
Peek ==
  /\ pc = "idle"
  /\ ret' = [op |-> "peek", asked |-> 0, ok |-> tmpFirst # NULL,
             bytes |-> IF tmpFirst = NULL THEN <<>>
                       ELSE <<start[tmpFirst] + tmpOffset + 1>>]
  /\ UNCHANGED <<chunkVars, freed, first, last, offset, tmpFirst, tmpOffset,
                 pc, localVars, written>>

(* Wrong on purpose: the offset of the last commit is not restored.        *)
RollbackKeepsOffset ==
  /\ pc = "idle"
  /\ tmpFirst' = first
  /\ UNCHANGED <<chunkVars, freed, first, last, offset, tmpOffset, pc, localVars,
                 written, ret>>

(* read_queue_rollback.                                                    *)
Rollback ==
  /\ pc = "idle"
  /\ tmpFirst' = first
  /\ tmpOffset' = offset
  /\ UNCHANGED <<chunkVars, freed, first, last, offset, pc, localVars, written, ret>>
-----------------------------------------------------------------------------
(* read_queue_read.                                                        *)
ReadCall(n) ==
  /\ pc = "idle"
  /\ pc' = "read" /\ asked' = n /\ want' = n /\ copied' = <<>>
  /\ UNCHANGED <<chunkVars, freed, first, last, offset, tmpFirst, tmpOffset,
                 cursor, newOffset, written, ret>>

(* Wrong on purpose: the offset is not reset when a chunk is used up.      *)
ReadCopyKeepsOffset ==
  /\ pc = "read" /\ want > 0 /\ tmpFirst # NULL
  /\ LET remaining == size[tmpFirst] - tmpOffset
         amount == IF want < remaining THEN want ELSE remaining
     IN  /\ copied' = copied \o [i \in 1..amount |-> start[tmpFirst] + tmpOffset + i]
         /\ want' = want - amount
         /\ tmpOffset' = tmpOffset + amount
         /\ tmpFirst' = IF tmpOffset' = size[tmpFirst] THEN next[tmpFirst] ELSE tmpFirst
  /\ UNCHANGED <<chunkVars, freed, first, last, offset, pc, asked, cursor,
                 newOffset, written, ret>>

ReadCopy ==
  /\ pc = "read" /\ want > 0 /\ tmpFirst # NULL
  /\ LET remaining == size[tmpFirst] - tmpOffset
         amount == IF want < remaining THEN want ELSE remaining
         atEnd == tmpOffset + amount = size[tmpFirst]
     IN  /\ copied' = copied \o [i \in 1..amount |-> start[tmpFirst] + tmpOffset + i]
         /\ want' = want - amount
         /\ tmpFirst' = IF atEnd THEN next[tmpFirst] ELSE tmpFirst
         /\ tmpOffset' = IF atEnd THEN 0 ELSE tmpOffset + amount
  /\ UNCHANGED <<chunkVars, freed, first, last, offset, pc, asked, cursor,
                 newOffset, written, ret>>

ReadReturn ==
  /\ pc = "read" /\ (want = 0 \/ tmpFirst = NULL)
  /\ ret' = [op |-> "read", asked |-> asked, ok |-> copied # <<>>, bytes |-> copied]
  /\ pc' = "idle" /\ asked' = 0 /\ want' = 0 /\ copied' = <<>>
  /\ UNCHANGED <<chunkVars, freed, first, last, offset, tmpFirst, tmpOffset,
                 cursor, newOffset, written>>
-----------------------------------------------------------------------------
(* read_queue_advance works on copies of the read position and stores them *)
(* only when all n bytes exist.                                            *)
AdvanceCall(n) ==
  /\ pc = "idle"
  /\ pc' = "advance" /\ asked' = n /\ newOffset' = tmpOffset + n /\ cursor' = tmpFirst
  /\ UNCHANGED <<chunkVars, freed, first, last, offset, tmpFirst, tmpOffset,
                 want, copied, written, ret>>

AdvanceSkip ==
  /\ pc = "advance" /\ cursor # NULL /\ newOffset >= size[cursor]
  /\ newOffset' = newOffset - size[cursor]
  /\ cursor' = next[cursor]
  /\ UNCHANGED <<chunkVars, freed, first, last, offset, tmpFirst, tmpOffset,
                 pc, asked, want, copied, written, ret>>

AdvanceReturn ==
  /\ pc = "advance" /\ ~(cursor # NULL /\ newOffset >= size[cursor])
  /\ LET ok == ~(cursor = NULL /\ newOffset > 0)
     IN  /\ tmpFirst' = IF ok THEN cursor ELSE tmpFirst
         /\ tmpOffset' = IF ok THEN newOffset ELSE tmpOffset
         /\ ret' = [op |-> "advance", asked |-> asked, ok |-> ok, bytes |-> <<>>]
  /\ pc' = "idle" /\ asked' = 0 /\ cursor' = NULL /\ newOffset' = 0
  /\ UNCHANGED <<chunkVars, freed, first, last, offset, want, copied, written>>
-----------------------------------------------------------------------------
(* read_queue_commit.                                                      *)
CommitCall ==
  /\ pc = "idle"
  /\ pc' = "commit"
  /\ UNCHANGED <<chunkVars, freed, first, last, offset, tmpFirst, tmpOffset,
                 localVars, written, ret>>

(* Wrong on purpose: first is not moved past the chunk it frees.           *)
CommitFreeInPlace ==
  /\ pc = "commit" /\ first # tmpFirst
  /\ freed' = freed \cup {first}
  /\ UNCHANGED <<chunkVars, first, last, offset, tmpFirst, tmpOffset, pc,
                 localVars, written, ret>>

CommitFree ==
  /\ pc = "commit" /\ first # tmpFirst
  /\ first' = next[first]
  /\ freed' = freed \cup {first}
  /\ UNCHANGED <<chunkVars, last, offset, tmpFirst, tmpOffset, pc, localVars,
                 written, ret>>

(* Wrong on purpose: last still points to the freed chunk.                 *)
CommitReturnKeepsLast ==
  /\ pc = "commit" /\ first = tmpFirst
  /\ offset' = tmpOffset
  /\ pc' = "idle"
  /\ UNCHANGED <<chunkVars, freed, first, last, tmpFirst, tmpOffset, localVars,
                 written, ret>>

CommitReturn ==
  /\ pc = "commit" /\ first = tmpFirst
  /\ last' = IF first = NULL THEN NULL ELSE last
  /\ offset' = tmpOffset
  /\ pc' = "idle"
  /\ UNCHANGED <<chunkVars, freed, first, tmpFirst, tmpOffset, localVars,
                 written, ret>>
-----------------------------------------------------------------------------
(* Wrong on purpose: frees from the read position on.                      *)
DestroyCallFromTmp ==
  /\ pc = "idle"
  /\ pc' = "destroy" /\ cursor' = tmpFirst
  /\ UNCHANGED <<chunkVars, freed, first, last, offset, tmpFirst, tmpOffset,
                 asked, want, copied, newOffset, written, ret>>

(* free_read_queue: frees every chunk still linked; the queue is gone.     *)
DestroyCall ==
  /\ pc = "idle"
  /\ pc' = "destroy" /\ cursor' = first
  /\ UNCHANGED <<chunkVars, freed, first, last, offset, tmpFirst, tmpOffset,
                 asked, want, copied, newOffset, written, ret>>

DestroyFree ==
  /\ pc = "destroy" /\ cursor # NULL
  /\ freed' = freed \cup {cursor}
  /\ cursor' = next[cursor]
  /\ UNCHANGED <<chunkVars, first, last, offset, tmpFirst, tmpOffset, pc, asked,
                 want, copied, newOffset, written, ret>>

DestroyReturn ==
  /\ pc = "destroy" /\ cursor = NULL
  /\ pc' = "gone"
  /\ UNCHANGED <<chunkVars, freed, first, last, offset, tmpFirst, tmpOffset,
                 localVars, written, ret>>
-----------------------------------------------------------------------------
Call ==
  \/ \E n \in 0..MaxLen : Write(n) \/ ReadCall(n) \/ AdvanceCall(n)
  \/ Peek \/ Rollback \/ CommitCall \/ DestroyCall

Step ==
  \/ ReadCopy \/ ReadReturn
  \/ AdvanceSkip \/ AdvanceReturn
  \/ CommitFree \/ CommitReturn
  \/ DestroyFree \/ DestroyReturn

Next == Call \/ Step

Spec == Init /\ [][Next]_vars

(* A C function that was called runs on; nothing obliges the callers to    *)
(* call.                                                                   *)
FairSpec == Spec /\ WF_vars(Step)
-----------------------------------------------------------------------------
(* The two positions the pointers stand for.                               *)
Place(chunk, off) == IF chunk = NULL THEN written ELSE start[chunk] + off
ReadPlace      == Place(tmpFirst, tmpOffset)
CommittedPlace == Place(first, offset)

(* Type invariant: a pointer is NULL or an allocated chunk, an offset is a *)
(* size_t that never went below zero.                                      *)
TypeOK ==
  /\ allocd \in 0..MaxChunks
  /\ start \in [Chunk -> Nat]
  /\ size \in [Chunk -> Nat]
  /\ next \in [Chunk -> 0..MaxChunks]
  /\ freed \in SUBSET Chunk
  /\ first \in 0..allocd /\ last \in 0..allocd
  /\ tmpFirst \in 0..allocd /\ cursor \in 0..allocd
  /\ offset \in Nat /\ tmpOffset \in Nat /\ newOffset \in Nat
  /\ want \in Nat /\ written \in Nat
  /\ asked \in 0..MaxLen
  /\ copied \in Seq(Nat)
  /\ pc \in {"idle", "read", "advance", "commit", "destroy", "gone"}

(* The chunks hold consecutive pieces of the stream.                       *)
ChunksAreTheStream ==
  /\ written = IF allocd = 0 THEN 0 ELSE start[allocd] + size[allocd]
  /\ \A c \in 1..allocd : size[c] > 0 /\ start[c] + size[c] <= written
  /\ \A c \in 1..allocd : start[c] = IF c = 1 THEN 0 ELSE start[c-1] + size[c-1]

(* Where the committed part ends: the chunks before "oldest" are freed.    *)
oldest == IF first = NULL THEN allocd + 1 ELSE first

(* From first on the chunks are linked in the order they were written, and *)
(* last is the newest of them.                                             *)
ChainIsLinked ==
  /\ \A c \in oldest..allocd : next[c] = IF c = allocd THEN NULL ELSE c + 1
  /\ \A c \in allocd+1..MaxChunks : next[c] = NULL
  /\ first # NULL => last = allocd
  /\ first = NULL /\ pc # "commit" => last = NULL

(* Memory is released exactly when its bytes are committed: what is freed  *)
(* is the committed prefix of the chunks, between calls and in the middle  *)
(* of a commit.                                                            *)
FreedIsCommittedPrefix ==
  LET end == IF pc \in {"destroy", "gone"}
             THEN IF cursor = NULL THEN allocd + 1 ELSE cursor
             ELSE oldest
  IN  freed = 1..(end - 1)

(* The read position never lies before the committed one, an offset always *)
(* lies inside its chunk (so peek never reads past a chunk), and a NULL    *)
(* position has offset 0 (so the next write continues at the right byte).  *)
PositionsInBounds ==
  /\ tmpFirst = NULL => tmpOffset = 0
  /\ tmpFirst # NULL => /\ first # NULL /\ first <= tmpFirst
                        /\ tmpOffset < size[tmpFirst]
  /\ pc # "commit" =>
       /\ first = NULL => offset = 0
       /\ first # NULL => offset < size[first]
       /\ first # NULL /\ first = tmpFirst => offset <= tmpOffset

(* What is true inside a call: read has copied the bytes just before the   *)
(* read position and still wants the rest; the copies of advance stand for *)
(* the place it was asked to go to; free_read_queue walks the chain.       *)
LocalsInBounds ==
  /\ pc # "read" => copied = <<>>
  /\ pc = "read" =>
       /\ want = asked - Len(copied)
       /\ Len(copied) <= ReadPlace
       /\ copied = [i \in 1..Len(copied) |-> ReadPlace - Len(copied) + i]
  /\ pc = "advance" =>
       (IF cursor = NULL THEN written ELSE start[cursor]) + newOffset = ReadPlace + asked
  /\ pc = "advance" /\ cursor # NULL => tmpFirst # NULL /\ tmpFirst <= cursor
  /\ pc = "destroy" /\ cursor # NULL => first # NULL /\ first <= cursor
  /\ pc = "gone" => cursor = NULL

(* The inductive invariant.                                                *)
IInv ==
  /\ TypeOK
  /\ ChunksAreTheStream
  /\ ChainIsLinked
  /\ FreedIsCommittedPrefix
  /\ PositionsInBounds
  /\ LocalsInBounds

(* No use after free and no double free: a chunk the next operation may    *)
(* dereference or free is not a freed one.                                 *)
NoUseAfterFree ==
  /\ pc \in {"advance", "destroy"} => cursor \notin freed
  /\ pc \notin {"destroy", "gone"} => {first, tmpFirst} \cap freed = {}
  /\ pc = "idle" => last \notin freed

(* No leak: free_read_queue leaves no chunk allocated, whichever were      *)
(* freed by commits before it.                                             *)
NoLeak == pc = "gone" => freed = 1..allocd

(* The refinement mapping: a read takes effect when it returns, a commit   *)
(* when it is called.                                                      *)
StreamCommitted == IF pc = "commit" THEN ReadPlace ELSE CommittedPlace
StreamPosition  == ReadPlace - Len(copied)

Stream == INSTANCE ByteStream WITH
  Lengths   <- 0..MaxLen,
  committed <- StreamCommitted,
  rpos      <- StreamPosition

(* read_queue.c implements the byte stream of read_queue.h: whatever the   *)
(* chunks, every byte is delivered in order, once per commit, again after  *)
(* a rollback, and advance moves by all it was asked or not at all.        *)
Implements == Stream!Spec

(* Every call returns: no loop over the chunks runs for ever.              *)
CallsReturn ==
  pc \in {"read", "advance", "commit", "destroy"} ~> pc \in {"idle", "gone"}
=============================================================================
