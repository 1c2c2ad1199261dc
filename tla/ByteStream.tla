----------------------------- MODULE ByteStream -----------------------------
(***************************************************************************)
(* What read_queue.h promises the tokenizer and the annotation parser: one *)
(* stream of bytes, a read position that moves ahead of a committed        *)
(* position, and the ability to go back to the committed position and read *)
(* the same bytes again.  A byte is identified by its place in the stream, *)
(* so that a lost, duplicated or reordered byte shows as a wrong number.   *)
(***************************************************************************)
EXTENDS Integers, Sequences

CONSTANT Lengths   \* how many bytes a caller writes, reads or skips at a time

VARIABLES
  written,    \* number of bytes written so far
  committed,  \* bytes that will never be read again
  rpos,       \* bytes consumed, the uncommitted ones included
  ret         \* what the last peek, read or advance returned

streamVars == <<written, committed, rpos, ret>>

\* The n bytes of the stream that follow position p.
Bytes(p, n) == [i \in 1..n |-> p + i]

Nothing == [op |-> "none", asked |-> 0, ok |-> FALSE, bytes |-> <<>>]

Init ==
  /\ written = 0
  /\ committed = 0
  /\ rpos = 0
  /\ ret = Nothing

Write(n) ==
  /\ written' = written + n
  /\ UNCHANGED <<committed, rpos, ret>>

\* The next byte, or '\0' (no bytes here) when everything was consumed.
Peek ==
  /\ ret' = [op |-> "peek", asked |-> 0, ok |-> rpos < written,
             bytes |-> Bytes(rpos, IF rpos < written THEN 1 ELSE 0)]
  /\ UNCHANGED <<written, committed, rpos>>

\* As many of the n bytes asked for as there are.
Read(n) ==
  LET k == IF n < written - rpos THEN n ELSE written - rpos
  IN  /\ ret' = [op |-> "read", asked |-> n, ok |-> k > 0, bytes |-> Bytes(rpos, k)]
      /\ rpos' = rpos + k
      /\ UNCHANGED <<written, committed>>

\* All n bytes are skipped or none is.
Advance(n) ==
  /\ ret' = [op |-> "advance", asked |-> n, ok |-> rpos + n <= written,
             bytes |-> <<>>]
  /\ rpos' = IF rpos + n <= written THEN rpos + n ELSE rpos
  /\ UNCHANGED <<written, committed>>

Rollback ==
  /\ rpos' = committed
  /\ UNCHANGED <<written, committed, ret>>

Commit ==
  /\ committed' = rpos
  /\ UNCHANGED <<written, rpos, ret>>

Next ==
  \/ \E n \in Lengths : Write(n) \/ Read(n) \/ Advance(n)
  \/ Peek
  \/ Rollback
  \/ Commit

Spec == Init /\ [][Next]_streamVars
=============================================================================
