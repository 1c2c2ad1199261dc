------------------------------ MODULE Tokenizer ------------------------------
(***************************************************************************)
(* tokenizer.c, reading from the byte stream that read_queue.c implements. *)
(* It cuts the output of a command into text, newlines and escape          *)
(* sequences; the event loop passes output on in pieces of any size, and   *)
(* after each piece reads tokens until there is none.                      *)
(*                                                                         *)
(* One call of the queue is one step.  Of a byte only its class matters:   *)
(*   "n" newline                     "e" the escape character              *)
(*   "[" the bracket                 "f" the rest of 0x40 to 0x7e          *)
(*   "d" digits, ':' and ';'         "p" 0x3c to 0x3f                      *)
(*   "i" 0x20 to 0x2f                "0" the zero byte                     *)
(*   "c" every other byte                                                  *)
(***************************************************************************)
EXTENDS Integers, Sequences, SequencesExt

CONSTANTS
  Classes,     \* the classes of bytes a command writes
  MaxInput     \* bound: bytes a command writes

ASSUME ClassesAssumption ==
  /\ Classes \subseteq {"n", "e", "[", "f", "d", "p", "i", "0", "c"}
  /\ MaxInput \in Nat

VARIABLES
  input,                           \* the bytes that arrived
  written, committed, rpos, ret,   \* the read queue
  pc,        \* where tokenizer_read is
  state,     \* in an escape sequence: ESC, PARAM or INTER, or DEFAULT after it
  afterFe,   \* es->last->type == ESP_FE
  from,      \* the bytes before the token that is being read
  text,      \* places of the bytes in the content token's memory stream
  tokens     \* history: tokens returned, with the bytes they stand for

streamVars == <<written, committed, rpos, ret>>
vars == <<input, streamVars, pc, state, afterFe, from, text, tokens>>

Queue == INSTANCE ByteStream WITH Lengths <- Nat

Init ==
  /\ input = <<>>
  /\ Queue!Init
  /\ pc = "idle" /\ state = "DEFAULT" /\ afterFe = FALSE /\ from = 0 /\ text = <<>>
  /\ tokens = <<>>

(* buffer_io_read got a piece of output.                                   *)
Receive(piece) ==
  /\ pc = "idle"
  /\ Queue!Write(Len(piece))
  /\ input' = input \o piece
  /\ pc' = "read"
  /\ UNCHANGED <<state, afterFe, from, text, tokens>>

IsContent(class) == class \notin {"e", "n"}

(* A token is kept with the bytes from+1..to it stands for.                *)
Returned(type, value) ==
  Append(tokens, [type |-> type, from |-> from, to |-> rpos', value |-> value])
-----------------------------------------------------------------------------
TokenizerRead ==
  /\ pc = "read"
  /\ Queue!Peek
  /\ from' = rpos
  /\ pc' = IF ret'.bytes = <<>> THEN "idle"
           ELSE CASE input[ret'.bytes[1]] = "n" -> "newline"
                  [] input[ret'.bytes[1]] = "e" -> "escape"
                  [] OTHER                      -> "content"
  /\ UNCHANGED <<input, state, afterFe, text, tokens>>

(* The newline is not committed.                                           *)
ReadNewline ==
  /\ pc = "newline"
  /\ Queue!Advance(1)
  /\ tokens' = Returned("newline", <<rpos + 1>>)
  /\ pc' = "read"
  /\ UNCHANGED <<input, state, afterFe, from, text>>

(* read_content_token: one byte at a time; the first that is not content   *)
(* is given back.  The value is a C string, it ends at the first zero.     *)
CString(places) ==
  LET k == SelectInSeq(places, LAMBDA i : input[i] = "0")
  IN  IF k = 0 THEN places ELSE SubSeq(places, 1, k - 1)

ReadContentByte ==
  /\ pc = "content"
  /\ Queue!Read(1)
  /\ LET got == ret'.bytes
     IN  CASE got = <<>> ->
                /\ tokens' = Returned("content", CString(text))
                /\ text' = <<>> /\ pc' = "read"
           [] got # <<>> /\ IsContent(input[got[1]]) ->
                text' = text \o got /\ pc' = "keep" /\ UNCHANGED tokens
           [] OTHER ->
                pc' = "give_back" /\ UNCHANGED <<tokens, text>>
  /\ UNCHANGED <<input, state, afterFe, from>>

KeepContentByte ==
  /\ pc = "keep"
  /\ Queue!Commit
  /\ pc' = "content"
  /\ UNCHANGED <<input, state, afterFe, from, text, tokens>>

(* Wrong on purpose: the byte that is not content is swallowed.            *)
SwallowByte ==
  /\ pc = "give_back"
  /\ Queue!Commit
  /\ tokens' = Returned("content", CString(text))
  /\ text' = <<>> /\ pc' = "read"
  /\ UNCHANGED <<input, state, afterFe, from>>

GiveBackByte ==
  /\ pc = "give_back"
  /\ Queue!Rollback
  /\ tokens' = Returned("content", CString(text))
  /\ text' = <<>> /\ pc' = "read"
  /\ UNCHANGED <<input, state, afterFe, from>>
-----------------------------------------------------------------------------
(* read_esc_seq.                                                           *)
BeginEscape ==
  /\ pc = "escape"
  /\ Queue!Read(1)
  /\ state' = "ESC" /\ afterFe' = FALSE
  /\ pc' = "sequence"
  /\ UNCHANGED <<input, from, text, tokens>>

(* What peek returns: a zero byte and no byte at all are the same to it.   *)
Peeked == IF rpos < written THEN input[rpos + 1] ELSE "0"

(* The state after a byte of the class.  A byte that cannot be part of the *)
(* sequence is consumed and ends it.                                       *)
After(class) ==
  CASE state = "ESC" /\ class = "["          -> "PARAM"
    [] state = "PARAM" /\ class = "d"        -> "PARAM"
    [] state \in {"PARAM", "INTER"} /\ class = "i" -> "INTER"
    [] OTHER                                 -> "DEFAULT"

(* read_esc_seq_cs_priv_param looks at the same byte again and again.      *)
Loops == state = "PARAM" /\ afterFe /\ Peeked = "p"

ReadPrivate ==
  /\ pc = "sequence" /\ state # "DEFAULT" /\ Loops
  /\ pc' = "looping"
  /\ UNCHANGED <<input, streamVars, state, afterFe, from, text, tokens>>

ReadEscapeByte ==
  /\ pc = "sequence" /\ state # "DEFAULT" /\ Peeked # "0" /\ ~Loops
  /\ Queue!Advance(1)
  /\ state' = After(Peeked)
  /\ afterFe' = (state = "ESC" /\ Peeked = "[")
  /\ UNCHANGED <<input, pc, from, text, tokens>>

(* Wrong on purpose: the sequence is not committed.                        *)
ReturnEscapeUncommitted ==
  /\ pc = "sequence" /\ state = "DEFAULT"
  /\ UNCHANGED streamVars
  /\ tokens' = Returned("escape", <<>>)
  /\ afterFe' = FALSE
  /\ pc' = "read"
  /\ UNCHANGED <<input, state, from, text>>

ReturnEscape ==
  /\ pc = "sequence" /\ state = "DEFAULT"
  /\ Queue!Commit
  /\ tokens' = Returned("escape", <<>>)
  /\ afterFe' = FALSE
  /\ pc' = "read"
  /\ UNCHANGED <<input, state, from, text>>

(* Wrong on purpose: the part of the sequence that arrived is not given    *)
(* back.                                                                   *)
AbortEscapeKeeps ==
  /\ pc = "sequence" /\ state # "DEFAULT" /\ Peeked = "0"
  /\ state' = "DEFAULT" /\ afterFe' = FALSE
  /\ pc' = "idle"
  /\ UNCHANGED <<input, streamVars, from, text, tokens>>

AbortEscape ==
  /\ pc = "sequence" /\ state # "DEFAULT" /\ Peeked = "0"
  /\ Queue!Rollback
  /\ state' = "DEFAULT" /\ afterFe' = FALSE
  /\ pc' = "idle"
  /\ UNCHANGED <<input, from, text, tokens>>
-----------------------------------------------------------------------------
Next ==
  \/ \E n \in 1..MaxInput - Len(input) : \E piece \in [1..n -> Classes] : Receive(piece)
  \/ TokenizerRead \/ ReadNewline
  \/ ReadContentByte \/ KeepContentByte \/ GiveBackByte
  \/ BeginEscape \/ ReadPrivate \/ ReadEscapeByte \/ ReturnEscape \/ AbortEscape

Spec == Init /\ [][Next]_vars
-----------------------------------------------------------------------------
(* The same language read from the whole stream at once: what each byte is *)
(* part of, by one pass over the bytes that never looks back.  "held" are  *)
(* the bytes from a zero byte in an escape sequence on, and from the one   *)
(* on at which the tokenizer loops.                                        *)
Open == {"esc", "first", "param", "inter"}

KindAfter(prev, c) ==
  IF prev = "held" THEN "held"
  ELSE IF prev \in Open
  THEN CASE c = "0" \/ (prev = "first" /\ c = "p")       -> "held"
         [] prev = "esc" /\ c = "["                      -> "first"
         [] prev \in {"first", "param"} /\ c = "d"       -> "param"
         [] prev \in Open \ {"esc"} /\ c = "i"           -> "inter"
         [] OTHER                                        -> "last"
  ELSE CASE c = "n" -> "newline" [] c = "e" -> "esc" [] OTHER -> "content"

Kinds ==
  LET kind[i \in 0..Len(input)] ==
        IF i = 0 THEN "start" ELSE KindAfter(kind[i-1], input[i])
  IN  [i \in 1..Len(input) |-> kind[i]]

Escape == Open \cup {"last"}

(* Every byte of a returned token is of the token's kind by one pass over  *)
(* the whole output, and a token for an escape sequence is one complete    *)
(* sequence: the pieces in which output arrives change nothing.            *)
TokensFitTheStream ==
  LET all == Kinds
  IN  \A t \in ToSet(tokens) :
    LET kinds == SubSeq(all, t.from + 1, t.to)
    IN  CASE t.type = "newline" -> kinds = <<"newline">>
          [] t.type = "content" -> kinds # <<>> /\ ToSet(kinds) = {"content"}
          [] t.type = "escape"  -> /\ kinds[1] = "esc" /\ Last(kinds) = "last"
                                   /\ ToSet(Tail(kinds)) \subseteq Escape \ {"esc"}
                                   /\ \A k \in 1..Len(kinds)-1 : kinds[k] # "last"

(* A token begins where the one before it ended, or earlier: nothing is    *)
(* skipped, and nothing but newlines is read twice.                        *)
OnlyNewlinesRepeat ==
  \A k \in 1..Len(tokens)-1 :
    /\ tokens[k+1].from <= tokens[k].to
    /\ \A i \in tokens[k+1].from + 1 .. tokens[k].to : input[i] = "n"

(* While the tokenizer waits, all bytes were returned in tokens but those  *)
(* of one escape sequence that has not ended, with the newlines before it. *)
HoldsBackOneSequence ==
  pc = "idle" /\ rpos < written =>
    LET all == Kinds
    IN  \E k \in rpos + 1 .. written :
      /\ \A i \in rpos + 1 .. k - 1 : input[i] = "n"
      /\ input[k] = "e"
      /\ \A i \in k + 1 .. written : all[i] \in {"first", "param", "inter", "held"}

(* Each byte is in one token: after NULL for an incomplete token the next  *)
(* token is the one that was missing, as the test of incomplete tokens has *)
(* it.                                                                     *)
EachByteOnce == \A k \in 1..Len(tokens)-1 : tokens[k+1].from = tokens[k].to
=============================================================================
