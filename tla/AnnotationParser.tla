-------------------------- MODULE AnnotationParser --------------------------
(***************************************************************************)
(* annotation_parser.c, reading from the byte stream that read_queue.c     *)
(* implements.  An annotator process sends a version byte and then records *)
(* of three numbers (start, end, length) and length bytes of value.  The   *)
(* event loop passes on what arrives in pieces of any size, and after each *)
(* piece reads annotations until there is none.                            *)
(*                                                                         *)
(* One call of the queue is one step.  A byte is a digit in base Base, and *)
(* a number is NumLen of them, lowest first (256 and 8 in the program).    *)
(***************************************************************************)
EXTENDS Integers, Sequences, FiniteSets, SequencesExt

CONSTANTS
  Base, NumLen,    \* the representation of numbers
  OffsetLimit,     \* an annotation keeps an offset modulo this (2^32)
  Versions,        \* version bytes an annotator may send
  Sendable,        \* sequences of records an annotator may send
  FirstWhole       \* the first piece holds the version and a whole record

(* What the i-th byte after the lowest counts.                             *)
Weight[i \in 0..NumLen] == IF i = 0 THEN 1 ELSE Base * Weight[i-1]

ASSUME ConstantsAssumption ==
  /\ Base \in Nat /\ Base > 1 /\ NumLen \in Nat /\ NumLen > 0
  /\ OffsetLimit \in 1..Weight[NumLen]
  /\ FirstWhole \in BOOLEAN

(* An annotator sends numbers that fit, and no zero byte in a value.       *)
ASSUME SendableAssumption ==
  \A sent \in Sendable :
    /\ sent \in Seq([start : 0..OffsetLimit-1, end : 0..OffsetLimit-1, value : Seq(1..Base-1)])
    /\ \A k \in DOMAIN sent : Len(sent[k].value) < Weight[NumLen]
    /\ FirstWhole => sent # <<>>

VARIABLES
  version, records,        \* what this annotator sends
  written, committed, rpos, ret,   \* the read queue
  hasVersion, num, val,    \* struct annotation_parser and the call's locals
  output,                  \* history: annotations returned
  pc                       \* where annotation_parser_read is

streamVars == <<written, committed, rpos, ret>>
vars == <<version, records, streamVars, hasVersion, num, val, output, pc>>

Queue == INSTANCE ByteStream WITH Lengths <- Nat

(* The bytes of an annotator.                                              *)
Digits(n) == [i \in 1..NumLen |-> (n \div Weight[i-1]) % Base]
Encoded(record) == Digits(record.start) \o Digits(record.end)
                   \o Digits(Len(record.value)) \o record.value
Sent == <<version>> \o FlattenSeq([k \in DOMAIN records |-> Encoded(records[k])])

(* The place where the k-th record ends.                                   *)
End(k) == 1 + Len(FlattenSeq([j \in 1..k |-> Encoded(records[j])]))

Init ==
  /\ version \in Versions /\ records \in Sendable
  /\ Queue!Init
  /\ hasVersion = FALSE /\ num = <<>> /\ val = <<>>
  /\ output = <<>>
  /\ pc = "idle"
-----------------------------------------------------------------------------
(* annotator_io_read got a piece of n bytes.                               *)
Receive(n) ==
  /\ pc = "idle" /\ written + n <= Len(Sent)
  /\ FirstWhole /\ written = 0 => n >= End(1)
  /\ Queue!Write(n)
  /\ pc' = "begin"
  /\ UNCHANGED <<version, records, hasVersion, num, val, output>>

(* What a read of the queue put into the parser's variable.                *)
Got(bytes) == [i \in DOMAIN bytes |-> Sent[bytes[i]]]

(* The value of digits, lowest first.                                      *)
Number(digits) ==
  LET value[i \in 0..Len(digits)] ==
        IF i = 0 THEN 0 ELSE value[i-1] + digits[i] * Weight[i-1]
  IN  value[Len(digits)]

ReadVersion ==
  /\ pc = "begin" /\ ~hasVersion
  /\ Queue!Read(1)
  /\ LET got == Got(ret'.bytes)
     IN  CASE got = <<>>    -> pc' = "not_enough_input" /\ UNCHANGED hasVersion
           [] got = <<1>>   -> pc' = "header" /\ hasVersion' = TRUE
           [] OTHER         -> pc' = "exited" /\ UNCHANGED hasVersion
  /\ UNCHANGED <<version, records, num, val, output>>

HasVersion ==
  /\ pc = "begin" /\ hasVersion
  /\ pc' = "header"
  /\ UNCHANGED <<version, records, streamVars, hasVersion, num, val, output>>

ReadHeader ==
  /\ pc = "header"
  /\ Queue!Read(3 * NumLen)
  /\ LET got == Got(ret'.bytes)
     IN  IF Len(got) < 3 * NumLen
         THEN pc' = "not_enough_input" /\ UNCHANGED num
         ELSE /\ pc' = "value"
              /\ num' = [i \in 1..3 |-> Number(SubSeq(got, (i-1)*NumLen + 1, i*NumLen))]
  /\ UNCHANGED <<version, records, hasVersion, val, output>>

ReadValue ==
  /\ pc = "value"
  /\ Queue!Read(num[3])
  /\ LET got == Got(ret'.bytes)
     IN  IF Len(got) < num[3]
         THEN pc' = "not_enough_input" /\ UNCHANGED val
         ELSE pc' = "commit" /\ val' = got
  /\ UNCHANGED <<version, records, hasVersion, num, output>>

(* A C string ends at its first 0.                                         *)
CString(bytes) ==
  LET k == SelectInSeq(bytes, LAMBDA b : b = 0)
  IN  IF k = 0 THEN bytes ELSE SubSeq(bytes, 1, k - 1)

Annotation == [start |-> num[1] % OffsetLimit, end |-> num[2] % OffsetLimit,
               value |-> CString(val)]

(* Wrong on purpose: what was read is not committed.                       *)
ReturnWithoutCommit ==
  /\ pc = "commit"
  /\ output' = Append(output, Annotation)
  /\ num' = <<>> /\ val' = <<>>
  /\ pc' = "begin"
  /\ UNCHANGED <<version, records, streamVars, hasVersion>>

ReturnAnnotation ==
  /\ pc = "commit"
  /\ Queue!Commit
  /\ output' = Append(output, Annotation)
  /\ num' = <<>> /\ val' = <<>>
  /\ pc' = "begin"
  /\ UNCHANGED <<version, records, hasVersion>>

(* Wrong on purpose: what was read is not given back.                      *)
ReturnWithoutRollback ==
  /\ pc = "not_enough_input"
  /\ num' = <<>> /\ val' = <<>>
  /\ pc' = "idle"
  /\ UNCHANGED <<version, records, streamVars, hasVersion, output>>

ReturnNull ==
  /\ pc = "not_enough_input"
  /\ Queue!Rollback
  /\ num' = <<>> /\ val' = <<>>
  /\ pc' = "idle"
  /\ UNCHANGED <<version, records, hasVersion, output>>
-----------------------------------------------------------------------------
Next ==
  \/ \E n \in 1..Len(Sent) : Receive(n)
  \/ ReadVersion \/ HasVersion \/ ReadHeader \/ ReadValue
  \/ ReturnAnnotation \/ ReturnNull

Spec == Init /\ [][Next]_vars
-----------------------------------------------------------------------------
(* While the parser waits for input, it has returned exactly the records   *)
(* that arrived completely, however the bytes were cut into pieces: none   *)
(* is held back, lost, repeated or misread.                                *)
Arrived == Cardinality({k \in DOMAIN records : End(k) <= written})

RecordsAreRead == pc = "idle" => output = SubSeq(records, 1, Arrived)

(* While it waits, its place in the stream is the end of the last record   *)
(* it returned: nothing of an incomplete one was consumed.                 *)
WaitsAtRecord == pc = "idle" /\ written > 0 => rpos = End(Len(output))
=============================================================================
