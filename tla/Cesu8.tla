------------------------------- MODULE Cesu8 -------------------------------
(***************************************************************************)
(* cesu8_to_utf8 (js_api.c): strings that come from a script have their    *)
(* characters beyond 16 bits as a high and a low surrogate of three bytes  *)
(* each, which become one character of four.  A unit of the input is what  *)
(* one turn of the loop takes; the unit's number is what its bytes encode. *)
(* How many it takes is told by the first byte alone: a unit stands for    *)
(* all of its length that are treated alike, malformed ones among them.    *)
(*                                                                         *)
(* What a script hands over has whole characters.  What an annotator sent, *)
(* or a file's name, reaches the script as it came, and its last character *)
(* may be cut short.                                                       *)
(***************************************************************************)
EXTENDS Integers, Sequences, SequencesExt

CONSTANTS
  Units,        \* numbers of characters and surrogates
  MaxUnits      \* bound: length of the string

ConstantsOK ==
  /\ Units \subseteq Nat /\ \A c \in Units : 1 <= c /\ c <= 1114111
  /\ MaxUnits \in Nat

Highs == 55296..56319
Lows == 56320..57343
Surrogates == Highs \cup Lows
Bytes(c) == IF c < 128 THEN 1 ELSE IF c < 2048 THEN 2 ELSE IF c < 65536 THEN 3 ELSE 4

VARIABLES
  cesu8,        \* the units gone through so far
  hs,           \* the high surrogate, 0 if there is none
  utf8,         \* the characters written so far
  read, written, \* bytes of both
  past          \* the loop has gone past the end of the string
vars == <<cesu8, hs, utf8, read, written, past>>

Init == cesu8 = <<>> /\ hs = 0 /\ utf8 = <<>> /\ read = 0 /\ written = 0 /\ past = FALSE
-----------------------------------------------------------------------------
Takes(c) ==
  /\ ~past /\ Len(cesu8) < MaxUnits
  /\ cesu8' = Append(cesu8, c) /\ read' = read + Bytes(c)
  /\ UNCHANGED past
Writes(c) == utf8' = Append(utf8, c) /\ written' = written + Bytes(c)

(* One, two or four bytes, four in what an annotator sent (it is handed to *)
(* the script as it came): a high surrogate before it is not forgotten.    *)
CopyOther(c) ==
  /\ Takes(c) /\ Bytes(c) # 3
  /\ Writes(c)
  /\ UNCHANGED hs

KeepHighWriting(c) ==    \* wrong on purpose: copied as well
  /\ Takes(c) /\ hs = 0 /\ c \in Highs
  /\ hs' = c /\ Writes(c)
KeepHigh(c) ==
  /\ Takes(c) /\ hs = 0 /\ c \in Highs
  /\ hs' = c
  /\ UNCHANGED <<utf8, written>>

CodePoint(high, low) == 65536 + ((high % 1024) * 1024) + (low % 1024)
JoinLowOnly(c) ==        \* wrong on purpose: any low, with or without a high
  /\ Takes(c) /\ c \in Lows
  /\ Writes(CodePoint(hs, c)) /\ hs' = 0
Join(c) ==
  /\ Takes(c) /\ hs # 0 /\ c \in Lows
  /\ Writes(CodePoint(hs, c)) /\ hs' = 0

(* Anything else of three bytes, an unpaired surrogate among them.         *)
CopyLong(c) ==
  /\ Takes(c) /\ Bytes(c) = 3
  /\ ~(hs = 0 /\ c \in Highs) /\ ~(hs # 0 /\ c \in Lows)
  /\ Writes(c) /\ hs' = 0

(* Of the last character only p bytes are there.  The others are taken all *)
(* the same, the first of them the terminator, and the loop goes on in     *)
(* memory that is not the string's: that is no part of the model.  With    *)
(* two bytes of three it may be a surrogate, its last six bits zero; with  *)
(* one its second byte is zero, and it is none.                            *)
RunPast(c, p) ==
  /\ ~past /\ past' = TRUE
  /\ Len(cesu8) < MaxUnits /\ p < Bytes(c) /\ read' = read + p
  /\ \/ /\ p = 2 /\ hs = 0 /\ c \in Highs
        /\ hs' = c - (c % 64) /\ UNCHANGED written
     \/ /\ p = 2 /\ hs # 0 /\ c \in Lows
        /\ hs' = 0 /\ written' = written + 4
     \/ /\ ~(p = 2 /\ hs = 0 /\ c \in Highs) /\ ~(p = 2 /\ hs # 0 /\ c \in Lows)
        /\ hs' = (IF Bytes(c) = 3 THEN 0 ELSE hs) /\ written' = written + Bytes(c)
  /\ UNCHANGED <<cesu8, utf8>>

Next == \E c \in Units :
  \/ CopyOther(c) \/ KeepHigh(c) \/ Join(c) \/ CopyLong(c)
  \/ \E p \in 1..3 : RunPast(c, p)

Spec == Init /\ [][Next]_vars
-----------------------------------------------------------------------------
(* The reference: in a string whose surrogates are in pairs (but for the   *)
(* last unit, whose other half may still come) a low stands for its pair.  *)
WellFormed(s) ==
  \A k \in DOMAIN s :
    /\ s[k] \in Highs /\ k < Len(s) => s[k+1] \in Lows
    /\ s[k] \in Lows => k > 1 /\ s[k-1] \in Highs
Character(s, k) == IF s[k] \in Lows THEN CodePoint(s[k-1], s[k]) ELSE s[k]
Characters(s) ==
  FlattenSeq([k \in DOMAIN s |-> IF s[k] \in Highs THEN <<>> ELSE <<Character(s, k)>>])

(* What a script can write as text comes out as the same characters (of a  *)
(* string cut short, those before the cut).                                *)
(* Whatever else it does to strings (they may hold half a pair), the       *)
(* characters of the basic plane come through, in order; a half may be     *)
(* dropped or joined to a later one across letters.                        *)
InPlane(c) == c < 65536 /\ c \notin Surrogates
Plane(s) == FlattenSeq([k \in DOMAIN s |-> IF InPlane(s[k]) THEN <<s[k]>> ELSE <<>>])

WellFormedIsConverted ==
  /\ WellFormed(cesu8) => utf8 = Characters(cesu8)
  /\ Plane(utf8) = Plane(cesu8)

(* The result fits the block that is allocated for it, as long as the      *)
(* input, at every moment: a pair shrinks by two bytes.  This holds of any *)
(* string whose last character is not cut short; where one is, no more is  *)
(* claimed once the loop is past its end.                                  *)
FitsAllocation == past \/ written <= read
=============================================================================
