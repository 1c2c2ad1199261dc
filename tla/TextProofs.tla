----------------------------- MODULE TextProofs -----------------------------
(***************************************************************************)
(* What holds at each stage between a command's output and the screen, for *)
(* outputs, sequences and strings of any length, and for every set of      *)
(* styles, annotations, colors and characters: the buffer and its slices,  *)
(* the style that an escape sequence makes, the pairs of colors, how far a *)
(* line goes, and the characters and the size of a converted string.       *)
(***************************************************************************)
EXTENDS MCText, SequenceTheorems, WellFoundedInduction, TLAPS
-----------------------------------------------------------------------------
(* A set of numbers that is not empty has a least one.                     *)
LEMMA LeastNatural ==
  ASSUME NEW S \in SUBSET Nat, S # {}
  PROVE  \E least \in S : \A m \in S : least <= m
<1> DEFINE Below == OpToRel(<, Nat)
<1>1. IsWellFoundedOn(Below, Nat)
  BY NatLessThanWellFounded
<1>2. \A m, l \in Nat : m < l => <<m, l>> \in Below
  BY DEF OpToRel
<1> HIDE DEF Below
<1>3. PICK least \in S : \A m \in S : ~(<<m, least>> \in Below)
  BY <1>1, WFMin
<1>4. least \in Nat /\ \A m \in S : m \in Nat /\ ~(m < least)
  BY <1>2, <1>3
<1>5. \A m \in S : least <= m
  BY <1>4
<1> QED
  BY <1>5

LEMMA FirstIsFirst ==
  ASSUME NEW S \in SUBSET (Nat \ {0})
  PROVE  /\ S = {} => FirstOf(S) = 0
         /\ S # {} => FirstOf(S) \in S /\ \A j \in S : FirstOf(S) <= j
<1>1. S \in SUBSET Nat
  OBVIOUS
<1>2. ASSUME S # {} PROVE \E k \in S : \A j \in S : k <= j
  BY <1>1, <1>2, LeastNatural
<1> QED
  BY <1>2 DEF FirstOf
-----------------------------------------------------------------------------
Byte == [newline : BOOLEAN, style : Styles]
Highlight == [ts : Styles, start : Nat, end : Nat]

HeldTypes ==
  /\ stream \in Seq(Byte) /\ len <= MaxLen
  /\ lineEnds \in Seq(Nat)
  /\ highlights \in Seq(Highlight) /\ highlighting \in BOOLEAN
  /\ annotations \in Seq(Annotations)
  /\ style \in Styles

(* While a style other than the default is in force, and only then, the    *)
(* last highlight is open, and it is that style's.                         *)
LastIsOpen ==
  /\ highlighting <=> style # Default
  /\ highlighting =>
       /\ Len(highlights) > 0
       /\ highlights[Len(highlights)].end = SizeMax
       /\ highlights[Len(highlights)].ts = style

(* A highlight starts and ends in the stream, unless it is open, and each  *)
(* begins where the one before has ended.                                  *)
Places ==
  /\ \A k \in DOMAIN highlights :
       /\ highlights[k].start <= len /\ highlights[k].start <= highlights[k].end
       /\ highlights[k].end <= len \/ (highlighting /\ k = Len(highlights))
  /\ \A j, k \in DOMAIN highlights : j < k => highlights[j].end <= highlights[k].start

BytesAreStyled ==
  /\ \A i \in DOMAIN stream, k \in DOMAIN highlights :
       InHighlight(i, k) => highlights[k].ts = stream[i].style
  /\ \A i \in DOMAIN stream : stream[i].style # Default =>
       \E k \in DOMAIN highlights : InHighlight(i, k)

EndsAreNewlines ==
  /\ \A k \in DOMAIN lineEnds : lineEnds[k] \in DOMAIN stream /\ stream[lineEnds[k]].newline
  /\ \A i \in DOMAIN stream : stream[i].newline => \E k \in DOMAIN lineEnds : lineEnds[k] = i
  /\ \A j, k \in DOMAIN lineEnds : j < k => lineEnds[j] < lineEnds[k]

Held == HeldTypes /\ LastIsOpen /\ Places /\ BytesAreStyled /\ EndsAreNewlines
-----------------------------------------------------------------------------
(* What the types say of lengths and elements.                             *)
LEMMA HeldFacts ==
  ASSUME HeldTypes
  PROVE  /\ len \in Nat /\ MaxLen \in Nat /\ SizeMax \in Nat /\ len < SizeMax
         /\ DOMAIN stream = 1..len
         /\ Len(highlights) \in Nat /\ DOMAIN highlights = 1..Len(highlights)
         /\ \A k \in DOMAIN highlights :
              highlights[k] \in Highlight /\ highlights[k].start \in Nat /\ highlights[k].end \in Nat
         /\ Len(lineEnds) \in Nat /\ DOMAIN lineEnds = 1..Len(lineEnds)
         /\ \A k \in DOMAIN lineEnds : lineEnds[k] \in Nat
<1>1. MaxLen \in Nat /\ SizeMax \in Nat /\ MaxLen < SizeMax
  BY ConstantsAssumption
<1>2. len \in Nat /\ DOMAIN stream = 1..len /\ len <= MaxLen
  BY DEF HeldTypes, len
<1>3. Len(highlights) \in Nat /\ DOMAIN highlights = 1..Len(highlights)
  BY DEF HeldTypes
<1>4. \A k \in DOMAIN highlights : highlights[k] \in Highlight
  BY <1>3 DEF HeldTypes
<1>5. \A x \in Highlight : x.start \in Nat /\ x.end \in Nat
  BY DEF Highlight
<1>6. Len(lineEnds) \in Nat /\ DOMAIN lineEnds = 1..Len(lineEnds)
  BY DEF HeldTypes
<1>7. \A k \in DOMAIN lineEnds : lineEnds[k] \in Nat
  BY <1>6 DEF HeldTypes
<1>8. len < SizeMax
  BY <1>1, <1>2
<1> QED
  BY <1>1, <1>2, <1>3, <1>4, <1>5, <1>6, <1>7, <1>8

LEMMA InitHeld == Init => Held
<1> SUFFICES ASSUME Init PROVE Held
  OBVIOUS
<1>1. stream = <<>> /\ lineEnds = <<>> /\ highlights = <<>> /\ annotations = <<>>
  BY DEF Init
<1>2. Len(<<>>) = 0 /\ DOMAIN <<>> = {} /\ \A S : <<>> \in Seq(S)
  OBVIOUS
<1>3. HeldTypes
  <2>1. len = 0 /\ 0 <= MaxLen
    BY <1>1, ConstantsAssumption DEF len
  <2>2. highlighting \in BOOLEAN /\ style \in Styles
    BY ConstantsAssumption DEF Init
  <2> QED
    BY <1>1, <1>2, <2>1, <2>2 DEF HeldTypes
<1>4. LastIsOpen
  BY DEF Init, LastIsOpen
<1>5. Places /\ BytesAreStyled /\ EndsAreNewlines
  BY <1>1, <1>2 DEF Places, BytesAreStyled, EndsAreNewlines
<1> QED
  BY <1>3, <1>4, <1>5 DEF Held

(* What Put makes of the stream.                                           *)
LEMMA PutExtends ==
  ASSUME HeldTypes, NEW m \in Nat, NEW newline \in BOOLEAN, len + m <= MaxLen,
         Put(m, newline)
  PROVE  /\ stream' \in Seq(Byte) /\ Len(stream') = len + m
         /\ \A i \in 1..len : stream'[i] = stream[i]
         /\ \A i \in len+1 .. len+m : stream'[i] = [newline |-> newline, style |-> style]
<1> DEFINE more == [i \in 1..m |-> [newline |-> newline, style |-> style]]
<1>1. more \in Seq(Byte) /\ Len(more) = m /\ \A i \in 1..m : more[i] = [newline |-> newline, style |-> style]
  BY DEF HeldTypes, Byte
<1>2. stream' = stream \o more
  BY DEF Put
<1> HIDE DEF more
<1>3. stream \in Seq(Byte) /\ len \in Nat
  BY DEF HeldTypes, len
<1>4. /\ Len(stream \o more) = len + m
      /\ \A i \in 1..len+m : (stream \o more)[i] = IF i <= len THEN stream[i] ELSE more[i - len]
  BY <1>1, <1>3, ConcatProperties DEF len
<1>5. \A i \in len+1 .. len+m : i - len \in 1..m /\ ~(i <= len) /\ i \in 1..len+m
  BY <1>3
<1>6. \A i \in 1..len : i \in 1..len+m /\ i <= len
  BY <1>3
<1>7. stream' \in Seq(Byte)
  BY <1>1, <1>2, <1>3, ConcatProperties
<1> QED
  BY <1>1, <1>2, <1>4, <1>5, <1>6, <1>7

(* Bytes that come are in the open highlight, if one is.                   *)
LEMMA PutKeepsHighlights ==
  ASSUME Held, NEW m \in Nat, NEW newline \in BOOLEAN, len + m <= MaxLen, Put(m, newline),
         UNCHANGED <<highlights, highlighting, annotations, style>>
  PROVE  (LastIsOpen /\ Places /\ BytesAreStyled)'
<1> USE DEF Held
<1> DEFINE byte == [newline |-> newline, style |-> style]
<1>0. /\ stream' \in Seq(Byte) /\ Len(stream') = len + m
      /\ \A i \in 1..len : stream'[i] = stream[i]
      /\ \A i \in len+1 .. len+m : stream'[i] = byte
  BY PutExtends
<1>1. len \in Nat /\ len' = len + m /\ DOMAIN stream = 1..len /\ DOMAIN stream' = 1..len'
      /\ MaxLen \in Nat /\ SizeMax \in Nat /\ MaxLen < SizeMax
  <2>1. len' = len + m /\ DOMAIN stream' = 1..len'
    BY <1>0 DEF len
  <2> QED
    BY <2>1, HeldFacts, ConstantsAssumption
<1> HIDE DEF byte
<1>2. LastIsOpen'
  BY DEF LastIsOpen
<1>3. \A k \in DOMAIN highlights : highlights[k].start \in Nat /\ highlights[k].end \in Nat
  BY HeldFacts
<1>4. Places'
  BY <1>1, <1>3 DEF Places
<1>5. ASSUME NEW i \in 1..len, NEW k
      PROVE  InHighlight(i, k)' = InHighlight(i, k) /\ stream'[i] = stream[i]
  BY <1>0 DEF InHighlight
<1>6. ASSUME NEW i \in len+1 .. len+m PROVE stream'[i].style = style
  BY <1>0 DEF byte
<1>7. ASSUME NEW i \in len+1 .. len+m, NEW k \in DOMAIN highlights, InHighlight(i, k)
      PROVE  highlights[k].ts = style
  <2>1. highlights[k].end > len
    BY <1>1, <1>3, <1>7 DEF InHighlight
  <2>2. highlighting /\ k = Len(highlights)
    BY <1>1, <1>3, <2>1 DEF Places
  <2> QED
    BY <2>2 DEF LastIsOpen
<1>8. ASSUME NEW i \in len+1 .. len+m, style # Default
      PROVE  \E k \in DOMAIN highlights : InHighlight(i, k)
  <2> DEFINE k == Len(highlights)
  <2>1. k \in DOMAIN highlights /\ highlights[k].end = SizeMax
    BY <1>8 DEF LastIsOpen, HeldTypes
  <2>2. highlights[k].start <= len
    BY <2>1 DEF Places
  <2> HIDE DEF k
  <2>3. highlights[k].start < i /\ i <= highlights[k].end
    BY <1>1, <1>3, <2>1, <2>2 DEF HeldTypes
  <2> QED
    BY <2>1, <2>3 DEF InHighlight
<1>9. \A i \in 1..len' : i \in 1..len \/ i \in len+1 .. len+m
  BY <1>1
<1>10. BytesAreStyled'
  <2>1. ASSUME NEW i \in 1..len', NEW k \in DOMAIN highlights, InHighlight(i, k)
        PROVE  highlights[k].ts = stream'[i].style
    <3>1. CASE i \in 1..len
      BY <1>1, <1>5, <2>1, <3>1 DEF BytesAreStyled
    <3>2. CASE i \in len+1 .. len+m
      BY <1>6, <1>7, <2>1, <3>2
    <3> QED
      BY <1>9, <3>1, <3>2
  <2>2. ASSUME NEW i \in 1..len', stream'[i].style # Default
        PROVE  \E k \in DOMAIN highlights : InHighlight(i, k)
    <3>1. CASE i \in 1..len
      BY <1>1, <1>5, <2>2, <3>1 DEF BytesAreStyled
    <3>2. CASE i \in len+1 .. len+m
      BY <1>6, <1>8, <2>2, <3>2
    <3> QED
      BY <1>9, <3>1, <3>2
  <2> QED
    BY <1>1, <2>1, <2>2 DEF BytesAreStyled, InHighlight
<1> QED
  BY <1>2, <1>4, <1>10

(* Content has no newline; a newline ends a line where the stream ends.    *)
LEMMA ContentKeepsEnds ==
  ASSUME HeldTypes, EndsAreNewlines, NEW m \in Nat, len + m <= MaxLen, Put(m, FALSE),
         UNCHANGED lineEnds
  PROVE  EndsAreNewlines'
<1> DEFINE byte == [newline |-> FALSE, style |-> style]
<1>1. /\ stream' \in Seq(Byte) /\ Len(stream') = len + m
      /\ \A i \in 1..len : stream'[i] = stream[i]
      /\ \A i \in len+1 .. len+m : stream'[i] = byte
  BY PutExtends
<1>2. len \in Nat /\ DOMAIN stream = 1..len /\ DOMAIN stream' = 1..len+m
  BY <1>1, HeldFacts
<1>3. ~byte.newline
  OBVIOUS
<1> HIDE DEF byte
<1>4. \A k \in DOMAIN lineEnds : lineEnds[k] \in DOMAIN stream' /\ stream'[lineEnds[k]].newline
  BY <1>1, <1>2 DEF EndsAreNewlines
<1>5. \A i \in 1..len+m : i \in 1..len \/ i \in len+1 .. len+m
  BY <1>2
<1>6. \A i \in DOMAIN stream' : stream'[i].newline => \E k \in DOMAIN lineEnds : lineEnds[k] = i
  BY <1>1, <1>2, <1>3, <1>5 DEF EndsAreNewlines
<1> QED
  BY <1>4, <1>6 DEF EndsAreNewlines

LEMMA NewlineKeepsEnds ==
  ASSUME HeldTypes, EndsAreNewlines, HandleNewline
  PROVE  EndsAreNewlines' /\ lineEnds' \in Seq(Nat)
<1> DEFINE byte == [newline |-> TRUE, style |-> style]
<1>1. len \in Nat /\ len + 1 <= MaxLen /\ Put(1, TRUE) /\ lineEnds' = Append(lineEnds, Len(stream'))
  <2>1. len < MaxLen /\ Put(1, TRUE) /\ lineEnds' = Append(lineEnds, Len(stream'))
    BY DEF HandleNewline
  <2>2. len \in Nat /\ MaxLen \in Nat
    BY HeldFacts
  <2>3. len + 1 <= MaxLen
    BY <2>1, <2>2
  <2> QED
    BY <2>1, <2>2, <2>3
<1>2. /\ stream' \in Seq(Byte) /\ Len(stream') = len + 1
      /\ \A i \in 1..len : stream'[i] = stream[i]
      /\ \A i \in len+1 .. len+1 : stream'[i] = byte
  BY <1>1, PutExtends
<1>3. DOMAIN stream = 1..len /\ DOMAIN stream' = 1..len+1 /\ stream'[len+1].newline
  BY <1>1, <1>2, HeldFacts
<1> HIDE DEF byte
<1>4. /\ lineEnds' \in Seq(Nat) /\ Len(lineEnds') = Len(lineEnds) + 1
      /\ \A k \in 1..Len(lineEnds) : lineEnds'[k] = lineEnds[k]
      /\ lineEnds'[Len(lineEnds)+1] = len + 1
  BY <1>1, <1>2, AppendProperties DEF HeldTypes
<1>5. Len(lineEnds) \in Nat /\ DOMAIN lineEnds = 1..Len(lineEnds) /\ DOMAIN lineEnds' = 1..Len(lineEnds)+1
  BY <1>4, HeldFacts
<1>6. \A k \in 1..Len(lineEnds)+1 : k \in 1..Len(lineEnds) \/ k = Len(lineEnds)+1
  BY <1>5
<1>7. \A k \in 1..Len(lineEnds) : lineEnds[k] \in 1..len /\ stream'[lineEnds[k]].newline
  BY <1>2, <1>3, <1>5 DEF EndsAreNewlines
<1>8. ASSUME NEW k \in DOMAIN lineEnds'
      PROVE  lineEnds'[k] \in DOMAIN stream' /\ stream'[lineEnds'[k]].newline
  BY <1>1, <1>3, <1>4, <1>5, <1>6, <1>7
<1>9. ASSUME NEW i \in DOMAIN stream', stream'[i].newline
      PROVE  \E k \in DOMAIN lineEnds' : lineEnds'[k] = i
  <2>1. CASE i = len + 1
    BY <1>4, <1>5, <2>1
  <2>2. CASE i \in 1..len
    <3>1. PICK k \in DOMAIN lineEnds : lineEnds[k] = i
      BY <1>2, <1>3, <1>9, <2>2 DEF EndsAreNewlines
    <3> QED
      BY <1>4, <1>5, <3>1
  <2> QED
    BY <1>1, <1>3, <2>1, <2>2
<1>10. ASSUME NEW j \in DOMAIN lineEnds', NEW k \in DOMAIN lineEnds', j < k
       PROVE  lineEnds'[j] < lineEnds'[k]
  <2>1. j \in 1..Len(lineEnds)
    BY <1>5, <1>10
  <2>2. CASE k = Len(lineEnds) + 1
    BY <1>1, <1>4, <1>7, <2>1, <2>2
  <2>3. CASE k \in 1..Len(lineEnds)
    BY <1>4, <1>5, <1>10, <2>1, <2>3 DEF EndsAreNewlines
  <2> QED
    BY <1>5, <1>6, <2>2, <2>3
<1> QED
  BY <1>4, <1>8, <1>9, <1>10 DEF EndsAreNewlines
-----------------------------------------------------------------------------
(* Ending the open highlight takes no byte from any.                       *)
LEMMA EndedEnds ==
  ASSUME HeldTypes, LastIsOpen
  PROVE  /\ Ended \in Seq(Highlight) /\ Len(Ended) = Len(highlights)
         /\ \A k \in 1..Len(highlights) :
              /\ Ended[k].start = highlights[k].start /\ Ended[k].ts = highlights[k].ts
              /\ Ended[k].end = IF highlighting /\ k = Len(highlights) THEN len ELSE highlights[k].end
<1> DEFINE last == Len(highlights)
<1>1. highlights \in Seq(Highlight) /\ last \in Nat /\ DOMAIN highlights = 1..last /\ len \in Nat
  BY HeldFacts DEF HeldTypes
<1>2. CASE ~highlighting
  BY <1>1, <1>2 DEF Ended
<1>3. CASE highlighting
  <2> DEFINE closed == [highlights[last] EXCEPT !.end = len]
  <2>1. last \in 1..last /\ Ended = [highlights EXCEPT ![last] = closed]
    BY <1>1, <1>3 DEF LastIsOpen, Ended
  <2>2. closed \in Highlight /\ closed.end = len /\ closed.start = highlights[last].start
        /\ closed.ts = highlights[last].ts
    <3>1. highlights[last] \in Highlight
      BY <1>1, <2>1
    <3> QED
      BY <1>1, <3>1 DEF Highlight
  <2> HIDE DEF closed, last
  <2>3. Ended \in Seq(Highlight) /\ Len(Ended) = Len(highlights)
    BY <1>1, <2>1, <2>2, ExceptSeq DEF last
  <2>4. \A k \in 1..last : Ended[k] = IF k = last THEN closed ELSE highlights[k]
    BY <1>1, <2>1
  <2> QED
    BY <1>3, <2>2, <2>3, <2>4 DEF last
<1> QED
  BY <1>2, <1>3

(* A sequence that sets a style ends the highlight before it and, unless   *)
(* the style is the default, opens the next.                               *)
LEMMA TermStyleKeepsHeld ==
  ASSUME Held, NEW ts \in Styles, HandleTermStyle(ts)
  PROVE  Held'
<1> DEFINE last == Len(highlights)
           new == [ts |-> ts, start |-> len, end |-> SizeMax]
<1>1. /\ UNCHANGED <<stream, lineEnds, annotations>> /\ style' = ts
      /\ highlighting' = (ts # Default)
      /\ highlights' = IF ts = Default THEN Ended ELSE Append(Ended, new)
  BY DEF HandleTermStyle, Opened
<1>2. HeldTypes /\ LastIsOpen /\ Places /\ BytesAreStyled /\ EndsAreNewlines
  BY DEF Held
<1>3. /\ Ended \in Seq(Highlight) /\ Len(Ended) = last
      /\ \A k \in 1..last :
           /\ Ended[k].start = highlights[k].start /\ Ended[k].ts = highlights[k].ts
           /\ Ended[k].end = IF highlighting /\ k = last THEN len ELSE highlights[k].end
  BY <1>2, EndedEnds
<1>4. len \in Nat /\ SizeMax \in Nat /\ len < SizeMax /\ last \in Nat /\ DOMAIN highlights = 1..last
      /\ DOMAIN stream = 1..len /\ len' = len
  BY <1>1, <1>2, HeldFacts DEF len
<1>5. new \in Highlight /\ new.ts = ts /\ new.start = len /\ new.end = SizeMax
  BY <1>4 DEF Highlight
<1> HIDE DEF new
<1>6. /\ highlights' \in Seq(Highlight)
      /\ Len(highlights') = IF ts = Default THEN last ELSE last + 1
      /\ \A k \in 1..last : highlights'[k] = Ended[k]
      /\ ts # Default => highlights'[last+1] = new
  BY <1>1, <1>3, <1>5, AppendProperties
<1>7. DOMAIN highlights' = 1..Len(highlights') /\ Len(highlights') \in Nat
  BY <1>6
<1>8. \A k \in DOMAIN highlights' : k \in 1..last \/ (k = last + 1 /\ ts # Default)
  BY <1>4, <1>6, <1>7
<1>9. ASSUME NEW k \in 1..last
      PROVE  /\ highlights'[k].start = highlights[k].start /\ highlights'[k].ts = highlights[k].ts
             /\ highlights[k].start \in Nat /\ highlights[k].end \in Nat
             /\ highlights'[k].end = IF highlighting /\ k = last THEN len ELSE highlights[k].end
             /\ highlights[k].start <= highlights'[k].end /\ highlights[k].start <= len
             /\ highlights'[k].end <= len /\ highlights'[k].end <= highlights[k].end
  <2>1. /\ highlights'[k].start = highlights[k].start /\ highlights'[k].ts = highlights[k].ts
        /\ highlights'[k].end = IF highlighting /\ k = last THEN len ELSE highlights[k].end
    BY <1>3, <1>6
  <2>2. k \in DOMAIN highlights /\ highlights[k].start \in Nat /\ highlights[k].end \in Nat
    BY <1>2, <1>4, HeldFacts
  <2>3. /\ highlights[k].start <= len /\ highlights[k].start <= highlights[k].end
        /\ highlights[k].end <= len \/ (highlighting /\ k = last)
    BY <1>2, <2>2 DEF Places
  <2>4. highlighting /\ k = last => highlights[k].end = SizeMax
    BY <1>2 DEF LastIsOpen
  <2> QED
    BY <1>4, <2>1, <2>2, <2>3, <2>4
<1>10. HeldTypes'
  BY <1>1, <1>2, <1>4, <1>6 DEF HeldTypes
<1>11. LastIsOpen'
  <2>1. CASE ts = Default
    <3>1. ~highlighting' /\ style' = Default
      BY <1>1, <2>1
    <3> QED
      BY <3>1 DEF LastIsOpen
  <2>2. CASE ts # Default
    <3>1. highlighting' /\ style' = ts
      BY <1>1, <2>2
    <3>2. Len(highlights') = last + 1 /\ last + 1 > 0 /\ highlights'[last+1] = new
      BY <1>4, <1>6, <2>2
    <3> QED
      BY <1>5, <2>2, <3>1, <3>2 DEF LastIsOpen
  <2> QED
    BY <2>1, <2>2
<1>12. Places'
  <2>1. ASSUME NEW k \in DOMAIN highlights'
        PROVE  /\ highlights'[k].start <= len /\ highlights'[k].start <= highlights'[k].end
               /\ highlights'[k].end <= len \/ (highlighting' /\ k = Len(highlights'))
    <3>1. CASE k \in 1..last
      BY <1>9, <3>1
    <3>2. CASE k = last + 1 /\ ts # Default
      <4>1. highlighting' /\ k = Len(highlights') /\ highlights'[k] = new
        BY <1>1, <1>6, <3>2
      <4>2. len <= SizeMax /\ len <= len
        BY <1>4
      <4> QED
        BY <1>5, <4>1, <4>2
    <3> QED
      BY <1>8, <3>1, <3>2
  <2>2. ASSUME NEW j \in DOMAIN highlights', NEW k \in DOMAIN highlights', j < k
        PROVE  highlights'[j].end <= highlights'[k].start
    <3>1. j \in 1..last
      BY <1>4, <1>8, <1>7, <2>2
    <3>2. CASE k \in 1..last
      <4>1. highlights[j].end <= highlights[k].start
        BY <1>2, <1>4, <2>2, <3>1, <3>2 DEF Places
      <4>2. highlights[j].end \in Nat /\ highlights[k].start \in Nat /\ highlights'[j].end \in Nat
        BY <1>4, <1>9, <3>1, <3>2
      <4>3. highlights'[j].end <= highlights[j].end /\ highlights'[k].start = highlights[k].start
        BY <1>9, <3>1, <3>2
      <4> QED
        BY <4>1, <4>2, <4>3
    <3>3. CASE k = last + 1 /\ ts # Default
      BY <1>5, <1>6, <1>9, <3>1, <3>3
    <3> QED
      BY <1>8, <3>2, <3>3
  <2> QED
    BY <1>4, <2>1, <2>2 DEF Places
<1>13. BytesAreStyled'
  <2>1. ASSUME NEW i \in 1..len, NEW k \in 1..last
        PROVE  InHighlight(i, k)' = InHighlight(i, k)
    <3>1. highlighting /\ k = last => highlights[k].end = SizeMax
      BY <1>2 DEF LastIsOpen
    <3>2. /\ highlights'[k].start = highlights[k].start
          /\ highlights'[k].end = IF highlighting /\ k = last THEN len ELSE highlights[k].end
      BY <1>9
    <3>3. i <= len /\ i <= SizeMax
      BY <1>4
    <3>4. i <= highlights'[k].end <=> i <= highlights[k].end
      BY <3>1, <3>2, <3>3
    <3> QED
      BY <3>2, <3>4, Zenon DEF InHighlight
  <2>2. ASSUME NEW i \in 1..len, NEW k \in DOMAIN highlights', InHighlight(i, k)'
        PROVE  highlights'[k].ts = stream[i].style
    <3>1. k \in 1..last
      <4>1. ts # Default => ~(highlights'[last+1].start < i)
        BY <1>4, <1>5, <1>6
      <4> QED
        BY <1>8, <2>2, <4>1 DEF InHighlight
    <3> QED
      BY <1>2, <1>4, <1>9, <2>1, <2>2, <3>1 DEF BytesAreStyled
  <2>3. ASSUME NEW i \in 1..len, stream[i].style # Default
        PROVE  \E k \in DOMAIN highlights' : InHighlight(i, k)'
    <3>1. PICK k \in 1..last : InHighlight(i, k)
      BY <1>2, <1>4, <2>3 DEF BytesAreStyled
    <3>2. k \in DOMAIN highlights'
      BY <1>4, <1>6, <1>7
    <3> QED
      BY <2>1, <3>1, <3>2
  <2> QED
    BY <1>1, <1>4, <2>2, <2>3 DEF BytesAreStyled
<1>14. EndsAreNewlines'
  BY <1>1, <1>2 DEF EndsAreNewlines
<1> QED
  BY <1>10, <1>11, <1>12, <1>13, <1>14 DEF Held
-----------------------------------------------------------------------------
(* The last newline at the latest ends the lines that are asked for.       *)
LastEnd == LineEnd(start + num - 1)

Piece == [from : Nat, to : Nat, ts : Styles]

RenderTypes ==
  /\ pc \in {"idle", "lines", "returned"}
  /\ start \in Nat /\ num \in Nat /\ offset \in Nat /\ highlight \in Nat
  /\ spans \in Seq(Piece) /\ lines \in Seq(Seq(Piece))

LinesShown ==
  \A k \in DOMAIN lines : Shows(lines[k], LineStart(start+k-1), LineEnd(start+k-1))

(* The highlight is the first that reaches beyond the offset; if there is  *)
(* none, then all that do begin after the last of the lines.               *)
Ahead ==
  /\ highlight <= Len(highlights)
  /\ highlight = 0 => \A k \in DOMAIN highlights :
       highlights[k].end > offset => highlights[k].start >= LastEnd
  /\ highlight # 0 =>
       /\ highlights[highlight].end > offset
       /\ \A k \in DOMAIN highlights : k < highlight => highlights[k].end <= offset

LineBegun ==
  /\ LineStart(start + Len(lines)) <= offset /\ offset <= NextOffset
  /\ Shows(spans, LineStart(start + Len(lines)), offset)

Rendered ==
  /\ RenderTypes
  /\ pc # "idle" => LinesShown
  /\ pc = "lines" =>
       /\ num > 0 /\ start + num <= Len(lineEnds) /\ Len(lines) <= num
       /\ Ahead
       /\ Len(lines) < num => LineBegun
  /\ pc = "returned" => Len(lines) = num /\ (num # 0 => start + num <= Len(lineEnds))
-----------------------------------------------------------------------------
(* Where lines start and end.                                              *)
LEMMA LinePlaces ==
  ASSUME Held, NEW line \in Nat, line < Len(lineEnds)
  PROVE  /\ LineStart(line) \in Nat /\ LineEnd(line) \in Nat
         /\ LineStart(line) < LineEnd(line) /\ LineEnd(line) <= len
         /\ LineStart(line + 1) = LineEnd(line)
         /\ \A m \in Nat : line <= m /\ m < Len(lineEnds) => LineEnd(line) <= LineEnd(m)
<1>1. HeldTypes /\ EndsAreNewlines
  BY DEF Held
<1>2. Len(lineEnds) \in Nat /\ DOMAIN lineEnds = 1..Len(lineEnds) /\ DOMAIN stream = 1..len /\ len \in Nat
  BY <1>1, HeldFacts
<1>3. \A k \in 1..Len(lineEnds) : lineEnds[k] \in 1..len
  BY <1>1, <1>2 DEF EndsAreNewlines
<1>4. \A j, k \in 1..Len(lineEnds) : j < k => lineEnds[j] < lineEnds[k]
  BY <1>1, <1>2 DEF EndsAreNewlines
<1>5. line + 1 \in 1..Len(lineEnds) /\ (line > 0 => line \in 1..Len(lineEnds) /\ line < line + 1)
  BY <1>2
<1>6. LineEnd(line) \in 1..len /\ LineStart(line + 1) = LineEnd(line)
  BY <1>3, <1>5 DEF LineEnd, LineStart
<1>7. LineStart(line) \in Nat /\ LineStart(line) < LineEnd(line)
  <2>1. CASE line > 0
    <3>1. lineEnds[line] \in 1..len /\ lineEnds[line] < lineEnds[line+1]
      BY <1>3, <1>4, <1>5, <2>1
    <3> QED
      BY <2>1, <3>1 DEF LineEnd, LineStart
  <2>2. CASE line = 0
    BY <1>6, <2>2 DEF LineStart
  <2> QED
    BY <2>1, <2>2
<1>8. ASSUME NEW m \in Nat, line <= m, m < Len(lineEnds)
      PROVE  LineEnd(line) <= LineEnd(m)
  <2>1. CASE m = line
    BY <1>6, <2>1
  <2>2. CASE line < m
    <3>1. m + 1 \in 1..Len(lineEnds) /\ line + 1 < m + 1
      BY <1>2, <1>8, <2>2
    <3>2. lineEnds[line+1] < lineEnds[m+1] /\ lineEnds[line+1] \in 1..len /\ lineEnds[m+1] \in 1..len
      BY <1>3, <1>4, <1>5, <3>1
    <3> QED
      BY <3>2 DEF LineEnd
  <2> QED
    BY <1>8, <2>1, <2>2
<1>9. LineEnd(line) \in Nat /\ LineEnd(line) <= len
  BY <1>2, <1>6
<1> QED
  BY <1>6, <1>7, <1>8, <1>9

(* A piece that begins where the line so far ends.                         *)
LEMMA ShowsMore ==
  ASSUME NEW line \in Seq(Piece), NEW from \in Nat, NEW at \in Nat, Shows(line, from, at),
         NEW p \in Piece, p.from = at, at < p.to,
         \A i \in at+1 .. p.to : stream[i].style = p.ts
  PROVE  Shows(Append(line, p), from, p.to)
<1> DEFINE more == Append(line, p)
           k0 == Len(line)
<1>1. /\ more \in Seq(Piece) /\ Len(more) = k0 + 1 /\ more[k0+1] = p
      /\ \A k \in 1..k0 : more[k] = line[k]
  BY AppendProperties
<1>2. k0 \in Nat /\ DOMAIN line = 1..k0 /\ DOMAIN more = 1..k0+1 /\ more # <<>>
      /\ (line = <<>> <=> k0 = 0)
  BY <1>1, EmptySeq
<1>3. p.from \in Nat /\ p.to \in Nat
  BY DEF Piece
<1> HIDE DEF more
<1>4. more[1].from = from
  <2>1. CASE k0 = 0
    BY <1>1, <1>2, <2>1 DEF Shows
  <2>2. CASE k0 # 0
    <3>1. 1 \in 1..k0 /\ line[1].from = from
      BY <1>2, <2>2 DEF Shows
    <3> QED
      BY <1>1, <3>1
  <2> QED
    BY <2>1, <2>2
<1>5. more[Len(more)].to = p.to
  BY <1>1
<1>6. ASSUME NEW k \in 1..k0+1
      PROVE  /\ more[k].from < more[k].to
             /\ k > 1 => more[k-1].to = more[k].from
             /\ \A i \in more[k].from + 1 .. more[k].to : stream[i].style = more[k].ts
  <2>1. CASE k \in 1..k0
    <3>1. more[k] = line[k] /\ (k > 1 => k - 1 \in 1..k0 /\ more[k-1] = line[k-1])
      BY <1>1, <2>1
    <3> QED
      BY <1>2, <2>1, <3>1 DEF Shows
  <2>2. CASE k = k0 + 1
    <3>1. k > 1 => k - 1 = k0 /\ k0 \in 1..k0 /\ line # <<>>
      BY <1>2, <2>2
    <3>2. k > 1 => more[k-1].to = at
      BY <1>1, <3>1 DEF Shows
    <3> QED
      BY <1>1, <2>2, <3>2
  <2> QED
    BY <1>2, <2>1, <2>2
<1>7. more = <<>> => from = p.to
  BY <1>2
<1> QED
  BY <1>2, <1>4, <1>5, <1>6, <1>7 DEF Shows, more

(* The bytes of the next piece all came in one style.                      *)
LEMMA PieceHasOneStyle ==
  ASSUME Held, Rendered, AddSpan
  PROVE  /\ SpanEnd \in Nat /\ offset < SpanEnd /\ SpanEnd <= NextOffset
         /\ Hit => highlight \in DOMAIN highlights
         /\ \A i \in offset+1 .. SpanEnd :
              stream[i].style = (IF Hit THEN highlights[highlight].ts ELSE Default)
<1> DEFINE line == start + Len(lines)
           next == NextOffset
           h == highlight
<1>1. /\ pc = "lines" /\ Len(lines) < num /\ offset < NextOffset
      /\ RenderTypes /\ Ahead /\ start + num <= Len(lineEnds) /\ num > 0
  BY DEF AddSpan, Rendered
<1>2. start \in Nat /\ num \in Nat /\ offset \in Nat /\ h \in Nat /\ Len(lines) \in Nat
  BY <1>1 DEF RenderTypes
<1>3. HeldTypes /\ Places /\ BytesAreStyled
  BY DEF Held
<1>4. /\ len \in Nat /\ DOMAIN stream = 1..len
      /\ Len(highlights) \in Nat /\ DOMAIN highlights = 1..Len(highlights)
      /\ \A k \in DOMAIN highlights : highlights[k].start \in Nat /\ highlights[k].end \in Nat
      /\ Len(lineEnds) \in Nat
  BY <1>3, HeldFacts
<1>5. next \in Nat /\ next <= len /\ next <= LastEnd /\ LastEnd \in Nat
  <2>1. line \in Nat /\ line < Len(lineEnds) /\ line <= start + num - 1
        /\ start + num - 1 \in Nat /\ start + num - 1 < Len(lineEnds)
    BY <1>1, <1>2, <1>4
  <2> HIDE DEF line
  <2>2. LineEnd(line) \in Nat /\ LineEnd(line) <= len /\ LineEnd(line) <= LineEnd(start + num - 1)
        /\ LineEnd(start + num - 1) \in Nat
    BY <2>1, LinePlaces
  <2> QED
    BY <2>2 DEF NextOffset, LastEnd, line
<1>6. h # 0 => h \in DOMAIN highlights
  BY <1>1, <1>2, <1>4 DEF Ahead
<1>7. offset < next
  BY <1>1
<1>8. \A i \in offset+1 .. next : i \in DOMAIN stream /\ offset < i /\ i <= next
  BY <1>2, <1>4, <1>5
<1> HIDE DEF next
<1>9. CASE Hit
  <2>1. h # 0 /\ highlights[h].start <= offset /\ highlights[h].end > offset
    BY <1>1, <1>9 DEF Ahead, Hit
  <2>2. SpanEnd = IF next > highlights[h].end THEN highlights[h].end ELSE next
    BY <1>9 DEF SpanEnd, next
  <2>3. SpanEnd \in Nat /\ offset < SpanEnd /\ SpanEnd <= next /\ SpanEnd <= highlights[h].end
    BY <1>2, <1>4, <1>5, <1>6, <1>7, <2>1, <2>2
  <2>4. ASSUME NEW i \in offset+1 .. SpanEnd PROVE stream[i].style = highlights[h].ts
    <3>1. i \in DOMAIN stream /\ InHighlight(i, h)
      BY <1>2, <1>4, <1>5, <1>6, <1>8, <2>1, <2>3 DEF InHighlight
    <3> QED
      BY <1>3, <1>6, <2>1, <3>1 DEF BytesAreStyled
  <2> QED
    BY <1>6, <1>9, <2>1, <2>3, <2>4 DEF next
<1>10. CASE ~Hit /\ h # 0
  <2>1. h \in DOMAIN highlights /\ offset < highlights[h].start
    BY <1>2, <1>4, <1>6, <1>10 DEF Hit
  <2>2. SpanEnd = IF next > highlights[h].start THEN highlights[h].start ELSE next
    BY <1>10 DEF SpanEnd, next
  <2>3. SpanEnd \in Nat /\ offset < SpanEnd /\ SpanEnd <= next /\ SpanEnd <= highlights[h].start
    BY <1>2, <1>4, <1>5, <1>7, <2>1, <2>2
  <2>4. ASSUME NEW i \in offset+1 .. SpanEnd, NEW k \in DOMAIN highlights, InHighlight(i, k)
        PROVE  FALSE
    <3>1. highlights[k].start < i /\ i <= highlights[k].end /\ offset < i /\ i <= highlights[h].start
      BY <1>2, <1>4, <2>1, <2>3, <2>4 DEF InHighlight
    <3>2. ~(k < h)
      BY <1>1, <1>2, <1>4, <1>10, <3>1 DEF Ahead
    <3>3. k # h
      BY <1>4, <2>1, <3>1
    <3>4. h < k
      BY <1>4, <2>1, <3>2, <3>3
    <3>5. highlights[h].start <= highlights[h].end /\ highlights[h].end <= highlights[k].start
      BY <1>3, <2>1, <3>4 DEF Places
    <3> QED
      BY <1>4, <2>1, <3>1, <3>5
  <2>5. \A i \in offset+1 .. SpanEnd : i \in DOMAIN stream
    BY <1>2, <1>5, <1>8, <2>3
  <2>6. \A i \in offset+1 .. SpanEnd : stream[i].style = Default
    BY <1>3, <2>4, <2>5 DEF BytesAreStyled
  <2> QED
    BY <1>10, <2>3, <2>6 DEF next
<1>11. CASE h = 0
  <2>1. ~Hit /\ SpanEnd = next
    BY <1>11 DEF Hit, SpanEnd, next
  <2>2. ASSUME NEW i \in offset+1 .. next, NEW k \in DOMAIN highlights, InHighlight(i, k)
        PROVE  FALSE
    <3>1. highlights[k].start < i /\ i <= highlights[k].end /\ offset < i /\ i <= next
      BY <1>8, <2>2 DEF InHighlight
    <3>2. highlights[k].end > offset
      BY <1>2, <1>4, <1>5, <3>1
    <3>3. highlights[k].start >= LastEnd
      BY <1>1, <1>11, <3>2 DEF Ahead
    <3> QED
      BY <1>4, <1>5, <3>1, <3>3
  <2>3. \A i \in offset+1 .. next : stream[i].style = Default
    BY <1>3, <1>8, <2>2 DEF BytesAreStyled
  <2> QED
    BY <1>5, <1>7, <2>1, <2>3 DEF next
<1> QED
  BY <1>9, <1>10, <1>11

LEMMA AddSpanKeepsRendered ==
  ASSUME Held, Rendered, AddSpan
  PROVE  Rendered'
<1> DEFINE later == {j \in highlight..Len(highlights) : highlights[j].end > SpanEnd}
           p == [from |-> offset, to |-> SpanEnd, ts |-> IF Hit THEN highlights[highlight].ts ELSE Default]
<1>1. /\ pc = "lines" /\ Len(lines) < num /\ pc' = pc /\ start' = start /\ num' = num /\ lines' = lines
      /\ UNCHANGED heldVars /\ spans' = Append(spans, p) /\ offset' = SpanEnd
      /\ highlight' = IF highlight = 0 THEN 0 ELSE FirstOf(later)
  BY DEF AddSpan
<1>2. /\ RenderTypes /\ LinesShown /\ Ahead /\ LineBegun /\ num > 0 /\ start + num <= Len(lineEnds)
      /\ Len(lines) <= num
  BY <1>1 DEF Rendered
<1>3. /\ SpanEnd \in Nat /\ offset < SpanEnd /\ SpanEnd <= NextOffset
      /\ Hit => highlight \in DOMAIN highlights
      /\ \A i \in offset+1 .. SpanEnd :
           stream[i].style = (IF Hit THEN highlights[highlight].ts ELSE Default)
  BY PieceHasOneStyle
<1>4. HeldTypes
  BY DEF Held
<1>5. /\ Len(highlights) \in Nat /\ DOMAIN highlights = 1..Len(highlights)
      /\ \A k \in DOMAIN highlights :
           highlights[k] \in Highlight /\ highlights[k].start \in Nat /\ highlights[k].end \in Nat
      /\ Len(lineEnds) \in Nat
  BY <1>4, HeldFacts
<1>6. offset \in Nat /\ highlight \in Nat /\ start \in Nat /\ num \in Nat /\ Len(lines) \in Nat
      /\ spans \in Seq(Piece)
  BY <1>2 DEF RenderTypes
<1>7. p \in Piece /\ p.from = offset /\ p.to = SpanEnd /\ p.ts = (IF Hit THEN highlights[highlight].ts ELSE Default)
  <2>1. (IF Hit THEN highlights[highlight].ts ELSE Default) \in Styles
    BY <1>3, <1>5, ConstantsAssumption DEF Highlight
  <2> QED
    BY <1>3, <1>6, <2>1 DEF Piece
<1> HIDE DEF p
<1>8. highlight # 0 =>
        /\ later \in SUBSET (Nat \ {0})
        /\ highlight' = FirstOf(later)
        /\ later = {} => highlight' = 0
        /\ later # {} => highlight' \in later /\ \A j \in later : highlight' <= j
  <2>1. highlight # 0 => later \in SUBSET (Nat \ {0})
    BY <1>5, <1>6
  <2> HIDE DEF later
  <2> QED
    BY <1>1, <2>1, FirstIsFirst
<1>9. highlight' \in Nat
  BY <1>1, <1>8
<1>10. spans' \in Seq(Piece)
  BY <1>1, <1>6, <1>7, AppendProperties
<1>11. RenderTypes'
  BY <1>1, <1>2, <1>3, <1>9, <1>10 DEF RenderTypes
<1>12. stream' = stream /\ lineEnds' = lineEnds /\ highlights' = highlights
  BY <1>1 DEF heldVars
<1>13. LastEnd' = LastEnd /\ NextOffset' = NextOffset
  BY <1>1, <1>12 DEF LastEnd, NextOffset, LineEnd
<1>14. Ahead'
  <2>1. CASE highlight = 0
    <3>1. highlight' = 0
      BY <1>1, <2>1
    <3>2. ASSUME NEW k \in DOMAIN highlights, highlights[k].end > SpanEnd
          PROVE  highlights[k].start >= LastEnd
      BY <1>2, <1>3, <1>5, <1>6, <2>1, <3>2 DEF Ahead
    <3> QED
      BY <1>1, <1>5, <1>12, <1>13, <3>1, <3>2 DEF Ahead
  <2>2. CASE highlight # 0
    <3>1. \A k \in DOMAIN highlights : k < highlight => highlights[k].end <= SpanEnd
      BY <1>2, <1>3, <1>5, <1>6, <2>2 DEF Ahead
    <3>2. CASE later = {}
      <4>1. \A k \in DOMAIN highlights : ~(highlights[k].end > SpanEnd)
        <5>1. ASSUME NEW k \in DOMAIN highlights, highlights[k].end > SpanEnd PROVE FALSE
          <6>1. ~(k < highlight)
            BY <1>3, <1>5, <3>1, <5>1
          <6>2. k \in highlight..Len(highlights)
            BY <1>5, <1>6, <6>1
          <6> QED
            BY <3>2, <5>1, <6>2
        <5> QED
          BY <5>1
      <4> HIDE DEF later
      <4>2. highlight' = 0
        BY <1>8, <2>2, <3>2
      <4> QED
        BY <1>1, <1>5, <1>12, <4>1, <4>2 DEF Ahead
    <3>3. CASE later # {}
      <4>1. highlight' \in later /\ \A j \in later : highlight' <= j
        BY <1>8, <2>2, <3>3
      <4>2. highlight' \in DOMAIN highlights /\ highlights[highlight'].end > SpanEnd
        BY <1>5, <1>6, <2>2, <4>1
      <4>3. ASSUME NEW k \in DOMAIN highlights, k < highlight' PROVE highlights[k].end <= SpanEnd
        <5>1. CASE k < highlight
          BY <3>1, <5>1
        <5>2. CASE ~(k < highlight)
          <6>1. k \in highlight..Len(highlights)
            BY <1>5, <1>6, <5>2
          <6>2. k \notin later
            BY <1>5, <1>9, <4>1, <4>3
          <6>3. ~(highlights[k].end > SpanEnd)
            BY <6>1, <6>2
          <6> QED
            BY <1>3, <1>5, <6>3
        <5> QED
          BY <5>1, <5>2
      <4> HIDE DEF later
      <4>4. highlight' # 0 /\ highlight' <= Len(highlights)
        BY <1>5, <4>2
      <4> QED
        BY <1>1, <1>12, <4>2, <4>3, <4>4 DEF Ahead
    <3> QED
      BY <3>2, <3>3
  <2> QED
    BY <2>1, <2>2
<1>15. LineBegun'
  <2> DEFINE from == LineStart(start + Len(lines))
  <2>1. from' = from
    BY <1>1, <1>12 DEF LineStart
  <2>2. from \in Nat /\ from <= offset /\ Shows(spans, from, offset)
    <3>1. start + Len(lines) \in Nat /\ start + Len(lines) < Len(lineEnds)
      BY <1>1, <1>2, <1>5, <1>6
    <3>2. from \in Nat
      BY <3>1, LinePlaces
    <3> QED
      BY <1>2, <3>2 DEF LineBegun
  <2> HIDE DEF from
  <2>3. from <= SpanEnd
    BY <1>3, <1>6, <2>2
  <2>4. Shows(Append(spans, p), from, SpanEnd)
    BY <1>3, <1>6, <1>7, <2>2, ShowsMore
  <2>5. Shows(spans, from, offset)' = Shows(Append(spans, p), from, SpanEnd)
    BY <1>1, <1>12, <2>1 DEF Shows
  <2>6. NextOffset' = NextOffset /\ offset' = SpanEnd
    BY <1>1, <1>13
  <2> QED
    BY <1>3, <2>1, <2>3, <2>4, <2>5, <2>6 DEF LineBegun, from
<1>16. LinesShown'
  <2>1. \A k : LineStart(start+k-1)' = LineStart(start+k-1) /\ LineEnd(start+k-1)' = LineEnd(start+k-1)
    BY <1>1, <1>12 DEF LineStart, LineEnd
  <2> QED
    BY <1>1, <1>2, <1>12, <2>1 DEF LinesShown, Shows
<1>17. num' > 0 /\ (start + num <= Len(lineEnds))' /\ (Len(lines) <= num)' /\ pc' = "lines"
  BY <1>1, <1>2, <1>12
<1> QED
  BY <1>11, <1>14, <1>15, <1>16, <1>17 DEF Rendered

(* A slice is cut to the lines that have ended; the highlight found for    *)
(* all of it is the first that reaches beyond its start.                   *)
LEMMA GetRenderLinesBegins ==
  ASSUME Held, Rendered, NEW s \in 0..Len(lineEnds), NEW m \in 1..MaxRows, GetRenderLines(s, m)
  PROVE  Rendered'
<1>1. HeldTypes /\ Places
  BY DEF Held
<1>2. /\ Len(highlights) \in Nat /\ DOMAIN highlights = 1..Len(highlights)
      /\ \A k \in DOMAIN highlights : highlights[k].start \in Nat /\ highlights[k].end \in Nat
      /\ Len(lineEnds) \in Nat
  BY <1>1, HeldFacts
<1>3. s \in Nat /\ m \in Nat /\ m > 0
  BY <1>2, ConstantsAssumption
<1>4. start' = s /\ lines' = <<>> /\ spans' = <<>> /\ UNCHANGED heldVars
  BY DEF GetRenderLines
<1>5. <<>> \in Seq(Piece) /\ <<>> \in Seq(Seq(Piece)) /\ Len(<<>>) = 0 /\ DOMAIN <<>> = {}
  OBVIOUS
<1>6. LinesShown'
  BY <1>4, <1>5 DEF LinesShown
<1>7. CASE s >= Len(lineEnds)
  <2>1. pc' = "returned" /\ num' = 0 /\ UNCHANGED <<offset, highlight>>
    BY <1>7 DEF GetRenderLines
  <2>2. RenderTypes'
    BY <1>3, <1>4, <1>5, <2>1 DEF Rendered, RenderTypes
  <2> QED
    BY <1>4, <1>5, <1>6, <2>1, <2>2 DEF Rendered
<1>8. CASE ~(s >= Len(lineEnds))
  <2> DEFINE last == s + num' - 1
             from == LineStart(s)
             to == LineEnd(last)
             found == {j \in DOMAIN highlights : highlights[j].start >= to \/ highlights[j].end > from}
             k0 == FirstOf(found)
  <2>1. /\ pc' = "lines" /\ num' = (IF s + m > Len(lineEnds) THEN Len(lineEnds) - s ELSE m)
        /\ offset' = from
        /\ highlight' = HighlightForRegion(from, to)
    BY <1>8 DEF GetRenderLines
  <2>2. num' \in Nat /\ num' > 0 /\ s + num' <= Len(lineEnds) /\ s < Len(lineEnds)
        /\ last \in Nat /\ last < Len(lineEnds)
    BY <1>2, <1>3, <1>8, <2>1
  <2>3. from \in Nat /\ from < LineEnd(s)
    BY <1>3, <2>2, LinePlaces
  <2> HIDE DEF last
  <2>4. to \in Nat
    BY <2>2, LinePlaces
  <2>5. found \in SUBSET (Nat \ {0})
    BY <1>2
  <2>6. highlight' = IF k0 # 0 /\ highlights[k0].start < to THEN k0 ELSE 0
    BY <2>1 DEF HighlightForRegion
  <2>7. /\ found = {} => k0 = 0
        /\ found # {} => k0 \in found /\ \A j \in found : k0 <= j
    BY <2>5, FirstIsFirst
  <2>8. ASSUME NEW j \in DOMAIN highlights, j \notin found
        PROVE  highlights[j].start < to /\ highlights[j].end <= from
    BY <1>2, <2>3, <2>4, <2>8
  <2>9. found # {} => k0 \in DOMAIN highlights /\ (highlights[k0].start >= to \/ highlights[k0].end > from)
    BY <2>7
  <2>10. ASSUME NEW j \in DOMAIN highlights, highlights[j].end > from
         PROVE  j \in found
    BY <2>10
  <2> HIDE DEF found, from, to, k0
  <2>11. highlight' \in Nat /\ highlight' <= Len(highlights)
    <3>1. CASE found = {}
      BY <1>2, <2>6, <2>7, <3>1
    <3>2. CASE found # {}
      BY <1>2, <2>6, <2>9, <3>2
    <3> QED
      BY <3>1, <3>2
  <2>12. LastEnd' = to
    BY <1>4 DEF LastEnd, to, last, LineEnd, heldVars
  <2>13. highlight' = 0 => \A k \in DOMAIN highlights : highlights[k].end > from => highlights[k].start >= to
    <3> SUFFICES ASSUME highlight' = 0, NEW k \in DOMAIN highlights, highlights[k].end > from
                 PROVE  highlights[k].start >= to
      OBVIOUS
    <3>1. k \in found /\ k0 \in DOMAIN highlights /\ k0 <= k
      BY <2>7, <2>9, <2>10
    <3>2. highlights[k0].start >= to
      BY <1>2, <2>4, <2>6, <3>1
    <3>3. highlights[k0].start <= highlights[k].start
      <4>1. CASE k0 = k
        BY <1>2, <4>1
      <4>2. CASE k0 < k
        <5>1. highlights[k0].start <= highlights[k0].end /\ highlights[k0].end <= highlights[k].start
          BY <1>1, <3>1, <4>2 DEF Places
        <5> QED
          BY <1>2, <3>1, <5>1
      <4> QED
        BY <1>2, <3>1, <4>1, <4>2
    <3> QED
      BY <1>2, <2>4, <3>1, <3>2, <3>3
  <2>14. highlight' # 0 =>
           /\ highlights[highlight'].end > from
           /\ \A k \in DOMAIN highlights : k < highlight' => highlights[k].end <= from
    <3> SUFFICES ASSUME highlight' # 0
                 PROVE  /\ highlights[k0].end > from /\ highlight' = k0
                        /\ \A k \in DOMAIN highlights : k < k0 => highlights[k].end <= from
      OBVIOUS
    <3>1. highlight' = k0 /\ k0 # 0 /\ highlights[k0].start < to
      BY <2>6
    <3>2. found # {} /\ k0 \in DOMAIN highlights
      BY <2>7, <2>9, <3>1
    <3>3. highlights[k0].end > from
      BY <1>2, <2>4, <2>9, <3>1, <3>2
    <3>4. ASSUME NEW k \in DOMAIN highlights, k < k0 PROVE highlights[k].end <= from
      <4>1. k \notin found
        BY <1>2, <2>7, <3>2, <3>4
      <4> QED
        BY <2>8, <4>1
    <3> QED
      BY <3>1, <3>3, <3>4
  <2>15. highlights' = highlights /\ lineEnds' = lineEnds /\ stream' = stream
    BY <1>4 DEF heldVars
  <2>16. Ahead'
    BY <2>1, <2>11, <2>12, <2>13, <2>14, <2>15 DEF Ahead
  <2>17. Len(lines') = 0 /\ start' + Len(lines') = s
    BY <1>3, <1>4, <1>5
  <2>18. LineStart(start + Len(lines))' = from
    BY <2>15, <2>17 DEF LineStart, from
  <2>19. NextOffset' = LineEnd(s)
    BY <2>15, <2>17 DEF NextOffset, LineEnd
  <2>20. LineEnd(s) \in Nat /\ from <= LineEnd(s)
    <3>1. LineEnd(s) \in Nat
      BY <1>3, <2>2, LinePlaces
    <3> QED
      BY <2>3, <3>1
  <2>21. LineBegun'
    <3>1. Shows(spans, LineStart(start + Len(lines)), offset)'
      BY <1>4, <1>5, <2>1, <2>18 DEF Shows
    <3>2. from <= from
      BY <2>3
    <3> QED
      BY <2>1, <2>18, <2>19, <2>20, <3>1, <3>2 DEF LineBegun
  <2>22. RenderTypes'
    BY <1>3, <1>4, <1>5, <2>1, <2>2, <2>3, <2>11 DEF RenderTypes
  <2>23. (start + num <= Len(lineEnds))' /\ (Len(lines) <= num)' /\ (num > 0)'
    BY <1>4, <2>2, <2>15, <2>17
  <2> QED
    BY <1>6, <2>1, <2>16, <2>21, <2>22, <2>23 DEF Rendered
<1> QED
  BY <1>7, <1>8

(* A line whose pieces reach its newline is finished.                      *)
LEMMA AddLineKeepsRendered ==
  ASSUME Held, Rendered, AddLine
  PROVE  Rendered'
<1> DEFINE line == start + Len(lines)
<1>1. /\ pc = "lines" /\ Len(lines) < num /\ offset >= NextOffset /\ pc' = pc
      /\ start' = start /\ num' = num /\ offset' = offset /\ highlight' = highlight
      /\ lines' = Append(lines, spans) /\ spans' = <<>> /\ UNCHANGED heldVars
  BY DEF AddLine
<1>2. /\ RenderTypes /\ LinesShown /\ Ahead /\ LineBegun /\ num > 0 /\ start + num <= Len(lineEnds)
  BY <1>1 DEF Rendered
<1>3. stream' = stream /\ lineEnds' = lineEnds /\ highlights' = highlights
  BY <1>1 DEF heldVars
<1>4. Len(lineEnds) \in Nat
  BY HeldFacts DEF Held
<1>5. /\ offset \in Nat /\ highlight \in Nat /\ start \in Nat /\ num \in Nat /\ Len(lines) \in Nat
      /\ spans \in Seq(Piece) /\ lines \in Seq(Seq(Piece)) /\ DOMAIN lines = 1..Len(lines)
  BY <1>2 DEF RenderTypes
<1>6. line \in Nat /\ line < Len(lineEnds)
  BY <1>1, <1>2, <1>4, <1>5
<1>7. LineEnd(line) \in Nat /\ LineStart(line + 1) = LineEnd(line)
  <2> HIDE DEF line
  <2> QED
    BY <1>6, LinePlaces
<1>8. offset = LineEnd(line) /\ Shows(spans, LineStart(line), LineEnd(line))
  BY <1>1, <1>2, <1>5, <1>7 DEF LineBegun, NextOffset
<1>9. /\ lines' \in Seq(Seq(Piece)) /\ Len(lines') = Len(lines) + 1 /\ lines'[Len(lines)+1] = spans
      /\ \A k \in 1..Len(lines) : lines'[k] = lines[k]
  BY <1>1, <1>5, AppendProperties
<1>10. DOMAIN lines' = 1..Len(lines)+1
  BY <1>9
<1>11. RenderTypes'
  <2>1. <<>> \in Seq(Piece)
    OBVIOUS
  <2> QED
    BY <1>1, <1>2, <1>9, <2>1 DEF RenderTypes
<1>12. LastEnd' = LastEnd
  BY <1>1, <1>3 DEF LastEnd, LineEnd
<1>13. Ahead'
  BY <1>1, <1>2, <1>3, <1>12 DEF Ahead
<1>14. LinesShown'
  <2>1. ASSUME NEW k \in 1..Len(lines)+1
        PROVE  Shows(lines'[k], LineStart(start+k-1), LineEnd(start+k-1))
    <3>1. CASE k \in 1..Len(lines)
      BY <1>2, <1>5, <1>9, <3>1 DEF LinesShown
    <3>2. CASE k = Len(lines)+1
      <4>1. start + k - 1 = line
        BY <1>5, <3>2
      <4> HIDE DEF line
      <4> QED
        BY <1>8, <1>9, <3>2, <4>1
    <3> QED
      BY <1>5, <2>1, <3>1, <3>2
  <2> QED
    BY <1>1, <1>3, <1>10, <2>1 DEF LinesShown, Shows, LineStart, LineEnd
<1>15. ASSUME Len(lines') < num' PROVE LineBegun'
  <2>1. start' + Len(lines') = line + 1
    BY <1>1, <1>5, <1>9
  <2>2. line + 1 \in Nat /\ line + 1 < Len(lineEnds)
    BY <1>1, <1>2, <1>4, <1>5, <1>9, <1>15
  <2> HIDE DEF line
  <2>3. LineStart(start + Len(lines))' = LineStart(line + 1) /\ NextOffset' = LineEnd(line + 1)
    BY <1>3, <2>1 DEF NextOffset, LineStart, LineEnd
  <2>4. LineEnd(line + 1) \in Nat /\ LineStart(line + 1) < LineEnd(line + 1) /\ LineStart(line + 1) \in Nat
    BY <2>2, LinePlaces
  <2>5. offset' = LineStart(line + 1) /\ spans' = <<>>
    BY <1>1, <1>7, <1>8
  <2>6. LineStart(line + 1) <= LineStart(line + 1) /\ LineStart(line + 1) <= LineEnd(line + 1)
    BY <2>4
  <2>7. Shows(spans, LineStart(start + Len(lines)), offset)'
    BY <2>3, <2>5 DEF Shows
  <2> QED
    BY <2>3, <2>5, <2>6, <2>7 DEF LineBegun
<1>16. (start + num <= Len(lineEnds))' /\ (Len(lines) <= num)' /\ (num > 0)' /\ pc' = "lines"
  BY <1>1, <1>2, <1>3, <1>5, <1>9
<1> QED
  BY <1>11, <1>13, <1>14, <1>15, <1>16 DEF Rendered

LEMMA RestKeepsRendered ==
  ASSUME Rendered, ReturnLines \/ FreeRenderLines \/ UNCHANGED vars
  PROVE  Rendered'
<1>1. CASE ReturnLines
  <2>1. /\ pc = "lines" /\ Len(lines) = num /\ pc' = "returned" /\ UNCHANGED heldVars
        /\ UNCHANGED <<start, num, offset, highlight, spans, lines>>
    BY <1>1 DEF ReturnLines
  <2> QED
    BY <2>1 DEF Rendered, RenderTypes, heldVars, LinesShown, Shows, LineStart, LineEnd
<1>2. CASE FreeRenderLines
  <2>1. /\ pc' = "idle" /\ start' = 0 /\ num' = 0 /\ offset' = 0 /\ highlight' = 0
        /\ spans' = <<>> /\ lines' = <<>>
    BY <1>2 DEF FreeRenderLines
  <2>2. \A S : <<>> \in Seq(S)
    OBVIOUS
  <2> QED
    BY <2>1, <2>2 DEF Rendered, RenderTypes
<1>3. CASE UNCHANGED vars
  <2>1. UNCHANGED <<stream, lineEnds, highlights, pc, start, num, offset, highlight, spans, lines>>
    BY <1>3 DEF vars, heldVars, renderVars
  <2> QED
    BY <2>1 DEF Rendered, RenderTypes, LinesShown, Shows, LineStart, LineEnd, Ahead, LastEnd,
                LineBegun, NextOffset
<1> QED
  BY <1>1, <1>2, <1>3

(* While nothing is rendered there is nothing to keep.                     *)
LEMMA IdleKeepsRendered ==
  ASSUME Rendered, pc = "idle", UNCHANGED renderVars
  PROVE  Rendered'
BY DEF Rendered, RenderTypes, renderVars

BufferInv == Held /\ Rendered

LEMMA InitBuffer == Init => BufferInv
<1> SUFFICES ASSUME Init PROVE Rendered
  BY InitHeld DEF BufferInv
<1>1. \A S : <<>> \in Seq(S)
  OBVIOUS
<1> QED
  BY <1>1 DEF Init, Rendered, RenderTypes

LEMMA UnchangedHeld == Held /\ UNCHANGED heldVars => Held'
BY DEF Held, heldVars, HeldTypes, len, LastIsOpen, Places, BytesAreStyled, InHighlight, EndsAreNewlines

LEMMA NextBuffer == BufferInv /\ [Next]_vars => BufferInv'
<1> SUFFICES ASSUME Held, Rendered, [Next]_vars PROVE Held' /\ Rendered'
  BY DEF BufferInv
<1>0. HeldTypes /\ LastIsOpen /\ Places /\ BytesAreStyled /\ EndsAreNewlines
  BY DEF Held
<1>1. ASSUME NEW m \in Texts, HandleContent(m) PROVE Held' /\ Rendered'
  <2>1. /\ m \in Nat /\ len + m <= MaxLen /\ Put(m, FALSE) /\ pc = "idle"
        /\ UNCHANGED <<lineEnds, highlights, highlighting, annotations, style, renderVars>>
    BY <1>1, ConstantsAssumption DEF HandleContent
  <2>2. (LastIsOpen /\ Places /\ BytesAreStyled)'
    BY <2>1, PutKeepsHighlights
  <2>3. EndsAreNewlines'
    BY <1>0, <2>1, ContentKeepsEnds
  <2>4. stream' \in Seq(Byte) /\ len' <= MaxLen
    BY <1>0, <2>1, PutExtends DEF len
  <2>5. HeldTypes'
    BY <1>0, <2>1, <2>4 DEF HeldTypes
  <2> QED
    BY <2>1, <2>2, <2>3, <2>5, IdleKeepsRendered DEF Held
<1>2. ASSUME HandleNewline PROVE Held' /\ Rendered'
  <2>1. /\ len < MaxLen /\ Put(1, TRUE) /\ pc = "idle"
        /\ UNCHANGED <<highlights, highlighting, annotations, style, renderVars>>
    BY <1>2 DEF HandleNewline
  <2>2. len + 1 <= MaxLen
    BY <1>0, <2>1, HeldFacts
  <2>3. (LastIsOpen /\ Places /\ BytesAreStyled)'
    BY <2>1, <2>2, PutKeepsHighlights
  <2>4. EndsAreNewlines' /\ lineEnds' \in Seq(Nat)
    BY <1>0, <1>2, NewlineKeepsEnds
  <2>5. stream' \in Seq(Byte) /\ len' <= MaxLen
    BY <1>0, <2>1, <2>2, PutExtends DEF len
  <2>6. HeldTypes'
    BY <1>0, <2>1, <2>4, <2>5 DEF HeldTypes
  <2> QED
    BY <2>1, <2>3, <2>4, <2>6, IdleKeepsRendered DEF Held
<1>3. ASSUME NEW ts \in Styles, HandleTermStyle(ts) PROVE Held' /\ Rendered'
  <2>1. pc = "idle" /\ UNCHANGED renderVars
    BY <1>3 DEF HandleTermStyle
  <2> QED
    BY <1>3, <2>1, TermStyleKeepsHeld, IdleKeepsRendered
<1>4. ASSUME NEW a \in Annotations, AddAnnotation(a) PROVE Held' /\ Rendered'
  <2>1. /\ pc = "idle" /\ annotations' = Append(annotations, a)
        /\ UNCHANGED <<stream, lineEnds, highlights, highlighting, style, renderVars>>
    BY <1>4 DEF AddAnnotation
  <2>2. annotations' \in Seq(Annotations)
    BY <1>0, <2>1, AppendProperties DEF HeldTypes
  <2>3. HeldTypes'
    BY <1>0, <2>1, <2>2 DEF HeldTypes, len
  <2>4. (LastIsOpen /\ Places /\ BytesAreStyled /\ EndsAreNewlines)'
    BY <1>0, <2>1 DEF LastIsOpen, Places, BytesAreStyled, InHighlight, EndsAreNewlines, len
  <2> QED
    BY <2>1, <2>3, <2>4, IdleKeepsRendered DEF Held
<1>5. ASSUME NEW s \in 0..Len(lineEnds), NEW m \in 1..MaxRows, GetRenderLines(s, m)
      PROVE Held' /\ Rendered'
  <2>1. UNCHANGED heldVars
    BY <1>5 DEF GetRenderLines
  <2> QED
    BY <1>5, <2>1, UnchangedHeld, GetRenderLinesBegins
<1>6. CASE AddSpan
  BY <1>6, UnchangedHeld, AddSpanKeepsRendered DEF AddSpan
<1>7. CASE AddLine
  BY <1>7, UnchangedHeld, AddLineKeepsRendered DEF AddLine
<1>8. CASE ReturnLines
  BY <1>8, UnchangedHeld, RestKeepsRendered DEF ReturnLines
<1>9. CASE FreeRenderLines
  BY <1>9, UnchangedHeld, RestKeepsRendered DEF FreeRenderLines
<1>10. CASE UNCHANGED vars
  BY <1>10, UnchangedHeld, RestKeepsRendered DEF vars
<1> QED
  BY <1>1, <1>2, <1>3, <1>4, <1>5, <1>6, <1>7, <1>8, <1>9, <1>10 DEF Next, Render

LEMMA BufferIsInvariant == Spec => []BufferInv
BY InitBuffer, NextBuffer, PTL DEF Spec
-----------------------------------------------------------------------------
(* Each byte is highlighted in the style in which it came, and by one      *)
(* highlight: whatever the sequence of tokens that buffer_handle_token     *)
(* was given.                                                              *)
THEOREM BytesKeepTheirStyle == Spec => []HighlightsAreStyles
<1>1. BufferInv => HighlightsAreStyles
  BY DEF BufferInv, Held, BytesAreStyled, Places, HighlightsAreStyles
<1> QED
  BY <1>1, BufferIsInvariant, PTL

(* What get_render_lines returns is the lines asked for, each in full and  *)
(* in its styles, for every output and every slice of it.                  *)
THEOREM LinesAreShown == Spec => []SliceShowsLines
<1>1. BufferInv => SliceShowsLines
  BY DEF BufferInv, Held, EndsAreNewlines, Rendered, LinesShown, SliceShowsLines
<1> QED
  BY <1>1, BufferIsInvariant, PTL

(* Offsets below what a number of the annotation's width holds are         *)
(* themselves, and sharing a byte is what the two comparisons of           *)
(* buffer_annotation_at_line say.                                          *)
LEMMA WithinWidth ==
  ASSUME NEW x \in Nat, NEW m \in Nat, x < m
  PROVE  x % m = x
OBVIOUS

THEOREM AnnotationIsFound == Spec => []AnnotationsFoundByByte
<1>1. ASSUME Held PROVE AnnotationsFoundByByte
  <2>1. HeldTypes
    BY <1>1 DEF Held
  <2> SUFFICES ASSUME NEW line \in 0..Len(lineEnds)-1, NEW beyond, NEW type,
                      LineEnd(line) < OffsetRange
               PROVE  AnnotationAtLine(type, line, beyond) =
                        FirstOf({k \in DOMAIN annotations :
                                   annotations[k].type = type
                                   /\ (HasByteIn(annotations[k], line) \/ IsInside(annotations[k], line))})
    BY DEF AnnotationsFoundByByte
  <2> DEFINE from == LineStart(line)
             to == LineEnd(line)
  <2>2. line \in Nat /\ line < Len(lineEnds) /\ Len(lineEnds) \in Nat
    BY <2>1, HeldFacts
  <2>3. from \in Nat /\ to \in Nat /\ from < to
    BY <1>1, <2>2, LinePlaces
  <2>4. from % OffsetRange = from /\ to % OffsetRange = to
    <3>1. OffsetRange \in Nat /\ from < OffsetRange /\ to < OffsetRange
      BY <2>3, ConstantsAssumption
    <3> HIDE DEF from, to
    <3> QED
      BY <2>3, <3>1, WithinWidth
  <2> HIDE DEF from, to
  <2>5. AnnotationAtLine(type, line, beyond) =
          FirstOf({k \in DOMAIN annotations :
                     annotations[k].start < to /\ annotations[k].end > from /\ annotations[k].type = type})
    <3>1. (IF line < Len(lineEnds) THEN LineEnd(line) ELSE beyond) % OffsetRange = to
      BY <2>2, <2>4 DEF to
    <3>2. LineStart(line) % OffsetRange = from
      BY <2>4 DEF from
    <3>3. ~(line > Len(lineEnds))
      BY <2>2
    <3> HIDE DEF from, to
    <3> QED
      BY <3>1, <3>2, <3>3, Zenon DEF AnnotationAtLine
  <2>6. ASSUME NEW k \in DOMAIN annotations
        PROVE  annotations[k].start < to /\ annotations[k].end > from
                 <=> HasByteIn(annotations[k], line) \/ IsInside(annotations[k], line)
    <3> DEFINE a == annotations[k]
    <3>1. a.start \in Nat /\ a.end \in Nat
      BY <2>1, ConstantsAssumption DEF HeldTypes
    <3>2. HasByteIn(a, line) <=> \E i \in from+1 .. to : a.start < i /\ i <= a.end
      BY DEF HasByteIn, from, to
    <3>5. IsInside(a, line) <=> a.end <= a.start /\ from < a.end /\ a.start < to
      BY DEF IsInside, from, to
    <3> HIDE DEF a
    <3>3. ASSUME a.start < to, a.end > from, a.start < a.end
          PROVE  \E i \in from+1 .. to : a.start < i /\ i <= a.end
      <4>1. CASE a.start <= from
        <5>1. from + 1 \in from+1 .. to /\ a.start < from + 1 /\ from + 1 <= a.end
          BY <2>3, <3>1, <3>3, <4>1
        <5> QED
          BY <5>1
      <4>2. CASE from < a.start
        <5>1. a.start + 1 \in from+1 .. to /\ a.start < a.start + 1 /\ a.start + 1 <= a.end
          BY <2>3, <3>1, <3>3, <4>2
        <5> QED
          BY <5>1
      <4> QED
        BY <2>3, <3>1, <4>1, <4>2
    <3>4. ASSUME NEW i \in from+1 .. to, a.start < i, i <= a.end
          PROVE  a.start < to /\ a.end > from
      BY <2>3, <3>1, <3>4
    <3>6. CASE a.start < a.end
      <4>1. ~IsInside(a, line)
        BY <3>1, <3>5, <3>6
      <4> QED
        BY <3>2, <3>3, <3>4, <3>6, <4>1 DEF a
    <3>7. CASE a.end <= a.start
      <4>1. ~HasByteIn(a, line)
        BY <2>3, <3>1, <3>2, <3>7
      <4>2. IsInside(a, line) <=> a.start < to /\ a.end > from
        BY <2>3, <3>1, <3>5, <3>7
      <4> QED
        BY <4>1, <4>2 DEF a
    <3> QED
      BY <3>1, <3>6, <3>7
  <2>7. {k \in DOMAIN annotations :
           annotations[k].start < to /\ annotations[k].end > from /\ annotations[k].type = type}
        = {k \in DOMAIN annotations :
             annotations[k].type = type
             /\ (HasByteIn(annotations[k], line) \/ IsInside(annotations[k], line))}
    BY <2>6
  <2> QED
    BY <2>5, <2>7
<1>2. BufferInv => AnnotationsFoundByByte
  BY <1>1 DEF BufferInv
<1> QED
  BY <1>2, BufferIsInvariant, PTL
-----------------------------------------------------------------------------
(* Whether a code begins a command is defined by recursion on the codes    *)
(* before it: the function exists, for a sequence of any length.           *)
Turn(h, k) ==
  /\ k > 1 => ~(h[k-1] /\ codes[k-1] \in T!Extended)
  /\ k > 2 => ~(h[k-2] /\ codes[k-2] \in T!Extended /\ codes[k-1] = 5)
Turns(h, to) == h = [k \in 1..to |-> Turn(h, k)]

LEMMA TurnsExist ==
  ASSUME NEW to \in Nat
  PROVE  \E h : Turns(h, to)
<1> DEFINE Good(t) == \E h : Turns(h, t)
           S == {t \in Nat : ~Good(t)}
<1> SUFFICES ASSUME ~Good(to) PROVE FALSE
  OBVIOUS
<1>0. to \in S
  OBVIOUS
<1>1. PICK t \in S : \A m \in S : t <= m
  BY <1>0, LeastNatural
<1>2. CASE t = 0
  <2>1. [k \in 1..0 |-> TRUE] = [k \in 1..0 |-> Turn([l \in 1..0 |-> TRUE], k)]
    OBVIOUS
  <2>2. Turns([k \in 1..0 |-> TRUE], t)
    BY <1>2, <2>1 DEF Turns
  <2> QED
    BY <2>2
<1>3. CASE t # 0
  <2>1. t - 1 \in Nat /\ t \in Nat
    BY <1>3
  <2>2. PICK h : Turns(h, t - 1)
    BY <1>1, <2>1
  <2> DEFINE g == [k \in 1..t |-> IF k < t THEN h[k] ELSE Turn(h, t)]
  <2>3. \A k \in 1..t-1 : g[k] = h[k]
    BY <2>1
  <2>4. ASSUME NEW k \in 1..t PROVE g[k] = Turn(g, k)
    <3>1. (k > 1 => g[k-1] = h[k-1]) /\ (k > 2 => g[k-2] = h[k-2])
      BY <2>1, <2>3
    <3>2. Turn(g, k) = Turn(h, k)
      <4> HIDE DEF g
      <4> QED
        BY <3>1 DEF Turn
    <3>3. CASE k = t
      BY <2>1, <3>2, <3>3
    <3>4. CASE k # t
      <4>1. k \in 1..t-1
        BY <2>1, <3>4
      <4>2. h[k] = Turn(h, k)
        BY <2>2, <4>1 DEF Turns
      <4> QED
        BY <2>3, <3>2, <4>1, <4>2
    <3> QED
      BY <3>3, <3>4
  <2>5. Turns(g, t)
    <3> DEFINE r == [k \in 1..t |-> Turn(g, k)]
    <3>1. \A k \in 1..t : g[k] = r[k]
      BY <2>4
    <3>2. g = [k \in 1..t |-> g[k]] /\ r = [k \in 1..t |-> r[k]]
      OBVIOUS
    <3> HIDE DEF g
    <3>3. r = [k \in 1..t |-> r[k]]
      OBVIOUS
    <3>4. g = r
      BY <3>1, <3>2, <3>3
    <3> QED
      BY <3>4 DEF Turns
  <2> QED
    BY <2>5
<1> QED
  BY <1>2, <1>3

LEMMA BeginsIsTurn ==
  ASSUME codes \in Seq(Nat), NEW k \in DOMAIN codes
  PROVE  T!Begins[k] = Turn(T!Begins, k)
<1>1. Len(codes) \in Nat /\ DOMAIN codes = 1..Len(codes)
  OBVIOUS
<1>2. T!Begins = CHOOSE h : Turns(h, Len(codes))
  BY <1>1 DEF T!Begins, Turns, Turn
<1>3. Turns(T!Begins, Len(codes))
  BY <1>1, <1>2, TurnsExist
<1> QED
  BY <1>1, <1>3 DEF Turns
-----------------------------------------------------------------------------
(* The commands are those of which none of the two codes before takes the  *)
(* code as an argument.                                                    *)
LEMMA CommandsAre ==
  ASSUME codes \in Seq(Nat), NEW k \in 1..Len(codes)
  PROVE  k \in T!Commands <=>
           /\ ~(k - 1 \in T!Commands /\ codes[k-1] \in T!Extended)
           /\ ~(k - 2 \in T!Commands /\ codes[k-2] \in T!Extended /\ codes[k-1] = 5)
<1>1. Len(codes) \in Nat /\ DOMAIN codes = 1..Len(codes)
  OBVIOUS
<1>2. T!Begins[k] = Turn(T!Begins, k)
  BY <1>1, BeginsIsTurn
<1>3. \A j : j \in T!Commands <=> j \in 1..Len(codes) /\ T!Begins[j]
  BY <1>1, Zenon DEF T!Commands
<1>4. (k > 1 <=> k - 1 \in 1..Len(codes)) /\ (k > 2 <=> k - 2 \in 1..Len(codes))
  BY <1>1
<1> QED
  BY <1>2, <1>3, <1>4, Zenon DEF Turn

(* The colors whose arguments are missing.                                 *)
Lacking ==
  {k \in T!Commands : codes[k] \in T!Extended /\ (k = Len(codes) \/ (codes[k+1] = 5 /\ k + 1 = Len(codes)))}

LastRead == IF T!Code(sc) \in {38, 48} THEN T!ColorAt ELSE sc

(* From one command the loop goes to the next, or, if its arguments are    *)
(* missing, beyond the end.                                                *)
LEMMA NextBegins ==
  ASSUME codes \in Seq(Nat), sc \in T!Commands
  PROVE  /\ sc \in Nat /\ sc > 0 /\ sc <= Len(codes) /\ LastRead \in Nat /\ sc <= LastRead
         /\ LastRead > Len(codes) => sc \in Lacking
         /\ LastRead <= Len(codes) => sc \notin Lacking
         /\ LastRead + 1 <= Len(codes) => LastRead + 1 \in T!Commands
         /\ \A k \in T!Commands : sc < k => LastRead < k
<1>1. Len(codes) \in Nat /\ DOMAIN codes = 1..Len(codes) /\ \A k \in DOMAIN codes : codes[k] \in Nat
  OBVIOUS
<1>2. T!Commands \subseteq 1..Len(codes) /\ sc \in 1..Len(codes)
  BY <1>1 DEF T!Commands
<1>0. sc \in Nat /\ Len(codes) \in Nat /\ sc <= Len(codes)
  BY <1>1, <1>2
<1>3. \A k \in 1..Len(codes) :
        k \in T!Commands <=>
          /\ ~(k - 1 \in T!Commands /\ codes[k-1] \in T!Extended)
          /\ ~(k - 2 \in T!Commands /\ codes[k-2] \in T!Extended /\ codes[k-1] = 5)
  BY CommandsAre
<1>4. T!Code(sc) = codes[sc]
  BY <1>1, <1>2 DEF T!Code
<1>5. sc \in Lacking <=> /\ codes[sc] \in T!Extended
                         /\ sc = Len(codes) \/ (codes[sc+1] = 5 /\ sc + 1 = Len(codes))
  BY DEF Lacking
<1>6. (sc + 1) - 1 = sc /\ (sc + 1) - 2 = sc - 1 /\ (sc + 2) - 1 = sc + 1 /\ (sc + 2) - 2 = sc
      /\ (sc + 3) - 1 = sc + 2 /\ (sc + 3) - 2 = sc + 1
      /\ \A j \in 1..3 : sc + j \in 1..Len(codes) <=> sc + j <= Len(codes)
  BY <1>1, <1>2
<1>7. CASE codes[sc] \notin T!Extended
  <2>1. LastRead = sc
    BY <1>4, <1>7 DEF LastRead, T!Extended
  <2>2. sc \notin Lacking
    BY <1>5, <1>7
  <2>3. ASSUME sc + 1 <= Len(codes) PROVE sc + 1 \in T!Commands
    <3>1. ~(sc - 1 \in T!Commands /\ codes[sc-1] \in T!Extended)
      BY <1>2, <1>3
    <3> QED
      BY <1>3, <1>6, <1>7, <2>3, <3>1
  <2> QED
    BY <1>1, <1>2, <2>1, <2>2, <2>3
<1>8. CASE codes[sc] \in T!Extended /\ T!Code(sc + 1) = 5
  <2>1. LastRead = sc + 2
    BY <1>4, <1>8 DEF LastRead, T!ColorAt, T!Extended
  <2>2. sc + 1 <= Len(codes) /\ codes[sc+1] = 5
    BY <1>1, <1>2, <1>8 DEF T!Code
  <2>3. (sc \in Lacking => sc + 1 = Len(codes)) /\ (sc + 1 = Len(codes) => sc \in Lacking)
    <3>1. sc # Len(codes)
      BY <1>0, <2>2
    <3> QED
      BY <1>5, <1>8, <2>2, <3>1, Zenon
  <2>4. sc + 1 \notin T!Commands
    BY <1>3, <1>6, <1>8, <2>2
  <2>5. ASSUME sc + 2 <= Len(codes) PROVE sc + 2 \notin T!Commands
    BY <1>3, <1>6, <1>8, <2>2, <2>5
  <2>6. ASSUME sc + 3 <= Len(codes) PROVE sc + 3 \in T!Commands
    <3>1. sc + 2 <= Len(codes)
      BY <1>1, <1>2, <2>6
    <3> QED
      BY <1>3, <1>6, <2>4, <2>5, <2>6, <3>1
  <2>7. \A k \in 1..Len(codes) : sc < k => k = sc + 1 \/ (k = sc + 2 /\ sc + 2 <= Len(codes)) \/ sc + 2 < k
    BY <1>2
  <2>8. \A k \in T!Commands : sc < k => sc + 2 < k
    BY <1>2, <2>4, <2>5, <2>7
  <2>9. (sc + 2 > Len(codes) => sc \in Lacking) /\ (sc + 2 <= Len(codes) => sc \notin Lacking)
    <3>1. (sc + 2 > Len(codes) => sc + 1 = Len(codes)) /\ (sc + 2 <= Len(codes) => sc + 1 # Len(codes))
      BY <1>0, <2>2
    <3> QED
      BY <2>3, <3>1, Zenon
  <2>10. sc + 2 + 1 = sc + 3
    BY <1>2
  <2> QED
    BY <1>2, <2>1, <2>6, <2>8, <2>9, <2>10
<1>9. CASE codes[sc] \in T!Extended /\ T!Code(sc + 1) # 5
  <2>1. LastRead = sc + 1
    BY <1>4, <1>9 DEF LastRead, T!ColorAt, T!Extended
  <2>2. sc + 1 <= Len(codes) => codes[sc+1] # 5
    BY <1>1, <1>2, <1>9 DEF T!Code
  <2>3. (sc \in Lacking => sc = Len(codes)) /\ (sc = Len(codes) => sc \in Lacking)
    <3>1. sc + 1 = Len(codes) => codes[sc+1] # 5
      BY <1>1, <1>2, <2>2
    <3> QED
      BY <1>5, <1>9, <3>1, Zenon
  <2>4. ASSUME sc + 1 <= Len(codes) PROVE sc + 1 \notin T!Commands
    BY <1>3, <1>6, <1>9, <2>4
  <2>5. ASSUME sc + 2 <= Len(codes) PROVE sc + 2 \in T!Commands
    <3>1. sc + 1 <= Len(codes)
      BY <1>1, <1>2, <2>5
    <3> QED
      BY <1>3, <1>6, <2>2, <2>4, <2>5, <3>1
  <2>6. \A k \in 1..Len(codes) : sc < k => (k = sc + 1 /\ sc + 1 <= Len(codes)) \/ sc + 1 < k
    BY <1>2
  <2>7. \A k \in T!Commands : sc < k => sc + 1 < k
    BY <1>2, <2>4, <2>6
  <2>8. (sc + 1 > Len(codes) => sc \in Lacking) /\ (sc + 1 <= Len(codes) => sc \notin Lacking)
    <3>1. (sc + 1 > Len(codes) => sc = Len(codes)) /\ (sc + 1 <= Len(codes) => sc # Len(codes))
      BY <1>0
    <3> QED
      BY <2>3, <3>1, Zenon
  <2>9. sc + 1 + 1 = sc + 2
    BY <1>2
  <2> QED
    BY <1>2, <2>1, <2>5, <2>7, <2>8, <2>9
<1> QED
  BY <1>7, <1>8, <1>9
-----------------------------------------------------------------------------
(* The last of some commands decides a color, or an attribute; if there    *)
(* are none it is what it was.                                             *)
ColorValue(base, extended, k) ==
  IF codes[k] \in {0, base + 9} THEN -1
  ELSE IF codes[k] = extended THEN T!Short(codes[k+2]) ELSE codes[k] - base

ColorDecided(S, base, extended, value, otherwise) ==
  \/ S = {} /\ value = otherwise
  \/ \E k \in S : (\A j \in S : j <= k) /\ value = ColorValue(base, extended, k)

About(a) == {k \in T!Commands : a \in T!On(codes[k]) \cup T!Off(codes[k])}

AttributeDecided(a, S) ==
  \/ S = {} /\ (a \in term.attrs <=> a \in old.attrs)
  \/ \E k \in S : (\A j \in S : j <= k) /\ (a \in term.attrs <=> a \in T!On(codes[k]))

LEMMA LatestIs ==
  ASSUME NEW S \in SUBSET Nat, NEW k \in S, \A j \in S : j <= k
  PROVE  (CHOOSE l \in S : \A j \in S : j <= l) = k
<1> DEFINE l0 == CHOOSE l \in S : \A j \in S : j <= l
<1>1. l0 \in S /\ \A j \in S : j <= l0
  OBVIOUS
<1> HIDE DEF l0
<1>2. l0 <= k /\ k <= l0 /\ l0 \in Nat /\ k \in Nat
  BY <1>1
<1> QED
  BY <1>2 DEF l0

LEMMA LastColorIs ==
  ASSUME codes \in Seq(Nat), NEW base, NEW extended, NEW value, NEW otherwise,
         ColorDecided(T!SetsColor(base, extended), base, extended, value, otherwise)
  PROVE  T!LastColor(base, extended, otherwise) = value
<1> DEFINE S == T!SetsColor(base, extended)
<1>1. S \in SUBSET Nat
  BY DEF T!SetsColor, T!Commands
<1>2. T!LastColor(base, extended, otherwise) =
        IF S = {} THEN otherwise
        ELSE ColorValue(base, extended, CHOOSE l \in S : \A j \in S : j <= l)
  BY DEF T!LastColor, T!Latest, ColorValue
<1> HIDE DEF S
<1>3. CASE S = {}
  BY <1>2, <1>3 DEF ColorDecided, S
<1>4. CASE S # {}
  <2>1. PICK k \in S : (\A j \in S : j <= k) /\ value = ColorValue(base, extended, k)
    BY <1>4 DEF ColorDecided, S
  <2>2. (CHOOSE l \in S : \A j \in S : j <= l) = k
    BY <1>1, <2>1, LatestIs
  <2> QED
    BY <1>2, <1>4, <2>1, <2>2
<1> QED
  BY <1>3, <1>4

LEMMA LastAttributeIs ==
  ASSUME codes \in Seq(Nat), NEW a, AttributeDecided(a, About(a))
  PROVE  T!LastAttribute(a) <=> a \in term.attrs
<1> DEFINE S == About(a)
<1>1. S \in SUBSET Nat
  BY DEF About, T!Commands
<1>2. T!LastAttribute(a) <=>
        IF S = {} THEN a \in old.attrs
        ELSE a \in T!On(codes[CHOOSE l \in S : \A j \in S : j <= l])
  BY Zenon DEF T!LastAttribute, T!Latest, About
<1> HIDE DEF S
<1>3. CASE S = {}
  BY <1>2, <1>3, Zenon DEF AttributeDecided, S
<1>4. CASE S # {}
  <2>1. PICK k \in S : (\A j \in S : j <= k) /\ (a \in term.attrs <=> a \in T!On(codes[k]))
    BY <1>4 DEF AttributeDecided, S
  <2>2. (CHOOSE l \in S : \A j \in S : j <= l) = k
    BY <1>1, <2>1, LatestIs
  <2> QED
    BY <1>2, <1>4, <2>1, <2>2, Zenon
<1> QED
  BY <1>3, <1>4

(* A code that begins a command sets the color if it is about it.          *)
LEMMA ColorStep ==
  ASSUME codes \in Seq(Nat), sc \in T!Commands, NEW base \in Nat \ {0}, NEW extended,
         extended = base + 8, NEW current, NEW otherwise,
         ColorDecided({k \in T!SetsColor(base, extended) : k < sc}, base, extended, current, otherwise)
  PROVE  ColorDecided({k \in T!SetsColor(base, extended) : k <= sc}, base, extended,
                      T!Color(base, extended, current), otherwise)
<1> DEFINE S == T!SetsColor(base, extended)
           before == {k \in S : k < sc}
           now == {k \in S : k <= sc}
           x == T!Color(base, extended, current)
<1>1. Len(codes) \in Nat /\ DOMAIN codes = 1..Len(codes) /\ \A k \in DOMAIN codes : codes[k] \in Nat
  OBVIOUS
<1>2. sc \in Nat /\ sc \in DOMAIN codes /\ S \in SUBSET Nat
  BY DEF T!Commands, T!SetsColor
<1>3. \A k \in DOMAIN codes : T!Code(k) = codes[k] /\ T!Code(k) # -1
  BY <1>1 DEF T!Code
<1>4. \A k \in Nat : k >= sc /\ k \notin DOMAIN codes => T!Code(k) = -1
  BY <1>1, <1>2 DEF T!Code
<1>5. CASE sc \in S
  <2>1. x = ColorValue(base, extended, sc)
    <3>1. CASE codes[sc] \in {0, base + 9}
      BY <1>2, <1>3, <3>1 DEF T!Color, ColorValue
    <3>2. CASE codes[sc] \in base..base+7
      BY <1>1, <1>2, <1>3, <3>2 DEF T!Color, ColorValue
    <3>3. CASE codes[sc] = extended /\ sc + 2 \in DOMAIN codes /\ codes[sc+1] = 5
      <4>1. sc + 1 \in DOMAIN codes /\ T!Code(sc + 1) = 5 /\ T!Code(sc + 2) = codes[sc+2] /\ T!Code(sc + 2) # -1
        <5>1. sc + 1 \in DOMAIN codes
          <6>1. sc + 2 <= Len(codes)
            BY <1>1, <3>3
          <6> QED
            BY <1>1, <1>2, <6>1
        <5> QED
          BY <1>3, <3>3, <5>1
      <4>2. T!Code(sc) = extended /\ extended # 0 /\ extended # base + 9 /\ extended \notin base..base+7
        BY <1>2, <1>3, <3>3
      <4> QED
        BY <3>3, <4>1, <4>2 DEF T!Color, ColorValue
    <3> QED
      BY <1>5, <3>1, <3>2, <3>3 DEF T!SetsColor
  <2>2. sc \in now /\ \A j \in now : j <= sc
    BY <1>2, <1>5
  <2> HIDE DEF now, x
  <2> QED
    BY <2>1, <2>2 DEF ColorDecided, x, now, S
<1>6. CASE sc \notin S
  <2>1. now = before
    BY <1>2, <1>6
  <2>2. x = current
    <3>1. /\ codes[sc] # 0 /\ codes[sc] # base + 9 /\ codes[sc] \notin base..base+7
          /\ ~(codes[sc] = extended /\ sc + 2 \in DOMAIN codes /\ codes[sc+1] = 5)
      BY <1>6 DEF T!SetsColor
    <3>2. ~(T!Code(sc) = extended /\ T!Code(sc + 1) = 5 /\ T!Code(sc + 2) # -1)
      <4> SUFFICES ASSUME T!Code(sc) = extended, T!Code(sc + 1) = 5, T!Code(sc + 2) # -1 PROVE FALSE
        OBVIOUS
      <4>1. sc + 2 \in DOMAIN codes
        BY <1>2, <1>4
      <4>2. sc + 1 \in DOMAIN codes
        BY <1>1, <1>2, <4>1
      <4> QED
        BY <1>2, <1>3, <3>1, <4>1, <4>2
    <3> QED
      BY <1>2, <1>3, <3>1, <3>2 DEF T!Color
  <2> QED
    BY <2>1, <2>2
<1> QED
  BY <1>5, <1>6
-----------------------------------------------------------------------------
StyleTypes ==
  /\ term \in [fg : Int, bg : Int, attrs : SUBSET T!Attributes]
  /\ newFg \in Int /\ newBg \in Int
  /\ codes \in Seq(Nat) /\ sc \in Nat

Collecting ==
  termPc = "parts" => sc = 0 /\ term = old /\ newFg = term.fg /\ newBg = term.bg

(* At each turn the cursor is where a command begins, or beyond the end,   *)
(* and the commands before it have had their say.                          *)
Decided ==
  /\ sc <= Len(codes) => sc \in T!Commands
  /\ \A k \in Lacking : ~(k < sc)
  /\ ColorDecided({k \in T!SetsColor(30, 38) : k < sc}, 30, 38, newFg, old.fg)
  /\ ColorDecided({k \in T!SetsColor(40, 48) : k < sc}, 40, 48, newBg, old.bg)
  /\ \A a \in T!Attributes : AttributeDecided(a, {k \in About(a) : k < sc})

GoneThrough ==
  termPc = "codes" =>
    /\ sc > 0
    /\ codes = <<>> => term.attrs = {} /\ newFg = -1 /\ newBg = -1
    /\ codes # <<>> => Decided

StyleInv == StyleTypes /\ Collecting /\ GoneThrough /\ T!LastCommandDecides

LEMMA TruncatedIs == codes \in Seq(Nat) => (T!Truncated <=> Lacking # {})
BY DEF T!Truncated, Lacking

LEMMA NextCodeKeeps ==
  ASSUME CodeRange \in Nat, StyleInv, T!NextCode
  PROVE  StyleInv'
<1>1. /\ termPc = "codes" /\ sc <= Len(codes)
      /\ term' = [term EXCEPT !.attrs = (@ \ T!Off(T!Code(sc))) \cup T!On(T!Code(sc))]
      /\ newFg' = T!Color(30, 38, newFg) /\ newBg' = T!Color(40, 48, newBg)
      /\ sc' = LastRead + 1 /\ termPc' = (IF LastRead > Len(codes) THEN "crashed" ELSE termPc)
      /\ old' = old /\ codes' = codes
  BY DEF T!NextCode, LastRead
<1>2. StyleTypes /\ sc > 0 /\ (codes # <<>> => Decided)
  BY <1>1 DEF StyleInv, GoneThrough
<1>3. codes \in Seq(Nat) /\ sc \in Nat /\ Len(codes) \in Nat /\ codes # <<>> /\ DOMAIN codes = 1..Len(codes)
  BY <1>1, <1>2 DEF StyleTypes
<1>4. Decided
  BY <1>2, <1>3
<1>5. sc \in T!Commands
  BY <1>1, <1>4 DEF Decided
<1>6. /\ LastRead \in Nat /\ sc <= LastRead
      /\ LastRead > Len(codes) => sc \in Lacking
      /\ LastRead <= Len(codes) => sc \notin Lacking
      /\ LastRead + 1 <= Len(codes) => LastRead + 1 \in T!Commands
      /\ \A k \in T!Commands : sc < k => LastRead < k
  BY <1>3, <1>5, NextBegins
<1>7. \A k \in T!Commands : k \in Nat /\ (k < LastRead + 1 <=> k <= sc)
  BY <1>3, <1>6 DEF T!Commands
<1>8. /\ \A b, e : T!SetsColor(b, e) \subseteq T!Commands
      /\ \A a : About(a) \subseteq T!Commands
      /\ Lacking \subseteq T!Commands
  BY DEF T!SetsColor, About, Lacking
<1>9. /\ \A b, e : {k \in T!SetsColor(b, e) : k < LastRead + 1} = {k \in T!SetsColor(b, e) : k <= sc}
      /\ \A a : {k \in About(a) : k < LastRead + 1} = {k \in About(a) : k <= sc}
  BY <1>7, <1>8
<1>10. StyleTypes'
  <2>1. term' \in [fg : Int, bg : Int, attrs : SUBSET T!Attributes]
    <3>1. T!Off(T!Code(sc)) \subseteq T!Attributes /\ T!On(T!Code(sc)) \subseteq T!Attributes
      BY DEF T!On, T!Off, T!Attributes
    <3>2. term \in [fg : Int, bg : Int, attrs : SUBSET T!Attributes]
      BY <1>2 DEF StyleTypes
    <3>3. (term.attrs \ T!Off(T!Code(sc))) \cup T!On(T!Code(sc)) \in SUBSET T!Attributes
      BY <3>1, <3>2
    <3>4. term' = [term EXCEPT !.attrs = (term.attrs \ T!Off(T!Code(sc))) \cup T!On(T!Code(sc))]
      BY <1>1
    <3> QED
      BY <3>2, <3>3, <3>4
  <2>2. ASSUME NEW b \in Nat, NEW e, NEW x \in Int PROVE T!Color(b, e, x) \in Int
    <3>1. \A k \in Nat \ {0} : T!Code(k) \in Int
      <4>1. \A k \in 1..Len(codes) : codes[k] \in Nat
        BY <1>3
      <4> QED
        BY <1>3, <4>1 DEF T!Code
    <3>2. \A y \in Int : T!Short(y) \in Int
      BY DEF T!Short
    <3>3. T!Code(sc) \in Int /\ T!Code(sc + 2) \in Int
      BY <1>2, <1>3, <3>1
    <3>4. T!Short(T!Code(sc + 2)) \in Int
      BY <3>2, <3>3
    <3> QED
      BY <3>3, <3>4 DEF T!Color
  <2>3. newFg' \in Int /\ newBg' \in Int
    BY <1>1, <1>2, <2>2 DEF StyleTypes
  <2> QED
    BY <1>1, <1>3, <1>6, <2>1, <2>3 DEF StyleTypes
<1>11. Collecting'
  BY <1>1 DEF Collecting
<1>12. T!LastCommandDecides'
  <2>1. termPc' = "crashed" => T!Truncated'
    <3> SUFFICES ASSUME termPc' = "crashed" PROVE T!Truncated'
      OBVIOUS
    <3>1. sc \in Lacking
      BY <1>1, <1>6
    <3>2. T!Truncated
      BY <1>3, <3>1, TruncatedIs
    <3>3. T!Truncated' = T!Truncated
      BY <1>1 DEF T!Truncated, T!Commands, T!Begins
    <3> QED
      BY <3>2, <3>3
  <2>2. termPc' # "done"
    BY <1>1
  <2> QED
    BY <2>1, <2>2 DEF T!LastCommandDecides
<1>13. ASSUME termPc' = "codes" PROVE Decided'
  <2>1. LastRead <= Len(codes)
    BY <1>1, <1>3, <1>6, <1>13
  <2>2. sc' <= Len(codes) => sc' \in T!Commands
    BY <1>1, <1>6
  <2>3. \A k \in Lacking : ~(k < sc')
    BY <1>1, <1>3, <1>4, <1>6, <1>7, <1>8, <2>1 DEF Decided
  <2>4. ColorDecided({k \in T!SetsColor(30, 38) : k < sc'}, 30, 38, newFg', old.fg)
    <3>1. ColorDecided({k \in T!SetsColor(30, 38) : k < sc}, 30, 38, newFg, old.fg)
      BY <1>4 DEF Decided
    <3>2. ColorDecided({k \in T!SetsColor(30, 38) : k <= sc}, 30, 38, T!Color(30, 38, newFg), old.fg)
      BY <1>3, <1>5, <3>1, ColorStep
    <3> QED
      BY <1>1, <1>9, <3>2
  <2>5. ColorDecided({k \in T!SetsColor(40, 48) : k < sc'}, 40, 48, newBg', old.bg)
    <3>1. ColorDecided({k \in T!SetsColor(40, 48) : k < sc}, 40, 48, newBg, old.bg)
      BY <1>4 DEF Decided
    <3>2. ColorDecided({k \in T!SetsColor(40, 48) : k <= sc}, 40, 48, T!Color(40, 48, newBg), old.bg)
      BY <1>3, <1>5, <3>1, ColorStep
    <3> QED
      BY <1>1, <1>9, <3>2
  <2>6. term'.attrs = (term.attrs \ T!Off(codes[sc])) \cup T!On(codes[sc])
    <3>1. T!Code(sc) = codes[sc]
      BY <1>1 DEF T!Code
    <3>2. term \in [fg : Int, bg : Int, attrs : SUBSET T!Attributes]
      BY <1>2 DEF StyleTypes
    <3> QED
      BY <1>1, <3>1, <3>2
  <2>7. ASSUME NEW a \in T!Attributes PROVE AttributeDecided(a, {k \in About(a) : k < sc})'
    <3> DEFINE now == {k \in About(a) : k <= sc}
               before == {k \in About(a) : k < sc}
    <3>1. {k \in About(a) : k < sc}' = now
      <4>1. About(a)' = About(a)
        BY <1>1 DEF About, T!Commands, T!Begins
      <4> QED
        BY <1>1, <1>9, <4>1
    <3>2. AttributeDecided(a, before)
      BY <1>4 DEF Decided
    <3>3. CASE sc \in About(a)
      <4>1. sc \in now /\ \A j \in now : j <= sc
        BY <1>3, <3>3
      <4>2. a \in term'.attrs <=> a \in T!On(codes[sc])
        BY <2>6, <3>3 DEF About
      <4> QED
        BY <1>1, <3>1, <4>1, <4>2 DEF AttributeDecided
    <3>4. CASE sc \notin About(a)
      <4>1. now = before
        BY <1>3, <1>7, <1>8, <3>4
      <4>2. a \in term'.attrs <=> a \in term.attrs
        BY <1>5, <2>6, <3>4 DEF About
      <4> QED
        BY <1>1, <3>1, <3>2, <4>1, <4>2 DEF AttributeDecided
    <3> QED
      BY <3>3, <3>4
  <2>8. T!Commands' = T!Commands /\ Lacking' = Lacking /\ \A b, e : T!SetsColor(b, e)' = T!SetsColor(b, e)
    BY <1>1 DEF T!Commands, T!Begins, Lacking, T!SetsColor
  <2>9. \A S, b, e, x, o : ColorDecided(S, b, e, x, o)' = ColorDecided(S, b, e, x, o)
    BY <1>1 DEF ColorDecided, ColorValue
  <2>10. Decided' <=>
           /\ sc' <= Len(codes) => sc' \in T!Commands
           /\ \A k \in Lacking : ~(k < sc')
           /\ ColorDecided({k \in T!SetsColor(30, 38) : k < sc'}, 30, 38, newFg', old.fg)
           /\ ColorDecided({k \in T!SetsColor(40, 48) : k < sc'}, 40, 48, newBg', old.bg)
           /\ \A a \in T!Attributes : AttributeDecided(a, {k \in About(a) : k < sc})'
    BY <1>1, <2>8 DEF Decided, ColorDecided, ColorValue, T!Commands, T!Begins, T!SetsColor
  <2> QED
    BY <2>2, <2>3, <2>4, <2>5, <2>7, <2>10
<1>14. GoneThrough'
  BY <1>1, <1>3, <1>6, <1>13 DEF GoneThrough
<1> QED
  BY <1>10, <1>11, <1>12, <1>14 DEF StyleInv

LEMMA FinishKeeps ==
  ASSUME StyleInv, T!Finish
  PROVE  StyleInv'
<1>1. /\ termPc = "codes" /\ sc > Len(codes) /\ termPc' = "done"
      /\ term' = [term EXCEPT !.fg = newFg, !.bg = newBg]
      /\ UNCHANGED <<old, newFg, newBg, codes, sc>>
  BY DEF T!Finish
<1>2. StyleTypes /\ sc > 0 /\ (codes = <<>> => term.attrs = {} /\ newFg = -1 /\ newBg = -1)
      /\ (codes # <<>> => Decided)
  BY <1>1 DEF StyleInv, GoneThrough
<1>3. codes \in Seq(Nat) /\ sc \in Nat /\ Len(codes) \in Nat /\ DOMAIN codes = 1..Len(codes)
      /\ term \in [fg : Int, bg : Int, attrs : SUBSET T!Attributes] /\ newFg \in Int /\ newBg \in Int
  BY <1>2 DEF StyleTypes
<1>4. term' \in [fg : Int, bg : Int, attrs : SUBSET T!Attributes]
      /\ term'.fg = newFg /\ term'.bg = newBg /\ term'.attrs = term.attrs
      /\ term' = [fg |-> term'.fg, bg |-> term'.bg, attrs |-> term'.attrs]
  BY <1>1, <1>3
<1>5. StyleTypes' /\ Collecting' /\ GoneThrough'
  BY <1>1, <1>2, <1>4 DEF StyleTypes, Collecting, GoneThrough
<1>6. CASE codes = <<>>
  <2>1. term' = T!Plain
    BY <1>2, <1>4, <1>6 DEF T!Plain
  <2>2. ~T!Truncated
    BY <1>6 DEF T!Truncated, T!Commands
  <2>3. ~T!Truncated'
    <3>1. T!Truncated' = T!Truncated
      BY <1>1 DEF T!Truncated, T!Commands, T!Begins
    <3> QED
      BY <2>2, <3>1, Zenon
  <2> QED
    BY <1>1, <1>5, <1>6, <2>1, <2>3 DEF StyleInv, T!LastCommandDecides
<1>7. CASE codes # <<>>
  <2>1. Decided
    BY <1>2, <1>7
  <2>2. \A k \in T!Commands : k < sc
    BY <1>1, <1>3 DEF T!Commands
  <2>3. /\ \A b, e : {k \in T!SetsColor(b, e) : k < sc} = T!SetsColor(b, e)
        /\ \A a : {k \in About(a) : k < sc} = About(a)
        /\ Lacking = {}
    BY <2>1, <2>2 DEF T!SetsColor, About, Lacking, Decided
  <2>4. T!LastColor(30, 38, old.fg) = newFg
    <3>1. ColorDecided(T!SetsColor(30, 38), 30, 38, newFg, old.fg)
      BY <2>1, <2>3 DEF Decided
    <3> QED
      BY <1>3, <3>1, LastColorIs
  <2>5. T!LastColor(40, 48, old.bg) = newBg
    <3>1. ColorDecided(T!SetsColor(40, 48), 40, 48, newBg, old.bg)
      BY <2>1, <2>3 DEF Decided
    <3> QED
      BY <1>3, <3>1, LastColorIs
  <2>6. ASSUME NEW a \in T!Attributes PROVE a \in term.attrs <=> T!LastAttribute(a)
    <3>1. AttributeDecided(a, About(a))
      BY <2>1, <2>3 DEF Decided
    <3> QED
      BY <1>3, <3>1, LastAttributeIs
  <2>7. ~T!Truncated
    BY <1>3, <2>3, TruncatedIs
  <2>8. /\ ~T!Truncated'
        /\ T!LastColor(30, 38, old.fg)' = T!LastColor(30, 38, old.fg)
        /\ T!LastColor(40, 48, old.bg)' = T!LastColor(40, 48, old.bg)
        /\ \A a : T!LastAttribute(a)' = T!LastAttribute(a)
    <3>1. ~T!Truncated'
      <4>1. T!Truncated' = T!Truncated
        BY <1>1 DEF T!Truncated, T!Commands, T!Begins
      <4> QED
        BY <2>7, <4>1, Zenon
    <3>2. T!LastColor(30, 38, old.fg)' = T!LastColor(30, 38, old.fg)
      BY <1>1 DEF T!LastColor, T!Latest, T!SetsColor, T!Commands, T!Begins
    <3>3. T!LastColor(40, 48, old.bg)' = T!LastColor(40, 48, old.bg)
      BY <1>1 DEF T!LastColor, T!Latest, T!SetsColor, T!Commands, T!Begins
    <3>4. \A a : T!LastAttribute(a)' = T!LastAttribute(a)
      BY <1>1 DEF T!LastAttribute, T!Latest, T!Commands, T!Begins
    <3> QED
      BY <3>1, <3>2, <3>3, <3>4
  <2>9. \A a \in T!Attributes : a \in term'.attrs <=> T!LastAttribute(a)'
    BY <1>4, <2>6, <2>8
  <2> QED
    BY <1>1, <1>4, <1>5, <1>7, <2>4, <2>5, <2>8, <2>9 DEF StyleInv, T!LastCommandDecides
<1> QED
  BY <1>6, <1>7

LEMMA InitStyle == T!Init => StyleInv
<1> SUFFICES ASSUME T!Init PROVE StyleInv
  OBVIOUS
<1>1. <<>> \in Seq(Nat) /\ T!Plain \in [fg : Int, bg : Int, attrs : SUBSET T!Attributes]
  BY DEF T!Plain, T!Attributes
<1> QED
  BY <1>1 DEF T!Init, StyleInv, StyleTypes, Collecting, GoneThrough, T!LastCommandDecides

LEMMA NextStyle == T!ConstantsOK /\ StyleInv /\ [T!Next]_(T!vars) => StyleInv'
<1> SUFFICES ASSUME T!ConstantsOK, StyleInv, [T!Next]_(T!vars) PROVE StyleInv'
  OBVIOUS
<1>0. StyleTypes /\ Collecting /\ GoneThrough /\ T!LastCommandDecides
      /\ Params \subseteq Nat /\ CodeRange \in Nat \ {0}
  BY DEF StyleInv, T!ConstantsOK
<1>1. CASE T!Begin
  <2>1. /\ termPc' = "parts" /\ old' = term /\ newFg' = term.fg /\ newBg' = term.bg
        /\ codes' = <<>> /\ sc' = 0 /\ term' = term
    BY <1>1 DEF T!Begin
  <2>2. StyleTypes'
    <3>1. <<>> \in Seq(Nat) /\ term.fg \in Int /\ term.bg \in Int
      BY <1>0 DEF StyleTypes
    <3> QED
      BY <1>0, <2>1, <3>1 DEF StyleTypes
  <2> QED
    BY <2>1, <2>2 DEF StyleInv, Collecting, GoneThrough, T!LastCommandDecides
<1>2. ASSUME NEW param \in Params, T!SgrCodesAdd(param) PROVE StyleInv'
  <2>1. /\ termPc = "parts" /\ codes' = Append(codes, param % CodeRange)
        /\ UNCHANGED <<term, old, newFg, newBg, sc, termPc>>
    BY <1>2 DEF T!SgrCodesAdd
  <2>2. param % CodeRange \in Nat
    BY <1>0
  <2>3. codes' \in Seq(Nat)
    BY <1>0, <2>1, <2>2, AppendProperties DEF StyleTypes
  <2> QED
    BY <1>0, <2>1, <2>3 DEF StyleInv, StyleTypes, Collecting, GoneThrough, T!LastCommandDecides
<1>3. CASE T!Cleanup
  <2>1. /\ termPc = "parts" /\ termPc' = "done" /\ codes' = <<>> /\ old' = term
        /\ UNCHANGED <<term, newFg, newBg, sc>>
    BY <1>3 DEF T!Cleanup
  <2>2. <<>> \in Seq(Nat)
    OBVIOUS
  <2> QED
    BY <1>0, <2>1, <2>2 DEF StyleInv, StyleTypes, Collecting, GoneThrough, T!LastCommandDecides
<1>4. CASE T!EndOfParts
  <2>1. /\ termPc = "parts" /\ termPc' = "codes" /\ sc' = 1 /\ old' = old /\ codes' = codes
        /\ term = old /\ newFg = term.fg /\ newBg = term.bg
    BY <1>0, <1>4 DEF T!EndOfParts, Collecting
  <2>2. codes \in Seq(Nat) /\ term \in [fg : Int, bg : Int, attrs : SUBSET T!Attributes]
        /\ newFg \in Int /\ newBg \in Int
    BY <1>0 DEF StyleTypes
  <2>3. CASE codes = <<>>
    <3>1. term' = [term EXCEPT !.attrs = {}] /\ newFg' = -1 /\ newBg' = -1
      BY <1>4, <2>3 DEF T!EndOfParts
    <3>2. term' \in [fg : Int, bg : Int, attrs : SUBSET T!Attributes] /\ term'.attrs = {}
      BY <2>2, <3>1
    <3> QED
      BY <2>1, <2>2, <2>3, <3>1, <3>2 DEF StyleInv, StyleTypes, Collecting, GoneThrough, T!LastCommandDecides
  <2>4. CASE codes # <<>>
    <3>1. term' = term /\ newFg' = newFg /\ newBg' = newBg
      BY <1>4, <2>4 DEF T!EndOfParts
    <3>2. Len(codes) \in Nat /\ DOMAIN codes = 1..Len(codes) /\ Len(codes) >= 1
      BY <2>2, <2>4
    <3>3. 1 \in T!Commands
      <4>1. T!Commands \subseteq 1..Len(codes) /\ 1 \in 1..Len(codes)
        BY <3>2 DEF T!Commands
      <4>2. 1 - 1 \notin T!Commands /\ 1 - 2 \notin T!Commands
        BY <4>1
      <4> QED
        BY <2>2, <4>1, <4>2, CommandsAre
    <3>4. \A k \in T!Commands : ~(k < 1)
      BY <2>2, <3>2 DEF T!Commands
    <3>5. T!Commands' = T!Commands /\ Lacking' = Lacking /\ Lacking \subseteq T!Commands
      BY <2>1 DEF T!Commands, T!Begins, Lacking
    <3>6. /\ \A b, e : T!SetsColor(b, e)' = T!SetsColor(b, e) /\ {k \in T!SetsColor(b, e) : k < 1} = {}
          /\ \A a : About(a)' = About(a) /\ {k \in About(a) : k < 1} = {}
      BY <2>1, <3>4, <3>5 DEF T!SetsColor, About
    <3>7. Decided'
      <4>1. (sc <= Len(codes) => sc \in T!Commands)' /\ (\A k \in Lacking : ~(k < sc))'
        BY <2>1, <3>3, <3>4, <3>5
      <4>2. ColorDecided({}, 30, 38, newFg, old.fg) /\ ColorDecided({}, 40, 48, newBg, old.bg)
        BY <2>1 DEF ColorDecided
      <4>3. ColorDecided({k \in T!SetsColor(30, 38) : k < sc}, 30, 38, newFg, old.fg)'
        BY <2>1, <3>1, <3>6 DEF ColorDecided
      <4>4. ColorDecided({k \in T!SetsColor(40, 48) : k < sc}, 40, 48, newBg, old.bg)'
        BY <2>1, <3>1, <3>6 DEF ColorDecided
      <4>5. \A a \in T!Attributes : AttributeDecided(a, {k \in About(a) : k < sc})'
        BY <2>1, <3>1, <3>6 DEF AttributeDecided
      <4> QED
        BY <4>1, <4>3, <4>4, <4>5 DEF Decided
    <3>8. StyleTypes'
      BY <2>1, <2>2, <3>1 DEF StyleTypes
    <3> QED
      BY <2>1, <2>4, <3>7, <3>8 DEF StyleInv, Collecting, GoneThrough, T!LastCommandDecides
  <2> QED
    BY <2>3, <2>4
<1>5. CASE T!NextCode
  BY <1>0, <1>5, NextCodeKeeps
<1>6. CASE T!Finish
  BY <1>6, FinishKeeps
<1>7. CASE UNCHANGED T!vars
  <2>1. UNCHANGED <<term, old, newFg, newBg, codes, sc, termPc>>
    BY <1>7 DEF T!vars
  <2> QED
    <3>1. StyleTypes' /\ Collecting'
      BY <1>0, <2>1 DEF StyleTypes, Collecting
    <3>2. Decided' = Decided
      BY <2>1 DEF Decided, T!SetsColor, About, Lacking, T!Commands, T!Begins, ColorDecided, ColorValue,
                  AttributeDecided
    <3>3. GoneThrough'
      BY <1>0, <2>1, <3>2 DEF GoneThrough
    <3>4. T!LastCommandDecides'
      <4>1. T!Truncated' = T!Truncated
        BY <2>1 DEF T!Truncated, T!Commands, T!Begins
      <4>2. \A a : T!LastAttribute(a)' = T!LastAttribute(a)
        BY <2>1 DEF T!LastAttribute, T!Latest, T!Commands, T!Begins
      <4>3. T!LastColor(30, 38, old.fg)' = T!LastColor(30, 38, old.fg)
        BY <2>1 DEF T!LastColor, T!Latest, T!SetsColor, T!Commands, T!Begins
      <4>4. T!LastColor(40, 48, old.bg)' = T!LastColor(40, 48, old.bg)
        BY <2>1 DEF T!LastColor, T!Latest, T!SetsColor, T!Commands, T!Begins
      <4> QED
        BY <1>0, <2>1, <4>1, <4>2, <4>3, <4>4 DEF T!LastCommandDecides
    <3> QED
      BY <3>1, <3>3, <3>4 DEF StyleInv
<1> QED
  BY <1>1, <1>2, <1>3, <1>4, <1>5, <1>6, <1>7 DEF T!Next

(* For every sequence of codes, of any length: the last that is about a    *)
(* color or an attribute decides it, and a NULL is followed exactly where  *)
(* the last color's arguments are missing.                                 *)
THEOREM SequenceDecides == T!Spec => []LastCommandDecides
<1>1. T!ConstantsOK
  BY StagesAssumption
<1>2. StyleInv => LastCommandDecides
  BY DEF StyleInv, LastCommandDecides
<1> QED
  BY <1>1, <1>2, InitStyle, NextStyle, PTL DEF T!Spec
-----------------------------------------------------------------------------
AllBasic == \A s \in asked : P!Basic(s)

(* As long as only basic colors were asked for, a number stands for its    *)
(* two digits in base eight, and so no two styles have the same.           *)
PairsInv ==
  /\ pairs \subseteq 0..63 /\ colors \in [0..63 -> {P!Unset} \cup P!Style] /\ asked \subseteq P!Style
  /\ AllBasic =>
       /\ \A s \in asked : P!Pair(s[1], s[2]) \in pairs
       /\ \A fg, bg \in 0..7 :
            P!Pair(fg, bg) \in pairs /\ <<fg, bg>> # <<0, 0>> =>
              colors[P!Pair(fg, bg)] = <<fg, bg>>
-----------------------------------------------------------------------------
LEMMA InStyle ==
  ASSUME NEW fg \in Colors, NEW bg \in Colors
  PROVE  <<fg, bg>> \in P!Style /\ <<fg, bg>>[1] = fg /\ <<fg, bg>>[2] = bg
BY DEF P!Style

LEMMA StyleIsPair ==
  ASSUME NEW s \in P!Style
  PROVE  s = <<s[1], s[2]>> /\ s[1] \in Colors /\ s[2] \in Colors
BY DEF P!Style

LEMMA PairOfBasic ==
  ASSUME NEW fg \in 0..7, NEW bg \in 0..7
  PROVE  P!Pair(fg, bg) = 8 * fg + bg /\ P!Pair(fg, bg) \in 0..63
BY DEF P!Pair, P!Remainder

LEMMA PairsDiffer ==
  ASSUME NEW fg \in 0..7, NEW bg \in 0..7, NEW fh \in 0..7, NEW bh \in 0..7,
         P!Pair(fg, bg) = P!Pair(fh, bh)
  PROVE  fg = fh /\ bg = bh
BY PairOfBasic

LEMMA InitPairs == P!Init => PairsInv
BY DEF P!Init, PairsInv, AllBasic, P!Style

LEMMA NextPairs == P!ConstantsOK /\ PairsInv /\ [P!Next]_(P!vars) => PairsInv'
<1> SUFFICES ASSUME P!ConstantsOK, PairsInv, [P!Next]_(P!vars) PROVE PairsInv'
  OBVIOUS
<1>1. ASSUME NEW fg \in Colors, NEW bg \in Colors, P!ColorPairGet(fg, bg)
      PROVE  PairsInv'
  <2> DEFINE k == P!Pair(fg, bg)
  <2>1. asked' = asked \cup {<<fg, bg>>} /\ asked' \subseteq P!Style
    <3>1. asked' = asked \cup {<<fg, bg>>}
      BY <1>1 DEF P!ColorPairGet
    <3>2. asked \subseteq P!Style /\ <<fg, bg>> \in P!Style
      BY InStyle DEF PairsInv
    <3> QED
      BY <3>1, <3>2
  <2>2. \/ UNCHANGED <<pairs, colors>>
        \/ P!InitPair(k, fg, bg) /\ pairs' = pairs \cup ({k} \cap 0..63)
    BY <1>1 DEF P!ColorPairGet
  <2>3. pairs' \subseteq 0..63 /\ colors' \in [0..63 -> {P!Unset} \cup P!Style]
    <3>1. CASE UNCHANGED <<pairs, colors>>
      BY <3>1 DEF PairsInv
    <3>2. CASE P!InitPair(k, fg, bg) /\ pairs' = pairs \cup ({k} \cap 0..63)
      <4>1. pairs' \subseteq 0..63
        BY <3>2 DEF PairsInv
      <4>2. colors' = colors \/ colors' = [colors EXCEPT ![k] = <<fg, bg>>]
        BY <3>2 DEF P!InitPair
      <4>3. <<fg, bg>> \in {P!Unset} \cup P!Style
        BY InStyle
      <4>4. colors \in [0..63 -> {P!Unset} \cup P!Style]
        BY DEF PairsInv
      <4> HIDE DEF k
      <4>5. colors' \in [0..63 -> {P!Unset} \cup P!Style]
        BY <4>2, <4>3, <4>4
      <4> QED
        BY <4>1, <4>5
    <3> QED
      BY <2>2, <3>1, <3>2
  <2>4. AllBasic' => AllBasic /\ fg \in 0..7 /\ bg \in 0..7
    <3> SUFFICES ASSUME AllBasic' PROVE AllBasic /\ fg \in 0..7 /\ bg \in 0..7
      OBVIOUS
    <3>1. \A s \in asked' : s[1] \in 0..7 /\ s[2] \in 0..7
      BY DEF AllBasic, P!Basic
    <3>2. <<fg, bg>>[1] = fg /\ <<fg, bg>>[2] = bg
      BY InStyle
    <3> QED
      BY <2>1, <3>1, <3>2 DEF AllBasic, P!Basic
  <2>5. ASSUME AllBasic'
        PROVE  /\ \A s \in asked' : P!Pair(s[1], s[2]) \in pairs'
               /\ \A fh, bh \in 0..7 :
                    P!Pair(fh, bh) \in pairs' /\ <<fh, bh>> # <<0, 0>> =>
                      colors'[P!Pair(fh, bh)] = <<fh, bh>>
    <3>1. k = 8 * fg + bg /\ k \in 0..63
      BY <2>4, <2>5, PairOfBasic
    <3>2. \/ k \in pairs /\ UNCHANGED <<pairs, colors>>
          \/ P!InitPair(k, fg, bg) /\ pairs' = pairs \cup {k}
      <4>1. k \in Int /\ ~(k < 0) /\ {k} \cap 0..63 = {k}
        <5>1. k \in 0..63
          BY <3>1
        <5> HIDE DEF k
        <5>2. k \in Int /\ ~(k < 0)
          BY <5>1
        <5>3. {k} \cap 0..63 = {k}
          BY <5>1
        <5> QED
          BY <5>2, <5>3
      <4>2. \/ k < 0
            \/ k \in pairs /\ UNCHANGED <<pairs, colors>>
            \/ P!InitPair(k, fg, bg) /\ pairs' = pairs \cup ({k} \cap 0..63)
        BY <1>1 DEF P!ColorPairGet
      <4> HIDE DEF k
      <4> QED
        BY <4>1, <4>2
    <3>3. pairs \subseteq pairs' /\ k \in pairs'
      BY <3>2
    <3>4. \A s \in asked' : P!Pair(s[1], s[2]) \in pairs'
      <4>1. \A s \in asked : P!Pair(s[1], s[2]) \in pairs'
        BY <2>4, <2>5, <3>3 DEF PairsInv
      <4>2. P!Pair(<<fg, bg>>[1], <<fg, bg>>[2]) \in pairs'
        BY <3>3, InStyle
      <4> QED
        BY <2>1, <4>1, <4>2
    <3>5. ASSUME NEW fh \in 0..7, NEW bh \in 0..7,
                 P!Pair(fh, bh) \in pairs', <<fh, bh>> # <<0, 0>>
          PROVE  colors'[P!Pair(fh, bh)] = <<fh, bh>>
      <4>1. P!Pair(fh, bh) = 8 * fh + bh /\ P!Pair(fh, bh) \in 1..63
        BY <3>5, PairOfBasic
      <4>2. CASE P!Pair(fh, bh) = k
        <5>1. fh = fg /\ bh = bg
          BY <2>4, <2>5, <4>2, PairsDiffer
        <5>2. CASE k \in pairs /\ UNCHANGED <<pairs, colors>>
          BY <2>4, <2>5, <3>5, <4>2, <5>2 DEF PairsInv
        <5>3. CASE P!InitPair(k, fg, bg)
          <6>1. colors' = [colors EXCEPT ![k] = <<fg, bg>>] /\ k \in 0..63
            BY <4>1, <4>2, <5>3 DEF P!InitPair
          <6>2. DOMAIN colors = 0..63
            BY DEF PairsInv
          <6>3. colors'[k] = <<fg, bg>>
            BY <6>1, <6>2
          <6> QED
            BY <4>2, <5>1, <6>3
        <5> QED
          BY <3>2, <5>2, <5>3
      <4>3. CASE P!Pair(fh, bh) # k
        <5>1. P!Pair(fh, bh) \in pairs /\ colors'[P!Pair(fh, bh)] = colors[P!Pair(fh, bh)]
          BY <3>2, <3>5, <4>1, <4>3 DEF P!InitPair, PairsInv
        <5> QED
          BY <2>4, <2>5, <3>5, <5>1 DEF PairsInv
      <4> QED
        BY <4>2, <4>3
    <3> QED
      BY <3>4, <3>5
  <2> QED
    BY <2>1, <2>3, <2>5 DEF PairsInv
<1>2. CASE UNCHANGED P!vars
  BY <1>2 DEF P!vars, PairsInv, AllBasic
<1> QED
  BY <1>1, <1>2 DEF P!Next

(* However many styles were drawn before, a style of the basic colors is   *)
(* drawn in its own, unless a color beyond those was asked for.            *)
THEOREM BasicColors == P!Spec => []BasicColorsAreShown
<1>0. P!ConstantsOK
  BY StagesAssumption
<1>1. PairsInv => BasicColorsAreShown
  <2> SUFFICES ASSUME PairsInv, AllBasic, NEW s \in asked \ {<<0, 0>>}
               PROVE  colors[P!Pair(s[1], s[2])] = s
    BY DEF BasicColorsAreShown, P!BasicColorsAreShown, AllBasic
  <2>1. s = <<s[1], s[2]>> /\ s[1] \in 0..7 /\ s[2] \in 0..7
    BY StyleIsPair DEF PairsInv, AllBasic, P!Basic
  <2> QED
    BY <2>1 DEF PairsInv
<1> QED
  BY <1>0, <1>1, InitPairs, NextPairs, PTL DEF P!Spec
-----------------------------------------------------------------------------
LineTypes ==
  /\ boxWidth \in BoxWidths /\ maxWidth \in Nat
  /\ bytes \in Nat /\ width \in Nat /\ columns \in Nat /\ n \in Nat
  /\ drawPc \in {"next", "span", "drawn"} /\ cut \in {"no", "full", "wide", "bad"}
  /\ odd \in BOOLEAN /\ spansAfter \in BOOLEAN

(* What is left is right as long as bytes are columns, and a span is drawn *)
(* in what is left.                                                        *)
LeftInv ==
  boxWidth >= 0 =>
    /\ ~odd => bytes = width
    /\ drawPc = "next" => width = 0 /\ bytes = 0
    /\ drawPc # "next" => width <= maxWidth /\ maxWidth > 0
    /\ drawPc = "next" /\ ~odd => columns + maxWidth = boxWidth
    /\ drawPc = "next" /\ ~spansAfter => columns <= boxWidth
    /\ drawPc # "next" /\ ~spansAfter => columns + maxWidth = boxWidth
    /\ spansAfter => odd

CutInv ==
  boxWidth >= 0 /\ cut = "full" /\ ~odd =>
    /\ drawPc # "span"
    /\ maxWidth = width

LineInv == LineTypes /\ LeftInv /\ CutInv
-----------------------------------------------------------------------------
LEMMA InitLine == D!ConstantsOK /\ D!Init => LineInv
<1> SUFFICES ASSUME D!ConstantsOK, D!Init PROVE LineInv
  OBVIOUS
<1>1. boxWidth \in Int /\ boxWidth < CodeRange /\ CodeRange \in Nat \ {0}
  BY DEF D!ConstantsOK, D!Init
<1>2. maxWidth \in Nat /\ (boxWidth >= 0 => maxWidth = boxWidth)
  BY <1>1 DEF D!Init
<1>3. LineTypes
  BY <1>2 DEF D!Init, LineTypes
<1>4. LeftInv
  BY <1>1, <1>2 DEF D!Init, LeftInv
<1>5. CutInv
  BY DEF D!Init, CutInv
<1> QED
  BY <1>3, <1>4, <1>5 DEF LineInv

LEMMA NextLine == D!ConstantsOK /\ LineInv /\ [D!Next]_(D!vars) => LineInv'
<1> SUFFICES ASSUME D!ConstantsOK, LineInv, [D!Next]_(D!vars) PROVE LineInv'
  OBVIOUS
<1> USE DEF LineInv
<1>0. boxWidth \in Int /\ CodeRange \in Nat \ {0}
  BY DEF LineTypes, D!ConstantsOK
<1>1. CASE D!NextSpan
  BY <1>0, <1>1 DEF D!NextSpan, LineTypes, LeftInv, CutInv
<1>2. CASE D!SubtractBytes
  <2>1. maxWidth' \in Nat
    BY <1>0, <1>2 DEF D!SubtractBytes, LineTypes
  <2>2. bytes <= maxWidth /\ maxWidth < CodeRange => maxWidth' = maxWidth - bytes
    BY <1>0, <1>2 DEF D!SubtractBytes, LineTypes
  <2>3. boxWidth >= 0 /\ ~odd => bytes <= maxWidth /\ maxWidth < CodeRange
    BY <1>0, <1>2 DEF D!SubtractBytes, LineTypes, LeftInv, D!ConstantsOK
  <2>4. LineTypes'
    BY <1>2, <2>1 DEF D!SubtractBytes, LineTypes
  <2>5. LeftInv'
    BY <1>0, <1>2, <2>1, <2>2, <2>3 DEF D!SubtractBytes, LineTypes, LeftInv
  <2>6. CutInv'
    BY <1>0, <1>2, <2>1, <2>2, <2>3 DEF D!SubtractBytes, LineTypes, LeftInv, CutInv
  <2> QED
    BY <2>4, <2>5, <2>6
<1>3. ASSUME NEW c \in Chars, D!TakeChar(c) PROVE LineInv'
  <2>1. c.bytes \in Nat \ {0} /\ c.width \in Nat
    BY DEF D!ConstantsOK
  <2>2. LineTypes'
    BY <1>3, <2>1 DEF D!TakeChar, LineTypes
  <2>3. boxWidth >= 0 => width' <= maxWidth
    BY <1>0, <1>3, <2>1 DEF D!TakeChar, D!Fits, LineTypes, LeftInv
  <2>4. ~odd' => ~odd /\ c.bytes = 1 /\ c.width = 1
    BY <1>3 DEF D!TakeChar, D!Letter, LineTypes
  <2>5. LeftInv'
    BY <1>0, <1>3, <2>1, <2>3, <2>4 DEF D!TakeChar, LineTypes, LeftInv
  <2>6. CutInv'
    BY <1>3, <2>4 DEF D!TakeChar, CutInv
  <2> QED
    BY <2>2, <2>5, <2>6
<1>4. ASSUME NEW why \in {"no", "full", "wide", "bad"}, D!LeaveSpan(why) PROVE LineInv'
  <2>1. why = "full" => width + 1 > maxWidth
    BY <1>4 DEF D!LeaveSpan, D!Fits, D!Letter
  <2> QED
    BY <1>0, <1>4, <2>1 DEF D!LeaveSpan, LineTypes, LeftInv, CutInv
<1>5. CASE UNCHANGED D!vars
  BY <1>5 DEF D!vars, LineTypes, LeftInv, CutInv
<1> QED
  BY <1>1, <1>2, <1>3, <1>4, <1>5 DEF D!Next

(* A line stays in a box of any width, as long as no span follows one with *)
(* a character that is not a byte in a column; and fills it when it is cut. *)
THEOREM LineStaysInBox == D!Spec => []StaysInBox
<1>0. D!ConstantsOK
  BY StagesAssumption
<1>1. LineInv => StaysInBox
  <2> SUFFICES ASSUME LineInv, boxWidth >= 0
               PROVE  /\ ~spansAfter => columns <= boxWidth
                      /\ drawPc = "next" /\ cut = "full" /\ ~odd => columns = boxWidth
    BY DEF StaysInBox, D!StaysInBox
  <2>1. boxWidth \in Int
    BY <1>0 DEF LineInv, LineTypes, D!ConstantsOK
  <2> QED
    BY <2>1 DEF LineInv, LineTypes, LeftInv, CutInv
<1> QED
  BY <1>0, <1>1, InitLine, NextLine, PTL DEF D!Spec
-----------------------------------------------------------------------------
(* A high surrogate that is kept has made room for what it becomes: its    *)
(* three bytes are read and not yet written.                               *)
FitsWithRoom ==
  /\ hs \in {0} \cup C!Highs /\ read \in Nat /\ written \in Nat
  /\ written + (IF hs = 0 THEN 0 ELSE 3) <= read

FitsOrPast == past \/ FitsWithRoom

(* Nothing follows once the loop is past the end.                          *)
LEMMA PastIsLast == past /\ [C!Next]_(C!vars) => past'
BY Zenon DEF C!Next, C!vars, C!CopyOther, C!KeepHigh, C!Join, C!CopyLong, C!Takes, C!RunPast

LEMMA NextString == C!ConstantsOK /\ FitsOrPast /\ [C!Next]_(C!vars) => FitsOrPast'
<1> SUFFICES ASSUME C!ConstantsOK, FitsWithRoom, [C!Next]_(C!vars) PROVE FitsOrPast'
  BY Zenon, PastIsLast DEF FitsOrPast
<1>0. ASSUME NEW c \in Units PROVE c \in Nat
  BY DEF C!ConstantsOK
<1>1. ASSUME NEW c \in Units, C!CopyOther(c) PROVE FitsWithRoom'
  <2>1. c \in Nat /\ C!Bytes(c) \in {1, 2, 4}
    BY SMT, <1>0, <1>1 DEF C!CopyOther, C!Bytes
  <2>2. hs' = hs /\ read' = read + C!Bytes(c) /\ written' = written + C!Bytes(c)
    BY <1>1 DEF C!CopyOther, C!Takes, C!Writes
  <2> QED
    BY SMT, <2>1, <2>2 DEF FitsWithRoom
<1>2. ASSUME NEW c \in Units, C!KeepHigh(c) PROVE FitsWithRoom'
  <2>1. c \in C!Highs /\ C!Bytes(c) = 3
    BY SMT, <1>2 DEF C!KeepHigh, C!Bytes, C!Highs
  <2>2. hs = 0 /\ hs' = c /\ read' = read + 3 /\ written' = written
    BY SMT, <1>2, <2>1 DEF C!KeepHigh, C!Takes
  <2> QED
    BY SMT, <2>1, <2>2 DEF FitsWithRoom, C!Highs
<1>3. ASSUME NEW c \in Units, C!Join(c) PROVE FitsWithRoom'
  <2>1. c \in C!Lows /\ C!Bytes(c) = 3
    BY SMT, <1>3 DEF C!Join, C!Bytes, C!Lows
  <2>2. hs \in C!Highs
    BY <1>3 DEF C!Join, FitsWithRoom
  <2>3. C!CodePoint(hs, c) \in Nat /\ C!Bytes(C!CodePoint(hs, c)) = 4
    BY SMT, <2>1, <2>2 DEF C!CodePoint, C!Bytes, C!Highs, C!Lows
  <2>4. hs # 0 /\ hs' = 0 /\ read' = read + 3 /\ written' = written + 4
    BY SMT, <1>3, <2>1, <2>3 DEF C!Join, C!Takes, C!Writes
  <2> QED
    BY SMT, <2>4 DEF FitsWithRoom
<1>4. ASSUME NEW c \in Units, C!CopyLong(c) PROVE FitsWithRoom'
  <2>1. hs' = 0 /\ read' = read + 3 /\ written' = written + 3
    BY SMT, <1>4 DEF C!CopyLong, C!Takes, C!Writes
  <2> QED
    BY SMT, <2>1 DEF FitsWithRoom
<1>5. ASSUME NEW c \in Units, NEW p \in 1..3, C!RunPast(c, p) PROVE FitsOrPast'
  BY Zenon, <1>5 DEF C!RunPast, FitsOrPast
<1>6. ASSUME UNCHANGED C!vars PROVE FitsWithRoom'
  BY <1>6 DEF C!vars, FitsWithRoom
<1> QED
  BY Zenon, <1>1, <1>2, <1>3, <1>4, <1>5, <1>6 DEF C!Next, FitsOrPast

LEMMA InitString == C!Init => FitsOrPast
BY DEF C!Init, FitsWithRoom, FitsOrPast

(* Whatever string a script gives, with its surrogates in pairs or not,    *)
(* the block that cesu8_to_utf8 allocates holds what it writes, as long as *)
(* its last character is not cut short.                                    *)
THEOREM ConversionFits == C!Spec => []FitsAllocation
<1>1. C!ConstantsOK
  BY StagesAssumption
<1>2. FitsOrPast => FitsAllocation
  <2>1. FitsWithRoom => read \in Nat /\ written \in Nat /\ written + (IF hs = 0 THEN 0 ELSE 3) <= read
    BY Zenon DEF FitsWithRoom
  <2> QED
    <3>1. FitsWithRoom => FitsAllocation
      <4> SUFFICES ASSUME FitsWithRoom PROVE written <= read
        BY Zenon DEF FitsAllocation, C!FitsAllocation
      <4> QED
        BY SMT, <2>1
    <3> QED
      BY Zenon, <3>1 DEF FitsOrPast, FitsAllocation, C!FitsAllocation
<1> QED
  BY <1>1, <1>2, InitString, NextString, PTL DEF C!Spec
-----------------------------------------------------------------------------
(* The recursion of FlattenSeq, up to size.                                *)
Joins(h, s, size) == h = [i \in 1..size |-> IF i = 1 THEN s[i] ELSE h[i-1] \o s[i]]

(* That recursion has a solution.                                          *)
LEMMA JoinsExists ==
  ASSUME NEW s, NEW size \in Nat
  PROVE  \E h : Joins(h, s, size)
<1> SUFFICES ASSUME ~ \E h : Joins(h, s, size) PROVE FALSE
  OBVIOUS
<1> DEFINE Bad == {l \in Nat : ~ \E h : Joins(h, s, l)}
<1>1. PICK l \in Bad : \A m \in Bad : l <= m
  <2>1. Bad \in SUBSET Nat /\ Bad # {}
    OBVIOUS
  <2> HIDE DEF Bad
  <2> QED
    BY <2>1, LeastNatural
<1>2. l # 0
  <2> SUFFICES ASSUME l = 0 PROVE FALSE
    OBVIOUS
  <2> DEFINE g == [i \in 1..0 |-> <<>>]
  <2>1. g = [i \in 1..0 |-> IF i = 1 THEN s[i] ELSE g[i-1] \o s[i]]
    OBVIOUS
  <2>2. Joins(g, s, 0)
    BY <2>1 DEF Joins
  <2> QED
    BY <1>1, <2>2
<1>3. l - 1 \in Nat /\ l - 1 \notin Bad
  BY <1>1, <1>2
<1>4. PICK h : Joins(h, s, l - 1)
  BY <1>3
<1> DEFINE g == [i \in 1..l |-> IF i = l THEN IF i = 1 THEN s[i] ELSE h[l-1] \o s[l] ELSE h[i]]
<1>5. \A i \in 1..l-1 : g[i] = h[i]
  BY <1>1
<1>6. \A i \in 1..l-1 : h[i] = IF i = 1 THEN s[i] ELSE h[i-1] \o s[i]
  BY <1>4 DEF Joins
<1>7. \A i \in 1..l : i # 1 => i - 1 \in 1..l-1 /\ g[i-1] = h[i-1]
  BY <1>1, <1>5
<1>8. \A i \in 1..l : g[i] = IF i = 1 THEN s[i] ELSE g[i-1] \o s[i]
  <2> SUFFICES ASSUME NEW i \in 1..l
               PROVE  g[i] = IF i = 1 THEN s[i] ELSE g[i-1] \o s[i]
    OBVIOUS
  <2>1. CASE i = l
    BY <1>2, <1>7, <2>1
  <2>2. CASE i # l
    <3>1. i \in 1..l-1
      BY <1>1, <2>2
    <3>2. g[i] = h[i]
      BY <1>5, <3>1
    <3> QED
      BY <1>6, <1>7, <3>1, <3>2
  <2> QED
    BY <2>1, <2>2
<1>9. Joins(g, s, l)
  <2> DEFINE r == [i \in 1..l |-> IF i = 1 THEN s[i] ELSE g[i-1] \o s[i]]
  <2>1. g = [i \in 1..l |-> g[i]]
    OBVIOUS
  <2> HIDE DEF g
  <2>2. r = [i \in 1..l |-> r[i]]
    OBVIOUS
  <2>3. \A i \in 1..l : g[i] = r[i]
    BY <1>8
  <2> HIDE DEF r
  <2>4. g = r
    BY <2>1, <2>2, <2>3
  <2> QED
    BY <2>4 DEF Joins, r
<1> QED
  BY <1>1, <1>9

(* A sequence more is joined at the end.                                   *)
LEMMA JoinsOneMore ==
  ASSUME NEW size \in Nat, size > 0,
         NEW s, Len(s) = size, NEW t, Len(t) = size + 1, \A i \in 1..size : t[i] = s[i]
  PROVE  C!FlattenSeq(t) = C!FlattenSeq(s) \o t[size+1]
<1> DEFINE js == CHOOSE h : Joins(h, s, size)
           jt == CHOOSE h : Joins(h, t, size + 1)
<1>1. Joins(js, s, size) /\ Joins(jt, t, size + 1)
  <2>1. size + 1 \in Nat
    OBVIOUS
  <2>2. (\E h : Joins(h, s, size)) /\ (\E h : Joins(h, t, size + 1))
    BY <2>1, JoinsExists
  <2> QED
    BY <2>2
<1>2. C!FlattenSeq(s) = js[size]
  BY DEF C!FlattenSeq, Joins
<1>3. C!FlattenSeq(t) = jt[size + 1]
  <2>1. size + 1 # 0
    OBVIOUS
  <2> QED
    BY <2>1 DEF C!FlattenSeq, Joins
<1> HIDE DEF js, jt
<1>4. \A i \in 1..size : js[i] = IF i = 1 THEN s[i] ELSE js[i-1] \o s[i]
  BY <1>1 DEF Joins
<1>5. \A i \in 1..size+1 : jt[i] = IF i = 1 THEN t[i] ELSE jt[i-1] \o t[i]
  BY <1>1 DEF Joins
<1> DEFINE Bad == {i \in 1..size : jt[i] # js[i]}
<1>6. ASSUME Bad # {} PROVE FALSE
  <2>1. Bad \in SUBSET Nat
    OBVIOUS
  <2>2. PICK l \in Bad : \A m \in Bad : l <= m
    <3> HIDE DEF Bad
    <3> QED
      BY <1>6, <2>1, LeastNatural
  <2>3. l \in 1..size /\ l \in 1..size+1 /\ jt[l] # js[l] /\ t[l] = s[l]
    BY <2>2
  <2>4. l # 1
    BY <1>4, <1>5, <2>3
  <2>5. l - 1 \in 1..size /\ l - 1 \notin Bad
    BY <2>2, <2>3, <2>4
  <2>6. jt[l-1] = js[l-1]
    BY <2>5
  <2> QED
    BY <1>4, <1>5, <2>3, <2>4, <2>6
<1>7. jt[size] = js[size] /\ size + 1 \in 1..size+1 /\ size + 1 # 1 /\ (size + 1) - 1 = size
  BY <1>6
<1> QED
  BY <1>2, <1>3, <1>5, <1>7

(* What is joined when there is one sequence more, the first included.     *)
LEMMA JoinsAnother ==
  ASSUME NEW size \in Nat, NEW s, NEW t,
         s = [k \in 1..size |-> s[k]], t = [k \in 1..size+1 |-> t[k]],
         \A k \in 1..size : t[k] = s[k],
         NEW S, t[size+1] \in Seq(S)
  PROVE  C!FlattenSeq(t) = C!FlattenSeq(s) \o t[size+1]
<1>1. Len(s) = size /\ Len(t) = size + 1
  OBVIOUS
<1>2. CASE size > 0
  BY <1>1, <1>2, JoinsOneMore
<1>3. CASE size = 0
  <2>1. C!FlattenSeq(s) = <<>>
    <3>1. s = <<>>
      BY <1>3
    <3>2. Len(<<>>) = 0
      OBVIOUS
    <3> QED
      BY <3>1, <3>2 DEF C!FlattenSeq
  <2>2. C!FlattenSeq(t) = t[1]
    <3> DEFINE h == CHOOSE g : Joins(g, t, size + 1)
    <3>1. Joins(h, t, size + 1)
      <4>1. size + 1 \in Nat
        OBVIOUS
      <4> QED
        BY <4>1, JoinsExists
    <3>2. Len(t) = size + 1 /\ size + 1 # 0
      BY <1>1
    <3>3. C!FlattenSeq(t) = h[size + 1]
      BY <3>2 DEF C!FlattenSeq, Joins
    <3> HIDE DEF h
    <3>4. h[1] = t[1]
      BY <1>3, <3>1 DEF Joins
    <3> QED
      BY <1>3, <3>3, <3>4
  <2>3. <<>> \o t[1] = t[1]
    BY <1>3
  <2> QED
    BY <1>3, <2>1, <2>2, <2>3
<1>4. size > 0 \/ size = 0
  OBVIOUS
<1> QED
  BY Zenon, <1>2, <1>3, <1>4

(* The characters of the basic plane when a unit comes.                    *)
LEMMA PlaneOfMore ==
  ASSUME NEW s \in Seq(Nat), NEW c \in Nat
  PROVE  C!Plane(Append(s, c)) = C!Plane(s) \o (IF C!InPlane(c) THEN <<c>> ELSE <<>>)
<1> DEFINE size == Len(s)
           u == Append(s, c)
           Given(x) == IF C!InPlane(x) THEN <<x>> ELSE <<>>
           a == [k \in 1..size |-> Given(s[k])]
           b == [k \in 1..size+1 |-> Given(u[k])]
<1>1. size \in Nat /\ DOMAIN s = 1..size /\ DOMAIN u = 1..size+1 /\ u[size+1] = c /\ \A k \in 1..size : u[k] = s[k]
  OBVIOUS
<1>2. C!Plane(s) = C!FlattenSeq(a) /\ C!Plane(u) = C!FlattenSeq(b)
  BY <1>1 DEF C!Plane
<1>3. b[size+1] = Given(c) /\ \A k \in 1..size : b[k] = a[k]
  BY <1>1
<1>4. Given(c) \in Seq(Nat)
  OBVIOUS
<1>5. a = [k \in 1..size |-> a[k]] /\ b = [k \in 1..size+1 |-> b[k]]
  OBVIOUS
<1> HIDE DEF size, u, a, b, Given
<1>6. C!FlattenSeq(b) = C!FlattenSeq(a) \o b[size+1]
  BY <1>1, <1>3, <1>4, <1>5, JoinsAnother
<1> QED
  BY <1>2, <1>3, <1>6 DEF u, Given

(* What is well formed with a unit more was so before it.                  *)
LEMMA WellFormedBefore ==
  ASSUME NEW s \in Seq(Nat), NEW c \in Nat, C!WellFormed(Append(s, c))
  PROVE  /\ C!WellFormed(s)
         /\ c \in C!Lows => Len(s) > 0 /\ s[Len(s)] \in C!Highs
         /\ Len(s) > 0 /\ s[Len(s)] \in C!Highs => c \in C!Lows
<1> DEFINE size == Len(s)
           u == Append(s, c)
<1>1. /\ size \in Nat /\ DOMAIN s = 1..size /\ DOMAIN u = 1..size+1 /\ Len(u) = size + 1
      /\ u[size+1] = c /\ \A k \in 1..size : u[k] = s[k]
  OBVIOUS
<1>2. \A k \in 1..size+1 : /\ u[k] \in C!Highs /\ k < size + 1 => u[k+1] \in C!Lows
                           /\ u[k] \in C!Lows => k > 1 /\ u[k-1] \in C!Highs
  BY <1>1 DEF C!WellFormed
<1> HIDE DEF size, u
<1>3. ASSUME NEW k \in 1..size
      PROVE  /\ s[k] \in C!Highs /\ k < size => s[k+1] \in C!Lows
             /\ s[k] \in C!Lows => k > 1 /\ s[k-1] \in C!Highs
  <2>1. /\ k \in 1..size+1 /\ k < size + 1 /\ u[k] = s[k]
        /\ (k < size => u[k+1] = s[k+1]) /\ (k > 1 => u[k-1] = s[k-1])
    BY <1>1
  <2>2. /\ u[k] \in C!Highs /\ k < size + 1 => u[k+1] \in C!Lows
        /\ u[k] \in C!Lows => k > 1 /\ u[k-1] \in C!Highs
    BY Zenon, <1>2, <2>1
  <2> QED
    BY Zenon, <2>1, <2>2
<1>4. C!WellFormed(s)
  BY <1>1, <1>3 DEF C!WellFormed, size
<1>5. c \in C!Lows => size > 0 /\ s[size] \in C!Highs
  <2>1. /\ size + 1 \in 1..size+1 /\ (size + 1) - 1 = size /\ (size + 1 > 1 => size > 0)
        /\ (size > 0 => u[size] = s[size]) /\ u[size+1] = c
    BY <1>1
  <2>2. u[size+1] \in C!Lows => size + 1 > 1 /\ u[(size+1)-1] \in C!Highs
    BY Zenon, <1>2, <2>1
  <2> QED
    BY Zenon, <2>1, <2>2
<1>6. size > 0 /\ s[size] \in C!Highs => c \in C!Lows
  <2>1. size > 0 => size \in 1..size+1 /\ size < size + 1 /\ u[size] = s[size]
    BY <1>1
  <2> QED
    BY Zenon, <1>1, <1>2, <2>1
<1> QED
  BY <1>4, <1>5, <1>6 DEF size

(* The characters of a well-formed string when a unit comes.               *)
LEMMA CharactersOfMore ==
  ASSUME NEW s \in Seq(Nat), NEW c \in Nat, C!WellFormed(Append(s, c))
  PROVE  C!Characters(Append(s, c)) =
           C!Characters(s) \o (IF c \in C!Highs THEN <<>>
                               ELSE IF c \in C!Lows THEN <<C!CodePoint(s[Len(s)], c)>> ELSE <<c>>)
<1> DEFINE size == Len(s)
           u == Append(s, c)
           Given(r, k) == IF r[k] \in C!Highs THEN <<>> ELSE <<C!Character(r, k)>>
           a == [k \in 1..size |-> Given(s, k)]
           b == [k \in 1..size+1 |-> Given(u, k)]
           More == IF c \in C!Highs THEN <<>>
                   ELSE IF c \in C!Lows THEN <<C!CodePoint(s[size], c)>> ELSE <<c>>
<1>1. /\ size \in Nat /\ DOMAIN s = 1..size /\ DOMAIN u = 1..size+1
      /\ u[size+1] = c /\ \A k \in 1..size : u[k] = s[k]
  OBVIOUS
<1>2. C!Characters(s) = C!FlattenSeq(a) /\ C!Characters(u) = C!FlattenSeq(b)
  BY <1>1 DEF C!Characters
<1>3. C!WellFormed(s) /\ (c \in C!Lows => size > 0)
  BY WellFormedBefore
<1>4. \A k \in 1..size : s[k] \in C!Lows => k > 1
  BY <1>1, <1>3 DEF C!WellFormed
<1> HIDE DEF size, u
<1>5. ASSUME NEW k \in 1..size PROVE Given(u, k) = Given(s, k)
  <2>1. s[k] \in C!Lows => u[k-1] = s[k-1]
    BY <1>1, <1>4
  <2>2. u[k] = s[k]
    BY <1>1
  <2>3. C!Character(u, k) = C!Character(s, k)
    BY Zenon, <2>1, <2>2 DEF C!Character
  <2> QED
    BY Zenon, <2>2, <2>3
<1>6. Given(u, size + 1) = More
  <2>1. (size + 1) - 1 = size /\ (c \in C!Lows => u[size] = s[size]) /\ u[size+1] = c
    BY <1>1, <1>3
  <2>2. C!Character(u, size + 1) = IF c \in C!Lows THEN C!CodePoint(s[size], c) ELSE c
    BY Zenon, <2>1 DEF C!Character
  <2> QED
    BY Zenon, <2>1, <2>2
<1> HIDE DEF Given
<1>7. \A k \in 1..size : b[k] = a[k]
  BY <1>1, <1>5
<1>8. b[size+1] = More
  BY <1>1, <1>6
<1>9. a = [k \in 1..size |-> a[k]] /\ b = [k \in 1..size+1 |-> b[k]]
  OBVIOUS
<1> HIDE DEF a, b
<1>10. More \in Seq({c, C!CodePoint(s[size], c)})
  <2>1. \A S : <<>> \in Seq(S) /\ \A x \in S : <<x>> \in Seq(S)
    OBVIOUS
  <2> QED
    BY Zenon, <2>1
<1> HIDE DEF More
<1>11. C!FlattenSeq(b) = C!FlattenSeq(a) \o b[size+1]
  BY <1>1, <1>7, <1>8, <1>9, <1>10, JoinsAnother
<1> QED
  BY <1>2, <1>8, <1>11 DEF size, u, More

(* What was gone through and what was written, at any moment of a string.  *)
StringTypes ==
  /\ cesu8 \in Seq(Nat) /\ utf8 \in Seq(Nat) /\ hs \in {0} \cup C!Highs
  /\ C!Plane(utf8) \in Seq(Nat)

(* The high surrogate in hand is the last unit, as long as the string is   *)
(* well formed.                                                            *)
LastHigh(s) == IF Len(s) > 0 /\ s[Len(s)] \in C!Highs THEN s[Len(s)] ELSE 0

StringInv ==
  /\ StringTypes
  /\ C!Plane(utf8) = C!Plane(cesu8)
  /\ C!WellFormed(cesu8) => utf8 = C!Characters(cesu8) /\ hs = LastHigh(cesu8)

(* A unit that is written as it is.                                        *)
LEMMA CopyKeeps ==
  ASSUME StringInv, NEW c \in Nat,
         cesu8' = Append(cesu8, c), utf8' = Append(utf8, c), hs' \in {0, hs},
         C!WellFormed(cesu8') => c \notin C!Highs /\ c \notin C!Lows /\ hs' = 0
  PROVE  StringInv'
<1> USE DEF StringTypes
<1>1. C!Plane(utf8') = C!Plane(utf8) \o (IF C!InPlane(c) THEN <<c>> ELSE <<>>)
  BY Zenon, PlaneOfMore DEF StringInv
<1>2. C!Plane(cesu8') = C!Plane(cesu8) \o (IF C!InPlane(c) THEN <<c>> ELSE <<>>)
  BY Zenon, PlaneOfMore DEF StringInv
<1>3. C!Plane(utf8') = C!Plane(cesu8')
  BY Zenon, <1>1, <1>2 DEF StringInv
<1>4. StringTypes'
  <2>1. C!Plane(utf8') \in Seq(Nat)
    <3>1. (IF C!InPlane(c) THEN <<c>> ELSE <<>>) \in Seq(Nat)
      BY SMT
    <3>2. C!Plane(utf8) \in Seq(Nat)
      BY DEF StringInv
    <3> HIDE DEF StringTypes
    <3>3. \A x, y \in Seq(Nat) : x \o y \in Seq(Nat)
      BY SMT
    <3> QED
      BY Zenon, <1>1, <3>1, <3>2, <3>3
  <2>2. cesu8 \in Seq(Nat) /\ utf8 \in Seq(Nat) /\ hs \in {0} \cup C!Highs
    BY DEF StringInv
  <2>3. cesu8' \in Seq(Nat) /\ utf8' \in Seq(Nat)
    BY SMT, <2>2
  <2> QED
    BY Zenon, <2>1, <2>2, <2>3
<1>5. ASSUME C!WellFormed(cesu8') PROVE utf8' = C!Characters(cesu8') /\ hs' = LastHigh(cesu8')
  <2>1. cesu8 \in Seq(Nat) /\ utf8 \in Seq(Nat)
    BY DEF StringInv
  <2>2. C!WellFormed(cesu8)
    BY Zenon, <1>5, <2>1, WellFormedBefore
  <2>3. C!Characters(cesu8') = C!Characters(cesu8) \o <<c>>
    BY Zenon, <1>5, <2>1, CharactersOfMore
  <2>4. utf8' = utf8 \o <<c>>
    BY SMT, <2>1
  <2>5. Len(cesu8') > 0 /\ cesu8'[Len(cesu8')] = c
    BY SMT, <2>1
  <2> QED
    BY Zenon, <1>5, <2>2, <2>3, <2>4, <2>5 DEF StringInv, LastHigh
<1> QED
  BY Zenon, <1>3, <1>4, <1>5 DEF StringInv

(* What a surrogate can be, and what two of them make.                     *)
LEMMA Surrogate ==
  /\ \A c \in C!Highs : c \in Nat /\ C!Bytes(c) = 3 /\ ~C!InPlane(c) /\ c \notin C!Lows /\ c # 0
  /\ \A c \in C!Lows : c \in Nat /\ C!Bytes(c) = 3 /\ ~C!InPlane(c) /\ c \notin C!Highs /\ c # 0
  /\ \A h \in C!Highs, l \in C!Lows :
       C!CodePoint(h, l) \in Nat /\ ~C!InPlane(C!CodePoint(h, l))
<1>1. C!Highs \subseteq Nat /\ C!Lows \subseteq Nat
  BY DEF C!Highs, C!Lows
<1>2. \A c \in C!Highs : c >= 55296 /\ c <= 56319
  BY DEF C!Highs
<1>3. \A c \in C!Lows : c >= 56320 /\ c <= 57343
  BY DEF C!Lows
<1>4. \A h \in C!Highs, l \in C!Lows : C!CodePoint(h, l) \in Nat /\ C!CodePoint(h, l) >= 65536
  BY <1>1 DEF C!CodePoint
<1> QED
  BY SMT, <1>1, <1>2, <1>3, <1>4 DEF C!Bytes, C!InPlane, C!Surrogates

(* Where the loop is past the end, what came before is as it was.          *)
StringOrPast == StringInv \/ (past /\ WellFormedIsConverted)

LEMMA PastKeepsString ==
  ASSUME past, WellFormedIsConverted, [C!Next]_(C!vars) PROVE StringOrPast'
<1>1. UNCHANGED C!vars
  BY Zenon DEF C!Next, C!CopyOther, C!KeepHigh, C!Join, C!CopyLong, C!Takes, C!RunPast
<1>2. past' /\ utf8' = utf8 /\ cesu8' = cesu8
  BY <1>1 DEF C!vars
<1>3. WellFormedIsConverted'
  BY <1>2 DEF WellFormedIsConverted, C!WellFormedIsConverted
<1> QED
  BY Zenon, <1>2, <1>3 DEF StringOrPast

LEMMA NextStringInv ==
  C!ConstantsOK /\ StringOrPast /\ [C!Next]_(C!vars) => StringOrPast'
<1> SUFFICES ASSUME C!ConstantsOK, StringInv, [C!Next]_(C!vars) PROVE StringOrPast'
  BY Zenon, PastKeepsString DEF StringOrPast
<1>0. ASSUME NEW c \in Units PROVE c \in Nat
  BY DEF C!ConstantsOK
<1>1. cesu8 \in Seq(Nat) /\ utf8 \in Seq(Nat) /\ hs \in {0} \cup C!Highs /\ C!Plane(utf8) \in Seq(Nat)
  BY DEF StringInv, StringTypes
<1>2. ASSUME NEW c \in Nat, cesu8' = Append(cesu8, c), C!WellFormed(cesu8')
      PROVE  /\ c \in C!Lows => hs \in C!Highs /\ hs = cesu8[Len(cesu8)]
             /\ c \notin C!Lows => hs = 0
             /\ utf8 = C!Characters(cesu8)
  <2>1. C!WellFormed(cesu8) /\ (c \in C!Lows => Len(cesu8) > 0 /\ cesu8[Len(cesu8)] \in C!Highs)
        /\ (Len(cesu8) > 0 /\ cesu8[Len(cesu8)] \in C!Highs => c \in C!Lows)
    BY Zenon, <1>1, <1>2, WellFormedBefore
  <2>2. utf8 = C!Characters(cesu8) /\ hs = LastHigh(cesu8)
    BY Zenon, <2>1 DEF StringInv
  <2> QED
    BY Zenon, <2>1, <2>2 DEF LastHigh
<1>3. ASSUME NEW c \in Units, C!CopyOther(c) PROVE StringInv'
  <2>1. c \in Nat /\ cesu8' = Append(cesu8, c) /\ utf8' = Append(utf8, c) /\ hs' = hs
    BY <1>0, <1>3 DEF C!CopyOther, C!Takes, C!Writes
  <2>2. c \notin C!Highs /\ c \notin C!Lows
    BY <1>3, Surrogate DEF C!CopyOther
  <2>3. C!WellFormed(cesu8') => hs' = 0
    BY Zenon, <1>2, <2>1, <2>2
  <2> QED
    BY Zenon, <2>1, <2>2, <2>3, CopyKeeps
<1>4. ASSUME NEW c \in Units, C!KeepHigh(c) PROVE StringInv'
  <2>1. /\ c \in Nat /\ c \in C!Highs /\ cesu8' = Append(cesu8, c) /\ utf8' = utf8
        /\ hs = 0 /\ hs' = c
    BY <1>0, <1>4 DEF C!KeepHigh, C!Takes
  <2>2. ~C!InPlane(c) /\ c \notin C!Lows
    BY Zenon, <2>1, Surrogate
  <2>3. C!Plane(cesu8') = C!Plane(cesu8) \o <<>>
    BY Zenon, <1>1, <2>1, <2>2, PlaneOfMore
  <2>4. \A x \in Seq(Nat) : x \o <<>> = x
    BY SMT
  <2>5. C!Plane(utf8') = C!Plane(cesu8')
    BY Zenon, <1>1, <2>1, <2>3, <2>4 DEF StringInv
  <2>6. StringTypes'
    <3>1. cesu8' \in Seq(Nat)
      BY SMT, <1>1, <2>1
    <3> QED
      BY Zenon, <1>1, <2>1, <3>1 DEF StringTypes
  <2>7. ASSUME C!WellFormed(cesu8') PROVE utf8' = C!Characters(cesu8') /\ hs' = LastHigh(cesu8')
    <3>1. C!Characters(cesu8') = C!Characters(cesu8) \o <<>>
      BY Zenon, <1>1, <2>1, <2>7, CharactersOfMore
    <3>2. utf8 = C!Characters(cesu8)
      BY Zenon, <1>2, <2>1, <2>7
    <3>3. Len(cesu8') > 0 /\ cesu8'[Len(cesu8')] = c
      BY SMT, <1>1, <2>1
    <3> QED
      BY Zenon, <1>1, <2>1, <2>4, <3>1, <3>2, <3>3 DEF LastHigh
  <2> QED
    BY Zenon, <2>5, <2>6, <2>7 DEF StringInv
<1>5. ASSUME NEW c \in Units, C!Join(c) PROVE StringInv'
  <2> DEFINE d == C!CodePoint(hs, c)
  <2>1. /\ c \in Nat /\ c \in C!Lows /\ cesu8' = Append(cesu8, c) /\ utf8' = Append(utf8, d)
        /\ hs \in C!Highs /\ hs' = 0
    BY <1>0, <1>1, <1>5 DEF C!Join, C!Takes, C!Writes
  <2>2. ~C!InPlane(c) /\ c \notin C!Highs /\ d \in Nat /\ ~C!InPlane(d)
    BY Zenon, <2>1, Surrogate
  <2> HIDE DEF d
  <2>3. C!Plane(cesu8') = C!Plane(cesu8) \o <<>> /\ C!Plane(utf8') = C!Plane(utf8) \o <<>>
    BY Zenon, <1>1, <2>1, <2>2, PlaneOfMore
  <2>4. \A x \in Seq(Nat) : x \o <<>> = x
    BY SMT
  <2>5. C!Plane(utf8') = C!Plane(utf8) /\ C!Plane(utf8') = C!Plane(cesu8')
    BY Zenon, <1>1, <2>3, <2>4 DEF StringInv
  <2>6. StringTypes'
    <3>1. cesu8' \in Seq(Nat) /\ utf8' \in Seq(Nat)
      BY SMT, <1>1, <2>1, <2>2
    <3> QED
      BY Zenon, <1>1, <2>1, <2>5, <3>1 DEF StringTypes
  <2>7. ASSUME C!WellFormed(cesu8') PROVE utf8' = C!Characters(cesu8') /\ hs' = LastHigh(cesu8')
    <3>1. C!Characters(cesu8') = C!Characters(cesu8) \o <<C!CodePoint(cesu8[Len(cesu8)], c)>>
      BY Zenon, <1>1, <2>1, <2>2, <2>7, CharactersOfMore
    <3>2. utf8 = C!Characters(cesu8) /\ hs = cesu8[Len(cesu8)]
      BY Zenon, <1>2, <2>1, <2>7
    <3>3. Len(cesu8') > 0 /\ cesu8'[Len(cesu8')] = c
      BY SMT, <1>1, <2>1
    <3>4. utf8' = utf8 \o <<d>>
      BY SMT, <1>1, <2>1, <2>2
    <3> QED
      BY Zenon, <2>1, <2>2, <3>1, <3>2, <3>3, <3>4 DEF LastHigh, d
  <2> QED
    BY Zenon, <2>5, <2>6, <2>7 DEF StringInv
<1>6. ASSUME NEW c \in Units, C!CopyLong(c) PROVE StringInv'
  <2>1. /\ c \in Nat /\ cesu8' = Append(cesu8, c) /\ utf8' = Append(utf8, c) /\ hs' = 0
        /\ ~(hs = 0 /\ c \in C!Highs) /\ ~(hs # 0 /\ c \in C!Lows)
    BY <1>0, <1>6 DEF C!CopyLong, C!Takes, C!Writes
  <2>2. ASSUME C!WellFormed(cesu8') PROVE c \notin C!Highs /\ c \notin C!Lows
    BY Zenon, <1>2, <2>1, <2>2, Surrogate
  <2> QED
    BY Zenon, <2>1, <2>2, CopyKeeps
<1>7. ASSUME UNCHANGED C!vars PROVE StringInv'
  BY Zenon, <1>7 DEF C!vars, StringInv, StringTypes
<1>8. ASSUME NEW c \in Units, NEW p \in 1..3, C!RunPast(c, p) PROVE StringOrPast'
  <2>1. past' /\ utf8' = utf8 /\ cesu8' = cesu8
    BY Zenon, <1>8 DEF C!RunPast
  <2>2. WellFormedIsConverted
    BY DEF StringInv, WellFormedIsConverted, C!WellFormedIsConverted
  <2>3. WellFormedIsConverted'
    BY <2>1, <2>2 DEF WellFormedIsConverted, C!WellFormedIsConverted
  <2> QED
    BY Zenon, <2>1, <2>3 DEF StringOrPast
<1> QED
  BY Zenon, <1>3, <1>4, <1>5, <1>6, <1>7, <1>8 DEF C!Next, StringOrPast

LEMMA InitStringInv == C!Init => StringOrPast
<1> SUFFICES ASSUME C!Init PROVE StringInv
  BY Zenon DEF StringOrPast
<1>1. cesu8 = <<>> /\ utf8 = <<>> /\ hs = 0
  BY DEF C!Init
<1>2. C!Plane(<<>>) = <<>> /\ C!Characters(<<>>) = <<>>
  BY DEF C!Plane, C!Characters, C!FlattenSeq
<1>3. LastHigh(<<>>) = 0 /\ <<>> \in Seq(Nat)
  BY DEF LastHigh
<1> QED
  BY Zenon, <1>1, <1>2, <1>3 DEF StringInv, StringTypes

(* A well-formed string comes out as the characters that it stands for,    *)
(* and of any other string the characters of the basic plane come out, in  *)
(* order (cesu8_to_utf8).                                                  *)
THEOREM CharactersComeThrough == C!Spec => []WellFormedIsConverted
<1>1. C!ConstantsOK
  BY StagesAssumption
<1>2. StringOrPast => WellFormedIsConverted
  BY DEF StringInv, StringOrPast, WellFormedIsConverted, C!WellFormedIsConverted
<1> QED
  BY <1>1, <1>2, InitStringInv, NextStringInv, PTL DEF C!Spec
=============================================================================
