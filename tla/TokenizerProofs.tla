--------------------------- MODULE TokenizerProofs ---------------------------
(***************************************************************************)
(* The tokens of tokenizer.c, for output of any length in pieces of any    *)
(* size.  Kinds says what each byte is by one pass over the whole output;  *)
(* it is a recursive function, and a least counterexample shows that it is *)
(* what its recursion says and that it does not change when more arrives.  *)
(* The invariant places the committed position, the read position and the  *)
(* end of the last token in that pass, at every step of tokenizer_read.    *)
(***************************************************************************)
EXTENDS MCTokenizer, SequenceTheorems, WellFoundedInduction, TLAPS
-----------------------------------------------------------------------------
(* A set of numbers that is not empty has a least one.                     *)
LEMMA LeastNatural ==
  ASSUME NEW S \in SUBSET Nat, S # {}
  PROVE  \E least \in S : \A m \in S : least <= m
<1> DEFINE Below == OpToRel(<, Nat)
<1>1. IsWellFoundedOn(Below, Nat)
  BY NatLessThanWellFounded
<1>2. \A m, l \in Nat : m < l => <<m, l>> \in Below
  BY DEF OpToRel
<1> HIDE DEF Below
<1>3. PICK least \in S : \A m \in S : ~(<<m, least>> \in Below)
  BY <1>1, WFMin
<1>4. least \in Nat /\ \A m \in S : m \in Nat /\ ~(m < least)
  BY <1>2, <1>3
<1>5. \A m \in S : least <= m
  BY <1>4
<1> QED
  BY <1>5

(* The recursion by which Kinds goes over the first n bytes of s.          *)
Follows(h, s, n) ==
  h = [i \in 0..n |-> IF i = 0 THEN "start" ELSE KindAfter(h[i-1], s[i])]

KindOf(s) == CHOOSE h : Follows(h, s, Len(s))

Kind(s, i) == KindOf(s)[i]

(* That recursion has a solution, so Kinds is what the recursion says.     *)
LEMMA FollowsExists ==
  ASSUME NEW s, NEW n \in Nat
  PROVE  \E h : Follows(h, s, n)
<1> SUFFICES ASSUME ~ \E h : Follows(h, s, n) PROVE FALSE
  OBVIOUS
<1> DEFINE Bad == {l \in Nat : ~ \E h : Follows(h, s, l)}
<1>1. PICK l \in Bad : \A m \in Bad : l <= m
  <2>1. Bad \in SUBSET Nat /\ Bad # {}
    OBVIOUS
  <2> HIDE DEF Bad
  <2> QED
    BY <2>1, LeastNatural
<1>2. l # 0
  <2> SUFFICES ASSUME l = 0 PROVE FALSE
    OBVIOUS
  <2> DEFINE g == [i \in 0..0 |-> "start"]
  <2>1. g = [i \in 0..0 |-> IF i = 0 THEN "start" ELSE KindAfter(g[i-1], s[i])]
    OBVIOUS
  <2>2. Follows(g, s, 0)
    BY <2>1 DEF Follows
  <2> QED
    BY <1>1, <2>2
<1>3. l - 1 \in Nat /\ l - 1 \notin Bad
  BY <1>1, <1>2
<1>4. PICK h : Follows(h, s, l - 1)
  BY <1>3
<1> DEFINE g == [i \in 0..l |-> IF i = l THEN KindAfter(h[l-1], s[l]) ELSE h[i]]
<1>5. \A i \in 0..l-1 : g[i] = h[i]
  BY <1>1
<1>6. \A i \in 0..l-1 : h[i] = IF i = 0 THEN "start" ELSE KindAfter(h[i-1], s[i])
  BY <1>4 DEF Follows
<1>7. \A i \in 0..l : i # 0 => i - 1 \in 0..l-1 /\ g[i-1] = h[i-1]
  BY <1>1, <1>5
<1>8. \A i \in 0..l : g[i] = IF i = 0 THEN "start" ELSE KindAfter(g[i-1], s[i])
  <2> SUFFICES ASSUME NEW i \in 0..l
               PROVE  g[i] = IF i = 0 THEN "start" ELSE KindAfter(g[i-1], s[i])
    OBVIOUS
  <2>1. CASE i = l
    BY <1>2, <1>7, <2>1
  <2>2. CASE i # l
    <3>1. i \in 0..l-1
      BY <1>1, <2>2
    <3>2. g[i] = h[i]
      BY <1>5, <3>1
    <3> QED
      BY <1>6, <1>7, <3>1, <3>2
  <2> QED
    BY <2>1, <2>2
<1>9. Follows(g, s, l)
  <2> DEFINE r == [i \in 0..l |-> IF i = 0 THEN "start" ELSE KindAfter(g[i-1], s[i])]
  <2>1. g = [i \in 0..l |-> g[i]]
    OBVIOUS
  <2> HIDE DEF g
  <2>2. r = [i \in 0..l |-> r[i]]
    OBVIOUS
  <2>3. \A i \in 0..l : g[i] = r[i]
    BY <1>8
  <2> HIDE DEF r
  <2>4. g = r
    BY <2>1, <2>2, <2>3
  <2> QED
    BY <2>4 DEF Follows, r
<1> QED
  BY <1>1, <1>9

(* So the kind of a byte follows from the byte and the kind before it.     *)
LEMMA KindIs ==
  ASSUME NEW s \in Seq(Classes)
  PROVE  /\ Kind(s, 0) = "start"
         /\ \A i \in 1..Len(s) : Kind(s, i) = KindAfter(Kind(s, i-1), s[i])
<1>1. Follows(KindOf(s), s, Len(s))
  BY FollowsExists DEF KindOf
<1>2. \A i \in 0..Len(s) : KindOf(s)[i] = IF i = 0 THEN "start" ELSE KindAfter(KindOf(s)[i-1], s[i])
  BY <1>1 DEF Follows
<1>3. 0 \in 0..Len(s) /\ \A i \in 1..Len(s) : i \in 0..Len(s) /\ i # 0
  OBVIOUS
<1> QED
  BY <1>2, <1>3 DEF Kind

(* Kinds is that list of kinds.                                            *)
LEMMA KindsAre == Kinds = [i \in 1..Len(input) |-> Kind(input, i)]
  BY DEF Kinds, Kind, KindOf, Follows

(* What a byte is part of does not depend on the bytes after it.           *)
LEMMA KindsStay ==
  ASSUME NEW s \in Seq(Classes), NEW t \in Seq(Classes), Len(s) <= Len(t),
         \A i \in 1..Len(s) : t[i] = s[i]
  PROVE  \A i \in 0..Len(s) : Kind(t, i) = Kind(s, i)
<1> DEFINE Bad == {i \in 0..Len(s) : Kind(t, i) # Kind(s, i)}
<1> SUFFICES ASSUME Bad # {} PROVE FALSE
  OBVIOUS
<1>1. PICK l \in Bad : \A m \in Bad : l <= m
  <2>1. Bad \in SUBSET Nat
    OBVIOUS
  <2> HIDE DEF Bad
  <2> QED
    BY <2>1, LeastNatural
<1>2. l \in 1..Len(s)
  BY <1>1, KindIs
<1>3. l \in 1..Len(t) /\ l - 1 \in 0..Len(s) /\ l - 1 \notin Bad
  BY <1>1, <1>2
<1>4. Kind(t, l-1) = Kind(s, l-1)
  BY <1>3
<1>5. Kind(t, l) = KindAfter(Kind(t, l-1), t[l]) /\ Kind(s, l) = KindAfter(Kind(s, l-1), s[l])
  BY <1>2, <1>3, KindIs
<1> QED
  BY <1>1, <1>2, <1>4, <1>5

(* Once the tokenizer holds bytes back it holds back the rest.             *)
LEMMA HeldStays ==
  ASSUME NEW s \in Seq(Classes), NEW k \in 1..Len(s), Kind(s, k) = "held"
  PROVE  \A i \in k..Len(s) : Kind(s, i) = "held"
<1> DEFINE Bad == {i \in k..Len(s) : Kind(s, i) # "held"}
<1> SUFFICES ASSUME Bad # {} PROVE FALSE
  OBVIOUS
<1>1. PICK l \in Bad : \A m \in Bad : l <= m
  <2>1. Bad \in SUBSET Nat
    OBVIOUS
  <2> HIDE DEF Bad
  <2> QED
    BY <2>1, LeastNatural
<1>2. l # k
  BY <1>1
<1>3. l \in 1..Len(s) /\ l - 1 \in k..Len(s) /\ l - 1 \notin Bad
  BY <1>1, <1>2
<1>4. Kind(s, l-1) = "held"
  BY <1>3
<1>5. Kind(s, l) = KindAfter(Kind(s, l-1), s[l])
  BY <1>3, KindIs
<1> QED
  BY <1>1, <1>4, <1>5 DEF KindAfter
-----------------------------------------------------------------------------
Middle == {"first", "param", "inter"}

(* What follows outside of a sequence.                                     *)
LEMMA OutsideStep ==
  ASSUME NEW prev \in {"start", "newline", "content", "last"}, NEW c
  PROVE  /\ c = "n" => KindAfter(prev, c) = "newline"
         /\ c = "e" => KindAfter(prev, c) = "esc"
         /\ IsContent(c) => KindAfter(prev, c) = "content"
<1>1. prev # "held" /\ prev \notin Open
  BY DEF Open
<1>2. KindAfter(prev, c) = CASE c = "n" -> "newline" [] c = "e" -> "esc" [] OTHER -> "content"
  BY <1>1 DEF KindAfter
<1>3. CASE c = "n"
  BY <1>2, <1>3, Zenon DEF IsContent
<1>4. CASE c = "e"
  BY <1>2, <1>4, Zenon DEF IsContent
<1>5. CASE c \notin {"n", "e"}
  BY <1>2, <1>5, Zenon DEF IsContent
<1> QED
  BY <1>3, <1>4, <1>5

(* What follows in one.                                                    *)
LEMMA InsideStep ==
  ASSUME NEW prev \in Open, NEW c
  PROVE  /\ c = "0" \/ (prev = "first" /\ c = "p") => KindAfter(prev, c) = "held"
         /\ prev = "esc" /\ c = "[" => KindAfter(prev, c) = "first"
         /\ prev \in {"first", "param"} /\ c = "d" => KindAfter(prev, c) = "param"
         /\ prev \in Middle /\ c = "i" => KindAfter(prev, c) = "inter"
         /\ ~(\/ c = "0"
              \/ prev = "first" /\ c = "p"
              \/ prev = "esc" /\ c = "["
              \/ prev \in {"first", "param"} /\ c = "d"
              \/ prev \in Middle /\ c = "i") => KindAfter(prev, c) = "last"
<1>1. prev # "held" /\ (prev \in Open \ {"esc"} <=> prev \in Middle)
  BY DEF Open, Middle
<1> DEFINE r == KindAfter(prev, c)
<1>2. r = CASE c = "0" \/ (prev = "first" /\ c = "p")       -> "held"
            [] prev = "esc" /\ c = "["                      -> "first"
            [] prev \in {"first", "param"} /\ c = "d"       -> "param"
            [] prev \in Open \ {"esc"} /\ c = "i"           -> "inter"
            [] OTHER                                        -> "last"
  BY <1>1 DEF KindAfter
<1>3. prev # "esc" \/ prev \notin {"first", "param"}
  OBVIOUS
<1> HIDE DEF r
<1>4. c = "0" \/ (prev = "first" /\ c = "p") => r = "held"
  BY <1>2, Zenon
<1>5. prev = "esc" /\ c = "[" => r = "first"
  BY <1>2, Zenon
<1>6. prev \in {"first", "param"} /\ c = "d" => r = "param"
  BY <1>2, Zenon
<1>7. prev \in Middle /\ c = "i" => r = "inter"
  BY <1>1, <1>2, Zenon
<1>8. ~(\/ c = "0"
        \/ prev = "first" /\ c = "p"
        \/ prev = "esc" /\ c = "["
        \/ prev \in {"first", "param"} /\ c = "d"
        \/ prev \in Middle /\ c = "i") => r = "last"
  BY <1>1, <1>2, Zenon
<1> QED
  BY <1>4, <1>5, <1>6, <1>7, <1>8 DEF r

(* How the state follows.                                                  *)
LEMMA StateStep ==
  ASSUME NEW c
  PROVE  /\ state = "ESC" /\ c = "[" => After(c) = "PARAM"
         /\ state = "PARAM" /\ c = "d" => After(c) = "PARAM"
         /\ state \in {"PARAM", "INTER"} /\ c = "i" => After(c) = "INTER"
         /\ ~(\/ state = "ESC" /\ c = "["
              \/ state = "PARAM" /\ c = "d"
              \/ state \in {"PARAM", "INTER"} /\ c = "i") => After(c) = "DEFAULT"
<1> DEFINE r == After(c)
<1>1. r = CASE state = "ESC" /\ c = "["          -> "PARAM"
            [] state = "PARAM" /\ c = "d"        -> "PARAM"
            [] state \in {"PARAM", "INTER"} /\ c = "i" -> "INTER"
            [] OTHER                                 -> "DEFAULT"
  BY DEF After
<1> HIDE DEF r
<1>2. state = "ESC" /\ c = "[" => r = "PARAM"
  BY <1>1, Zenon
<1>3. state = "PARAM" /\ c = "d" => r = "PARAM"
  BY <1>1, Zenon
<1>4. state \in {"PARAM", "INTER"} /\ c = "i" => r = "INTER"
  BY <1>1, Zenon
<1>5. ~(\/ state = "ESC" /\ c = "["
        \/ state = "PARAM" /\ c = "d"
        \/ state \in {"PARAM", "INTER"} /\ c = "i") => r = "DEFAULT"
  BY <1>1, Zenon
<1> QED
  BY <1>2, <1>3, <1>4, <1>5 DEF r

(* tokenizer_read looks at the next byte to see what begins there.         *)
LEMMA WhatBegins ==
  ASSUME TokenizerRead, rpos \in Nat, written \in Nat, rpos <= written
  PROVE  /\ UNCHANGED <<input, written, committed, rpos, state, afterFe, text, tokens>>
         /\ from' = rpos
         /\ rpos = written => pc' = "idle"
         /\ rpos < written =>
              \/ pc' = "newline" /\ input[rpos + 1] = "n"
              \/ pc' = "escape" /\ input[rpos + 1] = "e"
              \/ pc' = "content" /\ IsContent(input[rpos + 1])
<1> USE DEF TokenizerRead
<1>1. /\ UNCHANGED <<input, written, committed, rpos, state, afterFe, text, tokens>>
      /\ from' = rpos
      /\ ret'.bytes = [i \in 1..IF rpos < written THEN 1 ELSE 0 |-> rpos + i]
  BY DEF Queue!Peek, Queue!Bytes
<1>2. pc' = IF ret'.bytes = <<>> THEN "idle"
            ELSE CASE input[ret'.bytes[1]] = "n" -> "newline"
                   [] input[ret'.bytes[1]] = "e" -> "escape"
                   [] OTHER                      -> "content"
  OBVIOUS
<1>3. rpos = written => pc' = "idle"
  <2> SUFFICES ASSUME rpos = written PROVE pc' = "idle"
    OBVIOUS
  <2>1. ret'.bytes = <<>>
    BY <1>1
  <2> QED
    BY <1>2, <2>1, Zenon
<1>4. ASSUME rpos < written
      PROVE  \/ pc' = "newline" /\ input[rpos + 1] = "n"
             \/ pc' = "escape" /\ input[rpos + 1] = "e"
             \/ pc' = "content" /\ IsContent(input[rpos + 1])
  <2>1. ret'.bytes # <<>> /\ ret'.bytes[1] = rpos + 1
    BY <1>1, <1>4
  <2> DEFINE c == input[ret'.bytes[1]]
  <2>2. pc' = CASE c = "n" -> "newline" [] c = "e" -> "escape" [] OTHER -> "content"
    BY <1>2, <2>1, Zenon
  <2>3. c = input[rpos + 1]
    BY <2>1
  <2> HIDE DEF c
  <2>4. c = "n" => pc' = "newline"
    BY <2>2, Zenon
  <2>5. c = "e" => pc' = "escape"
    BY <2>2, Zenon
  <2>6. c \notin {"n", "e"} => pc' = "content"
    BY <2>2, Zenon
  <2> QED
    BY <2>3, <2>4, <2>5, <2>6 DEF IsContent
<1> QED
  BY <1>1, <1>3, <1>4

(* read_content_token reads one byte, if there is one.                     *)
LEMMA ContentByte ==
  ASSUME ReadContentByte, rpos \in Nat, written \in Nat, rpos <= written
  PROVE  /\ UNCHANGED <<input, written, committed, state, afterFe, from>>
         /\ \/ /\ rpos = written /\ rpos' = rpos /\ pc' = "read" /\ text' = <<>>
               /\ tokens' = Returned("content", CString(text))
            \/ /\ rpos < written /\ rpos' = rpos + 1 /\ IsContent(input[rpos + 1])
               /\ pc' = "keep" /\ tokens' = tokens /\ text' = text \o <<rpos + 1>>
            \/ /\ rpos < written /\ rpos' = rpos + 1 /\ ~IsContent(input[rpos + 1])
               /\ pc' = "give_back" /\ UNCHANGED <<tokens, text>>
<1> USE DEF ReadContentByte
<1>1. /\ UNCHANGED <<input, written, committed, state, afterFe, from>>
  BY DEF Queue!Read
<1> DEFINE got == ret'.bytes
<1>2. /\ got = [i \in 1..IF 1 < written - rpos THEN 1 ELSE written - rpos |-> rpos + i]
      /\ rpos' = rpos + IF 1 < written - rpos THEN 1 ELSE written - rpos
  BY DEF Queue!Read, Queue!Bytes
<1>3. (CASE got = <<>> ->
              /\ tokens' = Returned("content", CString(text))
              /\ text' = <<>> /\ pc' = "read"
         [] got # <<>> /\ IsContent(input[got[1]]) ->
              text' = text \o got /\ pc' = "keep" /\ UNCHANGED tokens
         [] OTHER ->
              pc' = "give_back" /\ UNCHANGED <<tokens, text>>)
  OBVIOUS
<1> HIDE DEF got
<1>4. CASE rpos = written
  <2>1. got = <<>> /\ rpos' = rpos
    BY <1>2, <1>4
  <2>2. tokens' = Returned("content", CString(text)) /\ text' = <<>> /\ pc' = "read"
    BY <1>3, <2>1, Zenon
  <2> QED
    BY <1>1, <1>4, <2>1, <2>2
<1>5. CASE rpos < written
  <2>1. got = [i \in 1..1 |-> rpos + i] /\ rpos' = rpos + 1
    BY <1>2, <1>5
  <2>2. got # <<>> /\ got[1] = rpos + 1 /\ got = <<rpos + 1>>
    BY <2>1
  <2>3. CASE IsContent(input[got[1]])
    <3>1. text' = text \o got /\ pc' = "keep" /\ UNCHANGED tokens
      BY <1>3, <2>2, <2>3, Zenon
    <3> QED
      BY <1>1, <1>5, <2>1, <2>2, <2>3, <3>1
  <2>4. CASE ~IsContent(input[got[1]])
    <3>1. pc' = "give_back" /\ UNCHANGED <<tokens, text>>
      BY <1>3, <2>2, <2>4, Zenon
    <3> QED
      BY <1>1, <1>5, <2>1, <2>2, <2>4, <3>1
  <2> QED
    BY <2>3, <2>4
<1>6. rpos = written \/ rpos < written
  OBVIOUS
<1> QED
  BY <1>4, <1>5, <1>6, Zenon
-----------------------------------------------------------------------------
(* A token can begin after p bytes.                                        *)
Fresh(s, p) == Kind(s, p) \in {"start", "newline", "content", "last"}

Newlines(s, p, q) == \A i \in p+1..q : s[i] = "n"

Content(s, p, q) == \A i \in p+1..q : Kind(s, i) = "content"

(* The bytes after p that were returned already are newlines.              *)
Behind(s, ts, p) ==
  ts # <<>> => p <= ts[Len(ts)].to /\ Newlines(s, p, ts[Len(ts)].to)

(* Between two tokens, at p, with c bytes committed.                       *)
Boundary(s, ts, c, p) ==
  Fresh(s, p) /\ c <= p /\ Newlines(s, c, p) /\ Behind(s, ts, p)

TokenRec ==
  [type : {"newline", "content", "escape"}, from : Nat, to : Nat, value : Seq(Nat)]

(* What TokensFitTheStream says of a token, byte by byte.                  *)
Fits(s, t) ==
  /\ t.from < t.to /\ t.to <= Len(s)
  /\ t.type = "newline" => t.to = t.from + 1 /\ Kind(s, t.to) = "newline"
  /\ t.type = "content" => Content(s, t.from, t.to)
  /\ t.type = "escape" =>
       /\ t.from + 1 < t.to /\ Kind(s, t.from + 1) = "esc" /\ Kind(s, t.to) = "last"
       /\ \A i \in t.from + 2 .. t.to - 1 : Kind(s, i) \in Middle

(* The tokens fit, and the next repeats nothing but newlines.              *)
InLine(s, ts) ==
  /\ \A k \in DOMAIN ts : Fits(s, ts[k])
  /\ \A k \in 1..Len(ts)-1 :
       ts[k+1].from <= ts[k].to /\ Newlines(s, ts[k+1].from, ts[k].to)

(* r bytes of s are read, f of them before the escape sequence.            *)
InSequence(s, f, r, st, fe) ==
  /\ f < r /\ s[f+1] = "e" /\ Kind(s, f+1) = "esc"
  /\ \A i \in f+2..r-1 : Kind(s, i) \in Middle
  /\ st = "ESC" => r = f + 1 /\ ~fe
  /\ st = "PARAM" => f + 1 < r /\ Kind(s, r) = IF fe THEN "first" ELSE "param"
  /\ st = "INTER" => f + 1 < r /\ Kind(s, r) = "inter"
  /\ st = "DEFAULT" => f + 1 < r /\ Kind(s, r) = "last"

(* What HoldsBackOneSequence says of the bytes after r.                    *)
HeldBack(s, r) ==
  r < Len(s) =>
    \E k \in r + 1 .. Len(s) :
      /\ Newlines(s, r, k - 1) /\ s[k] = "e"
      /\ \A i \in k + 1 .. Len(s) : Kind(s, i) \in Middle \cup {"held"}

Types ==
  /\ input \in Seq(Classes) /\ written = Len(input)
  /\ committed \in Nat /\ rpos \in Nat /\ from \in Nat
  /\ committed <= rpos /\ rpos <= written
  /\ text \in Seq(Nat) /\ tokens \in Seq(TokenRec)
  /\ state \in {"ESC", "PARAM", "INTER", "DEFAULT"} /\ afterFe \in BOOLEAN

(* Where the tokenizer is in the stream, at each of its steps.             *)
Phase ==
  /\ pc \in {"idle", "read"} => Boundary(input, tokens, committed, rpos)
  /\ pc = "idle" => HeldBack(input, rpos)
  /\ pc \in {"newline", "escape"} =>
       /\ from = rpos /\ Boundary(input, tokens, committed, rpos) /\ rpos < written
       /\ input[rpos + 1] = IF pc = "newline" THEN "n" ELSE "e"
  /\ pc = "content" =>
       /\ Behind(input, tokens, from) /\ Content(input, from, rpos)
       /\ \/ /\ rpos = from /\ Fresh(input, from) /\ rpos < written
             /\ IsContent(input[rpos + 1])
          \/ from < rpos /\ committed = rpos
  /\ pc = "keep" =>
       Behind(input, tokens, from) /\ from < rpos /\ Content(input, from, rpos)
  /\ pc = "give_back" =>
       Behind(input, tokens, from) /\ from < committed /\ Content(input, from, committed)
  /\ pc = "sequence" =>
       Boundary(input, tokens, committed, from) /\ InSequence(input, from, rpos, state, afterFe)

(* The inductive invariant.                                                *)
TokenizerInv == Types /\ Fresh(input, committed) /\ InLine(input, tokens) /\ Phase
-----------------------------------------------------------------------------
(* What is known of the bytes that arrived stays known when more arrive.   *)
LEMMA MoreInput ==
  ASSUME NEW s \in Seq(Classes), NEW t \in Seq(Classes), Len(s) <= Len(t),
         \A i \in 1..Len(s) : t[i] = s[i]
  PROVE  /\ \A p \in 0..Len(s) : Fresh(s, p) => Fresh(t, p)
         /\ \A p \in Nat, q \in 0..Len(s) : Newlines(s, p, q) => Newlines(t, p, q)
         /\ \A ts \in Seq(TokenRec) : InLine(s, ts) => InLine(t, ts)
         /\ \A ts \in Seq(TokenRec), p \in Nat :
              InLine(s, ts) /\ Behind(s, ts, p) => Behind(t, ts, p)
<1>1. \A i \in 0..Len(s) : Kind(t, i) = Kind(s, i)
  BY KindsStay
<1>2. \A p \in 0..Len(s) : Fresh(s, p) => Fresh(t, p)
  BY <1>1 DEF Fresh
<1>3. \A p \in Nat, q \in 0..Len(s) : Newlines(s, p, q) => Newlines(t, p, q)
  <2> SUFFICES ASSUME NEW p \in Nat, NEW q \in 0..Len(s), Newlines(s, p, q)
               PROVE  \A i \in p+1..q : t[i] = "n"
    BY DEF Newlines
  <2>1. \A i \in p+1..q : i \in 1..Len(s)
    OBVIOUS
  <2> QED
    BY <2>1 DEF Newlines
<1>4. \A r \in TokenRec : Fits(s, r) => Fits(t, r) /\ r.to \in 0..Len(s)
  <2> SUFFICES ASSUME NEW r \in TokenRec, Fits(s, r) PROVE Fits(t, r) /\ r.to \in 0..Len(s)
    OBVIOUS
  <2>1. r.from \in Nat /\ r.to \in Nat /\ r.from < r.to /\ r.to <= Len(s)
    BY DEF TokenRec, Fits
  <2>2. \A i \in r.from+1..r.to : Kind(t, i) = Kind(s, i)
    <3>1. \A i \in r.from+1..r.to : i \in 0..Len(s)
      BY <2>1
    <3> QED
      BY <1>1, <3>1
  <2>3. r.to \in r.from+1..r.to /\ r.from + 1 \in r.from+1..r.to
    BY <2>1
  <2>4. \A i \in r.from+2..r.to-1 : i \in r.from+1..r.to
    BY <2>1
  <2> QED
    BY <2>1, <2>2, <2>3, <2>4 DEF Fits, Content
<1>5. \A ts \in Seq(TokenRec) : InLine(s, ts) => InLine(t, ts)
  <2> SUFFICES ASSUME NEW ts \in Seq(TokenRec), InLine(s, ts) PROVE InLine(t, ts)
    OBVIOUS
  <2>1. \A k \in DOMAIN ts : ts[k] \in TokenRec
    OBVIOUS
  <2>2. \A k \in DOMAIN ts : Fits(t, ts[k]) /\ ts[k].to \in 0..Len(s) /\ ts[k].from \in Nat
    BY <1>4, <2>1 DEF InLine, TokenRec
  <2>3. \A k \in 1..Len(ts)-1 : k \in DOMAIN ts /\ k + 1 \in DOMAIN ts
    OBVIOUS
  <2>4. ASSUME NEW k \in 1..Len(ts)-1
        PROVE  ts[k+1].from <= ts[k].to /\ Newlines(t, ts[k+1].from, ts[k].to)
    BY <1>3, <2>2, <2>3 DEF InLine
  <2> QED
    BY <2>2, <2>4 DEF InLine
<1>6. \A ts \in Seq(TokenRec), p \in Nat :
        InLine(s, ts) /\ Behind(s, ts, p) => Behind(t, ts, p)
  <2> SUFFICES ASSUME NEW ts \in Seq(TokenRec), NEW p \in Nat, InLine(s, ts), Behind(s, ts, p),
                      ts # <<>>
               PROVE  p <= ts[Len(ts)].to /\ Newlines(t, p, ts[Len(ts)].to)
    BY DEF Behind
  <2>1. Len(ts) \in DOMAIN ts /\ ts[Len(ts)] \in TokenRec
    OBVIOUS
  <2>2. ts[Len(ts)].to \in 0..Len(s)
    BY <1>4, <2>1 DEF InLine
  <2> QED
    BY <1>3, <2>2 DEF Behind
<1> QED
  BY <1>2, <1>3, <1>5, <1>6

(* A token that fits and repeats only newlines is added at the end.        *)
LEMMA TokenAdded ==
  ASSUME NEW s, NEW ts \in Seq(TokenRec), NEW r \in TokenRec,
         InLine(s, ts), Fits(s, r), Behind(s, ts, r.from),
         NEW more, more = Append(ts, r)
  PROVE  more \in Seq(TokenRec) /\ InLine(s, more) /\ Behind(s, more, r.to)
<1>1. /\ more \in Seq(TokenRec) /\ Len(more) = Len(ts) + 1 /\ more[Len(ts)+1] = r
      /\ \A k \in 1..Len(ts) : more[k] = ts[k]
      /\ DOMAIN ts = 1..Len(ts) /\ DOMAIN more = 1..Len(ts)+1 /\ Len(ts) \in Nat
  OBVIOUS
<1>2. \A k \in DOMAIN more : Fits(s, more[k])
  BY <1>1 DEF InLine
<1>3. \A k \in 1..Len(more)-1 :
        more[k+1].from <= more[k].to /\ Newlines(s, more[k+1].from, more[k].to)
  <2> SUFFICES ASSUME NEW k \in 1..Len(more)-1
               PROVE  more[k+1].from <= more[k].to /\ Newlines(s, more[k+1].from, more[k].to)
    OBVIOUS
  <2>1. k \in 1..Len(ts)
    BY <1>1
  <2>2. CASE k = Len(ts)
    <3>1. ts # <<>>
      BY <2>1
    <3> QED
      BY <1>1, <2>1, <2>2, <3>1 DEF Behind
  <2>3. CASE k # Len(ts)
    <3>1. Len(ts) \in Nat
      BY <1>1
    <3>2. k \in 1..Len(ts)-1 /\ k + 1 \in 1..Len(ts)
      BY <2>1, <2>3, <3>1
    <3> QED
      BY <1>1, <2>1, <3>2 DEF InLine
  <2> QED
    BY <2>2, <2>3
<1>4. Behind(s, more, r.to)
  <2>1. r.to \in Nat
    BY DEF TokenRec
  <2>2. Newlines(s, r.to, r.to) /\ r.to <= r.to
    BY <2>1 DEF Newlines
  <2> QED
    BY <1>1, <2>2 DEF Behind
<1> QED
  BY <1>1, <1>2, <1>3, <1>4 DEF InLine

(* A C string is a part of the bytes it was read from.                     *)
LEMMA CStringPlaces ==
  ASSUME NEW places \in Seq(Nat)
  PROVE  CString(places) \in Seq(Nat)
<1> DEFINE k == SelectInSeq(places, LAMBDA i : input[i] = "0")
           I == {j \in 1..Len(places) : input[places[j]] = "0"}
<1>1. k = IF I # {} THEN Min(I) ELSE 0
  BY DEF SelectInSeq
<1>2. I # {} => Min(I) \in 1..Len(places)
  <2> SUFFICES ASSUME I # {} PROVE Min(I) \in 1..Len(places)
    OBVIOUS
  <2>1. I \in SUBSET Nat
    OBVIOUS
  <2> HIDE DEF I
  <2>2. \E least \in I : \A m \in I : least <= m
    BY <2>1, LeastNatural
  <2>3. Min(I) \in I
    BY <2>2 DEF Min
  <2> QED
    BY <2>3 DEF I
<1>3. k = 0 \/ k \in 1..Len(places)
  BY <1>1, <1>2
<1>4. CString(places) = IF k = 0 THEN places ELSE SubSeq(places, 1, k - 1)
  BY DEF CString
<1> HIDE DEF k
<1> QED
  BY <1>3, <1>4
-----------------------------------------------------------------------------
(* Nothing arrived, nothing is read.                                       *)
LEMMA InitInv == Init => TokenizerInv
<1> SUFFICES ASSUME Init PROVE TokenizerInv
  OBVIOUS
<1> USE DEF Init, Queue!Init
<1>1. input = <<>> /\ <<>> \in Seq(Classes) /\ Len(<<>>) = 0
  OBVIOUS
<1>2. Types
  <2>1. text \in Seq(Nat) /\ tokens \in Seq(TokenRec)
    OBVIOUS
  <2>2. written = Len(input) /\ committed = 0 /\ rpos = 0 /\ from = 0
    BY <1>1
  <2>3. input \in Seq(Classes) /\ state = "DEFAULT" /\ afterFe = FALSE
    BY <1>1
  <2>4. written = 0 /\ 0 <= 0 /\ 0 \in Nat
    OBVIOUS
  <2>5. state \in {"ESC", "PARAM", "INTER", "DEFAULT"} /\ afterFe \in BOOLEAN
    BY <2>3, Zenon
  <2>6. committed \in Nat /\ rpos \in Nat /\ from \in Nat /\ committed <= rpos /\ rpos <= written
    BY <2>2, <2>4
  <2> HIDE DEF Init, Queue!Init
  <2> QED
    BY <2>1, <2>2, <2>3, <2>5, <2>6, Zenon DEF Types
<1>3. Fresh(input, 0)
  BY <1>1, KindIs DEF Fresh
<1>4. InLine(input, tokens)
  BY DEF InLine
<1>5. Boundary(input, tokens, 0, 0)
  BY <1>3 DEF Boundary, Behind, Newlines
<1>6. HeldBack(input, 0)
  BY <1>1 DEF HeldBack
<1>7. Phase
  BY <1>5, <1>6 DEF Phase
<1> QED
  BY <1>2, <1>3, <1>4, <1>7 DEF TokenizerInv

(* Output that arrives continues what is known of the output before it.    *)
LEMMA ReceiveKeeps ==
  ASSUME TokenizerInv, NEW n \in 1..MaxInput - Len(input), NEW piece \in [1..n -> Classes],
         Receive(piece)
  PROVE  TokenizerInv'
<1> USE DEF Receive
<1>1. /\ pc = "idle" /\ pc' = "read" /\ input' = input \o piece
      /\ UNCHANGED <<committed, rpos, state, afterFe, from, text, tokens>>
      /\ written' = written + Len(piece)
  BY DEF Queue!Write
<1>2. input \in Seq(Classes) /\ piece \in Seq(Classes) /\ n \in Nat
  <2>1. n \in Nat
    BY ClassesAssumption DEF TokenizerInv, Types
  <2> QED
    BY <2>1 DEF TokenizerInv, Types
<1>3. /\ input' \in Seq(Classes) /\ Len(input') = Len(input) + Len(piece)
      /\ \A i \in 1..Len(input) : input'[i] = input[i]
  BY <1>1, <1>2
<1>4. Len(input) \in Nat /\ Len(piece) \in Nat /\ Len(input) <= Len(input')
  BY <1>2, <1>3
<1>5. Types'
  <2> USE DEF Types
  <2>1. input' \in Seq(Classes) /\ written' = Len(input')
    BY <1>1, <1>3 DEF TokenizerInv
  <2>2. committed' \in Nat /\ rpos' \in Nat /\ from' \in Nat
    BY <1>1 DEF TokenizerInv
  <2>3. committed' <= rpos' /\ rpos' <= written'
    BY <1>1, <1>4 DEF TokenizerInv
  <2>4. text' \in Seq(Nat) /\ tokens' \in Seq(TokenRec)
    BY <1>1 DEF TokenizerInv
  <2>5. state' \in {"ESC", "PARAM", "INTER", "DEFAULT"} /\ afterFe' \in BOOLEAN
    BY <1>1 DEF TokenizerInv
  <2> QED
    BY <2>1, <2>2, <2>3, <2>4, <2>5
<1>6. committed \in 0..Len(input) /\ rpos \in 0..Len(input) /\ tokens \in Seq(TokenRec)
  BY DEF TokenizerInv, Types
<1>7. /\ Fresh(input', committed) /\ Fresh(input', rpos) /\ InLine(input', tokens)
      /\ Newlines(input', committed, rpos) /\ Behind(input', tokens, rpos)
      /\ committed <= rpos
  <2>1. Fresh(input, committed) /\ InLine(input, tokens)
    BY DEF TokenizerInv
  <2>2. Boundary(input, tokens, committed, rpos)
    BY <1>1 DEF TokenizerInv, Phase
  <2>3. Newlines(input, committed, rpos) /\ Behind(input, tokens, rpos) /\ committed <= rpos
        /\ Fresh(input, rpos)
    BY <2>2 DEF Boundary
  <2> DEFINE t == input'
  <2>4. t \in Seq(Classes) /\ Len(input) <= Len(t) /\ \A i \in 1..Len(input) : t[i] = input[i]
    BY <1>3, <1>4
  <2> HIDE DEF t
  <2>5. /\ \A p \in 0..Len(input) : Fresh(input, p) => Fresh(t, p)
        /\ \A p \in Nat, q \in 0..Len(input) : Newlines(input, p, q) => Newlines(t, p, q)
        /\ \A ts \in Seq(TokenRec) : InLine(input, ts) => InLine(t, ts)
        /\ \A ts \in Seq(TokenRec), p \in Nat :
             InLine(input, ts) /\ Behind(input, ts, p) => Behind(t, ts, p)
    BY <1>2, <2>4, MoreInput
  <2>6. committed \in Nat /\ rpos \in Nat
    BY <1>2, <1>6
  <2> QED
    BY <1>6, <2>1, <2>3, <2>5, <2>6 DEF t
<1>8. Phase'
  <2>1. Boundary(input', tokens', committed', rpos')
    BY <1>1, <1>7 DEF Boundary
  <2> QED
    BY <1>1, <2>1 DEF Phase
<1> QED
  BY <1>1, <1>5, <1>7, <1>8 DEF TokenizerInv

(* What the invariant says of the numbers.                                 *)
LEMMA Numbers ==
  ASSUME TokenizerInv
  PROVE  /\ input \in Seq(Classes) /\ written = Len(input) /\ written \in Nat
         /\ committed \in Nat /\ rpos \in Nat /\ from \in Nat
         /\ committed <= rpos /\ rpos <= written
         /\ text \in Seq(Nat) /\ tokens \in Seq(TokenRec)
         /\ InLine(input, tokens) /\ Fresh(input, committed)
  BY DEF TokenizerInv, Types

(* What begins at a boundary is a newline, a sequence or content; the      *)
(* tokenizer waits only when everything was returned.                      *)
LEMMA TokenizerReadKeeps ==
  ASSUME TokenizerInv, TokenizerRead
  PROVE  TokenizerInv'
<1>1. pc = "read"
  BY DEF TokenizerRead
<1>2. /\ UNCHANGED <<input, written, committed, rpos, state, afterFe, text, tokens>>
      /\ from' = rpos
      /\ rpos = written => pc' = "idle"
      /\ rpos < written =>
           \/ pc' = "newline" /\ input[rpos + 1] = "n"
           \/ pc' = "escape" /\ input[rpos + 1] = "e"
           \/ pc' = "content" /\ IsContent(input[rpos + 1])
  BY Numbers, WhatBegins
<1>3. Types'
  BY <1>2 DEF TokenizerInv, Types
<1>4. Boundary(input, tokens, committed, rpos)
  BY <1>1 DEF TokenizerInv, Phase
<1>5. Phase'
  <2>1. CASE rpos = written
    <3>1. HeldBack(input, rpos)
      BY <2>1, Numbers DEF HeldBack
    <3> QED
      BY <1>2, <1>4, <2>1, <3>1 DEF Phase
  <2>2. CASE rpos < written
    <3>1. Content(input, rpos, rpos)
      BY Numbers DEF Content
    <3>2. Fresh(input, rpos) /\ Behind(input, tokens, rpos)
      BY <1>4 DEF Boundary
    <3>3. CASE pc' = "newline" /\ input[rpos + 1] = "n"
      BY <1>2, <1>4, <2>2, <3>3 DEF Phase
    <3>4. CASE pc' = "escape" /\ input[rpos + 1] = "e"
      BY <1>2, <1>4, <2>2, <3>4 DEF Phase
    <3>5. CASE pc' = "content" /\ IsContent(input[rpos + 1])
      BY <1>2, <2>2, <3>1, <3>2, <3>5 DEF Phase
    <3> QED
      BY <1>2, <2>2, <3>3, <3>4, <3>5
  <2> QED
    BY <2>1, <2>2, Numbers
<1> QED
  BY <1>2, <1>3, <1>5 DEF TokenizerInv

(* The newline is not committed, so it may be read again.                  *)
LEMMA ReadNewlineKeeps ==
  ASSUME TokenizerInv, ReadNewline
  PROVE  TokenizerInv'
<1>1. /\ pc = "newline" /\ pc' = "read"
      /\ UNCHANGED <<input, written, committed, state, afterFe, from, text>>
      /\ rpos' = IF rpos + 1 <= written THEN rpos + 1 ELSE rpos
      /\ tokens' = Append(tokens, [type |-> "newline", from |-> from, to |-> rpos',
                                   value |-> <<rpos + 1>>])
  BY DEF ReadNewline, Queue!Advance, Returned
<1>2. /\ from = rpos /\ Boundary(input, tokens, committed, rpos) /\ rpos < written
      /\ input[rpos + 1] = "n"
  BY <1>1 DEF TokenizerInv, Phase
<1>3. rpos' = rpos + 1 /\ rpos + 1 \in Nat /\ rpos + 1 \in 1..Len(input) /\ (rpos + 1) - 1 = rpos
  BY <1>1, <1>2, Numbers
<1>4. Kind(input, rpos + 1) = "newline"
  <2>1. Kind(input, rpos + 1) = KindAfter(Kind(input, rpos), input[rpos + 1])
    BY <1>3, Numbers, KindIs
  <2> QED
    BY <1>2, <2>1, OutsideStep DEF Boundary, Fresh
<1> DEFINE r == [type |-> "newline", from |-> from, to |-> rpos', value |-> <<rpos + 1>>]
<1>5. /\ r \in TokenRec /\ r.from = rpos /\ r.to = rpos + 1 /\ r.type = "newline"
      /\ tokens' = Append(tokens, r)
  BY <1>1, <1>2, <1>3, Numbers DEF TokenRec
<1> HIDE DEF r
<1>6. Fits(input, r)
  BY <1>3, <1>4, <1>5, Numbers DEF Fits
<1>7. tokens' \in Seq(TokenRec) /\ InLine(input, tokens') /\ Behind(input, tokens', rpos + 1)
  BY <1>2, <1>5, <1>6, Numbers, TokenAdded DEF Boundary
<1>8. Boundary(input, tokens', committed, rpos + 1)
  <2>1. committed <= rpos + 1 /\ Fresh(input, rpos + 1)
    BY <1>4, Numbers DEF Fresh
  <2>2. Newlines(input, committed, rpos + 1)
    <3>1. Newlines(input, committed, rpos)
      BY <1>2 DEF Boundary
    <3> QED
      BY <1>2, <3>1, Numbers DEF Newlines
  <2> QED
    BY <1>7, <2>1, <2>2 DEF Boundary
<1>9. Types'
  <2>1. committed' <= rpos' /\ rpos' <= written'
    BY <1>1, <1>3, Numbers
  <2> QED
    BY <1>1, <1>3, <1>7, <2>1 DEF TokenizerInv, Types
<1>10. Phase'
  BY <1>1, <1>3, <1>8 DEF Phase
<1> QED
  BY <1>1, <1>7, <1>9, <1>10, Numbers DEF TokenizerInv

(* A byte is content, or it is what ends it, or there is none.             *)
LEMMA ReadContentByteKeeps ==
  ASSUME TokenizerInv, ReadContentByte
  PROVE  TokenizerInv'
<1>1. pc = "content"
  BY DEF ReadContentByte
<1>2. /\ UNCHANGED <<input, written, committed, state, afterFe, from>>
      /\ \/ /\ rpos = written /\ rpos' = rpos /\ pc' = "read" /\ text' = <<>>
            /\ tokens' = Returned("content", CString(text))
         \/ /\ rpos < written /\ rpos' = rpos + 1 /\ IsContent(input[rpos + 1])
            /\ pc' = "keep" /\ tokens' = tokens /\ text' = text \o <<rpos + 1>>
         \/ /\ rpos < written /\ rpos' = rpos + 1 /\ ~IsContent(input[rpos + 1])
            /\ pc' = "give_back" /\ UNCHANGED <<tokens, text>>
  BY Numbers, ContentByte
<1>3. /\ Behind(input, tokens, from) /\ Content(input, from, rpos)
      /\ \/ /\ rpos = from /\ Fresh(input, from) /\ rpos < written
            /\ IsContent(input[rpos + 1])
         \/ from < rpos /\ committed = rpos
  BY <1>1 DEF TokenizerInv, Phase
<1>4. CASE /\ rpos = written /\ rpos' = rpos /\ pc' = "read" /\ text' = <<>>
           /\ tokens' = Returned("content", CString(text))
  <2> DEFINE r == [type |-> "content", from |-> from, to |-> rpos', value |-> CString(text)]
  <2>1. from < rpos /\ committed = rpos
    BY <1>3, <1>4, Numbers
  <2>2. CString(text) \in Seq(Nat)
    BY Numbers, CStringPlaces
  <2>3. /\ r \in TokenRec /\ r.from = from /\ r.to = rpos /\ r.type = "content"
        /\ tokens' = Append(tokens, r)
    BY <1>4, <2>2, Numbers DEF TokenRec, Returned
  <2> HIDE DEF r
  <2>4. Fits(input, r)
    BY <1>3, <2>1, <2>3, Numbers DEF Fits
  <2>5. tokens' \in Seq(TokenRec) /\ InLine(input, tokens') /\ Behind(input, tokens', rpos)
    BY <1>3, <2>3, <2>4, Numbers, TokenAdded
  <2>6. Boundary(input, tokens', committed, rpos)
    <3>1. Newlines(input, committed, rpos) /\ committed <= rpos
      BY <2>1, Numbers DEF Newlines
    <3> QED
      BY <2>1, <2>5, <3>1, Numbers DEF Boundary
  <2>7. Types'
    BY <1>2, <1>4, <2>5 DEF TokenizerInv, Types
  <2>8. Phase'
    BY <1>2, <1>4, <2>6 DEF Phase
  <2> QED
    BY <1>2, <2>5, <2>7, <2>8, Numbers DEF TokenizerInv
<1>5. CASE /\ rpos < written /\ rpos' = rpos + 1 /\ IsContent(input[rpos + 1])
           /\ pc' = "keep" /\ tokens' = tokens /\ text' = text \o <<rpos + 1>>
  <2>1. rpos + 1 \in 1..Len(input) /\ (rpos + 1) - 1 = rpos /\ from <= rpos
    BY <1>3, <1>5, Numbers
  <2>2. Kind(input, rpos) \in {"start", "newline", "content", "last"}
    <3>1. CASE rpos = from
      BY <1>3, <3>1, Numbers DEF Fresh
    <3>2. CASE from < rpos
      <4>1. rpos \in from+1..rpos
        BY <3>2, Numbers
      <4> QED
        BY <1>3, <4>1 DEF Content
    <3> QED
      BY <1>3, <3>1, <3>2
  <2>3. Kind(input, rpos + 1) = "content"
    <3>1. Kind(input, rpos + 1) = KindAfter(Kind(input, rpos), input[rpos + 1])
      BY <2>1, Numbers, KindIs
    <3> QED
      BY <1>5, <2>2, <3>1, OutsideStep
  <2>4. Content(input, from, rpos + 1) /\ from < rpos + 1
    <3>1. \A i \in from+1..rpos+1 : i \in from+1..rpos \/ i = rpos + 1
      BY Numbers
    <3> QED
      BY <1>3, <2>1, <2>3, <3>1, Numbers DEF Content
  <2>5. text' \in Seq(Nat)
    BY <1>5, Numbers
  <2>6. committed' <= rpos' /\ rpos' <= written' /\ rpos' \in Nat
    BY <1>2, <1>5, Numbers
  <2>7. Types'
    BY <1>2, <1>5, <2>5, <2>6 DEF TokenizerInv, Types
  <2>8. Phase'
    BY <1>2, <1>3, <1>5, <2>4 DEF Phase
  <2> QED
    BY <1>2, <1>5, <2>7, <2>8, Numbers DEF TokenizerInv
<1>6. CASE /\ rpos < written /\ rpos' = rpos + 1 /\ ~IsContent(input[rpos + 1])
           /\ pc' = "give_back" /\ UNCHANGED <<tokens, text>>
  <2>1. from < committed /\ committed = rpos
    BY <1>3, <1>6
  <2>2. committed' <= rpos' /\ rpos' <= written' /\ rpos' \in Nat
    BY <1>2, <1>6, Numbers
  <2>3. Types'
    BY <1>2, <1>6, <2>2 DEF TokenizerInv, Types
  <2>4. Phase'
    BY <1>2, <1>3, <1>6, <2>1 DEF Phase
  <2> QED
    BY <1>2, <1>6, <2>3, <2>4, Numbers DEF TokenizerInv
<1> QED
  BY <1>2, <1>4, <1>5, <1>6, Zenon

(* After a byte of content a token may begin, so it can be committed.      *)
LEMMA KeepContentByteKeeps ==
  ASSUME TokenizerInv, KeepContentByte
  PROVE  TokenizerInv'
<1>1. /\ pc = "keep" /\ pc' = "content" /\ committed' = rpos
      /\ UNCHANGED <<input, written, rpos, state, afterFe, from, text, tokens>>
  BY DEF KeepContentByte, Queue!Commit
<1>2. Behind(input, tokens, from) /\ from < rpos /\ Content(input, from, rpos)
  BY <1>1 DEF TokenizerInv, Phase
<1>3. Fresh(input, rpos)
  <2>1. rpos \in from+1..rpos
    BY <1>2, Numbers
  <2> QED
    BY <1>2, <2>1 DEF Content, Fresh
<1>4. Types'
  BY <1>1 DEF TokenizerInv, Types
<1>5. Phase'
  BY <1>1, <1>2 DEF Phase
<1> QED
  BY <1>1, <1>3, <1>4, <1>5, Numbers DEF TokenizerInv

(* The byte that is not content is read again; the content before it is    *)
(* committed.                                                              *)
LEMMA GiveBackByteKeeps ==
  ASSUME TokenizerInv, GiveBackByte
  PROVE  TokenizerInv'
<1> DEFINE r == [type |-> "content", from |-> from, to |-> rpos', value |-> CString(text)]
<1>1. /\ pc = "give_back" /\ pc' = "read" /\ rpos' = committed /\ text' = <<>>
      /\ UNCHANGED <<input, written, committed, state, afterFe, from>>
      /\ tokens' = Append(tokens, r)
  BY DEF GiveBackByte, Queue!Rollback, Returned
<1>2. Behind(input, tokens, from) /\ from < committed /\ Content(input, from, committed)
  BY <1>1 DEF TokenizerInv, Phase
<1>3. CString(text) \in Seq(Nat)
  BY Numbers, CStringPlaces
<1>4. r \in TokenRec /\ r.from = from /\ r.to = committed /\ r.type = "content"
  BY <1>1, <1>3, Numbers DEF TokenRec
<1> HIDE DEF r
<1>5. Fits(input, r)
  BY <1>2, <1>4, Numbers DEF Fits
<1>6. tokens' \in Seq(TokenRec) /\ InLine(input, tokens') /\ Behind(input, tokens', committed)
  BY <1>1, <1>2, <1>4, <1>5, Numbers, TokenAdded
<1>7. Boundary(input, tokens', committed, committed)
  BY <1>6, Numbers DEF Boundary, Newlines
<1>8. committed' <= rpos' /\ rpos' <= written'
  BY <1>1, Numbers
<1>9. Types'
  BY <1>1, <1>6, <1>8 DEF TokenizerInv, Types
<1>10. Phase'
  BY <1>1, <1>7 DEF Phase
<1> QED
  BY <1>1, <1>6, <1>9, <1>10, Numbers DEF TokenizerInv
-----------------------------------------------------------------------------
(* The escape character is the one tokenizer_read peeked at.               *)
LEMMA BeginEscapeKeeps ==
  ASSUME TokenizerInv, BeginEscape
  PROVE  TokenizerInv'
<1>1. /\ pc = "escape" /\ pc' = "sequence" /\ state' = "ESC" /\ afterFe' = FALSE
      /\ UNCHANGED <<input, written, committed, from, text, tokens>>
      /\ rpos' = rpos + IF 1 < written - rpos THEN 1 ELSE written - rpos
  BY DEF BeginEscape, Queue!Read
<1>2. /\ from = rpos /\ Boundary(input, tokens, committed, rpos) /\ rpos < written
      /\ input[rpos + 1] = "e"
  BY <1>1 DEF TokenizerInv, Phase
<1>3. rpos' = rpos + 1 /\ rpos + 1 \in 1..Len(input) /\ (rpos + 1) - 1 = rpos
  <2>1. rpos \in Nat /\ written \in Nat /\ written = Len(input)
    BY Numbers
  <2>2. rpos' = rpos + 1
    BY <1>1, <1>2, <2>1
  <2> QED
    BY <1>2, <2>1, <2>2
<1>4. Kind(input, rpos + 1) = "esc"
  <2>1. Kind(input, rpos + 1) = KindAfter(Kind(input, rpos), input[rpos + 1])
    BY <1>3, Numbers, KindIs
  <2> QED
    BY <1>2, <2>1, OutsideStep DEF Boundary, Fresh
<1>5. InSequence(input, from, rpos + 1, "ESC", FALSE)
  <2>1. \A i \in from+2..(rpos+1)-1 : Kind(input, i) \in Middle
    BY <1>2, Numbers
  <2> QED
    BY <1>2, <1>4, <2>1, Numbers DEF InSequence
<1>6. committed' <= rpos' /\ rpos' <= written' /\ rpos' \in Nat
  BY <1>1, <1>2, <1>3, Numbers
<1>7. Types'
  BY <1>1, <1>6 DEF TokenizerInv, Types
<1>8. Phase'
  BY <1>1, <1>2, <1>3, <1>5 DEF Phase
<1> QED
  BY <1>1, <1>7, <1>8, Numbers DEF TokenizerInv

(* The last byte read of an open sequence, by the state.                   *)
LEMMA LastRead ==
  ASSUME TokenizerInv, pc = "sequence", state # "DEFAULT"
  PROVE  /\ from < rpos
         /\ state = "ESC" => rpos = from + 1 /\ Kind(input, rpos) = "esc" /\ ~afterFe
         /\ state = "PARAM" => from + 1 < rpos
                               /\ Kind(input, rpos) = IF afterFe THEN "first" ELSE "param"
         /\ state = "INTER" => from + 1 < rpos /\ Kind(input, rpos) = "inter"
         /\ state \in {"ESC", "PARAM", "INTER"}
         /\ Kind(input, rpos) \in Open
         /\ \A i \in from + 2 .. rpos : Kind(input, i) \in Middle
<1>1. InSequence(input, from, rpos, state, afterFe)
  BY DEF TokenizerInv, Phase
<1>2. state \in {"ESC", "PARAM", "INTER"}
  BY DEF TokenizerInv, Types
<1>3. /\ from < rpos /\ Kind(input, from+1) = "esc"
      /\ \A i \in from+2..rpos-1 : Kind(input, i) \in Middle
      /\ state = "ESC" => rpos = from + 1 /\ ~afterFe
      /\ state = "PARAM" => from + 1 < rpos /\ Kind(input, rpos) = IF afterFe THEN "first" ELSE "param"
      /\ state = "INTER" => from + 1 < rpos /\ Kind(input, rpos) = "inter"
  BY <1>1 DEF InSequence
<1>4. state = "ESC" => Kind(input, rpos) = "esc"
  BY <1>3
<1>5. state # "ESC" => Kind(input, rpos) \in Middle
  BY <1>2, <1>3 DEF Middle
<1>6. Kind(input, rpos) \in Open
  BY <1>4, <1>5 DEF Middle, Open
<1>7. \A i \in from + 2 .. rpos : Kind(input, i) \in Middle
  <2>1. state = "ESC" => \A i \in from + 2 .. rpos : FALSE
    BY <1>3, Numbers
  <2>2. \A i \in from + 2 .. rpos : i \in from+2..rpos-1 \/ i = rpos
    BY Numbers
  <2> QED
    BY <1>3, <1>5, <2>1, <2>2
<1> QED
  BY <1>2, <1>3, <1>4, <1>6, <1>7

(* Nothing is claimed of the loop that never ends.                         *)
LEMMA ReadPrivateKeeps ==
  ASSUME TokenizerInv, ReadPrivate
  PROVE  TokenizerInv'
<1>1. /\ pc' = "looping"
      /\ UNCHANGED <<input, written, committed, rpos, state, afterFe, from, text, tokens>>
  BY DEF ReadPrivate, streamVars
<1>2. Types'
  BY <1>1 DEF TokenizerInv, Types
<1>3. Phase'
  BY <1>1 DEF Phase
<1> QED
  BY <1>1, <1>2, <1>3, Numbers DEF TokenizerInv

(* The state and the kind of the byte that was read last go together.      *)
LEMMA ReadEscapeByteKeeps ==
  ASSUME TokenizerInv, ReadEscapeByte
  PROVE  TokenizerInv'
<1> DEFINE c == input[rpos + 1]
<1>1. /\ pc = "sequence" /\ state # "DEFAULT" /\ Peeked # "0" /\ ~Loops
      /\ state' = After(Peeked) /\ afterFe' = (state = "ESC" /\ Peeked = "[")
      /\ UNCHANGED <<input, written, committed, pc, from, text, tokens>>
      /\ rpos' = IF rpos + 1 <= written THEN rpos + 1 ELSE rpos
  BY DEF ReadEscapeByte, Queue!Advance
<1>2. rpos < written /\ Peeked = c
  BY <1>1 DEF Peeked
<1>3. rpos' = rpos + 1 /\ rpos + 1 \in 1..Len(input) /\ (rpos + 1) - 1 = rpos
  BY <1>1, <1>2, Numbers
<1>4. c # "0" /\ ~(state = "PARAM" /\ afterFe /\ c = "p")
  BY <1>1, <1>2 DEF Loops
<1>5. Kind(input, rpos + 1) = KindAfter(Kind(input, rpos), c)
  BY <1>3, Numbers, KindIs
<1>6. state' = After(c) /\ (afterFe' <=> (state = "ESC" /\ c = "[")) /\ afterFe' \in BOOLEAN
  BY <1>1, <1>2, Zenon
<1>7. Boundary(input, tokens, committed, from) /\ InSequence(input, from, rpos, state, afterFe)
  BY <1>1 DEF TokenizerInv, Phase
<1> DEFINE prev == Kind(input, rpos)
<1>8. /\ from < rpos
      /\ state = "ESC" => rpos = from + 1 /\ prev = "esc" /\ ~afterFe
      /\ state = "PARAM" => from + 1 < rpos /\ prev = IF afterFe THEN "first" ELSE "param"
      /\ state = "INTER" => from + 1 < rpos /\ prev = "inter"
      /\ state \in {"ESC", "PARAM", "INTER"}
      /\ prev \in Open
      /\ \A i \in from + 2 .. rpos : Kind(input, i) \in Middle
  BY <1>1, LastRead
<1> HIDE DEF c, prev
<1>9. \/ state' = "PARAM" /\ afterFe' /\ Kind(input, rpos + 1) = "first"
      \/ state' = "PARAM" /\ ~afterFe' /\ Kind(input, rpos + 1) = "param"
      \/ state' = "INTER" /\ ~afterFe' /\ Kind(input, rpos + 1) = "inter"
      \/ state' = "DEFAULT" /\ ~afterFe' /\ Kind(input, rpos + 1) = "last"
  <2>1. CASE state = "ESC" /\ c = "["
    <3>1. state' = "PARAM" /\ afterFe'
      BY <1>6, <2>1, StateStep
    <3>2. KindAfter(prev, c) = "first"
      BY <1>8, <2>1, InsideStep
    <3> QED
      BY <1>5, <3>1, <3>2 DEF prev
  <2>2. CASE state = "PARAM" /\ c = "d"
    <3>1. state' = "PARAM" /\ ~afterFe'
      BY <1>6, <2>2, StateStep
    <3>2. KindAfter(prev, c) = "param"
      BY <1>8, <2>2, InsideStep
    <3> QED
      BY <1>5, <3>1, <3>2 DEF prev
  <2>3. CASE state \in {"PARAM", "INTER"} /\ c = "i"
    <3>1. state' = "INTER" /\ ~afterFe'
      BY <1>6, <2>3, StateStep
    <3>2. KindAfter(prev, c) = "inter"
      BY <1>8, <2>3, InsideStep DEF Middle
    <3> QED
      BY <1>5, <3>1, <3>2 DEF prev
  <2>4. CASE ~(\/ state = "ESC" /\ c = "["
               \/ state = "PARAM" /\ c = "d"
               \/ state \in {"PARAM", "INTER"} /\ c = "i")
    <3>1. state' = "DEFAULT" /\ ~afterFe'
      BY <1>6, <2>4, StateStep
    <3>2. ~(prev = "first" /\ c = "p")
      BY <1>4, <1>8
    <3>3. ~(prev = "esc" /\ c = "[") /\ ~(prev \in {"first", "param"} /\ c = "d")
      BY <1>8, <2>4
    <3>4. ~(prev \in Middle /\ c = "i")
      BY <1>8, <2>4 DEF Middle
    <3>5. KindAfter(prev, c) = "last"
      BY <1>4, <1>8, <3>2, <3>3, <3>4, InsideStep
    <3> QED
      BY <1>5, <3>1, <3>5 DEF prev
  <2> QED
    BY <2>1, <2>2, <2>3, <2>4, Zenon
<1>10. InSequence(input, from, rpos + 1, state', afterFe')
  <2>1. from < rpos + 1 /\ from + 1 < rpos + 1 /\ (rpos + 1) - 1 = rpos
    BY <1>8, Numbers
  <2>2. input[from+1] = "e" /\ Kind(input, from+1) = "esc"
    BY <1>7 DEF InSequence
  <2> QED
    BY <1>8, <1>9, <2>1, <2>2 DEF InSequence
<1>11. committed' <= rpos' /\ rpos' <= written' /\ rpos' \in Nat
  BY <1>1, <1>2, <1>3, Numbers
<1>12. state' \in {"ESC", "PARAM", "INTER", "DEFAULT"}
  BY <1>9
<1>13. Types'
  BY <1>1, <1>6, <1>11, <1>12 DEF TokenizerInv, Types
<1>14. Phase'
  <2>1. Boundary(input', tokens', committed', from')
    BY <1>1, <1>7
  <2>2. InSequence(input', from', rpos', state', afterFe')
    BY <1>1, <1>3, <1>10
  <2> QED
    BY <1>1, <2>1, <2>2 DEF Phase
<1> QED
  BY <1>1, <1>13, <1>14, Numbers DEF TokenizerInv

(* A complete sequence is committed with the newlines before it.           *)
LEMMA ReturnEscapeKeeps ==
  ASSUME TokenizerInv, ReturnEscape
  PROVE  TokenizerInv'
<1> DEFINE r == [type |-> "escape", from |-> from, to |-> rpos', value |-> <<>>]
<1>1. /\ pc = "sequence" /\ state = "DEFAULT" /\ pc' = "read" /\ committed' = rpos
      /\ afterFe' = FALSE
      /\ UNCHANGED <<input, written, rpos, state, from, text>>
      /\ tokens' = Append(tokens, r)
  BY DEF ReturnEscape, Queue!Commit, Returned
<1>2. Boundary(input, tokens, committed, from) /\ InSequence(input, from, rpos, state, afterFe)
  BY <1>1 DEF TokenizerInv, Phase
<1>3. /\ from + 1 < rpos /\ Kind(input, from+1) = "esc" /\ Kind(input, rpos) = "last"
      /\ \A i \in from+2..rpos-1 : Kind(input, i) \in Middle
  BY <1>1, <1>2 DEF InSequence
<1>4. r \in TokenRec /\ r.from = from /\ r.to = rpos /\ r.type = "escape"
  <2>1. <<>> \in Seq(Nat)
    OBVIOUS
  <2> QED
    BY <1>1, <2>1, Numbers DEF TokenRec
<1> HIDE DEF r
<1>5. Fits(input, r)
  BY <1>3, <1>4, Numbers DEF Fits
<1>6. tokens' \in Seq(TokenRec) /\ InLine(input, tokens') /\ Behind(input, tokens', rpos)
  BY <1>1, <1>2, <1>4, <1>5, Numbers, TokenAdded DEF Boundary
<1>7. Boundary(input, tokens', rpos, rpos) /\ Fresh(input, rpos)
  BY <1>3, <1>6, Numbers DEF Boundary, Newlines, Fresh
<1>8. Types'
  <2>1. committed' <= rpos' /\ rpos' <= written' /\ committed' \in Nat
    BY <1>1, Numbers
  <2> QED
    BY <1>1, <1>6, <2>1 DEF TokenizerInv, Types
<1>9. Phase'
  BY <1>1, <1>7 DEF Phase
<1> QED
  BY <1>1, <1>6, <1>7, <1>8, <1>9 DEF TokenizerInv

(* What was read of the sequence is given back, with the newlines before   *)
(* it: the rest is missing, or what is next is a zero byte.                *)
LEMMA AbortEscapeKeepsIt ==
  ASSUME TokenizerInv, AbortEscape
  PROVE  TokenizerInv'
<1>1. /\ pc = "sequence" /\ state # "DEFAULT" /\ Peeked = "0" /\ pc' = "idle"
      /\ rpos' = committed /\ state' = "DEFAULT" /\ afterFe' = FALSE
      /\ UNCHANGED <<input, written, committed, from, text, tokens>>
  BY DEF AbortEscape, Queue!Rollback
<1>2. Boundary(input, tokens, committed, from) /\ InSequence(input, from, rpos, state, afterFe)
  BY <1>1 DEF TokenizerInv, Phase
<1>3. committed <= from /\ Newlines(input, committed, from) /\ Behind(input, tokens, from)
  BY <1>2 DEF Boundary
<1>4. from < rpos /\ input[from+1] = "e"
  BY <1>2 DEF InSequence
<1>5. Kind(input, rpos) \in Open /\ \A i \in from + 2 .. rpos : Kind(input, i) \in Middle
  BY <1>1, LastRead
<1>6. Behind(input, tokens, committed)
  <2> SUFFICES ASSUME tokens # <<>>
               PROVE  committed <= tokens[Len(tokens)].to
                      /\ Newlines(input, committed, tokens[Len(tokens)].to)
    BY DEF Behind
  <2> DEFINE e == tokens[Len(tokens)].to
  <2>1. e \in Nat
    <3>1. tokens[Len(tokens)] \in TokenRec
      BY Numbers
    <3> QED
      BY <3>1 DEF TokenRec
  <2>2. from <= e /\ Newlines(input, from, e)
    BY <1>3 DEF Behind
  <2> HIDE DEF e
  <2>3. \A i \in committed+1..e : i \in committed+1..from \/ i \in from+1..e
    BY <2>1, <2>2, Numbers
  <2>4. committed <= e /\ Newlines(input, committed, e)
    BY <1>3, <2>1, <2>2, <2>3, Numbers DEF Newlines
  <2> QED
    BY <2>4 DEF e
<1>7. Boundary(input, tokens, committed, committed)
  BY <1>6, Numbers DEF Boundary, Newlines
<1>8. \A i \in from + 2 .. Len(input) : Kind(input, i) \in Middle \cup {"held"}
  <2>1. CASE rpos = written
    BY <1>5, <2>1, Numbers
  <2>2. CASE rpos < written
    <3>1. input[rpos + 1] = "0"
      BY <1>1, <2>2 DEF Peeked
    <3>2. rpos + 1 \in 1..Len(input) /\ (rpos + 1) - 1 = rpos
      BY <2>2, Numbers
    <3>3. Kind(input, rpos + 1) = KindAfter(Kind(input, rpos), input[rpos + 1])
      BY <3>2, Numbers, KindIs
    <3>4. Kind(input, rpos + 1) = "held"
      BY <1>5, <3>1, <3>3, InsideStep
    <3>5. \A i \in rpos+1..Len(input) : Kind(input, i) = "held"
      BY <3>2, <3>4, Numbers, HeldStays
    <3>6. \A i \in from + 2 .. Len(input) : i \in from + 2 .. rpos \/ i \in rpos+1..Len(input)
      BY <2>2, Numbers
    <3> QED
      BY <1>5, <3>5, <3>6
  <2> QED
    BY <2>1, <2>2, Numbers
<1>9. HeldBack(input, committed)
  <2>1. /\ from + 1 \in committed + 1 .. Len(input) /\ (from + 1) - 1 = from
        /\ (from + 1) + 1 = from + 2
    BY <1>3, <1>4, Numbers
  <2> QED
    BY <1>3, <1>4, <1>8, <2>1 DEF HeldBack
<1>10. committed' <= rpos' /\ rpos' <= written'
  BY <1>1, Numbers
<1>11. Types'
  BY <1>1, <1>10 DEF TokenizerInv, Types
<1>12. Phase'
  BY <1>1, <1>7, <1>9 DEF Phase
<1> QED
  BY <1>1, <1>11, <1>12, Numbers DEF TokenizerInv
-----------------------------------------------------------------------------
-----------------------------------------------------------------------------
(* A piece of Kinds, byte by byte.                                         *)
Piece(kinds, f, t) ==
  /\ Len(kinds) = t - f /\ kinds \in Seq({Kind(input, i) : i \in 1..Len(input)})
  /\ \A j \in 1..t-f : kinds[j] = Kind(input, f + j)

(* The bytes of a token are such a piece.                                  *)
LEMMA PieceOfKinds ==
  ASSUME TokenizerInv, NEW f \in Nat, NEW t \in Nat, f < t, t <= Len(input)
  PROVE  Piece(SubSeq(Kinds, f + 1, t), f, t)
<1> DEFINE kinds == SubSeq(Kinds, f + 1, t)
           K == {Kind(input, i) : i \in 1..Len(input)}
           all == Kinds
<1>1. Len(input) \in Nat
  BY Numbers
<1>2. all \in Seq(K) /\ Len(all) = Len(input) /\ \A i \in 1..Len(input) : all[i] = Kind(input, i)
  <2>1. all = [i \in 1..Len(input) |-> Kind(input, i)]
    BY KindsAre
  <2>2. \A i \in 1..Len(input) : Kind(input, i) \in K
    OBVIOUS
  <2> HIDE DEF all, K
  <2> QED
    BY <1>1, <2>1, <2>2
<1> HIDE DEF all, K
<1>3. f + 1 \in 1..Len(all)+1 /\ t \in f..Len(all) /\ f + 1 \in Nat /\ f + 1 <= t
  BY <1>1, <1>2
<1>4. kinds = SubSeq(all, f + 1, t)
  BY DEF all
<1> HIDE DEF kinds
<1>5. kinds \in Seq(K) /\ Len(kinds) = t - f
  BY <1>1, <1>2, <1>3, <1>4
<1>6. \A j \in 1..t-f : kinds[j] = all[f + j]
  BY <1>1, <1>2, <1>3, <1>4
<1>7. \A j \in 1..t-f : f + j \in 1..Len(input)
  BY <1>1
<1> QED
  BY <1>2, <1>5, <1>6, <1>7 DEF K, Piece, kinds

(* What the invariant says of each token, in terms of Kinds.               *)
LEMMA FitsTheStream ==
  ASSUME TokenizerInv
  PROVE  TokensFitTheStream
<1> DEFINE Good(t, kinds) ==
      CASE t.type = "newline" -> kinds = <<"newline">>
        [] t.type = "content" -> kinds # <<>> /\ ToSet(kinds) = {"content"}
        [] t.type = "escape"  -> /\ kinds[1] = "esc" /\ Last(kinds) = "last"
                                 /\ ToSet(Tail(kinds)) \subseteq Escape \ {"esc"}
                                 /\ \A k \in 1..Len(kinds)-1 : kinds[k] # "last"
<1> SUFFICES ASSUME NEW t \in ToSet(tokens)
             PROVE  Good(t, SubSeq(Kinds, t.from + 1, t.to))
  BY DEF TokensFitTheStream
<1>1. t \in TokenRec /\ Fits(input, t)
  <2>1. PICK k \in DOMAIN tokens : t = tokens[k]
    BY DEF ToSet
  <2>2. tokens[k] \in TokenRec
    BY Numbers, <2>1
  <2> QED
    BY <2>1, <2>2, Numbers DEF InLine
<1> DEFINE kinds == SubSeq(Kinds, t.from + 1, t.to)
           f == t.from
           n == t.to - t.from
<1>2. f \in Nat /\ t.to \in Nat /\ f < t.to /\ t.to <= Len(input) /\ n \in Nat /\ n >= 1
      /\ t.to = f + n
  BY <1>1 DEF TokenRec, Fits
<1>3. /\ Len(kinds) = n /\ kinds \in Seq({Kind(input, i) : i \in 1..Len(input)})
      /\ \A j \in 1..n : kinds[j] = Kind(input, f + j)
  <2>1. t.from \in Nat /\ t.to \in Nat /\ t.from < t.to /\ t.to <= Len(input)
    BY <1>2
  <2>2. Piece(kinds, t.from, t.to)
    BY <2>1, PieceOfKinds
  <2> HIDE DEF kinds
  <2> QED
    BY <2>2 DEF Piece
<1> HIDE DEF kinds, f, n
<1>4. DOMAIN kinds = 1..n
  BY <1>3
<1>5. /\ t.type = "newline" => n = 1 /\ Kind(input, f + n) = "newline"
      /\ t.type = "content" => \A i \in f+1..f+n : Kind(input, i) = "content"
      /\ t.type = "escape" =>
           /\ 1 < n /\ Kind(input, f + 1) = "esc" /\ Kind(input, f + n) = "last"
           /\ \A i \in f + 2 .. f + n - 1 : Kind(input, i) \in Middle
  BY <1>1, <1>2 DEF Fits, Content, f, n
<1>6. CASE t.type = "newline"
  <2>1. Len(kinds) = 1 /\ kinds[1] = "newline"
    BY <1>2, <1>3, <1>5, <1>6
  <2>2. kinds = <<"newline">>
    BY <1>3, <2>1
  <2> QED
    BY <1>6, <2>2, Zenon DEF kinds
<1>7. CASE t.type = "content"
  <2>1. \A j \in 1..n : kinds[j] = "content"
    BY <1>2, <1>3, <1>5, <1>7
  <2>2. kinds # <<>> /\ ToSet(kinds) = {"content"}
    <3>1. 1 \in 1..n /\ kinds # <<>>
      BY <1>2, <1>3
    <3>2. ToSet(kinds) = {kinds[j] : j \in 1..n}
      BY <1>4 DEF ToSet
    <3>3. {kinds[j] : j \in 1..n} = {"content"}
      BY <2>1, <3>1
    <3> QED
      BY <3>1, <3>2, <3>3
  <2> QED
    BY <1>7, <2>2, Zenon DEF kinds
<1>8. CASE t.type = "escape"
  <2>1. kinds[1] = "esc" /\ kinds[n] = "last" /\ 1 < n
    BY <1>2, <1>3, <1>5, <1>8
  <2>2. \A j \in 2..n-1 : kinds[j] \in Middle
    <3>1. \A j \in 2..n-1 : j \in 1..n /\ f + j \in f + 2 .. f + n - 1
      BY <1>2
    <3> QED
      BY <1>3, <1>5, <1>8, <3>1
  <2>3. Last(kinds) = "last"
    BY <1>3, <2>1 DEF Last
  <2>4. ToSet(Tail(kinds)) \subseteq Escape \ {"esc"}
    <3>1. kinds # <<>>
      BY <1>3, <2>1
    <3>2. DOMAIN Tail(kinds) = 1..n-1 /\ \A j \in 1..n-1 : Tail(kinds)[j] = kinds[j+1]
      BY <1>2, <1>3, <3>1
    <3>3. \A j \in 1..n-1 : kinds[j+1] \in Middle \cup {"last"}
      <4>1. \A j \in 1..n-1 : j + 1 \in 2..n-1 \/ j + 1 = n
        BY <1>2
      <4> QED
        BY <2>1, <2>2, <4>1
    <3>4. Middle \cup {"last"} \subseteq Escape \ {"esc"}
      BY DEF Middle, Escape, Open
    <3> QED
      BY <3>2, <3>3, <3>4 DEF ToSet
  <2>5. \A k \in 1..Len(kinds)-1 : kinds[k] # "last"
    <3>1. \A k \in 1..n-1 : k = 1 \/ k \in 2..n-1
      BY <1>2
    <3> QED
      BY <1>3, <2>1, <2>2, <3>1 DEF Middle
  <2> QED
    BY <1>8, <2>1, <2>3, <2>4, <2>5, Zenon DEF kinds
<1>9. t.type \in {"newline", "content", "escape"}
  BY <1>1 DEF TokenRec
<1> QED
  BY <1>6, <1>7, <1>8, <1>9, Zenon DEF kinds

(* What the invariant says of two tokens in a row.                         *)
LEMMA NewlinesRepeat ==
  ASSUME TokenizerInv
  PROVE  OnlyNewlinesRepeat
  BY Numbers DEF OnlyNewlinesRepeat, InLine, Newlines

(* What the invariant says of what is left, in terms of Kinds.             *)
LEMMA OneSequenceHeldBack ==
  ASSUME TokenizerInv
  PROVE  HoldsBackOneSequence
<1> SUFFICES ASSUME pc = "idle", rpos < written
             PROVE  \E k \in rpos + 1 .. written :
                      /\ \A i \in rpos + 1 .. k - 1 : input[i] = "n"
                      /\ input[k] = "e"
                      /\ \A i \in k + 1 .. written : Kinds[i] \in {"first", "param", "inter", "held"}
  BY DEF HoldsBackOneSequence
<1>1. HeldBack(input, rpos)
  BY DEF TokenizerInv, Phase
<1>2. PICK k \in rpos + 1 .. written :
         /\ \A i \in rpos + 1 .. k - 1 : input[i] = "n"
         /\ input[k] = "e"
         /\ \A i \in k + 1 .. written : Kind(input, i) \in Middle \cup {"held"}
  BY <1>1, Numbers DEF HeldBack, Newlines
<1>3. \A i \in k + 1 .. written : i \in 1..Len(input) /\ Kinds[i] = Kind(input, i)
  <2>1. \A i \in k + 1 .. written : i \in 1..Len(input)
    BY Numbers
  <2> QED
    BY <2>1, KindsAre
<1>4. Middle \cup {"held"} = {"first", "param", "inter", "held"}
  BY DEF Middle
<1> QED
  BY <1>2, <1>3, <1>4
-----------------------------------------------------------------------------
(* Every step keeps the invariant.                                         *)
LEMMA NextKeeps ==
  ASSUME TokenizerInv, [Next]_vars
  PROVE  TokenizerInv'
<1>1. CASE UNCHANGED vars
  BY <1>1 DEF vars, streamVars, TokenizerInv, Types, Phase
<1>2. ASSUME NEW n \in 1..MaxInput - Len(input), NEW piece \in [1..n -> Classes], Receive(piece)
      PROVE  TokenizerInv'
  BY <1>2, ReceiveKeeps
<1>3. CASE TokenizerRead \/ ReadNewline
  BY <1>3, TokenizerReadKeeps, ReadNewlineKeeps
<1>4. CASE ReadContentByte \/ KeepContentByte \/ GiveBackByte
  BY <1>4, ReadContentByteKeeps, KeepContentByteKeeps, GiveBackByteKeeps
<1>5. CASE BeginEscape \/ ReadPrivate \/ ReadEscapeByte
  BY <1>5, BeginEscapeKeeps, ReadPrivateKeeps, ReadEscapeByteKeeps
<1>6. CASE ReturnEscape \/ AbortEscape
  BY <1>6, ReturnEscapeKeeps, AbortEscapeKeepsIt
<1> QED
  BY <1>1, <1>2, <1>3, <1>4, <1>5, <1>6 DEF Next

(* The inductive invariant holds always.                                  *)
THEOREM TokenizerInvariant == Spec => []TokenizerInv
  BY InitInv, NextKeeps, PTL DEF Spec

(* Every token of tokenizer.c is a whole newline, a run of text, or one    *)
(* complete escape sequence of the whole output, wherever the output was   *)
(* cut into pieces.                                                        *)
THEOREM TokensAreOfTheStream == Spec => []TokensFitTheStream
<1>1. TokenizerInv => TokensFitTheStream
  BY FitsTheStream
<1> QED
  BY <1>1, TokenizerInvariant, PTL

(* Tokens leave out nothing, and repeat nothing but newlines, which        *)
(* read_newline_token does not commit.                                     *)
THEOREM TokensRepeatOnlyNewlines == Spec => []OnlyNewlinesRepeat
<1>1. TokenizerInv => OnlyNewlinesRepeat
  BY NewlinesRepeat
<1> QED
  BY <1>1, TokenizerInvariant, PTL

(* Between two pieces of output all that is not returned yet is one escape *)
(* sequence, the newlines before it and, if a zero byte is in it, all that *)
(* follows.                                                                *)
THEOREM OneSequenceIsHeldBack == Spec => []HoldsBackOneSequence
<1>1. TokenizerInv => HoldsBackOneSequence
  BY OneSequenceHeldBack
<1> QED
  BY <1>1, TokenizerInvariant, PTL
=============================================================================
