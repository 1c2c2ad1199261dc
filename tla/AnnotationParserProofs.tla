----------------------- MODULE AnnotationParserProofs -----------------------
(***************************************************************************)
(* Proofs about the annotation parser, for every representation of numbers *)
(* and every sequence of records: what it returns is what was sent.        *)
(*                                                                         *)
(* The first half is arithmetic and bytes: a number is what its digits     *)
(* weigh (NumberOfDigits), a record is its header and its value            *)
(* (EncodedIs), and each record has its place in all that is sent          *)
(* (SentIs).  The second half is the inductive invariant ParserInv, which  *)
(* says for each place of annotation_parser_read how far it has read the   *)
(* record it is at.                                                        *)
(***************************************************************************)
EXTENDS MCAnnotationParser, FiniteSetTheorems, SequenceTheorems, WellFoundedInduction, TLAPS
-----------------------------------------------------------------------------
(* A set of numbers that is not empty has a least one.                     *)
LEMMA LeastNatural ==
  ASSUME NEW S \in SUBSET Nat, S # {}
  PROVE  \E least \in S : \A m \in S : least <= m
<1> DEFINE Below == OpToRel(<, Nat)
<1>1. IsWellFoundedOn(Below, Nat)
  BY NatLessThanWellFounded
<1>2. \A m, l \in Nat : m < l => <<m, l>> \in Below
  BY DEF OpToRel
<1> HIDE DEF Below
<1>3. PICK least \in S : \A m \in S : ~(<<m, least>> \in Below)
  BY <1>1, WFMin
<1>4. least \in Nat /\ \A m \in S : m \in Nat /\ ~(m < least)
  BY <1>2, <1>3
<1>5. \A m \in S : least <= m
  BY <1>4
<1> QED
  BY <1>5
-----------------------------------------------------------------------------
(* Division and remainder.                                                 *)
LEMMA Division ==
  ASSUME NEW m \in Nat, m > 0, NEW x \in Nat
  PROVE  x = m * (x \div m) + (x % m) /\ x % m \in 0..m-1 /\ x \div m \in Nat
OBVIOUS

(* A product is not less than its factors.                                 *)
LEMMA Larger ==
  ASSUME NEW m \in Nat, NEW k \in Nat, k >= 1
  PROVE  m * k >= m
OBVIOUS

(* There is one quotient.                                                  *)
LEMMA QuotientIs ==
  ASSUME NEW m \in Nat, m > 0, NEW q \in Nat, NEW r \in 0..m-1
  PROVE  (m * q + r) \div m = q
<1> DEFINE x == m * q + r
<1>1. m * q \in Nat /\ x \in Nat
  OBVIOUS
<1> HIDE DEF x
<1> DEFINE p == x \div m
           s == x % m
<1>2. x = m * p + s /\ s \in 0..m-1 /\ p \in Nat
  BY <1>1, Division
<1>3. x = m * q + r
  BY DEF x
<1> HIDE DEF p, s
<1>4. ~(p > q)
  <2> SUFFICES ASSUME p > q PROVE FALSE
    OBVIOUS
  <2>1. m * p = m * q + m * (p - q)
    BY <1>2
  <2>2. m * (p - q) >= m /\ m * (p-q) \in Nat /\ m * q \in Nat
    BY <1>2, Larger
  <2>3. r = m * (p - q) + s
    BY <1>2, <1>3, <2>1, <2>2
  <2> QED
    BY <1>2, <2>2, <2>3
<1>5. ~(q > p)
  <2> SUFFICES ASSUME q > p PROVE FALSE
    OBVIOUS
  <2>1. m * q = m * p + m * (q - p)
    BY <1>2
  <2>2. m * (q - p) >= m /\ m * (q-p) \in Nat /\ m * p \in Nat
    BY <1>2, Larger
  <2>3. s = m * (q - p) + r
    BY <1>2, <1>3, <2>1, <2>2
  <2> QED
    BY <1>2, <2>2, <2>3
<1> QED
  BY <1>2, <1>4, <1>5 DEF p, x

(* Dividing twice.                                                         *)
LEMMA Quotients ==
  ASSUME NEW b \in Nat, b > 0, NEW w \in Nat, w > 0, NEW n \in Nat
  PROVE  n \div (b * w) = (n \div w) \div b
<1> DEFINE q == n \div w
           r == n % w
           p == q \div b
           d == q % b
<1>1. n = w * q + r /\ q \in Nat /\ r \in 0..w-1
  BY Division
<1>2. q = b * p + d /\ p \in Nat /\ d \in 0..b-1
  BY <1>1, Division
<1> HIDE DEF q, r, p, d
<1>3. n = (b * w) * p + (w * d + r)
  BY <1>1, <1>2
<1>4. b * w \in Nat /\ b * w > 0
  OBVIOUS
<1>5. w * d + r \in 0..b*w-1
  <2>1. d + 1 <= b /\ b - (d + 1) \in Nat /\ w * (b - (d+1)) \in Nat
    BY <1>2
  <2>2. b * w = w * (d + 1) + w * (b - (d + 1))
    BY <1>2
  <2>3. w * (d + 1) = w * d + w /\ w * d \in Nat
    BY <1>2
  <2> QED
    BY <1>1, <1>4, <2>1, <2>2, <2>3
<1>6. n \div (b * w) = p
  BY <1>2, <1>3, <1>4, <1>5, QuotientIs
<1> QED
  BY <1>6 DEF p, q

(* A sum below one of its terms.                                           *)
LEMMA NothingLeft ==
  ASSUME NEW w \in Nat, NEW q \in Nat, NEW v \in Nat, v + w * q < w
  PROVE  q = 0 /\ v + w * q = v
OBVIOUS

(* What fits is its own remainder.                                         *)
LEMMA SmallRemainder ==
  ASSUME NEW m \in Nat, NEW x \in Nat, x < m
  PROVE  x % m = x
OBVIOUS
-----------------------------------------------------------------------------
(* The recursion of Weight, up to n.                                       *)
Weighs(h, n) == h = [i \in 0..n |-> IF i = 0 THEN 1 ELSE Base * h[i-1]]

(* That recursion has a solution.                                          *)
LEMMA WeighsExists ==
  ASSUME NEW n \in Nat
  PROVE  \E h : Weighs(h, n)
<1> SUFFICES ASSUME ~ \E h : Weighs(h, n) PROVE FALSE
  OBVIOUS
<1> DEFINE Bad == {l \in Nat : ~ \E h : Weighs(h, l)}
<1>1. PICK l \in Bad : \A m \in Bad : l <= m
  <2>1. Bad \in SUBSET Nat /\ Bad # {}
    OBVIOUS
  <2> HIDE DEF Bad
  <2> QED
    BY <2>1, LeastNatural
<1>2. l # 0
  <2> SUFFICES ASSUME l = 0 PROVE FALSE
    OBVIOUS
  <2> DEFINE g == [i \in 0..0 |-> 1]
  <2>1. g = [i \in 0..0 |-> IF i = 0 THEN 1 ELSE Base * g[i-1]]
    OBVIOUS
  <2>2. Weighs(g, 0)
    BY <2>1 DEF Weighs
  <2> QED
    BY <1>1, <2>2
<1>3. l - 1 \in Nat /\ l - 1 \notin Bad
  BY <1>1, <1>2
<1>4. PICK h : Weighs(h, l - 1)
  BY <1>3
<1> DEFINE g == [i \in 0..l |-> IF i = l THEN Base * h[l-1] ELSE h[i]]
<1>5. \A i \in 0..l-1 : g[i] = h[i]
  BY <1>1
<1>6. \A i \in 0..l-1 : h[i] = IF i = 0 THEN 1 ELSE Base * h[i-1]
  BY <1>4 DEF Weighs
<1>7. \A i \in 0..l : i # 0 => i - 1 \in 0..l-1 /\ g[i-1] = h[i-1]
  BY <1>1, <1>5
<1>8. \A i \in 0..l : g[i] = IF i = 0 THEN 1 ELSE Base * g[i-1]
  <2> SUFFICES ASSUME NEW i \in 0..l
               PROVE  g[i] = IF i = 0 THEN 1 ELSE Base * g[i-1]
    OBVIOUS
  <2>1. CASE i = l
    BY <1>2, <1>7, <2>1
  <2>2. CASE i # l
    <3>1. i \in 0..l-1
      BY <1>1, <2>2
    <3>2. g[i] = h[i]
      BY <1>5, <3>1
    <3> QED
      BY <1>6, <1>7, <3>1, <3>2
  <2> QED
    BY <2>1, <2>2
<1>9. Weighs(g, l)
  <2> DEFINE r == [i \in 0..l |-> IF i = 0 THEN 1 ELSE Base * g[i-1]]
  <2>1. g = [i \in 0..l |-> g[i]]
    OBVIOUS
  <2> HIDE DEF g
  <2>2. r = [i \in 0..l |-> r[i]]
    OBVIOUS
  <2>3. \A i \in 0..l : g[i] = r[i]
    BY <1>8
  <2> HIDE DEF r
  <2>4. g = r
    BY <2>1, <2>2, <2>3
  <2> QED
    BY <2>4 DEF Weighs, r
<1> QED
  BY <1>1, <1>9

(* So the places weigh 1, Base, Base * Base and so on.                     *)
LEMMA WeightIs ==
  /\ Weight[0] = 1 /\ \A i \in 1..NumLen : Weight[i] = Base * Weight[i-1]
  /\ \A i \in 0..NumLen : Weight[i] \in Nat /\ Weight[i] > 0
<1>0. NumLen \in Nat /\ Base \in Nat /\ Base > 1
  BY ConstantsAssumption
<1>1. Weighs(Weight, NumLen)
  BY <1>0, WeighsExists DEF Weight, Weighs
<1>2. \A i \in 0..NumLen : Weight[i] = IF i = 0 THEN 1 ELSE Base * Weight[i-1]
  BY <1>1 DEF Weighs
<1>3. Weight[0] = 1 /\ \A i \in 1..NumLen : Weight[i] = Base * Weight[i-1]
  BY <1>0, <1>2
<1> DEFINE Bad == {i \in 0..NumLen : ~(Weight[i] \in Nat /\ Weight[i] > 0)}
<1>4. ASSUME Bad # {} PROVE FALSE
  <2>1. Bad \in SUBSET Nat
    OBVIOUS
  <2>2. PICK l \in Bad : \A m \in Bad : l <= m
    <3> HIDE DEF Bad
    <3> QED
      BY <1>4, <2>1, LeastNatural
  <2>3. l \in 1..NumLen
    BY <1>0, <1>3, <2>2
  <2>4. l - 1 \in 0..NumLen /\ l - 1 \notin Bad
    BY <1>0, <2>2, <2>3
  <2>5. Weight[l-1] \in Nat /\ Weight[l-1] > 0
    BY <2>4
  <2>6. Base * Weight[l-1] \in Nat /\ Base * Weight[l-1] > 0
    BY <1>0, <2>5
  <2> QED
    BY <1>3, <2>2, <2>3, <2>6
<1> QED
  BY <1>3, <1>4

(* The recursion of Number, up to n.                                       *)
Sums(h, digits, n) ==
  h = [i \in 0..n |-> IF i = 0 THEN 0 ELSE h[i-1] + digits[i] * Weight[i-1]]

(* That recursion has a solution.                                          *)
LEMMA SumsExists ==
  ASSUME NEW digits, NEW n \in Nat
  PROVE  \E h : Sums(h, digits, n)
<1> SUFFICES ASSUME ~ \E h : Sums(h, digits, n) PROVE FALSE
  OBVIOUS
<1> DEFINE Step(v, i) == v + digits[i] * Weight[i-1]
<1> DEFINE Bad == {l \in Nat : ~ \E h : Sums(h, digits, l)}
<1>1. PICK l \in Bad : \A m \in Bad : l <= m
  <2>1. Bad \in SUBSET Nat /\ Bad # {}
    OBVIOUS
  <2> HIDE DEF Bad
  <2> QED
    BY <2>1, LeastNatural
<1>2. l # 0
  <2> SUFFICES ASSUME l = 0 PROVE FALSE
    OBVIOUS
  <2> DEFINE g == [i \in 0..0 |-> 0]
  <2>1. g = [i \in 0..0 |-> IF i = 0 THEN 0 ELSE Step(g[i-1], i)]
    OBVIOUS
  <2>2. Sums(g, digits, 0)
    BY <2>1 DEF Sums
  <2> QED
    BY <1>1, <2>2
<1>3. l - 1 \in Nat /\ l - 1 \notin Bad
  BY <1>1, <1>2
<1>4. PICK h : Sums(h, digits, l - 1)
  BY <1>3
<1>5. \A i \in 0..l-1 : h[i] = IF i = 0 THEN 0 ELSE Step(h[i-1], i)
  BY <1>4 DEF Sums
<1>s. \A h2, n2 : Sums(h2, digits, n2) <=> h2 = [i \in 0..n2 |-> IF i = 0 THEN 0 ELSE Step(h2[i-1], i)]
  BY DEF Sums
<1> HIDE DEF Step
<1> DEFINE g == [i \in 0..l |-> IF i = l THEN Step(h[l-1], l) ELSE h[i]]
<1>6. \A i \in 0..l-1 : g[i] = h[i]
  BY <1>1
<1>7. \A i \in 0..l : i # 0 => i - 1 \in 0..l-1 /\ g[i-1] = h[i-1]
  BY <1>1, <1>6
<1>8. \A i \in 0..l : g[i] = IF i = 0 THEN 0 ELSE Step(g[i-1], i)
  <2> SUFFICES ASSUME NEW i \in 0..l
               PROVE  g[i] = IF i = 0 THEN 0 ELSE Step(g[i-1], i)
    OBVIOUS
  <2>1. CASE i = l
    BY <1>2, <1>7, <2>1
  <2>2. CASE i # l
    <3>1. i \in 0..l-1
      BY <1>1, <2>2
    <3>2. g[i] = h[i]
      BY <1>6, <3>1
    <3> QED
      BY <1>5, <1>7, <3>1, <3>2
  <2> QED
    BY <2>1, <2>2
<1>9. Sums(g, digits, l)
  <2> DEFINE r == [i \in 0..l |-> IF i = 0 THEN 0 ELSE Step(g[i-1], i)]
  <2>1. g = [i \in 0..l |-> g[i]]
    OBVIOUS
  <2> HIDE DEF g
  <2>2. r = [i \in 0..l |-> r[i]]
    OBVIOUS
  <2>3. \A i \in 0..l : g[i] = r[i]
    BY <1>8
  <2> HIDE DEF r
  <2>4. g = r
    BY <2>1, <2>2, <2>3
  <2> QED
    BY <1>s, <2>4 DEF r
<1> QED
  BY <1>1, <1>9

(* The digits of a number have its value.                                  *)
LEMMA NumberOfDigits ==
  ASSUME NEW n \in Nat, n < Weight[NumLen],
         NEW digits \in Seq(Nat), Len(digits) = NumLen,
         \A i \in 1..NumLen : digits[i] = Digits(n)[i]
  PROVE  Number(digits) = n
<1>0. NumLen \in Nat /\ Base \in Nat /\ Base > 1
  BY ConstantsAssumption
<1> DEFINE h == CHOOSE g : Sums(g, digits, NumLen)
           rest(i) == n \div Weight[i]
<1>1. Sums(h, digits, NumLen)
  BY <1>0, SumsExists
<1>2. Number(digits) = h[NumLen]
  BY DEF Number, Sums
<1> HIDE DEF h
<1>3. \A i \in 0..NumLen : h[i] = IF i = 0 THEN 0 ELSE h[i-1] + digits[i] * Weight[i-1]
  BY <1>1 DEF Sums
<1>4. \A i \in 1..NumLen : digits[i] = rest(i-1) % Base
  BY DEF Digits
<1>5. \A i \in 0..NumLen : rest(i) \in Nat
  BY Division, WeightIs
<1>6. \A i \in 1..NumLen : rest(i) = rest(i-1) \div Base
  <2> SUFFICES ASSUME NEW i \in 1..NumLen PROVE rest(i) = rest(i-1) \div Base
    OBVIOUS
  <2>1. i - 1 \in 0..NumLen
    BY <1>0
  <2>2. Weight[i] = Base * Weight[i-1] /\ Weight[i-1] \in Nat /\ Weight[i-1] > 0
    BY <2>1, WeightIs
  <2> QED
    BY <1>0, <2>2, Quotients
<1>7. rest(0) = n
  <2>1. n = 1 * (n \div 1) + (n % 1) /\ n % 1 \in 0..0 /\ n \div 1 \in Nat
    BY Division
  <2> QED
    BY <2>1, WeightIs
<1> HIDE DEF rest
<1> DEFINE Bad == {i \in 0..NumLen : ~(h[i] \in Nat /\ h[i] + Weight[i] * rest(i) = n)}
<1>8. ASSUME Bad # {} PROVE FALSE
  <2>1. Bad \in SUBSET Nat
    OBVIOUS
  <2>2. PICK l \in Bad : \A m \in Bad : l <= m
    <3> HIDE DEF Bad
    <3> QED
      BY <1>8, <2>1, LeastNatural
  <2>3. l # 0
    <3>1. h[0] = 0 /\ Weight[0] * rest(0) = n
      BY <1>0, <1>3, <1>7, WeightIs
    <3> QED
      BY <2>2, <3>1
  <2>4. l \in 1..NumLen /\ l - 1 \in 0..NumLen /\ l - 1 \notin Bad
    BY <1>0, <2>2, <2>3
  <2> DEFINE v == h[l-1]
             w == Weight[l-1]
             q == rest(l)
             d == digits[l]
  <2>5. v \in Nat /\ v + w * rest(l-1) = n /\ w \in Nat /\ w > 0
    BY <2>4, WeightIs
  <2>6. h[l] = v + d * w /\ Weight[l] = Base * w
    BY <1>3, <2>3, <2>4, WeightIs
  <2>7. rest(l-1) = Base * q + d /\ q \in Nat /\ d \in Nat
    <3>1. rest(l-1) \in Nat /\ d = rest(l-1) % Base /\ q = rest(l-1) \div Base
      BY <1>4, <1>5, <1>6, <2>4
    <3> DEFINE r == rest(l-1)
    <3>2. r \in Nat /\ d = r % Base /\ q = r \div Base
      BY <3>1
    <3> HIDE DEF r, d, q
    <3>3. r = Base * (r \div Base) + (r % Base) /\ r % Base \in Nat /\ r \div Base \in Nat
      BY <1>0, <3>2, Division
    <3> QED
      BY <3>2, <3>3 DEF r
  <2> HIDE DEF v, w, q, d
  <2>8. (v + d * w) + (Base * w) * q = v + w * (Base * q + d)
    <3>1. Base \in Nat /\ w \in Nat /\ q \in Nat /\ d \in Nat /\ v \in Nat
      BY <1>0, <2>5, <2>7
    <3> QED
      BY <3>1
  <2>9. v + d * w \in Nat
    <3>1. w \in Nat /\ d \in Nat /\ v \in Nat
      BY <2>5, <2>7
    <3> QED
      BY <3>1
  <2> QED
    BY <2>2, <2>5, <2>6, <2>7, <2>8, <2>9 DEF q
<1>9. h[NumLen] \in Nat /\ h[NumLen] + Weight[NumLen] * rest(NumLen) = n
  BY <1>0, <1>8
<1> DEFINE v == h[NumLen]
           w == Weight[NumLen]
           q == rest(NumLen)
<1>10. v \in Nat /\ w \in Nat /\ q \in Nat /\ v + w * q = n /\ n < w
  BY <1>0, <1>5, <1>9, WeightIs
<1>11. Number(digits) = v
  BY <1>2
<1> HIDE DEF v, w, q
<1> QED
  BY <1>10, <1>11, NothingLeft
-----------------------------------------------------------------------------
(* The recursion of FlattenSeq, up to n.                                   *)
Joins(h, s, n) == h = [i \in 1..n |-> IF i = 1 THEN s[i] ELSE h[i-1] \o s[i]]

(* That recursion has a solution.                                          *)
LEMMA JoinsExists ==
  ASSUME NEW s, NEW n \in Nat
  PROVE  \E h : Joins(h, s, n)
<1> SUFFICES ASSUME ~ \E h : Joins(h, s, n) PROVE FALSE
  OBVIOUS
<1> DEFINE Bad == {l \in Nat : ~ \E h : Joins(h, s, l)}
<1>1. PICK l \in Bad : \A m \in Bad : l <= m
  <2>1. Bad \in SUBSET Nat /\ Bad # {}
    OBVIOUS
  <2> HIDE DEF Bad
  <2> QED
    BY <2>1, LeastNatural
<1>2. l # 0
  <2> SUFFICES ASSUME l = 0 PROVE FALSE
    OBVIOUS
  <2> DEFINE g == [i \in 1..0 |-> <<>>]
  <2>1. g = [i \in 1..0 |-> IF i = 1 THEN s[i] ELSE g[i-1] \o s[i]]
    OBVIOUS
  <2>2. Joins(g, s, 0)
    BY <2>1 DEF Joins
  <2> QED
    BY <1>1, <2>2
<1>3. l - 1 \in Nat /\ l - 1 \notin Bad
  BY <1>1, <1>2
<1>4. PICK h : Joins(h, s, l - 1)
  BY <1>3
<1> DEFINE g == [i \in 1..l |-> IF i = l THEN IF i = 1 THEN s[i] ELSE h[l-1] \o s[l] ELSE h[i]]
<1>5. \A i \in 1..l-1 : g[i] = h[i]
  BY <1>1
<1>6. \A i \in 1..l-1 : h[i] = IF i = 1 THEN s[i] ELSE h[i-1] \o s[i]
  BY <1>4 DEF Joins
<1>7. \A i \in 1..l : i # 1 => i - 1 \in 1..l-1 /\ g[i-1] = h[i-1]
  BY <1>1, <1>5
<1>8. \A i \in 1..l : g[i] = IF i = 1 THEN s[i] ELSE g[i-1] \o s[i]
  <2> SUFFICES ASSUME NEW i \in 1..l
               PROVE  g[i] = IF i = 1 THEN s[i] ELSE g[i-1] \o s[i]
    OBVIOUS
  <2>1. CASE i = l
    BY <1>2, <1>7, <2>1
  <2>2. CASE i # l
    <3>1. i \in 1..l-1
      BY <1>1, <2>2
    <3>2. g[i] = h[i]
      BY <1>5, <3>1
    <3> QED
      BY <1>6, <1>7, <3>1, <3>2
  <2> QED
    BY <2>1, <2>2
<1>9. Joins(g, s, l)
  <2> DEFINE r == [i \in 1..l |-> IF i = 1 THEN s[i] ELSE g[i-1] \o s[i]]
  <2>1. g = [i \in 1..l |-> g[i]]
    OBVIOUS
  <2> HIDE DEF g
  <2>2. r = [i \in 1..l |-> r[i]]
    OBVIOUS
  <2>3. \A i \in 1..l : g[i] = r[i]
    BY <1>8
  <2> HIDE DEF r
  <2>4. g = r
    BY <2>1, <2>2, <2>3
  <2> QED
    BY <2>4 DEF Joins, r
<1> QED
  BY <1>1, <1>9

(* A sequence more is joined at the end.                                   *)
LEMMA JoinsOneMore ==
  ASSUME NEW n \in Nat, n > 0,
         NEW s, Len(s) = n, NEW t, Len(t) = n + 1, \A i \in 1..n : t[i] = s[i]
  PROVE  FlattenSeq(t) = FlattenSeq(s) \o t[n+1]
<1> DEFINE hs == CHOOSE h : Joins(h, s, n)
           ht == CHOOSE h : Joins(h, t, n + 1)
<1>1. Joins(hs, s, n) /\ Joins(ht, t, n + 1)
  <2>1. n + 1 \in Nat
    OBVIOUS
  <2>2. (\E h : Joins(h, s, n)) /\ (\E h : Joins(h, t, n + 1))
    BY <2>1, JoinsExists
  <2> QED
    BY <2>2
<1>2. FlattenSeq(s) = hs[n]
  BY DEF FlattenSeq, Joins
<1>3. FlattenSeq(t) = ht[n + 1]
  <2>1. n + 1 # 0
    OBVIOUS
  <2> QED
    BY <2>1 DEF FlattenSeq, Joins
<1> HIDE DEF hs, ht
<1>4. \A i \in 1..n : hs[i] = IF i = 1 THEN s[i] ELSE hs[i-1] \o s[i]
  BY <1>1 DEF Joins
<1>5. \A i \in 1..n+1 : ht[i] = IF i = 1 THEN t[i] ELSE ht[i-1] \o t[i]
  BY <1>1 DEF Joins
<1> DEFINE Bad == {i \in 1..n : ht[i] # hs[i]}
<1>6. ASSUME Bad # {} PROVE FALSE
  <2>1. Bad \in SUBSET Nat
    OBVIOUS
  <2>2. PICK l \in Bad : \A m \in Bad : l <= m
    <3> HIDE DEF Bad
    <3> QED
      BY <1>6, <2>1, LeastNatural
  <2>3. l \in 1..n /\ l \in 1..n+1 /\ ht[l] # hs[l] /\ t[l] = s[l]
    BY <2>2
  <2>4. l # 1
    BY <1>4, <1>5, <2>3
  <2>5. l - 1 \in 1..n /\ l - 1 \notin Bad
    BY <2>2, <2>3, <2>4
  <2>6. ht[l-1] = hs[l-1]
    BY <2>5
  <2> QED
    BY <1>4, <1>5, <2>3, <2>4, <2>6
<1>7. ht[n] = hs[n] /\ n + 1 \in 1..n+1 /\ n + 1 # 1 /\ (n + 1) - 1 = n
  BY <1>6
<1> QED
  BY <1>2, <1>3, <1>5, <1>7
-----------------------------------------------------------------------------
Record == [start : 0..OffsetLimit-1, end : 0..OffsetLimit-1, value : Seq(1..Base-1)]

(* What is sent of the first k records.                                    *)
Body(rs, k) == FlattenSeq([j \in 1..k |-> Encoded(rs[j])])

(* Where the k-th record of rs ends, and all that is sent for rs.          *)
EndOf(rs, k) == 1 + Len(Body(rs, k))
SentOf(v, rs) == <<v>> \o Body(rs, Len(rs))

(* Header and value of a record.                                           *)
Header == 3 * NumLen
Size(r) == Header + Len(r.value)

(* Two sequences of bytes, one after the other.                            *)
LEMMA Joined ==
  ASSUME NEW s \in Seq(Nat), NEW t \in Seq(Nat)
  PROVE  /\ s \o t \in Seq(Nat) /\ Len(s \o t) = Len(s) + Len(t)
         /\ Len(s) \in Nat /\ Len(t) \in Nat
         /\ \A i \in 1..Len(s) : (s \o t)[i] = s[i]
         /\ \A i \in 1..Len(t) : (s \o t)[Len(s) + i] = t[i]
<1>1. s \o t \in Seq(Nat) /\ Len(s \o t) = Len(s) + Len(t)
  BY ConcatProperties
<1>2. Len(s) \in Nat /\ Len(t) \in Nat
  OBVIOUS
<1>3. \A i \in 1..Len(s)+Len(t) : (s \o t)[i] = IF i <= Len(s) THEN s[i] ELSE t[i - Len(s)]
  BY ConcatProperties
<1>4. \A i \in 1..Len(s) : i \in 1..Len(s)+Len(t) /\ i <= Len(s)
  BY <1>2
<1>5. \A i \in 1..Len(t) : (s \o t)[Len(s) + i] = t[i]
  <2> SUFFICES ASSUME NEW i \in 1..Len(t) PROVE (s \o t)[Len(s) + i] = t[i]
    OBVIOUS
  <2>1. Len(s) + i \in 1..Len(s)+Len(t) /\ ~(Len(s) + i <= Len(s)) /\ (Len(s) + i) - Len(s) = i
    BY <1>2
  <2> QED
    BY <1>3, <2>1
<1> QED
  BY <1>1, <1>2, <1>3, <1>4, <1>5

(* The bytes of a record.                                                  *)
LEMMA EncodedIs ==
  ASSUME NEW r \in Record
  PROVE  /\ Encoded(r) \in Seq(Nat) /\ Len(Encoded(r)) = Size(r)
         /\ \A i \in 1..NumLen : Encoded(r)[i] = Digits(r.start)[i]
         /\ \A i \in 1..NumLen : Encoded(r)[NumLen + i] = Digits(r.end)[i]
         /\ \A i \in 1..NumLen : Encoded(r)[2 * NumLen + i] = Digits(Len(r.value))[i]
         /\ \A i \in 1..Len(r.value) : Encoded(r)[Header + i] = r.value[i]
<1>0. NumLen \in Nat /\ NumLen > 0 /\ Base \in Nat /\ Base > 1
  BY ConstantsAssumption
<1>1. \A n \in Nat : Digits(n) \in Seq(Nat) /\ Len(Digits(n)) = NumLen
  <2> SUFFICES ASSUME NEW n \in Nat PROVE Digits(n) \in Seq(Nat) /\ Len(Digits(n)) = NumLen
    OBVIOUS
  <2>1. \A i \in 1..NumLen : (n \div Weight[i-1]) % Base \in Nat
    <3> SUFFICES ASSUME NEW i \in 1..NumLen PROVE (n \div Weight[i-1]) % Base \in Nat
      OBVIOUS
    <3>1. i - 1 \in 0..NumLen
      BY <1>0
    <3>2. Weight[i-1] \in Nat /\ Weight[i-1] > 0
      BY <3>1, WeightIs
    <3>3. n \div Weight[i-1] \in Nat
      BY <3>2, Division
    <3> QED
      BY <1>0, <3>3, Division
  <2> QED
    BY <1>0, <2>1 DEF Digits
<1> DEFINE a == Digits(r.start)
           b == Digits(r.end)
           c == Digits(Len(r.value))
           v == r.value
<1>2. /\ a \in Seq(Nat) /\ Len(a) = NumLen /\ b \in Seq(Nat) /\ Len(b) = NumLen
      /\ c \in Seq(Nat) /\ Len(c) = NumLen /\ v \in Seq(Nat) /\ Len(v) \in Nat
  <2>1. OffsetLimit \in Nat
    BY ConstantsAssumption, WeightIs
  <2>2. r.start \in Nat /\ r.end \in Nat /\ v \in Seq(1..Base-1)
    BY <2>1 DEF Record
  <2>3. v \in Seq(Nat) /\ Len(v) \in Nat
    BY <1>0, <2>2
  <2> QED
    BY <1>1, <2>2, <2>3
<1>3. Encoded(r) = a \o b \o c \o v
  BY DEF Encoded
<1> HIDE DEF a, b, c, v
<1>4. /\ a \o b \in Seq(Nat) /\ Len(a \o b) = 2 * NumLen
      /\ \A i \in 1..NumLen : (a \o b)[i] = a[i] /\ (a \o b)[NumLen + i] = b[i]
  <2>1. /\ a \o b \in Seq(Nat) /\ Len(a \o b) = Len(a) + Len(b)
        /\ \A i \in 1..Len(a) : (a \o b)[i] = a[i]
        /\ \A i \in 1..Len(b) : (a \o b)[Len(a) + i] = b[i]
    BY <1>2, Joined
  <2> QED
    BY <1>0, <1>2, <2>1
<1> DEFINE ab == a \o b
<1> HIDE DEF ab
<1>a. ab \in Seq(Nat) /\ Len(ab) = 2 * NumLen
  BY <1>4 DEF ab
<1>5. /\ ab \o c \in Seq(Nat) /\ Len(ab \o c) = 3 * NumLen
      /\ \A i \in 1..2*NumLen : (ab \o c)[i] = ab[i]
      /\ \A i \in 1..NumLen : (ab \o c)[2 * NumLen + i] = c[i]
  <2>1. /\ ab \o c \in Seq(Nat) /\ Len(ab \o c) = Len(ab) + Len(c)
        /\ \A i \in 1..Len(ab) : (ab \o c)[i] = ab[i]
        /\ \A i \in 1..Len(c) : (ab \o c)[Len(ab) + i] = c[i]
    BY <1>2, <1>a, Joined
  <2>2. Len(ab \o c) = 3 * NumLen
    BY <1>0, <1>2, <1>a, <2>1
  <2> QED
    BY <1>2, <1>a, <2>1, <2>2
<1> DEFINE abc == ab \o c
<1> HIDE DEF abc
<1>b. abc \in Seq(Nat) /\ Len(abc) = 3 * NumLen
  BY <1>5 DEF abc
<1>6. /\ abc \o v \in Seq(Nat) /\ Len(abc \o v) = 3 * NumLen + Len(v)
      /\ \A i \in 1..3*NumLen : (abc \o v)[i] = abc[i]
      /\ \A i \in 1..Len(v) : (abc \o v)[3 * NumLen + i] = v[i]
  <2>1. /\ abc \o v \in Seq(Nat) /\ Len(abc \o v) = Len(abc) + Len(v)
        /\ \A i \in 1..Len(abc) : (abc \o v)[i] = abc[i]
        /\ \A i \in 1..Len(v) : (abc \o v)[Len(abc) + i] = v[i]
    BY <1>2, <1>b, Joined
  <2> QED
    BY <1>b, <2>1
<1>7. Encoded(r) = abc \o v
  BY <1>3 DEF ab, abc
<1>8. \A i \in 1..NumLen : /\ i \in 1..3*NumLen /\ NumLen + i \in 1..3*NumLen
                           /\ 2 * NumLen + i \in 1..3*NumLen
                           /\ i \in 1..2*NumLen /\ NumLen + i \in 1..2*NumLen
  BY <1>0
<1>9. \A i \in 1..NumLen : /\ (abc \o v)[i] = a[i] /\ (abc \o v)[NumLen + i] = b[i]
                           /\ (abc \o v)[2 * NumLen + i] = c[i]
  BY <1>4, <1>5, <1>6, <1>8 DEF ab, abc
<1> QED
  BY <1>6, <1>7, <1>9 DEF a, b, c, v, Size, Header

(* Nothing is sent of no record, and one more follows what was sent.       *)
LEMMA BodyStep ==
  ASSUME NEW rs \in Seq(Record)
  PROVE  /\ Body(rs, 0) = <<>>
         /\ \A k \in 0..Len(rs)-1 : Body(rs, k+1) = Body(rs, k) \o Encoded(rs[k+1])
<1>1. Body(rs, 0) = <<>>
  <2> DEFINE s == [j \in 1..0 |-> Encoded(rs[j])]
  <2>1. s = <<>>
    OBVIOUS
  <2>2. FlattenSeq(<<>>) = <<>>
    BY DEF FlattenSeq
  <2> QED
    BY <2>1, <2>2 DEF Body
<1>2. ASSUME NEW k \in 0..Len(rs)-1
      PROVE  Body(rs, k+1) = Body(rs, k) \o Encoded(rs[k+1])
  <2> DEFINE s == [j \in 1..k |-> Encoded(rs[j])]
             t == [j \in 1..k+1 |-> Encoded(rs[j])]
  <2>1. k \in Nat
    OBVIOUS
  <2>2. Len(s) = k /\ Len(t) = k + 1 /\ \A i \in 1..k : t[i] = s[i]
    BY <2>1
  <2>3. t[k+1] = Encoded(rs[k+1])
    BY <2>1
  <2>4. Body(rs, k) = FlattenSeq(s) /\ Body(rs, k+1) = FlattenSeq(t)
    BY DEF Body
  <2> HIDE DEF s, t
  <2>5. CASE k > 0
    BY <2>1, <2>2, <2>3, <2>4, <2>5, JoinsOneMore
  <2>6. CASE k = 0
    <3> DEFINE h == CHOOSE g : Joins(g, t, 1)
    <3>1. Joins(h, t, 1)
      BY JoinsExists
    <3>2. Len(t) = 1
      BY <2>2, <2>6
    <3>3. FlattenSeq(t) = h[1]
      BY <3>2 DEF FlattenSeq, Joins
    <3> HIDE DEF h
    <3>4. h[1] = t[1]
      BY <3>1 DEF Joins
    <3>5. Encoded(rs[1]) \in Seq(Nat)
      <4>1. rs[1] \in Record
        BY <2>6
      <4> QED
        BY <4>1, EncodedIs
    <3>6. <<>> \o Encoded(rs[1]) = Encoded(rs[1])
      BY <3>5
    <3>7. k + 1 = 1
      BY <2>6
    <3>8. Body(rs, k+1) = Encoded(rs[1])
      BY <2>3, <2>4, <3>3, <3>4, <3>7
    <3> QED
      BY <1>1, <2>6, <3>6, <3>7, <3>8
  <2> QED
    BY <2>1, <2>5, <2>6
<1> QED
  BY <1>1, <1>2
-----------------------------------------------------------------------------
(* A record takes at least its header.                                     *)
LEMMA Sizes ==
  /\ NumLen \in Nat /\ NumLen > 0 /\ Header \in Nat /\ Header > 0
  /\ \A r \in Record : Len(r.value) \in Nat /\ Size(r) \in Nat /\ Size(r) > 0
<1>1. NumLen \in Nat /\ NumLen > 0 /\ Header \in Nat /\ Header > 0
  BY ConstantsAssumption DEF Header
<1>2. ASSUME NEW r \in Record PROVE Len(r.value) \in Nat /\ Size(r) \in Nat /\ Size(r) > 0
  <2>1. r.value \in Seq(1..Base-1)
    BY DEF Record
  <2>2. Len(r.value) \in Nat
    BY <2>1
  <2> QED
    BY <1>1, <2>2 DEF Size
<1> QED
  BY <1>1, <1>2

(* Each record follows the one before it.                                  *)
LEMMA BodyIs ==
  ASSUME NEW rs \in Seq(Record)
  PROVE  /\ EndOf(rs, 0) = 1
         /\ \A k \in 0..Len(rs) : Body(rs, k) \in Seq(Nat)
         /\ \A k \in 0..Len(rs) : Len(Body(rs, k)) \in Nat /\ EndOf(rs, k) \in Nat
         /\ \A k \in 0..Len(rs)-1 : EndOf(rs, k+1) = EndOf(rs, k) + Size(rs[k+1])
<1>0. Len(rs) \in Nat
  OBVIOUS
<1>1. Body(rs, 0) = <<>> /\ \A k \in 0..Len(rs)-1 : Body(rs, k+1) = Body(rs, k) \o Encoded(rs[k+1])
  BY BodyStep
<1>2. \A k \in 0..Len(rs)-1 : /\ rs[k+1] \in Record /\ Encoded(rs[k+1]) \in Seq(Nat)
                              /\ Len(Encoded(rs[k+1])) = Size(rs[k+1])
  <2> SUFFICES ASSUME NEW k \in 0..Len(rs)-1
               PROVE  /\ rs[k+1] \in Record /\ Encoded(rs[k+1]) \in Seq(Nat)
                      /\ Len(Encoded(rs[k+1])) = Size(rs[k+1])
    OBVIOUS
  <2>1. rs[k+1] \in Record
    BY <1>0
  <2> QED
    BY <2>1, EncodedIs
<1> DEFINE Bad == {k \in 0..Len(rs) : Body(rs, k) \notin Seq(Nat)}
<1>3. ASSUME Bad # {} PROVE FALSE
  <2>1. Bad \in SUBSET Nat
    OBVIOUS
  <2>2. PICK l \in Bad : \A m \in Bad : l <= m
    <3> HIDE DEF Bad
    <3> QED
      BY <1>3, <2>1, LeastNatural
  <2>3. l # 0
    <3>1. <<>> \in Seq(Nat)
      OBVIOUS
    <3>2. 0 \notin Bad
      BY <1>1, <3>1
    <3> HIDE DEF Bad
    <3> QED
      BY <2>2, <3>2
  <2>4. l - 1 \in 0..Len(rs)-1 /\ l - 1 \in 0..Len(rs) /\ l - 1 \notin Bad /\ (l - 1) + 1 = l
    BY <1>0, <2>2, <2>3
  <2>5. Body(rs, l-1) \in Seq(Nat) /\ Encoded(rs[(l-1)+1]) \in Seq(Nat)
    BY <1>2, <2>4
  <2>6. Body(rs, l-1) \o Encoded(rs[(l-1)+1]) \in Seq(Nat)
    BY <2>5, Joined
  <2>7. Body(rs, l) \in Seq(Nat)
    BY <1>1, <2>4, <2>6
  <2> QED
    BY <2>2, <2>7
<1>4. \A k \in 0..Len(rs) : Body(rs, k) \in Seq(Nat)
  BY <1>3
<1>5. \A k \in 0..Len(rs) : Len(Body(rs, k)) \in Nat /\ EndOf(rs, k) \in Nat
  <2> SUFFICES ASSUME NEW k \in 0..Len(rs) PROVE Len(Body(rs, k)) \in Nat /\ EndOf(rs, k) \in Nat
    OBVIOUS
  <2>1. Len(Body(rs, k)) \in Nat
    BY <1>4
  <2> QED
    BY <2>1 DEF EndOf
<1>6. \A k \in 0..Len(rs)-1 : EndOf(rs, k+1) = EndOf(rs, k) + Size(rs[k+1])
  <2> SUFFICES ASSUME NEW k \in 0..Len(rs)-1 PROVE EndOf(rs, k+1) = EndOf(rs, k) + Size(rs[k+1])
    OBVIOUS
  <2>1. k \in 0..Len(rs)
    BY <1>0
  <2> DEFINE s == Body(rs, k)
             t == Encoded(rs[k+1])
  <2>2. s \in Seq(Nat) /\ t \in Seq(Nat) /\ Len(t) = Size(rs[k+1])
    BY <1>2, <1>4, <2>1
  <2>3. Body(rs, k+1) = s \o t
    BY <1>1
  <2>4. EndOf(rs, k+1) = 1 + Len(Body(rs, k+1)) /\ EndOf(rs, k) = 1 + Len(s)
    BY DEF EndOf
  <2> HIDE DEF s, t
  <2>5. Len(s \o t) = Len(s) + Len(t) /\ Len(s) \in Nat /\ Len(t) \in Nat
    BY <2>2, Joined
  <2> QED
    BY <2>2, <2>3, <2>4, <2>5
<1>7. EndOf(rs, 0) = 1
  BY <1>1 DEF EndOf
<1> QED
  BY <1>4, <1>5, <1>6, <1>7

(* What was sent stays what it is when more is sent.                       *)
LEMMA BodyPrefix ==
  ASSUME NEW rs \in Seq(Record), NEW k \in 0..Len(rs), NEW n \in k..Len(rs)
  PROVE  /\ Len(Body(rs, k)) <= Len(Body(rs, n))
         /\ \A i \in 1..Len(Body(rs, k)) : Body(rs, n)[i] = Body(rs, k)[i]
<1>0. Len(rs) \in Nat /\ k \in Nat
  OBVIOUS
<1> DEFINE Fine(l) == /\ Len(Body(rs, k)) <= Len(Body(rs, l))
                      /\ \A i \in 1..Len(Body(rs, k)) : Body(rs, l)[i] = Body(rs, k)[i]
           Bad == {l \in k..Len(rs) : ~Fine(l)}
<1>1. ASSUME Bad # {} PROVE FALSE
  <2>1. Bad \in SUBSET Nat
    BY <1>0
  <2>2. PICK l \in Bad : \A m \in Bad : l <= m
    <3> HIDE DEF Bad
    <3> QED
      BY <1>1, <2>1, LeastNatural
  <2>3. l # k
    <3>1. Len(Body(rs, k)) \in Nat
      BY BodyIs
    <3>2. Fine(k)
      BY <3>1
    <3> HIDE DEF Fine
    <3> QED
      BY <2>2, <3>2
  <2>4. l - 1 \in k..Len(rs) /\ l - 1 \in 0..Len(rs)-1 /\ l - 1 \in 0..Len(rs) /\ l - 1 \notin Bad /\ (l-1)+1 = l
    BY <1>0, <2>2, <2>3
  <2>5. Fine(l - 1)
    <3> HIDE DEF Fine
    <3> QED
      BY <2>4
  <2> DEFINE s == Body(rs, l-1)
             t == Encoded(rs[l])
  <2>6. s \in Seq(Nat) /\ t \in Seq(Nat) /\ Body(rs, l) = s \o t
    <3>1. rs[l] \in Record
      BY <1>0, <2>2, <2>3
    <3>2. t \in Seq(Nat)
      BY <3>1, EncodedIs
    <3>3. s \in Seq(Nat)
      BY <2>4, BodyIs
    <3>4. Body(rs, (l-1)+1) = Body(rs, l-1) \o Encoded(rs[(l-1)+1])
      BY <2>4, BodyStep
    <3> QED
      BY <2>4, <3>2, <3>3, <3>4
  <2> HIDE DEF s, t
  <2>7. /\ Len(s \o t) = Len(s) + Len(t) /\ Len(s) \in Nat /\ Len(t) \in Nat
        /\ \A i \in 1..Len(s) : (s \o t)[i] = s[i]
    BY <2>6, Joined
  <2> DEFINE z == Body(rs, k)
  <2>8. Len(z) \in Nat
    BY BodyIs
  <2>9. Len(z) <= Len(s) /\ \A i \in 1..Len(z) : s[i] = z[i]
    BY <2>5 DEF s
  <2> HIDE DEF z
  <2>10. Len(z) <= Len(s \o t)
    BY <2>7, <2>8, <2>9
  <2>11. \A i \in 1..Len(z) : i \in 1..Len(s)
    BY <2>7, <2>8, <2>9
  <2>12. \A i \in 1..Len(z) : (s \o t)[i] = z[i]
    BY <2>7, <2>9, <2>11
  <2>13. Fine(l)
    BY <2>6, <2>10, <2>12 DEF z
  <2> HIDE DEF Fine
  <2> QED
    BY <2>2, <2>13
<1> QED
  BY <1>1

(* Where the bytes of a record are in all that is sent.                    *)
Placed(v, rs, k) ==
  /\ EndOf(rs, k+1) = EndOf(rs, k) + Size(rs[k+1])
  /\ EndOf(rs, k+1) <= Len(SentOf(v, rs))
  /\ \A j \in 1..Size(rs[k+1]) : SentOf(v, rs)[EndOf(rs, k) + j] = Encoded(rs[k+1])[j]

(* All that is sent: the version byte and the records in their places.     *)
LEMMA SentIs ==
  ASSUME NEW v, NEW rs \in Seq(Record)
  PROVE  /\ Len(SentOf(v, rs)) \in Nat /\ Len(SentOf(v, rs)) = EndOf(rs, Len(rs))
         /\ SentOf(v, rs)[1] = v
         /\ \A k \in 0..Len(rs)-1 : Placed(v, rs, k)
<1>0. Len(rs) \in Nat /\ Len(rs) \in 0..Len(rs)
  OBVIOUS
<1> DEFINE z == Body(rs, Len(rs))
           a == <<v>>
           T == Nat \cup {v}
<1>1. z \in Seq(Nat) /\ Len(z) \in Nat
  BY <1>0, BodyIs
<1>2. z \in Seq(T) /\ a \in Seq(T) /\ Len(a) = 1 /\ a[1] = v
  <2>1. z \in Seq(T)
    <3> HIDE DEF z
    <3>1. \A i \in 1..Len(z) : z[i] \in Nat
      BY <1>1
    <3> QED
      BY <1>1, <3>1
  <2> QED
    BY <2>1
<1>3. SentOf(v, rs) = a \o z /\ Len(z) + 1 = EndOf(rs, Len(rs))
  BY <1>1 DEF SentOf, EndOf
<1> HIDE DEF z, a, T
<1>4. Len(a \o z) = Len(a) + Len(z) /\ \A i \in 1..Len(a)+Len(z) : (a \o z)[i] = IF i <= Len(a) THEN a[i] ELSE z[i - Len(a)]
  BY <1>2, ConcatProperties
<1>5. Len(a \o z) = EndOf(rs, Len(rs)) /\ Len(a \o z) \in Nat
  BY <1>1, <1>2, <1>3, <1>4
<1>6. (a \o z)[1] = v
  BY <1>1, <1>2, <1>4
<1>7. \A i \in 1..Len(z) : (a \o z)[1 + i] = z[i]
  <2> SUFFICES ASSUME NEW i \in 1..Len(z) PROVE (a \o z)[1 + i] = z[i]
    OBVIOUS
  <2>1. 1 + i \in 1..Len(a)+Len(z) /\ ~(1 + i <= Len(a)) /\ (1 + i) - Len(a) = i
    BY <1>1, <1>2
  <2> QED
    BY <1>4, <2>1
<1>8. ASSUME NEW k \in 0..Len(rs)-1 PROVE Placed(v, rs, k)
  <2> DEFINE r == rs[k+1]
             s == Body(rs, k)
             t == Encoded(r)
  <2>1. k \in 0..Len(rs) /\ k + 1 \in 0..Len(rs) /\ Len(rs) \in k+1..Len(rs) /\ r \in Record
    BY <1>0
  <2>2. EndOf(rs, k+1) = EndOf(rs, k) + Size(r) /\ s \in Seq(Nat) /\ EndOf(rs, k) \in Nat
    BY <2>1, BodyIs
  <2>3. Len(Body(rs, k+1)) <= Len(z) /\ \A i \in 1..Len(Body(rs, k+1)) : z[i] = Body(rs, k+1)[i]
    BY <2>1, BodyPrefix DEF z
  <2>4. Body(rs, k+1) = s \o t
    BY BodyStep
  <2>5. t \in Seq(Nat) /\ Len(t) = Size(r)
    BY <2>1, EncodedIs
  <2>6. EndOf(rs, k) = 1 + Len(s) /\ EndOf(rs, k+1) = 1 + Len(Body(rs, k+1))
    BY DEF EndOf
  <2> HIDE DEF r, s, t
  <2>7. /\ Len(s \o t) = Len(s) + Len(t) /\ Len(s) \in Nat /\ Len(t) \in Nat
        /\ \A i \in 1..Len(t) : (s \o t)[Len(s) + i] = t[i]
    BY <2>2, <2>5, Joined
  <2>8. ASSUME NEW j \in 1..Len(t) PROVE (a \o z)[EndOf(rs, k) + j] = t[j]
    <3>1. Len(s) + j \in 1..Len(s \o t) /\ Len(s) + j \in 1..Len(z)
      BY <1>1, <2>3, <2>4, <2>7
    <3>2. z[Len(s) + j] = t[j]
      BY <2>3, <2>4, <2>7, <3>1
    <3>3. EndOf(rs, k) + j = 1 + (Len(s) + j)
      BY <2>6, <2>7
    <3> QED
      BY <1>7, <3>1, <3>2, <3>3
  <2>9. EndOf(rs, k+1) <= Len(a \o z)
    BY <1>1, <1>3, <1>5, <2>3, <2>4, <2>6, <2>7
  <2> QED
    BY <1>3, <2>2, <2>5, <2>8, <2>9 DEF Placed, r, t
<1> QED
  BY <1>3, <1>5, <1>6, <1>8

(* A later record ends later.                                              *)
LEMMA EndsAscend ==
  ASSUME NEW rs \in Seq(Record), NEW k \in 0..Len(rs), NEW n \in 0..Len(rs)
  PROVE  /\ EndOf(rs, k) \in Nat /\ EndOf(rs, k) >= 1
         /\ k <= n => EndOf(rs, k) <= EndOf(rs, n)
         /\ k < n => EndOf(rs, k) < EndOf(rs, n)
<1>0. Len(rs) \in Nat
  OBVIOUS
<1>1. EndOf(rs, k) \in Nat /\ Len(Body(rs, k)) \in Nat /\ Len(Body(rs, n)) \in Nat
  BY BodyIs
<1>2. EndOf(rs, k) >= 1
  BY <1>1 DEF EndOf
<1>3. ASSUME k <= n PROVE EndOf(rs, k) <= EndOf(rs, n)
  <2>1. n \in k..Len(rs)
    BY <1>3
  <2>2. Len(Body(rs, k)) <= Len(Body(rs, n))
    BY <2>1, BodyPrefix
  <2> QED
    BY <1>1, <2>2 DEF EndOf
<1>4. ASSUME k < n PROVE EndOf(rs, k) < EndOf(rs, n)
  <2>1. k + 1 \in 0..Len(rs) /\ k \in 0..Len(rs)-1 /\ n \in k+1..Len(rs) /\ rs[k+1] \in Record
    BY <1>0, <1>4
  <2>2. Len(Body(rs, k+1)) <= Len(Body(rs, n)) /\ Len(Body(rs, k+1)) \in Nat
    BY <2>1, BodyIs, BodyPrefix
  <2>3. EndOf(rs, k+1) <= EndOf(rs, n)
    BY <1>1, <2>2 DEF EndOf
  <2>4. EndOf(rs, k+1) = EndOf(rs, k) + Size(rs[k+1])
    BY <2>1, BodyIs
  <2>5. Size(rs[k+1]) \in Nat /\ Size(rs[k+1]) > 0
    BY <2>1, Sizes
  <2>6. EndOf(rs, n) \in Nat
    BY BodyIs
  <2> QED
    BY <1>1, <2>3, <2>4, <2>5, <2>6
<1> QED
  BY <1>1, <1>2, <1>3, <1>4
-----------------------------------------------------------------------------
(* The k bytes after place p of what is sent.                              *)
Piece(v, rs, p, k) == [i \in 1..k |-> SentOf(v, rs)[p + i]]

(* The numbers of a record's header.                                       *)
HeaderOf(nums, r) == nums[1] = r.start /\ nums[2] = r.end /\ nums[3] = Len(r.value)

(* An annotation with a value that fits.                                   *)
Fitting(r) ==
  /\ r \in Record /\ r.start \in Nat /\ r.end \in Nat
  /\ r.start < OffsetLimit /\ r.end < OffsetLimit /\ OffsetLimit \in Nat
  /\ r.start < Weight[NumLen] /\ r.end < Weight[NumLen]
  /\ Len(r.value) \in Nat /\ Len(r.value) < Weight[NumLen]
  /\ r.value \in Seq(1..Base-1) /\ r.value = [i \in 1..Len(r.value) |-> r.value[i]]
  /\ r = [start |-> r.start, end |-> r.end, value |-> r.value]

(* A function on 1..n is a sequence of length n.                           *)
LEMMA IsSequence ==
  ASSUME NEW T, NEW n \in Nat, NEW f \in [1..n -> T]
  PROVE  f \in Seq(T) /\ Len(f) = n
OBVIOUS

(* The three numbers of a header are read as they were sent.               *)
LEMMA HeaderIsRead ==
  ASSUME NEW v, NEW rs \in Seq(Record), NEW k \in 0..Len(rs)-1, Fitting(rs[k+1])
  PROVE  HeaderOf([i \in 1..3 |-> Number(SubSeq(Piece(v, rs, EndOf(rs, k), Header),
                                                (i-1) * NumLen + 1, i * NumLen))],
                  rs[k+1])
<1> DEFINE r == rs[k+1]
           e == Encoded(r)
           got == Piece(v, rs, EndOf(rs, k), Header)
           Digit(i) == SubSeq(got, (i-1) * NumLen + 1, i * NumLen)
<1>0. /\ NumLen \in Nat /\ NumLen > 0 /\ Header \in Nat /\ Header = 3 * NumLen
      /\ k \in Nat /\ r \in Record /\ Len(r.value) \in Nat /\ Size(r) = Header + Len(r.value)
  <2>1. k \in Nat /\ r \in Record
    BY EndsAscend
  <2> QED
    BY <2>1, Sizes DEF Header, Size
<1>0a. \A j \in 1..Header : j \in 1..Size(r)
  <2> DEFINE n == Len(r.value)
             h == Header
  <2>1. n \in Nat /\ h \in Nat /\ Size(r) = h + n
    BY <1>0
  <2> HIDE DEF n, h
  <2>2. \A j \in 1..h : j \in 1..h + n
    BY <2>1
  <2> QED
    BY <2>1, <2>2 DEF h
<1>1. \A j \in 1..Header : got[j] = e[j]
  <2> SUFFICES ASSUME NEW j \in 1..Header PROVE got[j] = e[j]
    OBVIOUS
  <2>1. got[j] = SentOf(v, rs)[EndOf(rs, k) + j]
    BY DEF Piece
  <2>2. Placed(v, rs, k)
    BY SentIs
  <2>3. j \in 1..Size(r)
    BY <1>0a
  <2> QED
    BY <2>1, <2>2, <2>3 DEF Placed
<1>2. e \in Seq(Nat) /\ Len(e) = Size(r)
  BY <1>0, EncodedIs
<1>3. /\ \A i \in 1..NumLen : e[i] = Digits(r.start)[i]
      /\ \A i \in 1..NumLen : e[NumLen + i] = Digits(r.end)[i]
      /\ \A i \in 1..NumLen : e[2 * NumLen + i] = Digits(Len(r.value))[i]
  BY <1>0, EncodedIs
<1>4. got \in Seq(Nat) /\ Len(got) = Header
  <2>1. \A j \in 1..Header : e[j] \in Nat
    <3>1. \A j \in 1..Len(e) : e[j] \in Nat
      BY <1>2
    <3> QED
      BY <1>0a, <1>2, <3>1
  <2>2. got = [j \in 1..Header |-> got[j]]
    BY DEF Piece
  <2> HIDE DEF got, e
  <2>3. \A j \in 1..Header : got[j] \in Nat
    BY <1>1, <2>1
  <2>4. got \in [1..Header -> Nat]
    BY <2>2, <2>3
  <2> QED
    BY <1>0, <2>4, IsSequence
<1> HIDE DEF got, e
<1>5. /\ Digit(1) = SubSeq(got, 1, NumLen)
      /\ Digit(2) = SubSeq(got, NumLen + 1, 2 * NumLen)
      /\ Digit(3) = SubSeq(got, 2 * NumLen + 1, 3 * NumLen)
  <2>1. (1-1) * NumLen + 1 = 1 /\ 1 * NumLen = NumLen /\ (2-1) * NumLen + 1 = NumLen + 1
        /\ (3-1) * NumLen + 1 = 2 * NumLen + 1
    BY <1>0
  <2> QED
    BY <2>1
<1>6. ASSUME NEW p \in {0, NumLen, 2 * NumLen}
      PROVE  /\ SubSeq(got, p + 1, p + NumLen) \in Seq(Nat)
             /\ Len(SubSeq(got, p + 1, p + NumLen)) = NumLen
             /\ \A i \in 1..NumLen : SubSeq(got, p + 1, p + NumLen)[i] = e[p + i]
  <2>1. p \in Nat /\ p + NumLen <= Header /\ p + NumLen \in Nat
    BY <1>0
  <2> DEFINE m == p + 1
             n == p + NumLen
             d == SubSeq(got, m, n)
  <2>2. m \in 1..Len(got)+1 /\ n \in m-1..Len(got) /\ (n - m) + 1 = NumLen
    BY <1>0, <1>4, <2>1
  <2>3. \A i \in 1..NumLen : (m + i) - 1 = p + i /\ p + i \in 1..Header
    BY <1>0, <2>1
  <2> HIDE DEF m, n
  <2>4. /\ d \in Seq(Nat) /\ Len(d) = (n - m) + 1
        /\ \A i \in 1..(n - m) + 1 : d[i] = got[(m + i) - 1]
    <3>1. \A i \in 1..Len(got) : got[i] \in Nat
      BY <1>4
    <3>2. m \in Int /\ n \in Int /\ m <= n
      BY <1>0, <1>4, <2>2
    <3>3. \A i \in m..n : i \in 1..Len(got)
      BY <1>4, <2>2
    <3>4. \A i \in m..n : got[i] \in Nat
      BY <3>1, <3>3
    <3> QED
      BY <3>2, <3>4, SubSeqProperties
  <2> HIDE DEF d
  <2>5. Len(d) = NumLen /\ \A i \in 1..NumLen : d[i] = e[p + i]
    BY <1>1, <2>2, <2>3, <2>4
  <2> QED
    BY <2>4, <2>5 DEF d, m, n
<1>7. Number(Digit(1)) = r.start
  <2>1. 0 + 1 = 1 /\ 0 + NumLen = NumLen /\ \A i \in 1..NumLen : 0 + i = i
    BY <1>0
  <2> DEFINE d == SubSeq(got, 1, NumLen)
  <2>2. /\ SubSeq(got, 0 + 1, 0 + NumLen) \in Seq(Nat)
        /\ Len(SubSeq(got, 0 + 1, 0 + NumLen)) = NumLen
        /\ \A i \in 1..NumLen : SubSeq(got, 0 + 1, 0 + NumLen)[i] = e[0 + i]
    BY <1>6
  <2>3. d \in Seq(Nat) /\ Len(d) = NumLen /\ \A i \in 1..NumLen : d[i] = e[i]
    BY <2>1, <2>2
  <2>4. Digit(1) = d
    BY <1>5
  <2>5. \A i \in 1..NumLen : d[i] = Digits(r.start)[i]
    BY <1>3, <2>3
  <2>6. r.start \in Nat /\ r.start < Weight[NumLen]
    BY DEF Fitting
  <2> HIDE DEF d, Digit, r
  <2> QED
    BY <2>3, <2>4, <2>5, <2>6, NumberOfDigits
<1>8. Number(Digit(2)) = r.end
  <2> DEFINE d == SubSeq(got, NumLen + 1, NumLen + NumLen)
  <2>3. d \in Seq(Nat) /\ Len(d) = NumLen /\ \A i \in 1..NumLen : d[i] = e[NumLen + i]
    BY <1>6
  <2>4. Digit(2) = d
    <3>1. 2 * NumLen = NumLen + NumLen
      BY <1>0
    <3> QED
      BY <1>5, <3>1
  <2>5. \A i \in 1..NumLen : d[i] = Digits(r.end)[i]
    BY <1>3, <2>3
  <2>6. r.end \in Nat /\ r.end < Weight[NumLen]
    BY DEF Fitting
  <2> HIDE DEF d, Digit, r
  <2> QED
    BY <2>3, <2>4, <2>5, <2>6, NumberOfDigits
<1>9. Number(Digit(3)) = Len(r.value)
  <2> DEFINE d == SubSeq(got, 2 * NumLen + 1, 2 * NumLen + NumLen)
  <2>3. d \in Seq(Nat) /\ Len(d) = NumLen /\ \A i \in 1..NumLen : d[i] = e[2 * NumLen + i]
    BY <1>6
  <2>4. Digit(3) = d
    <3>1. 3 * NumLen = 2 * NumLen + NumLen
      BY <1>0
    <3> QED
      BY <1>5, <3>1
  <2>5. \A i \in 1..NumLen : d[i] = Digits(Len(r.value))[i]
    BY <1>3, <2>3
  <2>6. Len(r.value) \in Nat /\ Len(r.value) < Weight[NumLen]
    BY DEF Fitting
  <2> HIDE DEF d, Digit, r
  <2> QED
    BY <2>3, <2>4, <2>5, <2>6, NumberOfDigits
<1> DEFINE nums == [i \in 1..3 |-> Number(Digit(i))]
<1>10. nums[1] = Number(Digit(1)) /\ nums[2] = Number(Digit(2)) /\ nums[3] = Number(Digit(3))
  <2> HIDE DEF Digit
  <2> QED
    OBVIOUS
<1>11. HeaderOf(nums, r)
  <2> HIDE DEF nums, Digit
  <2> QED
    BY <1>7, <1>8, <1>9, <1>10 DEF HeaderOf
<1> QED
  BY <1>11 DEF got

(* A value is read as it was sent.                                         *)
LEMMA ValueIsRead ==
  ASSUME NEW v, NEW rs \in Seq(Record), NEW k \in 0..Len(rs)-1, Fitting(rs[k+1])
  PROVE  Piece(v, rs, EndOf(rs, k) + Header, Len(rs[k+1].value)) = rs[k+1].value
<1> DEFINE r == rs[k+1]
           n == Len(r.value)
           p == EndOf(rs, k)
           s == SentOf(v, rs)
           e == Encoded(r)
<1>1. n \in Nat /\ p \in Nat /\ Header \in Nat /\ r \in Record /\ Size(r) = Header + n
  <2>1. k \in 0..Len(rs)
    OBVIOUS
  <2> QED
    BY <2>1, Sizes, BodyIs DEF Fitting, Size
<1>2. \A j \in 1..Size(r) : s[p + j] = e[j]
  BY SentIs DEF Placed
<1>3. \A i \in 1..n : e[Header + i] = r.value[i]
  BY <1>1, EncodedIs
<1>4. r.value = [i \in 1..n |-> r.value[i]]
  BY DEF Fitting
<1> DEFINE val1 == r.value
<1>5. Piece(v, rs, p + Header, n) = [i \in 1..n |-> s[(p + Header) + i]]
  BY DEF Piece
<1> HIDE DEF r, n, p, s, e, val1
<1>6. \A i \in 1..n : s[(p + Header) + i] = r.value[i]
  <2> SUFFICES ASSUME NEW i \in 1..n PROVE s[(p + Header) + i] = r.value[i]
    OBVIOUS
  <2>1. Header + i \in 1..Size(r) /\ (p + Header) + i = p + (Header + i)
    BY <1>1
  <2> QED
    BY <1>2, <1>3, <2>1
<1>7. Piece(v, rs, p + Header, n) = r.value
  BY <1>4, <1>5, <1>6
<1> QED
  BY <1>7 DEF r, n, p

(* A value holds no zero byte, so the C string is all of it.               *)
LEMMA NoZero ==
  ASSUME NEW s \in Seq(1..Base-1)
  PROVE  CString(s) = s
<1> DEFINE I == {i \in 1..Len(s) : s[i] = 0}
           k == SelectInSeq(s, LAMBDA b : b = 0)
<1>1. k = IF I # {} THEN Min(I) ELSE 0
  BY DEF SelectInSeq
<1>2. Base \in Nat
  BY ConstantsAssumption
<1>3. \A i \in 1..Len(s) : s[i] \in 1..Base-1
  <2> DEFINE D == 1..Base-1
  <2>1. s \in Seq(D)
    OBVIOUS
  <2> HIDE DEF D
  <2>2. \A i \in 1..Len(s) : s[i] \in D
    BY <2>1
  <2> QED
    BY <2>2 DEF D
<1>4. I = {}
  BY <1>2, <1>3
<1>5. CString(s) = IF k = 0 THEN s ELSE SubSeq(s, 1, k - 1)
  BY DEF CString
<1> HIDE DEF k
<1> QED
  BY <1>1, <1>4, <1>5

(* What an annotator sends fits.                                           *)
LEMMA SendableFits ==
  ASSUME NEW rs \in Sendable
  PROVE  rs \in Seq(Record) /\ \A k \in 1..Len(rs) : Fitting(rs[k])
<1>0. /\ rs \in Seq(Record)
      /\ \A k \in DOMAIN rs : Len(rs[k].value) < Weight[NumLen]
  BY SendableAssumption DEF Record
<1>1. OffsetLimit \in Nat /\ OffsetLimit <= Weight[NumLen] /\ Weight[NumLen] \in Nat
  <2>1. NumLen \in 0..NumLen
    BY ConstantsAssumption
  <2>2. Weight[NumLen] \in Nat
    BY <2>1, WeightIs
  <2> QED
    BY <2>2, ConstantsAssumption
<1>2. ASSUME NEW k \in 1..Len(rs) PROVE Fitting(rs[k])
  <2> DEFINE r == rs[k]
  <2>1. r \in Record /\ Len(r.value) < Weight[NumLen]
    BY <1>0
  <2> HIDE DEF r
  <2>2. r.start \in 0..OffsetLimit-1 /\ r.end \in 0..OffsetLimit-1 /\ r.value \in Seq(1..Base-1)
    BY <2>1 DEF Record
  <2>3. r = [start |-> r.start, end |-> r.end, value |-> r.value]
    BY <2>1 DEF Record
  <2>4. Len(r.value) \in Nat /\ r.value = [i \in 1..Len(r.value) |-> r.value[i]]
    BY <2>2
  <2>5. r.start \in Nat /\ r.end \in Nat /\ r.start < OffsetLimit /\ r.end < OffsetLimit
    BY <1>1, <2>2
  <2>6. r.start < Weight[NumLen] /\ r.end < Weight[NumLen]
    BY <1>1, <2>5
  <2> QED
    BY <1>1, <2>1, <2>2, <2>3, <2>4, <2>5, <2>6 DEF Fitting, r
<1> QED
  BY <1>0, <1>2
-----------------------------------------------------------------------------
(* Of rs, out was returned.                                                *)
FirstOf(rs, out) ==
  /\ out \in Seq(Record) /\ Len(out) \in Nat /\ Len(out) <= Len(rs)
  /\ \A i \in 1..Len(out) : out[i] = rs[i]

(* The place up to which n records were committed: the version byte is     *)
(* committed with the first.                                               *)
Mark(rs, n) == IF n = 0 THEN 0 ELSE EndOf(rs, n)

(* No record after the n-th arrived.                                       *)
NoMore(rs, n, w) == n < Len(rs) => w < EndOf(rs, n + 1)

(* The n-th record is all that can be returned of w bytes.                 *)
AllReturned(rs, n, w) == n > 0 /\ NoMore(rs, n, w)

Types ==
  /\ records \in Sendable
  /\ written \in Nat /\ committed \in Nat /\ rpos \in Nat
  /\ committed <= written /\ rpos <= written /\ written <= EndOf(records, Len(records))
  /\ Len(records) > 0
  /\ written > 0 => written >= EndOf(records, 1)
  /\ FirstOf(records, output)
  /\ pc \in {"idle", "begin", "header", "value", "commit", "not_enough_input", "exited"}

Phase ==
  LET n == Len(output)
  IN
  /\ pc = "idle" =>
       /\ rpos = committed
       /\ \/ written = 0 /\ n = 0 /\ ~hasVersion /\ committed = 0
          \/ written > 0 /\ hasVersion /\ AllReturned(records, n, written)
  /\ pc = "begin" => written > 0 /\ rpos = committed /\ (hasVersion <=> n > 0)
  /\ pc = "header" => written > 0 /\ hasVersion /\ rpos = EndOf(records, n)
  /\ pc = "value" =>
       /\ written > 0 /\ hasVersion /\ n < Len(records)
       /\ rpos = EndOf(records, n) + Header
       /\ HeaderOf(num, records[n + 1])
  /\ pc = "commit" =>
       /\ written > 0 /\ hasVersion /\ n < Len(records)
       /\ rpos = EndOf(records, n + 1)
       /\ HeaderOf(num, records[n + 1]) /\ val = records[n + 1].value
  /\ pc = "not_enough_input" =>
       written > 0 /\ hasVersion /\ AllReturned(records, n, written)

(* The inductive invariant.                                                *)
ParserInv ==
  /\ Types
  /\ pc # "exited" => committed = Mark(records, Len(output))
  /\ Phase

(* Facts of numbers that the steps use.                                    *)
LEMMA Numbers ==
  ASSUME ParserInv
  PROVE  /\ written \in Nat /\ committed \in Nat /\ rpos \in Nat /\ rpos <= written
         /\ records \in Seq(Record) /\ Len(records) \in Nat /\ Len(records) > 0
         /\ Len(output) \in Nat /\ Len(output) <= Len(records)
         /\ Len(output) \in 0..Len(records) /\ Len(records) \in 0..Len(records)
         /\ 1 \in 0..Len(records)
         /\ Header \in Nat /\ Header > 0
<1>1. records \in Sendable
  BY DEF ParserInv, Types
<1>2. records \in Seq(Record)
  BY <1>1, SendableFits
<1>3. Len(records) \in Nat
  BY <1>2
<1> QED
  BY <1>2, <1>3, Sizes DEF ParserInv, Types, FirstOf

(* The model's definitions by those of this module.                        *)
LEMMA Same ==
  ASSUME ParserInv
  PROVE  Sent = SentOf(version, records) /\ \A k : End(k) = EndOf(records, k)
<1>1. DOMAIN records = 1..Len(records)
  BY Numbers
<1> QED
  BY <1>1 DEF Sent, SentOf, End, EndOf, Body

(* The record that comes next.                                             *)
LEMMA NextRecord ==
  ASSUME ParserInv, Len(output) < Len(records)
  PROVE  LET n == Len(output)
             r == records[n + 1]
         IN  /\ n \in 0..Len(records)-1 /\ n + 1 \in 0..Len(records) /\ n + 1 \in 1..Len(records)
             /\ Fitting(r) /\ r \in Record
             /\ Len(r.value) \in Nat
             /\ EndOf(records, n) \in Nat /\ EndOf(records, n) >= 1
             /\ EndOf(records, n + 1) \in Nat
             /\ EndOf(records, n + 1) = (EndOf(records, n) + Header) + Len(r.value)
             /\ EndOf(records, n + 1) <= EndOf(records, Len(records))
             /\ EndOf(records, n + 1) >= EndOf(records, 1)
             /\ EndOf(records, 1) \in Nat /\ EndOf(records, 1) >= 1
<1> DEFINE n == Len(output)
           r == records[n + 1]
<1>1. n \in 0..Len(records)-1 /\ n \in 0..Len(records) /\ n + 1 \in 0..Len(records) /\ n + 1 \in 1..Len(records)
      /\ 1 <= n + 1 /\ n + 1 <= Len(records)
  BY Numbers
<1>2. Fitting(r)
  BY <1>1, SendableFits DEF ParserInv, Types
<1>3. r \in Record /\ Len(r.value) \in Nat
  BY <1>2 DEF Fitting
<1>4. EndOf(records, n + 1) = EndOf(records, n) + Size(r)
  BY <1>1, Numbers, BodyIs
<1> HIDE DEF n, r
<1>5. EndOf(records, n) \in Nat /\ EndOf(records, n) >= 1
  BY <1>1, Numbers, EndsAscend
<1>6. EndOf(records, n + 1) <= EndOf(records, Len(records)) /\ EndOf(records, n + 1) \in Nat
  BY <1>1, Numbers, EndsAscend
<1>7. EndOf(records, 1) <= EndOf(records, n + 1) /\ EndOf(records, 1) \in Nat /\ EndOf(records, 1) >= 1
  BY <1>1, Numbers, EndsAscend
<1>8. EndOf(records, n + 1) = (EndOf(records, n) + Header) + Len(r.value)
  BY <1>3, <1>4, <1>5, Numbers DEF Size
<1> QED
  BY <1>1, <1>2, <1>3, <1>5, <1>6, <1>7, <1>8 DEF n, r

(* Nothing arrived, nothing is read.                                       *)
LEMMA InitInv ==
  ASSUME FirstWhole, Init
  PROVE  ParserInv
<1>1. /\ records \in Sendable /\ written = 0 /\ committed = 0 /\ rpos = 0
      /\ output = <<>> /\ pc = "idle"
  BY DEF Init, Queue!Init
<1>2. ~hasVersion
  BY Zenon DEF Init
<1>3. records \in Seq(Record) /\ records # <<>>
  BY <1>1, SendableFits, SendableAssumption
<1>4. Len(records) \in Nat /\ Len(records) > 0
  BY <1>3
<1>5. EndOf(records, Len(records)) \in Nat
  BY <1>3, <1>4, EndsAscend
<1>6. Len(output) = 0 /\ output \in Seq(Record)
  BY <1>1
<1>7. FirstOf(records, output)
  BY <1>4, <1>6 DEF FirstOf
<1>8. Types
  BY <1>1, <1>4, <1>5, <1>7 DEF Types
<1>9. Phase
  BY <1>1, <1>2, <1>6 DEF Phase
<1> QED
  BY <1>1, <1>6, <1>8, <1>9 DEF ParserInv, Mark
-----------------------------------------------------------------------------
(* A piece arrives.                                                        *)
LEMMA ReceiveKeeps ==
  ASSUME FirstWhole, ParserInv, NEW k \in 1..Len(Sent), Receive(k)
  PROVE  ParserInv'
<1>1. /\ pc = "idle" /\ written + k <= Len(Sent) /\ pc' = "begin"
      /\ written = 0 => k >= End(1)
      /\ written' = written + k
      /\ UNCHANGED <<version, records, committed, rpos, hasVersion, num, val, output>>
  BY DEF Receive, Queue!Write
<1>2. Len(Sent) = EndOf(records, Len(records)) /\ Len(Sent) \in Nat
  BY Numbers, Same, SentIs
<1>3. End(1) = EndOf(records, 1) /\ EndOf(records, 1) \in Nat
  BY Numbers, Same, EndsAscend
<1>4. k \in Nat /\ k >= 1
  BY <1>2
<1>5. written' \in Nat /\ written' > 0 /\ rpos <= written'
  BY <1>1, <1>4, Numbers
<1>6. written' >= EndOf(records, 1)
  <2>1. CASE written = 0
    BY <1>1, <1>3, <1>4, <2>1
  <2>2. CASE written > 0
    BY <1>1, <1>3, <1>4, <2>2, Numbers DEF ParserInv, Types
  <2> QED
    BY <2>1, <2>2, Numbers
<1>7. Types'
  BY <1>1, <1>2, <1>5, <1>6 DEF ParserInv, Types
<1>8. rpos = committed /\ (hasVersion <=> Len(output) > 0)
  BY <1>1 DEF ParserInv, Phase, AllReturned
<1>9. Phase'
  BY <1>1, <1>5, <1>8 DEF Phase
<1> QED
  BY <1>1, <1>7, <1>9 DEF ParserInv

(* What a read of k bytes gives: m bytes, fewer when no more are there.    *)
Gives(k, m) ==
  /\ m \in Nat /\ m <= k /\ m <= written - rpos /\ (m < k => m = written - rpos)
  /\ rpos' = rpos + m /\ rpos' \in Nat /\ rpos' <= written
  /\ UNCHANGED <<written, committed>>
  /\ Got(ret'.bytes) = Piece(version, records, rpos, m)
  /\ Len(Got(ret'.bytes)) = m

(* A read is one of those.                                                 *)
LEMMA ReadGives ==
  ASSUME ParserInv, NEW k \in Nat, Queue!Read(k)
  PROVE  \E m \in Nat : Gives(k, m)
<1> DEFINE m == IF k < written - rpos THEN k ELSE written - rpos
<1>1. m \in Nat /\ m <= k /\ m <= written - rpos /\ (m < k => m = written - rpos)
  BY Numbers
<1>2. rpos' = rpos + m /\ UNCHANGED <<written, committed>> /\ ret'.bytes = Queue!Bytes(rpos, m)
  BY DEF Queue!Read
<1>3. Sent = SentOf(version, records)
  BY Same
<1> HIDE DEF m
<1>4. Queue!Bytes(rpos, m) = [i \in 1..m |-> rpos + i]
  BY DEF Queue!Bytes
<1>5. Got(ret'.bytes) = [i \in 1..m |-> Sent[rpos + i]]
  BY <1>2, <1>4 DEF Got
<1>6. Got(ret'.bytes) = Piece(version, records, rpos, m)
  BY <1>3, <1>5 DEF Piece
<1>7. Len(Got(ret'.bytes)) = m
  BY <1>1, <1>5
<1>8. rpos' \in Nat /\ rpos' <= written
  BY <1>1, <1>2, Numbers
<1> QED
  BY <1>1, <1>2, <1>6, <1>7, <1>8 DEF Gives

(* The version byte is read.                                               *)
LEMMA ReadVersionKeeps ==
  ASSUME ParserInv, ReadVersion
  PROVE  ParserInv'
<1> DEFINE got == Got(ret'.bytes)
<1>1. /\ pc = "begin" /\ ~hasVersion /\ Queue!Read(1)
      /\ CASE got = <<>>    -> pc' = "not_enough_input" /\ UNCHANGED hasVersion
           [] got = <<1>>   -> pc' = "header" /\ hasVersion' = TRUE
           [] OTHER         -> pc' = "exited" /\ UNCHANGED hasVersion
      /\ UNCHANGED <<version, records, num, val, output>>
  BY DEF ReadVersion
<1>2. /\ Len(output) = 0 /\ rpos = 0 /\ committed = 0 /\ written > 0
  BY <1>1, Numbers DEF ParserInv, Phase, Mark
<1> HIDE DEF got
<1>3. rpos' = 1 /\ UNCHANGED <<written, committed>> /\ Len(got) = 1
  <2>1. PICK m \in Nat : Gives(1, m)
    BY <1>1, ReadGives
  <2>2. m = 1
    BY <1>2, <2>1, Numbers DEF Gives
  <2> QED
    BY <1>2, <2>1, <2>2 DEF Gives, got
<1>4. got # <<>>
  BY <1>3
<1>5. \/ pc' = "header" /\ hasVersion' = TRUE
      \/ pc' = "exited" /\ UNCHANGED hasVersion
  BY <1>1, <1>4, Zenon
<1>6. EndOf(records, 0) = 1
  BY Numbers, BodyIs
<1>7. Types'
  BY <1>1, <1>2, <1>3, <1>5, Numbers DEF ParserInv, Types
<1>8. CASE pc' = "header" /\ hasVersion' = TRUE
  <2>1. hasVersion'
    BY <1>8, Zenon
  <2>2. Phase'
    BY <1>1, <1>2, <1>3, <1>6, <1>8, <2>1 DEF Phase
  <2> QED
    BY <1>1, <1>2, <1>3, <1>7, <1>8, <2>2 DEF ParserInv, Mark
<1>9. CASE pc' = "exited"
  BY <1>7, <1>9 DEF ParserInv, Phase
<1> QED
  BY <1>5, <1>8, <1>9

(* The version byte was read before.                                       *)
LEMMA HasVersionKeeps ==
  ASSUME ParserInv, HasVersion
  PROVE  ParserInv'
<1>1. /\ pc = "begin" /\ hasVersion /\ pc' = "header"
      /\ UNCHANGED <<version, records, written, committed, rpos, hasVersion, num, val, output>>
  BY DEF HasVersion, streamVars
<1>2. Len(output) > 0 /\ rpos = committed /\ written > 0
  BY <1>1 DEF ParserInv, Phase
<1>3. rpos = EndOf(records, Len(output))
  BY <1>1, <1>2 DEF ParserInv, Mark
<1>4. Types'
  BY <1>1 DEF ParserInv, Types
<1>5. Phase'
  BY <1>1, <1>2, <1>3 DEF Phase
<1> QED
  BY <1>1, <1>4, <1>5 DEF ParserInv

(* Without a whole record after the n-th, there is no more to return.      *)
LEMMA RecordMissing ==
  ASSUME ParserInv, written > 0, NoMore(records, Len(output), written)
  PROVE  AllReturned(records, Len(output), written)
<1>1. SUFFICES ASSUME Len(output) = 0 PROVE FALSE
  BY Numbers DEF AllReturned
<1>2. written < EndOf(records, 0 + 1)
  BY <1>1, Numbers DEF NoMore
<1>3. written >= EndOf(records, 1) /\ EndOf(records, 1) \in Nat
  BY Numbers, EndsAscend DEF ParserInv, Types
<1> QED
  BY <1>2, <1>3, Numbers

(* The three numbers of the header are read, if they are there.            *)
LEMMA ReadHeaderKeeps ==
  ASSUME ParserInv, ReadHeader
  PROVE  ParserInv'
<1> DEFINE got == Got(ret'.bytes)
           n == Len(output)
<1>1. /\ pc = "header" /\ Queue!Read(Header)
      /\ IF Len(got) < Header
         THEN pc' = "not_enough_input" /\ UNCHANGED num
         ELSE /\ pc' = "value"
              /\ num' = [i \in 1..3 |-> Number(SubSeq(got, (i-1)*NumLen + 1, i*NumLen))]
      /\ UNCHANGED <<version, records, hasVersion, val, output>>
  BY DEF ReadHeader, Header
<1>2. written > 0 /\ hasVersion /\ rpos = EndOf(records, n)
  BY <1>1 DEF ParserInv, Phase
<1>a. PICK m \in Nat : Gives(Header, m)
  BY <1>1, Numbers, ReadGives
<1>3. /\ m <= Header /\ m <= written - rpos /\ (m < Header => m = written - rpos)
      /\ rpos' = rpos + m /\ UNCHANGED <<written, committed>>
      /\ got = Piece(version, records, rpos, m) /\ Len(got) = m
  BY <1>a DEF Gives
<1>4. rpos' \in Nat /\ rpos' <= written
  BY <1>a DEF Gives
<1>5. Types'
  BY <1>1, <1>3, <1>4 DEF ParserInv, Types
<1>6. CASE m < Header
  <2>1. pc' = "not_enough_input"
    BY <1>1, <1>3, <1>6
  <2>2. m = written - rpos
    BY <1>3, <1>6
  <2>3. ASSUME n < Len(records) PROVE written < EndOf(records, n + 1)
    <3>1. /\ EndOf(records, n) \in Nat /\ Len(records[n+1].value) \in Nat
          /\ EndOf(records, n + 1) = (EndOf(records, n) + Header) + Len(records[n+1].value)
      BY <2>3, NextRecord
    <3> QED
      BY <1>2, <1>6, <2>2, <3>1, Numbers
  <2>4. NoMore(records, n, written)
    BY <2>3 DEF NoMore
  <2>5. AllReturned(records, n, written)
    BY <1>2, <2>4, RecordMissing
  <2>6. Phase'
    BY <1>1, <1>2, <1>3, <2>1, <2>5 DEF Phase
  <2> QED
    BY <1>1, <1>3, <1>5, <2>1, <2>6 DEF ParserInv
<1>7. CASE m = Header
  <2>1. /\ pc' = "value"
        /\ num' = [i \in 1..3 |-> Number(SubSeq(got, (i-1)*NumLen + 1, i*NumLen))]
    BY <1>1, <1>3, <1>7, Numbers
  <2>2. n < Len(records)
    <3>1. Header <= written - rpos
      BY <1>3, <1>7
    <3>2. n # Len(records)
      BY <1>2, <3>1, Numbers DEF ParserInv, Types
    <3> QED
      BY <3>2, Numbers
  <2>3. n \in 0..Len(records)-1 /\ Fitting(records[n+1])
    BY <2>2, NextRecord
  <2>4. got = Piece(version, records, EndOf(records, n), Header)
    BY <1>2, <1>3, <1>7
  <2> HIDE DEF got
  <2>5. HeaderOf([i \in 1..3 |-> Number(SubSeq(Piece(version, records, EndOf(records, n), Header),
                                                (i-1) * NumLen + 1, i * NumLen))],
                  records[n+1])
    BY <2>3, Numbers, HeaderIsRead
  <2>6. HeaderOf(num', records[n+1])
    BY <2>1, <2>4, <2>5
  <2>7. Phase'
    BY <1>1, <1>2, <1>3, <1>7, <2>1, <2>2, <2>6 DEF Phase
  <2> QED
    BY <1>1, <1>3, <1>5, <2>1, <2>7 DEF ParserInv
<1> QED
  BY <1>3, <1>6, <1>7, Numbers

(* The value is read, if it is there.                                      *)
LEMMA ReadValueKeeps ==
  ASSUME ParserInv, ReadValue
  PROVE  ParserInv'
<1> DEFINE got == Got(ret'.bytes)
           n == Len(output)
           r == records[n + 1]
           k == Len(r.value)
<1>1. /\ pc = "value" /\ Queue!Read(num[3])
      /\ IF Len(got) < num[3]
         THEN pc' = "not_enough_input" /\ UNCHANGED val
         ELSE pc' = "commit" /\ val' = got
      /\ UNCHANGED <<version, records, hasVersion, num, output>>
  BY DEF ReadValue
<1>2. /\ written > 0 /\ hasVersion /\ n < Len(records)
      /\ rpos = EndOf(records, n) + Header /\ HeaderOf(num, r)
  BY <1>1 DEF ParserInv, Phase
<1>3. /\ n \in 0..Len(records)-1 /\ Fitting(r) /\ k \in Nat /\ EndOf(records, n) \in Nat
      /\ EndOf(records, n + 1) = (EndOf(records, n) + Header) + k
  BY <1>2, NextRecord
<1>4. num[3] = k
  BY <1>2 DEF HeaderOf
<1>5. Queue!Read(k)
  BY <1>1, <1>4
<1>a. PICK m \in Nat : Gives(k, m)
  BY <1>3, <1>5, ReadGives
<1>6. /\ m <= k /\ (m < k => m = written - rpos)
      /\ rpos' = rpos + m /\ UNCHANGED <<written, committed>>
      /\ got = Piece(version, records, rpos, m) /\ Len(got) = m
  BY <1>a DEF Gives
<1>7. rpos' \in Nat /\ rpos' <= written
  BY <1>a DEF Gives
<1>8. Types'
  BY <1>1, <1>6, <1>7 DEF ParserInv, Types
<1>9. CASE m < k
  <2>1. pc' = "not_enough_input"
    BY <1>1, <1>4, <1>6, <1>9
  <2>2. m = written - rpos
    BY <1>6, <1>9
  <2>3. written < EndOf(records, n + 1)
    <3> HIDE DEF k, n
    <3> QED
      BY <1>2, <1>3, <1>9, <2>2, Numbers
  <2>4. NoMore(records, n, written)
    BY <2>3 DEF NoMore
  <2>5. AllReturned(records, n, written)
    BY <1>2, <2>4, RecordMissing
  <2>6. Phase'
    BY <1>1, <1>2, <1>6, <2>1, <2>5 DEF Phase
  <2> QED
    BY <1>1, <1>6, <1>8, <2>1, <2>6 DEF ParserInv
<1>10. CASE m = k
  <2>1. pc' = "commit" /\ val' = got
    BY <1>1, <1>3, <1>4, <1>6, <1>10
  <2>2. got = Piece(version, records, EndOf(records, n) + Header, k)
    BY <1>2, <1>6, <1>10
  <2> HIDE DEF got
  <2>3. Piece(version, records, EndOf(records, n) + Header, k) = r.value
    BY <1>3, Numbers, ValueIsRead
  <2>4. rpos' = EndOf(records, n + 1)
    BY <1>2, <1>3, <1>6, <1>10
  <2>5. Phase'
    BY <1>1, <1>2, <1>6, <2>1, <2>2, <2>3, <2>4 DEF Phase
  <2> QED
    BY <1>1, <1>6, <1>8, <2>1, <2>5 DEF ParserInv
<1> QED
  BY <1>3, <1>6, <1>9, <1>10

(* The record is returned as it was sent, and what was read of it is       *)
(* committed.                                                              *)
LEMMA ReturnAnnotationKeeps ==
  ASSUME ParserInv, ReturnAnnotation
  PROVE  ParserInv'
<1> DEFINE n == Len(output)
           r == records[n + 1]
<1>1. /\ pc = "commit" /\ committed' = rpos /\ output' = Append(output, Annotation)
      /\ pc' = "begin"
      /\ UNCHANGED <<version, records, written, rpos, hasVersion>>
  BY DEF ReturnAnnotation, Queue!Commit
<1>2. /\ written > 0 /\ hasVersion /\ n < Len(records) /\ rpos = EndOf(records, n + 1)
      /\ HeaderOf(num, r) /\ val = r.value
  BY <1>1 DEF ParserInv, Phase
<1>3. Fitting(r) /\ r \in Record
  BY <1>2, NextRecord
<1>4. Annotation = r
  <2>1. num[1] % OffsetLimit = r.start /\ num[2] % OffsetLimit = r.end
    BY <1>2, <1>3, SmallRemainder DEF HeaderOf, Fitting
  <2>2. CString(val) = r.value
    BY <1>2, <1>3, NoZero DEF Fitting
  <2> QED
    BY <1>3, <2>1, <2>2 DEF Annotation, Fitting
<1> HIDE DEF r
<1>5. /\ output' \in Seq(Record) /\ Len(output') = n + 1
      /\ \A i \in 1..n : output'[i] = output[i]
      /\ output'[n+1] = r
  <2>1. output \in Seq(Record)
    BY DEF ParserInv, Types, FirstOf
  <2> QED
    BY <1>1, <1>3, <1>4, <2>1
<1>6. FirstOf(records, output')
  <2>1. \A i \in 1..n+1 : output'[i] = records[i]
    <3>1. \A i \in 1..n : output[i] = records[i]
      BY DEF ParserInv, Types, FirstOf
    <3>2. \A i \in 1..n+1 : i \in 1..n \/ i = n + 1
      BY Numbers
    <3> QED
      BY <1>5, <3>1, <3>2 DEF r
  <2> QED
    BY <1>2, <1>5, <2>1, Numbers DEF FirstOf
<1>7. Types'
  BY <1>1, <1>6, Numbers DEF ParserInv, Types
<1>8. committed' = Mark(records, Len(output'))
  BY <1>1, <1>2, <1>5, Numbers DEF Mark
<1>9. Len(output') > 0
  BY <1>5, Numbers
<1>10. Phase'
  BY <1>1, <1>2, <1>9 DEF Phase
<1> QED
  BY <1>1, <1>7, <1>8, <1>10 DEF ParserInv

(* What was read of an incomplete record is given back.                    *)
LEMMA ReturnNullKeeps ==
  ASSUME ParserInv, ReturnNull
  PROVE  ParserInv'
<1>1. /\ pc = "not_enough_input" /\ rpos' = committed /\ pc' = "idle"
      /\ UNCHANGED <<version, records, written, committed, hasVersion, output>>
  BY DEF ReturnNull, Queue!Rollback
<1>2. written > 0 /\ hasVersion /\ AllReturned(records, Len(output), written)
  BY <1>1 DEF ParserInv, Phase
<1>3. committed <= written
  BY DEF ParserInv, Types
<1>4. Types'
  BY <1>1, <1>3 DEF ParserInv, Types
<1>5. Phase'
  BY <1>1, <1>2 DEF Phase
<1> QED
  BY <1>1, <1>4, <1>5 DEF ParserInv
-----------------------------------------------------------------------------
(* Every step keeps the inductive invariant.                               *)
LEMMA NextKeeps ==
  ASSUME FirstWhole, ParserInv, [Next]_vars
  PROVE  ParserInv'
<1>1. CASE \E k \in 1..Len(Sent) : Receive(k)
  BY <1>1, ReceiveKeeps
<1>2. CASE ReadVersion
  BY <1>2, ReadVersionKeeps
<1>3. CASE HasVersion
  BY <1>3, HasVersionKeeps
<1>4. CASE ReadHeader
  BY <1>4, ReadHeaderKeeps
<1>5. CASE ReadValue
  BY <1>5, ReadValueKeeps
<1>6. CASE ReturnAnnotation
  BY <1>6, ReturnAnnotationKeeps
<1>7. CASE ReturnNull
  BY <1>7, ReturnNullKeeps
<1>8. CASE UNCHANGED vars
  <2>1. UNCHANGED <<version, records, written, committed, rpos, hasVersion, num, val, output, pc>>
    BY <1>8 DEF vars, streamVars
  <2>2. Types' /\ Phase'
    BY <2>1 DEF ParserInv, Types, Phase
  <2> QED
    BY <2>1, <2>2 DEF ParserInv
<1> QED
  BY <1>1, <1>2, <1>3, <1>4, <1>5, <1>6, <1>7, <1>8 DEF Next

(* The inductive invariant holds when the first piece holds a record.      *)
THEOREM ParserInvariant ==
  ASSUME FirstWhole
  PROVE  Spec => []ParserInv
<1>1. Init => ParserInv
  BY InitInv
<1>2. ParserInv /\ [Next]_vars => ParserInv'
  BY NextKeeps
<1> QED
  BY <1>1, <1>2, PTL DEF Spec

(* The records that arrived are those that were returned.                  *)
LEMMA ArrivedIs ==
  ASSUME ParserInv, pc = "idle"
  PROVE  Arrived = Len(output)
<1> DEFINE n == Len(output)
           S == {k \in DOMAIN records : End(k) <= written}
<1>1. n \in Nat /\ n \in 0..Len(records) /\ Len(records) \in Nat /\ written \in Nat
  BY Numbers
<1>2. \A k \in 1..n : k \in DOMAIN records /\ End(k) <= written
  <2> SUFFICES ASSUME NEW k \in 1..n PROVE k \in DOMAIN records /\ End(k) <= written
    OBVIOUS
  <2>1. k \in 0..Len(records) /\ k \in DOMAIN records /\ k <= n /\ n > 0
    BY <1>1, Numbers
  <2>2. EndOf(records, k) <= EndOf(records, n) /\ EndOf(records, k) \in Nat
    BY <1>1, <2>1, Numbers, EndsAscend
  <2>3. EndOf(records, n) = committed /\ committed <= written /\ EndOf(records, n) \in Nat
    BY <2>1, Numbers DEF ParserInv, Mark, Types
  <2>4. End(k) = EndOf(records, k)
    BY Same
  <2> QED
    BY <1>1, <2>1, <2>2, <2>3, <2>4
<1>3. ASSUME NEW k \in DOMAIN records, k > n PROVE ~(End(k) <= written)
  <2>1. k \in 0..Len(records) /\ n + 1 \in 0..Len(records) /\ n + 1 <= k /\ n < Len(records)
    BY <1>1, <1>3, Numbers
  <2>2. EndOf(records, n + 1) <= EndOf(records, k) /\ EndOf(records, k) \in Nat
        /\ EndOf(records, n + 1) \in Nat /\ EndOf(records, n + 1) >= 1
    BY <2>1, Numbers, EndsAscend
  <2>3. written < EndOf(records, n + 1)
    BY <1>1, <2>1, <2>2 DEF ParserInv, Phase, AllReturned, NoMore
  <2>4. End(k) = EndOf(records, k)
    BY Same
  <2> QED
    BY <1>1, <2>2, <2>3, <2>4
<1>4. S = 1..n
  <2>1. \A k \in S : k \in 1..n
    <3> SUFFICES ASSUME NEW k \in S PROVE k \in 1..n
      OBVIOUS
    <3>1. k \in DOMAIN records /\ End(k) <= written /\ k \in Nat /\ k >= 1
      BY Numbers
    <3>2. ~(k > n)
      BY <1>3, <3>1
    <3> QED
      BY <1>1, <3>1, <3>2
  <2>2. \A k \in 1..n : k \in S
    BY <1>2
  <2> HIDE DEF S
  <2> QED
    BY <2>1, <2>2
<1>5. Cardinality(1..n) = n
  <2>1. Cardinality(1..n) = IF 1 > n THEN 0 ELSE (n - 1) + 1
    <3>1. 1 \in Int /\ n \in Int
      BY <1>1
    <3> HIDE DEF n
    <3> QED
      BY <3>1, FS_Interval, Zenon
  <2> QED
    BY <1>1, <2>1
<1> QED
  BY <1>4, <1>5 DEF Arrived

(* RecordsAreRead for every representation of numbers and every sequence   *)
(* of records, when the first piece holds the version and a whole record:  *)
(* however the rest is cut, annotation_parser_read returns each record     *)
(* once, in order and as it was sent, as soon as it is there.              *)
THEOREM EveryRecordIsRead ==
  ASSUME FirstWhole
  PROVE  Spec => []RecordsAreRead
<1>1. ParserInv => RecordsAreRead
  <2> SUFFICES ASSUME ParserInv, pc = "idle" PROVE output = SubSeq(records, 1, Arrived)
    BY DEF RecordsAreRead
  <2> DEFINE n == Len(output)
  <2>1. Arrived = n /\ n \in Nat /\ n <= Len(records) /\ records \in Seq(Record)
    BY ArrivedIs, Numbers
  <2>2. output \in Seq(Record) /\ \A i \in 1..n : output[i] = records[i]
    BY DEF ParserInv, Types, FirstOf
  <2>3. output = [i \in 1..n |-> output[i]]
    BY <2>2
  <2>4. SubSeq(records, 1, n) = [i \in 1..n |-> records[i]]
    BY <2>1
  <2> QED
    BY <2>1, <2>2, <2>3, <2>4
<1> QED
  BY <1>1, ParserInvariant, PTL

(* WaitsAtRecord, likewise: rolling back gives back all that was read of   *)
(* an incomplete record, and nothing that was returned is read again.      *)
THEOREM WaitsAtRecordEnd ==
  ASSUME FirstWhole
  PROVE  Spec => []WaitsAtRecord
<1>1. ParserInv => WaitsAtRecord
  <2> SUFFICES ASSUME ParserInv, pc = "idle", written > 0 PROVE rpos = End(Len(output))
    BY DEF WaitsAtRecord
  <2>1. rpos = committed /\ Len(output) > 0
    BY Numbers DEF ParserInv, Phase, AllReturned
  <2>2. committed = EndOf(records, Len(output))
    BY <2>1, Numbers DEF ParserInv, Mark
  <2> QED
    BY <2>1, <2>2, Same
<1> QED
  BY <1>1, ParserInvariant, PTL
=============================================================================
