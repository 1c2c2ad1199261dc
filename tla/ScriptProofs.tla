---------------------------- MODULE ScriptProofs ----------------------------
(***************************************************************************)
(* Theorems about Pagers and Rat, for all pagers, annotators, keys and     *)
(* triggers, stacks and lists of any length.                               *)
(***************************************************************************)
EXTENDS MCScript, FiniteSetTheorems, FunctionTheorems, TLAPS

(* The keys that are waiting.  Only a script changes what they are matched *)
(* with, and the buffer is emptied when it returns.                        *)
InputInv == input \in Seq(Keys) /\ InputIsUnmatched

(* What the main loop is about to draw, or has drawn.                      *)
ScreenInv ==
  ~torn =>
    /\ ratAt = "drawing" => drawing = R!Current
    /\ ratAt = "wait" => screen = R!Current
-----------------------------------------------------------------------------
LEMMA LastOfAppend ==
  ASSUME NEW S, NEW s \in Seq(S), NEW e \in S
  PROVE  R!Last(Append(s, e)) = e /\ Append(s, e) # <<>>
BY DEF R!Last

(* Keys match exactly if the last of them does.                            *)
LEMMA LastKeyDecides ==
  ASSUME NEW keys \in Seq(Keys), keys # <<>>
  PROVE  R!Matches(keys) <=> R!Matches(<<R!Last(keys)>>)
<1>1. R!Last(<<R!Last(keys)>>) = R!Last(keys) /\ <<R!Last(keys)>> # <<>>
  BY DEF R!Last
<1>2. \A t : R!EndsWith(keys, t) <=> R!EndsWith(<<R!Last(keys)>>, t)
  BY <1>1 DEF R!EndsWith
<1> QED
  BY <1>2 DEF R!Matches, R!Handles

LEMMA InputInvariant == InputInv /\ [R!Next]_R!vars => InputInv'
<1> SUFFICES ASSUME InputInv, [R!Next]_R!vars PROVE InputInv'
  OBVIOUS
<1> USE DEF InputInv
<1>1. ASSUME NEW key \in Keys \ {Resize}, R!Key(key) PROVE InputInv'
  <2>1. input' = Append(input, key) /\ input' \in Seq(Keys)
    BY <1>1 DEF R!Key
  <2>2. UNCHANGED <<shown, listeners>>
    BY <1>1 DEF R!Key
  <2>3. \A keys : R!Matches(keys)' <=> R!Matches(keys)
    BY <2>2 DEF R!Matches, R!Handles, R!Focused, R!EndsWith
  <2>4. CASE R!Matches(input')
    BY <1>1, <2>1, <2>4 DEF R!Key, InputIsUnmatched, R!InputIsUnmatched
  <2>5. CASE ~R!Matches(input')
    <3>1. \A k \in DOMAIN input : ~R!Matches(<<input[k]>>)
      BY <1>1 DEF R!Key, InputIsUnmatched, R!InputIsUnmatched
    <3>2. ~R!Matches(<<key>>)
      <4>1. R!Last(input') = key /\ input' # <<>>
        BY <2>1, LastOfAppend
      <4> QED
        BY <2>1, <2>5, <4>1, LastKeyDecides
    <3>3. \A k \in DOMAIN input' : input'[k] = key \/ (k \in DOMAIN input /\ input'[k] = input[k])
      BY <2>1
    <3>4. \A k \in DOMAIN input' : ~R!Matches(<<input'[k]>>)
      BY <3>1, <3>2, <3>3
    <3>5. \A k \in DOMAIN input' : ~R!Matches(<<input[k]>>)'
      BY <2>3, <3>4
    <3> QED
      BY <2>1, <3>5 DEF InputIsUnmatched, R!InputIsUnmatched
  <2> QED
    BY <2>4, <2>5
<1>2. ASSUME ratAt' \in {"script", "aborted"}, UNCHANGED input PROVE InputInv'
  BY <1>2 DEF InputIsUnmatched, R!InputIsUnmatched
<1>3. ASSUME UNCHANGED <<shown, listeners, input>>, ratAt \notin {"script", "aborted"} \/ ratAt' = ratAt
      PROVE  InputInv'
  BY <1>3 DEF InputIsUnmatched, R!InputIsUnmatched, R!Matches, R!Handles, R!Focused, R!EndsWith
<1>4. CASE R!Return
  BY <1>4 DEF R!Return, InputIsUnmatched, R!InputIsUnmatched
<1>5. ASSUME NEW o \in R!Owners, NEW trigger \in Triggers, R!AddListener(o, trigger) PROVE InputInv'
  BY <1>2, <1>5 DEF R!AddListener
<1>6. ASSUME NEW p \in Pagers, R!Push(p) PROVE InputInv'
  BY <1>2, <1>6 DEF R!Push
<1>7. CASE R!Pop
  BY <1>2, <1>7 DEF R!Pop
<1>8. CASE R!Throw
  BY <1>2, <1>8 DEF R!Throw
<1>9. ASSUME NEW s \in Sizes, R!HandleWinch(s) PROVE InputInv'
  BY <1>3, <1>9 DEF R!HandleWinch
<1>10. CASE R!KeyResize \/ R!Output \/ R!Render \/ R!Drawn
  BY <1>3, <1>10 DEF R!KeyResize, R!Output, R!Render, R!Drawn
<1>11. CASE UNCHANGED R!vars
  BY <1>3, <1>11 DEF R!vars, R!shown
<1> QED
  BY <1>1, <1>4, <1>5, <1>6, <1>7, <1>8, <1>9, <1>10, <1>11 DEF R!Next

(* However many keys, listeners and pagers there are, no key waits that a  *)
(* listener in force would have taken.                                     *)
THEOREM NoKeyWaitsUnheard == R!Spec => []InputIsUnmatched
<1>1. R!Init => InputInv
  BY DEF R!Init, InputInv, InputIsUnmatched, R!InputIsUnmatched
<1>2. InputInv => InputIsUnmatched
  BY DEF InputInv
<1> QED
  BY <1>1, <1>2, InputInvariant, PTL DEF R!Spec
-----------------------------------------------------------------------------
LEMMA ScreenInvariant == ScreenInv /\ [R!Next]_R!vars => ScreenInv'
<1> SUFFICES ASSUME ScreenInv, [R!Next]_R!vars PROVE ScreenInv'
  OBVIOUS
<1> USE DEF ScreenInv, R!Current
<1>1. ASSUME ratAt' \notin {"wait", "drawing"} PROVE ScreenInv'
  BY <1>1
<1>2. CASE R!Render
  BY <1>1, <1>2 DEF R!Render, R!shown
<1>3. CASE R!Drawn
  BY <1>3 DEF R!Drawn
<1>4. ASSUME NEW s \in Sizes, R!HandleWinch(s) PROVE ScreenInv'
  BY <1>4 DEF R!HandleWinch
<1>5. ASSUME NEW key \in Keys \ {Resize}, R!Key(key) PROVE ScreenInv'
  BY <1>1, <1>5 DEF R!Key
<1>6. ASSUME NEW o \in R!Owners, NEW trigger \in Triggers, R!AddListener(o, trigger) PROVE ScreenInv'
  BY <1>1, <1>6 DEF R!AddListener
<1>7. ASSUME NEW p \in Pagers, R!Push(p) PROVE ScreenInv'
  BY <1>1, <1>7 DEF R!Push
<1>8. CASE R!KeyResize \/ R!Pop \/ R!Return \/ R!Throw \/ R!Output
  BY <1>1, <1>8 DEF R!KeyResize, R!Pop, R!Return, R!Throw, R!Output
<1>9. CASE UNCHANGED R!vars
  BY <1>9 DEF R!vars, R!shown
<1> QED
  BY <1>2, <1>3, <1>4, <1>5, <1>6, <1>7, <1>8, <1>9 DEF R!Next

(* Wherever resize signals come, the screen is current while the program   *)
(* waits, unless one came in the middle of the last drawing.               *)
THEOREM WaitsWithCurrentScreen == R!Spec => []ScreenIsCurrent
<1>1. R!Init => ScreenInv
  BY DEF R!Init, ScreenInv
<1>2. ScreenInv => ScreenIsCurrent
  BY DEF ScreenInv, ScreenIsCurrent, R!ScreenIsCurrent
<1> QED
  BY <1>1, <1>2, ScreenInvariant, PTL DEF R!Spec
-----------------------------------------------------------------------------
(* How often something is in a sequence.                                   *)
LEMMA TimesType ==
  ASSUME NEW S, NEW s \in Seq(S), NEW x
  PROVE  /\ IsFiniteSet({k \in DOMAIN s : s[k] = x})
         /\ Times(x, s) \in Nat
         /\ (\E k \in DOMAIN s : s[k] = x) => Times(x, s) > 0
<1> DEFINE T == {k \in DOMAIN s : s[k] = x}
<1>1. IsFiniteSet(1..Len(s)) /\ DOMAIN s = 1..Len(s)
  BY FS_Interval
<1>2. IsFiniteSet(T)
  BY <1>1, FS_Subset, T \in SUBSET (1..Len(s))
<1>3. Cardinality(T) \in Nat /\ (Cardinality(T) = 0 <=> T = {})
  BY <1>2, FS_CardinalityType, FS_EmptySet
<1> QED
  BY <1>2, <1>3 DEF Times

LEMMA TimesEmpty ==
  ASSUME NEW x
  PROVE  Times(x, <<>>) = 0
<1>1. {k \in DOMAIN <<>> : <<>>[k] = x} = {}
  OBVIOUS
<1> QED
  BY <1>1, FS_EmptySet DEF Times

LEMMA TimesAppend ==
  ASSUME NEW S, NEW s \in Seq(S), NEW e \in S, NEW x
  PROVE  Times(x, Append(s, e)) = Times(x, s) + One(e = x)
<1> DEFINE T == {k \in DOMAIN s : s[k] = x}
           t == Append(s, e)
<1>1. DOMAIN s = 1..Len(s) /\ DOMAIN t = 1..Len(s)+1
      /\ (\A k \in DOMAIN s : t[k] = s[k]) /\ t[Len(s)+1] = e /\ Len(s) + 1 \notin T
  OBVIOUS
<1>2. CASE e = x
  <2>1. {k \in DOMAIN t : t[k] = x} = T \cup {Len(s)+1}
    BY <1>1, <1>2
  <2>2. IsFiniteSet(T)
    BY TimesType
  <2>3. Cardinality(T \cup {Len(s)+1}) = Cardinality(T) + 1
    BY <1>1, <2>2, FS_AddElement
  <2>4. Times(x, t) = Cardinality(T \cup {Len(s)+1}) /\ Times(x, s) = Cardinality(T)
    BY <2>1 DEF Times
  <2> QED
    BY <1>2, <2>3, <2>4 DEF One
<1>3. CASE e # x
  <2>1. {k \in DOMAIN t : t[k] = x} = T
    BY <1>1, <1>3
  <2>2. Times(x, t) = Times(x, s) /\ Times(x, s) \in Nat
    BY <2>1, TimesType DEF Times
  <2> QED
    BY <1>3, <2>2 DEF One
<1> QED
  BY <1>2, <1>3

LEMMA TimesWithoutLast ==
  ASSUME NEW S, NEW s \in Seq(S), s # <<>>, NEW x
  PROVE  Times(x, SubSeq(s, 1, Len(s) - 1)) = Times(x, s) - One(s[Len(s)] = x)
<1> DEFINE t == SubSeq(s, 1, Len(s) - 1)
<1>1. t \in Seq(S) /\ s[Len(s)] \in S
  OBVIOUS
<1>2. Append(t, s[Len(s)]) = s
  OBVIOUS
<1> HIDE DEF t
<1>3. Times(x, Append(t, s[Len(s)])) = Times(x, t) + One(s[Len(s)] = x)
  BY <1>1, TimesAppend
<1>4. Times(x, t) \in Nat /\ One(s[Len(s)] = x) \in Nat
  BY <1>1, TimesType DEF One
<1>5. Times(x, t) = Times(x, s) - One(s[Len(s)] = x)
  BY <1>2, <1>3, <1>4
<1> QED
  BY <1>5 DEF t

LEMMA TimesPrepend ==
  ASSUME NEW S, NEW s \in Seq(S), NEW e \in S, NEW x
  PROVE  Times(x, <<e>> \o s) = Times(x, s) + One(e = x)
<1> DEFINE T == {k \in DOMAIN s : s[k] = x}
           t == <<e>> \o s
           U == {k \in 2..Len(s)+1 : t[k] = x}
           f == [k \in T |-> k + 1]
<1>1. DOMAIN s = 1..Len(s) /\ DOMAIN t = 1..Len(s)+1 /\ t[1] = e
      /\ (\A k \in 1..Len(s) : t[k+1] = s[k])
  OBVIOUS
<1>2. f \in Bijection(T, U)
  <2>1. f \in [T -> U]
    BY <1>1
  <2>2. \A k, l \in T : f[k] = f[l] => k = l
    BY <1>1
  <2>3. \A l \in U : \E k \in T : f[k] = l
    <3> SUFFICES ASSUME NEW l \in U PROVE l - 1 \in T /\ f[l-1] = l
      OBVIOUS
    <3> QED
      BY <1>1
  <2> QED
    BY <2>1, <2>2, <2>3, Fun_IsBij
<1>3. IsFiniteSet(T) /\ Cardinality(T) \in Nat
  BY TimesType DEF Times
<1>4. IsFiniteSet(U) /\ Cardinality(U) = Cardinality(T)
  <2> HIDE DEF T, U, f
  <2> QED
    BY <1>2, <1>3, FS_Bijection, Fun_ExistsBij DEF ExistsBijection
<1>5. CASE e = x
  <2>1. {k \in DOMAIN t : t[k] = x} = U \cup {1} /\ 1 \notin U
    BY <1>1, <1>5
  <2> QED
    BY <1>3, <1>4, <1>5, <2>1, FS_AddElement DEF Times, One
<1>6. CASE e # x
  <2>1. {k \in DOMAIN t : t[k] = x} = U
    BY <1>1, <1>6
  <2>2. Times(x, t) = Cardinality(U) /\ Times(x, s) = Cardinality(T)
    BY <2>1 DEF Times
  <2> HIDE DEF T, U, t
  <2>3. Times(x, t) = Times(x, s) + One(e = x)
    BY <1>3, <1>4, <1>6, <2>2 DEF One
  <2> QED
    BY <2>3 DEF t
<1> QED
  BY <1>5, <1>6
-----------------------------------------------------------------------------
(* The entries of an annotator, those of one pager apart.                  *)
Lists == {l \in [Pagers -> Seq(Annotators)] : \A p \in Pagers : Len(l[p]) <= MaxList}
EntriesIn(l, a_) == {e \in Pagers \X (1..MaxList) : e[2] \in DOMAIN l[e[1]] /\ l[e[1]][e[2]] = a_}
Elsewhere(l, p, a_) == {e \in EntriesIn(l, a_) : e[1] # p}

LEMMA EntriesType ==
  ASSUME NEW l \in Lists, NEW x
  PROVE  IsFiniteSet(EntriesIn(l, x)) /\ Cardinality(EntriesIn(l, x)) \in Nat
<1>1. IsFiniteSet(Pagers \X (1..MaxList))
  <2>1. IsFiniteSet(1..MaxList) /\ IsFiniteSet(Pagers)
    BY ConstantsAssumption, FS_Interval
  <2> QED
    BY <2>1, FS_Product
<1>2. IsFiniteSet(EntriesIn(l, x))
  BY <1>1, FS_Subset, EntriesIn(l, x) \in SUBSET (Pagers \X (1..MaxList)) DEF EntriesIn
<1> QED
  BY <1>2, FS_CardinalityType

LEMMA EntriesSplit ==
  ASSUME NEW l \in Lists, NEW p \in Pagers, NEW x
  PROVE  /\ Cardinality(Elsewhere(l, p, x)) \in Nat
         /\ Cardinality(EntriesIn(l, x)) = Cardinality(Elsewhere(l, p, x)) + Times(x, l[p])
<1> DEFINE E == EntriesIn(l, x)
           O == Elsewhere(l, p, x)
           T == {k \in DOMAIN l[p] : l[p][k] = x}
<1>2. IsFiniteSet(E)
  BY EntriesType
<1>3. IsFiniteSet(O) /\ Cardinality(O) \in Nat
  BY <1>2, FS_Subset, FS_CardinalityType, O \in SUBSET E DEF Elsewhere
<1>4. IsFiniteSet(T) /\ Cardinality(T) = Times(x, l[p]) /\ Times(x, l[p]) \in Nat
  BY TimesType DEF Lists, Times
<1>5. IsFiniteSet({p} \X T) /\ Cardinality({p} \X T) = Times(x, l[p])
  <2>1. IsFiniteSet({p}) /\ Cardinality({p}) = 1
    BY FS_Singleton
  <2> HIDE DEF T
  <2> QED
    BY <1>4, <2>1, FS_Product
<1>6. E = O \cup ({p} \X T) /\ O \cap ({p} \X T) = {}
  <2>1. T \subseteq 1..MaxList
    BY ConstantsAssumption DEF Lists
  <2>2. \A e \in Pagers \X (1..MaxList) : e[1] = p => (e \in E <=> e \in {p} \X T)
    BY DEF EntriesIn
  <2>3. {p} \X T \subseteq Pagers \X (1..MaxList)
    BY <2>1
  <2>4. \A e \in {p} \X T : e[1] = p
    OBVIOUS
  <2>5. \A e : e \in O <=> e \in E /\ e[1] # p
    BY DEF Elsewhere
  <2>6. E \subseteq Pagers \X (1..MaxList)
    BY DEF EntriesIn
  <2> HIDE DEF E, O, T
  <2> QED
    BY <2>2, <2>3, <2>4, <2>5, <2>6
<1>7. Cardinality({}) = 0
  BY FS_EmptySet
<1> HIDE DEF E, O, T
<1>8. Cardinality(E) = Cardinality(O) + Times(x, l[p])
  <2>1. Cardinality(O \cup ({p} \X T))
          = Cardinality(O) + Cardinality({p} \X T) - Cardinality(O \cap ({p} \X T))
    BY <1>3, <1>5, FS_Union
  <2>2. Cardinality(E) = Cardinality(O) + Cardinality({p} \X T) - 0
    BY <1>6, <1>7, <2>1
  <2> QED
    BY <1>3, <1>4, <1>5, <2>2
<1> QED
  BY <1>2, <1>3, <1>8 DEF E, O

LEMMA ElsewhereSame ==
  ASSUME NEW l \in Lists, NEW p \in Pagers, NEW m, \A q \in Pagers \ {p} : m[q] = l[q], NEW x
  PROVE  Elsewhere(m, p, x) = Elsewhere(l, p, x)
BY DEF Elsewhere, EntriesIn, Lists

LEMMA EntryCounts ==
  ASSUME NEW l \in Lists, NEW x, NEW p \in Pagers, NEW k \in DOMAIN l[p], l[p][k] = x
  PROVE  Cardinality(EntriesIn(l, x)) > 0
<1>1. Times(x, l[p]) > 0 /\ Times(x, l[p]) \in Nat
  BY TimesType DEF Lists
<1> QED
  BY <1>1, EntriesSplit
-----------------------------------------------------------------------------
(* The inductive invariant: the counts, in both parts, and what is popped  *)
(* is the last item until PopItem takes it off the stack, and out of the   *)
(* stack from then on, when the item holds the reference alone.            *)
TypeInv ==
  /\ pagerCount \in [Pagers -> Int] /\ annotatorCount \in [Annotators -> Int]
  /\ list \in Lists
  /\ script \subseteq pagerObjects /\ stash \subseteq pagerObjects
  /\ pagerObjects \subseteq Pagers
  /\ scriptAnnotators \subseteq annotatorObjects /\ annotatorObjects \subseteq Annotators
  /\ stack \in Seq(Pagers)
  /\ popping \in Pagers \cup {Null} /\ at \in {"idle", "pop", "cancel"}
  /\ at = "idle" <=> popping = Null
  /\ at = "pop" => stack # <<>> /\ popping = stack[Len(stack)]
  /\ running \in BOOLEAN /\ unnamed \subseteq Pagers

PagersCounted == \A p \in Pagers : pagerCount[p] = PagerReferences(p)
AnnotatorsCounted ==
  \A x \in Annotators :
     annotatorCount[x] = Cardinality(EntriesIn(list, x)) + One(x \in annotatorObjects)

PagersInv == TypeInv /\ PagersCounted /\ AnnotatorsCounted

LEMMA InvIsCounts ==
  PagersCounted /\ AnnotatorsCounted <=> CountsAreReferences
BY DEF PagersCounted, AnnotatorsCounted, CountsAreReferences, Entries, EntriesIn

LEMMA ReferencesType ==
  ASSUME TypeInv, NEW p \in Pagers
  PROVE  /\ Times(p, stack) \in Nat /\ PagerReferences(p) \in Nat
         /\ (\E k \in DOMAIN stack : stack[k] = p) => PagerReferences(p) > 0
         /\ p \in pagerObjects => PagerReferences(p) > 0
         /\ at = "cancel" /\ popping = p => PagerReferences(p) > 0
<1>1. stack \in Seq(Pagers)
  BY DEF TypeInv
<1>2. /\ Times(p, stack) \in Nat
      /\ (\E k \in DOMAIN stack : stack[k] = p) => Times(p, stack) > 0
  BY <1>1, TimesType
<1> QED
  BY <1>2 DEF PagerReferences, One

LEMMA InitCounts ==
  Init => PagersInv
<1> SUFFICES ASSUME Init PROVE PagersInv
  OBVIOUS
<1>1. list \in Lists
  BY ConstantsAssumption DEF Init, Lists
<1>2. TypeInv
  BY <1>1, ConstantsAssumption DEF Init, TypeInv
<1>3. PagersCounted
  <2>1. \A p \in Pagers : Times(p, stack) = 0
    BY TimesEmpty DEF Init
  <2> QED
    BY <2>1 DEF Init, PagersCounted, PagerReferences, One
<1>4. AnnotatorsCounted
  <2>1. \A x : EntriesIn(list, x) = {}
    BY DEF EntriesIn, Init
  <2>2. \A x : Cardinality(EntriesIn(list, x)) = 0
    BY <2>1, FS_EmptySet
  <2> QED
    BY <2>2 DEF Init, AnnotatorsCounted, One
<1> QED
  BY <1>2, <1>3, <1>4 DEF PagersInv
-----------------------------------------------------------------------------
(* A reference to a pager is given back: its list with it if it was the    *)
(* last one.                                                               *)
LEMMA RefDecKeepsAnnotators ==
  ASSUME PagersInv, NEW p \in Pagers, PagerRefDec(p), UNCHANGED annotatorObjects
  PROVE  /\ AnnotatorsCounted'
         /\ list' \in Lists /\ annotatorCount' \in [Annotators -> Int]
         /\ pagerCount' \in [Pagers -> Int] /\ (unnamed' \subseteq Pagers)
         /\ pagerCount' = [pagerCount EXCEPT ![p] = @ - 1]
<1>1. list \in Lists /\ annotatorCount \in [Annotators -> Int]
      /\ pagerCount \in [Pagers -> Int] /\ unnamed \subseteq Pagers
  BY DEF PagersInv, TypeInv
<1>2. /\ pagerCount' \in [Pagers -> Int] /\ unnamed' \subseteq Pagers
      /\ pagerCount' = [pagerCount EXCEPT ![p] = @ - 1]
  BY <1>1 DEF PagerRefDec
<1>3. CASE pagerCount[p] = 1
  <2>1. /\ list' = [list EXCEPT ![p] = <<>>]
        /\ annotatorCount' = [x \in Annotators |-> annotatorCount[x] - Times(x, list[p])]
    BY <1>3 DEF PagerRefDec, FreePager
  <2>2. list[p] \in Seq(Annotators)
    BY <1>1 DEF Lists
  <2>3. list' \in Lists
    BY <1>1, <2>1, ConstantsAssumption DEF Lists
  <2>4. \A x : Times(x, list[p]) \in Nat
    BY <2>2, TimesType
  <2>5. annotatorCount' \in [Annotators -> Int]
    BY <1>1, <2>1, <2>4
  <2>6. ASSUME NEW x \in Annotators
        PROVE  annotatorCount'[x] = Cardinality(EntriesIn(list', x)) + One(x \in annotatorObjects')
    <3>1. /\ Cardinality(EntriesIn(list, x)) = Cardinality(Elsewhere(list, p, x)) + Times(x, list[p])
          /\ Cardinality(Elsewhere(list, p, x)) \in Nat
      BY <1>1, EntriesSplit
    <3>2. Cardinality(EntriesIn(list', x)) = Cardinality(Elsewhere(list', p, x)) + Times(x, list'[p])
      BY <2>3, EntriesSplit
    <3>3. Elsewhere(list', p, x) = Elsewhere(list, p, x)
      <4>1. \A q \in Pagers \ {p} : list'[q] = list[q]
        BY <1>1, <2>1 DEF Lists
      <4> QED
        BY <1>1, <4>1, ElsewhereSame
    <3>4. list'[p] = <<>>
      BY <1>1, <2>1 DEF Lists
    <3>5. Times(x, list'[p]) = 0
      BY <3>4, TimesEmpty
    <3>6. annotatorCount[x] = Cardinality(EntriesIn(list, x)) + One(x \in annotatorObjects)
      BY DEF PagersInv, AnnotatorsCounted
    <3>7. annotatorCount'[x] = annotatorCount[x] - Times(x, list[p])
      BY <2>1
    <3>8. One(x \in annotatorObjects') = One(x \in annotatorObjects) /\ One(x \in annotatorObjects) \in Nat
      BY DEF One
    <3> QED
      BY <2>4, <3>1, <3>2, <3>3, <3>5, <3>6, <3>7, <3>8
  <2> QED
    BY <1>2, <2>3, <2>5, <2>6 DEF AnnotatorsCounted
<1>4. CASE pagerCount[p] # 1
  BY <1>1, <1>2, <1>4 DEF PagerRefDec, PagersInv, AnnotatorsCounted
<1> QED
  BY <1>3, <1>4

LEMMA SameAnnotators ==
  ASSUME PagersInv, UNCHANGED <<annotatorCount, list, annotatorObjects>>
  PROVE  AnnotatorsCounted'
BY DEF PagersInv, AnnotatorsCounted

LEMMA SamePagers ==
  ASSUME PagersInv, UNCHANGED <<pagerCount, stack, pagerObjects>>,
         \A p \in Pagers : (at' = "cancel" /\ popping' = p) <=> (at = "cancel" /\ popping = p)
  PROVE  PagersCounted'
BY DEF PagersInv, PagersCounted, PagerReferences, One
-----------------------------------------------------------------------------
(* Each operation keeps the counts.                                        *)
LEMMA NewPagerKeeps ==
  ASSUME PagersInv, NEW p \in Pagers, NewPager(p)
  PROVE  PagersInv'
<1>1. TypeInv /\ PagersCounted
  BY DEF PagersInv
<1>2. TypeInv'
  BY <1>1 DEF TypeInv, NewPager, Scripting, popVars
<1>3. ASSUME NEW q \in Pagers
      PROVE  pagerCount'[q] = PagerReferences(q)'
  <2>1. pagerCount[q] = PagerReferences(q)
    BY <1>1 DEF PagersCounted
  <2>2. Times(q, stack) \in Nat /\ (p \in pagerObjects => PagerReferences(p) > 0)
    BY <1>1, ReferencesType
  <2>3. pagerCount[p] = PagerReferences(p) /\ pagerCount[p] = 0
    BY <1>1 DEF PagersCounted, NewPager
  <2>4. p \notin pagerObjects
    BY <2>2, <2>3
  <2>5. stack' = stack /\ at' = at /\ popping' = popping /\ pagerObjects' = pagerObjects \cup {p}
        /\ pagerCount' = [pagerCount EXCEPT ![p] = 1] /\ at = "idle"
    BY DEF NewPager, popVars, Scripting
  <2>6. pagerCount \in [Pagers -> Int]
    BY <1>1 DEF TypeInv
  <2>7. CASE q = p
    <3>1. Times(p, stack) = 0
      BY <2>2, <2>3, <2>7, <2>4, <2>5 DEF PagerReferences, One
    <3> QED
      BY <2>5, <2>6, <2>7, <3>1 DEF PagerReferences, One
  <2>8. CASE q # p
    BY <2>1, <2>5, <2>6, <2>8 DEF PagerReferences, One
  <2> QED
    BY <2>7, <2>8
<1>4. AnnotatorsCounted'
  BY SameAnnotators DEF NewPager
<1> QED
  BY <1>2, <1>3, <1>4 DEF PagersInv, PagersCounted

LEMMA PushKeeps ==
  ASSUME PagersInv, NEW p \in Pagers, Push(p)
  PROVE  PagersInv'
<1>1. TypeInv /\ PagersCounted
  BY DEF PagersInv
<1>2. TypeInv'
  BY <1>1 DEF TypeInv, Push, PagerRefInc, Scripting, scriptVars, popVars
<1>3. ASSUME NEW q \in Pagers
      PROVE  pagerCount'[q] = PagerReferences(q)'
  <2>1. pagerCount[q] = PagerReferences(q)
    BY <1>1 DEF PagersCounted
  <2>2. Times(q, stack) \in Nat
    BY <1>1, ReferencesType
  <2>3. /\ stack' = Append(stack, p) /\ pagerCount' = [pagerCount EXCEPT ![p] = @ + 1]
        /\ UNCHANGED <<at, popping, pagerObjects>>
    BY DEF Push, PagerRefInc, scriptVars, popVars
  <2>4. pagerCount \in [Pagers -> Int] /\ stack \in Seq(Pagers)
    BY <1>1 DEF TypeInv
  <2>5. Times(q, stack') = Times(q, stack) + One(p = q)
    BY <2>3, <2>4, TimesAppend
  <2> QED
    BY <2>1, <2>2, <2>3, <2>4, <2>5 DEF PagerReferences, One
<1>4. AnnotatorsCounted'
  BY SameAnnotators DEF Push, scriptVars
<1> QED
  BY <1>2, <1>3, <1>4 DEF PagersInv, PagersCounted

LEMMA PopKeeps ==
  ASSUME PagersInv, Pop
  PROVE  PagersInv'
<1>1. TypeInv'
  <2>1. stack[Len(stack)] \in Pagers
    BY DEF PagersInv, TypeInv, Pop
  <2> QED
    BY <2>1, ConstantsAssumption DEF PagersInv, TypeInv, Pop, countVars, scriptVars
<1>2. PagersCounted'
  BY SamePagers DEF Pop, Scripting, countVars, scriptVars
<1>3. AnnotatorsCounted'
  BY SameAnnotators DEF Pop, countVars, scriptVars
<1> QED
  BY <1>1, <1>2, <1>3 DEF PagersInv

(* The item leaves the stack and keeps its reference.                      *)
LEMMA PopItemKeeps ==
  ASSUME PagersInv, PopItem
  PROVE  PagersInv'
<1>1. TypeInv /\ PagersCounted
  BY DEF PagersInv
<1>2. TypeInv'
  <2>1. stack \in Seq(Pagers) /\ stack # <<>>
    BY <1>1 DEF TypeInv, PopItem
  <2>2. SubSeq(stack, 1, Len(stack) - 1) \in Seq(Pagers)
    BY <2>1
  <2> QED
    BY <1>1, <2>2 DEF TypeInv, PopItem, countVars, scriptVars
<1>3. ASSUME NEW q \in Pagers
      PROVE  pagerCount'[q] = PagerReferences(q)'
  <2>1. pagerCount[q] = PagerReferences(q)
    BY <1>1 DEF PagersCounted
  <2>2. Times(q, stack) \in Nat
    BY <1>1, ReferencesType
  <2>3. /\ stack \in Seq(Pagers) /\ stack # <<>> /\ popping = stack[Len(stack)]
        /\ at = "pop" /\ at' = "cancel" /\ stack' = SubSeq(stack, 1, Len(stack) - 1)
        /\ UNCHANGED <<popping, pagerObjects, pagerCount>>
    BY <1>1 DEF TypeInv, PopItem, countVars, scriptVars
  <2>4. Times(q, stack') = Times(q, stack) - One(popping = q)
    BY <2>3, TimesWithoutLast
  <2> QED
    BY <2>1, <2>2, <2>3, <2>4 DEF PagerReferences, One
<1>4. AnnotatorsCounted'
  BY SameAnnotators DEF PopItem, countVars, scriptVars
<1> QED
  BY <1>2, <1>3, <1>4 DEF PagersInv, PagersCounted

LEMMA FreeItemKeeps ==
  ASSUME PagersInv, FreeItem
  PROVE  PagersInv'
<1>1. TypeInv /\ PagersCounted
  BY DEF PagersInv
<1>2. popping \in Pagers /\ at = "cancel" /\ at' = "idle" /\ popping' = Null
      /\ PagerRefDec(popping) /\ UNCHANGED <<scriptVars, stash, stack, running>>
  BY <1>1 DEF TypeInv, FreeItem
<1>3. /\ AnnotatorsCounted' /\ list' \in Lists /\ annotatorCount' \in [Annotators -> Int]
      /\ pagerCount' \in [Pagers -> Int] /\ unnamed' \subseteq Pagers
      /\ pagerCount' = [pagerCount EXCEPT ![popping] = @ - 1]
  BY <1>2, RefDecKeepsAnnotators DEF scriptVars
<1>4. TypeInv'
  BY <1>1, <1>2, <1>3 DEF TypeInv, scriptVars
<1>5. ASSUME NEW q \in Pagers
      PROVE  pagerCount'[q] = PagerReferences(q)'
  <2>1. pagerCount[q] = PagerReferences(q) /\ pagerCount \in [Pagers -> Int]
    BY <1>1 DEF PagersCounted, TypeInv
  <2>2. Times(q, stack) \in Nat
    BY <1>1, ReferencesType
  <2>3. stack' = stack /\ pagerObjects' = pagerObjects
    BY <1>2 DEF scriptVars
  <2> QED
    BY <1>2, <1>3, <2>1, <2>2, <2>3 DEF PagerReferences, One
<1> QED
  BY <1>3, <1>4, <1>5 DEF PagersInv, PagersCounted

LEMMA FinalizePagerKeeps ==
  ASSUME PagersInv, NEW p \in Pagers, FinalizePager(p)
  PROVE  PagersInv'
<1>1. TypeInv /\ PagersCounted
  BY DEF PagersInv
<1>2. /\ p \in pagerObjects \ (script \cup stash) /\ pagerObjects' = pagerObjects \ {p}
      /\ PagerRefDec(p) /\ UNCHANGED <<annotatorObjects, script, scriptAnnotators, stash>>
      /\ UNCHANGED <<stack, at, popping, running>>
  BY DEF FinalizePager, popVars
<1>3. /\ AnnotatorsCounted' /\ list' \in Lists /\ annotatorCount' \in [Annotators -> Int]
      /\ pagerCount' \in [Pagers -> Int] /\ unnamed' \subseteq Pagers
      /\ pagerCount' = [pagerCount EXCEPT ![p] = @ - 1]
  BY <1>2, RefDecKeepsAnnotators
<1>4. TypeInv'
  BY <1>1, <1>2, <1>3 DEF TypeInv
<1>5. ASSUME NEW q \in Pagers
      PROVE  pagerCount'[q] = PagerReferences(q)'
  <2>1. pagerCount[q] = PagerReferences(q) /\ pagerCount \in [Pagers -> Int]
    BY <1>1 DEF PagersCounted, TypeInv
  <2>2. Times(q, stack) \in Nat
    BY <1>1, ReferencesType
  <2> QED
    BY <1>2, <1>3, <2>1, <2>2 DEF PagerReferences, One
<1> QED
  BY <1>3, <1>4, <1>5 DEF PagersInv, PagersCounted

LEMMA NewAnnotatorKeeps ==
  ASSUME PagersInv, NEW n \in Annotators, NewAnnotator(n)
  PROVE  PagersInv'
<1>1. TypeInv /\ AnnotatorsCounted /\ list \in Lists
  BY DEF PagersInv, TypeInv
<1>2. TypeInv'
  BY <1>1 DEF TypeInv, NewAnnotator, Scripting, popVars
<1>3. PagersCounted'
  BY SamePagers DEF NewAnnotator, popVars
<1>4. ASSUME NEW x \in Annotators
      PROVE  annotatorCount'[x] = Cardinality(EntriesIn(list', x)) + One(x \in annotatorObjects')
  <2>1. \A y : Cardinality(EntriesIn(list, y)) \in Nat
    BY <1>1, EntriesType
  <2>2. annotatorCount[x] = Cardinality(EntriesIn(list, x)) + One(x \in annotatorObjects)
    BY <1>1 DEF AnnotatorsCounted
  <2>3. annotatorCount[n] = Cardinality(EntriesIn(list, n)) + One(n \in annotatorObjects)
    BY <1>1 DEF AnnotatorsCounted
  <2>4. /\ annotatorCount[n] = 0 /\ annotatorCount' = [annotatorCount EXCEPT ![n] = 1]
        /\ annotatorObjects' = annotatorObjects \cup {n} /\ list' = list
        /\ annotatorCount \in [Annotators -> Int]
    BY <1>1 DEF NewAnnotator, TypeInv
  <2>5. n \notin annotatorObjects /\ Cardinality(EntriesIn(list, n)) = 0
    BY <2>1, <2>3, <2>4 DEF One
  <2> QED
    BY <2>2, <2>4, <2>5 DEF One
<1> QED
  BY <1>2, <1>3, <1>4 DEF PagersInv, AnnotatorsCounted

LEMMA FinalizeAnnotatorKeeps ==
  ASSUME PagersInv, NEW n \in Annotators, FinalizeAnnotator(n)
  PROVE  PagersInv'
<1>1. TypeInv /\ AnnotatorsCounted /\ list \in Lists
  BY DEF PagersInv, TypeInv
<1>2. TypeInv'
  BY <1>1 DEF TypeInv, FinalizeAnnotator, popVars
<1>3. PagersCounted'
  BY SamePagers DEF FinalizeAnnotator, popVars
<1>4. ASSUME NEW x \in Annotators
      PROVE  annotatorCount'[x] = Cardinality(EntriesIn(list', x)) + One(x \in annotatorObjects')
  <2>1. Cardinality(EntriesIn(list, x)) \in Nat
    BY <1>1, EntriesType
  <2>2. annotatorCount[x] = Cardinality(EntriesIn(list, x)) + One(x \in annotatorObjects)
    BY <1>1 DEF AnnotatorsCounted
  <2>3. /\ n \in annotatorObjects /\ annotatorCount' = [annotatorCount EXCEPT ![n] = @ - 1]
        /\ annotatorObjects' = annotatorObjects \ {n} /\ list' = list
        /\ annotatorCount \in [Annotators -> Int]
    BY <1>1 DEF FinalizeAnnotator, TypeInv
  <2> QED
    BY <2>1, <2>2, <2>3 DEF One
<1> QED
  BY <1>2, <1>3, <1>4 DEF PagersInv, AnnotatorsCounted

LEMMA AddAnnotatorKeeps ==
  ASSUME PagersInv, NEW p \in Pagers, NEW n \in Annotators, AddAnnotator(p, n)
  PROVE  PagersInv'
<1>1. TypeInv /\ AnnotatorsCounted /\ list \in Lists /\ annotatorCount \in [Annotators -> Int]
  BY DEF PagersInv, TypeInv
<1>2. /\ list' = [list EXCEPT ![p] = <<n>> \o @] /\ Len(list[p]) < MaxList
      /\ annotatorCount' = [annotatorCount EXCEPT ![n] = @ + 1]
      /\ UNCHANGED <<annotatorObjects, pagerCount, stack, pagerObjects, at, popping>>
  BY DEF AddAnnotator, scriptVars, popVars
<1>3. list[p] \in Seq(Annotators)
  BY <1>1 DEF Lists
<1>4. list' \in Lists
  <2>1. <<n>> \o list[p] \in Seq(Annotators) /\ Len(<<n>> \o list[p]) = Len(list[p]) + 1
    BY <1>3
  <2>2. Len(list[p]) + 1 <= MaxList
    BY <1>2, <1>3, ConstantsAssumption
  <2> QED
    BY <1>1, <1>2, <2>1, <2>2 DEF Lists
<1>5. TypeInv'
  BY <1>1, <1>2, <1>4 DEF TypeInv, AddAnnotator, Scripting, scriptVars, popVars
<1>6. PagersCounted'
  BY <1>2, SamePagers
<1>7. ASSUME NEW x \in Annotators
      PROVE  annotatorCount'[x] = Cardinality(EntriesIn(list', x)) + One(x \in annotatorObjects')
  <2>1. /\ Cardinality(EntriesIn(list, x)) = Cardinality(Elsewhere(list, p, x)) + Times(x, list[p])
        /\ Cardinality(Elsewhere(list, p, x)) \in Nat
    BY <1>1, EntriesSplit
  <2>2. Cardinality(EntriesIn(list', x)) = Cardinality(Elsewhere(list', p, x)) + Times(x, list'[p])
    BY <1>4, EntriesSplit
  <2>3. Elsewhere(list', p, x) = Elsewhere(list, p, x)
    <3>1. \A q \in Pagers \ {p} : list'[q] = list[q]
      BY <1>1, <1>2 DEF Lists
    <3> QED
      BY <1>1, <3>1, ElsewhereSame
  <2>4. list'[p] = <<n>> \o list[p]
    BY <1>1, <1>2 DEF Lists
  <2>5. Times(x, list'[p]) = Times(x, list[p]) + One(n = x) /\ Times(x, list[p]) \in Nat
    <3>1. Times(x, <<n>> \o list[p]) = Times(x, list[p]) + One(n = x)
      BY <1>3, TimesPrepend
    <3>2. Times(x, list[p]) \in Nat
      BY <1>3, TimesType
    <3> QED
      BY <2>4, <3>1, <3>2
  <2>6. annotatorCount[x] = Cardinality(EntriesIn(list, x)) + One(x \in annotatorObjects)
    BY <1>1 DEF AnnotatorsCounted
  <2>7. annotatorCount'[x] = annotatorCount[x] + One(n = x)
    BY <1>1, <1>2 DEF One
  <2>8. One(x \in annotatorObjects') = One(x \in annotatorObjects)
        /\ One(x \in annotatorObjects) \in Nat /\ One(n = x) \in Nat
    BY <1>2 DEF One
  <2> QED
    BY <2>1, <2>2, <2>3, <2>5, <2>6, <2>7, <2>8
<1> QED
  BY <1>5, <1>6, <1>7 DEF PagersInv, AnnotatorsCounted

(* What a script gets hold of and forgets is not counted.                  *)
LEMMA ScriptKeeps ==
  ASSUME PagersInv,
         \/ \E k \in DOMAIN stack : GetPager(k)
         \/ \E p \in Pagers : Drop(p)
         \/ \E n \in Annotators : DropAnnotator(n)
         \/ Cleanup
  PROVE  PagersInv'
<1>1. TypeInv'
  BY DEF PagersInv, TypeInv, GetPager, Drop, DropAnnotator, Cleanup, Scripting, countVars, popVars
<1>2. UNCHANGED <<countVars, pagerObjects, annotatorObjects, stack, popVars>>
  BY DEF GetPager, Drop, DropAnnotator, Cleanup
<1>3. PagersCounted'
  BY <1>2, SamePagers DEF countVars, popVars
<1>4. AnnotatorsCounted'
  BY <1>2, SameAnnotators DEF countVars
<1> QED
  BY <1>1, <1>3, <1>4 DEF PagersInv

LEMMA StepKeepsCounts ==
  PagersInv /\ [Next]_vars => PagersInv'
<1> SUFFICES ASSUME PagersInv, [Next]_vars PROVE PagersInv'
  OBVIOUS
<1>1. CASE UNCHANGED vars
  BY <1>1, SamePagers, SameAnnotators
     DEF vars, countVars, scriptVars, popVars, PagersInv, TypeInv
<1>2. CASE Next
  BY <1>2, NewPagerKeeps, PushKeeps, PopKeeps, PopItemKeeps, FreeItemKeeps, FinalizePagerKeeps,
     NewAnnotatorKeeps, FinalizeAnnotatorKeeps, AddAnnotatorKeeps, ScriptKeeps DEF Next
<1> QED
  BY <1>1, <1>2

LEMMA AlwaysCounted ==
  Spec => []PagersInv
BY InitCounts, StepKeepsCounts, PTL DEF Spec

(* However pagers and annotators are shared by scripts, by the stack and   *)
(* by lists, and in whatever order they are popped, dropped and finalized, *)
(* refs.count is the number of references there are (refs.h).              *)
THEOREM CountsAreTrue ==
  Spec => []CountsAreReferences
<1>1. PagersInv => CountsAreReferences
  BY InvIsCounts DEF PagersInv
<1> QED
  BY <1>1, AlwaysCounted, PTL

(* So nothing is freed while it is referred to: not what scripts may get   *)
(* hold of, not what is on the stack or is being taken off it, and not the *)
(* annotators a reload starts.                                             *)
THEOREM FreedIsForgotten ==
  Spec => []NothingFreedIsUsed
<1>1. PagersInv => NothingFreedIsUsed
  <2> SUFFICES ASSUME PagersInv PROVE NothingFreedIsUsed
    OBVIOUS
  <2>1. TypeInv /\ PagersCounted /\ AnnotatorsCounted
    BY DEF PagersInv
  <2>2. \A p \in Pagers : pagerCount[p] = PagerReferences(p)
    BY <2>1 DEF PagersCounted
  <2>3. \A p \in script \cup stash \cup {stack[k] : k \in DOMAIN stack} : pagerCount[p] > 0
    BY <2>1, <2>2, ReferencesType DEF TypeInv
  <2>4. popping # Null => pagerCount[popping] > 0
    BY <2>1, <2>2, ReferencesType DEF TypeInv
  <2>5. \A x \in Annotators : Cardinality(EntriesIn(list, x)) \in Nat
    BY <2>1, EntriesType DEF TypeInv
  <2>6. \A n \in scriptAnnotators : annotatorCount[n] > 0
    BY <2>1, <2>5 DEF AnnotatorsCounted, TypeInv, One
  <2>7. \A p \in Pagers : \A k \in DOMAIN list[p] : annotatorCount[list[p][k]] > 0
    <3> SUFFICES ASSUME NEW p \in Pagers, NEW k \in DOMAIN list[p]
                 PROVE  annotatorCount[list[p][k]] > 0
      OBVIOUS
    <3>1. list[p][k] \in Annotators /\ list \in Lists
      BY <2>1 DEF TypeInv, Lists
    <3>2. Cardinality(EntriesIn(list, list[p][k])) > 0
      BY <3>1, EntryCounts
    <3> QED
      BY <2>1, <2>5, <3>1, <3>2 DEF AnnotatorsCounted, One
  <2> QED
    BY <2>3, <2>4, <2>6, <2>7 DEF NothingFreedIsUsed
<1> QED
  BY <1>1, AlwaysCounted, PTL
=============================================================================
