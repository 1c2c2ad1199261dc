---------------------------- MODULE ScreenProofs ----------------------------
(***************************************************************************)
(* Theorems about PagerStack, for any number of items and pagers.          *)
(***************************************************************************)
EXTENDS MCScreen, SequenceTheorems, WellFoundedInduction, TLAPS

(* The links in full: what is known of the item that is being linked in or *)
(* taken out, and that unallocated items link to nothing.                  *)
Pushing == stackAt \in {"push", "pushNext", "pushLast"}

StackTypes ==
  /\ held \subseteq Items /\ order \in Seq(held)
  /\ next \in [Items -> Items \cup {Null}] /\ previous \in [Items -> Items \cup {Null}]
  /\ pager \in [Items -> Pagers \cup {Null}]
  /\ stackAt \in S!Places

OrderInv ==
  /\ \A j, k \in 1..Len(order) : order[j] = order[k] => j = k
  /\ \A x \in held : (\E k \in 1..Len(order) : x = order[k])
                     \/ (x = item /\ (Pushing \/ stackAt = "popFree"))
  /\ last = IF order = <<>> THEN Null ELSE order[Len(order)]
  /\ first = IF order = <<>> THEN Null ELSE order[1]
  /\ len = IF stackAt = "pushLen" THEN Len(order) - 1
           ELSE IF stackAt \in {"popFree", "popLen"} THEN Len(order) + 1 ELSE Len(order)

LinkInv ==
  /\ \A k \in 1..Len(order) : previous[order[k]] = IF k = 1 THEN Null ELSE order[k-1]
  /\ \A k \in 1..Len(order)-1 : next[order[k]] = IF k = Len(order) - 1 /\ stackAt = "popLast"
                                           THEN Null ELSE order[k+1]
  /\ order # <<>> => next[order[Len(order)]] = IF stackAt = "pushLast" THEN item ELSE Null
  /\ \A x \in Items \ held : next[x] = Null /\ previous[x] = Null
  /\ \A x \in held : pager[x] \in Pagers

ItemInv ==
  /\ Pushing => item \in held /\ (\A k \in 1..Len(order) : order[k] # item) /\ next[item] = Null
  /\ stackAt = "push" => previous[item] = Null
  /\ stackAt \in {"pushNext", "pushLast"} => order # <<>> /\ previous[item] = last
  /\ stackAt \in {"pop", "popLast"} => order # <<>> /\ item = last
  /\ stackAt = "popLast" => Len(order) >= 2
  /\ stackAt = "popFree" => item \in held /\ \A k \in 1..Len(order) : order[k] # item
  /\ stackAt = "popLen" => item \notin held

StackInv == StackTypes /\ OrderInv /\ LinkInv /\ ItemInv
-----------------------------------------------------------------------------
LEMMA NotEmpty ==
  ASSUME NEW T, NEW s \in Seq(T), s # <<>>
  PROVE  Len(s) \in Nat /\ Len(s) >= 1
<1>1. Len(s) \in Nat /\ DOMAIN s = 1..Len(s)
  OBVIOUS
<1>2. Len(s) = 0 => s = <<>>
  BY EmptySeq
<1> QED
  BY <1>1, <1>2

LEMMA WithoutLast ==
  ASSUME NEW T, NEW s \in Seq(T), s # <<>>, NEW t, t = SubSeq(s, 1, Len(s) - 1)
  PROVE  /\ t \in Seq(T) /\ Len(t) = Len(s) - 1
         /\ Len(s) >= 2 => t # <<>>
         /\ \A k \in 1..Len(s)-1 : t[k] = s[k]
<1>1. Len(s) \in Nat /\ Len(s) >= 1
  BY NotEmpty
<1>2. t \in Seq(T)
  BY <1>1
<1>3. \A l \in Int : t = SubSeq(s, 1, l) /\ l = Len(s) - 1 =>
        Len(t) = Len(s) - 1 /\ \A k \in 1..Len(s)-1 : t[k] = s[k]
  <2> SUFFICES ASSUME NEW l \in Int, t = SubSeq(s, 1, l), l = Len(s) - 1
               PROVE  Len(t) = l /\ \A k \in 1..l : t[k] = s[k]
    OBVIOUS
  <2>1. \A k \in 1..l : s[k] \in T
    BY <1>1
  <2>2. /\ Len(t) = IF 1 <= l THEN l - 1 + 1 ELSE 0
        /\ \A k \in 1..l-1+1 : t[k] = s[1 + k - 1]
    BY <2>1, SubSeqProperties
  <2>3. l \in Nat
    BY <1>1
  <2>4. Len(t) = l
    BY <2>2, <2>3
  <2>5. \A k \in 1..l : t[k] = s[k]
    BY <2>2, <2>3
  <2> QED
    BY <2>4, <2>5
<1>4. Len(s) >= 2 => t # <<>>
  <2>1. Len(s) >= 2 => Len(t) # 0
    BY <1>1, <1>3
  <2>2. Len(<<>>) = 0
    OBVIOUS
  <2> QED
    BY <2>1, <2>2
<1>5. Len(s) - 1 \in Int
  BY <1>1
<1> QED
  BY <1>2, <1>3, <1>4, <1>5

LEMMA InitLinks ==
  S!Init => StackInv
BY StackAssumption DEF S!Init, StackInv, StackTypes, OrderInv, LinkInv, ItemInv, Pushing, S!Places, S!ConstantsOK

LEMMA SameLinks ==
  ASSUME StackInv, UNCHANGED S!links, UNCHANGED <<stackAt, item>>
  PROVE  StackInv'
BY DEF StackInv, StackTypes, OrderInv, LinkInv, ItemInv, Pushing, S!links

(* Every statement keeps them.                                             *)
LEMMA StepKeepsLinks ==
  ASSUME StackInv, S!Next
  PROVE  StackInv'
<1> USE DEF StackInv, StackTypes, OrderInv, LinkInv, ItemInv, Pushing, S!Places, S!Goes
<1>1. CASE \E p \in Pagers : S!Push(p)
  <2>1. PICK p \in Pagers, y \in Items \ held :
               item' = y /\ held' = held \cup {y} /\ pager' = [pager EXCEPT ![y] = p]
    BY <1>1 DEF S!Push
  <2>2. /\ stackAt = "idle" /\ stackAt' = "push"
        /\ UNCHANGED <<first, last, len, next, previous, order>>
    BY <1>1 DEF S!Push
  <2> QED
    BY <2>1, <2>2
<1>2. CASE S!PushFirst
  BY <1>2, StackAssumption DEF S!PushFirst, S!links, S!ConstantsOK
<1>3. CASE S!PushPrevious
  BY <1>3, StackAssumption DEF S!PushPrevious, S!links, S!ConstantsOK
<1>4. CASE S!PushNext
  BY <1>4, StackAssumption DEF S!PushNext, S!links, S!ConstantsOK
<1>5. CASE S!PushLast
  BY <1>5, StackAssumption DEF S!PushLast, S!links, S!ConstantsOK
<1>6. CASE S!PushLen
  BY <1>6, StackAssumption DEF S!PushLen, S!links, S!ConstantsOK
<1>7. CASE S!Invalidate
  BY <1>7, StackAssumption DEF S!Invalidate, S!links, S!ConstantsOK
<1>8. CASE S!Pop
  BY <1>8, StackAssumption DEF S!Pop, S!links, S!ConstantsOK
<1>9. CASE S!PopFirst
  BY <1>9, StackAssumption DEF S!PopFirst, S!links, S!ConstantsOK
<1>10. CASE S!PopNext
  BY <1>10, StackAssumption DEF S!PopNext, S!links, S!ConstantsOK
<1>11. CASE S!PopLast
  <2>1. /\ order \in Seq(held) /\ Len(order) >= 2 /\ Len(order) \in Nat
        /\ order' = SubSeq(order, 1, Len(order) - 1)
    BY <1>11 DEF S!PopLast
  <2>2. /\ order' \in Seq(held) /\ Len(order') = Len(order) - 1 /\ order' # <<>>
        /\ \A k \in 1..Len(order)-1 : order'[k] = order[k]
    <3> HIDE DEF StackInv
    <3>1. order # <<>>
      BY <2>1, Len(<<>>) = 0
    <3> QED
      BY <2>1, <3>1, WithoutLast
  <2>3. /\ stackAt = "popLast" /\ stackAt' = "popFree" /\ last' = previous[item]
        /\ UNCHANGED <<first, len, held, next, previous, pager, item>>
    BY <1>11 DEF S!PopLast
  <2>4. item = order[Len(order)] /\ item \in held /\ previous[item] = order[Len(order) - 1]
    BY <2>1, <2>3
  <2>5. OrderInv'
    <3>1. \A j, k \in 1..Len(order) : order[j] = order[k] => j = k
      OBVIOUS
    <3>2. \A x \in held : (\E k \in 1..Len(order) : x = order[k])
      BY <2>3
    <3>3. first = order[1] /\ len = Len(order)
      BY <2>1, <2>3
    <3> HIDE DEF StackInv
    <3>4. \A j, k \in 1..Len(order') : order'[j] = order'[k] => j = k
      BY <2>1, <2>2, <3>1
    <3>5. \A x \in held' : (\E k \in 1..Len(order') : x = order'[k]) \/ x = item'
      BY <2>1, <2>2, <2>3, <2>4, <3>2
    <3>6. last' = order'[Len(order')] /\ first' = order'[1] /\ len' = Len(order') + 1
      BY <2>1, <2>2, <2>3, <2>4, <3>3
    <3> QED
      BY <2>2, <2>3, <3>4, <3>5, <3>6
  <2>6. LinkInv'
    <3>1. /\ \A k \in 1..Len(order) : previous[order[k]] = IF k = 1 THEN Null ELSE order[k-1]
          /\ \A k \in 1..Len(order)-1 : next[order[k]] = IF k = Len(order) - 1 THEN Null ELSE order[k+1]
          /\ \A x \in Items \ held : next[x] = Null /\ previous[x] = Null
          /\ \A x \in held : pager[x] \in Pagers
      BY <2>3
    <3> HIDE DEF StackInv
    <3>2. ASSUME NEW k \in 1..Len(order')
          PROVE  previous'[order'[k]] = IF k = 1 THEN Null ELSE order'[k-1]
      <4>1. order'[k] = order[k] /\ k \in 1..Len(order) /\ (k # 1 => order'[k-1] = order[k-1])
        BY <2>1, <2>2
      <4> QED
        BY <2>3, <3>1, <4>1
    <3>3. ASSUME NEW k \in 1..Len(order')-1
          PROVE  next'[order'[k]] = order'[k+1]
      <4>1. k \in 1..Len(order)-2
        BY <2>1, <2>2
      <4>2. k \in 1..Len(order)-1 /\ k + 1 \in 1..Len(order)-1 /\ k # Len(order) - 1
        BY <2>1, <4>1
      <4>3. order'[k] = order[k] /\ order'[k+1] = order[k+1]
        BY <2>2, <4>2
      <4> QED
        BY <2>3, <3>1, <4>2, <4>3
    <3>4. next'[order'[Len(order')]] = Null
      <4>1. Len(order') \in 1..Len(order)-1 /\ Len(order') = Len(order) - 1
            /\ order'[Len(order')] = order[Len(order')]
        BY <2>1, <2>2
      <4> QED
        BY <2>3, <3>1, <4>1
    <3> QED
      BY <2>3, <3>1, <3>2, <3>3, <3>4
  <2>7. ItemInv'
    <3>1. \A j, k \in 1..Len(order) : order[j] = order[k] => j = k
      OBVIOUS
    <3> HIDE DEF StackInv
    <3>2. \A k \in 1..Len(order') : order'[k] # item'
      BY <2>1, <2>2, <2>3, <2>4, <3>1
    <3> QED
      BY <2>3, <2>4, <3>2
  <2> QED
    BY <2>2, <2>3, <2>5, <2>6, <2>7
<1>12. CASE S!PopFree
  <2>1. /\ stackAt = "popFree" /\ stackAt' = "popLen" /\ held' = held \ {item}
        /\ next' = [next EXCEPT ![item] = Null] /\ previous' = [previous EXCEPT ![item] = Null]
        /\ pager' = [pager EXCEPT ![item] = Null]
        /\ UNCHANGED <<first, last, len, order, item>>
    BY <1>12 DEF S!PopFree
  <2>2. \A k \in 1..Len(order) : order[k] \in held /\ order[k] # item
    BY <2>1
  <2>3. StackTypes'
    BY <2>1, <2>2
  <2>4. OrderInv'
    BY <2>1
  <2>5. LinkInv'
    BY <2>1, <2>2
  <2>6. ItemInv'
    BY <2>1
  <2> QED
    BY <2>3, <2>4, <2>5, <2>6
<1>13. CASE S!PopLen
  BY <1>13, StackAssumption DEF S!PopLen, S!links, S!ConstantsOK
<1>14. CASE S!LayoutBegin
  BY <1>14, StackAssumption DEF S!LayoutBegin, S!links, S!ConstantsOK
<1>15. CASE S!LayoutPane
  BY <1>15, StackAssumption DEF S!LayoutPane, S!links, S!ConstantsOK
<1>16. CASE S!LayoutEnd
  BY <1>16, StackAssumption DEF S!LayoutEnd, S!links, S!ConstantsOK
<1>17. CASE S!ReloadAssign
  BY <1>17, StackAssumption DEF S!ReloadAssign, S!links, S!ConstantsOK
<1>18. CASE \E p \in Pagers : S!ReloadFree(p)
  BY <1>18 DEF S!ReloadFree, S!links
<1>19. CASE \E w \in Widths : S!Winch(w)
  BY <1>19, SameLinks DEF S!Winch
<1> QED
  BY <1>1, <1>2, <1>3, <1>4, <1>5, <1>6, <1>7, <1>8, <1>9, <1>10, <1>11, <1>12, <1>13, <1>14, <1>15, <1>16, <1>17, <1>18, <1>19
     DEF S!Next, S!Main

LEMMA AlwaysLinked ==
  S!Spec => []StackInv
<1>1. StackInv /\ UNCHANGED S!vars => StackInv'
  BY SameLinks DEF S!vars
<1>2. StackInv /\ [S!Next]_(S!vars) => StackInv'
  BY <1>1, StepKeepsLinks
<1> QED
  BY InitLinks, <1>2, PTL DEF S!Spec

(* At whatever statement of pager_stack_push or pager_stack_pop the resize *)
(* signal arrives, the items that are on the stack are linked in both      *)
(* directions in the order they were pushed, and the length is right but   *)
(* for the statement that updates it.                                      *)
THEOREM StackIsLinked ==
  S!Spec => []LinksFollowOrder
<1>1. StackInv => LinksFollowOrder
  BY DEF LinksFollowOrder, S!LinksFollowOrder, S!Top, StackInv, StackTypes, OrderInv, LinkInv, ItemInv,
         Pushing
<1> QED
  BY <1>1, AlwaysLinked, PTL
-----------------------------------------------------------------------------
LEMMA LeastNatural ==
  ASSUME NEW T \in SUBSET Nat, T # {}
  PROVE  \E least \in T : \A m \in T : least <= m
<1> DEFINE R == OpToRel(<, Nat)
<1>1. IsWellFoundedOn(R, Nat)
  BY NatLessThanWellFounded
<1>2. \A m, l \in Nat : m < l => <<m, l>> \in R
  BY DEF OpToRel
<1> HIDE DEF R
<1>3. PICK least \in T : \A m \in T : ~(<<m, least>> \in R)
  BY <1>1, WFMin
<1>4. least \in Nat /\ \A m \in T : m \in Nat /\ ~(m < least)
  BY <1>2, <1>3
<1>5. \A m \in T : least <= m
  BY <1>4
<1> QED
  BY <1>5

(* A function defined by recursion on the number of links that are         *)
(* followed is the only one that satisfies its equation: two that do       *)
(* would differ somewhere for the first time.                              *)
Walk(x, link, h) == h = [k \in Nat |-> IF k = 0 THEN x ELSE S!Follow(link, h[k-1])]

LEMMA WalkIsUnique ==
  ASSUME NEW x, NEW link, NEW f, NEW g, Walk(x, link, f), Walk(x, link, g)
  PROVE  f = g
<1> SUFFICES ASSUME f # g PROVE FALSE
  OBVIOUS
<1> DEFINE T == {k \in Nat : f[k] # g[k]}
<1>1. T # {}
  BY DEF Walk
<1>2. PICK least \in T : \A m \in T : least <= m
  BY <1>1, LeastNatural
<1>3. least = 0 => f[least] = g[least]
  BY DEF Walk
<1>4. least # 0 => least - 1 \in Nat /\ f[least-1] = g[least-1]
  BY <1>2
<1>5. f[least] = g[least]
  BY <1>3, <1>4 DEF Walk
<1> QED
  BY <1>2, <1>5

LEMMA BelowWalks ==
  ASSUME NEW f, Walk(last, previous, f)
  PROVE  S!Below = f
<1>1. S!Below = CHOOSE h : Walk(last, previous, h)
  BY DEF S!Below, Walk
<1>2. Walk(last, previous, S!Below)
  BY <1>1
<1> QED
  BY <1>2, WalkIsUnique

LEMMA AlongWalks ==
  ASSUME NEW f, Walk(S!FirstVisible, next, f)
  PROVE  S!Along = f
<1>1. S!Along = CHOOSE h : Walk(S!FirstVisible, next, h)
  BY DEF S!Along, Walk
<1>2. Walk(S!FirstVisible, next, S!Along)
  BY <1>1
<1> QED
  BY <1>2, WalkIsUnique
-----------------------------------------------------------------------------
(* What the walk from the top finds.                                       *)
FromTop == [k \in Nat |-> IF k < Len(order) THEN order[Len(order) - k] ELSE Null]
Contents == [k \in 1..Len(order) |-> pager[order[k]]]

LEMMA BelowIsFromTop ==
  ASSUME StackInv
  PROVE  S!Below = FromTop
<1> DEFINE L == Len(order)
<1>1. L \in Nat /\ Null \notin Items /\ \A k \in 1..L : order[k] \in Items
  BY StackAssumption DEF StackInv, StackTypes, S!ConstantsOK
<1>2. last = IF L = 0 THEN Null ELSE order[L]
  BY DEF StackInv, StackTypes, OrderInv
<1>3. \A k \in 1..L : previous[order[k]] = IF k = 1 THEN Null ELSE order[k-1]
  BY DEF StackInv, LinkInv
<1>4. ASSUME NEW k \in Nat
      PROVE  FromTop[k] = IF k = 0 THEN last ELSE S!Follow(previous, FromTop[k-1])
  <2> HIDE DEF L
  <2>1. CASE k = 0
    BY <1>1, <1>2, <2>1 DEF FromTop, L
  <2>2. CASE k # 0 /\ k > L
    <3>1. FromTop[k] = Null /\ FromTop[k-1] = Null
      BY <1>1, <2>2 DEF FromTop, L
    <3> QED
      BY <2>2, <3>1 DEF S!Follow
  <2>3. CASE k # 0 /\ k <= L
    <3>1. FromTop[k-1] = order[L - (k-1)] /\ L - (k-1) \in 1..L
      BY <1>1, <2>3 DEF FromTop, L
    <3>2. FromTop[k] = IF L - (k-1) = 1 THEN Null ELSE order[L - (k-1) - 1]
      BY <1>1, <2>3 DEF FromTop, L
    <3> QED
      BY <1>1, <1>3, <2>3, <3>1, <3>2 DEF S!Follow
  <2> QED
    BY <1>1, <2>1, <2>2, <2>3
<1>5. Walk(last, previous, FromTop)
  BY <1>4 DEF Walk, FromTop
<1> QED
  BY <1>5, BelowWalks

LEMMA DepthIsLength ==
  ASSUME StackInv
  PROVE  S!Depth = Len(order)
<1> DEFINE L == Len(order)
           P(d) == S!Below[d] = Null /\ \A k \in 0..d-1 : S!Below[k] # Null
<1>1. L \in Nat /\ Null \notin Items /\ \A k \in 1..L : order[k] \in Items
  BY StackAssumption DEF StackInv, StackTypes, S!ConstantsOK
<1>2. S!Below = FromTop
  BY BelowIsFromTop
<1>3. \A k \in Nat : FromTop[k] = Null <=> k >= L
  BY <1>1 DEF FromTop
<1>4. L \in 0..L+1 /\ P(L)
  BY <1>1, <1>2, <1>3
<1>5. \A d \in 0..L+1 : P(d) => d = L
  <2> HIDE DEF L
  <2> QED
    BY <1>1, <1>2, <1>3
<1>6. S!Depth = CHOOSE d \in 0..L+1 : P(d)
  BY DEF S!Depth
<1> HIDE DEF P, L
<1>7. S!Depth = L
  BY <1>4, <1>5, <1>6
<1> QED
  BY <1>7 DEF L

LEMMA AbstractIsContents ==
  ASSUME StackInv
  PROVE  [k \in 1..S!Depth |-> S!Get(S!Depth - k)] = Contents
<1>1. Len(order) \in Nat /\ Null \notin Items /\ \A k \in 1..Len(order) : order[k] \in Items
  BY StackAssumption DEF StackInv, StackTypes, S!ConstantsOK
<1>2. S!Depth = Len(order) /\ S!Below = FromTop
  BY DepthIsLength, BelowIsFromTop
<1>3. ASSUME NEW k \in 1..Len(order)
      PROVE  S!Get(Len(order) - k) = pager[order[k]]
  <2>1. Len(order) - k \in Nat /\ Len(order) - (Len(order) - k) = k /\ Len(order) - k < Len(order)
    BY <1>1
  <2>2. FromTop[Len(order) - k] = order[k]
    BY <2>1 DEF FromTop
  <2>3. order[k] # Null
    BY <1>1
  <2> QED
    BY <1>2, <2>1, <2>2, <2>3 DEF S!Get, S!Follow
<1> QED
  BY <1>2, <1>3 DEF Contents

(* What a statement does to the contents: nothing, except for the two      *)
(* that set the end of the list.                                           *)
LEMMA ContentsSame ==
  ASSUME StackInv, UNCHANGED order, \A k \in 1..Len(order) : pager'[order[k]] = pager[order[k]]
  PROVE  Contents' = Contents
BY DEF Contents

LEMMA ContentsStep ==
  ASSUME StackInv, S!Next
  PROVE  \/ Contents' = Contents
         \/ \E p \in Pagers : Contents' = Append(Contents, p)
         \/ Contents # <<>> /\ Contents' = SubSeq(Contents, 1, Len(Contents) - 1)
<1>1. CASE \E p \in Pagers : S!Push(p)
  <2>1. PICK p \in Pagers, y \in Items \ held : pager' = [pager EXCEPT ![y] = p] /\ order' = order
    BY <1>1 DEF S!Push, StackInv, StackTypes
  <2>2. \A k \in 1..Len(order) : order[k] \in held
    BY DEF StackInv, StackTypes
  <2>3. \A k \in 1..Len(order) : pager'[order[k]] = pager[order[k]]
    BY <2>1, <2>2
  <2> QED
    BY <2>1, <2>3, ContentsSame
<1>2. CASE S!PopFree
  <2>1. pager' = [pager EXCEPT ![item] = Null] /\ order' = order
    BY <1>2 DEF S!PopFree
  <2>2. \A k \in 1..Len(order) : order[k] # item
    BY <1>2 DEF S!PopFree, S!Goes, StackInv, ItemInv
  <2> QED
    BY <2>1, <2>2, ContentsSame
<1>3. CASE S!PushFirst \/ S!PushLast
  <2>1. order' = Append(order, item) /\ pager' = pager /\ item \in held /\ order \in Seq(held)
        /\ pager[item] \in Pagers
    BY <1>3 DEF S!PushFirst, S!PushLast, S!Goes, StackInv, StackTypes, ItemInv, LinkInv, Pushing
  <2>2. Contents' = Append(Contents, pager[item])
    <3>1. /\ Len(order') = Len(order) + 1 /\ order'[Len(order)+1] = item
          /\ \A k \in 1..Len(order) : order'[k] = order[k]
      BY <2>1
    <3> QED
      BY <2>1, <3>1 DEF Contents
  <2> QED
    BY <2>1, <2>2
<1>4. CASE S!PopFirst \/ S!PopLast
  <2>1. order' = SubSeq(order, 1, Len(order) - 1) /\ pager' = pager /\ order \in Seq(held)
        /\ order # <<>>
    BY <1>4 DEF S!PopFirst, S!PopLast, S!Goes, StackInv, StackTypes, ItemInv
  <2>2. Contents' = SubSeq(Contents, 1, Len(Contents) - 1) /\ Contents # <<>>
    <3>1. /\ Len(order') = Len(order) - 1 /\ Len(order) >= 1 /\ Len(order) \in Nat
          /\ \A k \in 1..Len(order)-1 : order'[k] = order[k]
      <4>1. Len(order) >= 1 /\ Len(order) \in Nat
        BY <2>1, NotEmpty
      <4> QED
        BY <2>1, <4>1, WithoutLast
    <3> QED
      BY <2>1, <3>1 DEF Contents
  <2> QED
    BY <2>1, <2>2
<1>5. CASE UNCHANGED <<order, pager>>
  BY <1>5, ContentsSame
<1>6. S!PushPrevious \/ S!PushNext \/ S!PushLen \/ S!Invalidate \/ S!Pop \/ S!PopNext \/ S!PopLen
      \/ S!LayoutBegin \/ S!LayoutPane \/ S!LayoutEnd \/ S!ReloadAssign
      \/ (\E p \in Pagers : S!ReloadFree(p)) \/ (\E w \in Widths : S!Winch(w))
      => UNCHANGED <<order, pager>>
  BY DEF S!PushPrevious, S!PushNext, S!PushLen, S!Invalidate, S!Pop, S!PopNext, S!PopLen,
         S!LayoutBegin, S!LayoutPane, S!LayoutEnd, S!ReloadAssign, S!ReloadFree, S!Winch, S!links
<1> QED
  BY <1>1, <1>2, <1>3, <1>4, <1>5, <1>6 DEF S!Next, S!Main

(* The code implements the stack pager_stack.h promises, at every moment   *)
(* a signal handler may look at it: a push and a pop each take effect at   *)
(* one statement, and every other statement leaves the pagers that the     *)
(* links lead to as they are.                                              *)
THEOREM StackIsImplemented ==
  S!Spec => Implements
<1> DEFINE St == [k \in 1..S!Depth |-> S!Get(S!Depth - k)]
<1>1. S!Init => St = <<>>
  <2> SUFFICES ASSUME S!Init PROVE St = <<>>
    OBVIOUS
  <2>1. StackInv /\ order = <<>>
    BY InitLinks DEF S!Init
  <2>2. St = Contents
    BY <2>1, AbstractIsContents
  <2>3. Contents = <<>>
    BY <2>1 DEF Contents
  <2> QED
    BY <2>2, <2>3
<1>2. StackInv => St = Contents
  BY AbstractIsContents
<1>3. StackInv' => (St = Contents)'
  BY <1>2, PTL
<1>4. StackInv /\ StackInv' /\ [S!Next]_(S!vars) => [S!Abstract!Next]_St
  <2> SUFFICES ASSUME StackInv, StackInv', [S!Next]_(S!vars) PROVE [S!Abstract!Next]_St
    OBVIOUS
  <2>1. St = Contents
    BY <1>2
  <2>2. St' = Contents'
    BY <1>3
  <2>3. CASE UNCHANGED S!vars
    <3>1. Contents' = Contents
      BY <2>3 DEF S!vars, S!links, Contents
    <3> QED
      BY <2>1, <2>2, <3>1
  <2>4. CASE S!Next
    <3> HIDE DEF St
    <3>1. \/ St' = St
          \/ \E p \in Pagers : St' = Append(St, p)
          \/ St # <<>> /\ St' = SubSeq(St, 1, Len(St) - 1)
      BY <2>1, <2>2, <2>4, ContentsStep
    <3> QED
      BY <3>1 DEF S!Abstract!Next, S!Abstract!Push, S!Abstract!Pop, St
  <2> QED
    BY <2>3, <2>4
<1>5. St = <<>> /\ [][S!Abstract!Next]_St => S!Abstract!Spec
  BY DEF S!Abstract!Spec, S!Abstract!Init
<1>6. S!Spec => S!Abstract!Spec
  BY <1>1, <1>4, <1>5, AlwaysLinked, PTL DEF S!Spec
<1> QED
  BY <1>6 DEF Implements, S!Implements
-----------------------------------------------------------------------------
(* Where the panes begin: the recursion has a solution, in integers.       *)
LEMMA SizeType ==
  ASSUME NEW c \in Int, NEW q \in Nat \ {0}
  PROVE  S!Size(c, q) \in Int
BY DEF S!Size, S!Quotient

Begins(w, panes, h, to) ==
  h = [k \in 0..to |-> IF k = 0 THEN 0 ELSE h[k-1] + S!Size(w - h[k-1], panes - (k - 1)) + 1]

LEMMA BeginsExist ==
  ASSUME NEW w \in Int, NEW panes \in Nat, NEW to \in 0..panes-1
  PROVE  \E h : Begins(w, panes, h, to)
<1> DEFINE Good(t) == \E h : Begins(w, panes, h, t)
           T == {t \in Nat : t < panes /\ ~Good(t)}
<1> SUFFICES ASSUME ~Good(to) PROVE FALSE
  OBVIOUS
<1>0. to \in T
  OBVIOUS
<1>1. PICK t \in T : \A m \in T : t <= m
  BY <1>0, LeastNatural
<1>2. CASE t = 0
  <2>1. Begins(w, panes, [k \in 0..0 |-> 0], t)
    BY <1>2 DEF Begins
  <2> QED
    BY <2>1
<1>3. CASE t # 0
  <2>1. t - 1 \in Nat /\ t - 1 < panes /\ t \in Nat /\ t < panes
    BY <1>3
  <2>2. Good(t - 1)
    BY <1>1, <2>1
  <2>3. PICK h : Begins(w, panes, h, t - 1)
    BY <2>2
  <2> DEFINE e == h[t-1] + S!Size(w - h[t-1], panes - (t - 1)) + 1
             g == [k \in 0..t |-> IF k < t THEN h[k] ELSE e]
  <2>4. ASSUME NEW k \in 0..t
        PROVE  g[k] = IF k = 0 THEN 0 ELSE g[k-1] + S!Size(w - g[k-1], panes - (k - 1)) + 1
    <3>1. CASE k = t
      <4>1. g[k] = e /\ g[k-1] = h[t-1] /\ k # 0
        BY <1>3, <2>1, <3>1
      <4> QED
        BY <3>1, <4>1
    <3>2. CASE k # t
      <4>1. k \in 0..t-1 /\ g[k] = h[k] /\ (k # 0 => g[k-1] = h[k-1])
        BY <2>1, <3>2
      <4>2. h[k] = IF k = 0 THEN 0 ELSE h[k-1] + S!Size(w - h[k-1], panes - (k - 1)) + 1
        BY <2>3, <4>1 DEF Begins
      <4> QED
        BY <4>1, <4>2
    <3> QED
      BY <3>1, <3>2
  <2>5. Begins(w, panes, g, t)
    <3> DEFINE r == [k \in 0..t |-> IF k = 0 THEN 0
                                    ELSE g[k-1] + S!Size(w - g[k-1], panes - (k - 1)) + 1]
    <3>1. \A k \in 0..t : g[k] = r[k]
      BY <2>4
    <3>2. g = r
      <4> HIDE DEF r
      <4> QED
        BY <3>1 DEF r
    <3> QED
      BY <3>2 DEF Begins
  <2>6. Good(t)
    BY <2>5
  <2> QED
    BY <2>6
<1> QED
  BY <1>2, <1>3

LEMMA LeftsStep ==
  ASSUME NEW w \in Int, NEW panes \in Nat, NEW k \in 0..panes-1
  PROVE  /\ S!Lefts(w, panes)[k] \in Int
         /\ S!Lefts(w, panes)[k]
              = IF k = 0 THEN 0
                ELSE S!Lefts(w, panes)[k-1]
                       + S!Size(w - S!Lefts(w, panes)[k-1], panes - (k - 1)) + 1
<1> DEFINE last0 == panes - 1
           L == S!Lefts(w, panes)
<1>1. last0 \in 0..panes-1
  OBVIOUS
<1>2. L = CHOOSE h : Begins(w, panes, h, last0)
  BY DEF S!Lefts, Begins
<1>3. \E h : Begins(w, panes, h, last0)
  BY <1>1, BeginsExist
<1>4. Begins(w, panes, L, last0)
  <2> HIDE DEF L
  <2> QED
    BY <1>2, <1>3
<1> DEFINE T == {m \in 0..panes-1 : L[m] \notin Int}
<1>5. T = {}
  <2> SUFFICES ASSUME T # {} PROVE FALSE
    OBVIOUS
  <2>1. T \in SUBSET Nat
    OBVIOUS
  <2>2. PICK t \in T : \A m \in T : t <= m
    BY <2>1, LeastNatural
  <2> HIDE DEF L
  <2>3. L[t] = IF t = 0 THEN 0 ELSE L[t-1] + S!Size(w - L[t-1], panes - (t - 1)) + 1
    BY <1>4 DEF Begins
  <2>4. CASE t = 0
    BY <2>3, <2>4
  <2>5. CASE t # 0
    <3>1. L[t-1] \in Int /\ panes - (t - 1) \in Nat \ {0}
      BY <2>2, <2>5
    <3>2. S!Size(w - L[t-1], panes - (t - 1)) \in Int
      BY <3>1, SizeType
    <3>3. L[t] \in Int
      BY <2>3, <2>5, <3>1, <3>2
    <3> QED
      BY <3>3
  <2> QED
    BY <2>4, <2>5
<1> HIDE DEF L
<1>6. L[k] \in Int
  BY <1>5
<1>7. L[k] = IF k = 0 THEN 0 ELSE L[k-1] + S!Size(w - L[k-1], panes - (k - 1)) + 1
  BY <1>4 DEF Begins
<1> QED
  BY <1>6, <1>7 DEF L

(* The columns that are left for the last q panes are shared out evenly.   *)
LEMMA DivBounds ==
  ASSUME NEW c \in Int, NEW q \in Nat \ {0}
  PROVE  c \div q \in Int /\ q * (c \div q) <= c /\ c < q * (c \div q) + q
OBVIOUS

LEMMA ShareOne ==
  ASSUME NEW e \in Nat, NEW q \in Nat \ {0}, NEW c \in Int, e * q <= c, c <= e * q + q
  PROVE  /\ c \div q = e \/ c \div q = e + 1
         /\ e * (q - 1) <= c - c \div q /\ c - c \div q <= e * (q - 1) + (q - 1)
<1> DEFINE s == c \div q
<1>1. s \in Int /\ q * s <= c /\ c < q * s + q
  BY DivBounds
<1> HIDE DEF s
<1>2. s >= e
  <2> SUFFICES ASSUME s <= e - 1 PROVE FALSE
    BY <1>1
  <2>1. q * s <= q * (e - 1)
    BY <1>1
  <2>2. q * (e - 1) = e * q - q
    OBVIOUS
  <2> QED
    BY <1>1, <2>1, <2>2
<1>3. s <= e + 1
  <2> SUFFICES ASSUME s >= e + 2 PROVE FALSE
    BY <1>1
  <2>1. q * s >= q * (e + 2)
    BY <1>1
  <2>2. q * (e + 2) = e * q + q + q
    OBVIOUS
  <2> QED
    BY <1>1, <2>1, <2>2
<1>4. e * (q - 1) = e * q - e
  OBVIOUS
<1>5. CASE s = e
  <2>1. q * s = e * q
    BY <1>5
  <2> QED
    BY <1>1, <1>4, <1>5, <2>1 DEF s
<1>6. CASE s = e + 1
  <2>1. q * s = e * q + q
    BY <1>6
  <2> QED
    BY <1>1, <1>4, <1>6, <2>1 DEF s
<1> QED
  BY <1>1, <1>2, <1>3, <1>5, <1>6

LEMMA Evenly ==
  ASSUME NEW w \in Nat, NEW panes \in Nat \ {0}, w >= 2 * panes - 1
  PROVE  \E e \in Nat \ {0} : \A k \in 0..panes-1 :
            S!Size(w - S!Lefts(w, panes)[k], panes - k) \in {e, e + 1}
<1> DEFINE L == S!Lefts(w, panes)
           c(k) == w - L[k] - (panes - k - 1)
           e == (w - (panes - 1)) \div panes
           Shared(k) == e * (panes - k) <= c(k) /\ c(k) <= e * (panes - k) + (panes - k)
           T == {k \in 0..panes-1 : ~Shared(k)}
<1>1. /\ L[0] = 0
      /\ \A k \in 0..panes-1 : L[k] \in Int
      /\ \A k \in 1..panes-1 : L[k] = L[k-1] + S!Size(w - L[k-1], panes - (k - 1)) + 1
  BY LeftsStep
<1>2. e \in Nat \ {0}
  <2>1. e \in Int /\ panes * e <= w - (panes - 1) /\ w - (panes - 1) < panes * e + panes
    BY DivBounds
  <2>2. w - (panes - 1) >= panes
    OBVIOUS
  <2> HIDE DEF e
  <2> SUFFICES ASSUME e <= 0 PROVE FALSE
    BY <2>1
  <2>3. panes * e <= 0
    BY <2>1
  <2> QED
    BY <2>1, <2>2, <2>3
<1> HIDE DEF L
<1>3. ASSUME NEW k \in 0..panes-1, Shared(k)
      PROVE  /\ S!Size(w - L[k], panes - k) \in {e, e + 1}
             /\ k + 1 \in 0..panes-1 => Shared(k + 1)
  <2>1. panes - k \in Nat \ {0} /\ c(k) \in Int
    BY <1>1
  <2> HIDE DEF e
  <2>2. e * (panes - k) >= 0
    BY <1>2, <2>1
  <2>3. S!Size(w - L[k], panes - k) = c(k) \div (panes - k)
    <3>1. c(k) >= 0
      BY <1>2, <1>3, <2>1, <2>2
    <3>2. S!Size(w - L[k], panes - k) = S!Quotient(c(k), panes - k)
      BY DEF S!Size
    <3> HIDE DEF c
    <3> QED
      BY <3>1, <3>2 DEF S!Quotient
  <2>4. /\ c(k) \div (panes - k) = e \/ c(k) \div (panes - k) = e + 1
        /\ e * (panes - k - 1) <= c(k) - c(k) \div (panes - k)
        /\ c(k) - c(k) \div (panes - k) <= e * (panes - k - 1) + (panes - k - 1)
    <3> DEFINE q == panes - k
               d == c(k)
    <3>1. q \in Nat \ {0} /\ d \in Int /\ e \in Nat /\ e * q <= d /\ d <= e * q + q
      BY <1>2, <1>3, <2>1
    <3> HIDE DEF q, d
    <3>2. /\ d \div q = e \/ d \div q = e + 1
          /\ e * (q - 1) <= d - d \div q /\ d - d \div q <= e * (q - 1) + (q - 1)
      BY <3>1, ShareOne
    <3> QED
      BY <3>2 DEF q, d
  <2>5. ASSUME k + 1 \in 0..panes-1
        PROVE  Shared(k + 1)
    <3>1. L[k+1] = L[k] + c(k) \div (panes - k) + 1
      BY <1>1, <2>3, <2>5
    <3>2. c(k + 1) = c(k) - c(k) \div (panes - k)
      <4> DEFINE s == c(k) \div (panes - k)
      <4>1. s \in Int /\ L[k] \in Int
        BY <1>1, <1>2, <2>4
      <4> HIDE DEF s
      <4>2. L[k+1] = L[k] + s + 1
        BY <3>1 DEF s
      <4>3. c(k + 1) = c(k) - s
        BY <4>1, <4>2
      <4> QED
        BY <4>3 DEF s
    <3>3. panes - (k + 1) = panes - k - 1
      OBVIOUS
    <3> HIDE DEF c
    <3> QED
      BY <2>4, <3>2, <3>3
  <2> QED
    BY <2>3, <2>4, <2>5
<1>4. T = {}
  <2> SUFFICES ASSUME T # {} PROVE FALSE
    OBVIOUS
  <2>1. T \in SUBSET Nat
    OBVIOUS
  <2>2. PICK t \in T : \A m \in T : t <= m
    BY <2>1, LeastNatural
  <2>3. CASE t = 0
    <3>1. e \in Int /\ panes * e <= w - (panes - 1) /\ w - (panes - 1) < panes * e + panes
      BY DivBounds
    <3> HIDE DEF e
    <3>2. Shared(0)
      BY <1>1, <3>1
    <3> QED
      BY <2>3, <3>2
  <2>4. CASE t # 0
    <3>1. t - 1 \in 0..panes-1 /\ t - 1 \notin T /\ (t - 1) + 1 = t
      BY <2>2, <2>4
    <3> HIDE DEF c, e
    <3>2. Shared(t - 1)
      BY <3>1
    <3> HIDE DEF Shared
    <3>3. Shared((t - 1) + 1)
      BY <1>3, <3>1, <3>2
    <3> QED
      BY <3>1, <3>3
  <2> QED
    BY <2>3, <2>4
<1> HIDE DEF c, e, Shared
<1>5. \A k \in 0..panes-1 : S!Size(w - L[k], panes - k) \in {e, e + 1}
  <2>1. \A k \in 0..panes-1 : Shared(k)
    BY <1>4
  <2> QED
    BY <1>3, <2>1
<1> QED
  BY <1>2, <1>5 DEF L
-----------------------------------------------------------------------------
(* The items on the screen, from the left, between operations.             *)
ShownItem(k) == order[Len(order) - S!Panes + 1 + k]
ShownPager(k) == pager[ShownItem(k)]
Between == stackAt \in {"idle", "reload", "layout"} /\ order # <<>>

LEMMA PanesShown ==
  ASSUME StackInv, Between
  PROVE  /\ Len(order) \in Nat /\ S!Panes \in 1..Len(order) /\ MaxVisible \in Nat \ {0}
         /\ S!Panes = IF Len(order) > MaxVisible THEN MaxVisible ELSE Len(order)
         /\ \A k \in 0..S!Panes-1 : ShownItem(k) \in Items /\ ShownPager(k) \in Pagers
         /\ \A k \in 0..S!Panes-2 : next[ShownItem(k)] = ShownItem(k + 1)
         /\ next[ShownItem(S!Panes - 1)] = Null
<1>1. Len(order) \in Nat /\ Len(order) >= 1
  BY NotEmpty DEF StackInv, StackTypes, Between
<1>2. /\ MaxVisible \in Nat \ {0}
      /\ S!Panes = IF Len(order) > MaxVisible THEN MaxVisible ELSE Len(order)
  BY StackAssumption DEF S!ConstantsOK, S!Panes, StackInv, OrderInv, Between
<1>3. S!Panes \in 1..Len(order)
  BY <1>1, <1>2
<1>4. \A k \in 1..Len(order) : order[k] \in held /\ order[k] \in Items /\ pager[order[k]] \in Pagers
  BY DEF StackInv, StackTypes, LinkInv
<1>5. /\ \A k \in 1..Len(order)-1 : next[order[k]] = order[k+1]
      /\ next[order[Len(order)]] = Null
  BY DEF StackInv, LinkInv, Between
<1>6. \A k \in 0..S!Panes-1 : ShownItem(k) \in Items /\ ShownPager(k) \in Pagers
  BY <1>1, <1>3, <1>4 DEF ShownItem, ShownPager
<1>7. ASSUME NEW k \in 0..S!Panes-2
      PROVE  next[ShownItem(k)] = ShownItem(k + 1)
  <2>1. /\ Len(order) - S!Panes + 1 + k \in 1..Len(order)-1
        /\ Len(order) - S!Panes + 1 + (k + 1) = Len(order) - S!Panes + 1 + k + 1
    BY <1>1, <1>3
  <2> QED
    BY <1>5, <2>1 DEF ShownItem
<1>8. next[ShownItem(S!Panes - 1)] = Null
  <2>1. Len(order) - S!Panes + 1 + (S!Panes - 1) = Len(order)
    BY <1>1, <1>3
  <2> QED
    BY <1>5, <2>1 DEF ShownItem
<1> QED
  BY <1>1, <1>2, <1>3, <1>6, <1>7, <1>8

LEMMA FirstIsShown ==
  ASSUME StackInv, Between
  PROVE  S!FirstVisible = ShownItem(0)
<1> DEFINE L == Len(order)
           P(k) == S!Below[k] # Null /\ (k = MaxVisible - 1 \/ S!Below[k+1] = Null)
<1>1. /\ L \in Nat /\ S!Panes \in 1..L /\ MaxVisible \in Nat \ {0}
      /\ S!Panes = IF L > MaxVisible THEN MaxVisible ELSE L
  BY PanesShown
<1>2. S!Below = FromTop
  BY BelowIsFromTop
<1>3. \A k \in Nat : FromTop[k] = Null <=> k >= L
  <2>1. \A k \in 1..L : order[k] # Null
    BY StackAssumption DEF S!ConstantsOK, StackInv, StackTypes
  <2> HIDE DEF L
  <2>2. \A k \in Nat : k < L => L - k \in 1..L
    BY <1>1
  <2> QED
    BY <1>1, <2>1, <2>2 DEF FromTop, L
<1> HIDE DEF L
<1>4. S!Panes - 1 \in 0..MaxVisible-1 /\ P(S!Panes - 1)
  BY <1>1, <1>2, <1>3
<1>5. \A k \in 0..MaxVisible-1 : P(k) => k = S!Panes - 1
  BY <1>1, <1>2, <1>3
<1>6. S!FirstVisible = S!Below[CHOOSE k \in 0..MaxVisible-1 : P(k)]
  BY DEF S!FirstVisible
<1> HIDE DEF P
<1>7. S!FirstVisible = FromTop[S!Panes - 1]
  BY <1>2, <1>4, <1>5, <1>6
<1>8. FromTop[S!Panes - 1] = order[L - (S!Panes - 1)]
  <2>1. S!Panes - 1 \in Nat /\ S!Panes - 1 < L
    BY <1>1
  <2> QED
    BY <2>1 DEF FromTop, L
<1>9. L - (S!Panes - 1) = L - S!Panes + 1 + 0
  BY <1>1
<1> QED
  BY <1>7, <1>8, <1>9 DEF ShownItem, L

LEMMA AlongIsShown ==
  ASSUME StackInv, Between, NEW k \in 0..S!Panes-1
  PROVE  S!Along[k] = ShownItem(k)
<1> DEFINE f == [j \in Nat |-> IF j < S!Panes THEN ShownItem(j) ELSE Null]
<1>1. /\ Len(order) \in Nat /\ S!Panes \in 1..Len(order)
      /\ \A j \in 0..S!Panes-1 : ShownItem(j) \in Items
      /\ \A j \in 0..S!Panes-2 : next[ShownItem(j)] = ShownItem(j + 1)
      /\ next[ShownItem(S!Panes - 1)] = Null
      /\ Null \notin Items
  BY PanesShown, StackAssumption DEF S!ConstantsOK
<1>2. ASSUME NEW j \in Nat
      PROVE  f[j] = IF j = 0 THEN S!FirstVisible ELSE S!Follow(next, f[j-1])
  <2>1. CASE j = 0
    BY <1>1, <2>1, FirstIsShown
  <2>2. CASE j # 0 /\ j < S!Panes
    <3>1. j - 1 \in 0..S!Panes-2 /\ j - 1 + 1 = j /\ f[j] = ShownItem(j) /\ f[j-1] = ShownItem(j-1)
      BY <1>1, <2>2
    <3> QED
      BY <1>1, <2>2, <3>1 DEF S!Follow
  <2>3. CASE j = S!Panes
    <3>1. f[j] = Null /\ f[j-1] = ShownItem(S!Panes - 1) /\ S!Panes - 1 \in 0..S!Panes-1 /\ j # 0
      BY <1>1, <2>3
    <3> QED
      BY <1>1, <3>1 DEF S!Follow
  <2>4. CASE j > S!Panes
    <3>1. f[j] = Null /\ f[j-1] = Null /\ j # 0
      BY <1>1, <2>4
    <3> QED
      BY <3>1 DEF S!Follow
  <2> QED
    BY <1>1, <2>1, <2>2, <2>3, <2>4
<1>3. Walk(S!FirstVisible, next, f)
  <2> DEFINE g == [j \in Nat |-> IF j = 0 THEN S!FirstVisible ELSE S!Follow(next, f[j-1])]
  <2>1. \A j \in Nat : f[j] = g[j]
    BY <1>2
  <2>2. f = g
    BY <2>1
  <2> QED
    BY <2>2 DEF Walk
<1>4. S!Along = f
  <2> HIDE DEF f
  <2> QED
    BY <1>3, AlongWalks
<1> QED
  BY <1>1, <1>4
-----------------------------------------------------------------------------
(* What a layout leaves in the boxes.                                      *)
LEMMA PaneType ==
  ASSUME NEW w \in Int, NEW panes \in Nat, NEW k \in 0..panes-1
  PROVE  S!Pane(w, panes, k) \in [left : Int, width : Int] /\ S!Pane(w, panes, k) # Null
<1> DEFINE l == S!Lefts(w, panes)[k]
<1>1. l \in Int
  BY LeftsStep
<1> HIDE DEF l
<1>2. S!Size(w - l, panes - k) \in Int
  BY <1>1, SizeType
<1>3. S!Pane(w, panes, k) = [left |-> l, width |-> S!Size(w - l, panes - k)]
  BY DEF S!Pane, l
<1> QED
  BY <1>1, <1>2, <1>3, StackAssumption DEF S!ConstantsOK

Distinct == \A j, k \in 0..S!Panes-1 : ShownPager(j) = ShownPager(k) => j = k
Boxed(b, to) == \A k \in 0..to-1 : b[ShownPager(k)] # Null
Placed(b, w, to) == Distinct => \A k \in 0..to-1 : b[ShownPager(k)] = S!Pane(w, S!Panes, k)

LEMMA GreatestOf ==
  ASSUME NEW m \in Nat, NEW T \in SUBSET (0..m), T # {}
  PROVE  \E k \in T : \A j \in T : j <= k
<1> DEFINE D == {d \in Nat : m - d \in T}
<1>1. D # {}
  <2>1. PICK k \in T : TRUE
    OBVIOUS
  <2>2. m - k \in Nat /\ m - (m - k) = k
    OBVIOUS
  <2> QED
    BY <2>1, <2>2
<1>2. PICK d \in D : \A c \in D : d <= c
  BY <1>1, LeastNatural
<1>3. ASSUME NEW j \in T
      PROVE  j <= m - d
  <2>1. m - j \in Nat /\ m - (m - j) = j /\ j \in Nat
    OBVIOUS
  <2>2. m - j \in D /\ d \in Nat
    BY <2>1
  <2>3. d <= m - j
    BY <1>2, <2>2
  <2> QED
    BY <2>1, <2>2, <2>3
<1> QED
  BY <1>2, <1>3

LEMMA LaidOutPlaces ==
  ASSUME StackInv, Between, NEW w \in Int
  PROVE  /\ S!LaidOut(w) = [p \in Pagers |-> S!LaidOut(w)[p]]
         /\ Boxed(S!LaidOut(w), S!Panes) /\ Placed(S!LaidOut(w), w, S!Panes)
<1> DEFINE N == S!Panes
           Of(p) == {k \in 0..N-1 : S!Follow(pager, S!Along[k]) = p}
           Chosen(p) == CHOOSE k \in Of(p) : \A j \in Of(p) : j <= k
<1>1. /\ N \in Nat \ {0}
      /\ \A k \in 0..N-1 : ShownItem(k) # Null /\ ShownPager(k) \in Pagers
  BY PanesShown, StackAssumption DEF S!ConstantsOK
<1>2. \A k \in 0..N-1 : S!Follow(pager, S!Along[k]) = ShownPager(k)
  BY <1>1, AlongIsShown DEF S!Follow, ShownPager
<1>3. S!LaidOut(w) = [p \in Pagers |-> IF Of(p) = {} THEN box[p] ELSE S!Pane(w, N, Chosen(p))]
  BY DEF S!LaidOut
<1>4. ASSUME NEW p \in Pagers, Of(p) # {}
      PROVE  Chosen(p) \in Of(p)
  <2>1. N - 1 \in Nat /\ Of(p) \in SUBSET (0..N-1)
    BY <1>1
  <2> HIDE DEF Of
  <2>2. \E k \in Of(p) : \A j \in Of(p) : j <= k
    BY <1>4, <2>1, GreatestOf
  <2> QED
    BY <2>2
<1>5. ASSUME NEW k \in 0..N-1
      PROVE  /\ S!LaidOut(w)[ShownPager(k)] # Null
             /\ Distinct => S!LaidOut(w)[ShownPager(k)] = S!Pane(w, N, k)
  <2>1. k \in Of(ShownPager(k)) /\ ShownPager(k) \in Pagers
    BY <1>1, <1>2
  <2>2. Chosen(ShownPager(k)) \in Of(ShownPager(k))
    <3> HIDE DEF Of, Chosen
    <3> QED
      BY <1>4, <2>1
  <2>3. Chosen(ShownPager(k)) \in 0..N-1
    <3> HIDE DEF Chosen
    <3> QED
      BY <2>2
  <2>4. Distinct => Chosen(ShownPager(k)) = k
    <3>1. S!Follow(pager, S!Along[Chosen(ShownPager(k))]) = ShownPager(k)
      <4> HIDE DEF Chosen
      <4> QED
        BY <2>2
    <3> HIDE DEF Chosen, Of
    <3> QED
      BY <1>2, <2>3, <3>1 DEF Distinct
  <2>5. S!LaidOut(w)[ShownPager(k)] = S!Pane(w, N, Chosen(ShownPager(k)))
    <3> HIDE DEF Chosen, Of
    <3> QED
      BY <1>3, <2>1
  <2> HIDE DEF Chosen, Of
  <2> QED
    BY <1>1, <2>3, <2>4, <2>5, PaneType
<1>6. S!LaidOut(w) = [p \in Pagers |-> S!LaidOut(w)[p]]
  <2> HIDE DEF Chosen, Of
  <2> QED
    BY <1>3
<1> QED
  BY <1>5, <1>6 DEF Boxed, Placed
-----------------------------------------------------------------------------
(* The layout pane by pane: where the loop is, and that what it has set    *)
(* fits the width it began with, if the terminal still has that width.  If *)
(* not, every pane has a box nonetheless.                                  *)
LoopInv ==
  /\ order # <<>> /\ n = S!Panes /\ total \in Nat /\ i \in 0..n
  /\ i < n => item = ShownItem(i) /\ offset = S!Lefts(total, n)[i]
  /\ i = n => item = Null
  /\ Boxed(box, i) /\ (width = total => Placed(box, total, i))

BoxInv ==
  /\ width \in Nat /\ box = [p \in Pagers |-> box[p]]
  /\ stackAt \in {"idle", "reload"} /\ valid =>
       order # <<>> /\ Boxed(box, S!Panes) /\ (~mixed => Placed(box, width, S!Panes))
  /\ stackAt = "layout" => LoopInv

LEMMA InitBoxes ==
  S!Init => BoxInv
BY StackAssumption DEF S!Init, S!ConstantsOK, BoxInv

LEMMA SameShown ==
  ASSUME UNCHANGED <<order, pager, len>>
  PROVE  /\ S!Panes' = S!Panes /\ Distinct' = Distinct
         /\ \A k : ShownItem(k)' = ShownItem(k) /\ ShownPager(k)' = ShownPager(k)
BY DEF S!Panes, Distinct, ShownItem, ShownPager

(* Nothing the program does in between looks at a box.                     *)
LEMMA OtherKeeps ==
  ASSUME BoxInv, UNCHANGED <<width, box>>, stackAt' \notin {"idle", "reload", "layout"}
  PROVE  BoxInv'
BY DEF BoxInv

LEMMA ReloadKeeps ==
  ASSUME BoxInv, (\E p \in Pagers : S!ReloadFree(p)) \/ S!ReloadAssign
  PROVE  BoxInv'
<1>1. /\ stackAt \in {"idle", "reload"} /\ stackAt' \in {"idle", "reload"}
      /\ UNCHANGED <<order, pager, len, width, box, valid, mixed>>
  BY DEF S!ReloadFree, S!ReloadAssign, S!Goes, S!links, S!screen
<1>2. S!Panes' = S!Panes /\ Distinct' = Distinct /\ \A k : ShownPager(k)' = ShownPager(k)
  BY <1>1, SameShown
<1> QED
  BY <1>1, <1>2 DEF BoxInv, Boxed, Placed

LEMMA BeginKeeps ==
  ASSUME StackInv, BoxInv, S!LayoutBegin
  PROVE  BoxInv'
<1>1. /\ stackAt = "idle" /\ stackAt' = "layout" /\ len > 0
      /\ total' = width /\ n' = S!Panes /\ i' = 0 /\ offset' = 0 /\ item' = S!FirstVisible
      /\ UNCHANGED <<order, pager, len, width, box>>
  BY DEF S!LayoutBegin, S!Goes, S!links, S!screen
<1>2. order # <<>> /\ Between
  <2>1. len = Len(order)
    BY <1>1 DEF StackInv, OrderInv
  <2>2. Len(<<>>) = 0
    OBVIOUS
  <2> QED
    BY <1>1, <2>1, <2>2 DEF Between
<1>3. S!Panes' = S!Panes /\ \A k : ShownItem(k)' = ShownItem(k)
  BY <1>1, SameShown
<1>4. S!Panes \in Nat \ {0} /\ width \in Nat
  BY <1>2, PanesShown DEF BoxInv
<1>5. item' = ShownItem(0)'
  BY <1>1, <1>2, <1>3, FirstIsShown
<1>6. S!Lefts(width, S!Panes)[0] = 0
  BY <1>4, LeftsStep
<1>7. LoopInv'
  BY <1>1, <1>2, <1>3, <1>4, <1>5, <1>6 DEF LoopInv, Boxed, Placed
<1> QED
  BY <1>1, <1>7 DEF BoxInv

LEMMA PaneKeeps ==
  ASSUME StackInv, BoxInv, S!LayoutPane
  PROVE  BoxInv'
<1> DEFINE size == S!Size(total - offset, n - i)
           pane == [left |-> offset, width |-> size]
<1>1. /\ stackAt = "layout" /\ stackAt' = "layout" /\ item # Null /\ i < n
      /\ box' = [box EXCEPT ![pager[item]] = pane] /\ offset' = offset + size + 1
      /\ item' = next[item] /\ i' = i + 1
      /\ UNCHANGED <<order, pager, len, next, total, n, width>>
  BY DEF S!LayoutPane, S!Goes, S!links
<1>2. LoopInv /\ Between
  BY <1>1 DEF BoxInv, LoopInv, Between
<1>3. /\ S!Panes' = S!Panes /\ Distinct' = Distinct
      /\ \A k : ShownItem(k)' = ShownItem(k) /\ ShownPager(k)' = ShownPager(k)
  BY <1>1, SameShown
<1>4. /\ n = S!Panes /\ n \in Nat \ {0} /\ total \in Nat /\ i \in 0..n-1
      /\ item = ShownItem(i) /\ offset = S!Lefts(total, n)[i]
  BY <1>1, <1>2, PanesShown DEF LoopInv
<1>5. pane = S!Pane(total, n, i) /\ pane # Null
  <2>1. pane = S!Pane(total, n, i)
    BY <1>4 DEF S!Pane
  <2> HIDE DEF pane
  <2>2. total \in Int /\ n \in Nat
    BY <1>4
  <2> QED
    BY <1>4, <2>1, <2>2, PaneType
<1>6. pager[item] = ShownPager(i) /\ ShownPager(i) \in Pagers
  BY <1>2, <1>4, PanesShown DEF ShownPager
<1>7. /\ i + 1 < n => item' = ShownItem(i + 1)
      /\ i + 1 = n => item' = Null
  <2>1. i + 1 < n => i \in 0..S!Panes-2
    BY <1>4
  <2>2. i + 1 = n => i = S!Panes - 1
    BY <1>4
  <2> QED
    BY <1>1, <1>2, <1>4, <2>1, <2>2, PanesShown
<1>8. i + 1 < n => offset' = S!Lefts(total, n)[i + 1]
  <2> SUFFICES ASSUME i + 1 < n PROVE offset' = S!Lefts(total, n)[i + 1]
    OBVIOUS
  <2>1. i + 1 \in 0..n-1 /\ i + 1 # 0 /\ (i + 1) - 1 = i
    BY <1>4
  <2>2. S!Lefts(total, n)[i + 1] = S!Lefts(total, n)[i] + S!Size(total - S!Lefts(total, n)[i], n - i) + 1
    BY <1>4, <2>1, LeftsStep
  <2> QED
    BY <1>1, <1>4, <2>2
<1> HIDE DEF pane, size
<1>9. box' = [p \in Pagers |-> box'[p]] /\ \A p \in Pagers : box'[p] = IF p = ShownPager(i) THEN pane ELSE box[p]
  BY <1>1, <1>6 DEF BoxInv
<1>10. \A k \in 0..n-1 : ShownPager(k) \in Pagers
  BY <1>2, <1>4, PanesShown
<1>11. Boxed(box', i + 1)
  BY <1>2, <1>4, <1>5, <1>9, <1>10 DEF LoopInv, Boxed
<1>12. width = total => Placed(box', total, i + 1)
  <2> SUFFICES ASSUME width = total, Distinct, NEW k \in 0..i
               PROVE  box'[ShownPager(k)] = S!Pane(total, S!Panes, k)
    BY <1>4 DEF Placed
  <2>1. k \in 0..n-1
    BY <1>4
  <2>2. CASE k = i
    BY <1>4, <1>5, <1>9, <1>10, <2>1, <2>2
  <2>3. CASE k # i
    <3>1. k \in 0..i-1 /\ ShownPager(k) # ShownPager(i)
      BY <1>4, <2>1, <2>3 DEF Distinct
    <3>2. box[ShownPager(k)] = S!Pane(total, S!Panes, k)
      BY <1>2, <3>1 DEF LoopInv, Placed
    <3> QED
      BY <1>9, <1>10, <2>1, <3>1, <3>2
  <2> QED
    BY <2>2, <2>3
<1>13. Boxed(box, i)' /\ (width' = total' => Placed(box, total, i)')
  BY <1>1, <1>3, <1>11, <1>12 DEF Boxed, Placed
<1>14. LoopInv'
  <2>1. order' # <<>> /\ n' = S!Panes' /\ total' \in Nat /\ i' \in 0..n'
    BY <1>1, <1>2, <1>3, <1>4 DEF LoopInv
  <2>2. i' < n' => item' = ShownItem(i)' /\ offset' = S!Lefts(total', n')[i']
    <3>1. ShownItem(i)' = ShownItem(i')
      BY <1>1 DEF ShownItem, S!Panes
    <3> QED
      BY <1>1, <1>7, <1>8, <3>1
  <2>3. i' = n' => item' = Null
    BY <1>1, <1>7
  <2> QED
    BY <1>13, <2>1, <2>2, <2>3 DEF LoopInv
<1> QED
  BY <1>1, <1>9, <1>14 DEF BoxInv

LEMMA EndKeeps ==
  ASSUME StackInv, BoxInv, S!LayoutEnd
  PROVE  BoxInv'
<1>1. /\ stackAt = "layout" /\ stackAt' = "idle" /\ (item = Null \/ i >= n)
      /\ mixed' = (width # total) /\ UNCHANGED <<order, pager, len, width, box>>
  BY DEF S!LayoutEnd, S!Goes, S!links
<1>2. LoopInv /\ Between
  BY <1>1 DEF BoxInv, LoopInv, Between
<1>3. S!Panes' = S!Panes /\ Distinct' = Distinct /\ \A k : ShownPager(k)' = ShownPager(k)
  BY <1>1, SameShown
<1>4. i = n /\ n = S!Panes
  <2>1. \A k \in 0..S!Panes-1 : ShownItem(k) # Null
    BY <1>2, PanesShown, StackAssumption DEF S!ConstantsOK
  <2>2. n \in Nat /\ i \in 0..n /\ n = S!Panes /\ (i < n => item = ShownItem(i))
    BY <1>2, PanesShown DEF LoopInv
  <2> QED
    BY <1>1, <2>1, <2>2
<1>5. Boxed(box, S!Panes) /\ (width = total => Placed(box, total, S!Panes)) /\ order # <<>>
  BY <1>2, <1>4 DEF LoopInv
<1> QED
  BY <1>1, <1>3, <1>5 DEF BoxInv, Boxed, Placed

(* The resize handler, at any place: it lays out the whole stack.          *)
LEMMA WinchKeeps ==
  ASSUME StackInv, BoxInv, NEW w \in Widths, S!Winch(w)
  PROVE  BoxInv'
<1>1. /\ width' = w /\ valid' = (last # Null) /\ mixed' = FALSE /\ w \in Nat
      /\ box' = IF last = Null THEN box ELSE S!LaidOut(w)
      /\ UNCHANGED <<order, pager, len, total, n, i, offset, stackAt, item>>
  BY StackAssumption DEF S!Winch, S!links, S!layout, S!ConstantsOK
<1>2. box' = [p \in Pagers |-> box'[p]]
  <2>1. S!LaidOut(w) = [p \in Pagers |-> S!LaidOut(w)[p]]
    BY DEF S!LaidOut
  <2> QED
    BY <1>1, <2>1 DEF BoxInv
<1>3. CASE ~Between
  <2>1. stackAt = "layout" => Between
    BY DEF BoxInv, LoopInv, Between
  <2>2. stackAt \in {"idle", "reload"} => last = Null
    BY <1>3 DEF Between, StackInv, OrderInv
  <2> QED
    BY <1>1, <1>2, <1>3, <2>1, <2>2 DEF BoxInv
<1>4. CASE Between
  <2>1. last # Null
    <3>1. Len(order) \in Nat /\ Len(order) >= 1
      BY <1>4, NotEmpty DEF StackInv, StackTypes, Between
    <3> QED
      BY <1>4, <3>1, StackAssumption DEF S!ConstantsOK, StackInv, StackTypes, OrderInv, Between
  <2>2. Boxed(box', S!Panes) /\ Placed(box', w, S!Panes)
    BY <1>1, <1>4, <2>1, LaidOutPlaces
  <2>3. /\ S!Panes' = S!Panes /\ Distinct' = Distinct
        /\ \A k : ShownItem(k)' = ShownItem(k) /\ ShownPager(k)' = ShownPager(k)
    BY <1>1, SameShown
  <2>4. CASE stackAt \in {"idle", "reload"}
    <3>1. Boxed(box, S!Panes)' /\ Placed(box, width, S!Panes)'
      BY <1>1, <2>2, <2>3 DEF Boxed, Placed
    <3> QED
      BY <1>1, <1>2, <1>4, <2>4, <3>1 DEF BoxInv, Between
  <2>5. CASE stackAt = "layout"
    <3>1. LoopInv
      BY <2>5 DEF BoxInv
    <3>2. i \in Nat /\ n = S!Panes /\ n \in Nat /\ i <= n
      BY <1>4, <3>1, PanesShown DEF LoopInv
    <3>3. 0..i-1 \subseteq 0..S!Panes-1
      BY <3>2
    <3>4. Boxed(box', i) /\ Placed(box', w, i)
      BY <2>2, <3>3 DEF Boxed, Placed
    <3>5. Boxed(box, i)' /\ (width' = total' => Placed(box, total, i)')
      BY <1>1, <2>3, <3>4 DEF Boxed, Placed
    <3>6. ShownItem(i)' = ShownItem(i)
      BY <1>1 DEF ShownItem, S!Panes
    <3>7. LoopInv'
      BY <1>1, <2>3, <3>1, <3>5, <3>6 DEF LoopInv
    <3> QED
      BY <1>1, <1>2, <2>5, <3>7 DEF BoxInv
  <2> QED
    BY <1>4, <2>4, <2>5 DEF Between
<1> QED
  BY <1>3, <1>4

LEMMA StepKeepsBoxes ==
  ASSUME StackInv, BoxInv, [S!Next]_(S!vars)
  PROVE  BoxInv'
<1>1. CASE UNCHANGED S!vars
  <2>1. UNCHANGED <<order, pager, len, width, box, valid, mixed, stackAt, total, n, i, offset, item>>
    BY <1>1 DEF S!vars, S!links, S!layout, S!screen
  <2>2. /\ S!Panes' = S!Panes /\ Distinct' = Distinct
        /\ \A k : ShownItem(k)' = ShownItem(k) /\ ShownPager(k)' = ShownPager(k)
    BY <2>1, SameShown
  <2>3. ShownItem(i)' = ShownItem(i)
    BY <2>1 DEF ShownItem, S!Panes
  <2> QED
    BY <2>1, <2>2, <2>3 DEF BoxInv, LoopInv, Boxed, Placed
<1>2. CASE \E p \in Pagers : S!ReloadFree(p)
  BY <1>2, ReloadKeeps
<1>3. CASE S!ReloadAssign
  BY <1>3, ReloadKeeps
<1>4. CASE S!LayoutBegin
  BY <1>4, BeginKeeps
<1>5. CASE S!LayoutPane
  BY <1>5, PaneKeeps
<1>6. CASE S!LayoutEnd
  BY <1>6, EndKeeps
<1>7. CASE \E w \in Widths : S!Winch(w)
  BY <1>7, WinchKeeps
<1>8. CASE S!Invalidate
  BY <1>8 DEF S!Invalidate, S!Goes, BoxInv
<1>9. CASE (\E p \in Pagers : S!Push(p)) \/ S!PushFirst \/ S!PushPrevious \/ S!PushNext \/ S!PushLast
  BY <1>9, OtherKeeps
     DEF S!Push, S!PushFirst, S!PushPrevious, S!PushNext, S!PushLast, S!Goes, S!screen
<1>10. CASE S!PushLen \/ S!Pop \/ S!PopFirst \/ S!PopNext \/ S!PopLast \/ S!PopFree \/ S!PopLen
  BY <1>10, OtherKeeps
     DEF S!PushLen, S!Pop, S!PopFirst, S!PopNext, S!PopLast, S!PopFree, S!PopLen, S!Goes, S!screen
<1> QED
  BY <1>1, <1>2, <1>3, <1>4, <1>5, <1>6, <1>7, <1>8, <1>9, <1>10 DEF S!Next, S!Main

LEMMA AlwaysBoxed ==
  S!Spec => [](StackInv /\ BoxInv)
<1>1. StackInv /\ StackInv' /\ BoxInv /\ [S!Next]_(S!vars) => BoxInv'
  BY StepKeepsBoxes
<1> QED
  BY InitBoxes, <1>1, AlwaysLinked, PTL DEF S!Spec

(* Wherever a key handler may start with a layout that is valid, the       *)
(* pagers on the screen have boxes; and these fill the terminal from edge  *)
(* to edge, one column between, their widths as even as can be - whatever  *)
(* terminal, however many panes, and wherever resize signals came in.      *)
THEOREM LayoutTiles ==
  S!Spec => []PanesTile
<1>1. StackInv /\ BoxInv => PanesTile
  <2> SUFFICES ASSUME StackInv, BoxInv, stackAt = "idle", valid
               PROVE  S!PanesTile
    BY DEF PanesTile, S!PanesTile
  <2> DEFINE N == S!Panes
             L == S!Lefts(width, N)
  <2>1. /\ Between /\ Boxed(box, N) /\ (~mixed => Placed(box, width, N)) /\ width \in Nat
    BY DEF BoxInv, Between
  <2>2. /\ N \in Nat \ {0} /\ Len(order) \in Nat /\ N \in 1..Len(order)
        /\ \A k \in 0..N-1 : ShownItem(k) # Null
    BY <2>1, PanesShown, StackAssumption DEF S!ConstantsOK
  <2>3. ASSUME NEW k \in 1..N
        PROVE  S!Visible[k] = ShownPager(k - 1)
    <3>1. N - k \in Nat /\ N - k < Len(order) /\ Len(order) - (N - k) = Len(order) - N + 1 + (k - 1)
          /\ k - 1 \in 0..N-1
      BY <2>2
    <3>2. S!Below[N - k] = ShownItem(k - 1)
      BY <3>1, BelowIsFromTop DEF FromTop, ShownItem
    <3>3. S!Get(N - k) = pager[ShownItem(k - 1)]
      BY <2>2, <3>1, <3>2 DEF S!Get, S!Follow
    <3> QED
      BY <3>3 DEF S!Visible, ShownPager
  <2>4. DOMAIN S!Visible = 1..N
    BY DEF S!Visible
  <2>5. S!ShownHaveBoxes
    <3>1. \A k \in 1..N : k - 1 \in 0..N-1
      BY <2>2
    <3> QED
      BY <2>1, <2>3, <2>4, <3>1 DEF S!ShownHaveBoxes, Boxed
  <2>6. ASSUME ~mixed, \A j, k \in DOMAIN S!Visible : S!Visible[j] = S!Visible[k] => j = k
        PROVE  /\ \A k \in 1..N : box[S!Visible[k]] = S!Pane(width, N, k - 1)
    <3>1. Distinct
      <4> SUFFICES ASSUME NEW j \in 0..N-1, NEW k \in 0..N-1, ShownPager(j) = ShownPager(k)
                   PROVE  j = k
        BY DEF Distinct
      <4>1. j + 1 \in 1..N /\ k + 1 \in 1..N /\ (j + 1) - 1 = j /\ (k + 1) - 1 = k
        BY <2>2
      <4>2. j + 1 = k + 1
        BY <2>3, <2>4, <2>6, <4>1
      <4> QED
        BY <4>1, <4>2
    <3>2. \A k \in 0..N-1 : box[ShownPager(k)] = S!Pane(width, N, k)
      BY <2>1, <2>6, <3>1 DEF Placed
    <3>3. \A k \in 1..N : k - 1 \in 0..N-1
      BY <2>2
    <3> QED
      BY <2>3, <3>2, <3>3
  <2>7. /\ L[0] = 0
        /\ \A k \in 0..N-1 : L[k] \in Int
        /\ \A k \in 1..N-1 : L[k] = L[k-1] + S!Size(width - L[k-1], N - (k - 1)) + 1
    BY <2>1, <2>2, LeftsStep
  <2>8. \A k \in 0..N-1 : /\ S!Pane(width, N, k).left = L[k]
                          /\ S!Pane(width, N, k).width = S!Size(width - L[k], N - k)
    BY DEF S!Pane
  <2> HIDE DEF L
  <2>9. ASSUME \A k \in 1..N : box[S!Visible[k]] = S!Pane(width, N, k - 1)
        PROVE  /\ box[S!Visible[1]].left = 0
               /\ \A k \in 1..N-1 :
                    box[S!Visible[k+1]].left = box[S!Visible[k]].left + box[S!Visible[k]].width + 1
               /\ box[S!Visible[N]].left + box[S!Visible[N]].width = width
               /\ width >= 2 * N - 1 =>
                    \A j, k \in 1..N : /\ box[S!Visible[k]].width >= 1
                                       /\ box[S!Visible[k]].width <= box[S!Visible[j]].width + 1
    <3>1. \A k \in 1..N : /\ box[S!Visible[k]].left = L[k-1]
                          /\ box[S!Visible[k]].width = S!Size(width - L[k-1], N - (k - 1))
      <4>1. \A k \in 1..N : k - 1 \in 0..N-1
        BY <2>2
      <4> QED
        BY <2>8, <2>9, <4>1
    <3>2. box[S!Visible[1]].left = 0
      BY <2>2, <2>7, <3>1
    <3>3. ASSUME NEW k \in 1..N-1
          PROVE  box[S!Visible[k+1]].left = box[S!Visible[k]].left + box[S!Visible[k]].width + 1
      <4>1. k \in 1..N /\ k + 1 \in 1..N /\ (k + 1) - 1 = k
        BY <2>2
      <4> QED
        BY <2>7, <3>1, <4>1
    <3>4. box[S!Visible[N]].left + box[S!Visible[N]].width = width
      <4>1. N \in 1..N /\ N - (N - 1) = 1 /\ N - 1 \in 0..N-1
        BY <2>2
      <4>2. box[S!Visible[N]].left = L[N-1] /\ box[S!Visible[N]].width = S!Size(width - L[N-1], 1)
        BY <3>1, <4>1
      <4>3. L[N-1] \in Int /\ width \in Int
        BY <2>1, <2>7, <4>1
      <4>4. S!Size(width - L[N-1], 1) = width - L[N-1]
        BY <4>3 DEF S!Size, S!Quotient
      <4> QED
        BY <4>2, <4>3, <4>4
    <3>5. ASSUME width >= 2 * N - 1, NEW j \in 1..N, NEW k \in 1..N
          PROVE  /\ box[S!Visible[k]].width >= 1
                 /\ box[S!Visible[k]].width <= box[S!Visible[j]].width + 1
      <4>1. PICK e \in Nat \ {0} : \A m \in 0..N-1 : S!Size(width - L[m], N - m) \in {e, e + 1}
        BY <2>1, <2>2, <3>5, Evenly DEF L
      <4>2. j - 1 \in 0..N-1 /\ k - 1 \in 0..N-1
        BY <2>2
      <4>3. box[S!Visible[k]].width \in {e, e + 1} /\ box[S!Visible[j]].width \in {e, e + 1}
        BY <3>1, <4>1, <4>2
      <4> QED
        BY <4>3
    <3> QED
      BY <3>2, <3>3, <3>4, <3>5
  <2> QED
    BY <2>5, <2>6, <2>9 DEF S!PanesTile
<1> QED
  BY <1>1, AlwaysBoxed, PTL
=============================================================================
