---------------------------- MODULE IoLoopProofs ----------------------------
(***************************************************************************)
(* The safety invariants of the event loop, for any number of pagers,      *)
(* commands and annotators, any set of addresses and pipes of any size.    *)
(*                                                                         *)
(* None of them is inductive.  IoInv, the invariant that is, says for each *)
(* list of io.c how it is ordered and what may be on it, for each pager    *)
(* which buffer it has (BuffersHeld, OwnersDiffer), which entries a pop or *)
(* a reload has stopped (CancelledStopped), why a reader may have lost its *)
(* buffer (ReadersHeld, OrphansExplained), who holds a write end           *)
(* (WriteEnds), what an end of input stands for (Eofs), which calls can be *)
(* left of the operation that is under way (CallsFit) and what the items   *)
(* of a tick are about (ItemsInv).                                         *)
(*                                                                         *)
(* TypeOK is proved from IoInv and from Sizes: an item that poll found     *)
(* ready stays ready until it is handled.  The two invariants of one load  *)
(* of one pager come last, from IoInv and from LoadInv: who finishes is    *)
(* preceded in the annotator list by those who finish.                     *)
(***************************************************************************)
EXTENDS MCIoLoop, FiniteSetTheorems, SequenceTheorems, WellFoundedInduction, TLAPS
-----------------------------------------------------------------------------
(* A set of numbers that is not empty has a least one.                     *)
LEMMA LeastNatural ==
  ASSUME NEW S \in SUBSET Nat, S # {}
  PROVE  \E least \in S : \A m \in S : least <= m
<1> DEFINE Below == OpToRel(<, Nat)
<1>1. IsWellFoundedOn(Below, Nat)
  BY NatLessThanWellFounded
<1>2. \A m, l \in Nat : m < l => <<m, l>> \in Below
  BY DEF OpToRel
<1> HIDE DEF Below
<1>3. PICK least \in S : \A m \in S : ~(<<m, least>> \in Below)
  BY <1>1, WFMin
<1>4. least \in Nat /\ \A m \in S : m \in Nat /\ ~(m < least)
  BY <1>2, <1>3
<1>5. \A m \in S : least <= m
  BY <1>4
<1> QED
  BY <1>5

(* A set of numbers with a bound has a greatest one.                       *)
LEMMA GreatestNatural ==
  ASSUME NEW n \in Nat, NEW S \in SUBSET (0..n), S # {}
  PROVE  \E greatest \in S : \A m \in S : m <= greatest
<1> DEFINE Rest == {n - m : m \in S}
<1>1. Rest \in SUBSET Nat /\ Rest # {}
  <2>1. \A m \in S : n - m \in Nat
    OBVIOUS
  <2> QED
    BY <2>1
<1> HIDE DEF Rest
<1>2. PICK least \in Rest : \A m \in Rest : least <= m
  BY <1>1, LeastNatural
<1> USE DEF Rest
<1>3. PICK greatest \in S : least = n - greatest
  OBVIOUS
<1>4. \A m \in S : n - m \in Rest
  OBVIOUS
<1>5. \A m \in S : n - greatest <= n - m
  BY <1>2, <1>3, <1>4
<1> QED
  BY <1>5

(* The recursion by which Ascending goes from 1 to n.                      *)
Rises(S, n, h) ==
  h = [m \in 0..n |-> IF m = 0 THEN <<>> ELSE IF m \in S THEN Append(h[m-1], m) ELSE h[m-1]]

(* That recursion has a solution, so Ascending is what the recursion says. *)
LEMMA RisesExists ==
  ASSUME NEW S, NEW n \in Nat
  PROVE  \E h : Rises(S, n, h)
<1> SUFFICES ASSUME ~ \E h : Rises(S, n, h) PROVE FALSE
  OBVIOUS
<1> DEFINE Bad == {l \in Nat : ~ \E h : Rises(S, l, h)}
<1>1. PICK l \in Bad : \A m \in Bad : l <= m
  <2>1. Bad \in SUBSET Nat /\ Bad # {}
    OBVIOUS
  <2> HIDE DEF Bad
  <2> QED
    BY <2>1, LeastNatural
<1>2. l # 0
  <2> SUFFICES ASSUME l = 0 PROVE FALSE
    OBVIOUS
  <2> DEFINE g == [m \in 0..0 |-> <<>>]
  <2>1. g = [m \in 0..0 |-> IF m = 0 THEN <<>> ELSE IF m \in S THEN Append(g[m-1], m) ELSE g[m-1]]
    OBVIOUS
  <2>2. Rises(S, 0, g)
    BY <2>1 DEF Rises
  <2> QED
    BY <1>1, <2>2
<1>3. l - 1 \in Nat /\ l - 1 \notin Bad
  BY <1>1, <1>2
<1>4. PICK h : Rises(S, l - 1, h)
  BY <1>3
<1> DEFINE g == [m \in 0..l |-> IF m = l THEN IF l \in S THEN Append(h[l-1], l) ELSE h[l-1] ELSE h[m]]
<1>5. \A m \in 0..l-1 : g[m] = h[m]
  BY <1>1
<1>6. \A m \in 0..l-1 : h[m] = IF m = 0 THEN <<>> ELSE IF m \in S THEN Append(h[m-1], m) ELSE h[m-1]
  BY <1>4 DEF Rises
<1>7. \A m \in 0..l : m # 0 => m - 1 \in 0..l-1 /\ g[m-1] = h[m-1]
  BY <1>1, <1>5
<1>8. \A m \in 0..l : g[m] = IF m = 0 THEN <<>> ELSE IF m \in S THEN Append(g[m-1], m) ELSE g[m-1]
  <2> SUFFICES ASSUME NEW m \in 0..l
               PROVE  g[m] = IF m = 0 THEN <<>> ELSE IF m \in S THEN Append(g[m-1], m) ELSE g[m-1]
    OBVIOUS
  <2>1. CASE m = l
    BY <1>2, <1>7, <2>1
  <2>2. CASE m # l
    <3>1. m \in 0..l-1
      BY <1>1, <2>2
    <3>2. g[m] = h[m]
      BY <1>5, <3>1
    <3> QED
      BY <1>6, <1>7, <3>1, <3>2
  <2> QED
    BY <2>1, <2>2
<1>9. Rises(S, l, g)
  <2> DEFINE r == [m \in 0..l |-> IF m = 0 THEN <<>> ELSE IF m \in S THEN Append(g[m-1], m) ELSE g[m-1]]
  <2>1. g = [m \in 0..l |-> g[m]]
    OBVIOUS
  <2> HIDE DEF g
  <2>2. r = [m \in 0..l |-> r[m]]
    OBVIOUS
  <2>3. \A m \in 0..l : g[m] = r[m]
    BY <1>8
  <2> HIDE DEF r
  <2>4. g = r
    BY <2>1, <2>2, <2>3
  <2> QED
    BY <2>4 DEF Rises, r
<1> QED
  BY <1>1, <1>9

(* s lists the members of S up to m in ascending order.                    *)
Lists(s, S, m) ==
  /\ s \in Seq(Nat)
  /\ \A k \in DOMAIN s : s[k] \in S /\ s[k] <= m
  /\ \A j, k \in DOMAIN s : j < k => s[j] < s[k]
  /\ \A x \in S : x <= m => \E k \in DOMAIN s : s[k] = x

(* Ascending lists the set.                                                *)
LEMMA AscendingLists ==
  ASSUME NEW n \in Nat, NEW S \in SUBSET (1..n)
  PROVE  Lists(Ascending(S, n), S, n)
<1> DEFINE h == CHOOSE g : Rises(S, n, g)
<1>1. Rises(S, n, h)
  BY RisesExists
<1>2. Ascending(S, n) = h[n]
  BY DEF Ascending, Rises
<1> HIDE DEF h
<1>3. \A m \in 0..n : h[m] = IF m = 0 THEN <<>> ELSE IF m \in S THEN Append(h[m-1], m) ELSE h[m-1]
  BY <1>1 DEF Rises
<1> DEFINE Bad == {m \in 0..n : ~Lists(h[m], S, m)}
<1>4. ASSUME Bad # {} PROVE FALSE
  <2>1. Bad \in SUBSET Nat
    OBVIOUS
  <2>2. PICK m \in Bad : \A l \in Bad : m <= l
    <3> HIDE DEF Bad
    <3> QED
      BY <1>4, <2>1, LeastNatural
  <2>3. m \in 0..n /\ ~Lists(h[m], S, m)
    BY <2>2
  <2>4. CASE m = 0
    <3>1. h[m] = <<>> /\ \A x \in S : ~(x <= m)
      BY <1>3, <2>3, <2>4
    <3>2. <<>> \in Seq(Nat) /\ DOMAIN <<>> = {}
      OBVIOUS
    <3> QED
      BY <2>3, <3>1, <3>2 DEF Lists
  <2>5. CASE m # 0
    <3>1. m - 1 \in 0..n /\ m - 1 \notin Bad
      BY <2>2, <2>5
    <3>2. Lists(h[m-1], S, m - 1)
      BY <3>1
    <3>3. CASE m \in S
      <4> DEFINE s == h[m-1]
      <4>1. h[m] = Append(s, m)
        BY <1>3, <2>3, <2>5, <3>3
      <4> HIDE DEF s
      <4>2. Lists(s, S, m - 1)
        BY <3>2 DEF s
      <4>3. m \in Nat
        BY <2>3
      <4>4. Append(s, m) \in Seq(Nat) /\ Len(Append(s, m)) = Len(s) + 1
        BY <4>2, <4>3 DEF Lists
      <4>5. \A k \in DOMAIN Append(s, m) : Append(s, m)[k] = IF k \in DOMAIN s THEN s[k] ELSE m
        BY <4>2, <4>3 DEF Lists
      <4>6. \A k \in DOMAIN Append(s, m) : k \notin DOMAIN s => k = Len(s) + 1
        BY <4>2, <4>3, <4>4 DEF Lists
      <4>7. DOMAIN s \subseteq DOMAIN Append(s, m) /\ Append(s, m)[Len(s) + 1] = m
            /\ Len(s) + 1 \in DOMAIN Append(s, m)
        BY <4>2, <4>3, <4>4 DEF Lists
      <4>8. \A k \in DOMAIN s : s[k] \in Nat /\ s[k] <= m - 1 /\ s[k] < m /\ s[k] <= m
        BY <4>2, <4>3 DEF Lists
      <4>9. \A k \in DOMAIN Append(s, m) : Append(s, m)[k] \in S /\ Append(s, m)[k] <= m
        BY <3>3, <4>2, <4>3, <4>5, <4>8 DEF Lists
      <4>10. \A j, k \in DOMAIN Append(s, m) : j < k => Append(s, m)[j] < Append(s, m)[k]
        BY <4>2, <4>3, <4>5, <4>6, <4>8 DEF Lists
      <4>11. \A x \in S : x <= m => \E k \in DOMAIN Append(s, m) : Append(s, m)[k] = x
        <5> SUFFICES ASSUME NEW x \in S, x <= m
                     PROVE  \E k \in DOMAIN Append(s, m) : Append(s, m)[k] = x
          OBVIOUS
        <5>1. x \in Nat /\ (x # m => x <= m - 1)
          BY <4>3
        <5> QED
          BY <4>2, <4>5, <4>7, <5>1 DEF Lists
      <4> QED
        BY <2>3, <4>1, <4>4, <4>9, <4>10, <4>11 DEF Lists
    <3>4. CASE m \notin S
      <4>1. h[m] = h[m-1]
        BY <1>3, <2>3, <2>5, <3>4
      <4>2. \A x \in S : x \in Nat /\ (x <= m => x <= m - 1)
        BY <2>3, <3>4
      <4>3. \A x \in Nat : x <= m - 1 => x <= m
        BY <2>3
      <4> QED
        BY <2>3, <3>2, <4>1, <4>2, <4>3 DEF Lists
    <3> QED
      BY <3>3, <3>4
  <2> QED
    BY <2>4, <2>5
<1>5. n \in 0..n
  OBVIOUS
<1> QED
  BY <1>2, <1>4, <1>5
-----------------------------------------------------------------------------
(* What io_buffer_is_running and io_close_buffer find: the first entry for *)
(* the buffer, or none.                                                    *)
FirstBio(b) == SelectInSeq(bios, LAMBDA i : bio[i].buffer = b)
FirstAio(b) == SelectInSeq(aios, LAMBDA a : aio[a].buffer = b)

(* The first command of a buffer is the one, and there is none before it.  *)
LEMMA FirstBioIs ==
  ASSUME bios \in Seq(Bio), NEW b
  PROVE  \/ FirstBio(b) = 0 /\ \A j \in DOMAIN bios : bio[bios[j]].buffer # b
         \/ /\ FirstBio(b) \in DOMAIN bios /\ bio[bios[FirstBio(b)]].buffer = b
            /\ \A j \in DOMAIN bios : j < FirstBio(b) => bio[bios[j]].buffer # b
<1> DEFINE I == {j \in 1..Len(bios) : bio[bios[j]].buffer = b}
<1>1. FirstBio(b) = IF I # {} THEN CHOOSE j \in I : \A m \in I : j <= m ELSE 0
  BY DEF FirstBio, SelectInSeq, Min
<1>2. I \in SUBSET Nat /\ DOMAIN bios = 1..Len(bios)
  <2>1. DOMAIN bios = 1..Len(bios) /\ Len(bios) \in Nat
    OBVIOUS
  <2>2. 1..Len(bios) \subseteq Nat /\ I \subseteq 1..Len(bios)
    BY <2>1
  <2> QED
    BY <2>1, <2>2
<1>3. CASE I = {}
  BY <1>1, <1>2, <1>3
<1>4. CASE I # {}
  <2>1. \E j \in I : \A m \in I : j <= m
    <3> HIDE DEF I
    <3> QED
      BY <1>2, <1>4, LeastNatural
  <2>2. FirstBio(b) \in I /\ \A m \in I : FirstBio(b) <= m
    <3> HIDE DEF I
    <3> QED
      BY <1>1, <1>4, <2>1
  <2>3. \A m \in I : m \in Nat /\ ~(m < FirstBio(b))
    BY <2>2
  <2> QED
    BY <1>2, <2>2, <2>3
<1> QED
  BY <1>3, <1>4

(* The first annotator of a buffer is the one, and there is none before    *)
(* it.                                                                     *)
LEMMA FirstAioIs ==
  ASSUME aios \in Seq(Aio), NEW b
  PROVE  \/ FirstAio(b) = 0 /\ \A j \in DOMAIN aios : aio[aios[j]].buffer # b
         \/ /\ FirstAio(b) \in DOMAIN aios /\ aio[aios[FirstAio(b)]].buffer = b
            /\ \A j \in DOMAIN aios : j < FirstAio(b) => aio[aios[j]].buffer # b
<1> DEFINE I == {j \in 1..Len(aios) : aio[aios[j]].buffer = b}
<1>1. FirstAio(b) = IF I # {} THEN CHOOSE j \in I : \A m \in I : j <= m ELSE 0
  BY DEF FirstAio, SelectInSeq, Min
<1>2. I \in SUBSET Nat /\ DOMAIN aios = 1..Len(aios)
  <2>1. DOMAIN aios = 1..Len(aios) /\ Len(aios) \in Nat
    OBVIOUS
  <2>2. 1..Len(aios) \subseteq Nat /\ I \subseteq 1..Len(aios)
    BY <2>1
  <2> QED
    BY <2>1, <2>2
<1>3. CASE I = {}
  BY <1>1, <1>2, <1>3
<1>4. CASE I # {}
  <2>1. \E j \in I : \A m \in I : j <= m
    <3> HIDE DEF I
    <3> QED
      BY <1>2, <1>4, LeastNatural
  <2>2. FirstAio(b) \in I /\ \A m \in I : FirstAio(b) <= m
    <3> HIDE DEF I
    <3> QED
      BY <1>1, <1>4, <2>1
  <2>3. \A m \in I : m \in Nat /\ ~(m < FirstAio(b))
    BY <2>2
  <2> QED
    BY <1>2, <2>2, <2>3
<1> QED
  BY <1>3, <1>4

(* The last finished entry of the annotator list, as io_prune_finished     *)
(* unlinks it.                                                             *)
LastFinished(D) == SelectLastInSeq(aios, LAMBDA a : a \in D)

(* The last finished annotator of the list is finished, and none after it  *)
(* is.                                                                     *)
LEMMA LastFinishedIs ==
  ASSUME aios \in Seq(Aio), NEW D
  PROVE  \/ LastFinished(D) = 0 /\ \A j \in DOMAIN aios : aios[j] \notin D
         \/ /\ LastFinished(D) \in DOMAIN aios /\ aios[LastFinished(D)] \in D
            /\ \A j \in DOMAIN aios : j > LastFinished(D) => aios[j] \notin D
<1> DEFINE I == {j \in 1..Len(aios) : aios[j] \in D}
<1>1. LastFinished(D) = IF I # {} THEN CHOOSE j \in I : \A m \in I : m <= j ELSE 0
  BY DEF LastFinished, SelectLastInSeq, Max
<1>2. I \in SUBSET (0..Len(aios)) /\ DOMAIN aios = 1..Len(aios) /\ Len(aios) \in Nat
  OBVIOUS
<1>3. CASE I = {}
  BY <1>1, <1>2, <1>3
<1>4. CASE I # {}
  <2>1. \E j \in I : \A m \in I : m <= j
    <3> HIDE DEF I
    <3> QED
      BY <1>2, <1>4, GreatestNatural
  <2>2. LastFinished(D) \in I /\ \A m \in I : m <= LastFinished(D)
    <3> HIDE DEF I
    <3> QED
      BY <1>1, <1>4, <2>1
  <2>3. \A m \in I : m \in Nat /\ ~(m > LastFinished(D))
    BY <2>2
  <2> QED
    BY <1>2, <2>2, <2>3
<1> QED
  BY <1>3, <1>4

(* How many processes of a kind were started, if they are numbered.        *)
LEMMA CountNumbered ==
  ASSUME NEW N \in Nat, NEW f, NEW n \in 0..N, \A i \in 1..N : f[i] # "none" <=> i <= n
  PROVE  Cardinality({i \in 1..N : f[i] # "none"}) = n
<1>1. {i \in 1..N : f[i] # "none"} = 1..n
  OBVIOUS
<1>2. Cardinality(1..n) = n
  BY FS_Interval
<1> QED
  BY <1>1, <1>2
-----------------------------------------------------------------------------
(* The invariant.  First the types, as far as the steps need them.         *)
ProcStates == {"none", "forked", "running", "ending", "dead", "reaped"}
Holders == {Ratc} \cup {BProc(i) : i \in Bio} \cup {AProc(a) : a \in Aio}
ItemTypes == {"buffer_in", "annotator_in", "annotator_out"}

IoTypes ==
  /\ bios \in Seq(Bio) /\ aios \in Seq(Aio) /\ nItems \in Nat
  /\ bio \in [Bio -> [buffer : Addr \cup {NULL}, rdone : BOOLEAN]]
  /\ aio \in [Aio -> [buffer : Addr \cup {NULL}, woffset : Int,
                      wdone : BOOLEAN, rdone : BOOLEAN]]
  /\ buf \in [Addr -> [live : BOOLEAN, len : Nat, gen : Nat]]
  /\ pager \in [Pager -> [state : {"none", "stacked", "popped", "revived", "freed", "abandoned"},
                          buffer : Addr \cup {NULL}, annotators : Nat]]
  /\ procB \in [Bio -> ProcStates] /\ procA \in [Aio -> ProcStates]
  /\ wfd \in [Aio -> SUBSET Holders] /\ inA \in [Aio -> Int] /\ born \in [Aio -> Nat]
  /\ calls \in Seq([op : {"cancel", "run", "annotate", "free"}, pager : Pager])

(* Processes are numbered in the order they are started in, and both lists *)
(* have the newest first.                                                  *)
Counted ==
  /\ nBios \in 0..MaxBios /\ \A i \in Bio : procB[i] # "none" <=> i <= nBios
  /\ nAios \in 0..MaxAios /\ \A a \in Aio : procA[a] # "none" <=> a <= nAios
  /\ \A a \in Aio : procA[a] = "none" => ~aio[a].rdone

ListsSorted ==
  /\ \A j, k \in DOMAIN bios : j < k => bios[j] > bios[k]
  /\ \A j, k \in DOMAIN aios : j < k => aios[j] > aios[k]
  /\ \A k \in DOMAIN bios : procB[bios[k]] \notin {"none", "reaped"}
  /\ \A k \in DOMAIN aios : procA[aios[k]] \notin {"none", "reaped"}

(* The calls that are still to be made, by the operation they are of.      *)
Subject == calls[1].pager
Alive == pager[Subject].state \in {"stacked", "revived"}
Annotates(first) == \A k \in first..Len(calls) : calls[k].op = "annotate"
FitsAfter(first) == Annotates(first) /\ nAios + Len(calls) - first + 1 <= MaxAios

ToAnnotate == calls[1].op = "annotate" /\ Alive /\ FitsAfter(1)
ToRun == calls[1].op = "run" /\ Alive /\ nBios < MaxBios /\ FitsAfter(2)
ToReload == /\ calls[1].op = "cancel" /\ Len(calls) >= 2 /\ calls[2].op = "run"
            /\ Alive /\ nBios < MaxBios /\ FitsAfter(3)
ToCancel == calls[1].op = "cancel" /\ Len(calls) = 1 /\ pager[Subject].state = "popped"
ToPop == /\ calls[1].op = "cancel" /\ Len(calls) = 2 /\ calls[2].op = "free"
         /\ pager[Subject].state = "freed"
ToFree == calls[1].op = "free" /\ Len(calls) = 1 /\ pager[Subject].state \in {"freed", "abandoned"}

CallsFit ==
  /\ calls # <<>> =>
       /\ \A k \in DOMAIN calls : calls[k].pager = Subject
       /\ ToAnnotate \/ ToRun \/ ToReload \/ ToCancel \/ ToPop \/ ToFree
  /\ phase \in {"poll", "items", "prune"} => calls = <<>>

(* A pager that can be used, or is about to be freed, has a buffer of its  *)
(* own.                                                                    *)
FreePending(p) == calls # <<>> /\ calls[Len(calls)] = Call("free", p)
RunPending(p) == calls # <<>> /\ calls[1] = Call("run", p)
CancelPending(p) == calls # <<>> /\ calls[1] = Call("cancel", p)
Owns(p) == pager[p].state \in Usable \/ FreePending(p)

BuffersHeld ==
  \A p \in Pager :
    /\ pager[p].state = "none" => pager[p].buffer = NULL
    /\ Owns(p) => \/ pager[p].buffer = NULL /\ RunPending(p)
                  \/ pager[p].buffer \in Addr /\ buf[pager[p].buffer].live

OwnersDiffer ==
  \A p, q \in Pager :
    p # q /\ Owns(p) /\ Owns(q) /\ pager[p].buffer # NULL => pager[p].buffer # pager[q].buffer

(* Nothing is read for a buffer any more, but by annotators that were left *)
(* behind because of a newer one.                                          *)
Sibling(a) ==
  \E c \in Aio : c > a /\ born[c] = born[a] /\ aio[c].buffer = aio[a].buffer /\ aio[c].rdone
QuietB(b) == \A k \in DOMAIN bios : bio[bios[k]].buffer = b => bio[bios[k]].rdone
QuietA(b) == \A k \in DOMAIN aios :
               aio[aios[k]].buffer = b => aio[aios[k]].rdone \/ Sibling(aios[k])
Stopped(b) == Abandoned(b) \/ (QuietB(b) /\ QuietA(b))

(* A buffer is stopped before it is freed.                                 *)
Cancelled(p) ==
  /\ pager[p].state = "popped" \/ (pager[p].state = "freed" /\ FreePending(p)) \/ RunPending(p)
  /\ ~CancelPending(p)
CancelledStopped ==
  \A p \in Pager : Cancelled(p) /\ pager[p].buffer # NULL => Stopped(pager[p].buffer)

(* Of the commands for one buffer only the newest is read from.            *)
NewestReads ==
  \A j, k \in DOMAIN bios :
    j < k /\ bio[bios[j]].buffer = bio[bios[k]].buffer =>
      Abandoned(bio[bios[k]].buffer) \/ bio[bios[k]].rdone

ReadersHeld ==
  \A k \in DOMAIN bios :
    LET b == bio[bios[k]].buffer
    IN  b \in Addr /\ (~bio[bios[k]].rdone => buf[b].live \/ Abandoned(b))

OrphansExplained ==
  \A k \in DOMAIN aios :
    ~aio[aios[k]].rdone =>
      Own(aios[k]) \/ Abandoned(aio[aios[k]].buffer) \/ Sibling(aios[k])

(* Addresses are used one generation after the other.                      *)
Generations ==
  /\ \A a \in Aio : procA[a] # "none" =>
       aio[a].buffer \in Addr /\ born[a] <= buf[aio[a].buffer].gen
  /\ \A a, c \in Aio : a < c /\ procA[c] # "none" /\ aio[a].buffer = aio[c].buffer =>
       born[a] <= born[c]

(* An annotator's input is closed when it has everything.                  *)
WriteEnds == \A a \in Aio : procA[a] # "none" /\ ~aio[a].wdone => Ratc \in wfd[a]
Eofs ==
  \A a \in Aio :
    LET b == aio[a].buffer
    IN  procA[a] # "none" /\ Ratc \notin wfd[a] /\ Own(a) /\ ~Abandoned(b) =>
          aio[a].woffset = buf[b].len /\ QuietB(b)

(* The items of a poll are about different descriptors.                    *)
ItemOpen(it) ==
  /\ it.type = "buffer_in" =>
       /\ \E k \in DOMAIN bios : bios[k] = it.id
       /\ ~bio[it.id].rdone /\ (it.hup => Hung(procB[it.id]))
  /\ it.type = "annotator_in" =>
       /\ \E k \in DOMAIN aios : aios[k] = it.id
       /\ ~aio[it.id].rdone /\ (it.hup => Hung(procA[it.id]))
  /\ it.type = "annotator_out" =>
       /\ \E k \in DOMAIN aios : aios[k] = it.id
       /\ Ratc \in wfd[it.id]
ItemsInv ==
  /\ items \in Seq([type : ItemTypes, id : Nat, hup : BOOLEAN])
  /\ phase = "items" =>
       /\ \A k \in DOMAIN items : ItemOpen(items[k])
       /\ \A j, k \in DOMAIN items :
            j < k /\ items[j].type = items[k].type => items[j].id # items[k].id

(* What was read to its end is waited for, or was killed.                  *)
EndedInv ==
  /\ \A k \in DOMAIN bios : bio[bios[k]].rdone => procB[bios[k]] \in {"ending", "dead"}
  /\ \A k \in DOMAIN aios : aio[aios[k]].rdone => procA[aios[k]] \in {"ending", "dead"}

Fallen ==
  \A a \in Aio :
    procA[a] \notin {"none", "reaped"} /\ (\A k \in DOMAIN aios : aios[k] # a) =>
      \E c \in 1..a-1 : procA[c] = "reaped"

(* Nothing is finished when ratc polls, but what was killed.               *)
PolledInv ==
  phase \in {"script", "poll"} =>
    \A k \in DOMAIN aios : aio[aios[k]].rdone => aio[aios[k]].wdone

UndefinedInv ==
  status = "undefined" => phase = "done" /\ calls = <<>> /\ UndefinedOnlyInPrune

(* Everything but what depends on the phase, the items and the status.     *)
Base ==
  /\ IoTypes /\ Counted /\ ListsSorted
  /\ BuffersHeld /\ OwnersDiffer /\ CancelledStopped
  /\ NewestReads /\ ReadersHeld /\ OrphansExplained /\ Generations
  /\ WriteEnds /\ Eofs /\ EndedInv /\ Fallen

IoInv == Base /\ CallsFit /\ ItemsInv /\ PolledInv /\ UndefinedInv
-----------------------------------------------------------------------------
(* Nothing is listed and nothing was started.                              *)
LEMMA InitInv == Init => IoInv
<1> SUFFICES ASSUME Init PROVE IoInv
  OBVIOUS
<1> USE ConstantsAssumption
<1>1. nBios = 0 /\ nAios = 0
  <2>1. \A i \in 1..MaxBios : procB[i] # "none" <=> i <= 0
    BY DEF Init, Bio
  <2>2. \A a \in 1..MaxAios : procA[a] # "none" <=> a <= 0
    BY DEF Init, Aio
  <2> QED
    BY <2>1, <2>2, CountNumbered DEF nBios, nAios, Bio, Aio
<1>2. IoTypes
  BY DEF Init, IoTypes, ProcStates, Holders
<1>3. Counted
  BY <1>1 DEF Init, Counted, Bio, Aio
<1>4. ListsSorted /\ NewestReads /\ ReadersHeld /\ OrphansExplained /\ EndedInv
  BY DEF Init, ListsSorted, NewestReads, ReadersHeld, OrphansExplained, EndedInv
<1>5. BuffersHeld /\ OwnersDiffer /\ CancelledStopped
  BY DEF Init, BuffersHeld, OwnersDiffer, CancelledStopped, Cancelled, Owns, FreePending, RunPending, Usable
<1>6. Generations /\ WriteEnds /\ Eofs /\ Fallen
  BY DEF Init, Generations, WriteEnds, Eofs, Fallen
<1>7. CallsFit /\ ItemsInv /\ PolledInv /\ UndefinedInv
  BY DEF Init, CallsFit, ItemsInv, PolledInv, UndefinedInv
<1> QED
  BY <1>2, <1>3, <1>4, <1>5, <1>6, <1>7 DEF IoInv, Base
-----------------------------------------------------------------------------
(* What a state keeps when only the thread's place changes.                *)
LEMMA SameBase ==
  ASSUME Base, UNCHANGED <<listVars, heapVars, procVars, born, calls>>
  PROVE  Base'
<1> USE DEF Base, listVars, heapVars, procVars
<1>1. IoTypes' /\ Counted' /\ ListsSorted'
  BY DEF IoTypes, Counted, ListsSorted, nBios, nAios
<1>2. BuffersHeld' /\ OwnersDiffer'
  BY DEF BuffersHeld, OwnersDiffer, Owns, FreePending, RunPending
<1>3. CancelledStopped'
  BY DEF CancelledStopped, Cancelled, FreePending, RunPending, CancelPending, Stopped, Abandoned,
         QuietB, QuietA, Sibling
<1>4. NewestReads' /\ ReadersHeld'
  BY DEF NewestReads, ReadersHeld, Abandoned
<1>5. OrphansExplained' /\ Generations' /\ WriteEnds'
  BY DEF OrphansExplained, Own, Abandoned, Sibling, Generations, WriteEnds
<1>6. Eofs' /\ EndedInv' /\ Fallen'
  BY DEF Eofs, Own, Abandoned, QuietB, EndedInv, Fallen
<1> QED
  BY <1>1, <1>2, <1>3, <1>4, <1>5, <1>6

(* The calls still to be made fit what nobody changed.                     *)
LEMMA SameCalls ==
  ASSUME CallsFit, UNCHANGED <<heapVars, procVars, calls>>,
         phase' \in {"poll", "items", "prune"} => calls = <<>>
  PROVE  CallsFit'
<1> USE DEF heapVars, procVars
<1>1. nAios' = nAios /\ nBios' = nBios
  BY DEF nAios, nBios
<1> QED
  BY <1>1 DEF CallsFit, Subject, Alive, Annotates, FitsAfter, ToAnnotate, ToRun, ToReload, ToCancel, ToPop, ToFree
-----------------------------------------------------------------------------
(* The processes: they only go on, and never hold or release what ratc     *)
(* itself has open.                                                        *)
Goes(old, new) ==
  \/ new = old
  \/ old \in {"forked", "running", "ending"} /\ new \in {"running", "ending", "dead"}
     /\ (Hung(old) => Hung(new))

ProcessStep ==
  /\ UNCHANGED <<loopVars, listVars, heapVars, born>>
  /\ procB' \in [Bio -> ProcStates] /\ procA' \in [Aio -> ProcStates]
  /\ \A i \in Bio : Goes(procB[i], procB'[i])
  /\ \A a \in Aio : Goes(procA[a], procA'[a])
  /\ wfd' \in [Aio -> SUBSET Holders]
  /\ \A a \in Aio : Ratc \in wfd'[a] <=> Ratc \in wfd[a]
  /\ inA' \in [Aio -> Int]

(* What a process closes when it dies is no descriptor of ratc.            *)
LEMMA ReleaseKeepsRatc ==
  ASSUME IoTypes, NEW c, c # Ratc
  PROVE  /\ Release(c, wfd) \in [Aio -> SUBSET Holders]
         /\ \A a \in Aio : Ratc \in Release(c, wfd)[a] <=> Ratc \in wfd[a]
BY DEF IoTypes, Release

(* What any step of a process may do, as far as the invariant can tell.    *)
LEMMA ProcessSteps ==
  ASSUME IoTypes, Process
  PROVE  ProcessStep
<1> USE DEF loopVars, listVars, heapVars, histVars, procVars
<1>1. ASSUME NEW i \in Bio, CommandStarts(i) PROVE ProcessStep
  BY <1>1 DEF CommandStarts, ProcessStep, IoTypes, ProcStates, Goes, Hung
<1>2. ASSUME NEW i \in Bio, CommandWrites(i) PROVE ProcessStep
  BY <1>2 DEF CommandWrites, ProcessStep, IoTypes, Goes
<1>3. ASSUME NEW i \in Bio, CommandCloses(i) PROVE ProcessStep
  BY <1>3 DEF CommandCloses, ProcessStep, IoTypes, ProcStates, Goes, Hung
<1>4. ASSUME NEW i \in Bio, CommandExits(i) PROVE ProcessStep
  <2>1. BProc(i) # Ratc
    BY DEF BProc, Ratc
  <2>2. wfd' \in [Aio -> SUBSET Holders] /\ \A a \in Aio : Ratc \in wfd'[a] <=> Ratc \in wfd[a]
    BY <1>4, <2>1, ReleaseKeepsRatc DEF CommandExits
  <2> QED
    BY <1>4, <2>2 DEF CommandExits, ProcessStep, IoTypes, ProcStates, Goes, Hung
<1>5. ASSUME NEW a \in Aio, AnnotatorStarts(a) PROVE ProcessStep
  BY <1>5 DEF AnnotatorStarts, ProcessStep, IoTypes, ProcStates, Goes, Hung
<1>6. ASSUME NEW a \in Aio, AnnotatorConsumes(a) PROVE ProcessStep
  BY <1>6 DEF AnnotatorConsumes, ProcessStep, IoTypes, Goes
<1>7. ASSUME NEW a \in Aio, AnnotatorAnswers(a) PROVE ProcessStep
  BY <1>7 DEF AnnotatorAnswers, ProcessStep, IoTypes, Goes
<1>8. ASSUME NEW a \in Aio, AnnotatorCloses(a) PROVE ProcessStep
  BY <1>8 DEF AnnotatorCloses, ProcessStep, IoTypes, ProcStates, Goes, Hung
<1>9. ASSUME NEW a \in Aio, AnnotatorExits(a) PROVE ProcessStep
  <2>1. AProc(a) # Ratc
    BY DEF AProc, Ratc
  <2>2. wfd' \in [Aio -> SUBSET Holders] /\ \A c \in Aio : Ratc \in wfd'[c] <=> Ratc \in wfd[c]
    BY <1>9, <2>1, ReleaseKeepsRatc DEF AnnotatorExits
  <2> QED
    BY <1>9, <2>2 DEF AnnotatorExits, ProcessStep, IoTypes, ProcStates, Goes, Hung
<1> QED
  BY <1>1, <1>2, <1>3, <1>4, <1>5, <1>6, <1>7, <1>8, <1>9 DEF Process
-----------------------------------------------------------------------------
(* A process may do anything between two steps of the thread.              *)
LEMMA ProcessKeeps ==
  ASSUME IoInv, ProcessStep
  PROVE  IoInv'
<1> USE DEF IoInv, Base, ProcessStep, loopVars, listVars, heapVars
<1>0. /\ \A i \in Bio : procB[i] \in ProcStates /\ procB'[i] \in ProcStates
      /\ \A a \in Aio : procA[a] \in ProcStates /\ procA'[a] \in ProcStates
      /\ \A k \in DOMAIN bios : bios[k] \in Bio
      /\ \A k \in DOMAIN aios : aios[k] \in Aio
  BY DEF IoTypes
<1>1. /\ \A i \in Bio : /\ procB'[i] = "none" <=> procB[i] = "none"
                        /\ procB'[i] = "reaped" <=> procB[i] = "reaped"
                        /\ Hung(procB[i]) => Hung(procB'[i])
                        /\ procB[i] \in {"ending", "dead"} => procB'[i] \in {"ending", "dead"}
      /\ \A a \in Aio : /\ procA'[a] = "none" <=> procA[a] = "none"
                        /\ procA'[a] = "reaped" <=> procA[a] = "reaped"
                        /\ Hung(procA[a]) => Hung(procA'[a])
                        /\ procA[a] \in {"ending", "dead"} => procA'[a] \in {"ending", "dead"}
  BY <1>0 DEF Goes, Hung
<1>2. nBios' = nBios /\ nAios' = nAios
  BY <1>1 DEF nBios, nAios
<1>3. IoTypes' /\ Counted'
  BY <1>1, <1>2 DEF IoTypes, Counted
<1>4. ListsSorted'
  <2>1. /\ \A k \in DOMAIN bios : procB'[bios[k]] \notin {"none", "reaped"}
        /\ \A k \in DOMAIN aios : procA'[aios[k]] \notin {"none", "reaped"}
    BY <1>0, <1>1 DEF ListsSorted
  <2> QED
    BY <2>1 DEF ListsSorted
<1>5. BuffersHeld' /\ OwnersDiffer'
  BY DEF BuffersHeld, OwnersDiffer, Owns, FreePending, RunPending
<1>6. CancelledStopped'
  BY DEF CancelledStopped, Cancelled, FreePending, RunPending, CancelPending, Stopped, Abandoned,
         QuietB, QuietA, Sibling
<1>7. NewestReads' /\ ReadersHeld' /\ OrphansExplained'
  BY DEF NewestReads, ReadersHeld, OrphansExplained, Own, Abandoned, Sibling
<1>8. Generations' /\ WriteEnds' /\ Eofs'
  BY <1>1 DEF Generations, WriteEnds, Eofs, Own, Abandoned, QuietB
<1>9. EndedInv'
  BY <1>0, <1>1 DEF EndedInv
<1>10. Fallen'
  <2>1. \A a \in Aio : \A c \in 1..a-1 : c \in Aio
    BY ConstantsAssumption DEF Aio
  <2> QED
    BY <1>1, <2>1 DEF Fallen
<1>11. CallsFit'
  BY <1>2 DEF CallsFit, Subject, Alive, Annotates, FitsAfter, ToAnnotate, ToRun, ToReload, ToCancel, ToPop, ToFree
<1>12. ItemsInv'
  <2>1. ASSUME NEW it, ItemOpen(it) PROVE ItemOpen(it)'
    BY <1>0, <1>1, <2>1 DEF ItemOpen
  <2> QED
    BY <2>1 DEF ItemsInv
<1>13. PolledInv' /\ UndefinedInv'
  BY <1>2 DEF PolledInv, UndefinedInv, UndefinedOnlyInPrune
<1> QED
  BY <1>3, <1>4, <1>5, <1>6, <1>7, <1>8, <1>9, <1>10, <1>11, <1>12, <1>13
-----------------------------------------------------------------------------
(* The steps by which the thread only goes from one place to the next.     *)
LEMMA ReturnKeeps ==
  ASSUME IoInv, HandlerReturns
  PROVE  IoInv'
<1> USE DEF IoInv, HandlerReturns
<1>1. Base'
  BY SameBase DEF histVars
<1>2. CallsFit'
  BY SameCalls
<1>3. ItemsInv' /\ PolledInv' /\ UndefinedInv'
  BY DEF ItemsInv, PolledInv, UndefinedInv, listVars
<1> QED
  BY <1>1, <1>2, <1>3

(* A key is read when no call is left and the items are dropped.           *)
LEMMA KeyKeeps ==
  ASSUME IoInv, PollKey
  PROVE  IoInv'
<1> USE DEF IoInv, PollKey
<1>1. Base'
  BY SameBase
<1>2. CallsFit'
  BY SameCalls DEF CallsFit
<1>3. ItemsInv' /\ PolledInv' /\ UndefinedInv'
  BY DEF ItemsInv, PolledInv, UndefinedInv
<1> QED
  BY <1>1, <1>2, <1>3

(* The tick goes on to prune when the last item is handled.                *)
LEMMA ItemsDoneKeeps ==
  ASSUME IoInv, ItemsDone
  PROVE  IoInv'
<1> USE DEF IoInv, ItemsDone
<1>1. Base'
  BY SameBase DEF histVars
<1>2. CallsFit'
  BY SameCalls DEF CallsFit
<1>3. ItemsInv' /\ PolledInv' /\ UndefinedInv'
  BY DEF ItemsInv, PolledInv, UndefinedInv
<1> QED
  BY <1>1, <1>2, <1>3

(* ratc comes to an end: undefined behaviour must be explained.            *)
LEMMA EndKeeps ==
  ASSUME IoInv, NEW how, Ends(how),
         how = "undefined" => calls = <<>> /\ (nAios <= 1 =>
           \/ \E k \in 1..Len(bios)-1 : bio[bios[k]].rdone /\ bio[bios[k+1]].rdone
           \/ \E p \in Pager : pager[p].state = "abandoned")
  PROVE  IoInv'
<1> USE DEF IoInv, Ends
<1>1. Base'
  BY SameBase DEF histVars
<1>2. CallsFit'
  BY SameCalls
<1>3. nAios' = nAios
  BY DEF nAios, procVars
<1>4. ItemsInv' /\ PolledInv' /\ UndefinedInv'
  BY <1>3 DEF ItemsInv, PolledInv, UndefinedInv, UndefinedOnlyInPrune, listVars, heapVars
<1> QED
  BY <1>1, <1>2, <1>4
-----------------------------------------------------------------------------
CallRec == [op : {"cancel", "run", "annotate", "free"}, pager : Pager]
PagerRec == [state : {"none", "stacked", "popped", "revived", "freed", "abandoned"},
             buffer : Addr \cup {NULL}, annotators : Nat]

(* What a key handler asks for: one pager changes its state, and calls are *)
(* planned that it is the subject of.                                      *)
LEMMA AskKeeps ==
  ASSUME IoInv, phase \in {"script", "keys"}, calls = <<>>,
         UNCHANGED <<phase, status, items, listVars, buf, procVars, born>>,
         NEW p \in Pager, pager[p].state \in Usable \cup {"none"},
         pager' \in [Pager -> PagerRec], pager'[p].buffer = pager[p].buffer,
         pager'[p].state # "none",
         \A q \in Pager \ {p} : pager'[q] = pager[q],
         calls' \in Seq(CallRec), CallsFit',
         \A q \in Pager : Owns(q)' => Owns(q) \/ (pager[q].state = "none" /\ RunPending(q)'),
         \A q \in Pager : Cancelled(q)' => Cancelled(q) \/ pager[q].buffer = NULL
  PROVE  IoInv'
<1> USE DEF IoInv, Base, listVars, procVars
<1>0. nBios' = nBios /\ nAios' = nAios
  BY DEF nBios, nAios
<1>1. \A q \in Pager : pager'[q].buffer = pager[q].buffer
  OBVIOUS
<1>2. \A b : Abandoned(b) => Abandoned(b)'
  BY <1>1 DEF Abandoned, Usable
<1>3. IoTypes' /\ Counted' /\ ListsSorted'
  BY <1>0 DEF IoTypes, Counted, ListsSorted, CallRec, PagerRec
<1>4. \A q \in Pager : Owns(q)' =>
        \/ pager[q].buffer = NULL /\ RunPending(q)'
        \/ pager[q].buffer \in Addr /\ buf[pager[q].buffer].live /\ Owns(q)
  BY DEF BuffersHeld, RunPending
<1>5. BuffersHeld'
  BY <1>1, <1>4 DEF BuffersHeld
<1>6. OwnersDiffer'
  BY <1>1, <1>4, ConstantsAssumption DEF OwnersDiffer
<1>7. \A b : Stopped(b) => Stopped(b)'
  BY <1>2 DEF Stopped, QuietB, QuietA, Sibling
<1>8. CancelledStopped'
  BY <1>1, <1>7 DEF CancelledStopped
<1>9. NewestReads' /\ ReadersHeld'
  BY <1>2 DEF NewestReads, ReadersHeld
<1>10. OrphansExplained' /\ Generations' /\ WriteEnds'
  BY <1>2 DEF OrphansExplained, Own, Sibling, Generations, WriteEnds
<1>11. Eofs'
  BY <1>2 DEF Eofs, Own, QuietB
<1>12. EndedInv' /\ Fallen'
  BY DEF EndedInv, Fallen
<1>13. ItemsInv' /\ PolledInv' /\ UndefinedInv'
  BY DEF ItemsInv, PolledInv, UndefinedInv
<1> QED
  BY <1>3, <1>5, <1>6, <1>8, <1>9, <1>10, <1>11, <1>12, <1>13

(* The counts depend on the processes alone.                               *)
LEMMA SameCounts ==
  ASSUME IoInv, UNCHANGED <<procB, procA>>
  PROVE  nBios' = nBios /\ nAios' = nAios /\ nAios \in Nat /\ nAios <= MaxAios
<1>1. nBios' = nBios /\ nAios' = nAios
  BY DEF nBios, nAios
<1>2. nAios \in 0..MaxAios
  BY DEF IoInv, Base, Counted
<1> QED
  BY <1>1, <1>2, ConstantsAssumption

(* Two calls followed by n equal ones, as Reload plans them.               *)
LEMMA Repeated ==
  ASSUME NEW S, NEW c \in S, NEW d \in S, NEW e \in S, NEW n \in Nat,
         NEW s, s = <<d, e>> \o [k \in 1..n |-> c]
  PROVE  /\ s \in Seq(S) /\ Len(s) = n + 2 /\ s[1] = d /\ s[2] = e
         /\ \A k \in 3..n+2 : s[k] = c
<1> DEFINE more == [k \in 1..n |-> c]
<1>1. more \in Seq(S) /\ Len(more) = n /\ \A k \in 1..n : more[k] = c
  OBVIOUS
<1> HIDE DEF more
<1>2. <<d, e>> \in Seq(S) /\ Len(<<d, e>>) = 2
  OBVIOUS
<1>3. <<d, e>> \o more \in Seq(S) /\ Len(<<d, e>> \o more) = n + 2
  BY <1>1, <1>2, ConcatProperties
<1>4. \A k \in 1..n+2 : (<<d, e>> \o more)[k] = IF k <= 2 THEN <<d, e>>[k] ELSE more[k-2]
  BY <1>1, <1>2, ConcatProperties
<1>5. \A k \in 3..n+2 : k - 2 \in 1..n /\ k \in 1..n+2 /\ ~(k <= 2)
  OBVIOUS
<1>6. s = <<d, e>> \o more
  BY DEF more
<1>7. s \in Seq(S) /\ Len(s) = n + 2
  BY <1>3, <1>6
<1>8. 1 \in 1..n+2 /\ 2 \in 1..n+2
  OBVIOUS
<1>9. s[1] = d /\ s[2] = e
  BY <1>4, <1>6, <1>8
<1>10. \A k \in 3..n+2 : s[k] = more[k-2]
  BY <1>4, <1>5, <1>6
<1> QED
  BY <1>1, <1>5, <1>7, <1>9, <1>10

(* A new pager takes the next number, and its run is planned.              *)
LEMMA NewPagerKeeps ==
  ASSUME IoInv, NEW p \in Pager, NewPager(p)
  PROVE  IoInv'
<1> USE DEF NewPager, Asking
<1>1. calls' = <<Call("run", p)>> /\ calls' # <<>> /\ Len(calls') = 1 /\ calls'[1] = Call("run", p)
  OBVIOUS
<1>2. calls' \in Seq(CallRec)
  BY <1>1 DEF Call, CallRec
<1>3. IoTypes /\ pager' \in [Pager -> PagerRec] /\ pager'[p].buffer = pager[p].buffer
      /\ pager'[p].state = "stacked" /\ \A q \in Pager \ {p} : pager'[q] = pager[q]
  BY DEF IoInv, Base, IoTypes, PagerRec
<1>4. nBios' = nBios /\ nAios' = nAios /\ nBios < MaxBios /\ nAios \in Nat /\ nAios <= MaxAios
  BY SameCounts DEF procVars
<1>5. CallsFit'
  <2>1. ToRun'
    BY <1>1, <1>3, <1>4 DEF ToRun, Alive, FitsAfter, Annotates, Subject, Call
  <2>2. \A k \in DOMAIN calls' : calls'[k].pager = Subject'
    BY <1>1 DEF Subject
  <2> QED
    BY <2>1, <2>2 DEF CallsFit
<1>6. \A q \in Pager : Owns(q)' => Owns(q) \/ (pager[q].state = "none" /\ RunPending(q)')
  BY <1>1, <1>3 DEF Owns, RunPending, FreePending, Call
<1>7. \A q \in Pager : Cancelled(q)' => Cancelled(q) \/ pager[q].buffer = NULL
  <2>1. pager[p].buffer = NULL
    BY DEF IoInv, Base, BuffersHeld
  <2> QED
    BY <1>1, <1>3, <2>1 DEF Cancelled, RunPending, FreePending, CancelPending, Call
<1> QED
  BY <1>1, <1>2, <1>3, <1>5, <1>6, <1>7, AskKeeps

(* An annotator that is added is started next.                             *)
LEMMA AddAnnotatorKeeps ==
  ASSUME IoInv, NEW p \in Pager, AddAnnotator(p)
  PROVE  IoInv'
<1>0. IoTypes
  BY DEF IoInv, Base
<1>a. /\ phase \in {"script", "keys"} /\ calls = <<>> /\ pager[p].state \in Usable
      /\ nAios < MaxAios /\ calls' = <<Call("annotate", p)>>
      /\ UNCHANGED <<phase, status, items, listVars, buf, procVars, born>>
  BY DEF AddAnnotator, Asking
<1>1. calls' = <<Call("annotate", p)>> /\ calls' # <<>> /\ Len(calls') = 1
      /\ calls'[1] = Call("annotate", p)
  BY <1>a
<1>2. calls' \in Seq(CallRec)
  BY <1>1 DEF Call, CallRec
<1>3. IoTypes /\ pager' \in [Pager -> PagerRec] /\ pager'[p].buffer = pager[p].buffer
      /\ pager'[p].state \in {"stacked", "revived"} /\ \A q \in Pager \ {p} : pager'[q] = pager[q]
  <2>1. pager' = [pager EXCEPT ![p] = [pager[p] EXCEPT !.annotators = @ + 1, !.state = Used(@)]]
    BY <1>0 DEF AddAnnotator, IoTypes
  <2>2. Used(pager[p].state) \in {"stacked", "revived"}
    BY DEF Used
  <2>3. pager \in [Pager -> PagerRec] /\ pager[p] \in PagerRec
    BY <1>0 DEF IoTypes, PagerRec
  <2> DEFINE r == [pager[p] EXCEPT !.annotators = @ + 1, !.state = Used(@)]
  <2>4. r \in PagerRec /\ r.buffer = pager[p].buffer /\ r.state \in {"stacked", "revived"}
    <3>1. pager[p].annotators + 1 \in Nat /\ pager[p].buffer \in Addr \cup {NULL}
      BY <2>3 DEF PagerRec
    <3> DEFINE more == [pager[p] EXCEPT !.annotators = @ + 1]
    <3>2. more \in PagerRec /\ more.buffer = pager[p].buffer /\ more.state = pager[p].state
      BY <2>3, <3>1 DEF PagerRec
    <3>3. r = [more EXCEPT !.state = Used(@)]
      BY <2>3 DEF PagerRec
    <3> HIDE DEF more, r
    <3> QED
      BY <2>2, <3>2, <3>3 DEF PagerRec
  <2> HIDE DEF r
  <2>5. pager' \in [Pager -> PagerRec] /\ pager'[p] = r /\ \A q \in Pager \ {p} : pager'[q] = pager[q]
    BY <2>1, <2>3, <2>4 DEF r
  <2> QED
    BY <1>0, <2>4, <2>5
<1>4. nBios' = nBios /\ nAios' = nAios /\ nAios < MaxAios /\ nAios \in Nat
  BY <1>a, SameCounts DEF procVars
<1>5. CallsFit'
  <2>1. ToAnnotate'
    BY <1>1, <1>3, <1>4, ConstantsAssumption DEF ToAnnotate, Alive, FitsAfter, Annotates, Subject, Call
  <2>2. \A k \in DOMAIN calls' : calls'[k].pager = Subject'
    BY <1>1 DEF Subject
  <2> QED
    BY <1>a, <2>1, <2>2 DEF CallsFit
<1>6. \A q \in Pager : Owns(q)' => Owns(q) \/ (pager[q].state = "none" /\ RunPending(q)')
  BY <1>a, <1>1, <1>3 DEF Owns, RunPending, FreePending, Call
<1>7. \A q \in Pager : Cancelled(q)' => Cancelled(q) \/ pager[q].buffer = NULL
  BY <1>a, <1>1, <1>3 DEF Cancelled, RunPending, FreePending, CancelPending, Call
<1> QED
  BY <1>a, <1>2, <1>3, <1>5, <1>6, <1>7, AskKeeps

(* A reload plans to cancel, then to run, then to annotate again.          *)
LEMMA ReloadKeeps ==
  ASSUME IoInv, NEW p \in Pager, Reload(p)
  PROVE  IoInv'
<1> DEFINE n == pager[p].annotators
<1>0. IoTypes
  BY DEF IoInv, Base
<1>1. n \in Nat
  BY <1>0 DEF IoTypes
<1>2. Call("annotate", p) \in CallRec /\ Call("cancel", p) \in CallRec /\ Call("run", p) \in CallRec
  BY DEF Call, CallRec
<1>3. /\ phase \in {"script", "keys"} /\ calls = <<>> /\ pager[p].state \in Usable
      /\ nBios < MaxBios /\ nAios + n <= MaxAios
      /\ pager' = [pager EXCEPT ![p].state = Used(@)]
      /\ UNCHANGED <<phase, status, items, listVars, buf, procVars, born>>
  BY DEF Reload, Asking
<1>4. calls' = <<Call("cancel", p), Call("run", p)>> \o [k \in 1..n |-> Call("annotate", p)]
  BY DEF Reload
<1> HIDE DEF n
<1>5. calls' \in Seq(CallRec) /\ Len(calls') = n + 2 /\ calls'[1] = Call("cancel", p)
      /\ calls'[2] = Call("run", p) /\ \A k \in 3..n+2 : calls'[k] = Call("annotate", p)
  BY <1>1, <1>2, <1>4, Repeated
<1>6. calls' # <<>> /\ calls'[Len(calls')].op # "free" /\ \A k \in DOMAIN calls' : calls'[k].pager = p
  <2>1. Len(calls') \in 2..n+2 /\ DOMAIN calls' = 1..n+2
    BY <1>1, <1>5
  <2>2. \A k \in 1..n+2 : calls'[k] \in {Call("cancel", p), Call("run", p), Call("annotate", p)}
    BY <1>1, <1>5
  <2> QED
    BY <1>1, <1>5, <2>1, <2>2 DEF Call
<1>7. IoTypes /\ pager' \in [Pager -> PagerRec] /\ pager'[p].buffer = pager[p].buffer
      /\ pager'[p].state \in {"stacked", "revived"} /\ \A q \in Pager \ {p} : pager'[q] = pager[q]
  BY <1>0, <1>3 DEF IoTypes, PagerRec, Used
<1>8. nBios' = nBios /\ nAios' = nAios /\ nBios < MaxBios /\ nAios \in Nat /\ nAios + n <= MaxAios
  BY <1>3, SameCounts DEF procVars
<1>9. CallsFit'
  <2>1. Annotates(3)' /\ nAios' + Len(calls') - 3 + 1 <= MaxAios /\ Subject' = p
    BY <1>1, <1>5, <1>6, <1>8, ConstantsAssumption DEF Annotates, Call, Subject
  <2>2. ToReload'
    BY <1>1, <1>5, <1>7, <1>8, <2>1 DEF ToReload, Alive, FitsAfter, Call
  <2>3. \A k \in DOMAIN calls' : calls'[k].pager = Subject'
    BY <1>6, <2>1
  <2> QED
    BY <1>3, <2>2, <2>3 DEF CallsFit
<1>10. \A q \in Pager : Owns(q)' => Owns(q) \/ (pager[q].state = "none" /\ RunPending(q)')
  BY <1>3, <1>6, <1>7 DEF Owns, FreePending, Call
<1>11. \A q \in Pager : Cancelled(q)' => Cancelled(q) \/ pager[q].buffer = NULL
  BY <1>3, <1>5, <1>6, <1>7 DEF Cancelled, RunPending, FreePending, CancelPending, Call
<1> QED
  BY <1>3, <1>5, <1>7, <1>9, <1>10, <1>11, AskKeeps

(* A pop plans to cancel, and to free if nobody holds the pager.           *)
LEMMA PopPagerKeeps ==
  ASSUME IoInv, NEW p \in Pager, PopPager(p)
  PROVE  IoInv'
<1> USE DEF PopPager, Asking
<1>1. PICK held \in BOOLEAN :
        /\ pager' = [pager EXCEPT ![p].state = IF held THEN "popped" ELSE "freed"]
        /\ calls' = <<Call("cancel", p)>> \o (IF held THEN <<>> ELSE <<Call("free", p)>>)
  OBVIOUS
<1>2. Call("cancel", p) \in CallRec /\ Call("free", p) \in CallRec
  BY DEF Call, CallRec
<1>3. /\ calls' \in Seq(CallRec) /\ calls' # <<>> /\ calls'[1] = Call("cancel", p)
      /\ held => Len(calls') = 1
      /\ ~held => Len(calls') = 2 /\ calls'[2] = Call("free", p)
  BY <1>1, <1>2
<1>4. IoTypes /\ pager' \in [Pager -> PagerRec] /\ pager'[p].buffer = pager[p].buffer
      /\ pager'[p].state = (IF held THEN "popped" ELSE "freed")
      /\ \A q \in Pager \ {p} : pager'[q] = pager[q]
  <2>1. IoTypes /\ pager \in [Pager -> PagerRec]
    BY DEF IoInv, Base, IoTypes, PagerRec
  <2> DEFINE state == IF held THEN "popped" ELSE "freed"
  <2>2. pager[p] \in PagerRec /\ state \in {"popped", "freed"}
    BY <2>1
  <2>3. pager' = [pager EXCEPT ![p].state = state]
    BY <1>1
  <2> HIDE DEF state
  <2>4. pager' = [pager EXCEPT ![p] = [pager[p] EXCEPT !.state = state]]
    BY <2>3, Zenon
  <2>5. /\ [pager[p] EXCEPT !.state = state] \in PagerRec
        /\ [pager[p] EXCEPT !.state = state].state = state
        /\ [pager[p] EXCEPT !.state = state].buffer = pager[p].buffer
    BY <2>2 DEF PagerRec
  <2>6. /\ pager' \in [Pager -> PagerRec] /\ pager'[p] = [pager[p] EXCEPT !.state = state]
        /\ \A q \in Pager \ {p} : pager'[q] = pager[q]
    BY <2>1, <2>4, <2>5
  <2> QED
    BY <2>1, <2>5, <2>6 DEF state
<1>5. CallsFit'
  <2>1. Subject' = p /\ \A k \in DOMAIN calls' : calls'[k].pager = p
    BY <1>3 DEF Subject, Call
  <2>2. ToCancel' \/ ToPop'
    BY <1>3, <1>4, <2>1 DEF ToCancel, ToPop, Call
  <2> QED
    BY <2>1, <2>2 DEF CallsFit
<1>6. \A q \in Pager : Owns(q)' => Owns(q) \/ (pager[q].state = "none" /\ RunPending(q)')
  BY <1>3, <1>4 DEF Owns, FreePending, Call, Usable
<1>7. \A q \in Pager : Cancelled(q)' => Cancelled(q) \/ pager[q].buffer = NULL
  BY <1>3, <1>4 DEF Cancelled, RunPending, FreePending, CancelPending, Call
<1> QED
  BY <1>3, <1>4, <1>5, <1>6, <1>7, AskKeeps DEF Usable

(* A collected pager is freed; it was cancelled when it was popped, or it  *)
(* was revived since and is abandoned now.                                 *)
LEMMA CollectPagerKeeps ==
  ASSUME IoInv, NEW p \in Pager, CollectPager(p)
  PROVE  IoInv'
<1> USE DEF CollectPager, Asking
<1>1. calls' = <<Call("free", p)>> /\ calls' # <<>> /\ Len(calls') = 1 /\ calls'[1] = Call("free", p)
  OBVIOUS
<1>2. calls' \in Seq(CallRec)
  BY <1>1 DEF Call, CallRec
<1>3. IoTypes /\ pager' \in [Pager -> PagerRec] /\ pager'[p].buffer = pager[p].buffer
      /\ pager'[p].state \in {"freed", "abandoned"}
      /\ (pager'[p].state = "freed" => pager[p].state = "popped")
      /\ \A q \in Pager \ {p} : pager'[q] = pager[q]
  BY DEF IoInv, Base, IoTypes, PagerRec
<1>4. CallsFit'
  <2>1. ToFree'
    BY <1>1, <1>3 DEF ToFree, Subject, Call
  <2>2. \A k \in DOMAIN calls' : calls'[k].pager = Subject'
    BY <1>1 DEF Subject
  <2> QED
    BY <2>1, <2>2 DEF CallsFit
<1>5. \A q \in Pager : Owns(q)' => Owns(q) \/ (pager[q].state = "none" /\ RunPending(q)')
  BY <1>1, <1>3 DEF Owns, FreePending, Call, Usable
<1>6. \A q \in Pager : Cancelled(q)' => Cancelled(q) \/ pager[q].buffer = NULL
  BY <1>1, <1>3 DEF Cancelled, RunPending, FreePending, CancelPending, Call
<1> QED
  BY <1>1, <1>2, <1>3, <1>4, <1>5, <1>6, AskKeeps DEF Usable
-----------------------------------------------------------------------------
(* What making a call leaves of the plan.                                  *)
LEMMA CallMade ==
  ASSUME calls \in Seq(CallRec), calls # <<>>, calls' = Tail(calls)
  PROVE  /\ calls' \in Seq(CallRec) /\ Len(calls) \in Nat \ {0} /\ Len(calls') = Len(calls) - 1
         /\ \A k \in 1..Len(calls') : calls'[k] = calls[k+1]
         /\ calls' # <<>> => /\ Len(calls') >= 1 /\ calls'[1] = calls[2]
                             /\ calls'[Len(calls')] = calls[Len(calls)]
         /\ Len(calls) >= 2 => calls' # <<>>
<1>1. /\ calls' \in Seq(CallRec) /\ Len(calls) \in Nat \ {0} /\ Len(calls') = Len(calls) - 1
      /\ \A k \in 1..Len(calls') : calls'[k] = calls[k+1]
  BY HeadTailProperties, EmptySeq
<1>2. (calls' # <<>> => Len(calls') >= 1) /\ (Len(calls') >= 1 => calls' # <<>>)
  BY <1>1
<1>3. Len(calls') >= 1 => calls'[1] = calls[2] /\ calls'[Len(calls')] = calls[Len(calls)]
  BY <1>1
<1> QED
  BY <1>1, <1>2, <1>3

(* The first of the planned calls, and what may follow it.                 *)
LEMMA TheCall ==
  ASSUME IoInv, NEW op, NEW p \in Pager, Calling(op, p)
  PROVE  /\ calls \in Seq(CallRec) /\ calls # <<>> /\ calls[1] = Call(op, p)
         /\ calls[1].op = op /\ Subject = p /\ phase \notin {"poll", "items", "prune"}
         /\ status # "undefined"
         /\ \A k \in DOMAIN calls : calls[k].pager = p
         /\ ToAnnotate \/ ToRun \/ ToReload \/ ToCancel \/ ToPop \/ ToFree
         /\ \A q \in Pager : FreePending(q) => q = p /\ calls[Len(calls)].op = "free"
         /\ \A q \in Pager : RunPending(q) \/ CancelPending(q) => q = p
<1>1. calls \in Seq(CallRec) /\ calls # <<>>
  BY DEF Calling, IoInv, Base, IoTypes, CallRec
<1>2. calls[1] = Call(op, p)
  BY <1>1 DEF Calling
<1>3. calls[1].op = op /\ Subject = p
  BY <1>2 DEF Call, Subject
<1>4. \A q \in Pager : FreePending(q) => q = p /\ calls[Len(calls)].op = "free"
  <2>1. Len(calls) \in DOMAIN calls
    BY <1>1
  <2> QED
    BY <1>1, <1>3, <2>1 DEF FreePending, Call, IoInv, CallsFit
<1>5. \A q \in Pager : RunPending(q) \/ CancelPending(q) => q = p
  BY <1>2 DEF RunPending, CancelPending, Call
<1> QED
  BY <1>1, <1>2, <1>3, <1>4, <1>5 DEF IoInv, CallsFit, UndefinedInv

(* The buffer of a pager that is cancelled.                                *)
LEMMA CancelSubject ==
  ASSUME IoInv, NEW p \in Pager, Calling("cancel", p)
  PROVE  /\ ToReload \/ ToCancel \/ ToPop
         /\ pager[p].buffer \in Addr /\ buf[pager[p].buffer].live
<1>1. ToReload \/ ToCancel \/ ToPop
  BY TheCall DEF ToAnnotate, ToRun, ToFree
<1>2. Owns(p)
  <2>1. CASE ToReload \/ ToCancel
    BY <2>1, TheCall DEF ToReload, ToCancel, Alive, Owns, Usable
  <2>2. CASE ToPop
    <3>1. calls[2] = Call("free", p)
      <4>1. calls \in Seq(CallRec) /\ 2 \in DOMAIN calls /\ calls[2].op = "free" /\ calls[2].pager = p
        BY <2>2, TheCall DEF ToPop
      <4>2. calls[2] \in CallRec
        BY <4>1
      <4> QED
        BY <4>1, <4>2 DEF Call, CallRec
    <3> QED
      BY <2>2, <3>1, TheCall DEF ToPop, Owns, FreePending
  <2> QED
    BY <1>1, <2>1, <2>2
<1>3. ~RunPending(p)
  <2>1. Call("run", p).op = "run"
    BY Zenon DEF Call
  <2>2. Call("run", p).op # "cancel"
    BY <2>1
  <2> QED
    BY <2>2, TheCall DEF RunPending
<1> QED
  BY <1>1, <1>2, <1>3 DEF IoInv, Base, BuffersHeld

(* What cancelling does to the entries and the processes of both lists.    *)
CancelStep(b) ==
  /\ bio' \in [Bio -> [buffer : Addr \cup {NULL}, rdone : BOOLEAN]]
  /\ aio' \in [Aio -> [buffer : Addr \cup {NULL}, woffset : Int, wdone : BOOLEAN, rdone : BOOLEAN]]
  /\ procB' \in [Bio -> ProcStates] /\ procA' \in [Aio -> ProcStates]
  /\ \A i \in Bio :
       /\ bio'[i].buffer = bio[i].buffer /\ (bio[i].rdone => bio'[i].rdone)
       /\ bio'[i].rdone /\ ~bio[i].rdone => i \in CancelledCommands(b)
       /\ i \in CancelledCommands(b) => bio'[i].rdone
       /\ procB'[i] = IF i \in CancelledCommands(b) THEN Terminate(procB[i]) ELSE procB[i]
  /\ \A a \in Aio :
       /\ aio'[a].buffer = aio[a].buffer /\ aio'[a].woffset = aio[a].woffset
       /\ (aio[a].rdone => aio'[a].rdone) /\ (aio[a].wdone => aio'[a].wdone)
       /\ aio'[a].rdone /\ ~aio[a].rdone => a \in CancelledAnnotators(b)
       /\ a \in CancelledAnnotators(b) => aio'[a].rdone /\ aio'[a].wdone
       /\ procA'[a] = IF a \in CancelledAnnotators(b) THEN Terminate(procA[a]) ELSE procA[a]

(* Cancelling finishes the first entry for the buffer in each list, if it  *)
(* was not finished, and nothing else.                                     *)
LEMMA CancelEffect ==
  ASSUME IoTypes, NEW b, NEW is, NEW as,
         is = CancelledCommands(b), as = CancelledAnnotators(b),
         bio' = [i \in Bio |-> [bio[i] EXCEPT !.rdone = @ \/ i \in is]],
         aio' = [a \in Aio |-> [aio[a] EXCEPT !.wdone = @ \/ a \in as, !.rdone = @ \/ a \in as]],
         procB' = [i \in Bio |-> IF i \in is THEN Terminate(procB[i]) ELSE procB[i]],
         procA' = [a \in Aio |-> IF a \in as THEN Terminate(procA[a]) ELSE procA[a]]
  PROVE  CancelStep(b)
<1>1. \A i \in Bio : bio[i] \in [buffer : Addr \cup {NULL}, rdone : BOOLEAN]
  BY DEF IoTypes
<1>2. \A a \in Aio : aio[a] \in [buffer : Addr \cup {NULL}, woffset : Int, wdone : BOOLEAN, rdone : BOOLEAN]
  BY DEF IoTypes
<1>3. \A i \in Bio : /\ bio'[i].buffer = bio[i].buffer
                     /\ bio'[i].rdone = (bio[i].rdone \/ i \in is)
                     /\ bio'[i] \in [buffer : Addr \cup {NULL}, rdone : BOOLEAN]
  BY <1>1
<1>4. \A a \in Aio : /\ aio'[a].buffer = aio[a].buffer /\ aio'[a].woffset = aio[a].woffset
                     /\ aio'[a].rdone = (aio[a].rdone \/ a \in as)
                     /\ aio'[a].wdone = (aio[a].wdone \/ a \in as)
                     /\ aio'[a] \in [buffer : Addr \cup {NULL}, woffset : Int, wdone : BOOLEAN, rdone : BOOLEAN]
  BY <1>2
<1>5. bio' \in [Bio -> [buffer : Addr \cup {NULL}, rdone : BOOLEAN]]
  BY <1>3
<1>6. aio' \in [Aio -> [buffer : Addr \cup {NULL}, woffset : Int, wdone : BOOLEAN, rdone : BOOLEAN]]
  BY <1>4
<1>7. /\ procB' \in [Bio -> ProcStates] /\ procA' \in [Aio -> ProcStates]
      /\ \A i \in Bio : procB'[i] = IF i \in is THEN Terminate(procB[i]) ELSE procB[i]
      /\ \A a \in Aio : procA'[a] = IF a \in as THEN Terminate(procA[a]) ELSE procA[a]
  BY DEF IoTypes, ProcStates, Terminate, Gone
<1>8. \A i \in Bio :
        /\ bio'[i].buffer = bio[i].buffer /\ (bio[i].rdone => bio'[i].rdone)
        /\ bio'[i].rdone /\ ~bio[i].rdone => i \in CancelledCommands(b)
        /\ i \in CancelledCommands(b) => bio'[i].rdone
  BY <1>3, Zenon
<1>9. \A a \in Aio :
        /\ aio'[a].buffer = aio[a].buffer /\ aio'[a].woffset = aio[a].woffset
        /\ (aio[a].rdone => aio'[a].rdone) /\ (aio[a].wdone => aio'[a].wdone)
        /\ aio'[a].rdone /\ ~aio[a].rdone => a \in CancelledAnnotators(b)
        /\ a \in CancelledAnnotators(b) => aio'[a].rdone /\ aio'[a].wdone
  BY <1>4, Zenon
<1> QED
  BY <1>5, <1>6, <1>7, <1>8, <1>9, Zenon DEF CancelStep

(* What is cancelled is listed, and is the first entry for the buffer.     *)
LEMMA CancelledListed ==
  ASSUME IoInv, NEW b
  PROVE  /\ \A i \in CancelledCommands(b) : \E k \in DOMAIN bios : bios[k] = i
         /\ \A a \in CancelledAnnotators(b) : \E k \in DOMAIN aios : aios[k] = a
         /\ \A k \in DOMAIN bios : bio[bios[k]].buffer = b =>
              \/ bio[bios[k]].rdone \/ bios[k] \in CancelledCommands(b)
              \/ \E j \in DOMAIN bios : j < k /\ bio[bios[j]].buffer = b
         /\ \A k \in DOMAIN aios : aio[aios[k]].buffer = b =>
              \/ aio[aios[k]].rdone \/ aios[k] \in CancelledAnnotators(b)
              \/ \E j \in DOMAIN aios : /\ j < k /\ aio[aios[j]].buffer = b
                                        /\ aio[aios[j]].rdone \/ aios[j] \in CancelledAnnotators(b)
<1>0. /\ bios \in Seq(Bio) /\ aios \in Seq(Aio)
      /\ DOMAIN bios = 1..Len(bios) /\ DOMAIN aios = 1..Len(aios)
      /\ \A k \in DOMAIN bios : bios[k] \in Bio
      /\ \A k \in DOMAIN aios : aios[k] \in Aio
  BY DEF IoInv, Base, IoTypes
<1>1. CancelledCommands(b) =
        {i \in Bio : FirstBio(b) # 0 /\ i = bios[FirstBio(b)] /\ ~bio[i].rdone}
  BY DEF CancelledCommands, FirstBio
<1>2. CancelledAnnotators(b) =
        {a \in Aio : FirstAio(b) # 0 /\ a = aios[FirstAio(b)] /\ ~aio[a].rdone}
  BY DEF CancelledAnnotators, FirstAio
<1>3. \/ FirstBio(b) = 0 /\ \A j \in DOMAIN bios : bio[bios[j]].buffer # b
      \/ /\ FirstBio(b) \in DOMAIN bios /\ bio[bios[FirstBio(b)]].buffer = b
         /\ \A j \in DOMAIN bios : j < FirstBio(b) => bio[bios[j]].buffer # b
  BY <1>0, FirstBioIs
<1>4. \/ FirstAio(b) = 0 /\ \A j \in DOMAIN aios : aio[aios[j]].buffer # b
      \/ /\ FirstAio(b) \in DOMAIN aios /\ aio[aios[FirstAio(b)]].buffer = b
         /\ \A j \in DOMAIN aios : j < FirstAio(b) => aio[aios[j]].buffer # b
  BY <1>0, FirstAioIs
<1>5. /\ \A i \in CancelledCommands(b) : \E k \in DOMAIN bios : bios[k] = i
      /\ \A a \in CancelledAnnotators(b) : \E k \in DOMAIN aios : aios[k] = a
  BY <1>1, <1>2, <1>3, <1>4
<1>6. ASSUME NEW k \in DOMAIN bios, bio[bios[k]].buffer = b, ~bio[bios[k]].rdone,
             bios[k] \notin CancelledCommands(b)
      PROVE  \E j \in DOMAIN bios : j < k /\ bio[bios[j]].buffer = b
  <2>1. FirstBio(b) \in DOMAIN bios /\ FirstBio(b) # 0 /\ FirstBio(b) <= k
    BY <1>0, <1>3, <1>6
  <2>2. FirstBio(b) # k
    BY <1>0, <1>1, <1>6, <2>1
  <2>3. FirstBio(b) < k
    BY <1>0, <2>1, <2>2
  <2> QED
    BY <1>3, <1>6, <2>1, <2>3
<1>7. ASSUME NEW k \in DOMAIN aios, aio[aios[k]].buffer = b, ~aio[aios[k]].rdone,
             aios[k] \notin CancelledAnnotators(b)
      PROVE  \E j \in DOMAIN aios : /\ j < k /\ aio[aios[j]].buffer = b
                                    /\ aio[aios[j]].rdone \/ aios[j] \in CancelledAnnotators(b)
  <2>1. FirstAio(b) \in DOMAIN aios /\ FirstAio(b) # 0 /\ FirstAio(b) <= k
    BY <1>0, <1>4, <1>7
  <2>2. FirstAio(b) # k
    BY <1>0, <1>2, <1>7, <2>1
  <2>3. FirstAio(b) < k
    BY <1>0, <2>1, <2>2
  <2>4. aio[aios[FirstAio(b)]].rdone \/ aios[FirstAio(b)] \in CancelledAnnotators(b)
    BY <1>0, <1>2, <2>1
  <2> QED
    BY <1>4, <1>7, <2>1, <2>3, <2>4
<1> QED
  BY <1>5, <1>6, <1>7

(* Cancelling stops the buffer, up to what a newer sibling hides.          *)
LEMMA CancelStops ==
  ASSUME IoInv, NEW p \in Pager, Calling("cancel", p), CancelStep(pager[p].buffer),
         UNCHANGED <<bios, aios, pager, born>>
  PROVE  Stopped(pager[p].buffer)'
<1> DEFINE b == pager[p].buffer
<1>1. b' = b /\ b \in Addr
  BY CancelSubject
<1>0. /\ \A k \in DOMAIN bios : bios[k] \in Bio
      /\ \A k \in DOMAIN aios : aios[k] \in Aio
      /\ \A a \in Aio : born[a] \in Nat
  BY DEF IoInv, Base, IoTypes
<1>2. CASE Abandoned(b)
  BY <1>1, <1>2 DEF Stopped, Abandoned
<1>3. CASE ~Abandoned(b)
  <2>1. QuietB(b)'
    <3> SUFFICES ASSUME NEW k \in DOMAIN bios, bio[bios[k]].buffer = b PROVE bio'[bios[k]].rdone
      BY <1>0, <1>1 DEF QuietB, CancelStep
    <3>1. CASE \E j \in DOMAIN bios : j < k /\ bio[bios[j]].buffer = b
      <4>1. bio[bios[k]].rdone
        BY <1>3, <3>1 DEF IoInv, Base, NewestReads
      <4> QED
        BY <1>0, <4>1 DEF CancelStep
    <3>2. CASE bio[bios[k]].rdone \/ bios[k] \in CancelledCommands(b)
      BY <1>0, <3>2 DEF CancelStep
    <3> QED
      BY <3>1, <3>2, CancelledListed
  <2>2. QuietA(b)'
    <3> SUFFICES ASSUME NEW k \in DOMAIN aios, aio[aios[k]].buffer = b, ~aio'[aios[k]].rdone
                 PROVE  Sibling(aios[k])'
      BY <1>0, <1>1 DEF QuietA, CancelStep
    <3> DEFINE a == aios[k]
    <3>1. a \in Aio /\ ~aio[a].rdone /\ a \notin CancelledAnnotators(b)
      BY <1>0 DEF CancelStep
    <3>2. CASE Sibling(a)
      BY <1>0, <3>1, <3>2 DEF Sibling, CancelStep
    <3>3. CASE Own(a)
      <4>1. PICK j \in DOMAIN aios : /\ j < k /\ aio[aios[j]].buffer = b
                                     /\ aio[aios[j]].rdone \/ aios[j] \in CancelledAnnotators(b)
        BY <3>1, CancelledListed
      <4> DEFINE c == aios[j]
      <4>2. c > a /\ c \in Aio /\ procA[c] # "none"
        BY <1>0, <4>1 DEF IoInv, Base, ListsSorted
      <4>3. born[a] <= born[c] /\ born[c] <= buf[b].gen /\ born[a] = buf[b].gen
        <5>1. a < c
          BY <3>1, <4>2 DEF Aio
        <5> QED
          BY <3>1, <3>3, <4>1, <4>2, <5>1 DEF IoInv, Base, Generations, Own
      <4>4. born[c] = born[a]
        <5>1. born[a] \in Nat /\ born[c] \in Nat
          BY <1>0, <3>1, <4>2
        <5> QED
          BY <4>3, <5>1
      <4>5. aio'[c].rdone /\ aio'[c].buffer = b /\ aio'[a].buffer = b
        BY <3>1, <4>1, <4>2 DEF CancelStep
      <4> QED
        BY <4>2, <4>4, <4>5 DEF Sibling
    <3> QED
      BY <1>3, <3>1, <3>2, <3>3 DEF IoInv, Base, OrphansExplained
  <2> QED
    BY <1>1, <2>1, <2>2 DEF Stopped
<1> QED
  BY <1>2, <1>3
-----------------------------------------------------------------------------
(* After the cancel the buffer is stopped: the newest of each kind is      *)
(* finished, and all others are explained by it.                           *)
LEMMA CancelKeepsBase ==
  ASSUME IoInv, NEW p \in Pager, Calling("cancel", p), CancelStep(pager[p].buffer),
         calls' = Tail(calls),
         \A i \in CancelledCommands(pager[p].buffer) : procB[i] # "forked",
         \A a \in CancelledAnnotators(pager[p].buffer) : procA[a] # "forked",
         UNCHANGED <<phase, status, items, bios, aios, nItems, heapVars, inA, wfd, born>>
  PROVE  IoInv'
<1> DEFINE b == pager[p].buffer
<1> USE DEF IoInv, Base, heapVars
<1>0. /\ \A k \in DOMAIN bios : bios[k] \in Bio
      /\ \A k \in DOMAIN aios : aios[k] \in Aio
      /\ \A i \in Bio : procB[i] \in ProcStates
      /\ \A a \in Aio : procA[a] \in ProcStates
  BY DEF IoTypes
<1>1. /\ calls' \in Seq(CallRec) /\ Len(calls) \in Nat \ {0} /\ Len(calls') = Len(calls) - 1
      /\ \A k \in 1..Len(calls') : calls'[k] = calls[k+1]
      /\ calls' # <<>> => /\ Len(calls') >= 1 /\ calls'[1] = calls[2]
                          /\ calls'[Len(calls')] = calls[Len(calls)]
      /\ Len(calls) >= 2 => calls' # <<>>
  BY CallMade, TheCall
<1>2. /\ calls # <<>> /\ calls[1].op = "cancel" /\ Subject = p /\ phase \notin {"poll", "items", "prune"}
      /\ status # "undefined"
      /\ \A k \in DOMAIN calls : calls[k].pager = p
      /\ \A q \in Pager : FreePending(q) => q = p
      /\ \A q \in Pager : ~RunPending(q)
      /\ \A q \in Pager : CancelPending(q) => q = p
  <2>1. \A q \in Pager : Call("run", q).op # "cancel"
    BY DEF Call
  <2> QED
    BY <2>1, TheCall DEF RunPending
<1>3. /\ \A i \in Bio : /\ procB'[i] = "none" <=> procB[i] = "none"
                        /\ procB'[i] = "reaped" <=> procB[i] = "reaped"
                        /\ procB[i] \in {"ending", "dead"} => procB'[i] \in {"ending", "dead"}
      /\ \A a \in Aio : /\ procA'[a] = "none" <=> procA[a] = "none"
                        /\ procA'[a] = "reaped" <=> procA[a] = "reaped"
                        /\ procA[a] \in {"ending", "dead"} => procA'[a] \in {"ending", "dead"}
  <2>1. \A i \in Bio : i \in CancelledCommands(b) => procB[i] \notin {"none", "reaped"}
    BY CancelledListed DEF ListsSorted
  <2>2. \A a \in Aio : a \in CancelledAnnotators(b) => procA[a] \notin {"none", "reaped"}
    BY CancelledListed DEF ListsSorted
  <2> QED
    BY <1>0, <2>1, <2>2 DEF CancelStep, Terminate, Gone
<1>4. /\ \A i \in Bio : i \in CancelledCommands(b) => procB'[i] \in {"ending", "dead"}
      /\ \A a \in Aio : a \in CancelledAnnotators(b) => procA'[a] \in {"ending", "dead"}
  <2>1. \A i \in Bio : i \in CancelledCommands(b) => procB[i] \notin {"none", "reaped"}
    BY CancelledListed DEF ListsSorted
  <2>2. \A a \in Aio : a \in CancelledAnnotators(b) => procA[a] \notin {"none", "reaped"}
    BY CancelledListed DEF ListsSorted
  <2> QED
    BY <1>0, <2>1, <2>2 DEF CancelStep, Terminate, Gone, ProcStates
<1>5. nBios' = nBios /\ nAios' = nAios
  BY <1>3 DEF nBios, nAios
<1>6. IoTypes'
  BY <1>1 DEF IoTypes, CancelStep, CallRec
<1>7. Counted'
  <2>1. \A a \in Aio : procA[a] = "none" => a \notin CancelledAnnotators(b)
    BY CancelledListed DEF ListsSorted
  <2>2. \A a \in Aio : procA'[a] = "none" => ~aio'[a].rdone
    BY <1>3, <2>1 DEF Counted, CancelStep
  <2> QED
    BY <1>3, <1>5, <2>2 DEF Counted
<1>8. ListsSorted'
  <2>1. /\ \A k \in DOMAIN bios : procB'[bios[k]] \notin {"none", "reaped"}
        /\ \A k \in DOMAIN aios : procA'[aios[k]] \notin {"none", "reaped"}
    BY <1>0, <1>3 DEF ListsSorted
  <2> QED
    BY <2>1 DEF ListsSorted
<1>9. CallsFit'
  <2>1. calls' # <<>> => \A k \in DOMAIN calls' : calls'[k].pager = Subject'
    <3>1. DOMAIN calls' = 1..Len(calls') /\ \A k \in DOMAIN calls' : k + 1 \in DOMAIN calls
      BY <1>1, TheCall
    <3> QED
      BY <1>1, <1>2, <3>1 DEF Subject
  <2>2. calls' # <<>> => Subject' = p
    <3>1. Len(calls) >= 2 => 2 \in DOMAIN calls
      BY TheCall
    <3> QED
      BY <1>1, <1>2, <3>1 DEF Subject
  <2>3. CASE ToReload
    <3>1. Annotates(2)'
      BY <1>1, <2>3 DEF ToReload, FitsAfter, Annotates
    <3>2. nAios \in Nat
      BY ConstantsAssumption DEF Counted
    <3>3. ToRun'
      BY <1>1, <1>2, <1>5, <2>2, <2>3, <3>1, <3>2, ConstantsAssumption DEF ToReload, ToRun, FitsAfter, Alive
    <3> QED
      BY <1>2, <2>1, <3>3 DEF CallsFit
  <2>4. CASE ToCancel
    <3>1. calls' = <<>>
      BY <1>1, <2>4 DEF ToCancel
    <3> QED
      BY <3>1 DEF CallsFit
  <2>5. CASE ToPop
    <3>1. ToFree'
      BY <1>1, <1>2, <2>2, <2>5 DEF ToPop, ToFree
    <3> QED
      BY <1>2, <2>1, <3>1 DEF CallsFit
  <2> QED
    BY <2>3, <2>4, <2>5, CancelSubject
<1>10. \A q \in Pager : /\ FreePending(q)' => FreePending(q)
                        /\ RunPending(q)' => q = p
                        /\ Owns(q)' => Owns(q)
  <2>1. \A q \in Pager : FreePending(q)' => FreePending(q)
    BY <1>1, <1>2 DEF FreePending
  <2>2. \A q \in Pager : RunPending(q)' => q = p
    <3> SUFFICES ASSUME NEW q \in Pager, RunPending(q)' PROVE q = p
      OBVIOUS
    <3>1. Len(calls) >= 2 /\ calls[2] = Call("run", q)
      BY <1>1 DEF RunPending
    <3>2. 2 \in DOMAIN calls
      BY <3>1, TheCall
    <3> QED
      BY <1>2, <3>1, <3>2 DEF Call
  <2> QED
    BY <2>1, <2>2 DEF Owns
<1>11. BuffersHeld' /\ OwnersDiffer'
  BY <1>2, <1>10 DEF BuffersHeld, OwnersDiffer
<1>12. /\ \A c : Abandoned(c)' <=> Abandoned(c)
       /\ \A a \in Aio : Sibling(a) => Sibling(a)'
       /\ \A c : QuietB(c) => QuietB(c)'
  BY <1>0 DEF Abandoned, Sibling, QuietB, CancelStep
<1>13. \A c : QuietA(c) => QuietA(c)'
  BY <1>0, <1>12 DEF QuietA, CancelStep
<1>14. CancelledStopped'
  <2> SUFFICES ASSUME NEW q \in Pager, Cancelled(q)', pager[q].buffer # NULL
               PROVE  Stopped(pager[q].buffer)'
    BY DEF CancelledStopped
  <2>1. CASE q = p
    BY <2>1, CancelStops
  <2>2. CASE q # p
    <3>1. Cancelled(q)
      BY <1>2, <1>10, <2>2 DEF Cancelled
    <3>2. Stopped(pager[q].buffer)
      BY <3>1 DEF CancelledStopped
    <3> QED
      BY <1>12, <1>13, <3>2 DEF Stopped
  <2> QED
    BY <2>1, <2>2
<1>15. NewestReads' /\ ReadersHeld'
  BY <1>0, <1>12 DEF NewestReads, ReadersHeld, CancelStep
<1>16. OrphansExplained'
  BY <1>0, <1>12 DEF OrphansExplained, Own, CancelStep
<1>17. Generations' /\ WriteEnds'
  BY <1>3 DEF Generations, WriteEnds, CancelStep
<1>18. Eofs'
  BY <1>3, <1>12 DEF Eofs, Own, CancelStep
<1>19. EndedInv'
  BY <1>0, <1>3, <1>4 DEF EndedInv, CancelStep
<1>20. Fallen'
  <2>1. \A a \in Aio : \A c \in 1..a-1 : c \in Aio
    BY ConstantsAssumption DEF Aio
  <2> QED
    BY <1>3, <2>1 DEF Fallen
<1>21. ItemsInv' /\ UndefinedInv'
  BY <1>2 DEF ItemsInv, UndefinedInv
<1>22. PolledInv'
  BY <1>0 DEF PolledInv, CancelStep
<1> QED
  BY <1>6, <1>7, <1>8, <1>9, <1>11, <1>14, <1>15, <1>16, <1>17, <1>18, <1>19, <1>20, <1>21, <1>22

(* io_close_buffer keeps the invariant, also when ratc ends in it.         *)
LEMMA CancelKeeps ==
  ASSUME IoInv, NEW p \in Pager, Cancel(p)
  PROVE  IoInv'
<1> DEFINE b == pager[p].buffer
           is == CancelledCommands(b)
           as == CancelledAnnotators(b)
           unready == (\E i \in is : procB[i] = "forked") \/ (\E a \in as : procA[a] = "forked")
<1>1. Calling("cancel", p)
  BY DEF Cancel
<1>2. CASE unready
  <2>1. Ends("exited")
    BY <1>2 DEF Cancel
  <2> QED
    BY <2>1, EndKeeps
<1>3. CASE ~unready
  <2>1. /\ bio' = [i \in Bio |-> [bio[i] EXCEPT !.rdone = @ \/ i \in is]]
        /\ aio' = [a \in Aio |-> [aio[a] EXCEPT !.wdone = @ \/ a \in as, !.rdone = @ \/ a \in as]]
        /\ procB' = [i \in Bio |-> IF i \in is THEN Terminate(procB[i]) ELSE procB[i]]
        /\ procA' = [a \in Aio |-> IF a \in as THEN Terminate(procA[a]) ELSE procA[a]]
        /\ calls' = Tail(calls)
        /\ UNCHANGED <<phase, status, items, bios, aios, nItems, heapVars, inA, wfd, born>>
    BY <1>3 DEF Cancel, histVars
  <2>2. CancelStep(b)
    <3> HIDE DEF b
    <3>1. IoTypes
      BY DEF IoInv, Base
    <3> QED
      BY <2>1, <3>1, CancelEffect
  <2>3. /\ \A i \in CancelledCommands(b) : procB[i] # "forked"
        /\ \A a \in CancelledAnnotators(b) : procA[a] # "forked"
    BY <1>3
  <2> QED
    BY <1>1, <2>1, <2>2, <2>3, CancelKeepsBase
<1> QED
  BY <1>2, <1>3
-----------------------------------------------------------------------------
(* A new entry goes to the front of a list.                                *)
LEMMA Prepended ==
  ASSUME NEW S, NEW s \in Seq(S), NEW e \in S
  PROVE  /\ <<e>> \o s \in Seq(S) /\ Len(<<e>> \o s) = Len(s) + 1 /\ (<<e>> \o s)[1] = e
         /\ \A k \in DOMAIN (<<e>> \o s) : k # 1 => k - 1 \in DOMAIN s /\ (<<e>> \o s)[k] = s[k-1]
         /\ \A k \in DOMAIN s : k + 1 \in DOMAIN (<<e>> \o s) /\ (<<e>> \o s)[k+1] = s[k]
         /\ 1 \in DOMAIN (<<e>> \o s)
<1>1. <<e>> \in Seq(S) /\ Len(<<e>>) = 1 /\ <<e>>[1] = e
  OBVIOUS
<1>2. /\ <<e>> \o s \in Seq(S) /\ Len(<<e>> \o s) = Len(s) + 1
      /\ \A k \in 1..Len(s)+1 : (<<e>> \o s)[k] = IF k <= 1 THEN <<e>>[k] ELSE s[k-1]
  <2>1. /\ <<e>> \o s \in Seq(S) /\ Len(<<e>> \o s) = Len(<<e>>) + Len(s)
        /\ \A k \in 1..Len(<<e>>)+Len(s) : (<<e>> \o s)[k] = IF k <= Len(<<e>>) THEN <<e>>[k] ELSE s[k-Len(<<e>>)]
    BY <1>1, ConcatProperties
  <2>2. Len(s) \in Nat
    OBVIOUS
  <2> QED
    BY <1>1, <2>1, <2>2
<1>3. DOMAIN (<<e>> \o s) = 1..Len(s)+1 /\ DOMAIN s = 1..Len(s) /\ Len(s) \in Nat
  BY <1>2
<1> QED
  BY <1>1, <1>2, <1>3

(* What starting a command does: a new entry, and a buffer at an address   *)
(* that was free or is freed by it.                                        *)
RunStep(p, i, x) ==
  LET old == pager[p].buffer
  IN  /\ i = nBios + 1 /\ i \in Bio /\ x \in Addr /\ (~buf[x].live \/ x = old)
      /\ buf' \in [Addr -> [live : BOOLEAN, len : Nat, gen : Nat]]
      /\ buf'[x].live /\ buf'[x].len = 0 /\ buf'[x].gen = buf[x].gen + 1
      /\ \A y \in Addr \ {x} : /\ buf'[y].len = buf[y].len /\ buf'[y].gen = buf[y].gen
                               /\ buf'[y].live <=> buf[y].live /\ y # old
      /\ pager' \in [Pager -> PagerRec]
      /\ \A q \in Pager : /\ pager'[q].state = pager[q].state
                          /\ pager'[q].buffer = IF q = p THEN x ELSE pager[q].buffer
      /\ bio' \in [Bio -> [buffer : Addr \cup {NULL}, rdone : BOOLEAN]]
      /\ bio'[i].buffer = x /\ ~bio'[i].rdone
      /\ \A j \in Bio \ {i} : bio'[j] = bio[j]
      /\ bios' = <<i>> \o bios /\ nItems' = nItems + 1
      /\ procB' = [procB EXCEPT ![i] = "forked"]
      /\ wfd' \in [Aio -> SUBSET Holders]
      /\ \A a \in Aio : Ratc \in wfd'[a] <=> Ratc \in wfd[a]
      /\ calls' = Tail(calls)
      /\ UNCHANGED <<phase, status, items, aios, aio, procA, inA, born>>

(* What running a command changes, with the number and the address named.  *)
LEMMA RunEffect ==
  ASSUME IoInv, NEW p \in Pager, Run(p)
  PROVE  \E i, x : RunStep(p, i, x)
<1> DEFINE old == pager[p].buffer
           i == nBios + 1
<1>0. IoTypes /\ Counted
  BY DEF IoInv, Base
<1>1. Calling("run", p)
  BY DEF Run
<1>2. ToRun
  BY <1>1, TheCall DEF ToAnnotate, ToReload, ToCancel, ToPop, ToFree
<1>3. i \in Bio
  <2>1. nBios \in Nat /\ nBios < MaxBios
    BY <1>0, <1>2, ConstantsAssumption DEF Counted, ToRun
  <2> HIDE DEF i
  <2> QED
    BY <2>1, ConstantsAssumption DEF Bio, i
<1>4. PICK x \in {y \in Addr : ~buf[y].live \/ y = old} :
        /\ buf' = [y \in Addr |->
                     IF y = x THEN [live |-> TRUE, len |-> 0, gen |-> buf[y].gen + 1]
                     ELSE IF y = old THEN [buf[y] EXCEPT !.live = FALSE] ELSE buf[y]]
        /\ pager' = [pager EXCEPT ![p].buffer = x]
        /\ bio' = [bio EXCEPT ![i] = [buffer |-> x, rdone |-> FALSE]]
        /\ bios' = <<i>> \o bios
        /\ nItems' = nItems + 1
        /\ procB' = [procB EXCEPT ![i] = "forked"]
        /\ wfd' = Inherit(BProc(i))
  BY DEF Run
<1>5. UNCHANGED <<phase, status, items, aios, aio, procA, inA, born>> /\ calls' = Tail(calls)
  BY DEF Run, histVars
<1> HIDE DEF i, old
<1>6. \A y \in Addr : buf[y] \in [live : BOOLEAN, len : Nat, gen : Nat]
  BY <1>0 DEF IoTypes
<1>7. /\ buf' \in [Addr -> [live : BOOLEAN, len : Nat, gen : Nat]]
      /\ buf'[x].live /\ buf'[x].len = 0 /\ buf'[x].gen = buf[x].gen + 1
      /\ \A y \in Addr \ {x} : /\ buf'[y].len = buf[y].len /\ buf'[y].gen = buf[y].gen
                               /\ buf'[y].live <=> buf[y].live /\ y # old
  <2> DEFINE new(y) == IF y = x THEN [live |-> TRUE, len |-> 0, gen |-> buf[y].gen + 1]
                       ELSE IF y = old THEN [buf[y] EXCEPT !.live = FALSE] ELSE buf[y]
  <2>1. \A y \in Addr : new(y) \in [live : BOOLEAN, len : Nat, gen : Nat]
    <3> SUFFICES ASSUME NEW y \in Addr PROVE new(y) \in [live : BOOLEAN, len : Nat, gen : Nat]
      OBVIOUS
    <3>1. buf[y] \in [live : BOOLEAN, len : Nat, gen : Nat]
      BY <1>6
    <3>2. buf[y].gen + 1 \in Nat
      BY <3>1
    <3>3. [live |-> TRUE, len |-> 0, gen |-> buf[y].gen + 1] \in [live : BOOLEAN, len : Nat, gen : Nat]
      BY <3>2
    <3>4. [buf[y] EXCEPT !.live = FALSE] \in [live : BOOLEAN, len : Nat, gen : Nat]
      BY <3>1
    <3> QED
      BY <3>1, <3>3, <3>4
  <2>2. new(x).live /\ new(x).len = 0 /\ new(x).gen = buf[x].gen + 1
    OBVIOUS
  <2>3. \A y \in Addr \ {x} : /\ new(y).len = buf[y].len /\ new(y).gen = buf[y].gen
                              /\ new(y).live <=> buf[y].live /\ y # old
    BY <1>6
  <2>4. buf' = [y \in Addr |-> new(y)]
    BY <1>4
  <2> HIDE DEF new
  <2> QED
    BY <1>4, <2>1, <2>2, <2>3, <2>4
<1>8. /\ pager' \in [Pager -> PagerRec]
      /\ \A q \in Pager : /\ pager'[q].state = pager[q].state
                          /\ pager'[q].buffer = IF q = p THEN x ELSE pager[q].buffer
  BY <1>0, <1>4 DEF IoTypes, PagerRec
<1>9. /\ bio' \in [Bio -> [buffer : Addr \cup {NULL}, rdone : BOOLEAN]]
      /\ bio'[i].buffer = x /\ ~bio'[i].rdone
      /\ \A j \in Bio \ {i} : bio'[j] = bio[j]
  BY <1>0, <1>3, <1>4 DEF IoTypes
<1>10. /\ wfd' \in [Aio -> SUBSET Holders]
       /\ \A a \in Aio : Ratc \in wfd'[a] <=> Ratc \in wfd[a]
  <2>1. BProc(i) # Ratc /\ BProc(i) \in Holders
    BY <1>3 DEF BProc, Ratc, Holders
  <2> QED
    BY <1>0, <1>4, <2>1 DEF IoTypes, Inherit
<1>11. x \in Addr /\ (~buf[x].live \/ x = old)
  OBVIOUS
<1>12. RunStep(p, i, x)
  BY <1>3, <1>4, <1>5, <1>7, <1>8, <1>9, <1>10, <1>11 DEF RunStep, i, old
<1> QED
  BY <1>12

(* run_pager_command keeps the invariant: nobody who may still read the    *)
(* old buffer, or another at its address, loses it unexplained.            *)
LEMMA RunKeeps ==
  ASSUME IoInv, NEW p \in Pager, Run(p)
  PROVE  IoInv'
<1>a. Calling("run", p)
  BY DEF Run
<1>b. PICK i, x : RunStep(p, i, x)
  BY RunEffect
<1> DEFINE old == pager[p].buffer
<1> USE DEF IoInv, Base
<1>c. /\ i = nBios + 1 /\ i \in Bio /\ x \in Addr /\ (~buf[x].live \/ x = old)
      /\ bios' = <<i>> \o bios /\ procB' = [procB EXCEPT ![i] = "forked"] /\ calls' = Tail(calls)
      /\ UNCHANGED <<phase, status, items, aios, aio, procA, inA, born>>
      /\ bio'[i].buffer = x /\ ~bio'[i].rdone /\ \A j \in Bio \ {i} : bio'[j] = bio[j]
      /\ \A a \in Aio : Ratc \in wfd'[a] <=> Ratc \in wfd[a]
  BY <1>b DEF RunStep
<1>d. /\ buf'[x].live /\ buf'[x].len = 0 /\ buf'[x].gen = buf[x].gen + 1
      /\ \A y \in Addr \ {x} : /\ buf'[y].len = buf[y].len /\ buf'[y].gen = buf[y].gen
                               /\ buf'[y].live <=> buf[y].live /\ y # old
      /\ \A q \in Pager : /\ pager'[q].state = pager[q].state
                          /\ pager'[q].buffer = IF q = p THEN x ELSE pager[q].buffer
  BY <1>b DEF RunStep
<1>0. /\ \A k \in DOMAIN bios : bios[k] \in Bio
      /\ \A k \in DOMAIN aios : aios[k] \in Aio
      /\ bios \in Seq(Bio) /\ DOMAIN bios = 1..Len(bios)
      /\ procB \in [Bio -> ProcStates]
      /\ nBios \in Nat /\ nAios \in Nat
      /\ \A a \in Aio : born[a] \in Nat
      /\ \A y \in Addr : buf[y].gen \in Nat
  BY ConstantsAssumption DEF IoTypes, Counted
<1>1. /\ calls' \in Seq(CallRec) /\ Len(calls) \in Nat \ {0} /\ Len(calls') = Len(calls) - 1
      /\ \A k \in 1..Len(calls') : calls'[k] = calls[k+1]
      /\ calls' # <<>> => /\ Len(calls') >= 1 /\ calls'[1] = calls[2]
                          /\ calls'[Len(calls')] = calls[Len(calls)]
  BY <1>a, <1>c, CallMade, TheCall
<1>2. /\ calls # <<>> /\ calls[1] = Call("run", p) /\ calls[1].op = "run" /\ Subject = p
      /\ phase \notin {"poll", "items", "prune"} /\ status # "undefined"
      /\ \A k \in DOMAIN calls : calls[k].pager = p
      /\ \A q \in Pager : RunPending(q) => q = p
      /\ RunPending(p)
      /\ \A q \in Pager : ~CancelPending(q)
  <2>1. \A q \in Pager : Call("cancel", q).op # "run"
    BY DEF Call
  <2> QED
    BY <1>a, <2>1, TheCall DEF CancelPending, RunPending
<1>3. ToRun
  BY <1>a, TheCall DEF ToAnnotate, ToReload, ToCancel, ToPop, ToFree
<1>4. \A k \in DOMAIN calls : k # 1 => calls[k].op = "annotate"
  <2>1. \A k \in DOMAIN calls : k # 1 => k \in 2..Len(calls)
    BY <1>1, TheCall
  <2> QED
    BY <1>3, <2>1 DEF ToRun, FitsAfter, Annotates
<1>5. /\ \A q \in Pager : ~FreePending(q)
      /\ \A q \in Pager : ~FreePending(q)' /\ ~RunPending(q)' /\ ~CancelPending(q)'
  <2>1. \A k \in DOMAIN calls : calls[k].op \in {"run", "annotate"}
    BY <1>2, <1>4
  <2>2. \A q \in Pager : ~FreePending(q)
    <3>1. Len(calls) \in DOMAIN calls
      BY <1>1, <1>a, TheCall
    <3>2. \A q \in Pager : Call("free", q).op = "free"
      BY DEF Call
    <3> QED
      BY <2>1, <3>1, <3>2 DEF FreePending
  <2>3. \A k \in DOMAIN calls' : calls'[k].op = "annotate"
    <3>1. \A k \in DOMAIN calls' : k + 1 \in DOMAIN calls /\ k + 1 # 1 /\ k \in 1..Len(calls')
      BY <1>1, <1>a, TheCall
    <3> QED
      BY <1>1, <1>4, <3>1
  <2>4. calls' # <<>> => 1 \in DOMAIN calls' /\ Len(calls') \in DOMAIN calls'
    BY <1>1
  <2>5. \A q \in Pager : /\ Call("free", q).op # "annotate" /\ Call("run", q).op # "annotate"
                         /\ Call("cancel", q).op # "annotate"
    BY DEF Call
  <2> QED
    BY <2>2, <2>3, <2>4, <2>5 DEF FreePending, RunPending, CancelPending
<1>6. /\ bios' \in Seq(Bio) /\ Len(bios') = Len(bios) + 1 /\ bios'[1] = i
      /\ \A k \in DOMAIN bios' : k # 1 => k - 1 \in DOMAIN bios /\ bios'[k] = bios[k-1]
      /\ \A k \in DOMAIN bios : k + 1 \in DOMAIN bios' /\ bios'[k+1] = bios[k]
      /\ 1 \in DOMAIN bios'
  BY <1>0, <1>c, Prepended
<1>7. /\ procB[i] = "none" /\ \A k \in DOMAIN bios : bios[k] # i /\ bios[k] < i
  <2>1. procB[i] = "none"
    BY <1>0, <1>c DEF Counted
  <2>2. \A k \in DOMAIN bios : bios[k] <= nBios
    BY <1>0 DEF Counted, ListsSorted
  <2>3. \A k \in DOMAIN bios : bios[k] \in Nat
    BY <1>0 DEF Bio
  <2> QED
    BY <1>0, <1>c, <2>1, <2>2, <2>3
<1>8. old = NULL \/ (old \in Addr /\ buf[old].live /\ Stopped(old))
  <2>1. Owns(p)
    BY <1>2, <1>3 DEF ToRun, Alive, Owns, Usable
  <2>2. Cancelled(p)
    BY <1>2 DEF Cancelled
  <2> QED
    BY <2>1, <2>2 DEF BuffersHeld, CancelledStopped
<1>9. \A c : Abandoned(c)' <=> Abandoned(c)
  <2>1. pager[p].state # "abandoned"
    BY <1>2, <1>3 DEF ToRun, Alive
  <2> QED
    BY <1>d, <2>1 DEF Abandoned
<1>10. \A k \in DOMAIN bios : bio[bios[k]].buffer = x => bio[bios[k]].rdone \/ Abandoned(x)
  <2> SUFFICES ASSUME NEW k \in DOMAIN bios, bio[bios[k]].buffer = x, ~bio[bios[k]].rdone
               PROVE  Abandoned(x)
    OBVIOUS
  <2>1. buf[x].live \/ Abandoned(x)
    BY DEF ReadersHeld
  <2>2. x = old => Abandoned(x)
    <3>1. x = old => Stopped(x)
      BY <1>8, <1>c, ConstantsAssumption
    <3> QED
      BY <3>1 DEF Stopped, QuietB
  <2> QED
    BY <1>c, <2>1, <2>2
<1>11. \A k \in DOMAIN bios : bio'[bios[k]] = bio[bios[k]]
  BY <1>0, <1>7, <1>c
<1>12. IoTypes'
  <2>1. nItems' \in Nat
    BY <1>b DEF RunStep, IoTypes
  <2>2. procB' \in [Bio -> ProcStates]
    BY <1>0, <1>c DEF ProcStates
  <2>3. /\ bio' \in [Bio -> [buffer : Addr \cup {NULL}, rdone : BOOLEAN]]
        /\ buf' \in [Addr -> [live : BOOLEAN, len : Nat, gen : Nat]]
        /\ pager' \in [Pager -> PagerRec] /\ wfd' \in [Aio -> SUBSET Holders]
    BY <1>b DEF RunStep
  <2>4. calls' \in Seq(CallRec) /\ bios' \in Seq(Bio)
    BY <1>1, <1>6
  <2>5. /\ aios' \in Seq(Aio) /\ procA' \in [Aio -> ProcStates]
        /\ aio' \in [Aio -> [buffer : Addr \cup {NULL}, woffset : Int,
                             wdone : BOOLEAN, rdone : BOOLEAN]]
        /\ inA' \in [Aio -> Int] /\ born' \in [Aio -> Nat]
    BY <1>c DEF IoTypes
  <2> QED
    BY <2>1, <2>2, <2>3, <2>4, <2>5 DEF IoTypes, CallRec, PagerRec
<1>13. nBios' = nBios + 1 /\ nAios' = nAios
  <2>1. nBios + 1 \in 0..MaxBios
    BY <1>0, <1>c, ConstantsAssumption DEF Bio
  <2>2. \A j \in 1..MaxBios : procB'[j] # "none" <=> j <= nBios + 1
    BY <1>0, <1>c DEF Counted, Bio
  <2>3. nBios' = nBios + 1
    <3> DEFINE n == nBios + 1
    <3>1. n \in 0..MaxBios /\ \A j \in 1..MaxBios : procB'[j] # "none" <=> j <= n
      BY <2>1, <2>2
    <3> HIDE DEF n
    <3>2. Cardinality({j \in 1..MaxBios : procB'[j] # "none"}) = n
      BY <3>1, CountNumbered, ConstantsAssumption
    <3>3. nBios' = n
      BY <3>2 DEF nBios, Bio
    <3> QED
      BY <3>3 DEF n
  <2>4. nAios' = nAios
    BY <1>c DEF nAios
  <2> QED
    BY <2>3, <2>4
<1>14. Counted'
  <2>1. nBios + 1 \in 0..MaxBios
    BY <1>0, <1>c, ConstantsAssumption DEF Bio
  <2>2. \A j \in Bio : procB'[j] # "none" <=> j <= nBios + 1
    <3>1. \A j \in 1..MaxBios : procB'[j] # "none" <=> j <= nBios + 1
      BY <1>0, <1>c DEF Counted, Bio
    <3> QED
      BY <3>1 DEF Bio
  <2> QED
    BY <1>13, <1>c, <2>1, <2>2 DEF Counted
<1>15. ListsSorted'
  <2>1. \A j, k \in DOMAIN bios' : j < k => bios'[j] > bios'[k]
    <3> SUFFICES ASSUME NEW j \in DOMAIN bios', NEW k \in DOMAIN bios', j < k
                 PROVE  bios'[j] > bios'[k]
      OBVIOUS
    <3>1. k # 1 /\ k - 1 \in DOMAIN bios /\ bios'[k] = bios[k-1]
      BY <1>6
    <3>2. CASE j = 1
      <4>1. bios[k-1] < i /\ bios[k-1] \in Nat /\ i \in Nat
        BY <1>0, <1>7, <1>c, <3>1 DEF Bio
      <4> QED
        BY <1>6, <3>1, <3>2, <4>1
    <3>3. CASE j # 1
      <4>1. j - 1 \in DOMAIN bios /\ bios'[j] = bios[j-1] /\ j - 1 < k - 1
        BY <1>6, <3>3
      <4> QED
        BY <3>1, <4>1 DEF ListsSorted
    <3> QED
      BY <3>2, <3>3
  <2>2. \A k \in DOMAIN bios' : procB'[bios'[k]] \notin {"none", "reaped"}
    <3>1. procB'[i] = "forked" /\ \A k \in DOMAIN bios : procB'[bios[k]] = procB[bios[k]]
      BY <1>0, <1>7, <1>c
    <3> QED
      BY <1>6, <3>1 DEF ListsSorted
  <2> QED
    BY <1>c, <2>1, <2>2 DEF ListsSorted
<1>16. CallsFit'
  <2>1. calls' # <<>> => \A k \in DOMAIN calls' : calls'[k].pager = p /\ calls'[k].op = "annotate"
    <3>1. \A k \in DOMAIN calls' : k + 1 \in DOMAIN calls /\ k + 1 # 1 /\ k \in 1..Len(calls')
      BY <1>1, <1>a, TheCall
    <3> QED
      BY <1>1, <1>2, <1>4, <3>1
  <2>2. calls' # <<>> => 1 \in DOMAIN calls' /\ DOMAIN calls' = 1..Len(calls')
    BY <1>1
  <2>3. calls' # <<>> => Subject' = p
    BY <2>1, <2>2 DEF Subject
  <2>4. calls' # <<>> => ToAnnotate'
    <3>1. Alive' <=> pager'[Subject'].state \in {"stacked", "revived"}
      BY DEF Alive
    <3>2. calls' # <<>> => Alive'
      BY <1>2, <1>3, <1>d, <2>3, <3>1 DEF ToRun, Alive
    <3>3. nAios + Len(calls') <= MaxAios
      BY <1>0, <1>1, <1>3, ConstantsAssumption DEF ToRun, FitsAfter
    <3>4. calls' # <<>> => FitsAfter(1)'
      BY <1>0, <1>1, <1>13, <2>1, <2>2, <3>3 DEF FitsAfter, Annotates
    <3> QED
      BY <2>1, <2>2, <3>2, <3>4 DEF ToAnnotate
  <2> QED
    BY <1>2, <1>c, <2>1, <2>3, <2>4 DEF CallsFit
<1>17. \A q \in Pager : Owns(q)' <=> Owns(q)
  BY <1>5, <1>d DEF Owns
<1>18. \A q \in Pager : q # p /\ Owns(q) =>
         /\ pager[q].buffer \in Addr /\ pager[q].buffer # x /\ pager[q].buffer # old
         /\ buf'[pager[q].buffer].live
  <2> SUFFICES ASSUME NEW q \in Pager, q # p, Owns(q)
               PROVE  /\ pager[q].buffer \in Addr /\ pager[q].buffer # x /\ pager[q].buffer # old
                      /\ buf'[pager[q].buffer].live
    OBVIOUS
  <2>1. pager[q].buffer \in Addr /\ buf[pager[q].buffer].live
    BY <1>2 DEF BuffersHeld
  <2>2. Owns(p)
    BY <1>2, <1>3 DEF ToRun, Alive, Owns, Usable
  <2>3. pager[q].buffer # old
    BY <2>1, <2>2, ConstantsAssumption DEF OwnersDiffer
  <2> QED
    BY <1>c, <1>d, <2>1, <2>3
<1>19. BuffersHeld'
  <2>1. pager[p].state # "none"
    BY <1>2, <1>3 DEF ToRun, Alive
  <2> QED
    BY <1>17, <1>18, <1>c, <1>d, <2>1 DEF BuffersHeld
<1>20. OwnersDiffer'
  BY <1>17, <1>18, <1>c, <1>d DEF OwnersDiffer
<1>21. ASSUME NEW c, c # x, Stopped(c) PROVE Stopped(c)'
  <2>1. QuietB(c) => \A k \in DOMAIN bios' : bio'[bios'[k]].buffer = c => bio'[bios'[k]].rdone
    <3> SUFFICES ASSUME QuietB(c), NEW k \in DOMAIN bios', bio'[bios'[k]].buffer = c
                 PROVE  bio'[bios'[k]].rdone
      OBVIOUS
    <3>1. k # 1
      BY <1>6, <1>c, <1>21
    <3>2. k - 1 \in DOMAIN bios /\ bio'[bios'[k]] = bio[bios[k-1]]
      BY <1>6, <1>11, <3>1
    <3> QED
      BY <3>2 DEF QuietB
  <2>2. \A a \in Aio : Sibling(a)' <=> Sibling(a)
    BY <1>c DEF Sibling
  <2>3. aios' = aios /\ aio' = aio
    BY <1>c
  <2>4. QuietA(c) => QuietA(c)'
    BY <1>0, <2>2, <2>3 DEF QuietA
  <2>5. QuietB(c) => QuietB(c)'
    BY <2>1 DEF QuietB
  <2> QED
    BY <1>9, <1>21, <2>4, <2>5 DEF Stopped
<1>32. CancelledStopped'
  <2> SUFFICES ASSUME NEW q \in Pager, Cancelled(q)', (pager[q].buffer # NULL)'
               PROVE  Stopped(pager[q].buffer)'
    BY DEF CancelledStopped
  <2>1. pager[q].state = "popped" /\ q # p
    BY <1>2, <1>3, <1>5, <1>d DEF Cancelled, ToRun, Alive
  <2>2. Cancelled(q) /\ Owns(q)
    BY <1>2, <2>1 DEF Cancelled, Owns, Usable
  <2>3. pager'[q].buffer = pager[q].buffer /\ pager[q].buffer # x
    BY <1>18, <1>d, <2>1, <2>2
  <2> DEFINE c == pager[q].buffer
  <2>4. Stopped(c)
    BY <2>2, <2>3 DEF CancelledStopped
  <2>5. c' = c
    BY <2>3
  <2>6. \A e : e # x /\ Stopped(e) => Stopped(e)'
    BY <1>21
  <2> QED
    BY <2>3, <2>4, <2>5, <2>6
<1>22. NewestReads'
  <2> SUFFICES ASSUME NEW j \in DOMAIN bios', NEW k \in DOMAIN bios', j < k,
                      bio'[bios'[j]].buffer = bio'[bios'[k]].buffer
               PROVE  Abandoned(bio'[bios'[k]].buffer) \/ bio'[bios'[k]].rdone
    BY <1>9 DEF NewestReads
  <2>1. k # 1 /\ k - 1 \in DOMAIN bios /\ bios'[k] = bios[k-1] /\ bio'[bios'[k]] = bio[bios[k-1]]
    BY <1>6, <1>11
  <2>2. CASE j = 1
    BY <1>6, <1>10, <1>c, <2>1, <2>2
  <2>3. CASE j # 1
    <3>1. j - 1 \in DOMAIN bios /\ bio'[bios'[j]] = bio[bios[j-1]] /\ j - 1 < k - 1
      BY <1>6, <1>11, <2>3
    <3> QED
      BY <2>1, <3>1 DEF NewestReads
  <2> QED
    BY <2>2, <2>3
<1>23. ReadersHeld'
  <2> SUFFICES ASSUME NEW k \in DOMAIN bios'
               PROVE  /\ bio'[bios'[k]].buffer \in Addr
                      /\ ~bio'[bios'[k]].rdone =>
                           buf'[bio'[bios'[k]].buffer].live \/ Abandoned(bio'[bios'[k]].buffer)
    BY <1>9 DEF ReadersHeld
  <2>1. CASE k = 1
    BY <1>6, <1>c, <1>d, <2>1
  <2>2. CASE k # 1
    <3>1. k - 1 \in DOMAIN bios /\ bio'[bios'[k]] = bio[bios[k-1]]
      BY <1>6, <1>11, <2>2
    <3> DEFINE c == bio[bios[k-1]].buffer
    <3>2. c \in Addr /\ (~bio[bios[k-1]].rdone => buf[c].live \/ Abandoned(c))
      BY <3>1 DEF ReadersHeld
    <3>3. c = old /\ ~bio[bios[k-1]].rdone => Abandoned(c)
      BY <1>8, <3>1, <3>2, ConstantsAssumption DEF Stopped, QuietB
    <3> QED
      BY <1>d, <3>1, <3>2, <3>3
  <2> QED
    BY <2>1, <2>2
<1>24. \A a \in Aio : Sibling(a)' <=> Sibling(a)
  BY <1>c DEF Sibling
<1>25. OrphansExplained'
  <2> SUFFICES ASSUME NEW k \in DOMAIN aios, ~aio[aios[k]].rdone
               PROVE  Own(aios[k])' \/ Abandoned(aio[aios[k]].buffer) \/ Sibling(aios[k])
    BY <1>0, <1>9, <1>24, <1>c DEF OrphansExplained
  <2> DEFINE c == aio[aios[k]].buffer
  <2>1. CASE Own(aios[k])
    <3>1. c \in Addr
      BY <1>0 DEF Generations, ListsSorted
    <3>2. c = old => Abandoned(c) \/ Sibling(aios[k])
      BY <1>8, <3>1, ConstantsAssumption DEF Stopped, QuietA
    <3>3. c # old => c # x
      BY <1>c, <2>1 DEF Own
    <3>4. c # old => Own(aios[k])'
      BY <1>c, <1>d, <2>1, <3>1, <3>3 DEF Own
    <3> QED
      BY <3>2, <3>4
  <2> QED
    BY <2>1 DEF OrphansExplained
<1>26. Generations'
  <2>1. \A y \in Addr : buf'[y].gen >= buf[y].gen
    BY <1>0, <1>c, <1>d
  <2>2. \A y \in Addr : buf'[y].gen \in Nat
    BY <1>12 DEF IoTypes
  <2>3. \A a \in Aio : procA[a] # "none" =>
          aio[a].buffer \in Addr /\ born[a] <= buf'[aio[a].buffer].gen
    <3> SUFFICES ASSUME NEW a \in Aio, procA[a] # "none"
                 PROVE  aio[a].buffer \in Addr /\ born[a] <= buf'[aio[a].buffer].gen
      OBVIOUS
    <3>1. aio[a].buffer \in Addr /\ born[a] <= buf[aio[a].buffer].gen
      BY DEF Generations
    <3>2. buf'[aio[a].buffer].gen >= buf[aio[a].buffer].gen /\ buf'[aio[a].buffer].gen \in Nat
          /\ buf[aio[a].buffer].gen \in Nat /\ born[a] \in Nat
      BY <1>0, <2>1, <2>2, <3>1
    <3> QED
      BY <3>1, <3>2
  <2> QED
    BY <1>c, <2>3 DEF Generations
<1>27. WriteEnds'
  BY <1>c DEF WriteEnds
<1>28. Eofs'
  <2> SUFFICES ASSUME NEW a \in Aio, procA[a] # "none", Ratc \notin wfd[a], Own(a)', ~Abandoned(aio[a].buffer)
               PROVE  aio[a].woffset = buf'[aio[a].buffer].len /\ QuietB(aio[a].buffer)'
    BY <1>9, <1>c DEF Eofs
  <2> DEFINE c == aio[a].buffer
  <2>1. c \in Addr /\ born[a] <= buf[c].gen /\ born[a] \in Nat /\ buf[c].gen \in Nat
    BY <1>0 DEF Generations
  <2>2. buf'[c].live /\ buf'[c].gen = born[a]
    BY <1>c DEF Own
  <2>3. c # x
    BY <1>d, <2>1, <2>2
  <2>4. Own(a) /\ buf'[c].len = buf[c].len
    BY <1>d, <2>1, <2>2, <2>3 DEF Own
  <2>5. aio[a].woffset = buf[c].len /\ QuietB(c)
    BY <2>4 DEF Eofs
  <2>6. \A k \in DOMAIN bios' : bio'[bios'[k]].buffer = c => bio'[bios'[k]].rdone
    <3> SUFFICES ASSUME NEW k \in DOMAIN bios', bio'[bios'[k]].buffer = c
                 PROVE  bio'[bios'[k]].rdone
      OBVIOUS
    <3>1. k # 1
      BY <1>6, <1>c, <2>3
    <3>2. k - 1 \in DOMAIN bios /\ bio'[bios'[k]] = bio[bios[k-1]]
      BY <1>6, <1>11, <3>1
    <3> QED
      BY <2>5, <3>2 DEF QuietB
  <2>7. QuietB(c)'
    BY <1>c, <2>6 DEF QuietB
  <2> QED
    BY <2>4, <2>5, <2>7
<1>29. EndedInv'
  <2>1. \A k \in DOMAIN bios : procB'[bios[k]] = procB[bios[k]]
    BY <1>0, <1>7, <1>c
  <2>2. \A k \in DOMAIN bios' : bio'[bios'[k]].rdone => procB'[bios'[k]] \in {"ending", "dead"}
    <3> SUFFICES ASSUME NEW k \in DOMAIN bios', bio'[bios'[k]].rdone
                 PROVE  procB'[bios'[k]] \in {"ending", "dead"}
      OBVIOUS
    <3>1. k # 1
      BY <1>6, <1>c
    <3>2. k - 1 \in DOMAIN bios /\ bios'[k] = bios[k-1] /\ bio'[bios'[k]] = bio[bios[k-1]]
      BY <1>6, <1>11, <3>1
    <3> QED
      BY <2>1, <3>2 DEF EndedInv
  <2> QED
    BY <1>c, <2>2 DEF EndedInv
<1>30. Fallen'
  BY <1>c DEF Fallen
<1>31. ItemsInv' /\ PolledInv' /\ UndefinedInv'
  BY <1>2, <1>c DEF ItemsInv, PolledInv, UndefinedInv
<1> QED
  BY <1>12, <1>14, <1>15, <1>16, <1>19, <1>20, <1>32, <1>22, <1>23, <1>25, <1>26, <1>27, <1>28, <1>29, <1>30, <1>31
-----------------------------------------------------------------------------
(* free_pager frees the buffer of a pager that was cancelled or abandoned. *)
LEMMA FreePagerKeeps ==
  ASSUME IoInv, NEW p \in Pager, FreePager(p)
  PROVE  IoInv'
<1> DEFINE b == pager[p].buffer
<1>a. Calling("free", p)
  BY DEF FreePager
<1> USE DEF IoInv, Base
<1>b. /\ buf' = [buf EXCEPT ![b].live = FALSE] /\ calls' = Tail(calls)
      /\ UNCHANGED <<phase, status, items, listVars, pager, procVars, born>>
  BY DEF FreePager, histVars
<1>0. /\ \A k \in DOMAIN bios : bios[k] \in Bio
      /\ \A k \in DOMAIN aios : aios[k] \in Aio
      /\ \A y \in Addr : buf[y] \in [live : BOOLEAN, len : Nat, gen : Nat]
      /\ DOMAIN buf = Addr
  BY DEF IoTypes
<1>1. /\ calls # <<>> /\ calls[1] = Call("free", p) /\ calls[1].op = "free" /\ Subject = p
      /\ phase \notin {"poll", "items", "prune"} /\ status # "undefined"
      /\ \A q \in Pager : ~RunPending(q) /\ ~CancelPending(q)
  <2>1. \A q \in Pager : Call("cancel", q).op # "free" /\ Call("run", q).op # "free"
    BY DEF Call
  <2> QED
    BY <1>a, <2>1, TheCall DEF CancelPending, RunPending
<1>2. ToFree
  BY <1>a, TheCall DEF ToAnnotate, ToRun, ToReload, ToCancel, ToPop
<1>3. calls' = <<>>
  <2>1. calls \in Seq(CallRec) /\ Len(calls) = 1
    BY <1>a, <1>2, TheCall DEF ToFree
  <2>2. calls' \in Seq(CallRec) /\ Len(calls') = 0
    BY <1>a, <1>b, <2>1, CallMade, TheCall
  <2> QED
    BY <2>2
<1>4. \A q \in Pager : ~FreePending(q)' /\ ~RunPending(q)' /\ ~CancelPending(q)'
  BY <1>3 DEF FreePending, RunPending, CancelPending
<1>5. FreePending(p)
  BY <1>1, <1>2 DEF ToFree, FreePending
<1>6. b \in Addr /\ buf[b].live
  BY <1>1, <1>5 DEF BuffersHeld, Owns
<1>7. Stopped(b)
  <2>1. CASE pager[p].state = "abandoned"
    BY <2>1 DEF Stopped, Abandoned
  <2>2. CASE pager[p].state = "freed"
    <3>1. Cancelled(p)
      BY <1>1, <1>5, <2>2 DEF Cancelled
    <3> QED
      BY <1>6, <3>1, ConstantsAssumption DEF CancelledStopped
  <2> QED
    BY <1>1, <1>2, <2>1, <2>2 DEF ToFree
<1>8. /\ buf' \in [Addr -> [live : BOOLEAN, len : Nat, gen : Nat]]
      /\ \A y \in Addr : /\ buf'[y].len = buf[y].len /\ buf'[y].gen = buf[y].gen
                         /\ buf'[y].live <=> buf[y].live /\ y # b
  <2> DEFINE r == [buf[b] EXCEPT !.live = FALSE]
  <2>1. r \in [live : BOOLEAN, len : Nat, gen : Nat] /\ r.len = buf[b].len /\ r.gen = buf[b].gen /\ ~r.live
    BY <1>0, <1>6
  <2>2. \A y \in Addr : buf'[y] = IF y = b THEN r ELSE buf[y]
    BY <1>0, <1>6, <1>b
  <2>3. buf' \in [Addr -> [live : BOOLEAN, len : Nat, gen : Nat]]
    <3>1. buf \in [Addr -> [live : BOOLEAN, len : Nat, gen : Nat]]
      BY DEF IoTypes
    <3>2. buf' = [buf EXCEPT ![b] = r]
      BY <1>b
    <3> HIDE DEF r
    <3> QED
      BY <2>1, <3>1, <3>2
  <2> HIDE DEF r
  <2> QED
    BY <2>1, <2>2, <2>3
<1>9. \A c : Abandoned(c)' <=> Abandoned(c)
  BY <1>b DEF Abandoned
<1>10. /\ bios' = bios /\ bio' = bio /\ aios' = aios /\ aio' = aio /\ nItems' = nItems
       /\ procB' = procB /\ procA' = procA /\ wfd' = wfd /\ inA' = inA /\ born' = born
       /\ pager' = pager /\ phase' = phase /\ status' = status /\ items' = items
  BY <1>b DEF listVars, procVars
<1>11. IoTypes'
  <2>1. calls' \in Seq([op : {"cancel", "run", "annotate", "free"}, pager : Pager])
    BY <1>3
  <2> QED
    BY <1>8, <1>10, <2>1 DEF IoTypes
<1>12. Counted' /\ ListsSorted'
  BY <1>10 DEF Counted, ListsSorted, nBios, nAios
<1>13. CallsFit'
  BY <1>1, <1>3 DEF CallsFit
<1>14. \A q \in Pager : Owns(q)' => /\ q # p /\ Owns(q) /\ pager[q].state \in Usable
  BY <1>1, <1>2, <1>4, <1>10 DEF Owns, Usable, ToFree
<1>15. BuffersHeld'
  <2> SUFFICES ASSUME NEW q \in Pager, Owns(q)'
               PROVE  pager[q].buffer \in Addr /\ buf'[pager[q].buffer].live
    BY <1>10 DEF BuffersHeld
  <2>1. pager[q].buffer \in Addr /\ buf[pager[q].buffer].live
    BY <1>1, <1>14 DEF BuffersHeld
  <2>2. pager[q].buffer # b
    <3>1. Owns(p) /\ Owns(q) /\ q # p
      BY <1>5, <1>14 DEF Owns
    <3> QED
      BY <1>6, <2>1, <3>1, ConstantsAssumption DEF OwnersDiffer
  <2> QED
    BY <1>8, <2>1, <2>2
<1>16. OwnersDiffer'
  BY <1>10, <1>14 DEF OwnersDiffer
<1>17. \A c : Stopped(c)' <=> Stopped(c)
  BY <1>10 DEF Stopped, Abandoned, QuietB, QuietA, Sibling
<1>18. CancelledStopped'
  <2>1. \A q \in Pager : Cancelled(q)' => Cancelled(q)
    BY <1>1, <1>4, <1>10 DEF Cancelled
  <2> QED
    BY <1>10, <1>17, <2>1 DEF CancelledStopped
<1>19. NewestReads'
  BY <1>9, <1>10 DEF NewestReads
<1>20. ReadersHeld'
  <2> SUFFICES ASSUME NEW k \in DOMAIN bios
               PROVE  LET c == bio[bios[k]].buffer
                      IN  c \in Addr /\ (~bio[bios[k]].rdone => buf'[c].live \/ Abandoned(c))
    BY <1>9, <1>10 DEF ReadersHeld
  <2> DEFINE c == bio[bios[k]].buffer
  <2>1. c \in Addr /\ (~bio[bios[k]].rdone => buf[c].live \/ Abandoned(c))
    BY DEF ReadersHeld
  <2>2. c = b /\ ~bio[bios[k]].rdone => Abandoned(c)
    BY <1>7 DEF Stopped, QuietB
  <2> QED
    BY <1>8, <2>1, <2>2
<1>21. \A a \in Aio : Sibling(a)' <=> Sibling(a)
  BY <1>10 DEF Sibling
<1>22. OrphansExplained'
  <2> SUFFICES ASSUME NEW k \in DOMAIN aios, ~aio[aios[k]].rdone
               PROVE  Own(aios[k])' \/ Abandoned(aio[aios[k]].buffer) \/ Sibling(aios[k])
    BY <1>0, <1>9, <1>10, <1>21 DEF OrphansExplained
  <2> DEFINE c == aio[aios[k]].buffer
  <2>1. CASE Own(aios[k])
    <3>1. c \in Addr
      BY <1>0 DEF Generations, ListsSorted
    <3>2. c = b => Abandoned(c) \/ Sibling(aios[k])
      BY <1>7 DEF Stopped, QuietA
    <3>3. c # b => Own(aios[k])'
      BY <1>8, <1>10, <2>1, <3>1 DEF Own
    <3> QED
      BY <3>2, <3>3
  <2> QED
    BY <2>1 DEF OrphansExplained
<1>23. Generations'
  BY <1>8, <1>10 DEF Generations
<1>24. WriteEnds'
  BY <1>10 DEF WriteEnds
<1>25. Eofs'
  <2>1. \A a \in Aio : procA[a] # "none" /\ Own(a)' =>
          Own(a) /\ buf'[aio[a].buffer].len = buf[aio[a].buffer].len
    BY <1>8, <1>10 DEF Own, Generations
  <2>2. \A c : QuietB(c)' <=> QuietB(c)
    BY <1>10 DEF QuietB
  <2> QED
    BY <1>9, <1>10, <2>1, <2>2 DEF Eofs
<1>26. EndedInv' /\ Fallen'
  BY <1>10 DEF EndedInv, Fallen
<1>27. ItemsInv' /\ PolledInv' /\ UndefinedInv'
  BY <1>1, <1>10 DEF ItemsInv, PolledInv, UndefinedInv
<1> QED
  BY <1>11, <1>12, <1>13, <1>15, <1>16, <1>18, <1>19, <1>20, <1>22, <1>23, <1>24, <1>25, <1>26, <1>27
-----------------------------------------------------------------------------
(* What starting an annotator does: a new entry, for the pager's buffer.   *)
AnnotateStep(a, b) ==
  /\ a = nAios + 1 /\ a \in Aio
  /\ aio' \in [Aio -> [buffer : Addr \cup {NULL}, woffset : Int, wdone : BOOLEAN, rdone : BOOLEAN]]
  /\ aio'[a].buffer = b /\ aio'[a].woffset = 0 /\ ~aio'[a].wdone /\ ~aio'[a].rdone
  /\ \A c \in Aio \ {a} : aio'[c] = aio[c]
  /\ aios' = <<a>> \o aios /\ nItems' = nItems + 1
  /\ procA' \in [Aio -> ProcStates] /\ procA'[a] = "forked"
  /\ \A c \in Aio \ {a} : procA'[c] = procA[c]
  /\ wfd' \in [Aio -> SUBSET Holders] /\ Ratc \in wfd'[a]
  /\ \A c \in Aio \ {a} : Ratc \in wfd'[c] <=> Ratc \in wfd[c]
  /\ born' \in [Aio -> Nat] /\ born'[a] = buf[b].gen
  /\ \A c \in Aio \ {a} : born'[c] = born[c]
  /\ calls' = Tail(calls)
  /\ UNCHANGED <<phase, status, items, bios, bio, buf, pager, procB, inA>>

(* What starting an annotator changes; the pager has its buffer by then.   *)
LEMMA AnnotateEffect ==
  ASSUME IoInv, NEW p \in Pager, Annotate(p)
  PROVE  /\ pager[p].buffer \in Addr /\ buf[pager[p].buffer].live /\ ToAnnotate
         /\ AnnotateStep(nAios + 1, pager[p].buffer)
<1> DEFINE b == pager[p].buffer
           a == nAios + 1
<1>0. IoTypes /\ Counted
  BY DEF IoInv, Base
<1>1. Calling("annotate", p)
  BY DEF Annotate
<1>2. ToAnnotate
  BY <1>1, TheCall DEF ToRun, ToReload, ToCancel, ToPop, ToFree
<1>3. a \in Aio
  <2>1. nAios \in Nat /\ nAios + 1 <= MaxAios
    <3>1. nAios + Len(calls) - 1 + 1 <= MaxAios /\ nAios \in Nat
      BY <1>0, <1>2, ConstantsAssumption DEF Counted, ToAnnotate, FitsAfter
    <3>2. Len(calls) \in Nat /\ Len(calls) >= 1
      BY <1>1, TheCall
    <3> QED
      BY <3>1, <3>2, ConstantsAssumption
  <2> HIDE DEF a
  <2> QED
    BY <2>1, ConstantsAssumption DEF Aio, a
<1>4. b \in Addr /\ buf[b].live
  <2>1. Owns(p)
    BY <1>1, <1>2, TheCall DEF ToAnnotate, Alive, Owns, Usable
  <2>2. ~RunPending(p)
    <3>1. Call("run", p).op # "annotate"
      BY DEF Call
    <3> QED
      BY <1>1, <3>1, TheCall DEF RunPending
  <2> QED
    BY <2>1, <2>2 DEF IoInv, Base, BuffersHeld
<1>5. /\ aio' = [aio EXCEPT ![a] = [buffer |-> b, woffset |-> 0, wdone |-> FALSE, rdone |-> FALSE]]
      /\ aios' = <<a>> \o aios /\ nItems' = nItems + 1
      /\ procA' = [procA EXCEPT ![a] = "forked"]
      /\ wfd' = [Inherit(AProc(a)) EXCEPT ![a] = {Ratc}]
      /\ born' = [born EXCEPT ![a] = buf[b].gen]
      /\ calls' = Tail(calls)
      /\ UNCHANGED <<phase, status, items, bios, bio, buf, pager, procB, inA>>
  BY DEF Annotate, Listed, heapVars
<1> HIDE DEF a, b
<1>6. /\ aio' \in [Aio -> [buffer : Addr \cup {NULL}, woffset : Int, wdone : BOOLEAN, rdone : BOOLEAN]]
      /\ aio'[a].buffer = b /\ aio'[a].woffset = 0 /\ ~aio'[a].wdone /\ ~aio'[a].rdone
      /\ \A c \in Aio \ {a} : aio'[c] = aio[c]
  <2> DEFINE r == [buffer |-> b, woffset |-> 0, wdone |-> FALSE, rdone |-> FALSE]
  <2>1. /\ r \in [buffer : Addr \cup {NULL}, woffset : Int, wdone : BOOLEAN, rdone : BOOLEAN]
        /\ r.buffer = b /\ r.woffset = 0 /\ ~r.wdone /\ ~r.rdone
    BY <1>4
  <2>2. aio' = [aio EXCEPT ![a] = r]
    BY <1>5
  <2> HIDE DEF r
  <2> QED
    BY <1>0, <1>3, <2>1, <2>2 DEF IoTypes
<1>7. /\ procA' \in [Aio -> ProcStates] /\ procA'[a] = "forked"
      /\ \A c \in Aio \ {a} : procA'[c] = procA[c]
  BY <1>0, <1>3, <1>5 DEF IoTypes, ProcStates
<1>8. /\ wfd' \in [Aio -> SUBSET Holders] /\ Ratc \in wfd'[a]
      /\ \A c \in Aio \ {a} : Ratc \in wfd'[c] <=> Ratc \in wfd[c]
  <2>1. AProc(a) # Ratc /\ AProc(a) \in Holders /\ {Ratc} \in SUBSET Holders
    BY <1>3 DEF AProc, Ratc, Holders
  <2> DEFINE w == Inherit(AProc(a))
  <2>2. w \in [Aio -> SUBSET Holders] /\ \A c \in Aio : Ratc \in w[c] <=> Ratc \in wfd[c]
    BY <1>0, <2>1 DEF IoTypes, Inherit
  <2>3. wfd' = [w EXCEPT ![a] = {Ratc}]
    BY <1>5
  <2> HIDE DEF w
  <2> QED
    BY <1>3, <2>1, <2>2, <2>3
<1>9. /\ born' \in [Aio -> Nat] /\ born'[a] = buf[b].gen
      /\ \A c \in Aio \ {a} : born'[c] = born[c]
  <2>1. buf[b].gen \in Nat
    BY <1>0, <1>4 DEF IoTypes
  <2> QED
    BY <1>0, <1>3, <1>5, <2>1 DEF IoTypes
<1>10. AnnotateStep(a, b)
  BY <1>3, <1>5, <1>6, <1>7, <1>8, <1>9 DEF AnnotateStep, a
<1> QED
  BY <1>2, <1>4, <1>10 DEF a, b

(* io_start_annotating_buffer keeps the invariant: the new annotator is    *)
(* the newest of its buffer and has its own write end.                     *)
LEMMA AnnotateKeeps ==
  ASSUME IoInv, NEW p \in Pager, Annotate(p)
  PROVE  IoInv'
<1>a. Calling("annotate", p)
  BY DEF Annotate
<1>b. PICK a, b : a = nAios + 1 /\ b = pager[p].buffer
  OBVIOUS
<1>c. AnnotateStep(a, b) /\ ToAnnotate /\ b \in Addr /\ buf[b].live
  BY <1>b, AnnotateEffect
<1>d. /\ a = nAios + 1 /\ a \in Aio
      /\ aio'[a].buffer = b /\ ~aio'[a].wdone /\ ~aio'[a].rdone
      /\ \A c \in Aio \ {a} : aio'[c] = aio[c]
      /\ aios' = <<a>> \o aios
      /\ procA'[a] = "forked" /\ \A c \in Aio \ {a} : procA'[c] = procA[c]
      /\ Ratc \in wfd'[a] /\ \A c \in Aio \ {a} : Ratc \in wfd'[c] <=> Ratc \in wfd[c]
      /\ born'[a] = buf[b].gen /\ \A c \in Aio \ {a} : born'[c] = born[c]
      /\ calls' = Tail(calls)
      /\ phase' = phase /\ status' = status /\ items' = items /\ bios' = bios /\ bio' = bio
      /\ buf' = buf /\ pager' = pager /\ procB' = procB /\ inA' = inA
  BY <1>c DEF AnnotateStep
<1> USE DEF IoInv, Base
<1>0. /\ \A k \in DOMAIN bios : bios[k] \in Bio
      /\ \A k \in DOMAIN aios : aios[k] \in Aio
      /\ aios \in Seq(Aio) /\ DOMAIN aios = 1..Len(aios)
      /\ nBios \in Nat /\ nAios \in Nat
      /\ \A c \in Aio : born[c] \in Nat
      /\ \A y \in Addr : buf[y].gen \in Nat
  BY ConstantsAssumption DEF IoTypes, Counted
<1>1. /\ calls' \in Seq(CallRec) /\ Len(calls) \in Nat \ {0} /\ Len(calls') = Len(calls) - 1
      /\ \A k \in 1..Len(calls') : calls'[k] = calls[k+1]
      /\ calls' # <<>> => /\ Len(calls') >= 1 /\ calls'[1] = calls[2]
                          /\ calls'[Len(calls')] = calls[Len(calls)]
  BY <1>a, <1>d, CallMade, TheCall
<1>2. /\ calls # <<>> /\ calls[1].op = "annotate" /\ Subject = p
      /\ phase \notin {"poll", "items", "prune"} /\ status # "undefined"
      /\ \A k \in DOMAIN calls : calls[k].pager = p
  BY <1>a, TheCall
<1>3. \A k \in DOMAIN calls : calls[k].op = "annotate"
  BY <1>1, <1>a, <1>c, TheCall DEF ToAnnotate, FitsAfter, Annotates
<1>4. \A k \in DOMAIN calls' : calls'[k].op = "annotate" /\ calls'[k].pager = p
  <2>1. \A k \in DOMAIN calls' : k + 1 \in DOMAIN calls /\ k \in 1..Len(calls')
    BY <1>1, <1>a, TheCall
  <2> QED
    BY <1>1, <1>2, <1>3, <2>1
<1>5. \A q \in Pager : /\ ~FreePending(q) /\ ~RunPending(q) /\ ~CancelPending(q)
                       /\ ~FreePending(q)' /\ ~RunPending(q)' /\ ~CancelPending(q)'
  <2>1. \A q \in Pager : /\ Call("free", q).op # "annotate" /\ Call("run", q).op # "annotate"
                         /\ Call("cancel", q).op # "annotate"
    BY DEF Call
  <2>2. 1 \in DOMAIN calls /\ Len(calls) \in DOMAIN calls
    BY <1>1, <1>a, TheCall
  <2>3. calls' # <<>> => 1 \in DOMAIN calls' /\ Len(calls') \in DOMAIN calls'
    BY <1>1
  <2> QED
    BY <1>3, <1>4, <2>1, <2>2, <2>3 DEF FreePending, RunPending, CancelPending
<1>6. /\ aios' \in Seq(Aio) /\ Len(aios') = Len(aios) + 1 /\ aios'[1] = a
      /\ \A k \in DOMAIN aios' : k # 1 => k - 1 \in DOMAIN aios /\ aios'[k] = aios[k-1]
      /\ \A k \in DOMAIN aios : k + 1 \in DOMAIN aios' /\ aios'[k+1] = aios[k]
      /\ 1 \in DOMAIN aios'
  BY <1>0, <1>d, Prepended
<1>7. /\ procA[a] = "none" /\ ~aio[a].rdone
      /\ \A k \in DOMAIN aios : aios[k] # a /\ aios[k] < a
      /\ \A c \in Aio : procA[c] # "none" => c < a /\ c # a
  <2>1. procA[a] = "none" /\ ~aio[a].rdone
    BY <1>0, <1>d DEF Counted
  <2>2. \A c \in Aio : procA[c] # "none" => c < a /\ c # a
    <3>1. \A c \in Aio : c \in Nat
      BY DEF Aio
    <3> QED
      BY <1>0, <1>d, <3>1 DEF Counted
  <2> QED
    BY <1>0, <2>1, <2>2 DEF ListsSorted
<1>8. \A c \in Aio \ {a} : Sibling(c) => Sibling(c)'
  <2> SUFFICES ASSUME NEW c \in Aio \ {a}, Sibling(c) PROVE Sibling(c)'
    OBVIOUS
  <2>1. PICK e \in Aio : e > c /\ born[e] = born[c] /\ aio[e].buffer = aio[c].buffer /\ aio[e].rdone
    BY DEF Sibling
  <2>2. e # a
    BY <1>7, <2>1
  <2> QED
    BY <1>d, <2>1, <2>2 DEF Sibling
<1>9. \A k \in DOMAIN aios : aio'[aios[k]] = aio[aios[k]] /\ born'[aios[k]] = born[aios[k]]
                             /\ procA'[aios[k]] = procA[aios[k]]
  BY <1>0, <1>7, <1>d
<1>10. IoTypes'
  <2>1. nItems' \in Nat
    BY <1>c DEF AnnotateStep, IoTypes
  <2>2. /\ aio' \in [Aio -> [buffer : Addr \cup {NULL}, woffset : Int, wdone : BOOLEAN, rdone : BOOLEAN]]
        /\ procA' \in [Aio -> ProcStates] /\ wfd' \in [Aio -> SUBSET Holders] /\ born' \in [Aio -> Nat]
    BY <1>c DEF AnnotateStep
  <2>3. calls' \in Seq(CallRec) /\ aios' \in Seq(Aio)
    BY <1>1, <1>6
  <2>4. /\ bios' \in Seq(Bio) /\ procB' \in [Bio -> ProcStates]
        /\ bio' \in [Bio -> [buffer : Addr \cup {NULL}, rdone : BOOLEAN]]
        /\ buf' \in [Addr -> [live : BOOLEAN, len : Nat, gen : Nat]]
        /\ pager' \in [Pager -> PagerRec] /\ inA' \in [Aio -> Int]
    BY <1>d DEF IoTypes, PagerRec
  <2> QED
    BY <2>1, <2>2, <2>3, <2>4 DEF IoTypes, CallRec, PagerRec
<1>11. nAios + 1 \in 0..MaxAios /\ \A c \in Aio : procA'[c] # "none" <=> c <= nAios + 1
  <2>1. nAios + 1 \in 0..MaxAios
    BY <1>0, <1>d, ConstantsAssumption DEF Aio
  <2>2. \A c \in 1..MaxAios : procA[c] # "none" <=> c <= nAios
    BY DEF Counted, Aio
  <2>3. \A c \in 1..MaxAios : c # a => procA'[c] = procA[c]
    BY <1>d DEF Aio
  <2>4. \A c \in 1..MaxAios : procA'[c] # "none" <=> c <= nAios + 1
    BY <1>0, <1>d, <2>2, <2>3
  <2> QED
    BY <2>1, <2>4 DEF Aio
<1>12. nAios' = nAios + 1 /\ nBios' = nBios
  <2> DEFINE n == nAios + 1
  <2>1. n \in 0..MaxAios /\ \A c \in 1..MaxAios : procA'[c] # "none" <=> c <= n
    BY <1>11 DEF Aio
  <2>2. nBios' = nBios
    BY <1>d DEF nBios
  <2> HIDE DEF n
  <2>3. Cardinality({c \in 1..MaxAios : procA'[c] # "none"}) = n
    BY <2>1, CountNumbered, ConstantsAssumption
  <2>4. nAios' = n
    BY <2>3 DEF nAios, Aio
  <2> QED
    BY <2>2, <2>4 DEF n
<1>13. Counted'
  <2>1. \A c \in Aio : procA'[c] = "none" => ~aio'[c].rdone
    BY <1>d DEF Counted
  <2> QED
    BY <1>11, <1>12, <1>d, <2>1 DEF Counted
<1>14. ListsSorted'
  <2>1. \A j, k \in DOMAIN aios' : j < k => aios'[j] > aios'[k]
    <3> SUFFICES ASSUME NEW j \in DOMAIN aios', NEW k \in DOMAIN aios', j < k
                 PROVE  aios'[j] > aios'[k]
      OBVIOUS
    <3>1. k # 1 /\ k - 1 \in DOMAIN aios /\ aios'[k] = aios[k-1]
      BY <1>6
    <3>2. CASE j = 1
      <4>1. aios[k-1] < a /\ aios[k-1] \in Nat /\ a \in Nat
        BY <1>0, <1>7, <1>d, <3>1 DEF Aio
      <4> QED
        BY <1>6, <3>1, <3>2, <4>1
    <3>3. CASE j # 1
      <4>1. j - 1 \in DOMAIN aios /\ aios'[j] = aios[j-1] /\ j - 1 < k - 1
        BY <1>6, <3>3
      <4> QED
        BY <3>1, <4>1 DEF ListsSorted
    <3> QED
      BY <3>2, <3>3
  <2>2. \A k \in DOMAIN aios' : procA'[aios'[k]] \notin {"none", "reaped"}
    <3> SUFFICES ASSUME NEW k \in DOMAIN aios' PROVE procA'[aios'[k]] \notin {"none", "reaped"}
      OBVIOUS
    <3>1. CASE k = 1
      BY <1>6, <1>d, <3>1
    <3>2. CASE k # 1
      <4>1. k - 1 \in DOMAIN aios /\ aios'[k] = aios[k-1]
        BY <1>6, <3>2
      <4> QED
        BY <1>9, <4>1 DEF ListsSorted
    <3> QED
      BY <3>1, <3>2
  <2> QED
    BY <1>d, <2>1, <2>2 DEF ListsSorted
<1>15. CallsFit'
  <2>1. calls' # <<>> => 1 \in DOMAIN calls' /\ DOMAIN calls' = 1..Len(calls')
    BY <1>1
  <2>2. calls' # <<>> => Subject' = p
    BY <1>4, <2>1 DEF Subject
  <2>3. calls' # <<>> => ToAnnotate'
    <3>1. calls' # <<>> => Alive'
      BY <1>2, <1>c, <1>d, <2>2 DEF ToAnnotate, Alive
    <3>2. nAios + 1 + Len(calls') <= MaxAios
      BY <1>0, <1>1, <1>c, ConstantsAssumption DEF ToAnnotate, FitsAfter
    <3>3. calls' # <<>> => FitsAfter(1)'
      BY <1>0, <1>1, <1>4, <1>12, <2>1, <3>2, ConstantsAssumption DEF FitsAfter, Annotates
    <3> QED
      BY <1>4, <2>1, <3>1, <3>3 DEF ToAnnotate
  <2> QED
    BY <1>2, <1>4, <1>d, <2>2, <2>3 DEF CallsFit
<1>16. \A q \in Pager : Owns(q)' <=> Owns(q)
  BY <1>5, <1>d DEF Owns
<1>17. BuffersHeld' /\ OwnersDiffer'
  BY <1>5, <1>16, <1>d DEF BuffersHeld, OwnersDiffer
<1>18. \A c : Abandoned(c)' <=> Abandoned(c)
  BY <1>d DEF Abandoned
<1>19. \A c : QuietB(c)' <=> QuietB(c)
  BY <1>d DEF QuietB
<1>20. ASSUME NEW c, c # b, Stopped(c) PROVE Stopped(c)'
  <2>1. QuietA(c) => QuietA(c)'
    <3> SUFFICES ASSUME QuietA(c), NEW k \in DOMAIN aios', aio'[aios'[k]].buffer = c
                 PROVE  aio'[aios'[k]].rdone \/ Sibling(aios[k])'
      BY DEF QuietA
    <3>1. k # 1
      BY <1>6, <1>20, <1>d
    <3>2. k - 1 \in DOMAIN aios /\ aios'[k] = aios[k-1] /\ aio'[aios'[k]] = aio[aios[k-1]]
      BY <1>6, <1>9, <3>1
    <3>3. aio[aios[k-1]].rdone \/ Sibling(aios[k-1])
      BY <3>2 DEF QuietA
    <3>4. aios[k-1] \in Aio \ {a}
      BY <1>0, <1>7, <3>2
    <3>5. \A e \in Aio : e = aios[k-1] /\ Sibling(e)' => Sibling(aios[k])'
      BY <3>2
    <3> QED
      BY <1>8, <3>2, <3>3, <3>4, <3>5
  <2> QED
    BY <1>18, <1>19, <1>20, <2>1 DEF Stopped
<1>21. CancelledStopped'
  <2> SUFFICES ASSUME NEW q \in Pager, Cancelled(q)', (pager[q].buffer # NULL)'
               PROVE  Stopped(pager[q].buffer)'
    BY DEF CancelledStopped
  <2>1. pager[q].state = "popped" /\ q # p
    BY <1>2, <1>5, <1>c, <1>d DEF Cancelled, ToAnnotate, Alive
  <2>2. Cancelled(q) /\ Owns(q) /\ Owns(p)
    BY <1>2, <1>5, <1>c, <2>1 DEF Cancelled, Owns, Usable, ToAnnotate, Alive
  <2>3. pager'[q].buffer = pager[q].buffer /\ pager[q].buffer # b
    BY <1>b, <1>d, <2>1, <2>2 DEF OwnersDiffer
  <2> DEFINE c == pager[q].buffer
  <2>4. Stopped(c)
    BY <1>d, <2>2 DEF CancelledStopped
  <2>5. c' = c
    BY <2>3
  <2>6. \A e : e # b /\ Stopped(e) => Stopped(e)'
    BY <1>20
  <2> QED
    BY <2>3, <2>4, <2>5, <2>6
<1>22. NewestReads' /\ ReadersHeld'
  BY <1>18, <1>d DEF NewestReads, ReadersHeld
<1>23. OrphansExplained'
  <2> SUFFICES ASSUME NEW k \in DOMAIN aios', ~aio'[aios'[k]].rdone
               PROVE  \E c \in Aio : c = aios'[k] /\ (Own(c)' \/ Abandoned(aio'[c].buffer) \/ Sibling(c)')
    BY <1>18 DEF OrphansExplained
  <2>1. CASE k = 1
    <3>1. Own(a)'
      BY <1>c, <1>d DEF Own
    <3> QED
      BY <1>6, <1>d, <2>1, <3>1
  <2>2. CASE k # 1
    <3>1. k - 1 \in DOMAIN aios /\ aios'[k] = aios[k-1] /\ aio'[aios[k-1]] = aio[aios[k-1]]
          /\ aios[k-1] \in Aio \ {a} /\ born'[aios[k-1]] = born[aios[k-1]]
      BY <1>0, <1>6, <1>7, <1>9, <2>2
    <3>2. Own(aios[k-1]) \/ Abandoned(aio[aios[k-1]].buffer) \/ Sibling(aios[k-1])
      BY <3>1 DEF OrphansExplained
    <3>3. \A c \in Aio \ {a} : Own(c) => Own(c)'
      BY <1>d DEF Own
    <3> QED
      BY <1>8, <3>1, <3>2, <3>3
  <2> QED
    BY <2>1, <2>2
<1>24. Generations'
  <2>1. \A c \in Aio : procA'[c] # "none" =>
          aio'[c].buffer \in Addr /\ born'[c] <= buf[aio'[c].buffer].gen
    <3>1. born'[a] <= buf[b].gen
      BY <1>0, <1>c, <1>d
    <3> QED
      BY <1>c, <1>d, <3>1 DEF Generations
  <2>2. ASSUME NEW c \in Aio, NEW e \in Aio, c < e, procA'[e] # "none", aio'[c].buffer = aio'[e].buffer
        PROVE  born'[c] <= born'[e]
    <3>1. e <= a /\ c # a /\ procA[c] # "none"
      <4>1. c \in Nat /\ e \in Nat
        BY DEF Aio
      <4>2. e <= nAios + 1
        BY <1>11, <2>2
      <4>3. c <= nAios
        BY <1>0, <2>2, <4>1, <4>2
      <4> QED
        BY <1>0, <1>d, <4>1, <4>2, <4>3 DEF Counted
    <3>2. CASE e = a
      <4>1. aio[c].buffer = b /\ born'[c] = born[c] /\ born'[e] = buf[b].gen
        BY <1>d, <2>2, <3>1, <3>2
      <4> QED
        BY <3>1, <4>1 DEF Generations
    <3>3. CASE e # a
      BY <1>d, <2>2, <3>1, <3>3 DEF Generations
    <3> QED
      BY <3>2, <3>3
  <2> QED
    BY <1>d, <2>1, <2>2 DEF Generations
<1>25. WriteEnds'
  BY <1>d DEF WriteEnds
<1>26. Eofs'
  <2> SUFFICES ASSUME NEW c \in Aio, procA'[c] # "none", Ratc \notin wfd'[c], Own(c)',
                      ~Abandoned(aio'[c].buffer)
               PROVE  aio'[c].woffset = buf[aio'[c].buffer].len /\ QuietB(aio'[c].buffer)
    BY <1>18, <1>19, <1>d DEF Eofs
  <2>1. c # a
    BY <1>d
  <2>2. procA[c] # "none" /\ Ratc \notin wfd[c] /\ aio'[c] = aio[c] /\ Own(c)
    BY <1>d, <2>1 DEF Own
  <2> QED
    BY <2>2 DEF Eofs
<1>27. EndedInv'
  <2>1. \A k \in DOMAIN aios' : aio'[aios'[k]].rdone => procA'[aios'[k]] \in {"ending", "dead"}
    <3> SUFFICES ASSUME NEW k \in DOMAIN aios', aio'[aios'[k]].rdone
                 PROVE  procA'[aios'[k]] \in {"ending", "dead"}
      OBVIOUS
    <3>1. k # 1
      BY <1>6, <1>d
    <3>2. k - 1 \in DOMAIN aios /\ aios'[k] = aios[k-1]
      BY <1>6, <3>1
    <3> QED
      BY <1>9, <3>2 DEF EndedInv
  <2> QED
    BY <1>d, <2>1 DEF EndedInv
<1>28. Fallen'
  <2> SUFFICES ASSUME NEW c \in Aio, procA'[c] \notin {"none", "reaped"},
                      \A k \in DOMAIN aios' : aios'[k] # c
               PROVE  \E e \in 1..c-1 : procA'[e] = "reaped"
    BY DEF Fallen
  <2>1. c # a /\ \A k \in DOMAIN aios : aios[k] # c
    BY <1>6
  <2>2. PICK e \in 1..c-1 : procA[e] = "reaped"
    BY <1>d, <2>1 DEF Fallen
  <2>3. e \in Aio
    BY ConstantsAssumption DEF Aio
  <2>4. e # a
    BY <1>7, <2>2
  <2> QED
    BY <1>d, <2>2, <2>3, <2>4
<1>29. ItemsInv'
  BY <1>2, <1>d DEF ItemsInv
<1>30. PolledInv'
  <2> SUFFICES ASSUME phase = "script", NEW k \in DOMAIN aios', aio'[aios'[k]].rdone
               PROVE  aio'[aios'[k]].wdone
    BY <1>2, <1>d DEF PolledInv
  <2>1. k # 1
    BY <1>6, <1>d
  <2>2. k - 1 \in DOMAIN aios /\ aio'[aios'[k]] = aio[aios[k-1]]
    BY <1>6, <1>9, <2>1
  <2> QED
    BY <2>2 DEF PolledInv
<1>31. UndefinedInv'
  BY <1>2, <1>d DEF UndefinedInv
<1> QED
  BY <1>10, <1>13, <1>14, <1>15, <1>17, <1>21, <1>22, <1>23, <1>24, <1>25, <1>26, <1>27, <1>28, <1>29, <1>30, <1>31
-----------------------------------------------------------------------------
ItemRec == [type : ItemTypes, id : Nat, hup : BOOLEAN]

(* The item that is handled, and those that are left.                      *)
LEMMA ItemTaken ==
  ASSUME IoInv, NEW type, Handling(type), items' = Tail(items)
  PROVE  /\ ItemOpen(Head(items)) /\ Head(items) \in ItemRec /\ Head(items).type = type
         /\ phase = "items" /\ calls = <<>> /\ status # "undefined"
         /\ items' \in Seq(ItemRec)
         /\ \A k \in DOMAIN items' :
              /\ k + 1 \in DOMAIN items /\ items'[k] = items[k+1]
              /\ ItemOpen(items'[k])
              /\ ~(items'[k].type = type /\ items'[k].id = Head(items).id)
         /\ \A j, k \in DOMAIN items' :
              j < k /\ items'[j].type = items'[k].type => items'[j].id # items'[k].id
<1> USE DEF Handling
<1>0. ItemsInv
  BY DEF IoInv
<1>1. phase = "items" /\ calls = <<>> /\ status # "undefined"
  BY DEF IoInv, CallsFit, UndefinedInv
<1>2. items \in Seq(ItemRec) /\ items # <<>>
  BY <1>0 DEF ItemsInv, ItemRec
<1>3. /\ Head(items) = items[1] /\ 1 \in DOMAIN items /\ Head(items) \in ItemRec
      /\ items' \in Seq(ItemRec) /\ DOMAIN items' = 1..Len(items)-1
      /\ \A k \in 1..Len(items)-1 : items'[k] = items[k+1]
      /\ DOMAIN items = 1..Len(items) /\ Len(items) \in Nat
  <2>1. /\ Head(items) = items[1] /\ Len(items) \in Nat \ {0} /\ items' \in Seq(ItemRec)
        /\ Len(items') = Len(items) - 1
        /\ \A k \in 1..Len(items)-1 : items'[k] = items[k+1]
    BY <1>2, HeadTailProperties, EmptySeq
  <2> QED
    BY <1>2, <2>1
<1>4. \A k \in DOMAIN items' : k \in 1..Len(items)-1 /\ k + 1 \in DOMAIN items /\ 1 < k + 1
  BY <1>3
<1>5. \A k \in DOMAIN items' : ItemOpen(items[k+1]) /\ items'[k] = items[k+1]
  BY <1>0, <1>1, <1>3, <1>4 DEF ItemsInv
<1>6. \A k \in DOMAIN items' : items[1].type = items[k+1].type => items[1].id # items[k+1].id
  BY <1>0, <1>1, <1>3, <1>4 DEF ItemsInv
<1>7. \A j, k \in DOMAIN items' :
        j < k /\ items'[j].type = items'[k].type => items'[j].id # items'[k].id
  <2>1. \A j, k \in DOMAIN items' : j < k => j + 1 < k + 1
    BY <1>3
  <2> QED
    BY <1>0, <1>1, <1>4, <1>5, <2>1 DEF ItemsInv
<1>8. ItemOpen(Head(items))
  BY <1>0, <1>1, <1>3 DEF ItemsInv
<1> QED
  BY <1>1, <1>3, <1>4, <1>5, <1>6, <1>7, <1>8

(* Handling an item finishes at most what it is about.                     *)
LEMMA HandledKeeps ==
  ASSUME IoInv, NEW type, Handling(type), items' = Tail(items),
         UNCHANGED <<phase, status, calls, bios, aios, nItems, pager, procB, procA, born>>,
         bio' \in [Bio -> [buffer : Addr \cup {NULL}, rdone : BOOLEAN]],
         aio' \in [Aio -> [buffer : Addr \cup {NULL}, woffset : Int, wdone : BOOLEAN, rdone : BOOLEAN]],
         buf' \in [Addr -> [live : BOOLEAN, len : Nat, gen : Nat]],
         wfd' \in [Aio -> SUBSET Holders], inA' \in [Aio -> Int],
         \A i \in Bio : /\ bio'[i].buffer = bio[i].buffer /\ (bio[i].rdone => bio'[i].rdone)
                        /\ bio'[i].rdone => bio[i].rdone \/ procB[i] \in {"ending", "dead"},
         \A a \in Aio : /\ aio'[a].buffer = aio[a].buffer /\ (aio[a].rdone => aio'[a].rdone)
                        /\ aio'[a].rdone => aio[a].rdone \/ procA[a] \in {"ending", "dead"},
         \A y \in Addr : buf'[y].gen = buf[y].gen /\ (buf'[y].live <=> buf[y].live),
         WriteEnds', Eofs',
         \A it : ItemOpen(it) /\ ~(it.type = type /\ it.id = Head(items).id) => ItemOpen(it)'
  PROVE  IoInv'
<1> USE DEF IoInv, Base
<1>0. /\ \A k \in DOMAIN bios : bios[k] \in Bio
      /\ \A k \in DOMAIN aios : aios[k] \in Aio
      /\ phase = "items" /\ calls = <<>> /\ status # "undefined"
  BY ItemTaken DEF IoTypes
<1>1. IoTypes'
  BY DEF IoTypes
<1>2. nBios' = nBios /\ nAios' = nAios
  BY DEF nBios, nAios
<1>3. Counted'
  BY <1>2 DEF Counted
<1>4. ListsSorted'
  BY DEF ListsSorted
<1>5. BuffersHeld' /\ OwnersDiffer'
  <2>1. \A q \in Pager : Owns(q)' <=> Owns(q)
    BY DEF Owns, FreePending
  <2>2. \A q \in Pager : RunPending(q)' <=> RunPending(q)
    BY DEF RunPending
  <2> QED
    BY <2>1, <2>2 DEF BuffersHeld, OwnersDiffer
<1>6. \A a \in Aio : Sibling(a) => Sibling(a)'
  BY DEF Sibling
<1>7. \A c : Abandoned(c)' <=> Abandoned(c)
  BY DEF Abandoned
<1>8. \A c : Stopped(c) => Stopped(c)'
  <2> SUFFICES ASSUME NEW c, Stopped(c) PROVE Stopped(c)'
    OBVIOUS
  <2>1. QuietB(c) => QuietB(c)'
    BY <1>0 DEF QuietB
  <2>2. QuietA(c) => QuietA(c)'
    <3> SUFFICES ASSUME QuietA(c), NEW k \in DOMAIN aios, aio[aios[k]].buffer = c
                 PROVE  aio'[aios[k]].rdone \/ Sibling(aios[k])'
      BY <1>0 DEF QuietA
    <3> QED
      BY <1>0, <1>6 DEF QuietA
  <2> QED
    BY <1>7, <2>1, <2>2 DEF Stopped
<1>9. CancelledStopped'
  <2>1. \A q \in Pager : Cancelled(q)' <=> Cancelled(q)
    BY DEF Cancelled, FreePending, RunPending, CancelPending
  <2> QED
    BY <1>8, <2>1 DEF CancelledStopped
<1>10. NewestReads' /\ ReadersHeld'
  BY <1>0, <1>7 DEF NewestReads, ReadersHeld
<1>11. OrphansExplained'
  <2>1. \A k \in DOMAIN aios : Own(aios[k]) => Own(aios[k])'
    BY <1>0 DEF Own, Generations, ListsSorted
  <2> QED
    BY <1>0, <1>6, <1>7, <2>1 DEF OrphansExplained
<1>12. Generations'
  BY DEF Generations
<1>13. EndedInv'
  BY <1>0 DEF EndedInv
<1>14. Fallen'
  BY DEF Fallen
<1>15. CallsFit'
  BY <1>0 DEF CallsFit
<1>16. ItemsInv'
  <2>1. items' \in Seq(ItemRec)
    BY ItemTaken
  <2>2. \A k \in DOMAIN items' : \E it : it = items'[k] /\ ItemOpen(it)'
    <3> SUFFICES ASSUME NEW k \in DOMAIN items' PROVE \E it : it = items'[k] /\ ItemOpen(it)'
      OBVIOUS
    <3>1. PICK it : it = items'[k]
      OBVIOUS
    <3>2. ItemOpen(it) /\ ~(it.type = type /\ it.id = Head(items).id)
      BY <3>1, ItemTaken
    <3>3. ItemOpen(it)'
      BY <3>2
    <3> QED
      BY <3>1, <3>3
  <2>3. \A j, k \in DOMAIN items' :
          j < k /\ items'[j].type = items'[k].type => items'[j].id # items'[k].id
    BY ItemTaken
  <2> QED
    BY <2>1, <2>2, <2>3 DEF ItemsInv, ItemRec
<1>17. PolledInv' /\ UndefinedInv'
  BY <1>0 DEF PolledInv, UndefinedInv
<1> QED
  BY <1>1, <1>3, <1>4, <1>5, <1>9, <1>10, <1>11, <1>12, <1>13, <1>14, <1>15, <1>16, <1>17
-----------------------------------------------------------------------------
(* The item that is at the head, before anything is done to it.            *)
LEMMA HeadItem ==
  ASSUME IoInv, NEW type, Handling(type)
  PROVE  /\ ItemOpen(Head(items)) /\ Head(items) \in ItemRec /\ Head(items).type = type
         /\ phase = "items" /\ calls = <<>> /\ status # "undefined"
<1>1. ItemsInv /\ items # <<>> /\ Head(items).type = type /\ phase = "items"
  BY DEF Handling, IoInv
<1>2. items \in Seq(ItemRec) /\ 1 \in DOMAIN items /\ Head(items) = items[1]
  BY <1>1 DEF ItemsInv, ItemRec
<1> QED
  BY <1>1, <1>2 DEF ItemsInv, IoInv, CallsFit, UndefinedInv

(* What one read adds to the buffer, and what it finishes.                 *)
ReadStep(i, b, hup) ==
  /\ outB' = [outB EXCEPT ![i] = IF hup THEN 0 ELSE @ - 1]
  /\ \E g : /\ g = 0 \/ g \in 0..(MaxContent - buf[b].len)
            /\ buf' = [buf EXCEPT ![b].len = @ + g]
  /\ bio' = [bio EXCEPT ![i].rdone = hup]
  /\ items' = Tail(items)
  /\ UNCHANGED <<phase, status, done, calls, bios, aios, aio, nItems, pager,
                 procB, procA, leftB, inA, outA, leftA, wfd, ops, born>>

(* A read is such a step, or touches a freed buffer.                       *)
LEMMA BufferReadEffect ==
  ASSUME NEW i, NEW b, NEW hup, BufferRead,
         i = Head(items).id, b = bio[i].buffer, hup = Head(items).hup
  PROVE  (~buf[b].live /\ Ends("undefined")) \/ ReadStep(i, b, hup)
<1> DEFINE Adds(g) == buf' = [buf EXCEPT ![b].len = @ + g]
           Rest == /\ outB' = [outB EXCEPT ![i] = IF hup THEN 0 ELSE @ - 1]
                   /\ bio' = [bio EXCEPT ![i].rdone = hup]
                   /\ items' = Tail(items)
                   /\ UNCHANGED <<phase, status, done, calls, bios, aios, aio, nItems, pager,
                                  procB, procA, leftB, inA, outA, leftA, wfd, histVars>>
<1>1. PICK token : IF token /\ ~buf[b].live THEN Ends("undefined")
                   ELSE Rest /\ \E g \in 0..(IF token THEN MaxContent - buf[b].len ELSE 0) : Adds(g)
  BY Zenon DEF BufferRead
<1>2. Rest => Rest /\ ops' = ops /\ born' = born
  BY DEF histVars
<1> HIDE DEF Adds, Rest
<1>3. CASE token /\ ~buf[b].live
  BY <1>1, <1>3, Zenon
<1>4. CASE ~(token /\ ~buf[b].live)
  <2>1. Rest /\ \E g \in 0..(IF token THEN MaxContent - buf[b].len ELSE 0) : Adds(g)
    BY <1>1, <1>4, Zenon
  <2>2. PICK g \in 0..(IF token THEN MaxContent - buf[b].len ELSE 0) : Adds(g)
    BY <2>1
  <2>3. g = 0 \/ g \in 0..(MaxContent - buf[b].len)
    <3>1. CASE token
      BY <2>2, <3>1, Zenon
    <3>2. CASE ~token
      <4>1. g \in 0..0
        BY <2>2, <3>2, Zenon
      <4> QED
        BY <4>1
    <3> QED
      BY <3>1, <3>2
  <2> QED
    BY <1>2, <2>1, <2>2, <2>3, Zenon DEF Adds, Rest, ReadStep
<1> QED
  BY <1>3, <1>4, Zenon

(* buffer_io_read keeps the invariant: what it adds to a buffer is no loss *)
(* to an annotator that got its end of input, for the command ran until    *)
(* now.                                                                    *)
LEMMA BufferReadKeeps ==
  ASSUME IoInv, BufferRead
  PROVE  IoInv'
<1> DEFINE i == Head(items).id
           b == bio[i].buffer
           hup == Head(items).hup
<1>a. Handling("buffer_in")
  BY DEF BufferRead
<1>b. /\ ItemOpen(Head(items)) /\ Head(items) \in ItemRec /\ Head(items).type = "buffer_in"
      /\ phase = "items" /\ calls = <<>> /\ status # "undefined"
  BY <1>a, HeadItem
<1>c. (~buf[b].live /\ Ends("undefined")) \/ ReadStep(i, b, hup)
  BY BufferReadEffect
<1>0. /\ \A k \in DOMAIN bios : bios[k] \in Bio
      /\ bio \in [Bio -> [buffer : Addr \cup {NULL}, rdone : BOOLEAN]]
      /\ buf \in [Addr -> [live : BOOLEAN, len : Nat, gen : Nat]]
      /\ IoTypes
  BY DEF IoTypes, IoInv, Base
<1>1. PICK k \in DOMAIN bios : bios[k] = i
  BY <1>b DEF ItemOpen
<1>2. i \in Bio /\ ~bio[i].rdone /\ hup \in BOOLEAN /\ (hup => Hung(procB[i]))
  BY <1>0, <1>1, <1>b DEF ItemOpen, ItemRec
<1>3. b \in Addr /\ (buf[b].live \/ Abandoned(b))
  BY <1>1, <1>2 DEF IoInv, Base, ReadersHeld
<1>4. CASE ~buf[b].live /\ Ends("undefined")
  BY <1>3, <1>4, <1>b, EndKeeps DEF Abandoned
<1>5. CASE ReadStep(i, b, hup)
  <2>1. PICK g : /\ g = 0 \/ g \in 0..(MaxContent - buf[b].len)
                 /\ buf' = [buf EXCEPT ![b].len = @ + g]
    BY <1>5 DEF ReadStep
  <2>2. /\ bio' = [bio EXCEPT ![i].rdone = hup] /\ items' = Tail(items)
        /\ UNCHANGED <<phase, status, calls, bios, aios, aio, nItems, pager,
                       procB, procA, inA, wfd, born>>
    BY <1>5 DEF ReadStep
  <2> HIDE DEF i, b, hup
  <2>3. g \in Nat
    BY <1>0, <1>3, <2>1, ConstantsAssumption
  <2>4. /\ buf' \in [Addr -> [live : BOOLEAN, len : Nat, gen : Nat]]
        /\ \A y \in Addr : buf'[y].gen = buf[y].gen /\ (buf'[y].live <=> buf[y].live)
        /\ \A y \in Addr \ {b} : buf'[y].len = buf[y].len
    <3> DEFINE r == [buf[b] EXCEPT !.len = @ + g]
    <3>1. buf[b] \in [live : BOOLEAN, len : Nat, gen : Nat] /\ buf[b].len + g \in Nat
      BY <1>0, <1>3, <2>3
    <3>2. /\ r \in [live : BOOLEAN, len : Nat, gen : Nat]
          /\ r.gen = buf[b].gen /\ (r.live <=> buf[b].live)
      BY <3>1
    <3>3. buf' = [buf EXCEPT ![b] = r]
      BY <1>0, <1>3, <2>1
    <3> HIDE DEF r
    <3> QED
      BY <1>0, <1>3, <3>2, <3>3
  <2>5. /\ bio' \in [Bio -> [buffer : Addr \cup {NULL}, rdone : BOOLEAN]]
        /\ \A j \in Bio : bio'[j].buffer = bio[j].buffer
        /\ \A j \in Bio : j # i => bio'[j] = bio[j]
        /\ bio'[i].rdone = hup
    BY <1>0, <1>2, <2>2
  <2>6. procB[i] \notin {"none", "reaped"}
    BY <1>1 DEF IoInv, Base, ListsSorted
  <2>7. \A j \in Bio : /\ bio[j].rdone => bio'[j].rdone
                       /\ bio'[j].rdone => bio[j].rdone \/ procB[j] \in {"ending", "dead"}
    BY <1>2, <2>5, <2>6 DEF Hung
  <2>8. WriteEnds'
    BY <2>2 DEF IoInv, Base, WriteEnds
  <2>9. Eofs'
    <3> SUFFICES ASSUME NEW a \in Aio, procA[a] # "none", Ratc \notin wfd[a], Own(a)',
                        ~Abandoned(aio[a].buffer)'
                 PROVE  aio[a].woffset = buf'[aio[a].buffer].len /\ QuietB(aio[a].buffer)'
      BY <2>2 DEF Eofs
    <3> DEFINE c == aio[a].buffer
    <3>1. c \in Addr /\ Own(a) /\ ~Abandoned(c)
      BY <2>2, <2>4 DEF Own, Abandoned, IoInv, Base, Generations
    <3>2. aio[a].woffset = buf[c].len /\ QuietB(c)
      BY <3>1 DEF IoInv, Base, Eofs
    <3>3. c # b
      BY <1>1, <1>2, <3>2 DEF QuietB, b
    <3>4. QuietB(c)'
      BY <1>0, <2>2, <2>5, <2>7, <3>2 DEF QuietB
    <3> QED
      BY <2>4, <3>1, <3>2, <3>3, <3>4
  <2>10. \A it : ItemOpen(it) /\ ~(it.type = "buffer_in" /\ it.id = Head(items).id) => ItemOpen(it)'
    <3> SUFFICES ASSUME NEW it, ItemOpen(it), ~(it.type = "buffer_in" /\ it.id = i) PROVE ItemOpen(it)'
      BY DEF i
    <3>1. it.type = "buffer_in" => it.id \in Bio /\ it.id # i
      BY <1>0 DEF ItemOpen
    <3> QED
      BY <2>2, <2>5, <3>1 DEF ItemOpen
  <2>11. /\ aio' \in [Aio -> [buffer : Addr \cup {NULL}, woffset : Int, wdone : BOOLEAN, rdone : BOOLEAN]]
         /\ wfd' \in [Aio -> SUBSET Holders] /\ inA' \in [Aio -> Int]
    BY <1>0, <2>2 DEF IoTypes
  <2> QED
    BY <1>a, <2>2, <2>4, <2>5, <2>7, <2>8, <2>9, <2>10, <2>11, HandledKeeps
<1> QED
  BY <1>c, <1>4, <1>5, Zenon
-----------------------------------------------------------------------------
(* An annotator has a newer sibling only if two were started.              *)
LEMMA SiblingsAreTwo ==
  ASSUME IoInv, NEW a \in Aio, Sibling(a)
  PROVE  nAios >= 2
<1>1. PICK c \in Aio : c > a /\ aio[c].rdone
  BY DEF Sibling
<1>2. procA[c] # "none" /\ c <= nAios /\ nAios \in Nat
  BY <1>1, ConstantsAssumption DEF IoInv, Base, Counted
<1>3. a \in Nat /\ a >= 1 /\ c \in Nat
  BY DEF Aio
<1> QED
  BY <1>1, <1>2, <1>3

(* annotator_io_read keeps the invariant: it finishes what hung up.        *)
LEMMA AnnotatorReadKeeps ==
  ASSUME IoInv, AnnotatorRead
  PROVE  IoInv'
<1> DEFINE a == Head(items).id
           b == aio[a].buffer
           hup == Head(items).hup
<1>a. Handling("annotator_in")
  BY DEF AnnotatorRead
<1>b. /\ ItemOpen(Head(items)) /\ Head(items) \in ItemRec /\ Head(items).type = "annotator_in"
      /\ phase = "items" /\ calls = <<>> /\ status # "undefined"
  BY <1>a, HeadItem
<1>c. PICK complete \in {FALSE, outA[a] > 0} :
        IF complete /\ ~buf[b].live
        THEN Ends("undefined")
        ELSE /\ aio' = [aio EXCEPT ![a].rdone = hup]
             /\ items' = Tail(items)
             /\ UNCHANGED <<phase, status, calls, bios, bio, aios, nItems, buf, pager,
                            procB, procA, inA, wfd, born>>
  BY DEF AnnotatorRead, histVars, heapVars
<1>0. /\ \A k \in DOMAIN aios : aios[k] \in Aio
      /\ aio \in [Aio -> [buffer : Addr \cup {NULL}, woffset : Int, wdone : BOOLEAN, rdone : BOOLEAN]]
      /\ IoTypes
  BY DEF IoTypes, IoInv, Base
<1>1. PICK k \in DOMAIN aios : aios[k] = a
  BY <1>b DEF ItemOpen
<1>2. a \in Aio /\ ~aio[a].rdone /\ hup \in BOOLEAN /\ (hup => Hung(procA[a]))
  BY <1>0, <1>1, <1>b DEF ItemOpen, ItemRec
<1>3. Own(a) \/ Abandoned(b) \/ Sibling(a)
  BY <1>1, <1>2 DEF IoInv, Base, OrphansExplained
<1>4. CASE complete /\ ~buf[b].live
  <2>1. Ends("undefined")
    BY <1>4, <1>c
  <2>2. nAios <= 1 => ~Sibling(a)
    <3>1. nAios \in Nat
      BY ConstantsAssumption DEF IoInv, Base, Counted
    <3> HIDE DEF a
    <3> QED
      BY <1>2, <3>1, SiblingsAreTwo
  <2>3. nAios <= 1 => \E p \in Pager : pager[p].state = "abandoned"
    BY <1>3, <1>4, <2>2 DEF Own, Abandoned
  <2> QED
    BY <1>b, <2>1, <2>3, EndKeeps
<1>5. CASE ~(complete /\ ~buf[b].live)
  <2>2. /\ aio' = [aio EXCEPT ![a].rdone = hup] /\ items' = Tail(items)
        /\ UNCHANGED <<phase, status, calls, bios, bio, aios, nItems, buf, pager,
                       procB, procA, inA, wfd, born>>
    BY <1>5, <1>c
  <2> HIDE DEF a, b, hup
  <2>5. /\ aio' \in [Aio -> [buffer : Addr \cup {NULL}, woffset : Int, wdone : BOOLEAN, rdone : BOOLEAN]]
        /\ \A c \in Aio : /\ aio'[c].buffer = aio[c].buffer /\ aio'[c].woffset = aio[c].woffset
                          /\ aio'[c].wdone <=> aio[c].wdone
        /\ \A c \in Aio : c # a => aio'[c] = aio[c]
        /\ aio'[a].rdone = hup
    <3> DEFINE r == [aio[a] EXCEPT !.rdone = hup]
    <3>1. /\ r \in [buffer : Addr \cup {NULL}, woffset : Int, wdone : BOOLEAN, rdone : BOOLEAN]
          /\ r.buffer = aio[a].buffer /\ r.woffset = aio[a].woffset /\ (r.wdone <=> aio[a].wdone)
          /\ r.rdone = hup
      BY <1>0, <1>2
    <3>2. aio' = [aio EXCEPT ![a] = r]
      BY <1>0, <1>2, <2>2
    <3> HIDE DEF r
    <3> QED
      BY <1>0, <1>2, <3>1, <3>2
  <2>6. procA[a] \notin {"none", "reaped"}
    BY <1>1 DEF IoInv, Base, ListsSorted
  <2>7. \A c \in Aio : /\ aio[c].rdone => aio'[c].rdone
                       /\ aio'[c].rdone => aio[c].rdone \/ procA[c] \in {"ending", "dead"}
    BY <1>2, <2>5, <2>6 DEF Hung
  <2>8. WriteEnds'
    BY <2>2, <2>5 DEF IoInv, Base, WriteEnds
  <2>9. Eofs'
    <3>1. \A c : QuietB(c)' <=> QuietB(c)
      BY <2>2 DEF QuietB
    <3>2. \A c : Abandoned(c)' <=> Abandoned(c)
      BY <2>2 DEF Abandoned
    <3>3. \A c \in Aio : Own(c)' <=> Own(c)
      BY <2>2, <2>5 DEF Own
    <3> QED
      BY <2>2, <2>5, <3>1, <3>2, <3>3 DEF IoInv, Base, Eofs
  <2>10. \A it : ItemOpen(it) /\ ~(it.type = "annotator_in" /\ it.id = Head(items).id) => ItemOpen(it)'
    <3> SUFFICES ASSUME NEW it, ItemOpen(it), ~(it.type = "annotator_in" /\ it.id = a) PROVE ItemOpen(it)'
      BY DEF a
    <3>1. it.type = "annotator_in" => it.id \in Aio /\ it.id # a
      BY <1>0 DEF ItemOpen
    <3> QED
      BY <2>2, <2>5, <3>1 DEF ItemOpen
  <2>11. /\ bio' \in [Bio -> [buffer : Addr \cup {NULL}, rdone : BOOLEAN]]
         /\ buf' \in [Addr -> [live : BOOLEAN, len : Nat, gen : Nat]]
         /\ wfd' \in [Aio -> SUBSET Holders] /\ inA' \in [Aio -> Int]
    BY <1>0, <2>2 DEF IoTypes
  <2> QED
    BY <1>a, <2>2, <2>5, <2>7, <2>8, <2>9, <2>10, <2>11, HandledKeeps
<1> QED
  BY <1>4, <1>5
-----------------------------------------------------------------------------
(* io_buffer_is_running says of a buffer that nothing is read for it.      *)
LEMMA NotRunning ==
  ASSUME IoInv, NEW b, ~Abandoned(b), ~IsRunning(b)
  PROVE  QuietB(b)
<1>0. bios \in Seq(Bio) /\ DOMAIN bios = 1..Len(bios)
  BY DEF IoInv, Base, IoTypes
<1>1. FirstBio(b) = 0 \/ bio[bios[FirstBio(b)]].rdone
  BY DEF IsRunning, FirstBio
<1>2. \/ FirstBio(b) = 0 /\ \A j \in DOMAIN bios : bio[bios[j]].buffer # b
      \/ /\ FirstBio(b) \in DOMAIN bios /\ bio[bios[FirstBio(b)]].buffer = b
         /\ \A j \in DOMAIN bios : j < FirstBio(b) => bio[bios[j]].buffer # b
  BY <1>0, FirstBioIs
<1> SUFFICES ASSUME NEW k \in DOMAIN bios, bio[bios[k]].buffer = b PROVE bio[bios[k]].rdone
  BY DEF QuietB
<1>3. FirstBio(b) \in DOMAIN bios /\ bio[bios[FirstBio(b)]].buffer = b /\ FirstBio(b) <= k
      /\ FirstBio(b) # 0
  BY <1>0, <1>2
<1>4. CASE FirstBio(b) = k
  BY <1>1, <1>3, <1>4
<1>5. CASE FirstBio(b) < k
  BY <1>3, <1>5 DEF IoInv, Base, NewestReads
<1> QED
  BY <1>0, <1>3, <1>4, <1>5

(* annotator_io_write keeps the invariant: it closes the input of an       *)
(* annotator that was given everything of a command that is finished.      *)
LEMMA AnnotatorWriteKeeps ==
  ASSUME IoInv, AnnotatorWrite
  PROVE  IoInv'
<1> DEFINE a == Head(items).id
           b == aio[a].buffer
           n == Written(a)
<1>a. Handling("annotator_out")
  BY DEF AnnotatorWrite
<1>b. /\ ItemOpen(Head(items)) /\ Head(items) \in ItemRec /\ Head(items).type = "annotator_out"
      /\ phase = "items" /\ calls = <<>> /\ status # "undefined"
  BY <1>a, HeadItem
<1>c. IF Remaining(a) > 0 /\ Hung(procA[a])
      THEN Ends("killed")
      ELSE /\ inA' = [inA EXCEPT ![a] = @ + n]
           /\ aio' = [aio EXCEPT ![a].woffset = @ + n, ![a].wdone = @ \/ EndOfInput(a, n)]
           /\ wfd' = [wfd EXCEPT ![a] = IF EndOfInput(a, n) THEN @ \ {Ratc} ELSE @]
           /\ items' = Tail(items)
           /\ UNCHANGED <<phase, status, calls, bios, bio, aios, nItems, buf, pager,
                          procB, procA, born>>
  BY DEF AnnotatorWrite, histVars, heapVars
<1>0. /\ \A k \in DOMAIN aios : aios[k] \in Aio
      /\ aio \in [Aio -> [buffer : Addr \cup {NULL}, woffset : Int, wdone : BOOLEAN, rdone : BOOLEAN]]
      /\ wfd \in [Aio -> SUBSET Holders] /\ inA \in [Aio -> Int]
      /\ IoTypes
  BY DEF IoTypes, IoInv, Base
<1>1. PICK k \in DOMAIN aios : aios[k] = a
  BY <1>b DEF ItemOpen
<1>2. a \in Aio
  BY <1>0, <1>1
<1>3. procA[a] # "none" /\ b \in Addr /\ buf[b].len \in Nat
  BY <1>0, <1>1 DEF IoInv, Base, ListsSorted, Generations, IoTypes
<1>4. CASE Remaining(a) > 0 /\ Hung(procA[a])
  BY <1>4, <1>c, EndKeeps
<1>5. CASE ~(Remaining(a) > 0 /\ Hung(procA[a]))
  <2>2. /\ inA' = [inA EXCEPT ![a] = @ + n]
        /\ aio' = [aio EXCEPT ![a].woffset = @ + n, ![a].wdone = @ \/ EndOfInput(a, n)]
        /\ wfd' = [wfd EXCEPT ![a] = IF EndOfInput(a, n) THEN @ \ {Ratc} ELSE @]
        /\ items' = Tail(items)
        /\ UNCHANGED <<phase, status, calls, bios, bio, aios, nItems, buf, pager,
                       procB, procA, born>>
    BY <1>5, <1>c
  <2>3. n \in Int
    <3>1. Remaining(a) \in Int /\ PipeCap - inA[a] \in Int
      BY <1>0, <1>2, <1>3, ConstantsAssumption DEF Remaining
    <3> QED
      BY <3>1 DEF Written
  <2>4. PICK eof \in BOOLEAN : eof <=> EndOfInput(a, n)
    OBVIOUS
  <2>e. eof => n = buf[b].len - aio[a].woffset /\ ~IsRunning(b)
    BY <2>4 DEF EndOfInput, Remaining
  <2> HIDE DEF a, b, n
  <2>5. /\ aio' \in [Aio -> [buffer : Addr \cup {NULL}, woffset : Int, wdone : BOOLEAN, rdone : BOOLEAN]]
        /\ \A c \in Aio : aio'[c].buffer = aio[c].buffer /\ (aio'[c].rdone <=> aio[c].rdone)
        /\ \A c \in Aio : c # a => aio'[c] = aio[c]
        /\ aio'[a].woffset = aio[a].woffset + n /\ (aio'[a].wdone <=> aio[a].wdone \/ eof)
    <3> DEFINE q == [aio[a] EXCEPT !.woffset = @ + n]
               r == [q EXCEPT !.wdone = @ \/ EndOfInput(a, n)]
    <3>1. aio[a] \in [buffer : Addr \cup {NULL}, woffset : Int, wdone : BOOLEAN, rdone : BOOLEAN]
      BY <1>0, <1>2
    <3>2. /\ q \in [buffer : Addr \cup {NULL}, woffset : Int, wdone : BOOLEAN, rdone : BOOLEAN]
          /\ q.buffer = aio[a].buffer /\ q.woffset = aio[a].woffset + n
          /\ (q.rdone <=> aio[a].rdone) /\ (q.wdone <=> aio[a].wdone)
      BY <2>3, <3>1
    <3> HIDE DEF q
    <3>3. /\ r \in [buffer : Addr \cup {NULL}, woffset : Int, wdone : BOOLEAN, rdone : BOOLEAN]
          /\ r.buffer = q.buffer /\ r.woffset = q.woffset
          /\ (r.rdone <=> q.rdone) /\ (r.wdone <=> q.wdone \/ EndOfInput(a, n))
      <4>1. (q.wdone \/ EndOfInput(a, n)) \in BOOLEAN
        BY <3>2
      <4>2. PICK d \in BOOLEAN : d = (q.wdone \/ EndOfInput(a, n))
        BY <4>1
      <4>3. r = [q EXCEPT !.wdone = d]
        BY <4>2
      <4> HIDE DEF r
      <4> QED
        BY <3>2, <4>2, <4>3
    <3>4. aio' = [aio EXCEPT ![a] = r]
      BY <1>0, <1>2, <2>2 DEF q
    <3> HIDE DEF r
    <3> QED
      BY <1>0, <1>2, <2>4, <3>2, <3>3, <3>4
  <2>6. /\ wfd' \in [Aio -> SUBSET Holders]
        /\ \A c \in Aio : c # a => wfd'[c] = wfd[c]
        /\ ~eof => wfd'[a] = wfd[a]
        /\ \A c : c # Ratc => (c \in wfd'[a] <=> c \in wfd[a])
    BY <1>0, <1>2, <2>2, <2>4
  <2>7. inA' \in [Aio -> Int]
    BY <1>0, <1>2, <2>2, <2>3
  <2>8. WriteEnds'
    BY <2>2, <2>5, <2>6 DEF IoInv, Base, WriteEnds
  <2>9. Eofs'
    <3>1. \A c : QuietB(c)' <=> QuietB(c)
      BY <2>2 DEF QuietB
    <3>2. \A c : Abandoned(c)' <=> Abandoned(c)
      BY <2>2 DEF Abandoned
    <3>3. \A c \in Aio : Own(c)' <=> Own(c)
      BY <2>2, <2>5 DEF Own
    <3> SUFFICES ASSUME NEW c \in Aio, procA[c] # "none", Ratc \notin wfd'[c], Own(c),
                        ~Abandoned(aio[c].buffer)
                 PROVE  aio'[c].woffset = buf[aio[c].buffer].len /\ QuietB(aio[c].buffer)
      BY <2>2, <2>5, <3>1, <3>2, <3>3 DEF Eofs
    <3>4. CASE Ratc \in wfd[c]
      <4>1. c = a /\ eof
        BY <2>6, <3>4
      <4>2. QuietB(b)
        BY <2>e, <4>1, NotRunning DEF b
      <4>3. aio[a].woffset \in Int
        BY <1>0, <1>2
      <4>4. aio'[a].woffset = buf[b].len
        BY <1>3, <2>3, <2>5, <2>e, <4>1, <4>3
      <4> QED
        BY <4>1, <4>2, <4>4 DEF b
    <3>5. CASE Ratc \notin wfd[c]
      <4>1. aio[c].woffset = buf[aio[c].buffer].len /\ QuietB(aio[c].buffer)
        BY <3>5 DEF IoInv, Base, Eofs
      <4>2. c # a
        BY <1>b, <3>5 DEF ItemOpen, a
      <4> QED
        BY <2>5, <4>1, <4>2
    <3> QED
      BY <3>4, <3>5
  <2>10. \A it : ItemOpen(it) /\ ~(it.type = "annotator_out" /\ it.id = Head(items).id) => ItemOpen(it)'
    <3> SUFFICES ASSUME NEW it, ItemOpen(it), ~(it.type = "annotator_out" /\ it.id = a) PROVE ItemOpen(it)'
      BY DEF a
    <3>1. it.type \in {"annotator_in", "annotator_out"} => it.id \in Aio
      BY <1>0 DEF ItemOpen
    <3>2. it.type = "annotator_out" => wfd'[it.id] = wfd[it.id]
      BY <2>6, <3>1
    <3> QED
      BY <2>2, <2>5, <3>1, <3>2 DEF ItemOpen
  <2>11. /\ bio' \in [Bio -> [buffer : Addr \cup {NULL}, rdone : BOOLEAN]]
         /\ buf' \in [Addr -> [live : BOOLEAN, len : Nat, gen : Nat]]
    BY <1>0, <2>2 DEF IoTypes
  <2> QED
    BY <1>a, <2>2, <2>5, <2>6, <2>7, <2>8, <2>9, <2>10, <2>11, HandledKeeps
<1> QED
  BY <1>4, <1>5
-----------------------------------------------------------------------------
(* Which candidate a place stands for.                                     *)
LEMMA Halves ==
  \A x \in Int : /\ x \div 2 \in Int /\ x % 2 \in {0, 1}
                 /\ x = 2 * (x \div 2) + (x % 2)
OBVIOUS

OfBio(k) == k \in DOMAIN bios /\ Candidate(k) = Item("buffer_in", bios[k])
OfAioOut(k, j) ==
  j \in DOMAIN aios /\ k = Len(bios) + 2 * j - 1 /\ Candidate(k) = Item("annotator_out", aios[j])
OfAioIn(k, j) ==
  j \in DOMAIN aios /\ k = Len(bios) + 2 * j /\ Candidate(k) = Item("annotator_in", aios[j])

(* A place is that of a command, or one of the two of an annotator.        *)
LEMMA CandidateIs ==
  ASSUME IoTypes, NEW k \in Places
  PROVE  OfBio(k) \/ \E j : OfAioOut(k, j) \/ OfAioIn(k, j)
<1>0. /\ Len(bios) \in Nat /\ Len(aios) \in Nat /\ k \in Int /\ 1 <= k
      /\ k <= Len(bios) + 2 * Len(aios)
      /\ DOMAIN bios = 1..Len(bios) /\ DOMAIN aios = 1..Len(aios)
  BY DEF IoTypes, Places
<1>1. CASE k <= Len(bios)
  BY <1>0, <1>1 DEF OfBio, Candidate
<1>2. CASE k > Len(bios)
  <2> DEFINE m == k - Len(bios)
  <2>1. m \in Int /\ 1 <= m /\ m <= 2 * Len(aios) /\ k - Len(bios) + 1 = m + 1 /\ ~(k <= Len(bios))
    BY <1>0, <1>2
  <2>2. Candidate(k) = Item(IF m % 2 = 1 THEN "annotator_out" ELSE "annotator_in", aios[(m + 1) \div 2])
    BY <2>1 DEF Candidate
  <2>m. k = Len(bios) + m
    BY <1>0
  <2> HIDE DEF m
  <2> DEFINE h == m \div 2
             g == (m + 1) \div 2
  <2>3. /\ h \in Int /\ g \in Int /\ m % 2 \in {0, 1} /\ (m + 1) % 2 \in {0, 1}
        /\ m = 2 * h + (m % 2) /\ m + 1 = 2 * g + ((m + 1) % 2)
    BY <2>1, Halves
  <2> HIDE DEF h, g
  <2>4. CASE m % 2 = 1
    <3>1. m + 1 = 2 * g /\ g \in 1..Len(aios)
      BY <1>0, <2>1, <2>3, <2>4
    <3>2. OfAioOut(k, g)
      BY <1>0, <2>1, <2>2, <2>m, <2>3, <2>4, <3>1 DEF OfAioOut, g
    <3> QED
      BY <3>2
  <2>5. CASE m % 2 = 0
    <3>1. m = 2 * g /\ g \in 1..Len(aios)
      BY <1>0, <2>1, <2>3, <2>5
    <3>2. OfAioIn(k, g)
      BY <1>0, <2>1, <2>2, <2>m, <2>3, <2>5, <3>1 DEF OfAioIn, g
    <3> QED
      BY <3>2
  <2> QED
    BY <2>3, <2>4, <2>5
<1> QED
  BY <1>0, <1>1, <1>2

(* The fields of an item.                                                  *)
LEMMA ItemFields ==
  ASSUME NEW type, NEW id
  PROVE  Item(type, id).type = type /\ Item(type, id).id = id
BY DEF Item

(* Different places are about different descriptors.                       *)
LEMMA CandidatesDiffer ==
  ASSUME IoInv, NEW k \in Places, NEW l \in Places, k # l,
         Candidate(k).type = Candidate(l).type
  PROVE  Candidate(k).id # Candidate(l).id
<1>0. IoTypes /\ Len(bios) \in Nat /\ DOMAIN bios \subseteq Int /\ DOMAIN aios \subseteq Int
  BY DEF IoInv, Base, IoTypes
<1>1. \A i, j \in DOMAIN bios : i # j => bios[i] # bios[j]
  <2>1. \A i \in DOMAIN bios : bios[i] \in Int
    <3>1. \A i \in DOMAIN bios : bios[i] \in Bio
      BY <1>0 DEF IoTypes
    <3> QED
      BY <3>1 DEF Bio
  <2> QED
    BY <1>0, <2>1 DEF IoInv, Base, ListsSorted
<1>2. \A i, j \in DOMAIN aios : i # j => aios[i] # aios[j]
  <2>1. \A i \in DOMAIN aios : aios[i] \in Int
    <3>1. \A i \in DOMAIN aios : aios[i] \in Aio
      BY <1>0 DEF IoTypes
    <3> QED
      BY <3>1 DEF Aio
  <2> QED
    BY <1>0, <2>1 DEF IoInv, Base, ListsSorted
<1>3. CASE OfBio(k)
  <2>1. Candidate(k).type = "buffer_in" /\ Candidate(k).id = bios[k] /\ k \in DOMAIN bios
    BY <1>3, ItemFields DEF OfBio
  <2>2. OfBio(l)
    <3>1. \A j : OfAioOut(l, j) \/ OfAioIn(l, j) => Candidate(l).type # "buffer_in"
      BY ItemFields DEF OfAioOut, OfAioIn
    <3> QED
      BY <1>0, <2>1, <3>1, CandidateIs
  <2> QED
    BY <1>1, <2>1, <2>2, ItemFields DEF OfBio
<1>4. ASSUME NEW j, OfAioOut(k, j) PROVE Candidate(k).id # Candidate(l).id
  <2>1. Candidate(k).type = "annotator_out" /\ Candidate(k).id = aios[j] /\ j \in DOMAIN aios
    BY <1>4, ItemFields DEF OfAioOut
  <2>2. PICK i : OfAioOut(l, i)
    <3>1. OfBio(l) => Candidate(l).type # "annotator_out"
      BY ItemFields DEF OfBio
    <3>2. \A i : OfAioIn(l, i) => Candidate(l).type # "annotator_out"
      BY ItemFields DEF OfAioIn
    <3> QED
      BY <1>0, <2>1, <3>1, <3>2, CandidateIs
  <2>3. Candidate(l).id = aios[i] /\ i \in DOMAIN aios
    BY <2>2, ItemFields DEF OfAioOut
  <2>4. i # j
    BY <1>4, <2>2 DEF OfAioOut
  <2> QED
    BY <1>2, <2>1, <2>3, <2>4
<1>5. ASSUME NEW j, OfAioIn(k, j) PROVE Candidate(k).id # Candidate(l).id
  <2>1. Candidate(k).type = "annotator_in" /\ Candidate(k).id = aios[j] /\ j \in DOMAIN aios
    BY <1>5, ItemFields DEF OfAioIn
  <2>2. PICK i : OfAioIn(l, i)
    <3>1. OfBio(l) => Candidate(l).type # "annotator_in"
      BY ItemFields DEF OfBio
    <3>2. \A i : OfAioOut(l, i) => Candidate(l).type # "annotator_in"
      BY ItemFields DEF OfAioOut
    <3> QED
      BY <1>0, <2>1, <3>1, <3>2, CandidateIs
  <2>3. Candidate(l).id = aios[i] /\ i \in DOMAIN aios
    BY <2>2, ItemFields DEF OfAioIn
  <2>4. i # j
    BY <1>5, <2>2 DEF OfAioIn
  <2> QED
    BY <1>2, <2>1, <2>3, <2>4
<1> QED
  BY <1>0, <1>3, <1>4, <1>5, CandidateIs

(* What is polled is about an open descriptor.                             *)
LEMMA PolledOpen ==
  ASSUME IoInv, NEW k \in Places, Wanted(Candidate(k))
  PROVE  /\ Polled(Candidate(k)) \in ItemRec /\ ItemOpen(Polled(Candidate(k)))
         /\ Polled(Candidate(k)).type = Candidate(k).type
         /\ Polled(Candidate(k)).id = Candidate(k).id
<1> DEFINE it == Candidate(k)
           r == Polled(it)
<1>0. IoTypes /\ (\A j \in DOMAIN bios : bios[j] \in Bio) /\ (\A j \in DOMAIN aios : aios[j] \in Aio)
  BY DEF IoInv, Base, IoTypes
<1>1. r.type = it.type /\ r.id = it.id /\ r.hup = Hup(it) /\ r = [type |-> r.type, id |-> r.id, hup |-> r.hup]
  BY DEF Polled
<1>2. \A x : Hung(x) \in BOOLEAN
  BY DEF Hung
<1>3. CASE OfBio(k)
  <2>1. it.type = "buffer_in" /\ it.id = bios[k] /\ k \in DOMAIN bios /\ bios[k] \in Nat
    BY <1>0, <1>3, ItemFields DEF OfBio, Bio
  <2>2. ~bio[it.id].rdone /\ r.hup = Hung(procB[it.id])
    BY <1>1, <2>1 DEF Wanted, Hup
  <2> HIDE DEF it, r
  <2>3. r \in ItemRec
    BY <1>1, <1>2, <2>1, <2>2 DEF ItemRec, ItemTypes
  <2>4. ItemOpen(r)
    BY <1>1, <2>1, <2>2 DEF ItemOpen
  <2> QED
    BY <1>1, <2>3, <2>4 DEF it, r
<1>4. ASSUME NEW j, OfAioOut(k, j)
      PROVE  r \in ItemRec /\ ItemOpen(r)
  <2>1. it.type = "annotator_out" /\ it.id = aios[j] /\ j \in DOMAIN aios /\ aios[j] \in Nat /\ aios[j] \in Aio
    BY <1>0, <1>4, ItemFields DEF OfAioOut, Aio
  <2>2. ~aio[it.id].wdone /\ r.hup = FALSE
    BY <1>1, <2>1 DEF Wanted, WantsOut, Hup
  <2>3. Ratc \in wfd[it.id]
    BY <2>1, <2>2 DEF IoInv, Base, WriteEnds, ListsSorted
  <2> HIDE DEF it, r
  <2>4. r \in ItemRec
    BY <1>1, <2>1, <2>2 DEF ItemRec, ItemTypes
  <2>5. ItemOpen(r)
    BY <1>1, <2>1, <2>2, <2>3 DEF ItemOpen
  <2> QED
    BY <2>4, <2>5
<1>5. ASSUME NEW j, OfAioIn(k, j)
      PROVE  r \in ItemRec /\ ItemOpen(r)
  <2>1. it.type = "annotator_in" /\ it.id = aios[j] /\ j \in DOMAIN aios /\ aios[j] \in Nat
    BY <1>0, <1>5, ItemFields DEF OfAioIn, Aio
  <2>2. ~aio[it.id].rdone /\ r.hup = Hung(procA[it.id])
    BY <1>1, <2>1 DEF Wanted, Hup
  <2> HIDE DEF it, r
  <2>3. r \in ItemRec
    BY <1>1, <1>2, <2>1, <2>2 DEF ItemRec, ItemTypes
  <2>4. ItemOpen(r)
    BY <1>1, <2>1, <2>2 DEF ItemOpen
  <2> QED
    BY <2>3, <2>4
<1> QED
  BY <1>0, <1>1, <1>3, <1>4, <1>5, CandidateIs

(* io_tick up to its poll keeps the invariant: the items it builds are     *)
(* open and no two are about the same descriptor.                          *)
LEMMA PollKeeps ==
  ASSUME IoInv, Poll
  PROVE  IoInv'
<1>0. phase = "poll" /\ calls = <<>> /\ status # "undefined"
  BY DEF Poll, IoInv, CallsFit, UndefinedInv
<1>1. CASE ReadsFreedBuffer
  <2>1. Ends("undefined")
    BY <1>1 DEF Poll
  <2>2. PICK a \in ToSet(aios) : ~aio[a].wdone /\ ~buf[aio[a].buffer].live
    BY <1>1 DEF ReadsFreedBuffer
  <2>3. PICK k \in DOMAIN aios : aios[k] = a
    BY <2>2 DEF ToSet
  <2>4. a \in Aio /\ ~aio[a].rdone
    BY <1>0, <2>2, <2>3 DEF IoInv, Base, IoTypes, PolledInv
  <2>5. Abandoned(aio[a].buffer) \/ Sibling(a)
    BY <2>2, <2>3, <2>4 DEF IoInv, Base, OrphansExplained, Own
  <2>6. nAios <= 1 => ~Sibling(a)
    <3>1. nAios \in Nat
      BY ConstantsAssumption DEF IoInv, Base, Counted
    <3> QED
      BY <2>4, <3>1, SiblingsAreTwo
  <2> QED
    BY <1>0, <2>1, <2>5, <2>6, EndKeeps DEF Abandoned
<1>2. CASE ~ReadsFreedBuffer
  <2> DEFINE ready == {k \in BuiltItems : Ready(Candidate(k))}
             n == Len(bios) + 2 * Len(aios)
             order == Ascending(ready, n)
  <2>1. /\ items' = [k \in DOMAIN order |-> Polled(Candidate(order[k]))]
        /\ phase' = "items"
        /\ UNCHANGED <<status, calls, listVars, heapVars, procVars, born>>
    BY <1>2 DEF Poll, histVars
  <2>2. /\ \A k \in ready : k \in Places /\ Wanted(Candidate(k))
        /\ ready \in SUBSET (1..n) /\ n \in Nat
    BY DEF BuiltItems, Places, IoInv, Base, IoTypes
  <2> HIDE DEF ready, n
  <2>3. Lists(order, ready, n)
    BY <2>2, AscendingLists, Zenon
  <2> HIDE DEF order
  <2>4. /\ DOMAIN items' = DOMAIN order /\ \E m \in Nat : DOMAIN order = 1..m
        /\ \A k \in DOMAIN items' : /\ items'[k] = Polled(Candidate(order[k]))
                                    /\ order[k] \in Places /\ Wanted(Candidate(order[k]))
        /\ \A j, k \in DOMAIN items' : j < k => order[j] # order[k]
    <3>1. \A j, k \in DOMAIN order : j < k => order[j] < order[k] /\ order[j] \in Nat /\ order[k] \in Nat
      BY <2>3 DEF Lists
    <3>2. \A j, k \in DOMAIN order : j < k => order[j] # order[k]
      BY <3>1
    <3>3. order \in Seq(Nat) /\ \A k \in DOMAIN order : order[k] \in ready
      BY <2>3 DEF Lists
    <3>4. Len(order) \in Nat /\ DOMAIN order = 1..Len(order)
      BY <3>3
    <3> QED
      BY <2>1, <2>2, <3>2, <3>3, <3>4
  <2>5. \A k \in DOMAIN items' : /\ items'[k] \in ItemRec /\ ItemOpen(items'[k])
                                 /\ items'[k].type = Candidate(order[k]).type
                                 /\ items'[k].id = Candidate(order[k]).id
    BY <2>4, PolledOpen
  <2>6. ItemsInv'
    <3>1. items' \in Seq(ItemRec)
      <4>1. items' = [k \in DOMAIN items' |-> items'[k]]
        BY <2>1
      <4>2. PICK m \in Nat : DOMAIN items' = 1..m
        BY <2>4
      <4>3. [k \in 1..m |-> items'[k]] \in Seq(ItemRec)
        BY <2>5, <4>2
      <4> QED
        BY <4>1, <4>2, <4>3
    <3>2. \A j, k \in DOMAIN items' :
            j < k /\ items'[j].type = items'[k].type => items'[j].id # items'[k].id
      BY <2>4, <2>5, CandidatesDiffer
    <3>3. ASSUME NEW it, ItemOpen(it) PROVE ItemOpen(it)'
      BY <2>1, <3>3 DEF ItemOpen, listVars, procVars
    <3>4. \A k \in DOMAIN items' : \E it : it = items'[k] /\ ItemOpen(it)'
      BY <2>5, <3>3
    <3> QED
      BY <3>1, <3>2, <3>4 DEF ItemsInv, ItemRec
  <2>7. Base'
    BY <2>1, SameBase DEF IoInv
  <2>8. CallsFit'
    BY <1>0, <2>1, SameCalls DEF IoInv
  <2>9. PolledInv' /\ UndefinedInv'
    BY <1>0, <2>1 DEF PolledInv, UndefinedInv
  <2> QED
    BY <2>6, <2>7, <2>8, <2>9 DEF IoInv
<1> QED
  BY <1>1, <1>2
-----------------------------------------------------------------------------
(* What io_prune_finished leaves of the two lists.                         *)
PruneStep(last) ==
  /\ bios' \in Seq(Bio) /\ aios' \in Seq(Aio)
  /\ \A k \in DOMAIN bios' :
       \E l \in DOMAIN bios : bios'[k] = bios[l] /\ ~bio[bios[l]].rdone
  /\ \A j, k \in DOMAIN bios' : j < k =>
       \E l, m \in DOMAIN bios : l < m /\ bios'[j] = bios[l] /\ bios'[k] = bios[m]
  /\ last \in Nat
  /\ \/ last = 0
     \/ last \in DOMAIN aios /\ aio[aios[last]].rdone
  /\ \A k \in DOMAIN aios' :
       k + last \in DOMAIN aios /\ aios'[k] = aios[k + last] /\ ~aio[aios[k + last]].rdone
  /\ \A l \in DOMAIN aios : l > last => \E k \in DOMAIN aios' : aios'[k] = aios[l]
  /\ procB' \in [Bio -> ProcStates] /\ procA' \in [Aio -> ProcStates]
  /\ \A i \in Bio : \/ procB'[i] = procB[i]
                    \/ /\ procB'[i] = "reaped" /\ bio[i].rdone
                       /\ \E k \in DOMAIN bios : bios[k] = i
  /\ \A a \in Aio : procA'[a] = IF aio[a].rdone /\ \E k \in DOMAIN aios : aios[k] = a
                                THEN "reaped" ELSE procA[a]
  /\ phase' \in {"poll", "done"}
  /\ UNCHANGED <<status, items, calls, bio, aio, nItems, buf, pager, inA, wfd, born>>

(* What io_prune_finished does to the lists when it does not touch freed   *)
(* memory: the finished commands go, and with the last finished annotator  *)
(* every entry before it.                                                  *)
LEMMA PruneEffect ==
  ASSUME IoInv, Prune,
         ~ \E k \in 1..Len(bios)-1 : bio[bios[k]].rdone /\ bio[bios[k+1]].rdone
  PROVE  \E last : PruneStep(last)
<1> DEFINE doneB == {i \in ToSet(bios) : bio[i].rdone}
           doneA == {a \in ToSet(aios) : aio[a].rdone}
           K == {k \in DOMAIN bios : bios[k] \notin doneB}
           kept == Ascending(K, Len(bios))
           last == SelectLastInSeq(aios, LAMBDA a : a \in doneA)
<1>0. /\ bios \in Seq(Bio) /\ DOMAIN bios = 1..Len(bios) /\ Len(bios) \in Nat
      /\ aios \in Seq(Aio) /\ DOMAIN aios = 1..Len(aios) /\ Len(aios) \in Nat
      /\ \A k \in DOMAIN bios : bios[k] \in Bio
      /\ \A k \in DOMAIN aios : aios[k] \in Aio
      /\ IoTypes
  BY DEF IoInv, Base, IoTypes
<1>1. ~ \E k \in 1..Len(bios)-1 : {bios[k], bios[k+1]} \subseteq doneB
  OBVIOUS
<1>2. /\ bios' = [k \in DOMAIN kept |-> bios[kept[k]]]
      /\ aios' = SubSeq(aios, last + 1, Len(aios))
      /\ procB' = [i \in Bio |-> IF i \in doneB THEN "reaped" ELSE procB[i]]
      /\ procA' = [a \in Aio |-> IF a \in doneA THEN "reaped" ELSE procA[a]]
      /\ phase' \in {"poll", "done"}
      /\ UNCHANGED <<status, items, calls, bio, aio, nItems, buf, pager, inA, wfd, born>>
  BY <1>1 DEF Prune, heapVars, histVars
<1>3. /\ \A i : i \in doneB <=> bio[i].rdone /\ \E k \in DOMAIN bios : bios[k] = i
      /\ \A a : a \in doneA <=> aio[a].rdone /\ \E k \in DOMAIN aios : aios[k] = a
  BY DEF ToSet
<1>4. \/ last = 0 /\ \A j \in DOMAIN aios : aios[j] \notin doneA
      \/ /\ last \in DOMAIN aios /\ aios[last] \in doneA
         /\ \A j \in DOMAIN aios : j > last => aios[j] \notin doneA
  <2> HIDE DEF doneA
  <2>1. last = LastFinished(doneA)
    BY DEF LastFinished
  <2> HIDE DEF last
  <2> QED
    BY <1>0, <2>1, LastFinishedIs
<1>5. Lists(kept, K, Len(bios))
  <2>1. K \in SUBSET (1..Len(bios))
    BY <1>0
  <2> HIDE DEF K
  <2> QED
    BY <1>0, <2>1, AscendingLists
<1>6. \A k \in K : k \in DOMAIN bios /\ ~bio[bios[k]].rdone
  BY <1>3
<1> HIDE DEF doneB, doneA, K, kept, last
<1>7. /\ kept \in Seq(Nat) /\ DOMAIN bios' = DOMAIN kept
      /\ \A k \in DOMAIN kept : kept[k] \in DOMAIN bios /\ ~bio[bios[kept[k]]].rdone /\ bios'[k] = bios[kept[k]]
      /\ \A j, k \in DOMAIN kept : j < k => kept[j] < kept[k]
  BY <1>2, <1>5, <1>6 DEF Lists
<1>8. bios' \in Seq(Bio)
  <2>1. DOMAIN kept = 1..Len(kept) /\ Len(kept) \in Nat
    BY <1>7
  <2>2. \A k \in 1..Len(kept) : bios[kept[k]] \in Bio
    BY <1>0, <1>7, <2>1
  <2>3. bios' = [k \in 1..Len(kept) |-> bios[kept[k]]]
    BY <1>2, <2>1
  <2> DEFINE s == [k \in 1..Len(kept) |-> bios[kept[k]]]
  <2>4. s \in Seq(Bio)
    BY <2>1, <2>2
  <2> QED
    BY <2>3, <2>4
<1>9. last \in Nat /\ last <= Len(aios)
  BY <1>0, <1>4
<1>10. /\ aios' \in Seq(Aio) /\ DOMAIN aios' = 1..Len(aios)-last
       /\ \A k \in 1..Len(aios)-last : aios'[k] = aios[k + last]
  <2>1. /\ Len(SubSeq(aios, last + 1, Len(aios))) = Len(aios) - last
        /\ SubSeq(aios, last + 1, Len(aios)) \in Seq(Aio)
        /\ \A k \in 1..Len(aios)-last : SubSeq(aios, last + 1, Len(aios))[k] = aios[k + last]
    <3> DEFINE m == last + 1
               n == Len(aios)
               s == SubSeq(aios, m, n)
    <3>1. m \in Int /\ n \in Int /\ m = last + 1 /\ n - m + 1 = n - last /\ last <= n
          /\ \A k \in m..n : aios[k] \in Aio
      BY <1>0, <1>9
    <3> HIDE DEF m, n
    <3>2. /\ s \in Seq(Aio) /\ Len(s) = IF m <= n THEN n - m + 1 ELSE 0
          /\ \A k \in 1..n-m+1 : s[k] = aios[m+k-1]
      BY <3>1, SubSeqProperties
    <3> HIDE DEF s
    <3>3. Len(s) = n - last /\ \A k \in 1..n-last : s[k] = aios[k + last]
      BY <1>9, <3>1, <3>2
    <3> QED
      BY <3>2, <3>3 DEF m, n, s
  <2> QED
    <3> DEFINE s == SubSeq(aios, last + 1, Len(aios))
    <3>1. aios' = s /\ Len(s) = Len(aios) - last /\ s \in Seq(Aio)
          /\ \A k \in 1..Len(aios)-last : s[k] = aios[k + last]
      BY <1>2, <2>1
    <3> HIDE DEF s
    <3>2. DOMAIN s = 1..Len(s)
      BY <3>1
    <3> QED
      BY <3>1, <3>2
<1>11. \A k \in DOMAIN aios' : k + last \in DOMAIN aios /\ k + last > last
  BY <1>0, <1>9, <1>10
<1>12. \A k \in DOMAIN aios' : aios'[k] = aios[k + last] /\ ~aio[aios[k + last]].rdone
  <2>1. \A k \in DOMAIN aios' : aios[k + last] \notin doneA
    BY <1>0, <1>4, <1>11
  <2> QED
    BY <1>3, <1>10, <1>11, <2>1
<1>13. \A l \in DOMAIN aios : l > last => \E k \in DOMAIN aios' : aios'[k] = aios[l]
  <2> SUFFICES ASSUME NEW l \in DOMAIN aios, l > last PROVE \E k \in DOMAIN aios' : aios'[k] = aios[l]
    OBVIOUS
  <2>1. l - last \in 1..Len(aios)-last /\ (l - last) + last = l
    BY <1>0, <1>9
  <2> QED
    BY <1>10, <2>1
<1>14. last = 0 \/ (last \in DOMAIN aios /\ aio[aios[last]].rdone)
  BY <1>3, <1>4
<1>15. /\ procB' \in [Bio -> ProcStates] /\ procA' \in [Aio -> ProcStates]
       /\ \A i \in Bio : \/ procB'[i] = procB[i]
                         \/ procB'[i] = "reaped" /\ bio[i].rdone /\ \E k \in DOMAIN bios : bios[k] = i
       /\ \A a \in Aio : procA'[a] = IF aio[a].rdone /\ \E k \in DOMAIN aios : aios[k] = a
                                     THEN "reaped" ELSE procA[a]
  BY <1>0, <1>2, <1>3 DEF IoTypes, ProcStates
<1>16. /\ \A k \in DOMAIN bios' :
            \E l \in DOMAIN bios : bios'[k] = bios[l] /\ ~bio[bios[l]].rdone
       /\ \A j, k \in DOMAIN bios' : j < k =>
            \E l, m \in DOMAIN bios : l < m /\ bios'[j] = bios[l] /\ bios'[k] = bios[m]
  BY <1>7
<1>17. PruneStep(last)
  BY <1>2, <1>8, <1>9, <1>10, <1>11, <1>12, <1>13, <1>14, <1>15, <1>16 DEF PruneStep
<1> QED
  BY <1>17

(* io_prune_finished keeps the invariant: what it takes off the list was   *)
(* finished, or is behind one that was.                                    *)
LEMMA PruneKeeps ==
  ASSUME IoInv, Prune
  PROVE  IoInv'
<1> USE DEF IoInv, Base
<1>0. phase = "prune" /\ calls = <<>> /\ status # "undefined"
  BY DEF Prune, CallsFit, UndefinedInv
<1>1. CASE \E k \in 1..Len(bios)-1 : bio[bios[k]].rdone /\ bio[bios[k+1]].rdone
  <2>1. \E k \in 1..Len(bios)-1 :
          {bios[k], bios[k+1]} \subseteq {i \in ToSet(bios) : bio[i].rdone}
    <3>1. \A k \in 1..Len(bios)-1 : bios[k] \in ToSet(bios) /\ bios[k+1] \in ToSet(bios)
      <4>1. \A k \in 1..Len(bios)-1 : k \in DOMAIN bios /\ k + 1 \in DOMAIN bios
        BY DEF IoTypes
      <4> QED
        BY <4>1 DEF ToSet
    <3> QED
      BY <1>1, <3>1
  <2>2. Ends("undefined")
    BY <2>1 DEF Prune
  <2> QED
    BY <1>0, <1>1, <2>2, EndKeeps
<1>2. CASE ~ \E k \in 1..Len(bios)-1 : bio[bios[k]].rdone /\ bio[bios[k+1]].rdone
  <2>1. PICK last : PruneStep(last)
    BY <1>2, PruneEffect
  <2>2. /\ bios' \in Seq(Bio) /\ aios' \in Seq(Aio)
        /\ \A k \in DOMAIN bios' :
             \E l \in DOMAIN bios : bios'[k] = bios[l] /\ ~bio[bios[l]].rdone
        /\ \A j, k \in DOMAIN bios' : j < k =>
             \E l, m \in DOMAIN bios : l < m /\ bios'[j] = bios[l] /\ bios'[k] = bios[m]
        /\ last \in Nat /\ (last = 0 \/ (last \in DOMAIN aios /\ aio[aios[last]].rdone))
        /\ \A k \in DOMAIN aios' :
             k + last \in DOMAIN aios /\ aios'[k] = aios[k + last] /\ ~aio[aios[k + last]].rdone
        /\ \A l \in DOMAIN aios : l > last => \E k \in DOMAIN aios' : aios'[k] = aios[l]
    BY <2>1 DEF PruneStep
  <2>3. /\ procB' \in [Bio -> ProcStates] /\ procA' \in [Aio -> ProcStates]
        /\ \A i \in Bio : \/ procB'[i] = procB[i]
                          \/ procB'[i] = "reaped" /\ bio[i].rdone /\ \E k \in DOMAIN bios : bios[k] = i
        /\ \A a \in Aio : procA'[a] = IF aio[a].rdone /\ \E k \in DOMAIN aios : aios[k] = a
                                      THEN "reaped" ELSE procA[a]
    BY <2>1 DEF PruneStep
  <2>4. /\ phase' \in {"poll", "done"}
        /\ status' = status /\ items' = items /\ calls' = calls /\ bio' = bio /\ aio' = aio
        /\ nItems' = nItems /\ buf' = buf /\ pager' = pager /\ inA' = inA /\ wfd' = wfd /\ born' = born
    BY <2>1 DEF PruneStep
  <2>5. /\ \A k \in DOMAIN bios : bios[k] \in Bio
        /\ \A k \in DOMAIN aios : aios[k] \in Aio
        /\ \A k \in DOMAIN bios' : bios'[k] \in Bio
        /\ \A k \in DOMAIN aios' : aios'[k] \in Aio
        /\ DOMAIN aios \subseteq Nat /\ DOMAIN aios' \subseteq Nat
    <3>1. bios \in Seq(Bio) /\ aios \in Seq(Aio) /\ bios' \in Seq(Bio) /\ aios' \in Seq(Aio)
      BY <2>2 DEF IoTypes
    <3>2. DOMAIN aios = 1..Len(aios) /\ DOMAIN aios' = 1..Len(aios')
      BY <3>1
    <3>3. 1..Len(aios) \subseteq Nat /\ 1..Len(aios') \subseteq Nat
      BY <3>1
    <3> QED
      BY <3>1, <3>2, <3>3
  <2>6. /\ \A i \in Bio : procB'[i] = "none" <=> procB[i] = "none"
        /\ \A a \in Aio : procA'[a] = "none" <=> procA[a] = "none"
        /\ \A a \in Aio : procA[a] = "reaped" => procA'[a] = "reaped"
    BY <2>3 DEF ListsSorted
  <2>7. nBios' = nBios /\ nAios' = nAios
    BY <2>6 DEF nBios, nAios
  <2>8. IoTypes'
    BY <2>2, <2>3, <2>4 DEF IoTypes
  <2>9. Counted'
    BY <2>4, <2>6, <2>7 DEF Counted
  <2>10. ListsSorted'
    <3>1. \A j, k \in DOMAIN bios' : j < k => bios'[j] > bios'[k]
      <4> SUFFICES ASSUME NEW j \in DOMAIN bios', NEW k \in DOMAIN bios', j < k
                   PROVE  bios'[j] > bios'[k]
        OBVIOUS
      <4>1. PICK l \in DOMAIN bios, m \in DOMAIN bios : l < m /\ bios'[j] = bios[l] /\ bios'[k] = bios[m]
        BY <2>2
      <4> QED
        BY <4>1 DEF ListsSorted
    <3>2. \A j, k \in DOMAIN aios' : j < k => aios'[j] > aios'[k]
      <4> SUFFICES ASSUME NEW j \in DOMAIN aios', NEW k \in DOMAIN aios', j < k
                   PROVE  aios'[j] > aios'[k]
        OBVIOUS
      <4>1. j + last < k + last
        BY <2>2, <2>5
      <4> QED
        BY <2>2, <4>1 DEF ListsSorted
    <3>3. \A k \in DOMAIN bios' : procB'[bios'[k]] \notin {"none", "reaped"}
      <4> SUFFICES ASSUME NEW k \in DOMAIN bios' PROVE procB'[bios'[k]] \notin {"none", "reaped"}
        OBVIOUS
      <4>1. PICK l \in DOMAIN bios : bios'[k] = bios[l] /\ ~bio[bios[l]].rdone
        BY <2>2
      <4> QED
        BY <2>3, <2>5, <4>1 DEF ListsSorted
    <3>4. \A k \in DOMAIN aios' : procA'[aios'[k]] \notin {"none", "reaped"}
      <4> SUFFICES ASSUME NEW k \in DOMAIN aios' PROVE procA'[aios'[k]] \notin {"none", "reaped"}
        OBVIOUS
      <4>1. /\ k + last \in DOMAIN aios /\ aios'[k] = aios[k + last]
            /\ ~aio[aios[k + last]].rdone /\ aios[k + last] \in Aio
        BY <2>2, <2>5
      <4>2. procA'[aios[k + last]] = procA[aios[k + last]]
        BY <2>3, <4>1
      <4> QED
        BY <4>1, <4>2 DEF ListsSorted
    <3> QED
      BY <3>1, <3>2, <3>3, <3>4 DEF ListsSorted
  <2>11. CallsFit'
    BY <1>0, <2>4 DEF CallsFit
  <2>12. BuffersHeld' /\ OwnersDiffer'
    BY <2>4 DEF BuffersHeld, OwnersDiffer, Owns, FreePending, RunPending
  <2>13. /\ \A c : Abandoned(c)' <=> Abandoned(c)
         /\ \A a \in Aio : Sibling(a)' <=> Sibling(a)
         /\ \A a \in Aio : Own(a)' <=> Own(a)
    BY <2>4 DEF Abandoned, Sibling, Own
  <2>14. \A c : QuietB(c) => QuietB(c)'
    BY <2>2, <2>4 DEF QuietB
  <2>15. \A c : Stopped(c) => Stopped(c)'
    <3> SUFFICES ASSUME NEW c, QuietA(c) PROVE QuietA(c)'
      BY <2>13, <2>14 DEF Stopped
    <3> SUFFICES ASSUME NEW k \in DOMAIN aios', aio[aios'[k]].buffer = c
                 PROVE  aio[aios'[k]].rdone \/ \E a \in Aio : a = aios'[k] /\ Sibling(a)'
      BY <2>4, <2>5 DEF QuietA
    <3> QED
      BY <2>2, <2>5, <2>13 DEF QuietA
  <2>16. CancelledStopped'
    <3>1. \A q \in Pager : Cancelled(q)' <=> Cancelled(q)
      BY <2>4 DEF Cancelled, FreePending, RunPending, CancelPending
    <3> QED
      BY <2>4, <2>15, <3>1 DEF CancelledStopped
  <2>17. NewestReads'
    <3> SUFFICES ASSUME NEW k \in DOMAIN bios' PROVE ~bio[bios'[k]].rdone => bio[bios'[k]].buffer \in Addr
                   /\ \A j \in DOMAIN bios' : j < k /\ bio[bios'[j]].buffer = bio[bios'[k]].buffer =>
                        Abandoned(bio[bios'[k]].buffer) \/ bio[bios'[k]].rdone
      BY <2>2, <2>4, <2>13 DEF NewestReads
    <3>1. \A j \in DOMAIN bios' : j < k /\ bio[bios'[j]].buffer = bio[bios'[k]].buffer =>
                        Abandoned(bio[bios'[k]].buffer) \/ bio[bios'[k]].rdone
      <4> SUFFICES ASSUME NEW j \in DOMAIN bios', j < k, bio[bios'[j]].buffer = bio[bios'[k]].buffer
                   PROVE  Abandoned(bio[bios'[k]].buffer) \/ bio[bios'[k]].rdone
        OBVIOUS
      <4>1. PICK l \in DOMAIN bios, m \in DOMAIN bios : l < m /\ bios'[j] = bios[l] /\ bios'[k] = bios[m]
        BY <2>2
      <4> QED
        BY <4>1 DEF NewestReads
    <3>2. bio[bios'[k]].buffer \in Addr
      BY <2>2 DEF ReadersHeld
    <3> QED
      BY <3>1, <3>2
  <2>18. ReadersHeld'
    <3> SUFFICES ASSUME NEW k \in DOMAIN bios'
                 PROVE  /\ bio[bios'[k]].buffer \in Addr
                        /\ buf[bio[bios'[k]].buffer].live \/ Abandoned(bio[bios'[k]].buffer)
      BY <2>4, <2>13 DEF ReadersHeld
    <3>1. PICK l \in DOMAIN bios : bios'[k] = bios[l] /\ ~bio[bios[l]].rdone
      BY <2>2
    <3> QED
      BY <3>1 DEF ReadersHeld
  <2>19. OrphansExplained'
    <3> SUFFICES ASSUME NEW k \in DOMAIN aios'
                 PROVE  \E a \in Aio : a = aios'[k] /\ (Own(a) \/ Abandoned(aio[a].buffer) \/ Sibling(a))
      BY <2>4, <2>13 DEF OrphansExplained
    <3> QED
      BY <2>2, <2>5 DEF OrphansExplained
  <2>20. Generations' /\ WriteEnds'
    BY <2>4, <2>6 DEF Generations, WriteEnds
  <2>21. Eofs'
    BY <2>4, <2>6, <2>13, <2>14 DEF Eofs
  <2>22. (\A k \in DOMAIN bios' : ~bio[bios'[k]].rdone) /\ (\A k \in DOMAIN aios' : ~aio[aios'[k]].rdone)
    BY <2>2
  <2>23. EndedInv'
    BY <2>4, <2>22 DEF EndedInv
  <2>24. Fallen'
    <3> SUFFICES ASSUME NEW a \in Aio, procA'[a] \notin {"none", "reaped"},
                        \A k \in DOMAIN aios' : aios'[k] # a
                 PROVE  \E c \in 1..a-1 : procA'[c] = "reaped"
      BY DEF Fallen
    <3>c. \A c \in 1..a-1 : c \in Aio
      BY ConstantsAssumption DEF Aio
    <3>1. procA'[a] = procA[a]
      BY <2>3
    <3>2. CASE \A k \in DOMAIN aios : aios[k] # a
      BY <2>6, <3>1, <3>2, <3>c DEF Fallen
    <3>3. ASSUME NEW l \in DOMAIN aios, aios[l] = a PROVE \E c \in 1..a-1 : procA'[c] = "reaped"
      <4>1. ~aio[a].rdone
        BY <2>3, <3>3
      <4>2. ~(l > last)
        BY <2>2, <3>3
      <4>3. last # 0 /\ last \in DOMAIN aios /\ aio[aios[last]].rdone
        <5>1. last = 0 \/ (last \in DOMAIN aios /\ aio[aios[last]].rdone)
          BY <2>2
        <5>2. l \in Nat /\ l >= 1
          <6>1. aios \in Seq(Aio)
            BY DEF IoTypes
          <6> QED
            BY <3>3, <6>1
        <5>3. last # 0
          BY <4>2, <5>2
        <5> QED
          BY <5>1, <5>3
      <4>4. l # last
        BY <3>3, <4>1, <4>3
      <4>5. l < last
        BY <2>2, <2>5, <4>2, <4>4
      <4>6. aios[last] < a
        <5>1. aios[l] > aios[last] /\ aios[l] \in Nat /\ aios[last] \in Nat
          BY <2>5, <4>3, <4>5 DEF ListsSorted, Aio
        <5> QED
          BY <3>3, <5>1
      <4>7. aios[last] \in 1..a-1
        BY <2>5, <4>3, <4>6 DEF Aio
      <4>8. procA'[aios[last]] = "reaped"
        BY <2>3, <2>5, <4>3
      <4> QED
        BY <4>7, <4>8
    <3> QED
      BY <3>2, <3>3
  <2>25. ItemsInv'
    BY <2>4 DEF ItemsInv
  <2>26. PolledInv' /\ UndefinedInv'
    BY <1>0, <2>4, <2>22 DEF PolledInv, UndefinedInv
  <2> QED
    BY <2>8, <2>9, <2>10, <2>11, <2>12, <2>16, <2>17, <2>18, <2>19, <2>20, <2>21, <2>23, <2>24, <2>25, <2>26
<1> QED
  BY <1>1, <1>2
-----------------------------------------------------------------------------
(* Every step keeps the invariant.                                         *)
LEMMA StepKeeps ==
  ASSUME IoInv, [Next]_vars
  PROVE  IoInv'
<1>1. ASSUME NEW p \in Pager,
             \/ NewPager(p) \/ AddAnnotator(p) \/ Reload(p) \/ PopPager(p) \/ CollectPager(p)
      PROVE  IoInv'
  BY <1>1, NewPagerKeeps, AddAnnotatorKeeps, ReloadKeeps, PopPagerKeeps, CollectPagerKeeps
<1>2. ASSUME NEW p \in Pager, Cancel(p) \/ Run(p) \/ Annotate(p) \/ FreePager(p)
      PROVE  IoInv'
  BY <1>2, CancelKeeps, RunKeeps, AnnotateKeeps, FreePagerKeeps
<1>3. CASE HandlerReturns
  BY <1>3, ReturnKeeps
<1>4. CASE PollKey
  BY <1>4, KeyKeeps
<1>5. CASE Tick
  BY <1>5, PollKeeps, BufferReadKeeps, AnnotatorWriteKeeps, AnnotatorReadKeeps, ItemsDoneKeeps,
     PruneKeeps DEF Tick
<1>6. CASE Process
  <2>1. ProcessStep
    BY <1>6, ProcessSteps DEF IoInv, Base
  <2> QED
    BY <2>1, ProcessKeeps
<1>7. CASE UNCHANGED vars
  <2>1. UNCHANGED <<phase, status, calls, items, listVars, heapVars, procVars, born>>
    BY <1>7 DEF vars, loopVars, histVars
  <2>2. Base'
    BY <2>1, SameBase DEF IoInv
  <2>3. CallsFit'
    BY <2>1, SameCalls DEF IoInv, CallsFit
  <2>4. nAios' = nAios
    BY <2>1 DEF nAios, procVars
  <2>5. ItemsInv' /\ PolledInv' /\ UndefinedInv'
    <3>1. \A it : ItemOpen(it)' <=> ItemOpen(it)
      BY <2>1 DEF ItemOpen, listVars, procVars
    <3>2. ItemsInv'
      BY <2>1, <3>1 DEF IoInv, ItemsInv
    <3> QED
      BY <2>1, <2>4, <3>2 DEF IoInv, PolledInv, UndefinedInv, UndefinedOnlyInPrune, listVars, heapVars
  <2> QED
    BY <2>2, <2>3, <2>5 DEF IoInv
<1> QED
  BY <1>1, <1>2, <1>3, <1>4, <1>5, <1>6, <1>7 DEF Next, Handler

(* The invariant holds always.                                             *)
LEMMA AlwaysIo == Spec => []IoInv
<1>1. IoInv /\ [Next]_vars => IoInv'
  BY StepKeeps
<1> QED
  BY <1>1, InitInv, PTL DEF Spec
-----------------------------------------------------------------------------
(* Whatever the processes do between two steps of the tick, and whatever   *)
(* was popped or reloaded before it, an item that waits to be handled is   *)
(* about a listed entry that is not finished, and an open descriptor.      *)
THEOREM HandledItemsAreOpen == Spec => []ItemsAreOpen
<1>1. IoInv => ItemsAreOpen
  <2> SUFFICES ASSUME IoInv, phase = "items", NEW it \in ToSet(items)
               PROVE  CASE it.type = "buffer_in"     -> it.id \in ToSet(bios) /\ ~bio[it.id].rdone
                        [] it.type = "annotator_in"  -> it.id \in ToSet(aios) /\ ~aio[it.id].rdone
                        [] it.type = "annotator_out" -> it.id \in ToSet(aios) /\ Ratc \in wfd[it.id]
    BY DEF ItemsAreOpen
  <2>1. PICK k \in DOMAIN items : items[k] = it
    BY DEF ToSet
  <2>2. ItemOpen(it)
    BY <2>1 DEF IoInv, ItemsInv
  <2>3. it.type \in ItemTypes
    <3>1. items \in Seq(ItemRec)
      BY DEF IoInv, ItemsInv, ItemRec
    <3>2. it \in ItemRec
      BY <2>1, <3>1
    <3> QED
      BY <3>2 DEF ItemRec
  <2>4. /\ \A j \in DOMAIN bios : bios[j] \in ToSet(bios)
        /\ \A j \in DOMAIN aios : aios[j] \in ToSet(aios)
    BY DEF ToSet
  <2>5. it.type = "buffer_in" => it.id \in ToSet(bios) /\ ~bio[it.id].rdone
    BY <2>2, <2>4 DEF ItemOpen
  <2>6. it.type = "annotator_in" => it.id \in ToSet(aios) /\ ~aio[it.id].rdone
    BY <2>2, <2>4 DEF ItemOpen
  <2>7. it.type = "annotator_out" => it.id \in ToSet(aios) /\ Ratc \in wfd[it.id]
    BY <2>2, <2>4 DEF ItemOpen
  <2> QED
    BY <2>3, <2>5, <2>6, <2>7 DEF ItemTypes
<1> QED
  BY <1>1, AlwaysIo, PTL

(* An annotator that was given its end of input was given everything its   *)
(* buffer will ever hold.                                                  *)
THEOREM EofIsTheEnd == Spec => []EofMeansAll
<1>1. IoInv => EofMeansAll
  <2> SUFFICES ASSUME IoInv, NEW a \in Aio, procA[a] # "none", Ratc \notin wfd[a], Own(a),
                      ~Abandoned(aio[a].buffer)
               PROVE  aio[a].woffset = buf[aio[a].buffer].len /\ ~IsRunning(aio[a].buffer)
    BY DEF EofMeansAll
  <2> DEFINE b == aio[a].buffer
  <2>1. aio[a].woffset = buf[b].len /\ QuietB(b)
    BY DEF IoInv, Base, Eofs
  <2>2. bios \in Seq(Bio)
    BY DEF IoInv, Base, IoTypes
  <2>3. FirstBio(b) = 0 \/ bio[bios[FirstBio(b)]].rdone
    BY <2>1, <2>2, FirstBioIs DEF QuietB
  <2> QED
    BY <2>1, <2>3 DEF IsRunning, FirstBio
<1> QED
  BY <1>1, AlwaysIo, PTL

(* ratc waits only for processes that are coming to their end.             *)
THEOREM WaitsAreShort == Spec => []WaitsOnlyForEnded
<1>1. IoInv => WaitsOnlyForEnded
  <2> SUFFICES ASSUME IoInv PROVE WaitsOnlyForEnded
    OBVIOUS
  <2>1. /\ \A i \in ToSet(bios) : \E k \in DOMAIN bios : bios[k] = i
        /\ \A a \in ToSet(aios) : \E k \in DOMAIN aios : aios[k] = a
    BY DEF ToSet
  <2> QED
    BY <2>1 DEF WaitsOnlyForEnded, IoInv, Base, EndedInv
<1> QED
  BY <1>1, AlwaysIo, PTL

(* What is still read has somewhere to go, but for abandoned pagers.       *)
THEOREM OutputHasItsBuffer == Spec => []ReadersHaveBuffers
<1>1. IoInv => ReadersHaveBuffers
  <2> SUFFICES ASSUME IoInv PROVE ReadersHaveBuffers
    OBVIOUS
  <2>1. \A i \in ToSet(bios) : \E k \in DOMAIN bios : bios[k] = i
    BY DEF ToSet
  <2> QED
    BY <2>1 DEF ReadersHaveBuffers, IoInv, Base, ReadersHeld
<1> QED
  BY <1>1, AlwaysIo, PTL

(* An annotator is left with a buffer that is not its own only behind a    *)
(* newer annotator of that buffer, or by an abandoned pager.               *)
THEOREM OrphansAreOlder == Spec => []OrphansHaveNewerSibling
<1>1. IoInv => OrphansHaveNewerSibling
  <2> SUFFICES ASSUME IoInv PROVE OrphansHaveNewerSibling
    OBVIOUS
  <2>1. \A a \in ToSet(aios) : \E k \in DOMAIN aios : aios[k] = a
    BY DEF ToSet
  <2> QED
    BY <2>1 DEF OrphansHaveNewerSibling, IoInv, Base, OrphansExplained, Sibling
<1> QED
  BY <1>1, AlwaysIo, PTL

(* An annotator falls off the list only behind an older one that finished. *)
THEOREM FallsBehindOlder == Spec => []LostBehindOlder
<1>1. IoInv => LostBehindOlder
  <2> SUFFICES ASSUME IoInv, NEW a \in Aio, Lost(a) PROVE \E c \in 1..a-1 : procA[c] = "reaped"
    BY DEF LostBehindOlder
  <2>1. \A k \in DOMAIN aios : aios[k] # a
    BY DEF Lost, ToSet
  <2> QED
    BY <2>1 DEF IoInv, Base, Fallen, Lost
<1> QED
  BY <1>1, AlwaysIo, PTL

(* With one annotator, what ratc does to freed memory it does in           *)
(* io_prune_finished, or to the buffer of an abandoned pager.              *)
THEOREM OneAnnotatorUndefinedOnlyInPrune == Spec => []UndefinedOnlyInPrune
<1>1. IoInv => UndefinedOnlyInPrune
  BY DEF IoInv, UndefinedInv, UndefinedOnlyInPrune
<1> QED
  BY <1>1, AlwaysIo, PTL
-----------------------------------------------------------------------------
(* What the types say beyond the invariant: how much there can be.  An     *)
(* item stays ready until it is handled, so what is read is there and what *)
(* is written has room.                                                    *)
Thread ==
  /\ phase \in {"script", "keys", "poll", "items", "prune", "done"}
  /\ status \in {"running", "exited", "killed", "undefined"}
  /\ done \in BOOLEAN /\ ops \in 0..MaxOps

ItemsCounted == nItems = nBios + nAios

Contents ==
  /\ \A a \in Aio : aio[a].woffset \in 0..MaxContent
  /\ \A x \in Addr : buf[x].len \in 0..MaxContent /\ buf[x].gen \in 0..nBios

Pipes ==
  /\ outB \in [Bio -> 0..PipeCap] /\ leftB \in [Bio -> 0..MaxOutput]
  /\ inA \in [Aio -> 0..PipeCap]
  /\ outA \in [Aio -> 0..PipeCap] /\ leftA \in [Aio -> 0..MaxOutput]

StaysReady(it) ==
  /\ it.type = "buffer_in" => outB[it.id] > 0 \/ it.hup
  /\ it.type = "annotator_in" => outA[it.id] > 0 \/ it.hup
  /\ it.type = "annotator_out" => inA[it.id] < PipeCap
ItemsReady == phase = "items" => \A k \in DOMAIN items : StaysReady(items[k])

Unborn == \A a \in Aio : procA[a] = "none" => born[a] = 0

Sizes == Thread /\ ItemsCounted /\ Contents /\ Unborn /\ Pipes /\ ItemsReady

(* Together with the invariant that is the type invariant.                 *)
LEMMA SizesAreTypes == IoInv /\ Sizes => TypeOK
<1> SUFFICES ASSUME IoInv, Sizes PROVE TypeOK
  OBVIOUS
<1> USE DEF IoInv, Base, Sizes
<1>1. /\ nBios \in 0..MaxBios /\ nAios \in 0..MaxAios
      /\ bios \in Seq(Bio) /\ aios \in Seq(Aio)
  BY DEF Counted, IoTypes
<1>2. /\ DOMAIN bios = 1..Len(bios) /\ DOMAIN aios = 1..Len(aios)
      /\ \A k \in DOMAIN bios : bios[k] \in Bio
      /\ \A k \in DOMAIN aios : aios[k] \in Aio
  BY <1>1
<1>3. ToSet(bios) \subseteq Bio /\ ToSet(aios) \subseteq Aio
  BY <1>2 DEF ToSet
<1>4. IsInjective(bios) /\ IsInjective(aios)
  <2>1. \A j, k \in DOMAIN bios : j # k => bios[j] # bios[k]
    <3>1. \A j, k \in DOMAIN bios : bios[j] \in Int /\ (j < k \/ k < j \/ j = k)
      BY <1>2 DEF Bio
    <3> QED
      BY <3>1 DEF ListsSorted
  <2>2. \A j, k \in DOMAIN aios : j # k => aios[j] # aios[k]
    <3>1. \A j, k \in DOMAIN aios : aios[j] \in Int /\ (j < k \/ k < j \/ j = k)
      BY <1>2 DEF Aio
    <3> QED
      BY <3>1 DEF ListsSorted
  <2> QED
    BY <2>1, <2>2 DEF IsInjective
<1>5. aio \in [Aio -> [buffer : Addr \cup {NULL}, woffset : 0..MaxContent,
                       wdone : BOOLEAN, rdone : BOOLEAN]]
  <2>1. \A a \in Aio : aio[a] \in [buffer : Addr \cup {NULL}, woffset : 0..MaxContent,
                                   wdone : BOOLEAN, rdone : BOOLEAN]
    BY DEF IoTypes, Contents
  <2> QED
    BY <2>1 DEF IoTypes
<1>6. /\ buf \in [Addr -> [live : BOOLEAN, len : 0..MaxContent, gen : 0..MaxBios]]
      /\ \A x \in Addr : buf[x].gen \in 0..MaxBios
  <2>1. \A x \in Addr : buf[x].gen \in 0..MaxBios
    BY <1>1, ConstantsAssumption DEF Contents
  <2>2. \A x \in Addr : buf[x] \in [live : BOOLEAN, len : 0..MaxContent, gen : 0..MaxBios]
    BY <2>1 DEF IoTypes, Contents
  <2> QED
    BY <2>1, <2>2 DEF IoTypes
<1>7. /\ procB \in [Bio -> {"none", "forked", "running", "ending", "dead", "reaped"}]
      /\ procA \in [Aio -> {"none", "forked", "running", "ending", "dead", "reaped"}]
      /\ bio \in [Bio -> [buffer : Addr \cup {NULL}, rdone : BOOLEAN]]
  BY DEF IoTypes, ProcStates
<1>8. born \in [Aio -> 0..MaxBios]
  <2>1. \A a \in Aio : born[a] \in 0..MaxBios
    <3> SUFFICES ASSUME NEW a \in Aio PROVE born[a] \in 0..MaxBios
      OBVIOUS
    <3>1. CASE procA[a] # "none"
      <4>1. aio[a].buffer \in Addr /\ born[a] <= buf[aio[a].buffer].gen /\ born[a] \in Nat
        BY <3>1 DEF Generations, IoTypes
      <4> QED
        BY <1>6, <4>1, ConstantsAssumption
    <3>2. CASE procA[a] = "none"
      BY <3>2, ConstantsAssumption DEF Unborn
    <3> QED
      BY <3>1, <3>2
  <2> QED
    BY <2>1 DEF IoTypes
<1> QED
  BY <1>3, <1>4, <1>5, <1>6, <1>7, <1>8 DEF TypeOK, Thread, ItemsCounted, Pipes
-----------------------------------------------------------------------------
(* At first the pipes and the buffers are empty.                           *)
LEMMA InitSizes == Init => Sizes
<1> SUFFICES ASSUME Init PROVE Sizes
  OBVIOUS
<1> USE ConstantsAssumption
<1>1. nBios = 0 /\ nAios = 0
  <2>1. \A i \in 1..MaxBios : procB[i] # "none" <=> i <= 0
    BY DEF Init, Bio
  <2>2. \A a \in 1..MaxAios : procA[a] # "none" <=> a <= 0
    BY DEF Init, Aio
  <2> QED
    BY <2>1, <2>2, CountNumbered DEF nBios, nAios, Bio, Aio
<1>2. ItemsCounted /\ Unborn /\ ItemsReady
  BY <1>1 DEF Init, ItemsCounted, Unborn, ItemsReady
<1>5. Thread
  <2>1. MaxOps \in 0..MaxOps
    OBVIOUS
  <2>2. phase = "script" /\ status = "running" /\ done \in BOOLEAN /\ ops = MaxOps
    BY DEF Init
  <2> QED
    BY <2>1, <2>2 DEF Thread
<1>3. Contents
  BY <1>1 DEF Init, Contents
<1>4. Pipes
  BY DEF Init, Pipes
<1> QED
  BY <1>2, <1>3, <1>4, <1>5 DEF Sizes

(* The steps that move the thread, or plan calls, and nothing else.        *)
LEMMA SameSizes ==
  ASSUME Sizes, Thread', phase' = "items" => phase = "items" /\ items' = items,
         UNCHANGED <<nItems, aio, buf, outB, leftB, inA, outA, leftA, procB, procA, born>>
  PROVE  Sizes'
<1>1. nBios' = nBios /\ nAios' = nAios
  BY DEF nBios, nAios
<1>2. ItemsCounted' /\ Contents' /\ Unborn' /\ Pipes'
  BY <1>1 DEF Sizes, ItemsCounted, Contents, Unborn, Pipes
<1>3. ItemsReady'
  BY DEF Sizes, ItemsReady, StaysReady
<1> QED
  BY <1>2, <1>3 DEF Sizes

(* The end of ratc changes no size.                                        *)
LEMMA EndSizes ==
  ASSUME Sizes, NEW how, Ends(how), how \in {"exited", "killed", "undefined"}
  PROVE  Sizes'
<1>1. Thread'
  BY DEF Ends, Sizes, Thread, histVars
<1> QED
  BY <1>1, SameSizes DEF Ends, listVars, heapVars, procVars, histVars

(* How the counts follow from the numbering.                               *)
LEMMA CountsFollow ==
  ASSUME IoInv, IoInv'
  PROVE  /\ (\A i \in Bio : procB'[i] = "none" <=> procB[i] = "none") => nBios' = nBios
         /\ (\A a \in Aio : procA'[a] = "none" <=> procA[a] = "none") => nAios' = nAios
         /\ \A i \in Bio : i = nBios + 1 /\ procB'[i] # "none" /\ (\A j \in Bio \ {i} : procB'[j] = procB[j])
              => nBios' = nBios + 1
         /\ \A a \in Aio : a = nAios + 1 /\ procA'[a] # "none" /\ (\A c \in Aio \ {a} : procA'[c] = procA[c])
              => nAios' = nAios + 1
<1> USE ConstantsAssumption
<1>0. Counted /\ Counted'
  BY DEF IoInv, Base
<1>1. (\A i \in Bio : procB'[i] = "none" <=> procB[i] = "none") => nBios' = nBios
  BY DEF nBios
<1>2. (\A a \in Aio : procA'[a] = "none" <=> procA[a] = "none") => nAios' = nAios
  BY DEF nAios
<1>3. ASSUME NEW i \in Bio, i = nBios + 1, procB'[i] # "none", \A j \in Bio \ {i} : procB'[j] = procB[j]
      PROVE  nBios' = nBios + 1
  <2> DEFINE n == nBios + 1
  <2>1. n \in 0..MaxBios /\ \A j \in 1..MaxBios : procB'[j] # "none" <=> j <= n
    <3>1. nBios \in Nat /\ \A j \in 1..MaxBios : procB[j] # "none" <=> j <= nBios
      BY <1>0 DEF Counted, Bio
    <3>2. \A j \in 1..MaxBios : j # i => procB'[j] = procB[j]
      BY <1>3 DEF Bio
    <3> QED
      BY <1>3, <3>1, <3>2 DEF Bio
  <2> HIDE DEF n
  <2>2. nBios' = n
    BY <2>1, CountNumbered DEF nBios, Bio
  <2> QED
    BY <2>2 DEF n
<1>4. ASSUME NEW a \in Aio, a = nAios + 1, procA'[a] # "none", \A c \in Aio \ {a} : procA'[c] = procA[c]
      PROVE  nAios' = nAios + 1
  <2> DEFINE n == nAios + 1
  <2>1. n \in 0..MaxAios /\ \A c \in 1..MaxAios : procA'[c] # "none" <=> c <= n
    <3>1. nAios \in Nat /\ \A c \in 1..MaxAios : procA[c] # "none" <=> c <= nAios
      BY <1>0 DEF Counted, Aio
    <3>2. \A c \in 1..MaxAios : c # a => procA'[c] = procA[c]
      BY <1>4 DEF Aio
    <3> QED
      BY <1>4, <3>1, <3>2 DEF Aio
  <2> HIDE DEF n
  <2>2. nAios' = n
    BY <2>1, CountNumbered DEF nAios, Aio
  <2> QED
    BY <2>2 DEF n
<1> QED
  BY <1>1, <1>2, <1>3, <1>4

(* A cancel moves no data.                                                 *)
LEMMA CancelSizes ==
  ASSUME IoInv, IoInv', Sizes, NEW p \in Pager, Cancel(p)
  PROVE  Sizes'
<1> DEFINE is == CancelledCommands(pager[p].buffer)
           as == CancelledAnnotators(pager[p].buffer)
           unready == (\E i \in is : procB[i] = "forked") \/ (\E a \in as : procA[a] = "forked")
<1>1. CASE unready
  <2>1. Ends("exited")
    BY <1>1 DEF Cancel
  <2> QED
    BY <2>1, EndSizes
<1>2. CASE ~unready
  <2>1. /\ aio' = [a \in Aio |-> [aio[a] EXCEPT !.wdone = @ \/ a \in as, !.rdone = @ \/ a \in as]]
        /\ procB' = [i \in Bio |-> IF i \in is THEN Terminate(procB[i]) ELSE procB[i]]
        /\ procA' = [a \in Aio |-> IF a \in as THEN Terminate(procA[a]) ELSE procA[a]]
        /\ phase' = phase /\ status' = status /\ done' = done /\ ops' = ops /\ items' = items
        /\ UNCHANGED <<nItems, buf, born, outB, leftB, inA, outA, leftA>>
    BY <1>2 DEF Cancel, heapVars, histVars
  <2>2. /\ \A i \in is : procB[i] # "none"
        /\ \A a \in as : procA[a] # "none"
    BY CancelledListed DEF IoInv, Base, ListsSorted
  <2> HIDE DEF is, as
  <2>3. /\ \A i \in Bio : procB'[i] = "none" <=> procB[i] = "none"
        /\ \A a \in Aio : procA'[a] = "none" <=> procA[a] = "none"
    BY <2>1, <2>2 DEF Terminate, Gone
  <2>4. nBios' = nBios /\ nAios' = nAios
    BY <2>3, CountsFollow
  <2>5. \A a \in Aio : aio'[a].woffset = aio[a].woffset
    <3>1. \A a \in Aio : aio[a] \in [buffer : Addr \cup {NULL}, woffset : Int, wdone : BOOLEAN, rdone : BOOLEAN]
      BY DEF IoInv, Base, IoTypes
    <3> QED
      BY <2>1, <3>1
  <2>6. Thread' /\ ItemsCounted' /\ Contents' /\ Unborn' /\ Pipes' /\ ItemsReady'
    BY <2>1, <2>3, <2>4, <2>5 DEF Sizes, Thread, ItemsCounted, Contents, Unborn, Pipes, ItemsReady, StaysReady
  <2> QED
    BY <2>6 DEF Sizes
<1> QED
  BY <1>1, <1>2

(* A command that is run gets an empty buffer, of the next generation.     *)
LEMMA RunSizes ==
  ASSUME IoInv, IoInv', Sizes, NEW p \in Pager, Run(p)
  PROVE  Sizes'
<1>1. PICK i, x : RunStep(p, i, x)
  BY RunEffect
<1>2. /\ i = nBios + 1 /\ i \in Bio /\ x \in Addr
      /\ buf'[x].len = 0 /\ buf'[x].gen = buf[x].gen + 1
      /\ \A y \in Addr \ {x} : buf'[y].len = buf[y].len /\ buf'[y].gen = buf[y].gen
      /\ nItems' = nItems + 1 /\ procB' = [procB EXCEPT ![i] = "forked"]
      /\ UNCHANGED <<phase, status, items, aio, procA, inA, born>>
  BY <1>1 DEF RunStep
<1>3. UNCHANGED <<done, ops, outB, leftB, outA, leftA>>
  BY DEF Run, histVars
<1>4. /\ procB'[i] # "none" /\ \A j \in Bio \ {i} : procB'[j] = procB[j]
  BY <1>2 DEF IoInv, Base, IoTypes
<1>5. nBios' = nBios + 1 /\ nAios' = nAios /\ nBios \in Nat /\ nAios \in Nat
  BY <1>2, <1>4, CountsFollow, ConstantsAssumption DEF IoInv, Base, Counted
<1>6. Contents'
  <2>1. \A y \in Addr : buf[y].gen \in 0..nBios /\ buf[y].len \in 0..MaxContent
    BY DEF Sizes, Contents
  <2>2. \A y \in Addr : buf'[y].gen \in 0..nBios+1 /\ buf'[y].len \in 0..MaxContent
    BY <1>2, <1>5, <2>1, ConstantsAssumption
  <2> QED
    BY <1>2, <1>5, <2>2 DEF Sizes, Contents
<1>7. Thread' /\ ItemsCounted' /\ Unborn' /\ Pipes' /\ ItemsReady'
  BY <1>2, <1>3, <1>5 DEF Sizes, Thread, ItemsCounted, Unborn, Pipes, ItemsReady, StaysReady
<1> QED
  BY <1>6, <1>7 DEF Sizes

(* An annotator starts at the beginning of its buffer.                     *)
LEMMA AnnotateSizes ==
  ASSUME IoInv, IoInv', Sizes, NEW p \in Pager, Annotate(p)
  PROVE  Sizes'
<1>1. PICK a, b : AnnotateStep(a, b)
  BY AnnotateEffect
<1>2. /\ a = nAios + 1 /\ a \in Aio
      /\ aio'[a].woffset = 0 /\ \A c \in Aio \ {a} : aio'[c] = aio[c]
      /\ nItems' = nItems + 1 /\ procA'[a] = "forked"
      /\ \A c \in Aio \ {a} : procA'[c] = procA[c] /\ born'[c] = born[c]
      /\ UNCHANGED <<phase, status, items, buf, procB, inA>>
  BY <1>1 DEF AnnotateStep
<1>3. UNCHANGED <<done, ops, outB, leftB, outA, leftA>>
  BY DEF Annotate
<1>4. nAios' = nAios + 1 /\ nBios' = nBios /\ nBios \in Nat /\ nAios \in Nat
  BY <1>2, CountsFollow, ConstantsAssumption DEF IoInv, Base, Counted
<1>5. Contents'
  <2>1. \A c \in Aio : aio'[c].woffset \in 0..MaxContent
    <3>1. 0 \in 0..MaxContent /\ \A c \in Aio : aio[c].woffset \in 0..MaxContent
      BY ConstantsAssumption DEF Sizes, Contents
    <3>2. \A c \in Aio : aio'[c].woffset = 0 \/ aio'[c] = aio[c]
      BY <1>2
    <3> QED
      BY <3>1, <3>2
  <2>2. \A y \in Addr : buf'[y].len \in 0..MaxContent /\ buf'[y].gen \in 0..nBios'
    BY <1>2, <1>4 DEF Sizes, Contents
  <2> QED
    BY <2>1, <2>2 DEF Contents
<1>6. Unborn'
  BY <1>2 DEF Sizes, Unborn
<1>7. Thread' /\ ItemsCounted' /\ Pipes' /\ ItemsReady'
  BY <1>2, <1>3, <1>4 DEF Sizes, Thread, ItemsCounted, Pipes, ItemsReady, StaysReady
<1> QED
  BY <1>5, <1>6, <1>7 DEF Sizes

(* Freeing a buffer changes none of its sizes.                             *)
LEMMA FreeSizes ==
  ASSUME IoInv, IoInv', Sizes, NEW p \in Pager, FreePager(p)
  PROVE  Sizes'
<1>1. buf' = [buf EXCEPT ![pager[p].buffer].live = FALSE]
      /\ UNCHANGED <<phase, status, done, items, ops, nItems, aio, procB, procA, born,
                     outB, leftB, inA, outA, leftA>>
  BY DEF FreePager, listVars, procVars, histVars
<1>2. \A x \in Addr : buf'[x].len = buf[x].len /\ buf'[x].gen = buf[x].gen
  <2>1. buf \in [Addr -> [live : BOOLEAN, len : Nat, gen : Nat]]
    BY DEF IoInv, Base, IoTypes
  <2> QED
    BY <1>1, <2>1
<1>3. nBios' = nBios /\ nAios' = nAios
  BY <1>1 DEF nBios, nAios
<1>4. Thread' /\ ItemsCounted' /\ Contents' /\ Unborn' /\ Pipes' /\ ItemsReady'
  BY <1>1, <1>2, <1>3 DEF Sizes, Thread, ItemsCounted, Contents, Unborn, Pipes, ItemsReady, StaysReady
<1> QED
  BY <1>4 DEF Sizes

(* What a handler asks for, and where the thread goes next.                *)
LEMMA ThreadSizes ==
  ASSUME IoInv, Sizes,
         \/ \E p \in Pager : \/ NewPager(p) \/ AddAnnotator(p) \/ Reload(p)
                             \/ PopPager(p) \/ CollectPager(p)
         \/ HandlerReturns \/ PollKey \/ ItemsDone
  PROVE  Sizes'
<1>1. /\ UNCHANGED <<nItems, aio, buf, outB, leftB, inA, outA, leftA, procB, procA, born>>
      /\ items' = items /\ status' = status
  BY DEF NewPager, AddAnnotator, Reload, PopPager, CollectPager, HandlerReturns, PollKey, ItemsDone,
     listVars, procVars, heapVars, histVars
<1>2. CASE \E p \in Pager : \/ NewPager(p) \/ AddAnnotator(p) \/ Reload(p)
                            \/ PopPager(p) \/ CollectPager(p)
  <2>1. phase' = phase /\ done' = done /\ ops' = ops - 1 /\ ops > 0
    BY <1>2 DEF NewPager, AddAnnotator, Reload, PopPager, CollectPager, Asking
  <2>2. Thread'
    BY <1>1, <2>1, ConstantsAssumption DEF Sizes, Thread
  <2> QED
    BY <1>1, <2>1, <2>2, SameSizes
<1>3. CASE HandlerReturns
  <2>1. phase' \in {"prune", "poll", "done"} /\ done' = done /\ ops' = ops
    BY <1>3 DEF HandlerReturns, histVars
  <2> QED
    BY <1>1, <2>1, SameSizes DEF Sizes, Thread
<1>4. CASE PollKey
  <2>1. phase' = "keys" /\ done' \in BOOLEAN /\ ops' = ops - 1 /\ ops > 0
    BY <1>4 DEF PollKey
  <2>2. Thread'
    BY <1>1, <2>1, ConstantsAssumption DEF Sizes, Thread
  <2> QED
    BY <1>1, <2>1, <2>2, SameSizes
<1>5. CASE ItemsDone
  <2>1. phase' = "prune" /\ done' = done /\ ops' = ops
    BY <1>5 DEF ItemsDone, histVars
  <2> QED
    BY <1>1, <2>1, SameSizes DEF Sizes, Thread
<1> QED
  BY <1>2, <1>3, <1>4, <1>5

(* A process fills its output pipe up to its size and empties its input    *)
(* pipe: what was ready in the last poll stays so.                         *)
LEMMA ProcessSizes ==
  ASSUME IoInv, IoInv', Sizes, Process
  PROVE  Sizes'
<1> USE DEF Sizes
<1>1. UNCHANGED <<loopVars, listVars, heapVars, histVars>>
  BY DEF Process, CommandStarts, CommandWrites, CommandCloses, CommandExits, AnnotatorStarts,
     AnnotatorConsumes, AnnotatorAnswers, AnnotatorCloses, AnnotatorExits
<1>2. /\ phase' = phase /\ status' = status /\ done' = done /\ items' = items /\ ops' = ops
      /\ nItems' = nItems /\ aio' = aio /\ buf' = buf /\ born' = born
  BY <1>1 DEF loopVars, listVars, heapVars, histVars
<1>3. /\ procB \in [Bio -> ProcStates] /\ procA \in [Aio -> ProcStates]
  BY DEF IoInv, Base, IoTypes
<1>4. /\ \A i \in Bio : procB'[i] = "none" <=> procB[i] = "none"
      /\ \A a \in Aio : procA'[a] = "none" <=> procA[a] = "none"
  BY <1>3 DEF Process, CommandStarts, CommandWrites, CommandCloses, CommandExits, AnnotatorStarts,
     AnnotatorConsumes, AnnotatorAnswers, AnnotatorCloses, AnnotatorExits
<1>5. nBios' = nBios /\ nAios' = nAios
  BY <1>4, CountsFollow
<1>6. Thread' /\ ItemsCounted' /\ Contents' /\ Unborn'
  BY <1>2, <1>4, <1>5 DEF Thread, ItemsCounted, Contents, Unborn
<1>7. /\ \A i \in Bio : outB[i] \in 0..PipeCap /\ leftB[i] \in 0..MaxOutput
      /\ \A a \in Aio : outA[a] \in 0..PipeCap /\ leftA[a] \in 0..MaxOutput /\ inA[a] \in 0..PipeCap
  BY DEF Pipes
<1>8. /\ outB' = outB \/ \E i \in Bio : outB[i] < PipeCap /\ outB' = [outB EXCEPT ![i] = @ + 1]
      /\ leftB' = leftB \/ \E i \in Bio : leftB[i] > 0 /\ leftB' = [leftB EXCEPT ![i] = @ - 1]
      /\ inA' = inA \/ \E a \in Aio : inA[a] > 0 /\ inA' = [inA EXCEPT ![a] = @ - 1]
      /\ outA' = outA \/ \E a \in Aio : outA[a] < PipeCap /\ outA' = [outA EXCEPT ![a] = @ + 1]
      /\ leftA' = leftA \/ \E a \in Aio : leftA[a] > 0 /\ leftA' = [leftA EXCEPT ![a] = @ - 1]
  <2>1. ASSUME NEW i \in Bio, CommandStarts(i) \/ CommandCloses(i) \/ CommandExits(i)
        PROVE  outB' = outB /\ leftB' = leftB /\ inA' = inA /\ outA' = outA /\ leftA' = leftA
    BY <2>1 DEF CommandStarts, CommandCloses, CommandExits
  <2>2. ASSUME NEW i \in Bio, CommandWrites(i)
        PROVE  /\ outB[i] < PipeCap /\ outB' = [outB EXCEPT ![i] = @ + 1]
               /\ leftB[i] > 0 /\ leftB' = [leftB EXCEPT ![i] = @ - 1]
               /\ inA' = inA /\ outA' = outA /\ leftA' = leftA
    BY <2>2 DEF CommandWrites
  <2>3. ASSUME NEW a \in Aio, AnnotatorStarts(a) \/ AnnotatorCloses(a) \/ AnnotatorExits(a)
        PROVE  outB' = outB /\ leftB' = leftB /\ inA' = inA /\ outA' = outA /\ leftA' = leftA
    BY <2>3 DEF AnnotatorStarts, AnnotatorCloses, AnnotatorExits
  <2>4. ASSUME NEW a \in Aio, AnnotatorConsumes(a)
        PROVE  /\ inA[a] > 0 /\ inA' = [inA EXCEPT ![a] = @ - 1]
               /\ outB' = outB /\ leftB' = leftB /\ outA' = outA /\ leftA' = leftA
    BY <2>4 DEF AnnotatorConsumes
  <2>5. ASSUME NEW a \in Aio, AnnotatorAnswers(a)
        PROVE  /\ outA[a] < PipeCap /\ outA' = [outA EXCEPT ![a] = @ + 1]
               /\ leftA[a] > 0 /\ leftA' = [leftA EXCEPT ![a] = @ - 1]
               /\ outB' = outB /\ leftB' = leftB /\ inA' = inA
    BY <2>5 DEF AnnotatorAnswers
  <2> QED
    BY <2>1, <2>2, <2>3, <2>4, <2>5 DEF Process
<1>9. Pipes'
  <2>1. ASSUME NEW S, NEW f \in [S -> 0..PipeCap], NEW g,
               g = f \/ \E x \in S : \/ f[x] < PipeCap /\ g = [f EXCEPT ![x] = @ + 1]
                                     \/ f[x] > 0 /\ g = [f EXCEPT ![x] = @ - 1]
        PROVE  g \in [S -> 0..PipeCap]
    BY <2>1, ConstantsAssumption
  <2>2. ASSUME NEW S, NEW f \in [S -> 0..MaxOutput], NEW g,
               g = f \/ \E x \in S : f[x] > 0 /\ g = [f EXCEPT ![x] = @ - 1]
        PROVE  g \in [S -> 0..MaxOutput]
    BY <2>2, ConstantsAssumption
  <2>3. outB' \in [Bio -> 0..PipeCap]
    BY <1>8, <2>1 DEF Pipes
  <2>4. leftB' \in [Bio -> 0..MaxOutput]
    BY <1>8, <2>2 DEF Pipes
  <2>5. inA' \in [Aio -> 0..PipeCap]
    BY <1>8, <2>1 DEF Pipes
  <2>6. outA' \in [Aio -> 0..PipeCap]
    BY <1>8, <2>1 DEF Pipes
  <2>7. leftA' \in [Aio -> 0..MaxOutput]
    BY <1>8, <2>2 DEF Pipes
  <2> QED
    BY <2>3, <2>4, <2>5, <2>6, <2>7 DEF Pipes
<1>10. /\ \A i \in Bio : outB[i] > 0 => outB'[i] > 0
       /\ \A a \in Aio : outA[a] > 0 => outA'[a] > 0
       /\ \A a \in Aio : inA[a] < PipeCap => inA'[a] < PipeCap
  BY <1>7, <1>8, ConstantsAssumption DEF Pipes
<1>11. ItemsReady'
  <2> SUFFICES ASSUME phase = "items", NEW k \in DOMAIN items
               PROVE  \E it : it = items[k] /\ StaysReady(it)'
    BY <1>2 DEF ItemsReady
  <2>1. PICK it : it = items[k]
    OBVIOUS
  <2>2. ItemOpen(it) /\ StaysReady(it)
    BY <2>1 DEF IoInv, ItemsInv, ItemsReady
  <2>3. /\ \A j \in DOMAIN bios : bios[j] \in Bio
        /\ \A j \in DOMAIN aios : aios[j] \in Aio
    <3>1. bios \in Seq(Bio) /\ aios \in Seq(Aio)
      BY DEF IoInv, Base, IoTypes
    <3> QED
      BY <3>1
  <2>4. /\ it.type = "buffer_in" => it.id \in Bio
        /\ it.type \in {"annotator_in", "annotator_out"} => it.id \in Aio
    BY <2>2, <2>3 DEF ItemOpen
  <2>5. StaysReady(it)'
    BY <1>10, <2>2, <2>4 DEF StaysReady
  <2> QED
    BY <2>1, <2>5
<1> QED
  BY <1>6, <1>9, <1>11

(* What poll finds ready is ready.                                         *)
LEMMA PollSizes ==
  ASSUME IoInv, IoInv', Sizes, Poll
  PROVE  Sizes'
<1>1. CASE ReadsFreedBuffer
  <2>1. Ends("undefined")
    BY <1>1 DEF Poll
  <2> QED
    BY <2>1, EndSizes
<1>2. CASE ~ReadsFreedBuffer
  <2> DEFINE ready == {k \in BuiltItems : Ready(Candidate(k))}
             n == Len(bios) + 2 * Len(aios)
             order == Ascending(ready, n)
  <2>1. /\ items' = [k \in DOMAIN order |-> Polled(Candidate(order[k]))]
        /\ phase' = "items" /\ status' = status /\ done' = done
        /\ UNCHANGED <<listVars, heapVars, procVars, histVars>>
    BY <1>2 DEF Poll
  <2>2. /\ \A k \in ready : k \in Places /\ Wanted(Candidate(k)) /\ Ready(Candidate(k))
        /\ ready \in SUBSET (1..n) /\ n \in Nat
    BY DEF BuiltItems, Places, IoInv, Base, IoTypes
  <2> HIDE DEF ready, n
  <2>3. Lists(order, ready, n)
    BY <2>2, AscendingLists, Zenon
  <2> HIDE DEF order
  <2>4. \A k \in DOMAIN items' : items'[k] = Polled(Candidate(order[k])) /\ order[k] \in ready
    <3>1. \A k \in DOMAIN order : order[k] \in ready
      BY <2>3 DEF Lists
    <3> QED
      BY <2>1, <3>1
  <2>5. \A k \in ready : StaysReady(Polled(Candidate(k)))
    <3> SUFFICES ASSUME NEW k \in ready PROVE StaysReady(Polled(Candidate(k)))
      OBVIOUS
    <3>1. PICK it : it = Candidate(k)
      OBVIOUS
    <3>2. PICK r : r = Polled(it)
      OBVIOUS
    <3>3. r.type = it.type /\ r.id = it.id /\ r.hup = Hup(it)
      BY <3>2 DEF Polled
    <3>4. Ready(it)
      BY <2>2, <3>1
    <3>9. StaysReady(r)
      <4>1. ASSUME it.type = "buffer_in" PROVE outB[r.id] > 0 \/ r.hup
        BY <3>3, <3>4, <4>1 DEF Ready, Hup
      <4>2. ASSUME it.type = "annotator_in" PROVE outA[r.id] > 0 \/ r.hup
        BY <3>3, <3>4, <4>2 DEF Ready, Hup
      <4>3. ASSUME it.type = "annotator_out" PROVE inA[r.id] < PipeCap
        BY <3>3, <3>4, <4>3 DEF Ready
      <4> QED
        BY <3>3, <4>1, <4>2, <4>3 DEF StaysReady
    <3> QED
      BY <3>1, <3>2, <3>9
  <2>6. \A k \in DOMAIN items' : \E it : it = items'[k] /\ StaysReady(it)'
    <3>1. ASSUME NEW it, StaysReady(it) PROVE StaysReady(it)'
      BY <2>1, <3>1 DEF StaysReady, procVars
    <3> QED
      BY <2>4, <2>5, <3>1
  <2>7. ItemsReady'
    BY <2>6 DEF ItemsReady
  <2>8. Thread' /\ Contents' /\ Unborn' /\ Pipes' /\ ItemsCounted'
    <3>1. nBios' = nBios /\ nAios' = nAios
      BY <2>1 DEF nBios, nAios, procVars
    <3> QED
      BY <2>1, <3>1 DEF Sizes, Thread, Contents, Unborn, Pipes, ItemsCounted,
         listVars, heapVars, procVars, histVars
  <2> QED
    BY <2>7, <2>8 DEF Sizes
<1> QED
  BY <1>1, <1>2

(* Handling an item leaves the others ready.                               *)
LEMMA HandledSizes ==
  ASSUME IoInv, Sizes, NEW type, Handling(type), items' = Tail(items),
         UNCHANGED <<phase, status, done, ops, nItems, procB, procA, born>>,
         Contents', Pipes',
         \A i \in Bio : outB'[i] = outB[i] \/ (type = "buffer_in" /\ i = Head(items).id),
         \A a \in Aio : /\ outA'[a] = outA[a] \/ (type = "annotator_in" /\ a = Head(items).id)
                        /\ inA'[a] = inA[a] \/ (type = "annotator_out" /\ a = Head(items).id)
  PROVE  Sizes'
<1>1. nBios' = nBios /\ nAios' = nAios
  BY DEF nBios, nAios
<1>2. Thread' /\ ItemsCounted' /\ Unborn'
  BY <1>1 DEF Sizes, Thread, ItemsCounted, Unborn
<1>3. ItemsReady'
  <2> SUFFICES ASSUME NEW k \in DOMAIN items' PROVE \E it : it = items'[k] /\ StaysReady(it)'
    BY DEF ItemsReady
  <2>1. PICK it : it = items'[k]
    OBVIOUS
  <2>2. /\ ItemOpen(it) /\ ~(it.type = type /\ it.id = Head(items).id)
        /\ k + 1 \in DOMAIN items /\ it = items[k+1] /\ phase = "items"
    BY <2>1, ItemTaken
  <2>3. StaysReady(it)
    BY <2>2 DEF Sizes, ItemsReady
  <2>4. /\ \A j \in DOMAIN bios : bios[j] \in Bio
        /\ \A j \in DOMAIN aios : aios[j] \in Aio
    <3>1. bios \in Seq(Bio) /\ aios \in Seq(Aio)
      BY DEF IoInv, Base, IoTypes
    <3> QED
      BY <3>1
  <2>5. /\ it.type = "buffer_in" => it.id \in Bio
        /\ it.type \in {"annotator_in", "annotator_out"} => it.id \in Aio
    BY <2>2, <2>4 DEF ItemOpen
  <2>6. StaysReady(it)'
    BY <2>2, <2>3, <2>5 DEF StaysReady
  <2> QED
    BY <2>1, <2>6
<1> QED
  BY <1>2, <1>3 DEF Sizes

(* A read takes what is there: one unit, or what is left after a hang-up.  *)
LEMMA BufferReadSizes ==
  ASSUME IoInv, IoInv', Sizes, BufferRead
  PROVE  Sizes'
<1> DEFINE i == Head(items).id
           b == bio[i].buffer
           hup == Head(items).hup
<1>1. Handling("buffer_in")
  BY DEF BufferRead
<1>2. Ends("undefined") \/ ReadStep(i, b, hup)
  BY BufferReadEffect
<1>3. CASE Ends("undefined")
  BY <1>3, EndSizes
<1>4. CASE ReadStep(i, b, hup)
  <2>1. PICK g : /\ g = 0 \/ g \in 0..(MaxContent - buf[b].len)
                 /\ buf' = [buf EXCEPT ![b].len = @ + g]
    BY <1>4 DEF ReadStep
  <2>2. /\ outB' = [outB EXCEPT ![i] = IF hup THEN 0 ELSE @ - 1]
        /\ items' = Tail(items)
        /\ UNCHANGED <<phase, status, done, ops, nItems, aio, procB, procA, leftB, inA, outA,
                       leftA, born>>
    BY <1>4 DEF ReadStep
  <2>3. ItemOpen(Head(items)) /\ Head(items) \in ItemRec /\ Head(items).type = "buffer_in"
        /\ phase = "items" /\ 1 \in DOMAIN items /\ Head(items) = items[1]
    <3>1. items \in Seq(ItemRec) /\ items # <<>>
      BY <1>1 DEF Handling, IoInv, ItemsInv, ItemRec
    <3> QED
      BY <1>1, <3>1, HeadItem
  <2>4. outB[i] > 0 \/ hup
    BY <2>3 DEF Sizes, ItemsReady, StaysReady
  <2>5. i \in Bio /\ ~bio[i].rdone /\ hup \in BOOLEAN
    <3>1. bios \in Seq(Bio)
      BY DEF IoInv, Base, IoTypes
    <3>2. \A k \in DOMAIN bios : bios[k] \in Bio
      BY <3>1
    <3> QED
      BY <2>3, <3>2 DEF ItemOpen, ItemRec
  <2>6. b \in Addr
    <3>1. PICK k \in DOMAIN bios : bios[k] = i
      BY <2>3 DEF ItemOpen
    <3> QED
      BY <2>5, <3>1 DEF IoInv, Base, ReadersHeld
  <2> HIDE DEF i, b, hup
  <2>7. outB' \in [Bio -> 0..PipeCap]
    <3>1. outB \in [Bio -> 0..PipeCap] /\ outB[i] \in 0..PipeCap
      BY <2>5 DEF Sizes, Pipes
    <3>2. (IF hup THEN 0 ELSE outB[i] - 1) \in 0..PipeCap
      BY <2>4, <2>5, <3>1, ConstantsAssumption
    <3> QED
      BY <2>2, <3>1, <3>2
  <2>8. Pipes'
    BY <2>2, <2>7 DEF Sizes, Pipes
  <2>9. /\ \A x \in Addr : buf'[x].gen = buf[x].gen
        /\ \A x \in Addr \ {b} : buf'[x].len = buf[x].len
        /\ buf'[b].len = buf[b].len + g
    <3>1. buf \in [Addr -> [live : BOOLEAN, len : Nat, gen : Nat]]
      BY DEF IoInv, Base, IoTypes
    <3> QED
      BY <2>1, <2>6, <3>1
  <2>10. buf[b].len + g \in 0..MaxContent
    <3>1. buf[b].len \in 0..MaxContent
      BY <2>6 DEF Sizes, Contents
    <3>2. g = 0 \/ g \in 0..(MaxContent - buf[b].len)
      BY <2>1, Zenon
    <3> QED
      BY <3>1, <3>2, ConstantsAssumption
  <2>11. Contents'
    <3>1. nBios' = nBios
      BY <2>2 DEF nBios
    <3>2. \A x \in Addr : buf'[x].len \in 0..MaxContent
      <4>1. \A x \in Addr : buf[x].len \in 0..MaxContent
        BY DEF Sizes, Contents
      <4> QED
        BY <2>9, <2>10, <4>1
    <3> QED
      BY <2>2, <2>9, <3>1, <3>2 DEF Sizes, Contents
  <2>12. \A j \in Bio : outB'[j] = outB[j] \/ j = i
    BY <2>2 DEF Sizes, Pipes
  <2> QED
    <3>1. UNCHANGED <<phase, status, done, ops, nItems, procB, procA, born>>
      BY <2>2
    <3>2. \A j \in Bio : outB'[j] = outB[j] \/ j = Head(items).id
      BY <2>12, Zenon DEF i
    <3>3. \A a \in Aio : outA'[a] = outA[a] /\ inA'[a] = inA[a]
      BY <2>2
    <3> QED
      BY <1>1, <2>2, <2>8, <2>11, <3>1, <3>2, <3>3, HandledSizes, SMTT(30)
<1> QED
  BY <1>2, <1>3, <1>4, Zenon

(* A read of answers takes one unit, or what is left after a hang-up.      *)
LEMMA AnnotatorReadSizes ==
  ASSUME IoInv, IoInv', Sizes, AnnotatorRead
  PROVE  Sizes'
<1> DEFINE a == Head(items).id
           hup == Head(items).hup
<1>1. Handling("annotator_in")
  BY DEF AnnotatorRead
<1>2. PICK complete \in {FALSE, outA[a] > 0} :
        IF complete /\ ~buf[aio[a].buffer].live
        THEN Ends("undefined")
        ELSE /\ outA' = [outA EXCEPT ![a] = IF hup THEN 0 ELSE @ - 1]
             /\ aio' = [aio EXCEPT ![a].rdone = hup]
             /\ items' = Tail(items)
             /\ UNCHANGED <<phase, status, done, ops, nItems, buf, procB, procA, outB, leftB, inA,
                            leftA, born>>
  BY DEF AnnotatorRead, histVars, heapVars
<1>3. CASE complete /\ ~buf[aio[a].buffer].live
  BY <1>2, <1>3, EndSizes
<1>4. CASE ~(complete /\ ~buf[aio[a].buffer].live)
  <2>2. /\ outA' = [outA EXCEPT ![a] = IF hup THEN 0 ELSE @ - 1]
        /\ aio' = [aio EXCEPT ![a].rdone = hup]
        /\ items' = Tail(items)
        /\ UNCHANGED <<phase, status, done, ops, nItems, buf, procB, procA, outB, leftB, inA,
                       leftA, born>>
    BY <1>2, <1>4
  <2>3. ItemOpen(Head(items)) /\ Head(items) \in ItemRec /\ Head(items).type = "annotator_in"
        /\ phase = "items" /\ 1 \in DOMAIN items /\ Head(items) = items[1]
    <3>1. items \in Seq(ItemRec) /\ items # <<>>
      BY <1>1 DEF Handling, IoInv, ItemsInv, ItemRec
    <3> QED
      BY <1>1, <3>1, HeadItem
  <2>4. outA[a] > 0 \/ hup
    BY <2>3 DEF Sizes, ItemsReady, StaysReady
  <2>5. a \in Aio /\ hup \in BOOLEAN
    <3>1. aios \in Seq(Aio)
      BY DEF IoInv, Base, IoTypes
    <3>2. \A k \in DOMAIN aios : aios[k] \in Aio
      BY <3>1
    <3> QED
      BY <2>3, <3>2 DEF ItemOpen, ItemRec
  <2> HIDE DEF a, hup
  <2>6. outA' \in [Aio -> 0..PipeCap]
    <3>1. outA \in [Aio -> 0..PipeCap] /\ outA[a] \in 0..PipeCap
      BY <2>5 DEF Sizes, Pipes
    <3>2. (IF hup THEN 0 ELSE outA[a] - 1) \in 0..PipeCap
      BY <2>4, <2>5, <3>1, ConstantsAssumption
    <3> QED
      BY <2>2, <3>1, <3>2
  <2>7. Pipes'
    BY <2>2, <2>6 DEF Sizes, Pipes
  <2>8. \A c \in Aio : aio'[c].woffset = aio[c].woffset
    <3>1. aio \in [Aio -> [buffer : Addr \cup {NULL}, woffset : Int, wdone : BOOLEAN, rdone : BOOLEAN]]
      BY DEF IoInv, Base, IoTypes
    <3> QED
      BY <2>2, <2>5, <3>1
  <2>9. Contents'
    <3>1. nBios' = nBios
      BY <2>2 DEF nBios
    <3> QED
      BY <2>2, <2>8, <3>1 DEF Sizes, Contents
  <2>10. \A c \in Aio : outA'[c] = outA[c] \/ c = a
    BY <2>2 DEF Sizes, Pipes
  <2> QED
    BY <1>1, <2>2, <2>7, <2>9, <2>10, HandledSizes DEF a
<1> QED
  BY <1>3, <1>4

(* A write is no longer than the room the pipe has, and than the buffer.   *)
LEMMA AnnotatorWriteSizes ==
  ASSUME IoInv, IoInv', Sizes, AnnotatorWrite
  PROVE  Sizes'
<1> DEFINE a == Head(items).id
           n == Written(a)
<1>1. Handling("annotator_out")
  BY DEF AnnotatorWrite
<1>2. CASE Remaining(a) > 0 /\ Hung(procA[a])
  <2>1. Ends("killed")
    BY <1>2 DEF AnnotatorWrite
  <2> QED
    BY <2>1, EndSizes
<1>3. CASE ~(Remaining(a) > 0 /\ Hung(procA[a]))
  <2>1. /\ inA' = [inA EXCEPT ![a] = @ + n]
        /\ aio' = [aio EXCEPT ![a].woffset = @ + n, ![a].wdone = @ \/ EndOfInput(a, n)]
        /\ items' = Tail(items)
        /\ UNCHANGED <<phase, status, done, ops, nItems, buf, procB, procA, outB, leftB, outA,
                       leftA, born>>
    BY <1>3 DEF AnnotatorWrite, histVars, heapVars
  <2>2. ItemOpen(Head(items)) /\ Head(items).type = "annotator_out"
        /\ phase = "items" /\ 1 \in DOMAIN items /\ Head(items) = items[1]
    <3>1. items \in Seq(ItemRec) /\ items # <<>>
      BY <1>1 DEF Handling, IoInv, ItemsInv, ItemRec
    <3> QED
      BY <1>1, <3>1, HeadItem
  <2>3. inA[a] < PipeCap
    BY <2>2 DEF Sizes, ItemsReady, StaysReady
  <2>4. PICK k \in DOMAIN aios : aios[k] = a
    BY <2>2 DEF ItemOpen
  <2>5. a \in Aio
    <3>1. aios \in Seq(Aio)
      BY DEF IoInv, Base, IoTypes
    <3> QED
      BY <2>4, <3>1
  <2>6. aio[a].buffer \in Addr
    <3>1. procA[a] # "none"
      BY <2>4 DEF IoInv, Base, ListsSorted
    <3> QED
      BY <2>5, <3>1 DEF IoInv, Base, Generations
  <2> DEFINE off == aio[a].woffset
             len == buf[aio[a].buffer].len
             room == PipeCap - inA[a]
  <2>7. n = IF len - off <= 0 THEN 0 ELSE IF len - off < room THEN len - off ELSE room
    BY DEF Written, Remaining
  <2>8. off \in 0..MaxContent /\ len \in 0..MaxContent /\ inA[a] \in 0..PipeCap
    BY <2>5, <2>6 DEF Sizes, Contents, Pipes
  <2> HIDE DEF a, n
  <2>9. inA[a] + n \in 0..PipeCap /\ off + n \in 0..MaxContent
    <3> HIDE DEF off, len
    <3> QED
      BY <2>3, <2>7, <2>8, ConstantsAssumption
  <2>10. Pipes'
    <3>1. inA' \in [Aio -> 0..PipeCap]
      BY <2>1, <2>5, <2>9 DEF Sizes, Pipes
    <3> QED
      BY <2>1, <3>1 DEF Sizes, Pipes
  <2>11. \A c \in Aio : aio'[c].woffset = IF c = a THEN off + n ELSE aio[c].woffset
    <3> DEFINE mid == [aio[a] EXCEPT !.woffset = @ + n]
               new == [mid EXCEPT !.wdone = @ \/ EndOfInput(a, n)]
    <3>1. aio \in [Aio -> [buffer : Addr \cup {NULL}, woffset : Int, wdone : BOOLEAN, rdone : BOOLEAN]]
      BY DEF IoInv, Base, IoTypes
    <3>2. mid.woffset = off + n /\ new.woffset = mid.woffset
      BY <2>5, <3>1
    <3>3. aio' = [aio EXCEPT ![a] = new]
      BY <2>1, <2>5, <3>1
    <3> HIDE DEF mid, new
    <3> QED
      BY <2>5, <3>1, <3>2, <3>3
  <2>12. Contents'
    <3>1. nBios' = nBios
      BY <2>1 DEF nBios
    <3>2. \A c \in Aio : aio'[c].woffset \in 0..MaxContent
      BY <2>9, <2>11 DEF Sizes, Contents
    <3> QED
      BY <2>1, <3>1, <3>2 DEF Sizes, Contents
  <2>13. \A c \in Aio : inA'[c] = inA[c] \/ c = a
    BY <2>1 DEF Sizes, Pipes
  <2> QED
    BY <1>1, <2>1, <2>10, <2>12, <2>13, HandledSizes DEF a
<1> QED
  BY <1>2, <1>3

(* Pruning moves no data.                                                  *)
LEMMA PruneSizes ==
  ASSUME IoInv, IoInv', Sizes, Prune
  PROVE  Sizes'
<1> DEFINE doneB == {i \in ToSet(bios) : bio[i].rdone}
           doneA == {a \in ToSet(aios) : aio[a].rdone}
<1>1. CASE \E k \in 1..Len(bios)-1 : {bios[k], bios[k+1]} \subseteq doneB
  <2>1. Ends("undefined")
    BY <1>1 DEF Prune
  <2> QED
    BY <2>1, EndSizes
<1>2. CASE ~ \E k \in 1..Len(bios)-1 : {bios[k], bios[k+1]} \subseteq doneB
  <2>1. /\ procB' = [i \in Bio |-> IF i \in doneB THEN "reaped" ELSE procB[i]]
        /\ procA' = [a \in Aio |-> IF a \in doneA THEN "reaped" ELSE procA[a]]
        /\ \A i \in doneB : Gone(procB[i])
        /\ \A a \in doneA : Gone(procA[a])
        /\ phase' \in {"poll", "done"} /\ status' = status /\ done' = done
        /\ UNCHANGED <<nItems, aio, buf, outB, leftB, inA, outA, leftA, ops, born>>
    BY <1>2 DEF Prune, histVars, heapVars
  <2> HIDE DEF doneB, doneA
  <2>2. /\ \A i \in Bio : procB'[i] = "none" <=> procB[i] = "none"
        /\ \A a \in Aio : procA'[a] = "none" <=> procA[a] = "none"
    BY <2>1 DEF Gone
  <2>3. nBios' = nBios /\ nAios' = nAios
    BY <2>2, CountsFollow
  <2>4. Thread' /\ ItemsCounted' /\ Contents' /\ Unborn' /\ Pipes' /\ ItemsReady'
    BY <2>1, <2>2, <2>3 DEF Sizes, Thread, ItemsCounted, Contents, Unborn, Pipes, ItemsReady
  <2> QED
    BY <2>4 DEF Sizes
<1> QED
  BY <1>1, <1>2
-----------------------------------------------------------------------------
(* Every step keeps the sizes.                                             *)
LEMMA StepSizes ==
  ASSUME IoInv, IoInv', Sizes, [Next]_vars
  PROVE  Sizes'
<1>1. ASSUME NEW p \in Pager,
             \/ NewPager(p) \/ AddAnnotator(p) \/ Reload(p) \/ PopPager(p) \/ CollectPager(p)
      PROVE  Sizes'
  BY <1>1, ThreadSizes
<1>2. ASSUME NEW p \in Pager, Cancel(p) \/ Run(p) \/ Annotate(p) \/ FreePager(p)
      PROVE  Sizes'
  BY <1>2, CancelSizes, RunSizes, AnnotateSizes, FreeSizes
<1>3. CASE HandlerReturns \/ PollKey \/ ItemsDone
  BY <1>3, ThreadSizes
<1>4. CASE Poll \/ BufferRead \/ AnnotatorWrite \/ AnnotatorRead \/ Prune
  BY <1>4, PollSizes, BufferReadSizes, AnnotatorWriteSizes, AnnotatorReadSizes, PruneSizes
<1>5. CASE Process
  BY <1>5, ProcessSizes
<1>6. CASE UNCHANGED vars
  <2>1. Thread' /\ phase' = phase /\ items' = items
        /\ UNCHANGED <<nItems, aio, buf, outB, leftB, inA, outA, leftA, procB, procA, born>>
    BY <1>6 DEF vars, loopVars, listVars, heapVars, procVars, histVars, Sizes, Thread
  <2> QED
    BY <2>1, SameSizes
<1> QED
  BY <1>1, <1>2, <1>3, <1>4, <1>5, <1>6 DEF Next, Handler, Tick

(* Types and sizes: no pipe holds more than it has room for, so a write    *)
(* takes what poll said it would and ratc's one thread never blocks in it, *)
(* n_items counts every process ever started, and neither list has an      *)
(* entry twice (io_tick, annotator_io_write, io_start_buffer).             *)
THEOREM IoTypesCorrect == Spec => []TypeOK
<1>1. Init => IoInv /\ Sizes
  BY InitInv, InitSizes
<1>2. IoInv /\ Sizes /\ [Next]_vars => IoInv' /\ Sizes'
  BY StepKeeps, StepSizes
<1> QED
  BY <1>1, <1>2, SizesAreTypes, PTL DEF Spec
-----------------------------------------------------------------------------
(* One load of one pager, with annotators that read all their input.  The  *)
(* only command there is is that of the pager, its buffer is live as long  *)
(* as ratc polls, and no annotator has another one (OneBuffer, Shown).     *)
(* One that hung up had its end of input (HungHadAll), and a younger one   *)
(* holds the write end of that input, unless it began too late             *)
(* (Inherited): so who finishes is preceded in the list by those who       *)
(* finish, or will with the items of this tick (NewerFirst).               *)
OneLoad == MaxPagers = 1 /\ MaxBios = 1 /\ Polite

Finishing(a) ==
  \/ aio[a].rdone
  \/ \E k \in DOMAIN items : items[k].type = "annotator_in" /\ items[k].id = a /\ items[k].hup

NoItems == phase # "items" => items = <<>>
LateOnes == late \in [Aio -> SUBSET Aio]
OneBuffer ==
  /\ nBios = 0 => nAios = 0 /\ (pager[1].state = "none" \/ RunPending(1))
  /\ \A a \in Aio : procA[a] # "none" => aio[a].buffer = pager[1].buffer
  /\ \A k \in DOMAIN bios : bio[bios[k]].buffer = pager[1].buffer
Shown == phase \in {"poll", "items"} => pager[1].state = "stacked"
HungHadAll ==
  \A a \in Aio : Hung(procA[a]) => aio[a].wdone /\ (wfd[a] = {} \/ aio[a].rdone)
Inherited ==
  \A a, c \in Aio :
    c < a /\ procA[a] # "none" /\ ~Gone(procA[a]) /\ c \notin late[a] => AProc(a) \in wfd[c]
NewerFirst ==
  \A j, k \in DOMAIN aios :
    j < k /\ aios[k] \notin late[aios[j]] /\ Finishing(aios[k]) => Finishing(aios[j])
LostLate == \A a \in Aio : Lost(a) => \E c \in late[a] : procA[c] = "reaped"
OutOpen ==
  phase = "items" =>
    \A k \in DOMAIN items : items[k].type = "annotator_out" => ~aio[items[k].id].wdone

LoadInv ==
  /\ NoItems /\ LateOnes /\ OneBuffer /\ Shown /\ HungHadAll
  /\ Inherited /\ NewerFirst /\ LostLate /\ OutOpen /\ StaysUp

(* Nothing was started.                                                    *)
LEMMA InitLoad == OneLoad /\ Init => LoadInv
<1> SUFFICES ASSUME OneLoad, Init PROVE LoadInv
  OBVIOUS
<1>1. nAios = 0
  <2>1. \A a \in 1..MaxAios : procA[a] # "none" <=> a <= 0
    BY ConstantsAssumption DEF Init, Aio
  <2> QED
    BY <2>1, ConstantsAssumption, CountNumbered DEF nAios, Aio
<1>2. 1 \in Pager
  BY DEF OneLoad, Pager
<1>3. NoItems /\ LateOnes /\ OneBuffer /\ Shown
  BY <1>1, <1>2 DEF Init, NoItems, LateOnes, OneBuffer, Shown
<1>4. HungHadAll /\ Inherited /\ NewerFirst /\ LostLate /\ OutOpen /\ StaysUp
  BY DEF Init, HungHadAll, Hung, Inherited, NewerFirst, LostLate, Lost, OutOpen, StaysUp
<1> QED
  BY <1>3, <1>4 DEF LoadInv

(* What the invariants say of the one pager, the one command and the lists.*)
LEMMA OneOfEach ==
  ASSUME OneLoad, IoInv, LoadInv
  PROVE  /\ Pager = {1} /\ Bio = {1} /\ Polite
         /\ bios \in Seq(Bio) /\ aios \in Seq(Aio)
         /\ \A k \in DOMAIN aios : aios[k] \in Aio /\ procA[aios[k]] \notin {"none", "reaped"}
         /\ Len(bios) <= 1
         /\ phase \in {"poll", "items"} =>
              \A a \in Aio : procA[a] # "none" => aio[a].buffer \in Addr /\ buf[aio[a].buffer].live
         /\ phase \in {"poll", "items"} =>
              \A k \in DOMAIN bios : bio[bios[k]].buffer \in Addr /\ buf[bio[bios[k]].buffer].live
<1> USE DEF IoInv, Base
<1>1. Pager = {1} /\ Bio = {1} /\ Polite
  BY DEF OneLoad, Pager, Bio
<1>2. bios \in Seq(Bio) /\ aios \in Seq(Aio) /\ \A k \in DOMAIN aios : aios[k] \in Aio
  BY DEF IoTypes
<1>3. \A k \in DOMAIN aios : procA[aios[k]] \notin {"none", "reaped"}
  BY DEF ListsSorted
<1>4. Len(bios) <= 1
  <2> SUFFICES ASSUME Len(bios) >= 2 PROVE FALSE
    BY <1>2
  <2>1. 1 \in DOMAIN bios /\ 2 \in DOMAIN bios /\ bios[1] \in Bio /\ bios[2] \in Bio
    BY <1>2
  <2>2. bios[1] > bios[2]
    BY <2>1 DEF ListsSorted
  <2> QED
    BY <1>1, <2>1, <2>2
<1>5. ASSUME phase \in {"poll", "items"} PROVE pager[1].buffer \in Addr /\ buf[pager[1].buffer].live
  <2>1. calls = <<>> /\ pager[1].state = "stacked"
    BY <1>5 DEF CallsFit, LoadInv, Shown
  <2>2. Owns(1) /\ ~RunPending(1)
    BY <2>1 DEF Owns, Usable, RunPending
  <2> QED
    BY <1>1, <2>2 DEF BuffersHeld
<1>6. /\ \A a \in Aio : procA[a] # "none" => aio[a].buffer = pager[1].buffer
      /\ \A k \in DOMAIN bios : bio[bios[k]].buffer = pager[1].buffer
  BY DEF LoadInv, OneBuffer
<1> QED
  BY <1>1, <1>2, <1>3, <1>4, <1>5, <1>6

(* A step that leaves the lists, the annotators and the items alone.       *)
LEMMA SameLoad ==
  ASSUME LoadInv, UNCHANGED <<items, late, bios, aios, aio, procA, wfd>>,
         bio' = bio, procB' = procB, pager'[1].buffer = pager[1].buffer,
         nBios = 0 => pager'[1].state = "none" \/ RunPending(1)',
         Shown', phase' # "items", items = <<>>, StaysUp'
  PROVE  LoadInv'
<1> USE DEF LoadInv
<1>1. nAios' = nAios /\ nBios' = nBios
  BY DEF nAios, nBios
<1>2. NoItems' /\ LateOnes' /\ OneBuffer' /\ OutOpen'
  BY <1>1 DEF NoItems, LateOnes, OneBuffer, OutOpen
<1>3. HungHadAll' /\ Inherited' /\ LostLate'
  BY DEF HungHadAll, Inherited, LostLate, Lost
<1>4. \A a : Finishing(a)' <=> Finishing(a)
  BY DEF Finishing
<1>5. NewerFirst'
  BY <1>4 DEF NewerFirst
<1> QED
  BY <1>2, <1>3, <1>5

(* What is asked of the pager: its buffer stays the same, and there is one *)
(* unless its run is planned.                                              *)
LEMMA AskLoad ==
  ASSUME OneLoad, IoInv, LoadInv, NEW p \in Pager,
         NewPager(p) \/ AddAnnotator(p) \/ Reload(p) \/ PopPager(p) \/ CollectPager(p)
  PROVE  LoadInv'
<1>0. p = 1 /\ Pager = {1} /\ phase \in {"script", "keys"} /\ calls = <<>>
  BY OneOfEach DEF NewPager, AddAnnotator, Reload, PopPager, CollectPager, Asking
<1>1. items = <<>> /\ StaysUp
  BY <1>0 DEF LoadInv, NoItems
<1>2. nBios = 0 => pager[1].state = "none"
  BY <1>0 DEF LoadInv, OneBuffer, RunPending
<1>3. pager \in [Pager -> PagerRec]
  BY DEF IoInv, Base, IoTypes, PagerRec
<1> USE DEF listVars, procVars
<1>4. CASE NewPager(p)
  <2>1. calls' = <<Call("run", 1)>> /\ pager'[1].buffer = pager[1].buffer
    BY <1>0, <1>3, <1>4 DEF NewPager, PagerRec
  <2>2. RunPending(1)'
    BY <2>1 DEF RunPending
  <2> QED
    BY <1>0, <1>1, <1>4, <2>1, <2>2, SameLoad DEF NewPager, Shown, StaysUp
<1>5. CASE AddAnnotator(p)
  <2>1. pager'[1].buffer = pager[1].buffer /\ nBios # 0
    BY <1>0, <1>2, <1>3, <1>5 DEF AddAnnotator, PagerRec, Usable
  <2> QED
    BY <1>0, <1>1, <1>5, <2>1, SameLoad DEF AddAnnotator, Shown, StaysUp
<1>6. CASE Reload(p)
  <2>1. nBios \in Nat /\ nBios < 1 /\ pager[1].state # "none"
    BY <1>0, <1>6, ConstantsAssumption DEF Reload, OneLoad, IoInv, Base, Counted, Usable
  <2> QED
    BY <1>2, <2>1
<1>7. CASE PopPager(p)
  <2>1. pager'[1].buffer = pager[1].buffer /\ nBios # 0
    BY <1>0, <1>2, <1>3, <1>7 DEF PopPager, PagerRec
  <2> QED
    BY <1>0, <1>1, <1>7, <2>1, SameLoad DEF PopPager, Shown, StaysUp
<1>8. CASE CollectPager(p)
  <2>1. pager'[1].buffer = pager[1].buffer /\ nBios # 0
    BY <1>0, <1>2, <1>3, <1>8 DEF CollectPager, PagerRec
  <2> QED
    BY <1>0, <1>1, <1>8, <2>1, SameLoad DEF CollectPager, Shown, StaysUp
<1> QED
  BY <1>4, <1>5, <1>6, <1>7, <1>8

(* The thread only goes from one place to the next.                        *)
LEMMA ThreadLoad ==
  ASSUME OneLoad, IoInv, LoadInv, HandlerReturns \/ PollKey \/ ItemsDone
  PROVE  LoadInv'
<1>0. Pager = {1} /\ calls = <<>> /\ ~RunPending(1) /\ ~RunPending(1)'
  BY OneOfEach DEF HandlerReturns, PollKey, ItemsDone, IoInv, CallsFit, RunPending
<1>1. items = <<>> /\ (nBios = 0 => pager[1].state = "none")
  BY <1>0 DEF HandlerReturns, PollKey, ItemsDone, LoadInv, NoItems, OneBuffer
<1>2. /\ UNCHANGED <<items, late, bios, aios, aio, procA, wfd, bio, procB, pager, status>>
      /\ phase' \in {"poll", "prune", "done", "keys"}
  BY DEF HandlerReturns, PollKey, ItemsDone, listVars, heapVars, procVars, histVars
<1>3. Shown'
  BY <1>0, <1>2 DEF HandlerReturns, PollKey, ItemsDone, Shown, Continues
<1> QED
  BY <1>1, <1>2, <1>3, SameLoad DEF LoadInv, StaysUp

(* A pager is freed when nothing is polled.                                *)
LEMMA FreeLoad ==
  ASSUME OneLoad, IoInv, LoadInv, NEW p \in Pager, FreePager(p)
  PROVE  LoadInv'
<1>1. Calling("free", p)
  BY DEF FreePager
<1>2. phase \notin {"poll", "items", "prune"} /\ calls[1] = Call("free", p) /\ p = 1
  BY <1>1, TheCall, OneOfEach
<1>3. Call("free", 1) # Call("run", 1)
  <2>1. Call("free", 1).op = "free" /\ Call("run", 1).op = "run"
    BY DEF Call
  <2> QED
    BY <2>1
<1>4. items = <<>> /\ (nBios = 0 => pager[1].state = "none")
  BY <1>2, <1>3 DEF LoadInv, NoItems, OneBuffer, RunPending
<1> QED
  BY <1>2, <1>4, SameLoad DEF FreePager, LoadInv, Shown, StaysUp, listVars, procVars, histVars

(* A pop kills the first annotator of the list, so nobody before it is     *)
(* left behind.                                                            *)
LEMMA CancelLoad ==
  ASSUME OneLoad, IoInv, LoadInv, NEW p \in Pager, Cancel(p)
  PROVE  LoadInv'
<1> DEFINE b == pager[p].buffer
<1>0. Calling("cancel", p)
  BY DEF Cancel
<1>1. phase \notin {"poll", "items", "prune"} /\ p = 1 /\ Pager = {1}
  BY <1>0, TheCall, OneOfEach
<1>2. items = <<>> /\ StaysUp
  BY <1>1 DEF LoadInv, NoItems
<1>3. nBios # 0
  <2>1. pager[1].buffer \in Addr
    BY <1>0, <1>1, CancelSubject
  <2>2. pager[1].state # "none"
    BY <1>1, <2>1, ConstantsAssumption DEF IoInv, Base, BuffersHeld
  <2>3. ~RunPending(1)
    <3>1. calls[1].op = "cancel"
      BY <1>0, TheCall
    <3>2. Call("run", 1).op = "run"
      BY DEF Call
    <3> QED
      BY <3>1, <3>2 DEF RunPending
  <2> QED
    BY <2>2, <2>3 DEF LoadInv, OneBuffer
<1>4. CASE Ends("exited")
  BY <1>1, <1>2, <1>3, <1>4, SameLoad DEF Ends, StaysUp, Shown, listVars, heapVars, procVars, histVars
<1>5. ASSUME ~Ends("exited") PROVE LoadInv'
  <2>1. /\ CancelStep(b)
        /\ UNCHANGED <<phase, status, items, bios, aios, pager, wfd, late>>
    <3> DEFINE is == CancelledCommands(b)
               as == CancelledAnnotators(b)
    <3>1. /\ bio' = [i \in Bio |-> [bio[i] EXCEPT !.rdone = @ \/ i \in is]]
          /\ aio' = [a \in Aio |-> [aio[a] EXCEPT !.wdone = @ \/ a \in as, !.rdone = @ \/ a \in as]]
          /\ procB' = [i \in Bio |-> IF i \in is THEN Terminate(procB[i]) ELSE procB[i]]
          /\ procA' = [a \in Aio |-> IF a \in as THEN Terminate(procA[a]) ELSE procA[a]]
          /\ UNCHANGED <<phase, status, items, bios, aios, pager, wfd, late>>
      BY <1>5 DEF Cancel, heapVars, histVars
    <3> HIDE DEF b
    <3>2. IoTypes
      BY DEF IoInv, Base
    <3> QED
      BY <3>1, <3>2, CancelEffect
  <2> DEFINE killed == CancelledAnnotators(b)
  <2>2. \A a \in killed : /\ a \in Aio /\ \E k \in DOMAIN aios : aios[k] = a /\ ~aio[a].rdone
                          /\ procA[a] \notin {"none", "reaped"}
    <3>1. \A a \in killed : a \in Aio /\ ~aio[a].rdone
      BY DEF CancelledAnnotators
    <3> QED
      BY <3>1, CancelledListed, OneOfEach
  <2>3. \A j, k \in DOMAIN aios : j < k => aios[k] \notin killed
    <3> SUFFICES ASSUME NEW j \in DOMAIN aios, NEW k \in DOMAIN aios, j < k, aios[k] \in killed
                 PROVE  FALSE
      OBVIOUS
    <3>1. aios[k] = aios[FirstAio(b)] /\ FirstAio(b) # 0
      BY DEF CancelledAnnotators, FirstAio
    <3>2. aio[aios[j]].buffer = b
      BY <1>1, OneOfEach DEF LoadInv, OneBuffer
    <3>3. FirstAio(b) \in DOMAIN aios /\ ~(j < FirstAio(b))
      BY <3>1, <3>2, FirstAioIs, OneOfEach
    <3>4. j \in Int /\ k \in Int /\ FirstAio(b) \in Int /\ FirstAio(b) < k
      <4>1. aios \in Seq(Aio)
        BY OneOfEach
      <4> HIDE DEF b
      <4> QED
        BY <3>3, <4>1
    <3>5. aios[FirstAio(b)] > aios[k] /\ aios[k] \in Int
      <4>1. aios[FirstAio(b)] > aios[k]
        BY <3>3, <3>4 DEF IoInv, Base, ListsSorted
      <4>2. aios[k] \in Aio
        BY OneOfEach
      <4> QED
        BY <4>1, <4>2 DEF Aio
    <3> QED
      BY <3>1, <3>5
  <2>4. \A a \in Aio :
          /\ procA'[a] = "none" <=> procA[a] = "none"
          /\ procA'[a] = "reaped" <=> procA[a] = "reaped"
          /\ Gone(procA'[a]) <=> Gone(procA[a])
          /\ Hung(procA'[a]) => Hung(procA[a]) \/ a \in killed
          /\ aio'[a].buffer = aio[a].buffer
          /\ aio[a].rdone => aio'[a].rdone
          /\ aio[a].wdone => aio'[a].wdone
          /\ aio'[a].rdone => aio[a].rdone \/ a \in killed
          /\ a \in killed => aio'[a].rdone /\ aio'[a].wdone
    <3> HIDE DEF b
    <3>1. \A a \in Aio : procA'[a] = IF a \in killed THEN Terminate(procA[a]) ELSE procA[a]
      BY <2>1 DEF CancelStep
    <3>2. \A a \in Aio :
          /\ aio'[a].buffer = aio[a].buffer
          /\ aio[a].rdone => aio'[a].rdone
          /\ aio[a].wdone => aio'[a].wdone
          /\ aio'[a].rdone => aio[a].rdone \/ a \in killed
          /\ a \in killed => aio'[a].rdone /\ aio'[a].wdone
      BY <2>1, Zenon DEF CancelStep
    <3> HIDE DEF killed
    <3> SUFFICES ASSUME NEW a \in Aio
                 PROVE  /\ procA'[a] = "none" <=> procA[a] = "none"
                        /\ procA'[a] = "reaped" <=> procA[a] = "reaped"
                        /\ Gone(procA'[a]) <=> Gone(procA[a])
                        /\ Hung(procA'[a]) => Hung(procA[a]) \/ a \in killed
      BY <3>2, Zenon
    <3> QED
      BY <2>2, <3>1 DEF Terminate, Gone, Hung
  <2>5. \A i \in Bio : bio'[i].buffer = bio[i].buffer /\ (procB'[i] = "none" <=> procB[i] = "none")
    <3>1. \A i \in CancelledCommands(b) : procB[i] # "none"
      BY CancelledListed DEF IoInv, Base, ListsSorted
    <3> QED
      BY <2>1, <3>1 DEF CancelStep, Terminate
  <2> HIDE DEF b, killed
  <2>6. nBios' = nBios
    BY <2>5 DEF nBios
  <2>7. \A k \in DOMAIN bios : bios[k] \in Bio
    BY OneOfEach
  <2>8. OneBuffer'
    <3>1. \A a \in Aio : procA'[a] # "none" => aio'[a].buffer = pager[1].buffer
      BY <2>4 DEF LoadInv, OneBuffer
    <3>2. \A k \in DOMAIN bios : bio'[bios[k]].buffer = pager[1].buffer
      BY <2>5, <2>7 DEF LoadInv, OneBuffer
    <3> QED
      BY <1>3, <2>1, <2>6, <3>1, <3>2 DEF OneBuffer
  <2>9. NoItems' /\ LateOnes' /\ OutOpen' /\ Shown' /\ StaysUp'
    BY <1>1, <1>2, <2>1 DEF LoadInv, NoItems, LateOnes, OutOpen, Shown, StaysUp
  <2>10. HungHadAll'
    BY <2>1, <2>4 DEF LoadInv, HungHadAll
  <2>11. Inherited'
    BY <2>1, <2>4 DEF LoadInv, Inherited
  <2>12. NewerFirst'
    <3>1. \A a : (Finishing(a) <=> aio[a].rdone) /\ (Finishing(a)' <=> aio'[a].rdone)
      BY <1>2, <2>1 DEF Finishing
    <3> SUFFICES ASSUME NEW j \in DOMAIN aios, NEW k \in DOMAIN aios, j < k,
                        aios[k] \notin late[aios[j]], aio'[aios[k]].rdone
                 PROVE  aio'[aios[j]].rdone
      BY <2>1, <3>1 DEF NewerFirst
    <3>2. aios[j] \in Aio /\ aios[k] \in Aio
      BY OneOfEach
    <3>3. aio[aios[k]].rdone
      BY <2>3, <2>4, <3>2
    <3>4. aio[aios[j]].rdone
      BY <3>1, <3>3 DEF LoadInv, NewerFirst
    <3> QED
      BY <2>4, <3>2, <3>4
  <2>13. LostLate'
    <3> SUFFICES ASSUME NEW a \in Aio, Lost(a)' PROVE \E c \in late[a] : procA'[c] = "reaped"
      BY <2>1 DEF LostLate
    <3>1. Lost(a)
      BY <2>1, <2>4 DEF Lost
    <3>2. PICK c \in late[a] : procA[c] = "reaped"
      BY <3>1 DEF LoadInv, LostLate
    <3>3. c \in Aio
      BY DEF LoadInv, LateOnes
    <3> QED
      BY <2>4, <3>2, <3>3
  <2> QED
    BY <2>8, <2>9, <2>10, <2>11, <2>12, <2>13 DEF LoadInv
<1> QED
  BY <1>4, <1>5

(* The command that is started is the first, and nothing was before it.    *)
LEMMA RunLoad ==
  ASSUME OneLoad, IoInv, IoInv', LoadInv, NEW p \in Pager, Run(p)
  PROVE  LoadInv'
<1>0. Calling("run", p)
  BY DEF Run
<1>1. PICK i, x : RunStep(p, i, x)
  BY RunEffect
<1>2. phase \notin {"poll", "items", "prune"} /\ p = 1 /\ Pager = {1} /\ Bio = {1}
  BY <1>0, TheCall, OneOfEach
<1>3. items = <<>> /\ StaysUp
  BY <1>2 DEF LoadInv, NoItems
<1>4. i = 1 /\ nBios = 0
  <2>1. i \in Bio /\ i = nBios + 1 /\ nBios \in 0..MaxBios
    BY <1>1 DEF RunStep, IoInv, Base, Counted
  <2> QED
    BY <1>2, <2>1, ConstantsAssumption
<1>5. \A a \in Aio : procA[a] = "none"
  <2>1. nAios = 0 /\ \A a \in Aio : procA[a] # "none" => a <= nAios
    BY <1>4 DEF LoadInv, OneBuffer, IoInv, Base, Counted
  <2> QED
    BY <2>1 DEF Aio
<1>6. \A k \in DOMAIN aios : FALSE
  BY <1>5, OneOfEach
<1>7. /\ bio'[1].buffer = x /\ pager'[1].buffer = x /\ procB'[1] = "forked"
      /\ UNCHANGED <<phase, status, items, aios, aio, procA, late>>
  <2>1. late' = late
    BY DEF Run, histVars
  <2>2. procB'[1] = "forked"
    BY <1>1, <1>2, <1>4 DEF RunStep, IoInv, Base, IoTypes
  <2> QED
    BY <1>1, <1>2, <1>4, <2>1, <2>2 DEF RunStep
<1>8. nBios' # 0
  BY <1>2, <1>7, ConstantsAssumption DEF IoInv, Base, Counted
<1>9. OneBuffer'
  <2>1. \A k \in DOMAIN bios' : bios'[k] = 1
    <3>1. bios' \in Seq(Bio)
      BY DEF IoInv, Base, IoTypes
    <3> QED
      BY <1>2, <3>1
  <2> QED
    BY <1>5, <1>7, <1>8, <2>1 DEF OneBuffer
<1>10. HungHadAll' /\ Inherited' /\ LostLate'
  BY <1>5, <1>7 DEF HungHadAll, Inherited, LostLate, Hung, Lost
<1>11. NewerFirst'
  BY <1>6, <1>7 DEF NewerFirst
<1>12. NoItems' /\ LateOnes' /\ OutOpen' /\ Shown' /\ StaysUp'
  BY <1>2, <1>3, <1>7 DEF LoadInv, NoItems, LateOnes, OutOpen, Shown, StaysUp
<1> QED
  BY <1>9, <1>10, <1>11, <1>12 DEF LoadInv

(* A new annotator holds the write end of every older one that has not had *)
(* its end of input.                                                       *)
LEMMA AnnotateLoad ==
  ASSUME OneLoad, IoInv, LoadInv, NEW p \in Pager, Annotate(p)
  PROVE  LoadInv'
<1>0. Calling("annotate", p)
  BY DEF Annotate
<1>1. PICK a, b : a = nAios + 1 /\ b = pager[p].buffer
  OBVIOUS
<1>2. AnnotateStep(a, b) /\ b \in Addr
  BY <1>1, AnnotateEffect
<1>3. phase \notin {"poll", "items", "prune"} /\ p = 1 /\ Pager = {1}
  BY <1>0, TheCall, OneOfEach
<1>4. items = <<>> /\ StaysUp
  BY <1>3 DEF LoadInv, NoItems
<1>5. nBios # 0
  <2>1. pager[1].state # "none"
    BY <1>1, <1>2, <1>3, ConstantsAssumption DEF IoInv, Base, BuffersHeld
  <2>2. ~RunPending(1)
    <3>1. calls[1].op = "annotate"
      BY <1>0, TheCall
    <3>2. Call("run", 1).op = "run"
      BY DEF Call
    <3> QED
      BY <3>1, <3>2 DEF RunPending
  <2> QED
    BY <2>1, <2>2 DEF LoadInv, OneBuffer
<1>6. nAios \in Nat /\ a \in Aio /\ procA[a] = "none" /\ \A c \in Aio : procA[c] # "none" <=> c \in 1..nAios
  <2>1. nAios \in 0..MaxAios /\ \A c \in Aio : procA[c] # "none" <=> c <= nAios
    BY DEF IoInv, Base, Counted
  <2>2. nAios \in Nat /\ a \in Aio
    BY <1>2, <2>1, ConstantsAssumption DEF AnnotateStep
  <2> QED
    BY <1>1, <2>1, <2>2 DEF Aio
<1>7. /\ aio'[a].buffer = b /\ ~aio'[a].rdone /\ procA'[a] = "forked"
      /\ \A c \in Aio \ {a} : aio'[c] = aio[c] /\ procA'[c] = procA[c]
      /\ aios' = <<a>> \o aios
      /\ UNCHANGED <<phase, status, items, bios, bio, pager, procB>>
  BY <1>2 DEF AnnotateStep
<1>8. /\ late'[a] = {c \in 1..nAios : aio[c].wdone}
      /\ \A c \in Aio \ {a} : late'[c] = late[c]
      /\ late' \in [Aio -> SUBSET Aio]
  <2>1. late' = [late EXCEPT ![a] = {c \in 1..nAios : aio[c].wdone}]
    BY <1>1 DEF Annotate
  <2>2. late \in [Aio -> SUBSET Aio]
    BY DEF LoadInv, LateOnes
  <2>3. {c \in 1..nAios : aio[c].wdone} \in SUBSET Aio
    <3>1. nAios \in 0..MaxAios
      BY DEF IoInv, Base, Counted
    <3> QED
      BY <1>6, <3>1, ConstantsAssumption DEF Aio
  <2> QED
    BY <1>6, <2>1, <2>2, <2>3
<1>9. \A c \in Aio \ {a} : wfd'[c] = IF Ratc \in wfd[c] THEN wfd[c] \cup {AProc(a)} ELSE wfd[c]
  <2>1. wfd' = [Inherit(AProc(a)) EXCEPT ![a] = {Ratc}]
    BY <1>1 DEF Annotate
  <2> QED
    BY <2>1 DEF Inherit
<1>10. NoItems' /\ LateOnes' /\ OutOpen' /\ Shown' /\ StaysUp'
  BY <1>3, <1>4, <1>7, <1>8 DEF LoadInv, NoItems, LateOnes, OutOpen, Shown, StaysUp
<1>11. OneBuffer'
  <2>1. nBios' = nBios
    BY <1>7 DEF nBios
  <2> QED
    BY <1>1, <1>3, <1>5, <1>7, <2>1 DEF LoadInv, OneBuffer
<1>12. HungHadAll'
  BY <1>7, <1>9 DEF LoadInv, HungHadAll, Hung
<1>13. Inherited'
  <2> SUFFICES ASSUME NEW e \in Aio, NEW c \in Aio, c < e, procA'[e] # "none", ~Gone(procA'[e]),
                      c \notin late'[e]
               PROVE  AProc(e) \in wfd'[c]
    BY DEF Inherited
  <2>1. e \in Int /\ c \in Int /\ c >= 1
    BY DEF Aio
  <2>2. CASE e = a
    <3>1. c \in 1..nAios /\ c # a
      BY <1>1, <1>6, <2>1, <2>2
    <3>2. procA[c] # "none" /\ ~aio[c].wdone
      BY <1>6, <1>8, <2>2, <3>1
    <3>3. Ratc \in wfd[c]
      BY <3>2 DEF IoInv, Base, WriteEnds
    <3> QED
      BY <1>9, <2>2, <3>1, <3>3
  <2>3. CASE e # a
    <3>1. procA[e] # "none" /\ ~Gone(procA[e]) /\ c \notin late[e]
      BY <1>7, <1>8, <2>3
    <3>2. c # a
      BY <1>1, <1>6, <2>1, <3>1
    <3>3. AProc(e) \in wfd[c]
      BY <3>1 DEF LoadInv, Inherited
    <3> QED
      BY <1>9, <3>2, <3>3
  <2> QED
    BY <2>2, <2>3
<1>14. \A k \in DOMAIN aios : aios[k] \in Aio \ {a}
  BY <1>6, OneOfEach
<1>15. NewerFirst'
  <2>e. items' = <<>> /\ \A m \in DOMAIN <<>> : FALSE
    BY <1>4, <1>7
  <2> SUFFICES ASSUME NEW j \in DOMAIN aios', NEW k \in DOMAIN aios', j < k,
                      aios'[k] \notin late'[aios'[j]], aio'[aios'[k]].rdone
               PROVE  aio'[aios'[j]].rdone
    BY <2>e, Zenon DEF NewerFirst, Finishing
  <2>1. \A c : Finishing(c) <=> aio[c].rdone
    BY <1>4 DEF Finishing
  <2>2. /\ aios'[1] = a
        /\ \A l \in DOMAIN aios' : l # 1 => l - 1 \in DOMAIN aios /\ aios'[l] = aios[l-1]
        /\ DOMAIN aios' \subseteq Int
    <3>1. aios \in Seq(Aio)
      BY OneOfEach
    <3>2. <<a>> \o aios \in Seq(Aio)
      BY <1>6, <3>1
    <3>3. /\ (<<a>> \o aios)[1] = a
          /\ \A l \in DOMAIN (<<a>> \o aios) : l # 1 => l - 1 \in DOMAIN aios /\ (<<a>> \o aios)[l] = aios[l-1]
      BY <1>6, <3>1, Prepended
    <3> QED
      BY <1>7, <3>2, <3>3
  <2>3. k # 1 /\ k - 1 \in DOMAIN aios /\ aios'[k] = aios[k-1]
    <3>1. k # 1
      BY <1>7, <2>2
    <3> QED
      BY <2>2, <3>1
  <2>4. aio[aios[k-1]].rdone /\ aios[k-1] \in Aio \ {a}
    BY <1>7, <1>14, <2>3
  <2>5. CASE j = 1
    <3>1. aio[aios[k-1]].wdone
      <4>1. Hung(procA[aios[k-1]])
        BY <2>3, <2>4 DEF IoInv, Base, EndedInv, Hung
      <4> QED
        BY <2>4, <4>1 DEF LoadInv, HungHadAll
    <3>2. aios[k-1] \in 1..nAios
      BY <1>6, <2>3, <2>4, OneOfEach
    <3> QED
      BY <1>8, <2>2, <2>3, <2>5, <3>1, <3>2
  <2>6. CASE j # 1
    <3>1. j - 1 \in DOMAIN aios /\ aios'[j] = aios[j-1] /\ j - 1 < k - 1
      BY <2>2, <2>6
    <3>2. aios[j-1] \in Aio \ {a} /\ late'[aios[j-1]] = late[aios[j-1]]
      BY <1>8, <1>14, <3>1
    <3>3. aio[aios[j-1]].rdone
      BY <2>1, <2>3, <2>4, <3>1, <3>2 DEF LoadInv, NewerFirst
    <3> QED
      BY <1>7, <3>1, <3>2, <3>3
  <2> QED
    BY <2>5, <2>6
<1>16. LostLate'
  <2> SUFFICES ASSUME NEW e \in Aio, Lost(e)' PROVE \E c \in late'[e] : procA'[c] = "reaped"
    BY DEF LostLate
  <2>1. \A c : c \in ToSet(aios') <=> c = a \/ c \in ToSet(aios)
    <3>1. aios \in Seq(Aio)
      BY OneOfEach
    <3>2. /\ (<<a>> \o aios)[1] = a /\ 1 \in DOMAIN (<<a>> \o aios)
          /\ \A l \in DOMAIN (<<a>> \o aios) : l # 1 => l - 1 \in DOMAIN aios /\ (<<a>> \o aios)[l] = aios[l-1]
          /\ \A l \in DOMAIN aios : l + 1 \in DOMAIN (<<a>> \o aios) /\ (<<a>> \o aios)[l+1] = aios[l]
      BY <1>6, <3>1, Prepended
    <3> DEFINE s == <<a>> \o aios
    <3>3. \A l \in DOMAIN s : s[l] = a \/ \E m \in DOMAIN aios : s[l] = aios[m]
      BY <3>2
    <3>4. (\E l \in DOMAIN s : s[l] = a) /\ \A m \in DOMAIN aios : \E l \in DOMAIN s : s[l] = aios[m]
      BY <3>2
    <3> HIDE DEF s
    <3>5. \A c : (\E l \in DOMAIN s : c = s[l]) <=> c = a \/ \E m \in DOMAIN aios : c = aios[m]
      BY <3>3, <3>4
    <3>6. aios' = s
      BY <1>7 DEF s
    <3> QED
      BY <3>5, <3>6 DEF ToSet
  <2>2. e # a /\ Lost(e)
    BY <1>7, <2>1 DEF Lost
  <2>3. PICK c \in late[e] : procA[c] = "reaped"
    BY <2>2 DEF LoadInv, LostLate
  <2>4. c \in Aio /\ c # a
    BY <1>6, <2>3 DEF LoadInv, LateOnes
  <2> QED
    BY <1>7, <1>8, <2>2, <2>3, <2>4
<1> QED
  BY <1>10, <1>11, <1>12, <1>13, <1>15, <1>16 DEF LoadInv

(* What a process does matters when an annotator ends: it had its end of   *)
(* input, and what it closes are its own descriptors.                      *)
LEMMA ProcessLoad ==
  ASSUME OneLoad, IoInv, LoadInv, Process
  PROVE  LoadInv'
<1> DEFINE Ended(a) == procA[a] # "none" /\ wfd[a] = {}
           OwnEnd == /\ \A e \in Aio : Hung(procA'[e]) => Hung(procA[e]) \/ Ended(e)
                     /\ \A c \in Aio : wfd'[c] \subseteq wfd[c]
                     /\ \A e, c \in Aio : AProc(e) \in wfd[c] /\ ~Gone(procA'[e]) => AProc(e) \in wfd'[c]
<1>0. ProcessStep
  BY ProcessSteps DEF IoInv, Base
<1>1. /\ UNCHANGED <<phase, status, items, calls, bios, bio, aios, aio, pager>>
      /\ \A i \in Bio : Goes(procB[i], procB'[i])
      /\ \A a \in Aio : Goes(procA[a], procA'[a])
  BY <1>0 DEF ProcessStep, loopVars, listVars, heapVars
<1>2. late' = late
  BY DEF Process, CommandStarts, CommandWrites, CommandCloses, CommandExits, AnnotatorStarts,
         AnnotatorConsumes, AnnotatorAnswers, AnnotatorCloses, AnnotatorExits, histVars
<1>3. \A a \in Aio :
        /\ procA'[a] = "none" <=> procA[a] = "none"
        /\ procA'[a] = "reaped" <=> procA[a] = "reaped"
        /\ Gone(procA[a]) => Gone(procA'[a])
  BY <1>1 DEF Goes, Gone
<1>4. OwnEnd
  <2>0. wfd \in [Aio -> SUBSET Holders] /\ procA \in [Aio -> ProcStates]
    BY DEF IoInv, Base, IoTypes
  <2>1. ASSUME NEW i \in Bio, CommandStarts(i) \/ CommandWrites(i) \/ CommandCloses(i)
        PROVE  wfd' = wfd /\ procA' = procA
    BY <2>1 DEF CommandStarts, CommandWrites, CommandCloses
  <2>2. ASSUME NEW a \in Aio, AnnotatorConsumes(a) \/ AnnotatorAnswers(a)
        PROVE  wfd' = wfd /\ procA' = procA
    BY <2>2 DEF AnnotatorConsumes, AnnotatorAnswers
  <2>3. CASE wfd' = wfd /\ procA' = procA
    BY <2>3
  <2>4. ASSUME NEW i \in Bio, CommandExits(i) PROVE OwnEnd
    <3>1. wfd' = [c \in Aio |-> wfd[c] \ {BProc(i)}] /\ procA' = procA
      BY <2>4 DEF CommandExits, Release
    <3>2. \A a \in Aio : AProc(a) # BProc(i)
      BY DEF AProc, BProc
    <3> QED
      BY <3>1, <3>2
  <2>5. ASSUME NEW a \in Aio, AnnotatorStarts(a) PROVE OwnEnd
    BY <2>0, <2>5 DEF AnnotatorStarts, Hung, Gone
  <2>6. ASSUME NEW a \in Aio, AnnotatorCloses(a) PROVE OwnEnd
    <3>1. wfd[a] = {} /\ procA[a] = "running"
      BY <2>6, OneOfEach DEF AnnotatorCloses, AtEof
    <3> QED
      BY <2>0, <2>6, <3>1 DEF AnnotatorCloses, Hung, Gone
  <2>7. ASSUME NEW a \in Aio, AnnotatorExits(a) PROVE OwnEnd
    <3>1. procA[a] = "ending" \/ (procA[a] = "running" /\ wfd[a] = {})
      BY <2>7, OneOfEach DEF AnnotatorExits, AtEof
    <3>2. procA' = [procA EXCEPT ![a] = "dead"] /\ wfd' = [c \in Aio |-> wfd[c] \ {AProc(a)}]
      BY <2>7 DEF AnnotatorExits, Release
    <3>3. \A e \in Aio : e # a => AProc(e) # AProc(a)
      BY DEF AProc
    <3>4. Gone(procA'[a])
      BY <2>0, <3>2 DEF Gone
    <3>5. \A e \in Aio : Hung(procA'[e]) => Hung(procA[e]) \/ Ended(e)
      BY <2>0, <3>1, <3>2 DEF Hung
    <3> QED
      BY <3>2, <3>3, <3>4, <3>5
  <2> QED
    BY <2>1, <2>2, <2>3, <2>4, <2>5, <2>6, <2>7 DEF Process
<1>5. \A a \in Aio : Ended(a) => aio[a].wdone
  BY DEF IoInv, Base, WriteEnds
<1>6. OneBuffer'
  <2>1. \A i \in Bio : procB'[i] = "none" <=> procB[i] = "none"
    BY <1>1 DEF Goes
  <2>2. nBios' = nBios /\ nAios' = nAios
    BY <1>3, <2>1 DEF nBios, nAios
  <2>3. RunPending(1)' <=> RunPending(1)
    BY <1>1 DEF RunPending
  <2> QED
    BY <1>1, <1>3, <2>2, <2>3 DEF LoadInv, OneBuffer
<1>7. HungHadAll'
  <2> SUFFICES ASSUME NEW a \in Aio, Hung(procA'[a])
               PROVE  aio[a].wdone /\ (wfd'[a] = {} \/ aio[a].rdone)
    BY <1>1 DEF HungHadAll
  <2>1. CASE Hung(procA[a])
    BY <1>4, <2>1 DEF LoadInv, HungHadAll
  <2>2. CASE Ended(a)
    BY <1>4, <1>5, <2>2
  <2> QED
    BY <1>4, <2>1, <2>2
<1>8. Inherited'
  BY <1>2, <1>3, <1>4 DEF LoadInv, Inherited
<1>9. NewerFirst'
  <2>1. \A a : Finishing(a)' <=> Finishing(a)
    BY <1>1 DEF Finishing
  <2> QED
    BY <1>1, <1>2, <2>1 DEF LoadInv, NewerFirst
<1>10. LostLate'
  <2> SUFFICES ASSUME NEW a \in Aio, Lost(a)' PROVE \E c \in late[a] : procA'[c] = "reaped"
    BY <1>2 DEF LostLate
  <2>1. Lost(a)
    BY <1>1, <1>3 DEF Lost
  <2>2. PICK c \in late[a] : procA[c] = "reaped"
    BY <2>1 DEF LoadInv, LostLate
  <2>3. c \in Aio
    BY DEF LoadInv, LateOnes
  <2> QED
    BY <1>3, <2>2, <2>3
<1>11. NoItems' /\ LateOnes' /\ OutOpen' /\ Shown' /\ StaysUp'
  BY <1>1, <1>2 DEF LoadInv, NoItems, LateOnes, OutOpen, Shown, StaysUp
<1> QED
  BY <1>6, <1>7, <1>8, <1>9, <1>10, <1>11 DEF LoadInv

(* An item is handled: what it is about finishes as its hang-up said.      *)
LEMMA HandledLoad ==
  ASSUME OneLoad, IoInv, LoadInv, NEW type, Handling(type), items' = Tail(items),
         UNCHANGED <<phase, status, bios, aios, pager, procB, procA, late>>,
         \A i \in Bio : bio'[i].buffer = bio[i].buffer,
         \A a \in Aio : /\ aio'[a].buffer = aio[a].buffer
                        /\ aio[a].wdone => aio'[a].wdone
                        /\ aio'[a].wdone => aio[a].wdone \/ (type = "annotator_out" /\ a = Head(items).id)
                        /\ wfd[a] = {} => wfd'[a] = {}
                        /\ \A c \in Aio : AProc(a) \in wfd[c] => AProc(a) \in wfd'[c],
         \A a \in Aio : IF type = "annotator_in" /\ a = Head(items).id
                        THEN aio'[a].rdone <=> Head(items).hup ELSE aio'[a].rdone <=> aio[a].rdone
  PROVE  LoadInv'
<1>0. /\ ItemOpen(Head(items)) /\ Head(items).type = type /\ phase = "items" /\ calls = <<>>
      /\ \A k \in DOMAIN items' :
              /\ k + 1 \in DOMAIN items /\ items'[k] = items[k+1]
              /\ ItemOpen(items'[k])
              /\ ~(items'[k].type = type /\ items'[k].id = Head(items).id)
  BY ItemTaken
<1>1. /\ items \in Seq(ItemRec) /\ Head(items) = items[1] /\ 1 \in DOMAIN items
      /\ \A k \in DOMAIN items : k # 1 => k - 1 \in DOMAIN items' /\ items'[k-1] = items[k]
      /\ \A k \in DOMAIN items' : k + 1 # 1
  <2>1. items \in Seq(ItemRec) /\ items # <<>>
    BY DEF Handling, IoInv, ItemsInv, ItemRec
  <2>2. /\ Head(items) = items[1] /\ Len(items) \in Nat \ {0} /\ items' \in Seq(ItemRec)
        /\ Len(items') = Len(items) - 1
        /\ \A k \in 1..Len(items)-1 : items'[k] = items[k+1]
    BY <2>1, HeadTailProperties, EmptySeq
  <2>3. /\ DOMAIN items' = 1..Len(items)-1 /\ DOMAIN items = 1..Len(items)
    BY <2>1, <2>2
  <2>4. \A k \in DOMAIN items : k # 1 => k - 1 \in 1..Len(items)-1 /\ (k - 1) + 1 = k
    BY <2>2, <2>3
  <2> QED
    BY <2>1, <2>2, <2>3, <2>4
<1>2. /\ \A k \in DOMAIN bios : bios[k] \in Bio
      /\ \A k \in DOMAIN aios : aios[k] \in Aio
  BY OneOfEach
<1>3. \A a \in Aio : aio[a].rdone => aio'[a].rdone
  <2>1. type = "annotator_in" => ~aio[Head(items).id].rdone
    BY <1>0 DEF ItemOpen
  <2> QED
    BY <2>1
<1>4. OneBuffer'
  <2>1. nBios' = nBios /\ nAios' = nAios
    BY DEF nBios, nAios
  <2>2. nBios # 0
    BY <1>0 DEF LoadInv, OneBuffer, Shown, RunPending
  <2> QED
    BY <1>2, <2>1, <2>2 DEF LoadInv, OneBuffer
<1>5. HungHadAll'
  BY <1>3 DEF LoadInv, HungHadAll
<1>6. Inherited'
  BY DEF LoadInv, Inherited
<1>7. \A a \in Aio :
        (\E k \in DOMAIN items' : items'[k].type = "annotator_in" /\ items'[k].id = a /\ items'[k].hup)
        <=> \E k \in DOMAIN items : /\ items[k].type = "annotator_in" /\ items[k].id = a /\ items[k].hup
                                    /\ k # 1
  <2> SUFFICES ASSUME NEW a \in Aio
               PROVE  (\E k \in DOMAIN items' : items'[k].type = "annotator_in" /\ items'[k].id = a /\ items'[k].hup)
                      <=> \E k \in DOMAIN items : /\ items[k].type = "annotator_in" /\ items[k].id = a
                                                  /\ items[k].hup /\ k # 1
    OBVIOUS
  <2> DEFINE About(it) == it.type = "annotator_in" /\ it.id = a /\ it.hup
  <2> HIDE DEF About
  <2>1. ASSUME NEW k \in DOMAIN items', About(items'[k]) PROVE \E l \in DOMAIN items : About(items[l]) /\ l # 1
    BY <1>0, <1>1, <2>1
  <2>2. ASSUME NEW l \in DOMAIN items, About(items[l]), l # 1 PROVE \E k \in DOMAIN items' : About(items'[k])
    BY <1>1, <2>2
  <2>3. (\E k \in DOMAIN items' : About(items'[k])) <=> \E l \in DOMAIN items : About(items[l]) /\ l # 1
    BY <2>1, <2>2
  <2> QED
    BY <2>3, Zenon DEF About
<1> DEFINE Fin(a) == \/ aio'[a].rdone
                     \/ \E k \in DOMAIN items' : items'[k].type = "annotator_in" /\ items'[k].id = a /\ items'[k].hup
<1>8. \A a \in Aio : Fin(a) <=> Finishing(a)
  <2> SUFFICES ASSUME NEW a \in Aio PROVE Fin(a) <=> Finishing(a)
    OBVIOUS
  <2> DEFINE Later == \E k \in DOMAIN items : /\ items[k].type = "annotator_in" /\ items[k].id = a
                                              /\ items[k].hup /\ k # 1
             First == items[1].type = "annotator_in" /\ items[1].id = a /\ items[1].hup
  <2>1. Finishing(a) <=> aio[a].rdone \/ First \/ Later
    BY <1>1 DEF Finishing
  <2>2. Fin(a) <=> aio'[a].rdone \/ Later
    BY <1>7
  <2>3. CASE type = "annotator_in" /\ a = Head(items).id
    <3>1. ~aio[a].rdone /\ (First <=> Head(items).hup)
      BY <1>0, <1>1, <2>3 DEF ItemOpen
    <3>2. ~Later
      BY <1>0, <1>7, <2>3
    <3> QED
      BY <2>1, <2>2, <2>3, <3>1, <3>2
  <2>4. CASE ~(type = "annotator_in" /\ a = Head(items).id)
    <3>1. ~First
      BY <1>0, <1>1, <2>4
    <3> QED
      BY <2>1, <2>2, <2>4, <3>1
  <2> QED
    BY <2>3, <2>4
<1>9. NewerFirst'
  <2> SUFFICES ASSUME NEW j \in DOMAIN aios, NEW k \in DOMAIN aios, j < k,
                      aios[k] \notin late[aios[j]], Fin(aios[k])
               PROVE  Fin(aios[j])
    BY DEF NewerFirst, Finishing
  <2> QED
    BY <1>2, <1>8 DEF LoadInv, NewerFirst
<1>10. LostLate'
  <2>1. \A a \in Aio : Lost(a)' <=> Lost(a)
    BY DEF Lost
  <2> QED
    BY <2>1 DEF LoadInv, LostLate
<1>11. OutOpen'
  <2> SUFFICES ASSUME NEW k \in DOMAIN items', items'[k].type = "annotator_out"
               PROVE  ~aio'[items'[k].id].wdone
    BY DEF OutOpen
  <2>1. ~aio[items'[k].id].wdone
    BY <1>0 DEF LoadInv, OutOpen
  <2>2. items'[k].id \in Aio
    BY <1>0, <1>2 DEF ItemOpen
  <2> QED
    BY <1>0, <2>1, <2>2
<1>12. NoItems' /\ LateOnes' /\ Shown' /\ StaysUp'
  BY <1>0 DEF LoadInv, NoItems, LateOnes, Shown, StaysUp
<1> QED
  BY <1>4, <1>5, <1>6, <1>9, <1>10, <1>11, <1>12 DEF LoadInv

(* What is read from the command goes to a live buffer.                    *)
LEMMA BufferReadLoad ==
  ASSUME OneLoad, IoInv, LoadInv, BufferRead
  PROVE  LoadInv'
<1>0. PICK i, b, hup : i = Head(items).id /\ b = bio[i].buffer /\ hup = Head(items).hup
  OBVIOUS
<1>1. Handling("buffer_in")
  BY DEF BufferRead
<1>2. /\ ItemOpen(Head(items)) /\ Head(items).type = "buffer_in" /\ phase = "items"
  BY <1>1, HeadItem
<1>3. PICK k \in DOMAIN bios : bios[k] = i
  BY <1>0, <1>2 DEF ItemOpen
<1>4. buf[b].live /\ i \in Bio
  BY <1>0, <1>2, <1>3, OneOfEach
<1>5. ReadStep(i, b, hup)
  BY <1>0, <1>4, BufferReadEffect
<1>6. late' = late
  BY DEF BufferRead, Ends, histVars
<1>7. \A j \in Bio : bio'[j].buffer = bio[j].buffer
  BY <1>5 DEF ReadStep, IoInv, Base, IoTypes
<1>8. /\ items' = Tail(items) /\ aio' = aio /\ wfd' = wfd
      /\ UNCHANGED <<phase, status, bios, aios, pager, procB, procA>>
  BY <1>5 DEF ReadStep
<1> QED
  BY <1>1, <1>6, <1>7, <1>8, HandledLoad

(* Nobody hung up who is still written to.                                 *)
LEMMA AnnotatorWriteLoad ==
  ASSUME OneLoad, IoInv, LoadInv, AnnotatorWrite
  PROVE  LoadInv'
<1> DEFINE a == Head(items).id
           n == Written(a)
<1>1. Handling("annotator_out")
  BY DEF AnnotatorWrite
<1>2. ItemOpen(Head(items)) /\ Head(items).type = "annotator_out" /\ phase = "items"
  BY <1>1, HeadItem
<1>3. a \in Aio /\ ~aio[a].wdone
  <2>1. a \in Aio
    BY <1>2, OneOfEach DEF ItemOpen
  <2>2. 1 \in DOMAIN items /\ Head(items) = items[1]
    <3>1. items \in Seq(ItemRec) /\ items # <<>>
      BY <1>1 DEF Handling, IoInv, ItemsInv, ItemRec
    <3> QED
      BY <3>1
  <2> QED
    BY <1>2, <2>1, <2>2 DEF LoadInv, OutOpen
<1>4. ~Hung(procA[a])
  BY <1>3 DEF LoadInv, HungHadAll
<1>5. /\ aio' = [aio EXCEPT ![a].woffset = @ + n, ![a].wdone = @ \/ EndOfInput(a, n)]
      /\ wfd' = [wfd EXCEPT ![a] = IF EndOfInput(a, n) THEN @ \ {Ratc} ELSE @]
      /\ items' = Tail(items)
      /\ UNCHANGED <<phase, status, bios, bio, aios, pager, procB, procA, late>>
  BY <1>4 DEF AnnotatorWrite, histVars, heapVars
<1> HIDE DEF n
<1>6. aio \in [Aio -> [buffer : Addr \cup {NULL}, woffset : Int, wdone : BOOLEAN, rdone : BOOLEAN]]
      /\ wfd \in [Aio -> SUBSET Holders]
  BY DEF IoInv, Base, IoTypes
<1>7. \A c \in Aio : /\ aio'[c].buffer = aio[c].buffer
                     /\ aio[c].wdone => aio'[c].wdone
                     /\ aio'[c].wdone => aio[c].wdone \/ c = a
                     /\ aio'[c].rdone <=> aio[c].rdone
  BY <1>3, <1>5, <1>6
<1>8. \A c \in Aio : /\ wfd[c] = {} => wfd'[c] = {}
                     /\ \A e \in Aio : AProc(c) \in wfd[e] => AProc(c) \in wfd'[e]
  <2>1. \A c \in Aio : AProc(c) # Ratc
    BY DEF AProc, Ratc
  <2> QED
    BY <1>3, <1>5, <1>6, <2>1
<1> QED
  BY <1>1, <1>5, <1>7, <1>8, HandledLoad

(* What is read from an annotator goes to a live buffer.                   *)
LEMMA AnnotatorReadLoad ==
  ASSUME OneLoad, IoInv, LoadInv, AnnotatorRead
  PROVE  LoadInv'
<1> DEFINE a == Head(items).id
           hup == Head(items).hup
<1>1. Handling("annotator_in")
  BY DEF AnnotatorRead
<1>2. /\ ItemOpen(Head(items)) /\ Head(items) \in ItemRec /\ Head(items).type = "annotator_in"
      /\ phase = "items"
  BY <1>1, HeadItem
<1>3. a \in Aio /\ buf[aio[a].buffer].live
  BY <1>2, OneOfEach DEF ItemOpen
<1>4. /\ aio' = [aio EXCEPT ![a].rdone = hup] /\ items' = Tail(items)
      /\ UNCHANGED <<phase, status, bios, bio, aios, pager, procB, procA, wfd, late>>
  BY <1>3 DEF AnnotatorRead, histVars, heapVars
<1>5. aio \in [Aio -> [buffer : Addr \cup {NULL}, woffset : Int, wdone : BOOLEAN, rdone : BOOLEAN]]
  BY DEF IoInv, Base, IoTypes
<1>6. \A c \in Aio : /\ aio'[c].buffer = aio[c].buffer
                     /\ aio'[c].wdone <=> aio[c].wdone
                     /\ IF c = a THEN aio'[c].rdone <=> hup ELSE aio'[c].rdone <=> aio[c].rdone
  BY <1>3, <1>4, <1>5
<1> QED
  BY <1>1, <1>4, <1>6, HandledLoad

(* The place of what is read from an annotator.                            *)
LEMMA PlaceOfAioIn ==
  ASSUME IoTypes, NEW j \in DOMAIN aios
  PROVE  Len(bios) + 2 * j \in Places /\ OfAioIn(Len(bios) + 2 * j, j)
<1> DEFINE k == Len(bios) + 2 * j
<1>1. /\ Len(bios) \in Nat /\ Len(aios) \in Nat /\ j \in 1..Len(aios)
  BY DEF IoTypes
<1>2. k \in Places /\ ~(k <= Len(bios)) /\ k - Len(bios) = 2 * j
  BY <1>1 DEF Places
<1>3. (2 * j) % 2 = 0 /\ (2 * j + 1) \div 2 = j
  BY <1>1
<1>4. Candidate(k) = Item("annotator_in", aios[j])
  <2>1. k - Len(bios) + 1 = 2 * j + 1
    BY <1>1
  <2> HIDE DEF k
  <2> QED
    BY <1>2, <1>3, <2>1 DEF Candidate
<1> QED
  BY <1>2, <1>4 DEF OfAioIn

(* Places that come before one that is polled are polled when they want to *)
(* be: n_items leaves out the last ones only.                              *)
LEMMA EarlierBuilt ==
  ASSUME IoTypes, NEW l \in BuiltItems, NEW k \in Places, k <= l, Wanted(Candidate(k))
  PROVE  k \in BuiltItems
<1> DEFINE wanted == {m \in Places : Wanted(Candidate(m))}
           Before(x) == {m \in wanted : m <= x}
<1>1. l \in wanted /\ Cardinality(Before(l)) <= nItems
  BY DEF BuiltItems
<1>2. k \in wanted
  OBVIOUS
<1>3. Places = 1 .. Len(bios) + 2 * Len(aios) /\ Len(bios) + 2 * Len(aios) \in Int
  BY DEF Places, IoTypes
<1>4. wanted \subseteq Int /\ k \in Int /\ l \in Int
  BY <1>1, <1>3
<1>5. IsFiniteSet(Before(l))
  <2>1. IsFiniteSet(Places)
    BY <1>3, FS_Interval
  <2>2. Before(l) \subseteq Places
    OBVIOUS
  <2> QED
    BY <2>1, <2>2, FS_Subset
<1>6. Before(k) \subseteq Before(l)
  BY <1>4
<1> HIDE DEF wanted
<1>7. Cardinality(Before(k)) <= Cardinality(Before(l)) /\ Cardinality(Before(k)) \in Nat /\ Cardinality(Before(l)) \in Nat
  <2> HIDE DEF Before
  <2>1. IsFiniteSet(Before(k)) /\ Cardinality(Before(k)) <= Cardinality(Before(l))
    BY <1>5, <1>6, FS_Subset
  <2> QED
    BY <1>5, <2>1, FS_CardinalityType
<1>8. Cardinality(Before(k)) <= nItems
  <2> HIDE DEF Before
  <2>1. nItems \in Nat
    BY DEF IoTypes
  <2> QED
    BY <1>1, <1>7, <2>1
<1> QED
  BY <1>2, <1>8 DEF BuiltItems, wanted

(* One that hung up at the end of its input is the last to hold its write  *)
(* end: those that inherited it are gone, and their items come before.     *)
LEMMA PollLoad ==
  ASSUME OneLoad, IoInv, LoadInv, Poll
  PROVE  LoadInv'
<1> DEFINE ready == {k \in BuiltItems : Ready(Candidate(k))}
           n == Len(bios) + 2 * Len(aios)
           order == Ascending(ready, n)
<1>0. phase = "poll" /\ calls = <<>> /\ items = <<>> /\ StaysUp
  BY DEF Poll, IoInv, CallsFit, LoadInv, NoItems
<1>1. ~ReadsFreedBuffer
  BY <1>0, OneOfEach DEF ReadsFreedBuffer, ToSet
<1>2. /\ items' = [k \in DOMAIN order |-> Polled(Candidate(order[k]))]
      /\ phase' = "items"
      /\ UNCHANGED <<status, calls, bios, bio, aios, aio, pager, procB, procA, wfd, late>>
  BY <1>1 DEF Poll, listVars, heapVars, procVars, histVars
<1>3. /\ \A l \in ready : l \in Places /\ l \in BuiltItems /\ Wanted(Candidate(l)) /\ Ready(Candidate(l))
      /\ ready \in SUBSET (1..n) /\ n \in Nat
  BY DEF BuiltItems, Places, IoInv, Base, IoTypes
<1>4. \A l \in BuiltItems : Ready(Candidate(l)) => l \in ready
  OBVIOUS
<1> HIDE DEF ready, n
<1>5. Lists(order, ready, n)
  BY <1>3, AscendingLists, Zenon
<1> HIDE DEF order
<1>6. /\ \A k \in DOMAIN items' : \E l \in ready : items'[k] = Polled(Candidate(l))
      /\ \A l \in ready : \E k \in DOMAIN items' : items'[k] = Polled(Candidate(l))
  <2>1. DOMAIN items' = DOMAIN order
    BY <1>2
  <2>2. \A k \in DOMAIN order : order[k] \in ready
    BY <1>5 DEF Lists
  <2>3. \A l \in ready : \E k \in DOMAIN order : order[k] = l
    BY <1>3, <1>5 DEF Lists
  <2> QED
    BY <1>2, <2>1, <2>2, <2>3
<1>7. /\ IoTypes
      /\ \A j, k \in DOMAIN aios : j < k => aios[j] > aios[k]
      /\ \A k \in DOMAIN aios : aios[k] \in Aio /\ procA[aios[k]] # "none"
  BY OneOfEach DEF IoInv, Base, ListsSorted
<1>8. OutOpen'
  <2> SUFFICES ASSUME NEW k \in DOMAIN items', items'[k].type = "annotator_out"
               PROVE  ~aio[items'[k].id].wdone
    BY <1>2 DEF OutOpen
  <2>1. PICK l \in ready : items'[k] = Polled(Candidate(l))
    BY <1>6
  <2>2. Candidate(l).type = "annotator_out" /\ items'[k].id = Candidate(l).id
    BY <1>3, <2>1, PolledOpen
  <2>3. Wanted(Candidate(l))
    BY <1>3
  <2> QED
    BY <2>2, <2>3 DEF Wanted, WantsOut
<1>9. NewerFirst'
  <2> DEFINE Hanging(a) == \E m \in DOMAIN items' : /\ items'[m].type = "annotator_in"
                                                   /\ items'[m].id = a /\ items'[m].hup
  <2> SUFFICES ASSUME NEW j \in DOMAIN aios, NEW k \in DOMAIN aios, j < k,
                      aios[k] \notin late[aios[j]], aio[aios[k]].rdone \/ Hanging(aios[k])
               PROVE  aio[aios[j]].rdone \/ Hanging(aios[j])
    BY <1>2 DEF NewerFirst, Finishing
  <2>1. \A c : Finishing(c) <=> aio[c].rdone
    BY <1>0 DEF Finishing
  <2>2. CASE aio[aios[k]].rdone
    BY <2>1, <2>2 DEF LoadInv, NewerFirst
  <2>3. ASSUME Hanging(aios[k]), ~aio[aios[j]].rdone PROVE Hanging(aios[j])
    <3> DEFINE c == aios[k]
               a == aios[j]
    <3>1. PICK m \in DOMAIN items' : items'[m].type = "annotator_in" /\ items'[m].id = c /\ items'[m].hup
      BY <2>3
    <3>2. PICK l \in ready : items'[m] = Polled(Candidate(l))
      BY <1>6
    <3>3. Candidate(l).type = "annotator_in" /\ Candidate(l).id = c
      BY <1>3, <3>1, <3>2, PolledOpen
    <3>4. ~aio[c].rdone /\ Hung(procA[c])
      <4>1. Wanted(Candidate(l)) /\ Hup(Candidate(l))
        BY <1>3, <3>1, <3>2 DEF Polled
      <4> HIDE DEF c
      <4> QED
        BY <3>3, <4>1 DEF Wanted, Hup
    <3>5. wfd[c] = {}
      BY <1>7, <3>4 DEF LoadInv, HungHadAll
    <3>6. c < a /\ a \in Aio /\ c \in Aio /\ procA[a] # "none"
      <4>1. a > c /\ a \in Aio /\ c \in Aio /\ procA[a] # "none"
        BY <1>7
      <4> HIDE DEF a, c
      <4> QED
        BY <4>1 DEF Aio
    <3>7. Gone(procA[a])
      BY <3>5, <3>6 DEF LoadInv, Inherited
    <3> DEFINE before == Len(bios) + 2 * j
               here == Len(bios) + 2 * k
    <3>8. /\ before \in Places /\ Candidate(before) = Item("annotator_in", a)
          /\ here \in Places /\ Candidate(here) = Item("annotator_in", c)
      BY <1>7, PlaceOfAioIn DEF OfAioIn
    <3>9. before < here
      <4>1. Len(bios) \in Nat /\ j \in Int /\ k \in Int
        BY <1>7 DEF IoTypes
      <4> QED
        BY <4>1
    <3> HIDE DEF before, here, a, c
    <3>10. l = here
      BY <1>3, <3>3, <3>8, ItemFields, CandidatesDiffer
    <3>11. Candidate(before).type = "annotator_in" /\ Candidate(before).id = a
      BY <3>8, ItemFields
    <3>12. Wanted(Candidate(before)) /\ Ready(Candidate(before)) /\ Hup(Candidate(before))
      <4>1. ~aio[a].rdone /\ Hung(procA[a])
        BY <2>3, <3>7 DEF Gone, Hung, a
      <4> QED
        BY <3>11, <4>1 DEF Wanted, Ready, Hup
    <3>13. before \in ready
      <4>1. before \in Int /\ here \in Int /\ before <= here
        BY <1>7, <3>8, <3>9 DEF Places, IoTypes
      <4>2. before \in BuiltItems
        BY <1>3, <1>7, <3>8, <3>10, <3>12, <4>1, EarlierBuilt
      <4> QED
        BY <1>4, <3>12, <4>2
    <3>14. PICK q \in DOMAIN items' : items'[q] = Polled(Candidate(before))
      BY <1>6, <3>13
    <3>15. items'[q].type = "annotator_in" /\ items'[q].id = a /\ items'[q].hup
      BY <3>11, <3>12, <3>14 DEF Polled
    <3> QED
      BY <3>15 DEF a
  <2> QED
    BY <2>2, <2>3
<1>10. NoItems' /\ LateOnes' /\ Shown' /\ StaysUp'
  BY <1>0, <1>2 DEF LoadInv, NoItems, LateOnes, Shown, StaysUp
<1>11. OneBuffer'
  <2>1. nBios' = nBios /\ nAios' = nAios
    BY <1>2 DEF nBios, nAios
  <2>2. nBios # 0
    BY <1>0 DEF LoadInv, OneBuffer, Shown, RunPending
  <2> QED
    BY <1>2, <2>1, <2>2 DEF LoadInv, OneBuffer
<1>12. HungHadAll' /\ Inherited' /\ LostLate'
  BY <1>2 DEF LoadInv, HungHadAll, Inherited, LostLate, Lost
<1> QED
  BY <1>8, <1>9, <1>10, <1>11, <1>12 DEF LoadInv

(* What io_prune_finished takes off the list unfinished was added late:    *)
(* any other is before the finished one only if it is finished, too.       *)
LEMMA PruneLoad ==
  ASSUME OneLoad, IoInv, LoadInv, Prune
  PROVE  LoadInv'
<1>0. phase = "prune" /\ items = <<>> /\ StaysUp
  BY DEF Prune, LoadInv, NoItems
<1>1. ~ \E k \in 1..Len(bios)-1 : bio[bios[k]].rdone /\ bio[bios[k+1]].rdone
  <2>1. Len(bios) \in Nat /\ Len(bios) <= 1
    BY OneOfEach
  <2> QED
    BY <2>1
<1>2. PICK last : PruneStep(last)
  BY <1>1, PruneEffect
<1>3. /\ UNCHANGED <<status, items, calls, bio, aio, pager, wfd>>
      /\ phase' \in {"poll", "done"}
      /\ \A i \in Bio : procB'[i] = procB[i] \/ (procB'[i] = "reaped" /\ \E k \in DOMAIN bios : bios[k] = i)
      /\ \A a \in Aio : procA'[a] = IF aio[a].rdone /\ \E k \in DOMAIN aios : aios[k] = a
                                    THEN "reaped" ELSE procA[a]
      /\ \A k \in DOMAIN bios' : \E l \in DOMAIN bios : bios'[k] = bios[l]
  BY <1>2 DEF PruneStep
<1>4. /\ last \in Nat
      /\ \/ last = 0
         \/ last \in DOMAIN aios /\ aio[aios[last]].rdone
      /\ \A k \in DOMAIN aios' :
           k + last \in DOMAIN aios /\ aios'[k] = aios[k + last] /\ ~aio[aios[k + last]].rdone
      /\ \A l \in DOMAIN aios : l > last => \E k \in DOMAIN aios' : aios'[k] = aios[l]
  BY <1>2 DEF PruneStep
<1>5. ~ \E k \in 1..Len(bios)-1 : {bios[k], bios[k+1]} \subseteq {i \in ToSet(bios) : bio[i].rdone}
  BY <1>1
<1>6. late' = late /\ phase' = IF Continues THEN "poll" ELSE "done"
  BY <1>5 DEF Prune, histVars
<1>7. /\ \A k \in DOMAIN aios : aios[k] \in Aio /\ procA[aios[k]] \notin {"none", "reaped"}
      /\ \A k \in DOMAIN bios : bios[k] \in Bio /\ procB[bios[k]] # "none"
      /\ \A k \in DOMAIN aios : aio[aios[k]].rdone => procA[aios[k]] = "dead"
  <2>1. \A k \in DOMAIN aios : aios[k] \in {c \in ToSet(aios) : aio[c].rdone} => Gone(procA[aios[k]])
    BY DEF Prune
  <2>2. \A k \in DOMAIN aios : aio[aios[k]].rdone => aios[k] \in {c \in ToSet(aios) : aio[c].rdone}
    BY DEF ToSet
  <2> QED
    BY <2>1, <2>2, OneOfEach DEF Gone, IoInv, Base, ListsSorted
<1>8. \A a \in Aio : /\ procA'[a] = "none" <=> procA[a] = "none"
                     /\ procA[a] = "reaped" => procA'[a] = "reaped"
                     /\ Gone(procA'[a]) <=> Gone(procA[a])
                     /\ Hung(procA'[a]) <=> Hung(procA[a])
  BY <1>3, <1>7 DEF Gone, Hung
<1>9. \A a : Finishing(a) <=> aio[a].rdone
  BY <1>0 DEF Finishing
<1>10. NewerFirst'
  <2>1. DOMAIN items' = {}
    BY <1>0, <1>3
  <2> SUFFICES ASSUME NEW j \in DOMAIN aios', NEW k \in DOMAIN aios', j < k,
                      aio'[aios'[k]].rdone
               PROVE  FALSE
    BY <2>1, Zenon DEF NewerFirst, Finishing
  <2> QED
    BY <1>3, <1>4
<1>11. LostLate'
  <2> SUFFICES ASSUME NEW a \in Aio, Lost(a)' PROVE \E c \in late[a] : procA'[c] = "reaped"
    BY <1>6 DEF LostLate
  <2>1. procA'[a] \notin {"none", "reaped"} /\ \A k \in DOMAIN aios' : aios'[k] # a
    BY DEF Lost, ToSet
  <2>2. CASE a \in ToSet(aios)
    <3>1. PICK j \in DOMAIN aios : aios[j] = a
      BY <2>2 DEF ToSet
    <3>2. ~aio[a].rdone /\ ~(j > last)
      BY <1>3, <1>4, <2>1, <3>1
    <3>3. j \in Nat /\ j >= 1 /\ last \in DOMAIN aios /\ aio[aios[last]].rdone /\ j # last /\ j < last
      <4>1. aios \in Seq(Aio)
        BY OneOfEach
      <4>2. j \in Nat /\ j >= 1
        BY <4>1
      <4> QED
        BY <1>4, <3>1, <3>2, <4>2
    <3>4. aios[last] \in late[a]
      BY <1>9, <3>1, <3>2, <3>3 DEF LoadInv, NewerFirst
    <3>5. procA'[aios[last]] = "reaped"
      BY <1>3, <1>7, <3>3
    <3> QED
      BY <3>4, <3>5
  <2>3. CASE a \notin ToSet(aios)
    <3>1. Lost(a)
      BY <1>8, <2>1, <2>3 DEF Lost
    <3>2. PICK c \in late[a] : procA[c] = "reaped"
      BY <3>1 DEF LoadInv, LostLate
    <3>3. c \in Aio
      BY DEF LoadInv, LateOnes
    <3> QED
      BY <1>8, <3>2, <3>3
  <2> QED
    BY <2>2, <2>3
<1>12. OneBuffer'
  <2>1. \A i \in Bio : procB'[i] = "none" <=> procB[i] = "none"
    BY <1>3, <1>7
  <2>2. nBios' = nBios /\ nAios' = nAios
    BY <1>8, <2>1 DEF nBios, nAios
  <2>3. RunPending(1)' <=> RunPending(1)
    BY <1>3 DEF RunPending
  <2> QED
    BY <1>3, <1>8, <2>2, <2>3 DEF LoadInv, OneBuffer
<1>13. HungHadAll' /\ Inherited'
  BY <1>3, <1>6, <1>8 DEF LoadInv, HungHadAll, Inherited
<1>14. Shown'
  <2>1. Continues => pager[1].state = "stacked"
    BY OneOfEach DEF Continues
  <2> QED
    BY <1>3, <1>6, <2>1 DEF Shown
<1>15. NoItems' /\ LateOnes' /\ OutOpen' /\ StaysUp'
  BY <1>0, <1>3, <1>6 DEF LoadInv, NoItems, LateOnes, OutOpen, StaysUp
<1> QED
  BY <1>10, <1>11, <1>12, <1>13, <1>14, <1>15 DEF LoadInv

(* Every step keeps the invariant of one load.                             *)
LEMMA StepLoad ==
  ASSUME OneLoad, IoInv, IoInv', LoadInv, [Next]_vars
  PROVE  LoadInv'
<1>1. ASSUME NEW p \in Pager,
             NewPager(p) \/ AddAnnotator(p) \/ Reload(p) \/ PopPager(p) \/ CollectPager(p)
      PROVE  LoadInv'
  BY <1>1, AskLoad
<1>2. ASSUME NEW p \in Pager, Cancel(p) \/ Run(p) \/ Annotate(p) \/ FreePager(p)
      PROVE  LoadInv'
  BY <1>2, CancelLoad, RunLoad, AnnotateLoad, FreeLoad
<1>3. CASE HandlerReturns \/ PollKey \/ ItemsDone
  BY <1>3, ThreadLoad
<1>4. CASE Poll \/ BufferRead \/ AnnotatorWrite \/ AnnotatorRead \/ Prune
  BY <1>4, PollLoad, BufferReadLoad, AnnotatorWriteLoad, AnnotatorReadLoad, PruneLoad
<1>5. CASE Process
  BY <1>5, ProcessLoad
<1>6. CASE UNCHANGED vars
  <2> USE <1>6 DEF vars, loopVars, listVars, heapVars, procVars, histVars, LoadInv
  <2>1. nAios' = nAios /\ nBios' = nBios /\ (RunPending(1)' <=> RunPending(1))
    BY DEF nAios, nBios, RunPending
  <2>2. NoItems' /\ LateOnes' /\ OneBuffer' /\ Shown' /\ OutOpen' /\ StaysUp'
    BY <2>1 DEF NoItems, LateOnes, OneBuffer, Shown, OutOpen, StaysUp
  <2>3. HungHadAll' /\ Inherited' /\ LostLate'
    BY DEF HungHadAll, Inherited, LostLate, Lost
  <2>4. \A a : Finishing(a)' <=> Finishing(a)
    BY DEF Finishing
  <2>5. NewerFirst'
    BY <2>4 DEF NewerFirst
  <2> QED
    BY <2>2, <2>3, <2>5
<1> QED
  BY <1>1, <1>2, <1>3, <1>4, <1>5, <1>6 DEF Next, Handler, Tick

(* The invariant of one load holds always.                                 *)
LEMMA AlwaysLoad == OneLoad => (Spec => []LoadInv)
<1>1. OneLoad /\ Init => IoInv /\ LoadInv
  BY InitInv, InitLoad
<1>2. OneLoad /\ IoInv /\ LoadInv /\ [Next]_vars => IoInv' /\ LoadInv'
  BY StepKeeps, StepLoad
<1> SUFFICES ASSUME OneLoad PROVE Spec => []LoadInv
  OBVIOUS
<1>3. Init => IoInv /\ LoadInv
  BY <1>1
<1>4. IoInv /\ LoadInv /\ [Next]_vars => IoInv' /\ LoadInv'
  BY <1>2
<1> QED
  BY <1>3, <1>4, PTL DEF Spec

(* With one load of one pager and annotators that read all their input,    *)
(* ratc never touches freed memory and never writes to a process that      *)
(* closed its input, which would kill it (io_tick, annotator_io_write,     *)
(* io_prune_finished), whatever number of annotators there is and whatever *)
(* is popped, quit or collected when.                                      *)
THEOREM OneLoadStaysUp == OneLoad => (Spec => []StaysUp)
<1> SUFFICES ASSUME OneLoad PROVE Spec => []StaysUp
  OBVIOUS
<1>1. LoadInv => StaysUp
  BY DEF LoadInv
<1>2. Spec => []LoadInv
  BY AlwaysLoad
<1> QED
  BY <1>1, <1>2, PTL

(* In the same setting io_prune_finished takes an annotator off the list   *)
(* without waiting for it only behind one that had its end of input, or    *)
(* was killed, when it began.                                              *)
THEOREM OneLoadLosesOnlyLate == OneLoad => (Spec => []LostOnlyWhenLate)
<1> SUFFICES ASSUME OneLoad PROVE Spec => []LostOnlyWhenLate
  OBVIOUS
<1>1. LoadInv => LostOnlyWhenLate
  BY DEF LoadInv, LostLate, LostOnlyWhenLate
<1>2. Spec => []LoadInv
  BY AlwaysLoad
<1> QED
  BY <1>1, <1>2, PTL
=============================================================================
