--------------------------- MODULE ReadQueueProofs ---------------------------
(***************************************************************************)
(* Proofs that the read queue keeps its invariant, frees a chunk exactly   *)
(* when its bytes are committed, and implements the byte stream, for any   *)
(* number of chunks of any sizes.                                          *)
(***************************************************************************)
EXTENDS ReadQueue, SequenceTheorems, TLAPS

(* The empty queue satisfies the invariant.                                *)
LEMMA InitInv == Init => IInv
<1> SUFFICES ASSUME Init PROVE IInv
  OBVIOUS
<1> USE BoundsAssumption DEF Init, NULL, Chunk
<1>1. TypeOK
  BY DEF TypeOK
<1>2. ChunksAreTheStream
  BY DEF ChunksAreTheStream
<1>3. ChainIsLinked
  BY DEF ChainIsLinked, oldest
<1>4. FreedIsCommittedPrefix
  BY DEF FreedIsCommittedPrefix, oldest
<1>5. PositionsInBounds
  BY DEF PositionsInBounds
<1>6. LocalsInBounds
  BY DEF LocalsInBounds
<1> QED
  BY <1>1, <1>2, <1>3, <1>4, <1>5, <1>6 DEF IInv

(* What the invariant says of one allocated chunk, and, when it is still   *)
(* linked, of the chunk after it.                                          *)
LEMMA ChunkFacts ==
  ASSUME IInv, NEW c \in 1..allocd
  PROVE  /\ c \in Chunk /\ start[c] \in Nat /\ size[c] \in Nat /\ size[c] > 0
         /\ start[c] + size[c] <= written
         /\ c = allocd => start[c] + size[c] = written
         /\ c # allocd => c + 1 \in 1..allocd /\ start[c+1] = start[c] + size[c]
         /\ next[c] \in 0..MaxChunks
         /\ c >= oldest => next[c] = IF c = allocd THEN NULL ELSE c + 1
         /\ first # NULL => oldest = first
         /\ first = NULL => oldest = allocd + 1
<1> USE BoundsAssumption DEF IInv, Chunk, NULL
<1>1. c \in Chunk /\ start[c] \in Nat /\ size[c] \in Nat /\ next[c] \in 0..MaxChunks /\ allocd \in Nat
  BY DEF TypeOK
<1>2. size[c] > 0 /\ start[c] + size[c] <= written
  BY DEF ChunksAreTheStream
<1>3. c = allocd => start[c] + size[c] = written
  BY <1>1 DEF ChunksAreTheStream
<1>4. ASSUME c # allocd PROVE c + 1 \in 1..allocd /\ start[c+1] = start[c] + size[c]
  <2>1. c + 1 \in 1..allocd
    BY <1>1, <1>4
  <2>2. c + 1 # 1 /\ (c + 1) - 1 = c
    BY <1>1
  <2> QED
    BY <2>1, <2>2 DEF ChunksAreTheStream
<1>5. c >= oldest => next[c] = IF c = allocd THEN NULL ELSE c + 1
  BY <1>1 DEF ChainIsLinked, oldest, TypeOK
<1> QED
  BY <1>1, <1>2, <1>3, <1>4, <1>5 DEF oldest

(* A write keeps it: the new chunk continues the stream and the chain.      *)
LEMMA WriteInv == ASSUME NEW n \in 0..MaxLen, IInv, Write(n) PROVE IInv'
<1> USE BoundsAssumption DEF IInv, NULL, Chunk, chunkVars, localVars
<1> DEFINE c == allocd + 1
<1>a. /\ allocd \in Nat /\ c \in Chunk /\ allocd' = c /\ c # NULL /\ n \in Nat /\ n > 0
      /\ pc = "idle"
  BY DEF Write, TypeOK
<1>b. /\ start' = [start EXCEPT ![c] = written] /\ size' = [size EXCEPT ![c] = n]
      /\ next' = [d \in Chunk |-> IF last # NULL /\ d = last THEN c ELSE next[d]]
      /\ first' = IF last = NULL THEN c ELSE first
      /\ last' = c
      /\ tmpFirst' = IF tmpFirst = NULL THEN c ELSE tmpFirst
      /\ written' = written + n
  BY DEF Write
<1>c. UNCHANGED <<freed, offset, tmpOffset, pc, localVars, ret>>
  BY DEF Write
<1>d. (first = NULL <=> last = NULL) /\ (last # NULL => last = allocd /\ first \in 1..allocd)
  BY <1>a DEF TypeOK, ChainIsLinked
<1>e. oldest' = oldest /\ oldest \in 1..c
  BY <1>a, <1>b, <1>d DEF oldest, TypeOK
<1>f. \A d \in 1..allocd : d # c /\ d \in Chunk /\ start'[d] = start[d] /\ size'[d] = size[d]
  BY <1>a, <1>b DEF TypeOK
<1>g. start'[c] = written /\ size'[c] = n
  BY <1>a, <1>b DEF TypeOK
<1> HIDE DEF c
<1>1. TypeOK'
  <2>1. start' \in [Chunk -> Nat] /\ size' \in [Chunk -> Nat]
    BY <1>a, <1>b DEF TypeOK
  <2>3. next' \in [Chunk -> 0..MaxChunks]
    <3>1. \A d \in Chunk : (IF last # NULL /\ d = last THEN c ELSE next[d]) \in 0..MaxChunks
      BY <1>a DEF TypeOK
    <3> QED
      BY <3>1, <1>b
  <2>2. /\ allocd' \in 0..MaxChunks /\ first' \in 0..allocd' /\ last' \in 0..allocd'
        /\ tmpFirst' \in 0..allocd' /\ cursor' \in 0..allocd' /\ written' \in Nat
    BY <1>a, <1>b, <1>c DEF TypeOK, c
  <2> QED
    BY <2>1, <2>2, <2>3, <1>c DEF TypeOK
<1>2. ChunksAreTheStream'
  <2>1. written \in Nat
    BY DEF TypeOK
  <2>2. \A d \in 1..allocd' : size'[d] > 0 /\ start'[d] + size'[d] <= written'
    <3> TAKE d \in 1..allocd'
    <3>1. CASE d = c
      BY <3>1, <2>1, <1>a, <1>b, <1>g
    <3>2. CASE d \in 1..allocd
      BY <3>2, <2>1, <1>a, <1>b, <1>f, ChunkFacts
    <3> QED
      BY <3>1, <3>2, <1>a DEF c
  <2>3. \A d \in 1..allocd' : start'[d] = IF d = 1 THEN 0 ELSE start'[d-1] + size'[d-1]
    <3> TAKE d \in 1..allocd'
    <3>1. CASE d = c /\ allocd = 0
      BY <3>1, <1>a, <1>g DEF ChunksAreTheStream, c
    <3>2. CASE d = c /\ allocd # 0
      <4>1. allocd \in 1..allocd /\ d - 1 = allocd /\ d # 1
        BY <3>2, <1>a DEF c
      <4> QED
        BY <4>1, <3>2, <1>f, <1>g, ChunkFacts
    <3>3. CASE d \in 1..allocd
      <4>1. d = 1 \/ d - 1 \in 1..allocd
        BY <3>3, <1>a
      <4>2. start[d] = IF d = 1 THEN 0 ELSE start[d-1] + size[d-1]
        BY <3>3 DEF ChunksAreTheStream
      <4> QED
        BY <4>1, <4>2, <3>3, <1>f
    <3> QED
      BY <3>1, <3>2, <3>3, <1>a DEF c
  <2> QED
    BY <2>2, <2>3, <1>a, <1>b, <1>g DEF ChunksAreTheStream
<1>3. ChainIsLinked'
  <2>1. \A d \in oldest'..allocd' : next'[d] = IF d = allocd' THEN NULL ELSE d + 1
    <3> TAKE d \in oldest'..allocd'
    <3>1. d \in Chunk /\ d \in oldest..c
      BY <1>a, <1>e DEF c
    <3>2. CASE d = c
      BY <3>1, <3>2, <1>a, <1>b, <1>d DEF ChainIsLinked, c
    <3>3. CASE d # c /\ d = allocd
      BY <3>1, <3>3, <1>a, <1>b, <1>d, <1>e DEF oldest, c
    <3>4. CASE d \in 1..allocd /\ d # allocd
      BY <3>1, <3>4, <1>a, <1>b, <1>d, ChunkFacts DEF c
    <3> QED
      BY <3>1, <3>2, <3>3, <3>4, <1>a, <1>e DEF c
  <2>2. \A d \in allocd'+1..MaxChunks : next'[d] = NULL
    BY <1>a, <1>b, <1>d DEF ChainIsLinked, c
  <2> QED
    BY <2>1, <2>2, <1>a, <1>b DEF ChainIsLinked
<1>4. FreedIsCommittedPrefix'
  BY <1>a, <1>c, <1>e DEF FreedIsCommittedPrefix
<1>5. PositionsInBounds'
  <2>1. tmpFirst = NULL => tmpOffset = 0
    BY DEF PositionsInBounds
  <2>2. tmpFirst' # NULL /\ first' # NULL /\ first' <= tmpFirst'
    BY <1>a, <1>b, <1>d DEF PositionsInBounds, TypeOK, c
  <2>3. tmpOffset' < size'[tmpFirst']
    <3>1. CASE tmpFirst = NULL
      BY <3>1, <2>1, <1>a, <1>b, <1>c, <1>g
    <3>2. CASE tmpFirst # NULL
      BY <3>2, <1>b, <1>c, <1>f DEF PositionsInBounds, TypeOK
    <3> QED
      BY <3>1, <3>2
  <2>4. first = NULL => first' = c /\ offset' = 0 /\ tmpOffset' = 0
    BY <2>1, <1>a, <1>b, <1>c, <1>d DEF PositionsInBounds
  <2>5. first # NULL => /\ first' = first /\ offset' < size'[first']
                        /\ first = tmpFirst' => offset' <= tmpOffset'
    BY <1>a, <1>b, <1>c, <1>d, <1>f DEF PositionsInBounds, c
  <2> QED
    BY <2>2, <2>3, <2>4, <2>5, <1>a, <1>g DEF PositionsInBounds
<1>6. LocalsInBounds'
  BY <1>a, <1>c DEF LocalsInBounds
<1> QED
  BY <1>1, <1>2, <1>3, <1>4, <1>5, <1>6 DEF IInv

(* Peek only looks.                                                        *)
LEMMA PeekInv == ASSUME IInv, Peek PROVE IInv'
<1> USE BoundsAssumption DEF IInv, Peek, NULL, Chunk, chunkVars, localVars
<1>1. TypeOK'
  BY DEF TypeOK
<1>2. ChunksAreTheStream'
  BY DEF TypeOK, ChunksAreTheStream
<1>3. ChainIsLinked'
  BY DEF TypeOK, ChainIsLinked, oldest
<1>4. FreedIsCommittedPrefix'
  BY DEF TypeOK, FreedIsCommittedPrefix, oldest
<1>5. PositionsInBounds'
  BY DEF TypeOK, PositionsInBounds
<1>6. LocalsInBounds'
  BY DEF TypeOK, LocalsInBounds, ReadPlace, Place
<1> QED
  BY <1>1, <1>2, <1>3, <1>4, <1>5, <1>6 DEF IInv

(* Rollback returns to a position that is in bounds.                       *)
LEMMA RollbackInv == ASSUME IInv, Rollback PROVE IInv'
<1> USE BoundsAssumption DEF IInv, Rollback, NULL, Chunk, chunkVars, localVars
<1>1. TypeOK'
  BY DEF TypeOK
<1>2. ChunksAreTheStream'
  BY DEF TypeOK, ChunksAreTheStream
<1>3. ChainIsLinked'
  BY DEF TypeOK, ChainIsLinked, oldest
<1>4. FreedIsCommittedPrefix'
  BY DEF TypeOK, FreedIsCommittedPrefix, oldest
<1>5. PositionsInBounds'
  BY DEF TypeOK, PositionsInBounds, ChainIsLinked
<1>6. LocalsInBounds'
  BY DEF TypeOK, LocalsInBounds, ReadPlace, Place
<1> QED
  BY <1>1, <1>2, <1>3, <1>4, <1>5, <1>6 DEF IInv

(* A read starts with nothing copied.                                      *)
LEMMA ReadCallInv == ASSUME NEW n \in 0..MaxLen, IInv, ReadCall(n) PROVE IInv'
<1> USE BoundsAssumption DEF IInv, ReadCall, NULL, Chunk, chunkVars, localVars
<1>1. TypeOK'
  BY DEF TypeOK
<1>2. ChunksAreTheStream'
  BY DEF TypeOK, ChunksAreTheStream
<1>3. ChainIsLinked'
  BY DEF TypeOK, ChainIsLinked, oldest
<1>4. FreedIsCommittedPrefix'
  BY DEF TypeOK, FreedIsCommittedPrefix, oldest
<1>5. PositionsInBounds'
  BY DEF TypeOK, PositionsInBounds
<1>6. LocalsInBounds'
  BY DEF TypeOK, LocalsInBounds, ReadPlace, Place, PositionsInBounds
<1> QED
  BY <1>1, <1>2, <1>3, <1>4, <1>5, <1>6 DEF IInv

(* What one iteration of read copies: the bytes between the read position  *)
(* and the end of its chunk, or as many of them as it still wants.         *)
Remaining == size[tmpFirst] - tmpOffset
Amount == IF want < Remaining THEN want ELSE Remaining
Copy == [i \in 1..Amount |-> start[tmpFirst] + tmpOffset + i]

(* One iteration of read moves the read position past exactly the bytes it *)
(* copies, into the next chunk when this one is used up.                   *)
ReadCopyEffect ==
  /\ tmpFirst \in 1..allocd /\ first \in 1..allocd /\ first <= tmpFirst
  /\ tmpOffset \in Nat /\ tmpOffset < size[tmpFirst] /\ want \in Nat /\ want > 0
  /\ Amount \in Nat /\ Amount > 0 /\ Amount <= want
  /\ Remaining \in Nat /\ Amount <= Remaining
  /\ tmpFirst # allocd => tmpFirst + 1 \in 1..allocd
  /\ next[tmpFirst] = IF tmpFirst = allocd THEN NULL ELSE tmpFirst + 1
  /\ Copy \in Seq(Nat) /\ Len(Copy) = Amount
  /\ copied' = copied \o Copy /\ want' = want - Amount
  /\ tmpFirst' = IF Amount = Remaining THEN next[tmpFirst] ELSE tmpFirst
  /\ tmpOffset' = IF Amount = Remaining THEN 0 ELSE tmpOffset + Amount
  /\ pc = "read"
  /\ UNCHANGED <<chunkVars, freed, first, last, offset, pc, asked, cursor,
                 newOffset, written, ret>>
  /\ copied' \in Seq(Nat) /\ Len(copied) \in Nat
  /\ Len(copied') = Len(copied) + Amount
  /\ ReadPlace = start[tmpFirst] + tmpOffset /\ ReadPlace \in Nat
  /\ ReadPlace' = ReadPlace + Amount

LEMMA ReadCopyFacts == ASSUME IInv, ReadCopy PROVE ReadCopyEffect
<1> USE BoundsAssumption DEF IInv, NULL, Chunk, chunkVars, localVars
<1>a. /\ tmpFirst \in 1..allocd /\ first \in 1..allocd /\ first <= tmpFirst
      /\ tmpOffset \in Nat /\ tmpOffset < size[tmpFirst] /\ want \in Nat /\ want > 0 
  BY DEF ReadCopy, TypeOK, PositionsInBounds
<1>b. /\ start[tmpFirst] \in Nat /\ size[tmpFirst] \in Nat /\ size[tmpFirst] > 0
      /\ start[tmpFirst] + size[tmpFirst] <= written
      /\ tmpFirst = allocd => start[tmpFirst] + size[tmpFirst] = written
      /\ tmpFirst # allocd => tmpFirst + 1 \in 1..allocd /\ start[tmpFirst+1] = start[tmpFirst] + size[tmpFirst]
      /\ tmpFirst >= oldest => next[tmpFirst] = IF tmpFirst = allocd THEN NULL ELSE tmpFirst + 1
      /\ first # NULL => oldest = first
  BY <1>a, ChunkFacts
<1>c. next[tmpFirst] = IF tmpFirst = allocd THEN NULL ELSE tmpFirst + 1
  BY <1>a, <1>b
<1>d. /\ Amount \in Nat /\ Amount > 0 /\ Amount <= want /\ Amount <= Remaining
      /\ Remaining \in Nat
  BY <1>a, <1>b DEF Amount, Remaining
<1>f. /\ copied' = copied \o Copy
      /\ want' = want - Amount
      /\ tmpFirst' = IF Amount = Remaining THEN next[tmpFirst] ELSE tmpFirst
      /\ tmpOffset' = IF Amount = Remaining THEN 0 ELSE tmpOffset + Amount
  BY <1>a, <1>b, <1>d DEF ReadCopy, Amount, Remaining, Copy
<1>g. UNCHANGED <<chunkVars, freed, first, last, offset, pc, asked, cursor, newOffset, written, ret>> /\ pc = "read"
  BY DEF ReadCopy
<1>e. Copy \in Seq(Nat) /\ Len(Copy) = Amount
  BY <1>a, <1>b, <1>d DEF Copy
<1>h. copied' \in Seq(Nat) /\ Len(copied') = Len(copied) + Amount
  BY <1>e, <1>f, ConcatProperties DEF TypeOK
<1>i. ReadPlace = start[tmpFirst] + tmpOffset
  BY <1>a DEF ReadPlace, Place
<1>j. ReadPlace' = ReadPlace + Amount
  <2>1. CASE Amount # Remaining
    BY <2>1, <1>a, <1>b, <1>d, <1>f, <1>g, <1>i DEF ReadPlace, Place
  <2>2. CASE Amount = Remaining /\ tmpFirst = allocd
    <3>1. ReadPlace' = written
      BY <2>2, <1>c, <1>f, <1>g DEF ReadPlace, Place
    <3> QED
      BY <3>1, <2>2, <1>a, <1>b, <1>i DEF Remaining
  <2>3. CASE Amount = Remaining /\ tmpFirst # allocd
    <3>1. ReadPlace' = start[tmpFirst + 1]
      BY <2>3, <1>a, <1>b, <1>c, <1>f, <1>g DEF ReadPlace, Place
    <3> QED
      BY <3>1, <2>3, <1>a, <1>b, <1>i DEF Remaining
  <2> QED
    BY <2>1, <2>2, <2>3
<1>k. Len(copied) \in Nat
  BY DEF TypeOK
<1>l. ReadPlace \in Nat
  BY <1>a, <1>b, <1>i
<1> QED
  BY <1>a, <1>b, <1>c, <1>d, <1>e, <1>f, <1>g, <1>h, <1>i, <1>j, <1>k, <1>l
     DEF ReadCopyEffect

(* One iteration of read keeps the invariant: the bytes copied continue    *)
(* those copied before.                                                    *)
LEMMA ReadCopyInv == ASSUME IInv, ReadCopy PROVE IInv'
<1> USE BoundsAssumption DEF IInv, NULL, Chunk, chunkVars, localVars
<1>a. ReadCopyEffect
  BY ReadCopyFacts
<1> USE DEF ReadCopyEffect
<1>b. /\ start[tmpFirst] \in Nat /\ size[tmpFirst] \in Nat /\ size[tmpFirst] > 0
  BY <1>a, ChunkFacts
<1>1. TypeOK'
  <2>1. want' \in Nat /\ tmpOffset' \in Nat
    BY <1>a
  <2>2. tmpFirst' \in 0..allocd
    BY <1>a DEF TypeOK
  <2> QED
    BY <2>1, <2>2, <1>a DEF TypeOK
<1>2. ChunksAreTheStream'
  BY <1>a DEF TypeOK, ChunksAreTheStream
<1>3. ChainIsLinked'
  BY <1>a DEF TypeOK, ChainIsLinked, oldest
<1>4. FreedIsCommittedPrefix'
  BY <1>a DEF TypeOK, FreedIsCommittedPrefix, oldest
<1>5. PositionsInBounds'
  <2>1. tmpFirst' # NULL => tmpOffset' < size[tmpFirst'] /\ first <= tmpFirst'
    <3>1. CASE Amount # Remaining
      BY <3>1, <1>a, <1>b DEF Remaining
    <3>2. CASE Amount = Remaining /\ tmpFirst # allocd
      <4>1. size[tmpFirst + 1] > 0
        BY <3>2, <1>a, ChunkFacts
      <4> QED
        BY <4>1, <3>2, <1>a
    <3>3. CASE Amount = Remaining /\ tmpFirst = allocd
      BY <3>3, <1>a
    <3> QED
      BY <3>1, <3>2, <3>3
  <2>2. first' # NULL /\ first' = tmpFirst' => tmpFirst = first /\ tmpOffset' >= tmpOffset
    BY <1>a
  <2>3. /\ offset < size[first]
        /\ first = tmpFirst => offset <= tmpOffset
    BY <1>a DEF PositionsInBounds
  <2>4. tmpFirst' = NULL => tmpOffset' = 0
    BY <1>a
  <2>5. offset \in Nat /\ tmpOffset' \in Nat
    BY <1>1, <1>a DEF TypeOK
  <2> QED
    BY <2>1, <2>2, <2>3, <2>4, <2>5, <1>a DEF PositionsInBounds
<1>6. LocalsInBounds'
  <2>0. /\ Len(copied) \in Nat /\ want = asked - Len(copied) /\ Len(copied) <= ReadPlace
        /\ copied = [i \in 1..Len(copied) |-> ReadPlace - Len(copied) + i]
        /\ ReadPlace \in Nat /\ asked \in Nat
    <3>1. Len(copied) \in Nat /\ asked \in Nat
      BY DEF TypeOK
    <3>2. ReadPlace \in Nat
      BY <1>a
    <3> QED
      BY <3>1, <3>2, <1>a DEF LocalsInBounds
  <2>1. want' = asked' - Len(copied')
    BY <2>0, <1>a DEF TypeOK
  <2>2. Len(copied') <= ReadPlace'
    <3>1. /\ Len(copied') = Len(copied) + Amount /\ ReadPlace' = ReadPlace + Amount
          /\ Amount \in Nat
      BY <1>a
    <3> QED
      BY <3>1, <2>0
  <2>3. copied' = [i \in 1..Len(copied') |-> ReadPlace' - Len(copied') + i]
    <3> DEFINE p == ReadPlace - Len(copied)
               n == Len(copied)
    <3>1. p \in Nat /\ n \in Nat /\ p + n = ReadPlace
      BY <2>0
    <3>2. copied = [i \in 1..n |-> p + i]
      BY <2>0
    <3>3. Copy = [i \in 1..Amount |-> p + n + i]
      BY <1>a, <3>1 DEF Copy
    <3>5. Len(copied') = n + Amount /\ ReadPlace' - Len(copied') = p
      BY <1>a, <3>1
    <3> HIDE DEF p, n
    <3>4. copied' = [i \in 1..n+Amount |-> p + i]
      BY <1>a, <3>1, <3>2, <3>3
    <3> QED
      BY <3>4, <3>5
  <2> QED
    BY <2>1, <2>2, <2>3, <1>a DEF LocalsInBounds
<1> QED
  BY <1>1, <1>2, <1>3, <1>4, <1>5, <1>6 DEF IInv

(* A read returns what it copied.                                          *)
LEMMA ReadReturnInv == ASSUME IInv, ReadReturn PROVE IInv'
<1> USE BoundsAssumption DEF IInv, NULL, Chunk, chunkVars, localVars
<1>a. /\ pc = "read" /\ pc' = "idle" /\ asked' = 0 /\ want' = 0 /\ copied' = <<>>
      /\ UNCHANGED <<chunkVars, freed, first, last, offset, tmpFirst, tmpOffset,
                     cursor, newOffset, written>>
  BY DEF ReadReturn
<1>1. TypeOK'
  <2>1. copied' \in Seq(Nat)
    BY <1>a
  <2> QED
    BY <2>1, <1>a DEF TypeOK
<1>2. ChunksAreTheStream'
  BY <1>a DEF ChunksAreTheStream
<1>3. ChainIsLinked'
  BY <1>a DEF ChainIsLinked, oldest, TypeOK
<1>4. FreedIsCommittedPrefix'
  BY <1>a DEF FreedIsCommittedPrefix, oldest
<1>5. PositionsInBounds'
  BY <1>a DEF PositionsInBounds
<1>6. LocalsInBounds'
  BY <1>a DEF LocalsInBounds
<1> QED
  BY <1>1, <1>2, <1>3, <1>4, <1>5, <1>6 DEF IInv

(* Advance starts from the read position.                                  *)
LEMMA AdvanceCallInv == ASSUME NEW n \in 0..MaxLen, IInv, AdvanceCall(n) PROVE IInv'
<1> USE BoundsAssumption DEF IInv, AdvanceCall, NULL, Chunk, chunkVars, localVars
<1>1. TypeOK'
  BY DEF TypeOK
<1>2. ChunksAreTheStream'
  BY DEF ChunksAreTheStream
<1>3. ChainIsLinked'
  BY DEF TypeOK, ChainIsLinked, oldest
<1>4. FreedIsCommittedPrefix'
  BY DEF TypeOK, FreedIsCommittedPrefix, oldest
<1>5. PositionsInBounds'
  BY DEF TypeOK, PositionsInBounds
<1>6. LocalsInBounds'
  <2>1. (IF cursor' = NULL THEN written' ELSE start'[cursor']) + newOffset' = ReadPlace' + asked'
    <3>1. CASE tmpFirst = NULL
      BY <3>1 DEF TypeOK, PositionsInBounds, ReadPlace, Place
    <3>2. CASE tmpFirst # NULL
      <4>1. start[tmpFirst] \in Nat /\ tmpOffset \in Nat /\ n \in Nat
        BY <3>2 DEF TypeOK
      <4> QED
        BY <3>2, <4>1 DEF ReadPlace, Place
    <3> QED
      BY <3>1, <3>2
  <2> QED
    BY <2>1 DEF TypeOK, LocalsInBounds
<1> QED
  BY <1>1, <1>2, <1>3, <1>4, <1>5, <1>6 DEF IInv

(* Skipping a chunk does not change the place the copies stand for.        *)
LEMMA AdvanceSkipInv == ASSUME IInv, AdvanceSkip PROVE IInv'
<1> USE BoundsAssumption DEF IInv, NULL, Chunk, chunkVars, localVars
<1>a. /\ pc = "advance" /\ cursor \in 1..allocd /\ newOffset >= size[cursor]
      /\ newOffset' = newOffset - size[cursor] /\ cursor' = next[cursor]
      /\ UNCHANGED <<chunkVars, freed, first, last, offset, tmpFirst, tmpOffset,
                     pc, asked, want, copied, written>>
  BY DEF AdvanceSkip, TypeOK
<1>b. /\ start[cursor] \in Nat /\ size[cursor] \in Nat
      /\ cursor = allocd => start[cursor] + size[cursor] = written
      /\ cursor # allocd => cursor + 1 \in 1..allocd
                            /\ start[cursor + 1] = start[cursor] + size[cursor]
  BY <1>a, ChunkFacts
<1>c. tmpFirst \in 1..allocd /\ tmpFirst <= cursor /\ cursor >= oldest
  BY <1>a DEF TypeOK, LocalsInBounds, PositionsInBounds, oldest
<1>d. next[cursor] = IF cursor = allocd THEN NULL ELSE cursor + 1
  BY <1>a, <1>c, ChunkFacts
<1>1. TypeOK'
  <2>1. cursor' \in 0..allocd /\ newOffset' \in Nat
    BY <1>a, <1>b, <1>d DEF TypeOK
  <2> QED
    BY <2>1, <1>a DEF TypeOK
<1>2. ChunksAreTheStream'
  BY <1>a DEF ChunksAreTheStream
<1>3. ChainIsLinked'
  BY <1>a DEF ChainIsLinked, oldest, TypeOK
<1>4. FreedIsCommittedPrefix'
  BY <1>a DEF FreedIsCommittedPrefix, oldest
<1>5. PositionsInBounds'
  BY <1>a DEF PositionsInBounds
<1>6. LocalsInBounds'
  <2>0. ReadPlace' = ReadPlace /\ start[cursor] + newOffset = ReadPlace + asked
        /\ newOffset \in Nat /\ copied = <<>>
    BY <1>a DEF ReadPlace, Place, LocalsInBounds, TypeOK
  <2>1. (IF cursor' = NULL THEN written' ELSE start'[cursor']) + newOffset' = ReadPlace' + asked'
    <3>1. CASE cursor = allocd
      BY <3>1, <2>0, <1>a, <1>b, <1>d DEF TypeOK
    <3>2. CASE cursor # allocd
      BY <3>2, <2>0, <1>a, <1>b, <1>d
    <3> QED
      BY <3>1, <3>2
  <2>2. cursor' # NULL => tmpFirst' # NULL /\ tmpFirst' <= cursor'
    BY <1>a, <1>c, <1>d
  <2> QED
    BY <2>0, <2>1, <2>2, <1>a DEF LocalsInBounds
<1> QED
  BY <1>1, <1>2, <1>3, <1>4, <1>5, <1>6 DEF IInv

(* The copies become the read position, or are dropped.                    *)
LEMMA AdvanceReturnInv == ASSUME IInv, AdvanceReturn PROVE IInv'
<1> USE BoundsAssumption DEF IInv, NULL, Chunk, chunkVars, localVars
<1>a. /\ pc = "advance" /\ pc' = "idle" /\ cursor' = NULL /\ newOffset' = 0 /\ asked' = 0
      /\ UNCHANGED <<chunkVars, freed, first, last, offset, want, copied, written>>
  BY DEF AdvanceReturn
<1>b. \/ UNCHANGED <<tmpFirst, tmpOffset>>
      \/ cursor = NULL /\ newOffset = 0 /\ tmpFirst' = NULL /\ tmpOffset' = 0
      \/ /\ cursor # NULL /\ newOffset < size[cursor]
         /\ tmpFirst' = cursor /\ tmpOffset' = newOffset
  BY DEF AdvanceReturn, TypeOK
<1>1. TypeOK'
  <2>1. tmpFirst' \in 0..allocd /\ tmpOffset' \in Nat
    BY <1>b DEF TypeOK
  <2> QED
    BY <2>1, <1>a DEF TypeOK
<1>2. ChunksAreTheStream'
  BY <1>a DEF ChunksAreTheStream
<1>3. ChainIsLinked'
  BY <1>a DEF ChainIsLinked, oldest, TypeOK
<1>4. FreedIsCommittedPrefix'
  BY <1>a DEF FreedIsCommittedPrefix, oldest
<1>5. PositionsInBounds'
  <2>1. CASE UNCHANGED <<tmpFirst, tmpOffset>>
    BY <2>1, <1>a DEF PositionsInBounds
  <2>2. CASE cursor = NULL /\ newOffset = 0 /\ tmpFirst' = NULL /\ tmpOffset' = 0
    BY <2>2, <1>a DEF PositionsInBounds, TypeOK
  <2>3. CASE /\ cursor # NULL /\ newOffset < size[cursor]
             /\ tmpFirst' = cursor /\ tmpOffset' = newOffset
    <3>1. tmpFirst # NULL /\ tmpFirst <= cursor /\ first # NULL /\ first <= tmpFirst
          /\ offset < size[first]
      BY <2>3, <1>a DEF LocalsInBounds, PositionsInBounds
    <3>2. first = cursor => first = tmpFirst
      BY <3>1 DEF TypeOK
    <3>3. first = tmpFirst => offset <= tmpOffset
      BY <3>1, <1>a DEF PositionsInBounds
    <3>4. cursor = tmpFirst => newOffset = tmpOffset + asked
      <4>1. start[cursor] + newOffset = ReadPlace + asked
        BY <2>3, <1>a DEF LocalsInBounds
      <4>2. cursor = tmpFirst => ReadPlace = start[cursor] + tmpOffset
        BY <2>3 DEF ReadPlace, Place
      <4>3. start[cursor] \in Nat /\ newOffset \in Nat /\ tmpOffset \in Nat /\ asked \in Nat
        BY <2>3 DEF TypeOK
      <4> QED
        BY <4>1, <4>2, <4>3
    <3>5. first = cursor => offset <= newOffset
      BY <3>2, <3>3, <3>4 DEF TypeOK
    <3> QED
      BY <2>3, <3>1, <3>5, <1>a DEF PositionsInBounds, TypeOK
  <2> QED
    BY <2>1, <2>2, <2>3, <1>b
<1>6. LocalsInBounds'
  BY <1>a DEF LocalsInBounds
<1> QED
  BY <1>1, <1>2, <1>3, <1>4, <1>5, <1>6 DEF IInv

(* A commit begins.                                                        *)
LEMMA CommitCallInv == ASSUME IInv, CommitCall PROVE IInv'
<1> USE BoundsAssumption DEF IInv, CommitCall, NULL, Chunk, chunkVars, localVars
<1>1. TypeOK'
  BY DEF TypeOK
<1>2. ChunksAreTheStream'
  BY DEF TypeOK, ChunksAreTheStream
<1>3. ChainIsLinked'
  BY DEF TypeOK, ChainIsLinked, oldest
<1>4. FreedIsCommittedPrefix'
  BY DEF TypeOK, FreedIsCommittedPrefix, oldest
<1>5. PositionsInBounds'
  BY DEF TypeOK, PositionsInBounds
<1>6. LocalsInBounds'
  BY DEF TypeOK, LocalsInBounds, ReadPlace, Place
<1> QED
  BY <1>1, <1>2, <1>3, <1>4, <1>5, <1>6 DEF IInv

(* A commit frees the oldest chunk, which lies before the read position.    *)
LEMMA CommitFreeInv == ASSUME IInv, CommitFree PROVE IInv'
<1> USE BoundsAssumption DEF IInv, NULL, Chunk, chunkVars, localVars
<1>a. /\ pc = "commit" /\ first # tmpFirst /\ first' = next[first] /\ freed' = freed \cup {first}
      /\ UNCHANGED <<chunkVars, last, offset, tmpFirst, tmpOffset, pc, localVars,
                     written>>
  BY DEF CommitFree
<1>b. first \in 1..allocd /\ oldest = first /\ allocd \in Nat
  BY <1>a DEF TypeOK, PositionsInBounds, oldest
<1>c. next[first] = IF first = allocd THEN NULL ELSE first + 1
  BY <1>b, ChunkFacts
<1>d. oldest' = first + 1
  BY <1>a, <1>b, <1>c DEF oldest
<1>1. TypeOK'
  <2>1. first' \in 0..allocd /\ first \in Chunk
    BY <1>a, <1>b, <1>c DEF TypeOK
  <2> QED
    BY <2>1, <1>a DEF TypeOK
<1>2. ChunksAreTheStream'
  BY <1>a DEF ChunksAreTheStream
<1>3. ChainIsLinked'
  BY <1>a, <1>b, <1>d DEF ChainIsLinked, TypeOK
<1>4. FreedIsCommittedPrefix'
  <2>1. freed = 1..(first - 1)
    BY <1>a, <1>b DEF FreedIsCommittedPrefix
  <2>2. freed' = 1..first
    BY <2>1, <1>a, <1>b
  <2> QED
    BY <2>2, <1>a, <1>b, <1>d DEF FreedIsCommittedPrefix
<1>5. PositionsInBounds'
  <2>1. tmpFirst # NULL => first < tmpFirst
    BY <1>a, <1>b DEF PositionsInBounds, TypeOK
  <2> QED
    BY <2>1, <1>a, <1>b, <1>c DEF PositionsInBounds, TypeOK
<1>6. LocalsInBounds'
  BY <1>a DEF LocalsInBounds
<1> QED
  BY <1>1, <1>2, <1>3, <1>4, <1>5, <1>6 DEF IInv

(* A commit ends with the committed position at the read position.         *)
LEMMA CommitReturnInv == ASSUME IInv, CommitReturn PROVE IInv'
<1> USE BoundsAssumption DEF IInv, CommitReturn, NULL, Chunk, chunkVars, localVars
<1>1. TypeOK'
  BY DEF TypeOK
<1>2. ChunksAreTheStream'
  BY DEF TypeOK, ChunksAreTheStream
<1>3. ChainIsLinked'
  BY DEF TypeOK, ChainIsLinked, oldest, PositionsInBounds
<1>4. FreedIsCommittedPrefix'
  BY DEF TypeOK, FreedIsCommittedPrefix, oldest
<1>5. PositionsInBounds'
  BY DEF TypeOK, PositionsInBounds
<1>6. LocalsInBounds'
  BY DEF TypeOK, LocalsInBounds, ReadPlace, Place
<1> QED
  BY <1>1, <1>2, <1>3, <1>4, <1>5, <1>6 DEF IInv

(* free_read_queue starts at the oldest chunk.                              *)
LEMMA DestroyCallInv == ASSUME IInv, DestroyCall PROVE IInv'
<1> USE BoundsAssumption DEF IInv, DestroyCall, NULL, Chunk, chunkVars, localVars
<1>1. TypeOK'
  BY DEF TypeOK
<1>2. ChunksAreTheStream'
  BY DEF TypeOK, ChunksAreTheStream
<1>3. ChainIsLinked'
  BY DEF TypeOK, ChainIsLinked, oldest
<1>4. FreedIsCommittedPrefix'
  BY DEF TypeOK, FreedIsCommittedPrefix, oldest
<1>5. PositionsInBounds'
  BY DEF TypeOK, PositionsInBounds
<1>6. LocalsInBounds'
  BY DEF TypeOK, LocalsInBounds, ReadPlace, Place
<1> QED
  BY <1>1, <1>2, <1>3, <1>4, <1>5, <1>6 DEF IInv

(* free_read_queue frees the chunks in order.                               *)
LEMMA DestroyFreeInv == ASSUME IInv, DestroyFree PROVE IInv'
<1> USE BoundsAssumption DEF IInv, NULL, Chunk, chunkVars, localVars
<1>a. /\ pc = "destroy" /\ cursor # NULL /\ freed' = freed \cup {cursor} /\ cursor' = next[cursor]
      /\ UNCHANGED <<chunkVars, first, last, offset, tmpFirst, tmpOffset, pc, asked,
                     want, copied, newOffset, written>>
  BY DEF DestroyFree
<1>b. cursor \in 1..allocd /\ first # NULL /\ oldest = first /\ first <= cursor /\ allocd \in Nat
  BY <1>a DEF TypeOK, LocalsInBounds, oldest
<1>c. next[cursor] = IF cursor = allocd THEN NULL ELSE cursor + 1
  BY <1>b, ChunkFacts
<1>1. TypeOK'
  <2>1. cursor' \in 0..allocd /\ cursor \in Chunk
    BY <1>a, <1>b, <1>c DEF TypeOK
  <2> QED
    BY <2>1, <1>a DEF TypeOK
<1>2. ChunksAreTheStream'
  BY <1>a DEF ChunksAreTheStream
<1>3. ChainIsLinked'
  BY <1>a DEF ChainIsLinked, oldest
<1>4. FreedIsCommittedPrefix'
  <2>1. freed = 1..(cursor - 1)
    BY <1>a DEF FreedIsCommittedPrefix
  <2>2. freed' = 1..cursor
    BY <2>1, <1>a, <1>b
  <2> QED
    BY <2>2, <1>a, <1>b, <1>c DEF FreedIsCommittedPrefix
<1>5. PositionsInBounds'
  BY <1>a DEF PositionsInBounds
<1>6. LocalsInBounds'
  <2>1. first' # NULL /\ (cursor' # NULL => first' <= cursor')
    BY <1>a, <1>b, <1>c DEF TypeOK
  <2> QED
    BY <2>1, <1>a DEF LocalsInBounds
<1> QED
  BY <1>1, <1>2, <1>3, <1>4, <1>5, <1>6 DEF IInv

(* free_read_queue ends at the end of the chain.                            *)
LEMMA DestroyReturnInv == ASSUME IInv, DestroyReturn PROVE IInv'
<1> USE BoundsAssumption DEF IInv, DestroyReturn, NULL, Chunk, chunkVars, localVars
<1>1. TypeOK'
  BY DEF TypeOK
<1>2. ChunksAreTheStream'
  BY DEF TypeOK, ChunksAreTheStream
<1>3. ChainIsLinked'
  BY DEF TypeOK, ChainIsLinked, oldest
<1>4. FreedIsCommittedPrefix'
  BY DEF TypeOK, FreedIsCommittedPrefix, oldest
<1>5. PositionsInBounds'
  BY DEF TypeOK, PositionsInBounds
<1>6. LocalsInBounds'
  BY DEF TypeOK, LocalsInBounds, ReadPlace, Place
<1> QED
  BY <1>1, <1>2, <1>3, <1>4, <1>5, <1>6 DEF IInv

-----------------------------------------------------------------------------
(* Every step of the read queue keeps the invariant.                       *)
LEMMA NextInv == IInv /\ [Next]_vars => IInv'
<1> SUFFICES ASSUME IInv, [Next]_vars PROVE IInv'
  OBVIOUS
<1>1. CASE UNCHANGED vars
  BY <1>1 DEF vars, chunkVars, localVars, IInv, TypeOK, ChunksAreTheStream,
     ChainIsLinked, oldest, FreedIsCommittedPrefix, PositionsInBounds,
     LocalsInBounds, ReadPlace, Place
<1>2. ASSUME NEW n \in 0..MaxLen, Write(n) \/ ReadCall(n) \/ AdvanceCall(n)
      PROVE  IInv'
  BY <1>2, WriteInv, ReadCallInv, AdvanceCallInv
<1>3. CASE Peek \/ Rollback \/ CommitCall \/ DestroyCall
  BY <1>3, PeekInv, RollbackInv, CommitCallInv, DestroyCallInv
<1>4. CASE Step
  BY <1>4, ReadCopyInv, ReadReturnInv, AdvanceSkipInv, AdvanceReturnInv,
     CommitFreeInv, CommitReturnInv, DestroyFreeInv, DestroyReturnInv DEF Step
<1> QED
  BY <1>1, <1>2, <1>3, <1>4 DEF Next, Call

(* The inductive invariant holds in every reachable state: the chunks are  *)
(* a linked, contiguous piece of the stream, what is freed is what was     *)
(* committed, and every pointer and offset is in bounds.                   *)
THEOREM Invariant == Spec => []IInv
<1> QED
  BY InitInv, NextInv, PTL DEF Spec

(* Every variable of the read queue keeps its type.                        *)
THEOREM TypeCorrect == Spec => []TypeOK
<1>1. IInv => TypeOK
  BY DEF IInv
<1> QED
  BY <1>1, Invariant, PTL

(* read_queue.c never follows or frees a pointer to a chunk it has freed.  *)
THEOREM Safe == Spec => []NoUseAfterFree
<1>1. IInv => NoUseAfterFree
  <2> SUFFICES ASSUME IInv PROVE NoUseAfterFree
    OBVIOUS
  <2> USE BoundsAssumption DEF IInv, NULL, Chunk
  <2>0. 0 \notin freed /\ allocd \in Nat
    BY DEF TypeOK
  <2>1. pc \in {"advance", "destroy"} => cursor \notin freed
    <3>1. CASE pc = "destroy"
      BY <2>0, <3>1 DEF TypeOK, FreedIsCommittedPrefix
    <3>2. CASE pc = "advance"
      BY <2>0, <3>2 DEF TypeOK, FreedIsCommittedPrefix, oldest, LocalsInBounds,
         PositionsInBounds
    <3> QED
      BY <3>1, <3>2
  <2>2. pc \notin {"destroy", "gone"} => {first, tmpFirst} \cap freed = {}
    BY <2>0 DEF TypeOK, FreedIsCommittedPrefix, oldest, PositionsInBounds
  <2>3. pc = "idle" => last \notin freed
    BY <2>0 DEF TypeOK, FreedIsCommittedPrefix, oldest, ChainIsLinked
  <2> QED
    BY <2>1, <2>2, <2>3 DEF NoUseAfterFree
<1> QED
  BY <1>1, Invariant, PTL

(* Once free_read_queue returns, every chunk that was ever allocated has   *)
(* been freed.                                                             *)
THEOREM LeakFree == Spec => []NoLeak
<1>1. IInv => NoLeak
  BY BoundsAssumption
     DEF IInv, TypeOK, FreedIsCommittedPrefix, LocalsInBounds, NoLeak, NULL
<1> QED
  BY <1>1, Invariant, PTL
-----------------------------------------------------------------------------
(* The refinement.  Each lemma below shows which step of the byte stream,  *)
(* if any, a step of the read queue is.                                    *)

(* The read position never lies beyond the end of the stream, and only     *)
(* there when no chunk is left to read.                                    *)
LEMMA PlaceFacts ==
  ASSUME IInv
  PROVE  /\ written \in Nat /\ ReadPlace \in Nat /\ ReadPlace <= written
         /\ ReadPlace < written <=> tmpFirst # NULL
         /\ pc # "read" => StreamPosition = ReadPlace
<1> USE BoundsAssumption DEF IInv, NULL, Chunk
<1>1. written \in Nat /\ tmpOffset \in Nat /\ tmpFirst \in 0..allocd
  BY DEF TypeOK
<1>2. tmpFirst = NULL => ReadPlace = written
  BY <1>1 DEF ReadPlace, Place
<1>3. ASSUME tmpFirst # NULL PROVE ReadPlace \in Nat /\ ReadPlace < written
  <2>1. tmpFirst \in 1..allocd
    BY <1>1, <1>3 DEF TypeOK
  <2>2. /\ start[tmpFirst] \in Nat /\ size[tmpFirst] \in Nat
        /\ start[tmpFirst] + size[tmpFirst] <= written
    BY <2>1, ChunkFacts
  <2>3. tmpOffset < size[tmpFirst]
    BY <1>3 DEF PositionsInBounds
  <2> QED
    BY <1>1, <1>3, <2>2, <2>3 DEF ReadPlace, Place
<1>4. ReadPlace \in Nat
  BY <1>1, <1>2, <1>3
<1>5. pc # "read" => StreamPosition = ReadPlace
  BY <1>4 DEF LocalsInBounds, StreamPosition
<1> QED
  BY <1>1, <1>2, <1>3, <1>4, <1>5

(* A write appends to the stream and moves neither position.               *)
LEMMA WriteStream ==
  ASSUME NEW n \in 0..MaxLen, IInv, IInv', Write(n)
  PROVE  Stream!Write(n)
<1> USE BoundsAssumption DEF NULL, Chunk, chunkVars, localVars
<1> DEFINE c == allocd + 1
<1>a. /\ pc = "idle" /\ pc' = "idle" /\ copied' = copied /\ ret' = ret /\ written' = written + n
      /\ tmpOffset' = tmpOffset /\ offset' = offset
      /\ tmpFirst' = IF tmpFirst = NULL THEN c ELSE tmpFirst
      /\ first' = IF last = NULL THEN c ELSE first
      /\ start' = [start EXCEPT ![c] = written] /\ c \in Chunk /\ allocd \in Nat
  BY DEF Write, IInv, TypeOK
<1>b. start'[c] = written /\ \A d \in 1..allocd : start'[d] = start[d]
  BY <1>a DEF IInv, TypeOK
<1>c. first = NULL <=> last = NULL
  <2>1. first \in 0..allocd /\ allocd \in Nat /\ pc = "idle"
    BY <1>a DEF IInv, TypeOK
  <2> QED
    BY <2>1 DEF IInv, ChainIsLinked
<1>d. ReadPlace' = ReadPlace
  <2>1. CASE tmpFirst = NULL
    BY <2>1, <1>a, <1>b DEF ReadPlace, Place, IInv, TypeOK, PositionsInBounds
  <2>2. CASE tmpFirst # NULL
    BY <2>2, <1>a, <1>b DEF ReadPlace, Place, IInv, TypeOK
  <2> QED
    BY <2>1, <2>2
<1>e. CommittedPlace' = CommittedPlace
  <2>1. CASE first = NULL
    BY <2>1, <1>a, <1>b, <1>c DEF CommittedPlace, Place, IInv, TypeOK, PositionsInBounds
  <2>2. CASE first # NULL
    BY <2>2, <1>a, <1>b, <1>c DEF CommittedPlace, Place, IInv, TypeOK
  <2> QED
    BY <2>1, <2>2
<1>1. StreamPosition' = StreamPosition /\ StreamCommitted' = StreamCommitted
  BY <1>a, <1>d, <1>e DEF StreamPosition, StreamCommitted
<1> QED
  BY <1>a, <1>1 DEF Stream!Write

(* A peek sees the byte at the read position, and none at the end.         *)
LEMMA PeekStream == ASSUME IInv, Peek PROVE Stream!Peek
<1> USE BoundsAssumption DEF NULL, Chunk, chunkVars, localVars
<1>a. /\ pc = "idle" /\ written' = written
      /\ UNCHANGED <<first, offset, tmpFirst, tmpOffset, start, pc, copied>>
      /\ ret' = [op |-> "peek", asked |-> 0, ok |-> tmpFirst # NULL,
                 bytes |-> IF tmpFirst = NULL THEN <<>>
                           ELSE <<start[tmpFirst] + tmpOffset + 1>>]
  BY DEF Peek
<1>b. StreamPosition' = StreamPosition /\ StreamCommitted' = StreamCommitted
  BY <1>a DEF StreamPosition, StreamCommitted, ReadPlace, CommittedPlace, Place
<1>c. /\ StreamPosition = ReadPlace /\ ReadPlace \in Nat
      /\ StreamPosition < written <=> tmpFirst # NULL
  BY <1>a, PlaceFacts
<1>1. CASE tmpFirst = NULL
  <2>1. <<>> = [i \in 1..0 |-> StreamPosition + i]
    OBVIOUS
  <2> QED
    BY <2>1, <1>1, <1>a, <1>b, <1>c DEF Stream!Peek, Stream!Bytes
<1>2. CASE tmpFirst # NULL
  <2>1. ReadPlace = start[tmpFirst] + tmpOffset
    BY <1>2 DEF ReadPlace, Place
  <2>2. <<ReadPlace + 1>> = [i \in 1..1 |-> ReadPlace + i]
    OBVIOUS
  <2> QED
    BY <2>1, <2>2, <1>2, <1>a, <1>b, <1>c DEF Stream!Peek, Stream!Bytes
<1> QED
  BY <1>1, <1>2

(* A rollback goes back to the committed position.                         *)
LEMMA RollbackStream == ASSUME IInv, Rollback PROVE Stream!Rollback
<1>a. /\ pc = "idle" /\ tmpFirst' = first /\ tmpOffset' = offset
      /\ UNCHANGED <<first, offset, start, pc, copied, written, ret>>
  BY DEF Rollback, chunkVars, localVars
<1>b. copied = <<>>
  BY <1>a DEF IInv, LocalsInBounds
<1>c. CommittedPlace \in Nat
  BY BoundsAssumption DEF IInv, TypeOK, CommittedPlace, Place, NULL, Chunk
<1>1. StreamCommitted' = StreamCommitted
  BY <1>a DEF StreamCommitted, CommittedPlace, Place
<1>2. StreamPosition' = StreamCommitted
  <2>1. ReadPlace' = CommittedPlace
    BY <1>a DEF ReadPlace, CommittedPlace, Place
  <2> QED
    BY <2>1, <1>a, <1>b, <1>c DEF StreamPosition, StreamCommitted
<1> QED
  BY <1>a, <1>1, <1>2 DEF Stream!Rollback

(* A read delivers, when it returns, what it was asked for or, at the end  *)
(* of the stream, what there is.                                           *)
LEMMA ReadReturnStream ==
  ASSUME IInv, IInv', ReadReturn
  PROVE  \E n \in 0..MaxLen : Stream!Read(n)
<1> USE BoundsAssumption
<1>a. /\ pc = "read" /\ pc' = "idle" /\ copied' = <<>>
      /\ want = 0 \/ tmpFirst = NULL
      /\ ret' = [op |-> "read", asked |-> asked, ok |-> copied # <<>>, bytes |-> copied]
      /\ UNCHANGED <<first, offset, tmpFirst, tmpOffset, start, written>>
  BY DEF ReadReturn, chunkVars, localVars
<1>b. /\ asked \in 0..MaxLen /\ want \in Nat /\ Len(copied) \in Nat
      /\ copied \in Seq(Nat)
  BY DEF IInv, TypeOK
<1>c. /\ want = asked - Len(copied) /\ Len(copied) <= ReadPlace
      /\ copied = [i \in 1..Len(copied) |-> ReadPlace - Len(copied) + i]
  BY <1>a DEF IInv, LocalsInBounds
<1>d. /\ written \in Nat /\ ReadPlace \in Nat /\ ReadPlace <= written
      /\ ReadPlace < written <=> tmpFirst # NULL
  BY PlaceFacts
<1>e. ReadPlace' = ReadPlace /\ CommittedPlace' = CommittedPlace
  BY <1>a DEF ReadPlace, CommittedPlace, Place
<1>f. StreamCommitted' = StreamCommitted
  BY <1>a, <1>e DEF StreamCommitted
<1>g. StreamPosition \in Nat /\ StreamPosition + Len(copied) = ReadPlace
  BY <1>b, <1>c, <1>d DEF StreamPosition
<1>h. StreamPosition' = ReadPlace
  BY <1>a, <1>d, <1>e DEF StreamPosition
<1>i. Len(copied) = IF asked < written - StreamPosition THEN asked ELSE written - StreamPosition
  <2>1. CASE want = 0
    BY <2>1, <1>b, <1>c, <1>d, <1>g
  <2>2. CASE tmpFirst = NULL
    <3>1. ReadPlace = written
      BY <2>2, <1>d
    <3>2. written - StreamPosition = Len(copied)
      BY <3>1, <1>b, <1>g
    <3>3. Len(copied) <= asked
      BY <1>b, <1>c
    <3> QED
      BY <3>2, <3>3, <1>b
  <2> QED
    BY <2>1, <2>2, <1>a
<1>j. copied # <<>> <=> Len(copied) > 0
  BY <1>b
<1>k. copied = [i \in 1..Len(copied) |-> StreamPosition + i]
  BY <1>c DEF StreamPosition
<1>1. Stream!Read(asked)
  BY <1>a, <1>f, <1>g, <1>h, <1>i, <1>j, <1>k DEF Stream!Read, Stream!Bytes
<1> QED
  BY <1>1, <1>b

(* An advance moves the read position, when it returns, by all of n or not *)
(* at all.                                                                 *)
LEMMA AdvanceReturnStream ==
  ASSUME IInv, IInv', AdvanceReturn
  PROVE  \E n \in 0..MaxLen : Stream!Advance(n)
<1> USE BoundsAssumption DEF NULL
<1> DEFINE ok == ~(cursor = NULL /\ newOffset > 0)
<1>a. /\ pc = "advance" /\ pc' = "idle" /\ copied' = copied
      /\ cursor = NULL \/ newOffset < size[cursor]
      /\ tmpFirst' = IF ok THEN cursor ELSE tmpFirst
      /\ tmpOffset' = IF ok THEN newOffset ELSE tmpOffset
      /\ ret' = [op |-> "advance", asked |-> asked, ok |-> ok, bytes |-> <<>>]
      /\ UNCHANGED <<first, offset, start, written>>
  BY DEF AdvanceReturn, chunkVars, localVars, IInv, TypeOK, Chunk
<1>b. /\ asked \in 0..MaxLen /\ newOffset \in Nat /\ cursor \in 0..allocd
  BY DEF IInv, TypeOK
<1>c. copied = <<>> /\ (IF cursor = NULL THEN written ELSE start[cursor]) + newOffset
                        = ReadPlace + asked
  BY <1>a DEF IInv, LocalsInBounds
<1>d. /\ written \in Nat /\ ReadPlace \in Nat /\ StreamPosition = ReadPlace
  BY <1>a, PlaceFacts
<1>e. ok <=> ReadPlace + asked <= written
  <2>1. CASE cursor = NULL
    BY <2>1, <1>b, <1>c, <1>d
  <2>2. CASE cursor # NULL
    <3>1. cursor \in 1..allocd
      BY <2>2, <1>b
    <3>2. start[cursor] \in Nat /\ size[cursor] \in Nat /\ start[cursor] + size[cursor] <= written
      BY <3>1, ChunkFacts
    <3> QED
      BY <3>1, <3>2, <2>2, <1>a, <1>b, <1>c, <1>d
  <2> QED
    BY <2>1, <2>2
<1>f. CommittedPlace' = CommittedPlace
  BY <1>a DEF CommittedPlace, Place
<1>g. ReadPlace' = IF ok THEN ReadPlace + asked ELSE ReadPlace
  BY <1>a, <1>b, <1>c, <1>d DEF ReadPlace, Place
<1> HIDE DEF ok
<1>h. StreamPosition' = ReadPlace'
  BY <1>a, <1>b, <1>c, <1>d, <1>g DEF StreamPosition
<1>i. StreamCommitted' = StreamCommitted
  BY <1>a, <1>f DEF StreamCommitted
<1>1. Stream!Advance(asked)
  BY <1>a, <1>d, <1>e, <1>g, <1>h, <1>i DEF Stream!Advance, ok
<1> QED
  BY <1>1, <1>b

(* A commit takes effect when it is called.                                *)
LEMMA CommitCallStream == ASSUME IInv, CommitCall PROVE Stream!Commit
<1>a. /\ pc = "idle" /\ pc' = "commit"
      /\ UNCHANGED <<first, offset, tmpFirst, tmpOffset, start, copied, written, ret>>
  BY DEF CommitCall, chunkVars, localVars
<1>b. ReadPlace' = ReadPlace
  BY <1>a DEF ReadPlace, Place
<1>c. StreamPosition = ReadPlace
  BY <1>a, PlaceFacts
<1>1. StreamPosition' = StreamPosition /\ StreamCommitted' = StreamPosition
  BY <1>a, <1>b, <1>c DEF StreamPosition, StreamCommitted
<1> QED
  BY <1>a, <1>1 DEF Stream!Commit

(* Calling read or advance, the iterations of advance and all of           *)
(* free_read_queue change nothing of the stream: neither position moves.   *)
LEMMA QuietStream ==
  ASSUME IInv, UNCHANGED <<first, offset, tmpFirst, tmpOffset, start, copied, written, ret>>,
         pc # "commit", pc' # "commit"
  PROVE  UNCHANGED Stream!streamVars
<1>1. ReadPlace' = ReadPlace /\ CommittedPlace' = CommittedPlace
  BY DEF ReadPlace, CommittedPlace, Place
<1>2. StreamPosition' = StreamPosition /\ StreamCommitted' = StreamCommitted
  BY <1>1 DEF StreamPosition, StreamCommitted
<1> QED
  BY <1>2 DEF Stream!streamVars

(* While read copies, the stream sees nothing: the bytes copied are not    *)
(* delivered before it returns.                                            *)
LEMMA ReadCopyStream == ASSUME IInv, IInv', ReadCopy PROVE UNCHANGED Stream!streamVars
<1> USE BoundsAssumption
<1>a. /\ pc = "read" /\ pc' = "read" /\ asked' = asked
      /\ UNCHANGED <<first, offset, start, written, ret>>
  BY DEF ReadCopy, chunkVars, IInv, TypeOK
<1>1. CommittedPlace' = CommittedPlace
  BY <1>a DEF CommittedPlace, Place
<1>2. StreamPosition' = StreamPosition
  BY ReadCopyFacts DEF ReadCopyEffect, StreamPosition
<1>3. StreamCommitted' = StreamCommitted
  BY <1>a, <1>1 DEF StreamCommitted
<1> QED
  BY <1>a, <1>2, <1>3 DEF Stream!streamVars

(* Freeing a chunk in commit changes nothing of the stream.                *)
LEMMA CommitFreeStream == ASSUME IInv, CommitFree PROVE UNCHANGED Stream!streamVars
<1>a. /\ pc = "commit" /\ pc' = "commit"
      /\ UNCHANGED <<tmpFirst, tmpOffset, start, copied, written, ret>>
  BY DEF CommitFree, chunkVars, localVars
<1>1. ReadPlace' = ReadPlace
  BY <1>a DEF ReadPlace, Place
<1>2. StreamPosition' = StreamPosition /\ StreamCommitted' = StreamCommitted
  BY <1>a, <1>1 DEF StreamPosition, StreamCommitted
<1> QED
  BY <1>a, <1>2 DEF Stream!streamVars

(* When commit returns, the committed position is where the read position  *)
(* was when it was called.                                                 *)
LEMMA CommitReturnStream == ASSUME IInv, CommitReturn PROVE UNCHANGED Stream!streamVars
<1>a. /\ pc = "commit" /\ pc' = "idle" /\ first = tmpFirst /\ offset' = tmpOffset
      /\ UNCHANGED <<first, tmpFirst, tmpOffset, start, copied, written, ret>>
  BY DEF CommitReturn, chunkVars, localVars
<1>1. ReadPlace' = ReadPlace /\ CommittedPlace' = ReadPlace
  BY <1>a DEF ReadPlace, CommittedPlace, Place
<1>2. StreamPosition' = StreamPosition /\ StreamCommitted' = StreamCommitted
  BY <1>a, <1>1 DEF StreamPosition, StreamCommitted
<1> QED
  BY <1>a, <1>2 DEF Stream!streamVars

(* Every step of the read queue is a step of the byte stream or changes    *)
(* nothing of it.                                                          *)
LEMMA NextStream ==
  ASSUME IInv, IInv', [Next]_vars
  PROVE  [Stream!Next]_(Stream!streamVars)
<1>1. CASE UNCHANGED vars
  BY <1>1 DEF vars, chunkVars, localVars, Stream!streamVars, StreamPosition,
     StreamCommitted, ReadPlace, CommittedPlace, Place
<1>2. ASSUME NEW n \in 0..MaxLen, Write(n)
      PROVE  Stream!Next
  BY <1>2, WriteStream DEF Stream!Next
<1>3. ASSUME NEW n \in 0..MaxLen, ReadCall(n) \/ AdvanceCall(n)
      PROVE  UNCHANGED Stream!streamVars
  BY <1>3, QuietStream DEF ReadCall, AdvanceCall, chunkVars, IInv, LocalsInBounds
<1>4. CASE Peek
  BY <1>4, PeekStream DEF Stream!Next
<1>5. CASE Rollback
  BY <1>5, RollbackStream DEF Stream!Next
<1>6. CASE CommitCall
  BY <1>6, CommitCallStream DEF Stream!Next
<1>7. CASE ReadReturn
  BY <1>7, ReadReturnStream DEF Stream!Next
<1>8. CASE AdvanceReturn
  BY <1>8, AdvanceReturnStream DEF Stream!Next
<1>9. CASE AdvanceSkip \/ DestroyCall \/ DestroyFree \/ DestroyReturn
  BY <1>9, QuietStream
     DEF AdvanceSkip, DestroyCall, DestroyFree, DestroyReturn, chunkVars, localVars
<1>10. CASE ReadCopy \/ CommitFree \/ CommitReturn
  BY <1>10, ReadCopyStream, CommitFreeStream, CommitReturnStream
<1> QED
  BY <1>1, <1>2, <1>3, <1>4, <1>5, <1>6, <1>7, <1>8, <1>9, <1>10
     DEF Next, Call, Step

(* read_queue.c implements the byte stream.                                *)
THEOREM Refinement == Spec => Implements
<1>1. Init => Stream!Init
  <2> SUFFICES ASSUME Init PROVE Stream!Init
    OBVIOUS
  <2>1. written = 0 /\ ret = Stream!Nothing
    BY DEF Init, Nothing, Stream!Nothing
  <2>2. ReadPlace = 0 /\ CommittedPlace = 0
    BY DEF Init, ReadPlace, CommittedPlace, Place, NULL
  <2>3. StreamPosition = 0 /\ StreamCommitted = 0
    <3>1. copied = <<>> /\ pc = "idle"
      BY DEF Init
    <3>2. Len(copied) = 0
      BY <3>1
    <3>3. StreamPosition = 0 - 0
      BY <2>2, <3>2 DEF StreamPosition
    <3>4. StreamCommitted = 0
      BY <2>2, <3>1 DEF StreamCommitted
    <3> QED
      BY <3>3, <3>4
  <2> QED
    BY <2>1, <2>3 DEF Stream!Init
<1>2. IInv /\ IInv' /\ [Next]_vars => [Stream!Next]_(Stream!streamVars)
  BY NextStream
<1> QED
  BY <1>1, <1>2, Invariant, PTL DEF Spec, Implements, Stream!Spec
=============================================================================
