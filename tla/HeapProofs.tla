----------------------------- MODULE HeapProofs -----------------------------
(***************************************************************************)
(* Proofs about Heap for every heap position, heap size, header size and   *)
(* set of requests.  The inductive invariant IInv adds to the properties   *)
(* of the runs what the two loops maintain: where the cursor may be and    *)
(* that the part of the list behind coalesce's cursor is fully merged.     *)
(***************************************************************************)
EXTENDS Heap, TLAPS

(* The neighbours a and its successor are both free.                       *)
FreePair(h, a) == h[a].free /\ h[a].next # NULL /\ h[h[a].next].free

LoopInv ==
  /\ pc = "idle" => curr = NULL
  /\ pc = "search" => asked \in Requests
  /\ pc = "coalesce" => curr \in DOMAIN hdr
  /\ \A a \in DOMAIN hdr : FreePair(hdr, a) => pc = "coalesce" /\ curr <= a

IInv == TypeOK /\ Tiling /\ LiveBlocksHeld /\ UsedBlocksOwned /\ LoopInv

(* Rounding up to a multiple of four never shortens a request.             *)
LEMMA AlignLemma == \A n \in Nat : Align(n) \in Nat /\ Align(n) >= n
BY SMT DEF Align

(* What dropping keys of a function leaves.                                *)
LEMMA WithoutLemma ==
  ASSUME NEW f, NEW S
  PROVE  /\ DOMAIN Without(f, S) = DOMAIN f \ S
         /\ \A x \in DOMAIN f \ S : Without(f, S)[x] = f[x]
BY DEF Without

(* kmalloc_init leaves one free block.                                     *)
LEMMA InitIInv == Init => IInv
BY HeapAssumption DEF Init, IInv, TypeOK, Header, Tiling, LiveBlocksHeld,
   UsedBlocksOwned, LoopInv, FreePair, EndOf, NULL

(* kmalloc starts its search at the first block.                           *)
LEMMA KmallocStep ==
  ASSUME IInv, NEW n \in Requests, kmalloc(n)
  PROVE  IInv'
BY HeapAssumption DEF kmalloc, IInv, TypeOK, Header, Tiling, LiveBlocksHeld,
   UsedBlocksOwned, LoopInv, FreePair, EndOf, NULL

(* The search passes a block that is too small or used.                    *)
LEMMA SearchNextStep ==
  ASSUME IInv, SearchNext
  PROVE  IInv'
BY HeapAssumption DEF SearchNext, IInv, TypeOK, Header, Tiling,
   LiveBlocksHeld, UsedBlocksOwned, LoopInv, FreePair, EndOf, NULL

(* The search reaches the end of the list.                                 *)
LEMMA SearchFailStep ==
  ASSUME IInv, SearchFail
  PROVE  IInv'
BY HeapAssumption DEF SearchFail, IInv, TypeOK, Header, Tiling,
   LiveBlocksHeld, UsedBlocksOwned, LoopInv, FreePair, EndOf, NULL

(* The types of one header, spelt out for the provers.                     *)
LEMMA HeaderTypes ==
  ASSUME TypeOK
  PROVE  \A a \in DOMAIN hdr :
           /\ a \in Nat /\ HEAP_START <= a /\ a + HDR <= HEAP_END
           /\ hdr[a].size \in Nat /\ hdr[a].next \in Nat
           /\ hdr[a].free \in BOOLEAN
           /\ EndOf(hdr, a) \in Nat /\ a < EndOf(hdr, a)
BY HeapAssumption DEF TypeOK, Header, EndOf

(* kfree moves on to the next block.                                       *)
LEMMA CoalesceNextStep ==
  ASSUME IInv, CoalesceNext
  PROVE  IInv'
<1>1. TypeOK' /\ Tiling' /\ LiveBlocksHeld' /\ UsedBlocksOwned'
  BY HeapAssumption DEF CoalesceNext, IInv, TypeOK, Header, Tiling,
     LiveBlocksHeld, UsedBlocksOwned, LoopInv, EndOf, NULL
<1>2. LoopInv'
  <2>1. /\ curr' = hdr[curr].next /\ curr' = EndOf(hdr, curr) /\ curr' \in DOMAIN hdr
        /\ pc' = "coalesce" /\ pc = "coalesce" /\ hdr' = hdr
        /\ curr \in DOMAIN hdr /\ ~FreePair(hdr, curr)
    BY HeapAssumption DEF CoalesceNext, IInv, Tiling, LoopInv, NULL, FreePair
  <2>2. ASSUME NEW a \in DOMAIN hdr, FreePair(hdr, a)
        PROVE  curr' <= a
    <3>1. curr <= a /\ curr # a
      BY <2>1, <2>2 DEF IInv, LoopInv
    <3>2. curr < a
      BY <3>1, <2>1, <2>2, HeaderTypes DEF IInv
    <3>3. EndOf(hdr, curr) <= a
      BY <3>2, <2>1, <2>2 DEF IInv, Tiling
    <3> QED BY <3>3, <2>1
  <2> QED BY <2>1, <2>2 DEF LoopInv, FreePair
<1> QED BY <1>1, <1>2 DEF IInv

(* kfree has reached the end of the list.                                  *)
LEMMA CoalesceDoneStep ==
  ASSUME IInv, CoalesceDone
  PROVE  IInv'
<1>1. TypeOK' /\ Tiling' /\ LiveBlocksHeld' /\ UsedBlocksOwned'
  BY HeapAssumption DEF CoalesceDone, IInv, TypeOK, Header, Tiling,
     LiveBlocksHeld, UsedBlocksOwned, LoopInv, EndOf, NULL
<1>2. LoopInv'
  <2>1. /\ curr \in DOMAIN hdr /\ hdr[curr].next = NULL /\ hdr' = hdr
        /\ pc = "coalesce" /\ pc' = "idle" /\ curr' = NULL
    BY HeapAssumption DEF CoalesceDone, IInv, TypeOK, LoopInv, NULL
  <2>2. EndOf(hdr, curr) = HEAP_END
    BY <2>1, HeaderTypes, HeapAssumption DEF IInv, Tiling, NULL
  <2>3. \A a \in DOMAIN hdr : ~FreePair(hdr, a)
    <3>1. \A a \in DOMAIN hdr : a <= curr
      BY <2>1, <2>2, HeaderTypes, HeapAssumption DEF IInv, Tiling
    <3>2. ~FreePair(hdr, curr)
      BY <2>1 DEF FreePair
    <3> QED BY <2>1, <3>1, <3>2, HeaderTypes DEF IInv, LoopInv
  <2> QED BY <2>1, <2>3 DEF LoopInv, FreePair
<1> QED BY <1>1, <1>2 DEF IInv

(* kfree marks the block free.                                             *)
LEMMA KfreeStep ==
  ASSUME IInv, NEW p \in DOMAIN live, kfree(p)
  PROVE  IInv'
<1> USE HeapAssumption
<1>1. /\ p - HDR \in DOMAIN hdr
      /\ DOMAIN hdr' = DOMAIN hdr
      /\ \A a \in DOMAIN hdr :
           /\ hdr'[a].size = hdr[a].size
           /\ hdr'[a].next = hdr[a].next
           /\ a # p - HDR => hdr'[a].free = hdr[a].free
      /\ hdr' \in [DOMAIN hdr -> Header]
  BY DEF kfree, IInv, TypeOK, Header, LiveBlocksHeld
<1>2. TypeOK'
  BY <1>1 DEF kfree, IInv, TypeOK, Without, Tiling
<1>3. Tiling'
  <2>1. \A a \in DOMAIN hdr : EndOf(hdr', a) = EndOf(hdr, a)
    BY <1>1 DEF EndOf
  <2> QED BY <1>1, <2>1 DEF IInv, Tiling
<1>4. LiveBlocksHeld'
  BY <1>1 DEF kfree, IInv, TypeOK, LiveBlocksHeld, Without
<1>5. UsedBlocksOwned'
  BY <1>1 DEF kfree, IInv, TypeOK, Header, UsedBlocksOwned, Without
<1>6. LoopInv'
  BY <1>1 DEF kfree, IInv, TypeOK, Tiling, LoopInv
<1> QED BY <1>2, <1>3, <1>4, <1>5, <1>6 DEF IInv

(* kfree joins a free block with its free neighbour.                       *)
LEMMA CoalesceMergeStep ==
  ASSUME IInv, CoalesceMerge
  PROVE  IInv'
<1> USE HeapAssumption
<1> DEFINE n == hdr[curr].next
<1>0. TypeOK /\ Tiling /\ pc = "coalesce" /\ curr \in DOMAIN hdr
  BY DEF IInv, CoalesceMerge, LoopInv
<1>1. /\ n \in DOMAIN hdr
      /\ n = EndOf(hdr, curr) /\ curr < n
      /\ hdr[curr].free /\ hdr[n].free
  BY <1>0, HeaderTypes DEF CoalesceMerge, Tiling, NULL
<1>2. /\ DOMAIN hdr' = DOMAIN hdr \ {n}
      /\ hdr'[curr] = [size |-> hdr[curr].size + HDR + hdr[n].size,
                       free |-> hdr[curr].free, next |-> hdr[n].next]
      /\ \A a \in DOMAIN hdr \ {n, curr} : hdr'[a] = hdr[a]
      /\ hdr' = [a \in DOMAIN hdr' |-> hdr'[a]]
  <2> DEFINE m == [size |-> hdr[curr].size + HDR + hdr[n].size,
                   free |-> hdr[curr].free, next |-> hdr[n].next]
             w == Without(hdr, {n})
  <2>1. hdr' = With(w, curr, m)
    BY DEF CoalesceMerge
  <2>2. DOMAIN w = DOMAIN hdr \ {n} /\ \A x \in DOMAIN w : w[x] = hdr[x]
    BY WithoutLemma
  <2>3. curr # n
    BY <1>0, <1>1, HeaderTypes
  <2> HIDE DEF m, w
  <2>4. hdr' = [x \in DOMAIN w \cup {curr} |-> IF x = curr THEN m ELSE w[x]]
    BY <2>1 DEF With
  <2>5. /\ DOMAIN hdr' = DOMAIN w \cup {curr}
        /\ hdr'[curr] = m
        /\ \A x \in DOMAIN w : x # curr => hdr'[x] = w[x]
    BY <2>4
  <2>6. hdr' = [a \in DOMAIN hdr' |-> hdr'[a]]
    BY <2>4
  <2> QED BY <2>2, <2>3, <2>5, <2>6, <1>0 DEF m
<1>3. /\ hdr'[curr] \in Header
      /\ hdr'[curr].size = hdr[curr].size + HDR + hdr[n].size
      /\ hdr'[curr].next = hdr[n].next
      /\ hdr'[curr].free
  BY <1>0, <1>1, <1>2, HeaderTypes DEF Header
<1>4. /\ EndOf(hdr', curr) = EndOf(hdr, n)
      /\ \A a \in DOMAIN hdr \ {n, curr} : EndOf(hdr', a) = EndOf(hdr, a)
  <2>1. EndOf(hdr', curr) = curr + HDR + (hdr[curr].size + HDR + hdr[n].size)
    BY <1>3, <1>0 DEF EndOf, CoalesceMerge
  <2>2. EndOf(hdr, n) = (curr + HDR + hdr[curr].size) + HDR + hdr[n].size
    BY <1>1 DEF EndOf
  <2>3. EndOf(hdr', curr) = EndOf(hdr, n)
    BY <2>1, <2>2, <1>0, <1>1, HeaderTypes
  <2> QED BY <1>2, <2>3 DEF EndOf
<1>5. hdr' \in [DOMAIN hdr' -> Header]
  <2>1. \A a \in DOMAIN hdr' : hdr'[a] \in Header
    BY <1>0, <1>2, <1>3 DEF TypeOK
  <2> QED BY <2>1, <1>2
<1>6. TypeOK'
  <2>1. /\ pc' = pc /\ curr' = curr /\ asked' = asked /\ live' = live
        /\ curr \in DOMAIN hdr'
    BY <1>0, <1>1, <1>2, HeaderTypes DEF CoalesceMerge
  <2>2. DOMAIN hdr' \subseteq HEAP_START .. (HEAP_END - HDR)
    BY <1>0, <1>2 DEF TypeOK
  <2> QED BY <2>1, <2>2, <1>0, <1>5 DEF TypeOK
<1>7. Tiling'
  <2>1. HEAP_START # n
    BY <1>0, <1>1, HeaderTypes
  <2>2. ASSUME NEW a \in DOMAIN hdr'
        PROVE  \/ hdr'[a].next \in DOMAIN hdr' /\ hdr'[a].next = EndOf(hdr', a)
               \/ hdr'[a].next = NULL /\ EndOf(hdr', a) = HEAP_END
    <3>1. CASE a = curr
      <4>1. hdr[n].next # n
        BY <1>0, <1>1, HeaderTypes DEF Tiling, NULL
      <4> QED BY <3>1, <4>1, <1>0, <1>1, <1>2, <1>3, <1>4 DEF Tiling
    <3>2. CASE a # curr
      <4>1. a \in DOMAIN hdr /\ hdr'[a] = hdr[a] /\ EndOf(hdr', a) = EndOf(hdr, a) /\ a # n
        BY <3>2, <1>2, <1>4
      <4>2. EndOf(hdr, a) # n
        BY <4>1, <3>2, <1>0, <1>1, HeaderTypes DEF Tiling
      <4> QED BY <4>1, <4>2, <1>0, <1>1, <1>2 DEF Tiling
    <3> QED BY <3>1, <3>2
  <2>3. ASSUME NEW a \in DOMAIN hdr', NEW b \in DOMAIN hdr', a < b
        PROVE  EndOf(hdr', a) <= b
    <3>1. a \in DOMAIN hdr /\ b \in DOMAIN hdr /\ b # n
      BY <1>2
    <3>2. CASE a = curr
      BY <3>1, <3>2, <2>3, <1>0, <1>1, <1>4, HeaderTypes DEF Tiling
    <3>3. CASE a # curr
      BY <3>1, <3>3, <2>3, <1>0, <1>2, <1>4 DEF Tiling
    <3> QED BY <3>2, <3>3
  <2> QED BY <1>0, <1>2, <2>1, <2>2, <2>3 DEF Tiling
<1>8. LiveBlocksHeld'
  BY <1>1, <1>2 DEF CoalesceMerge, IInv, TypeOK, LiveBlocksHeld
<1>9. UsedBlocksOwned'
  BY <1>1, <1>2, <1>3 DEF CoalesceMerge, IInv, UsedBlocksOwned
<1>10. LoopInv'
  <2>1. /\ pc' = pc /\ curr' = curr /\ asked' = asked
        /\ curr \in DOMAIN hdr'
    BY <1>0, <1>1, <1>2, HeaderTypes DEF CoalesceMerge
  <2>2. ASSUME NEW a \in DOMAIN hdr', FreePair(hdr', a)
        PROVE  curr <= a
    <3>1. SUFFICES ASSUME a < curr PROVE FALSE
      BY <1>0, <1>2, HeaderTypes
    <3>2. a \in DOMAIN hdr /\ hdr'[a] = hdr[a] /\ a # n /\ ~FreePair(hdr, a)
      BY <3>1, <1>0, <1>1, <1>2, HeaderTypes DEF IInv, LoopInv
    <3>3. hdr[a].free /\ hdr[a].next # NULL /\ hdr'[hdr[a].next].free
      BY <2>2, <3>2 DEF FreePair
    <3>4. hdr[a].next \in DOMAIN hdr /\ hdr[a].next = EndOf(hdr, a) /\ EndOf(hdr, a) <= curr
      BY <3>1, <3>2, <3>3, <1>0 DEF Tiling
    <3>5. hdr[a].next # n
      BY <3>4, <1>0, <1>1, HeaderTypes
    <3> QED BY <3>2, <3>3, <3>4, <3>5, <1>1, <1>2 DEF FreePair
  <2>3. \A a \in DOMAIN hdr' : FreePair(hdr', a) => pc' = "coalesce" /\ curr' <= a
    BY <2>1, <2>2, <1>0
  <2>4. (\A a \in DOMAIN hdr : FreePair(hdr, a) => pc = "coalesce" /\ curr <= a)'
    BY <2>3 DEF FreePair
  <2> QED BY <2>1, <2>4, <1>0 DEF LoopInv
<1> QED BY <1>6, <1>7, <1>8, <1>9, <1>10 DEF IInv

(* kmalloc takes the block at the cursor.  Whether or not the block is cut  *)
(* in two, the header map afterwards is described by the same facts.       *)
LEMMA SearchFitStep ==
  ASSUME IInv, SearchFit
  PROVE  IInv'
<1> USE HeapAssumption
<1> DEFINE size == Align(asked)
           new  == curr + HDR + size
           rest == [size |-> hdr[curr].size - size - HDR,
                    free |-> TRUE, next |-> hdr[curr].next]
<1>0. /\ TypeOK /\ Tiling /\ LiveBlocksHeld /\ UsedBlocksOwned
      /\ pc = "search" /\ curr \in DOMAIN hdr
      /\ asked \in Requests /\ asked \in Nat \ {0}
      /\ hdr[curr].free /\ hdr[curr].size >= size
      /\ \A a \in DOMAIN hdr : ~FreePair(hdr, a)
  BY DEF IInv, SearchFit, Fits, LoopInv, TypeOK
<1>1. size \in Nat /\ asked <= size /\ new \in Nat
  BY <1>0, AlignLemma, HeaderTypes
<1>2. /\ pc' = "idle" /\ curr' = NULL /\ asked' = 0
      /\ live' = [p \in DOMAIN live \cup {curr + HDR} |->
                    IF p = curr + HDR THEN asked ELSE live[p]]
  BY DEF SearchFit, With
<1>3. /\ DOMAIN live' \subseteq Nat
      /\ live' \in [DOMAIN live' -> Nat \ {0}]
  BY <1>0, <1>2, HeaderTypes DEF TypeOK
<1>4. CASE hdr[curr].size >= size + HDR + 4
  <2> HIDE DEF size, rest
  <2>1. hdr' = With(With(hdr, new, rest), curr,
                    [size |-> size, free |-> FALSE, next |-> new])
    BY <1>4 DEF SearchFit, split_block, size, rest
  <2>2. /\ curr < new /\ new + HDR <= EndOf(hdr, curr)
        /\ new \notin DOMAIN hdr
    BY <1>0, <1>1, <1>4, HeaderTypes DEF Tiling, EndOf
  <2> HIDE DEF new
  <2>3. /\ DOMAIN hdr' = DOMAIN hdr \cup {new}
        /\ hdr'[new] = rest
        /\ hdr'[curr] = [size |-> size, free |-> FALSE, next |-> new]
        /\ \A a \in DOMAIN hdr \ {curr} : hdr'[a] = hdr[a]
        /\ hdr' = [a \in DOMAIN hdr' |-> hdr'[a]]
    <3> DEFINE w == With(hdr, new, rest)
               m == [size |-> size, free |-> FALSE, next |-> new]
    <3>1. w = [x \in DOMAIN hdr \cup {new} |-> IF x = new THEN rest ELSE hdr[x]]
      BY DEF With
    <3> HIDE DEF w, m
    <3>2. hdr' = [x \in DOMAIN w \cup {curr} |-> IF x = curr THEN m ELSE w[x]]
      BY <2>1 DEF With, w, m
    <3>3. /\ DOMAIN w = DOMAIN hdr \cup {new} /\ w[new] = rest
          /\ \A x \in DOMAIN hdr : w[x] = hdr[x]
      BY <3>1, <2>2
    <3>4. new # curr
      BY <2>2, <1>0
    <3> QED BY <3>2, <3>3, <3>4, <1>0 DEF m
  <2>4. /\ rest \in Header /\ rest.free /\ rest.next = hdr[curr].next
        /\ rest.size = hdr[curr].size - size - HDR
    BY <1>0, <1>1, <1>4, HeaderTypes DEF Header, rest
  <2>5. /\ hdr'[curr] \in Header /\ ~hdr'[curr].free
        /\ hdr'[curr].next = new /\ hdr'[curr].size = size
    BY <2>3, <1>1 DEF Header
  <2>6. /\ EndOf(hdr', curr) = new
        /\ EndOf(hdr', new) = EndOf(hdr, curr)
        /\ \A a \in DOMAIN hdr \ {curr} : EndOf(hdr', a) = EndOf(hdr, a)
    <3>1. EndOf(hdr', curr) = new
      BY <2>5 DEF EndOf, new
    <3>2. EndOf(hdr', new) = curr + HDR + size + HDR + (hdr[curr].size - size - HDR)
      BY <2>3, <2>4 DEF EndOf, new
    <3>3. EndOf(hdr', new) = EndOf(hdr, curr)
      BY <3>2, <1>0, <1>1, HeaderTypes DEF EndOf
    <3> QED BY <3>1, <3>3, <2>3 DEF EndOf
  <2>7. TypeOK'
    <3>1. \A a \in DOMAIN hdr' : hdr'[a] \in Header
      BY <2>3, <2>4, <2>5, <1>0 DEF TypeOK
    <3>2. hdr' \in [DOMAIN hdr' -> Header]
      BY <3>1, <2>3
    <3>3. EndOf(hdr, curr) <= HEAP_END
      BY <1>0, HeaderTypes DEF Tiling, NULL
    <3>4. DOMAIN hdr' \subseteq HEAP_START .. (HEAP_END - HDR)
      BY <1>0, <1>1, <2>2, <2>3, <3>3, HeaderTypes DEF TypeOK
    <3> QED BY <3>2, <3>4, <1>2, <1>3 DEF TypeOK
  <2>8. Tiling'
    <3>1. ASSUME NEW a \in DOMAIN hdr'
          PROVE  \/ hdr'[a].next \in DOMAIN hdr' /\ hdr'[a].next = EndOf(hdr', a)
                 \/ hdr'[a].next = NULL /\ EndOf(hdr', a) = HEAP_END
      <4>1. CASE a = curr
        BY <4>1, <2>3, <2>5, <2>6
      <4>2. CASE a = new
        BY <4>2, <2>3, <2>4, <2>6, <1>0 DEF Tiling
      <4>3. CASE a \in DOMAIN hdr \ {curr}
        BY <4>3, <2>3, <2>6, <1>0 DEF Tiling
      <4> QED BY <4>1, <4>2, <4>3, <2>3
    <3>2. ASSUME NEW a \in DOMAIN hdr', NEW b \in DOMAIN hdr', a < b
          PROVE  EndOf(hdr', a) <= b
      <4>1. CASE a = curr /\ b \in DOMAIN hdr
        BY <4>1, <3>2, <2>2, <2>6, <1>0, <1>1, HeaderTypes DEF Tiling
      <4>2. CASE a = curr /\ b = new
        BY <4>2, <2>6, <1>1
      <4>3. CASE a = new /\ b \in DOMAIN hdr
        BY <4>3, <3>2, <2>2, <2>6, <1>0, <1>1, HeaderTypes DEF Tiling
      <4>4. CASE a \in DOMAIN hdr \ {curr} /\ b \in DOMAIN hdr
        BY <4>4, <3>2, <2>6, <1>0 DEF Tiling
      <4>5. CASE a \in DOMAIN hdr \ {curr} /\ b = new
        <5>1. a < curr
          BY <4>5, <3>2, <2>2, <1>0, <1>1, HeaderTypes DEF Tiling
        <5>2. EndOf(hdr', a) <= curr
          BY <4>5, <5>1, <2>6, <1>0 DEF Tiling
        <5> QED BY <4>5, <5>2, <2>2, <2>6, <1>0, <1>1, HeaderTypes
      <4>6. CASE a = new /\ b = new
        BY <4>6, <3>2, <1>1
      <4> QED BY <4>1, <4>2, <4>3, <4>4, <4>5, <4>6, <2>3
    <3> QED BY <3>1, <3>2, <2>3, <1>0 DEF Tiling
  <2>9. LiveBlocksHeld'
    <3>1. ASSUME NEW p \in DOMAIN live'
          PROVE  /\ p - HDR \in DOMAIN hdr'
                 /\ ~hdr'[p - HDR].free
                 /\ hdr'[p - HDR].size >= live'[p]
      <4>1. CASE p = curr + HDR
        <5>1. p - HDR = curr /\ live'[p] = asked
          BY <4>1, <1>0, <1>2, HeaderTypes
        <5> QED BY <5>1, <1>0, <1>1, <2>3, <2>5
      <4>2. CASE p # curr + HDR
        <5>1. p \in DOMAIN live /\ live'[p] = live[p] /\ p \in Nat
          BY <4>2, <1>0, <1>2 DEF TypeOK
        <5>2. p - HDR \in DOMAIN hdr /\ p - HDR # curr
          BY <5>1, <4>2, <1>0, HeaderTypes DEF LiveBlocksHeld
        <5> QED BY <5>1, <5>2, <2>3, <1>0 DEF LiveBlocksHeld
      <4> QED BY <4>1, <4>2
    <3> QED BY <3>1 DEF LiveBlocksHeld
  <2>10. UsedBlocksOwned'
    BY <1>0, <1>2, <2>3, <2>4 DEF UsedBlocksOwned
  <2>11. LoopInv'
    <3>1. ASSUME NEW a \in DOMAIN hdr', FreePair(hdr', a)
          PROVE  FALSE
      <4>1. a # curr
        BY <3>1, <2>5 DEF FreePair
      <4>2. CASE a = new
        BY <4>2, <3>1, <2>2, <2>3, <2>4, <1>0, HeaderTypes DEF FreePair, Tiling
      <4>3. CASE a \in DOMAIN hdr \ {curr}
        BY <4>3, <3>1, <2>2, <2>3, <2>5, <1>0 DEF FreePair, Tiling
      <4> QED BY <4>1, <4>2, <4>3, <2>3
    <3>2. (\A a \in DOMAIN hdr : FreePair(hdr, a) => pc = "coalesce" /\ curr <= a)'
      BY <3>1 DEF FreePair
    <3> QED BY <3>2, <1>2 DEF LoopInv
  <2> QED BY <2>7, <2>8, <2>9, <2>10, <2>11 DEF IInv
<1>5. CASE ~(hdr[curr].size >= size + HDR + 4)
  <2> HIDE DEF size
  <2>1. hdr' = [x \in DOMAIN hdr \cup {curr} |->
                  IF x = curr THEN [size |-> hdr[curr].size, free |-> FALSE,
                                    next |-> hdr[curr].next] ELSE hdr[x]]
    BY <1>5 DEF SearchFit, split_block, size, With
  <2>2. /\ DOMAIN hdr' = DOMAIN hdr
        /\ hdr'[curr] = [size |-> hdr[curr].size, free |-> FALSE,
                         next |-> hdr[curr].next]
        /\ \A a \in DOMAIN hdr \ {curr} : hdr'[a] = hdr[a]
        /\ hdr' = [a \in DOMAIN hdr' |-> hdr'[a]]
    BY <2>1, <1>0
  <2>3. /\ hdr'[curr] \in Header /\ ~hdr'[curr].free
        /\ hdr'[curr].next = hdr[curr].next /\ hdr'[curr].size = hdr[curr].size
    BY <2>2, <1>0, HeaderTypes DEF Header
  <2>4. \A a \in DOMAIN hdr : EndOf(hdr', a) = EndOf(hdr, a) /\ hdr'[a].next = hdr[a].next
    BY <2>2, <2>3 DEF EndOf
  <2>5. TypeOK'
    <3>1. \A a \in DOMAIN hdr' : hdr'[a] \in Header
      BY <2>2, <2>3, <1>0 DEF TypeOK
    <3>2. hdr' \in [DOMAIN hdr' -> Header]
      BY <3>1, <2>2
    <3> QED BY <3>2, <1>0, <1>2, <1>3, <2>2 DEF TypeOK
  <2>6. Tiling'
    BY <2>2, <2>4, <1>0 DEF Tiling
  <2>7. LiveBlocksHeld'
    BY <1>0, <1>1, <1>2, <2>2, <2>3, HeaderTypes DEF LiveBlocksHeld, TypeOK
  <2>8. UsedBlocksOwned'
    BY <1>0, <1>2, <2>2 DEF UsedBlocksOwned
  <2>9. LoopInv'
    <3>1. ASSUME NEW a \in DOMAIN hdr', FreePair(hdr', a)
          PROVE  FALSE
      BY <3>1, <2>2, <2>3, <1>0 DEF FreePair, Tiling
    <3>2. (\A a \in DOMAIN hdr : FreePair(hdr, a) => pc = "coalesce" /\ curr <= a)'
      BY <3>1 DEF FreePair
    <3> QED BY <3>2, <1>2 DEF LoopInv
  <2> QED BY <2>5, <2>6, <2>7, <2>8, <2>9 DEF IInv
<1> QED BY <1>4, <1>5

-----------------------------------------------------------------------------
(* IInv holds in every reachable state, between any two iterations of the  *)
(* loops of kmalloc and coalesce.                                          *)
THEOREM HeapInvariant == Spec => []IInv
<1>1. IInv /\ [Next]_vars => IInv'
  <2> SUFFICES ASSUME IInv, [Next]_vars PROVE IInv'
    OBVIOUS
  <2>1. CASE \E n \in Requests : kmalloc(n)
    BY <2>1, KmallocStep
  <2>2. CASE \E p \in DOMAIN live : kfree(p)
    BY <2>2, KfreeStep
  <2>3. CASE Loop
    BY <2>3, SearchNextStep, SearchFitStep, SearchFailStep, CoalesceMergeStep,
       CoalesceNextStep, CoalesceDoneStep DEF Loop
  <2>4. CASE UNCHANGED vars
    BY <2>4 DEF vars, IInv, TypeOK, Tiling, LiveBlocksHeld, UsedBlocksOwned,
       LoopInv, FreePair, EndOf
  <2> QED BY <2>1, <2>2, <2>3, <2>4 DEF Next
<1> QED BY InitIInv, <1>1, PTL DEF Spec

(* The types of Heap's variables, with every header inside the heap.       *)
THEOREM TypeCorrect == Spec => []TypeOK
<1>1. IInv => TypeOK
  BY DEF IInv
<1> QED BY <1>1, HeapInvariant, PTL

(* kmalloc, split_block, kfree and coalesce keep the heap exactly tiled.   *)
THEOREM TilingHolds == Spec => []Tiling
<1>1. IInv => Tiling
  BY DEF IInv
<1> QED BY <1>1, HeapInvariant, PTL

(* No caller's memory overlaps another caller's, a header, or the end of   *)
(* the heap, whatever the sequence of kmalloc and kfree calls.             *)
THEOREM MemorySafety == Spec => []MemorySafe
<1>1. IInv => MemorySafe
  <2> SUFFICES ASSUME IInv, NEW p \in DOMAIN live
      PROVE  /\ HEAP_START + HDR <= p /\ p + live[p] <= HEAP_END
             /\ \A a \in DOMAIN hdr : a + HDR <= p \/ p + live[p] <= a
             /\ \A q \in DOMAIN live : q = p \/ q + live[q] <= p \/ p + live[p] <= q
    BY DEF MemorySafe
  <2> USE HeapAssumption
  <2>1. \A q \in DOMAIN live :
          /\ q \in Nat /\ live[q] \in Nat
          /\ q - HDR \in DOMAIN hdr
          /\ q + live[q] <= EndOf(hdr, q - HDR)
    BY HeaderTypes DEF IInv, TypeOK, LiveBlocksHeld, EndOf
  <2>2. \A a \in DOMAIN hdr : EndOf(hdr, a) <= HEAP_END
    BY HeaderTypes DEF IInv, Tiling
  <2>3. HEAP_START + HDR <= p /\ p + live[p] <= HEAP_END
    BY <2>1, <2>2, HeaderTypes DEF IInv
  <2>4. \A a, b \in DOMAIN hdr : a = b \/ EndOf(hdr, a) <= b \/ EndOf(hdr, b) <= a
    BY HeaderTypes DEF IInv, Tiling
  <2>5. ASSUME NEW a \in DOMAIN hdr
        PROVE  a + HDR <= p \/ p + live[p] <= a
    <3>1. a + HDR <= EndOf(hdr, a)
      BY HeaderTypes DEF IInv, EndOf
    <3> QED BY <3>1, <2>1, <2>4, HeaderTypes DEF IInv
  <2>6. ASSUME NEW q \in DOMAIN live
        PROVE  q = p \/ q + live[q] <= p \/ p + live[p] <= q
    <3>1. \/ q - HDR = p - HDR
          \/ EndOf(hdr, q - HDR) <= p - HDR
          \/ EndOf(hdr, p - HDR) <= q - HDR
      BY <2>1, <2>4
    <3> QED BY <3>1, <2>1, HeaderTypes DEF IInv
  <2> QED BY <2>3, <2>5, <2>6
<1> QED BY <1>1, HeapInvariant, PTL

(* One pass of coalesce after each kfree leaves no two free neighbours.    *)
THEOREM CoalesceIsComplete == Spec => []FullyCoalesced
<1>1. IInv => FullyCoalesced
  BY DEF IInv, LoopInv, FullyCoalesced, FreePair
<1> QED BY <1>1, HeapInvariant, PTL

(* When every pointer has been given back the heap is one block again.     *)
THEOREM FragmentationHeals == Spec => []NoFragmentationLeft
<1>1. IInv => NoFragmentationLeft
  <2> SUFFICES ASSUME IInv, pc = "idle", DOMAIN live = {}
      PROVE  DOMAIN hdr = {HEAP_START}
    BY DEF NoFragmentationLeft
  <2> USE HeapAssumption
  <2>1. \A a \in DOMAIN hdr : hdr[a].free
    BY DEF IInv, UsedBlocksOwned
  <2>2. HEAP_START \in DOMAIN hdr /\ hdr[HEAP_START].next = NULL
    BY <2>1 DEF IInv, LoopInv, FreePair, Tiling
  <2>3. EndOf(hdr, HEAP_START) = HEAP_END
    BY <2>2, HeaderTypes DEF IInv, Tiling, NULL
  <2>4. \A a \in DOMAIN hdr : a = HEAP_START
    BY <2>2, <2>3, HeaderTypes DEF IInv, Tiling
  <2> QED BY <2>2, <2>4
<1> QED BY <1>1, HeapInvariant, PTL
=============================================================================
