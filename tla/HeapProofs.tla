----------------------------- MODULE HeapProofs -----------------------------
(***************************************************************************)
(* Proofs about Heap.tla for every heap and every set of requests that      *)
(* HeapAssumption allows: its invariants, and that it implements            *)
(* Allocator.tla.                                                          *)
(***************************************************************************)
EXTENDS Heap, TLAPS

\* Registers that the routine being executed does not use.
DeadRegisters ==
    /\ pc = "idle" => blk = Null /\ todo = 0
    /\ pc = "mem_loop" => blk = Null /\ todo = 0 /\ len >= 4
    /\ pc # "mem_loop" => prev = Null

\* The inductive invariant.  Tiling and FreeListSorted need each other when a
\* block is linked or absorbed, and both need to know where the walks are.
Inv ==
    /\ TypeOK
    /\ Tiling
    /\ FreeListSorted
    /\ Defragmented
    /\ FirstFitWalk
    /\ ReleaseWalk
    /\ DeadRegisters

-----------------------------------------------------------------------------
\* The heap starts as one free block in the list.
LEMMA InitInv == Init => Inv
<1> SUFFICES ASSUME Init PROVE Inv
  OBVIOUS
<1>1. /\ Blocks = {HeapStart, FirstBlock} /\ Free = {HeapStart, FirstBlock}
      /\ size[HeapStart] = 0 /\ size[FirstBlock] = HeapSize - 4
      /\ next[HeapStart] = FirstBlock /\ next[FirstBlock] = Null
  BY HeapAssumption DEF HeapAssumption, Init, Blocks, Free, FirstBlock
<1>2. TypeOK
  BY <1>1, HeapAssumption
  DEF HeapAssumption, TypeOK, Init, Null, HeapEnd, FirstBlock, Blocks, Free
<1>3. Tiling
  BY <1>1, HeapAssumption DEF HeapAssumption, Tiling, Covered, HeapEnd, FirstBlock, End
<1>4. FreeListSorted
  BY <1>1, HeapAssumption DEF HeapAssumption, FreeListSorted, FirstBlock, Null
<1>5. Defragmented
  BY <1>1, HeapAssumption
  DEF HeapAssumption, Defragmented, Unexamined, FirstBlock, Null, End
<1>6. FirstFitWalk /\ ReleaseWalk /\ DeadRegisters
  BY DEF Init, FirstFitWalk, ReleaseWalk, DeadRegisters
<1> QED
  BY <1>2, <1>3, <1>4, <1>5, <1>6 DEF Inv

\* Starting a call changes no block.
LEMMA CallInv == Inv /\ Call => Inv'
<1> SUFFICES ASSUME Inv, Call PROVE Inv'
  OBVIOUS
<1> USE HeapAssumption DEF HeapAssumption, Null, Blocks, Free, End
<1>1. size' = size /\ next' = next /\ pc = "idle" /\ blk = Null /\ todo = 0
  BY DEF Call, MemAlloc, MemFree, Realloc, Inv, DeadRegisters
<1>2. \/ \E n \in Requests : MemAlloc(n)
      \/ \E b \in Live, n \in Requests \union {0} :
           /\ pc' = "mem_loop2" /\ blk' = b /\ cur' = HeapStart /\ ret' = Null
           /\ todo' = n /\ prev' = prev /\ len' = len
  BY <1>1 DEF Call, MemFree, Realloc
<1>3. HeapStart \in Free /\ HeapStart \in Nat
  BY DEF Inv, TypeOK
<1>4. \A b \in Live : b \in Blocks \ Free /\ HeapStart < b
  BY <1>3 DEF Live, Inv, TypeOK, Tiling, FirstBlock
<1>5. (Tiling /\ FreeListSorted)'
  BY <1>1 DEF Inv, Tiling, Covered, FreeListSorted, HeapEnd, FirstBlock
<1>6. CASE \E n \in Requests : MemAlloc(n)
  <2> PICK n \in Requests : MemAlloc(n)
    BY <1>6
  <2>1. TypeOK'
    BY <1>1, <1>3 DEF Inv, TypeOK, MemAlloc, HeapEnd
  <2>2. (Defragmented /\ ReleaseWalk /\ DeadRegisters)'
    BY <1>1 DEF Inv, Defragmented, Unexamined, ReleaseWalk, DeadRegisters, MemAlloc
  <2>3. \A b \in Free : ~ (b < HeapStart)
    BY DEF Inv, TypeOK, HeapEnd
  <2>4. FirstFitWalk'
    BY <1>1, <1>3, <2>3 DEF FirstFitWalk, MemAlloc
  <2> QED
    BY <1>5, <2>1, <2>2, <2>4 DEF Inv
<1>7. CASE \E b \in Live, n \in Requests \union {0} :
             /\ pc' = "mem_loop2" /\ blk' = b /\ cur' = HeapStart /\ ret' = Null
             /\ todo' = n /\ prev' = prev /\ len' = len
  <2> PICK b \in Live, n \in Requests \union {0} :
             /\ pc' = "mem_loop2" /\ blk' = b /\ cur' = HeapStart /\ ret' = Null
             /\ todo' = n /\ prev' = prev /\ len' = len
    BY <1>7
  <2>1. TypeOK'
    BY <1>1, <1>3, <1>4 DEF Inv, TypeOK, HeapEnd
  <2>2. (Defragmented /\ FirstFitWalk /\ DeadRegisters)'
    BY <1>1 DEF Inv, Defragmented, Unexamined, FirstFitWalk, DeadRegisters
  <2>3. ReleaseWalk'
    BY <1>1, <1>3, <1>4 DEF ReleaseWalk
  <2> QED
    BY <1>5, <2>1, <2>2, <2>3 DEF Inv
<1> QED
  BY <1>2, <1>6, <1>7

-----------------------------------------------------------------------------
\* Facts about the addresses of blocks that every step uses.
LEMMA BlockFacts ==
    ASSUME TypeOK, Tiling, FreeListSorted
    PROVE  /\ HeapStart \in Nat /\ HeapStart > 0 /\ HeapEnd \in Nat
           /\ \A b \in Blocks : /\ b \in Nat /\ b >= HeapStart /\ b < HeapEnd
                                /\ size[b] \in Nat /\ End(b) \in Nat
                                /\ End(b) >= b /\ End(b) <= HeapEnd
                                /\ b # Null
           /\ \A b \in Free : b \in Blocks /\ next[b] \in Free \union {Null}
<1> USE HeapAssumption DEF HeapAssumption, Null, HeapEnd
<1>1. \A b \in Blocks : b \in Nat /\ b >= HeapStart /\ b < HeapEnd /\ size[b] \in Nat
  BY DEF TypeOK
<1>2. \A b \in Blocks : End(b) <= HeapEnd
  BY <1>1 DEF Tiling, End
<1> QED
  BY <1>1, <1>2 DEF TypeOK, End

\* A free block is linked from one block only.
LEMMA OneLink ==
    ASSUME TypeOK, Tiling, FreeListSorted, NEW a \in Free, NEW b \in Free,
           next[a] = next[b], next[a] # Null
    PROVE  a = b
<1>1. \A c \in Free : c \in Nat /\ next[c] \in Nat
  BY BlockFacts DEF Null
<1>2. ~ (a < b) /\ ~ (b < a)
  BY <1>1 DEF FreeListSorted
<1> QED
  BY <1>1, <1>2

\* __MEM_ALLOC refuses at the end of the list: nothing changes.
LEMMA AllocFailInv == Inv /\ AllocFail => Inv'
<1> SUFFICES ASSUME Inv, AllocFail PROVE Inv'
  OBVIOUS
<1>1. /\ size' = size /\ next' = next /\ pc = "mem_loop" /\ pc' = "idle"
      /\ cur' = Null /\ prev' = Null /\ len' = 0 /\ blk' = Null /\ todo' = 0
      /\ ret' = Null
  BY DEF AllocFail, Exhausted, Dead
<1> USE HeapAssumption DEF HeapAssumption, Null, Blocks, Free, End
<1>2. TypeOK'
  BY <1>1 DEF Inv, TypeOK
<1>3. (Tiling /\ FreeListSorted)'
  BY <1>1 DEF Inv, Tiling, Covered, FreeListSorted
<1>4. (Defragmented /\ FirstFitWalk /\ ReleaseWalk /\ DeadRegisters)'
  BY <1>1 DEF Inv, Defragmented, Unexamined, FirstFitWalk, ReleaseWalk, DeadRegisters
<1> QED
  BY <1>2, <1>3, <1>4 DEF Inv

\* __MEM_ALLOC goes on to the next free block.
LEMMA AllocSkipInv == Inv /\ AllocSkip => Inv'
<1> SUFFICES ASSUME Inv, AllocSkip PROVE Inv'
  OBVIOUS
<1> USE HeapAssumption DEF HeapAssumption, Null
<1>1. /\ cur \in Free /\ cur # Null /\ pc = "mem_loop" /\ pc' = pc
      /\ size[cur] < len /\ cur' = next[cur] /\ prev' = cur
      /\ size' = size /\ next' = next
      /\ len' = len /\ blk' = blk /\ todo' = todo /\ ret' = ret
  BY DEF AllocSkip, Advance, Inv, TypeOK
<1>2. TypeOK'
  BY <1>1 DEF Inv, TypeOK, Blocks, Free
<1>3. (Tiling /\ FreeListSorted)'
  BY <1>1 DEF Inv, Tiling, Covered, FreeListSorted, Blocks, Free, End
<1>4. (Defragmented /\ ReleaseWalk /\ DeadRegisters)'
  BY <1>1 DEF Inv, Defragmented, Unexamined, ReleaseWalk, DeadRegisters, Blocks, Free, End
<1>5. ASSUME NEW b \in Free, next[cur] = Null \/ b < next[cur]
      PROVE  size[b] < len
  <2>1. b \in Nat /\ cur \in Nat
    BY <1>1, BlockFacts DEF Inv
  <2>2. next[cur] \in Nat
    BY <1>1, BlockFacts DEF Inv
  <2>3. ~ (cur < b)
    BY <1>1, <1>5, <2>1, <2>2 DEF Inv, FreeListSorted
  <2> QED
    BY <1>1, <2>1, <2>3 DEF Inv, FirstFitWalk
<1>6. FirstFitWalk'
  BY <1>1, <1>5 DEF FirstFitWalk, Free
<1> QED
  BY <1>2, <1>3, <1>4, <1>6 DEF Inv

\* __MEM_ALLOC unlinks a block that it takes whole.
LEMMA AllocWholeInv == Inv /\ AllocWhole => Inv'
<1> SUFFICES ASSUME Inv, AllocWhole PROVE Inv'
  OBVIOUS
<1> USE HeapAssumption DEF HeapAssumption, Null
<1>1. /\ cur \in Free /\ cur # Null /\ pc = "mem_loop" /\ pc' = "idle"
      /\ size[cur] >= len /\ len >= 4
      /\ size' = size
      /\ next' = [b \in Free \ {cur} |-> IF b = prev THEN next[cur] ELSE next[b]]
      /\ ret' = cur + 2
      /\ cur' = Null /\ prev' = Null /\ len' = 0 /\ blk' = Null /\ todo' = 0
  BY DEF AllocWhole, Unlink, Dead, Inv, TypeOK, DeadRegisters
<1>2. /\ HeapStart \in Nat /\ HeapStart > 0
      /\ \A b \in Free : /\ b \in Blocks /\ b \in Nat /\ b > 0 /\ b >= HeapStart
                         /\ size[b] \in Nat
                         /\ next[b] \in Free \union {0}
  BY BlockFacts DEF Inv
\* The header is too short to be taken, so there is a block before cur.
<1>3. cur # HeapStart /\ prev \in Free /\ next[prev] = cur /\ prev < cur
  BY <1>1, <1>2 DEF Inv, TypeOK, Tiling, FirstFitWalk, FreeListSorted
<1>4. \A b \in Free : next[b] = cur => b = prev
  BY <1>1, <1>3, OneLink DEF Inv
<1>5. Free' = Free \ {cur} /\ Blocks' = Blocks /\ HeapStart \in Free
  BY <1>1 DEF Free, Blocks, Inv, TypeOK
<1>6. \A b \in Free' : /\ b \in Free
                       /\ next'[b] = IF b = prev THEN next[cur] ELSE next[b]
  BY <1>1, <1>5 DEF Free
<1>7. next[cur] # Null => next[cur] > cur
  BY <1>1 DEF Inv, FreeListSorted
<1>8. TypeOK'
  <2>1. \A b \in Free' : next'[b] \in Free' \union {Null}
    BY <1>1, <1>2, <1>4, <1>5, <1>6, <1>7
  <2>2. next' \in [Free' -> Free' \union {Null}]
    BY <2>1, <1>1, <1>5 DEF Free
  <2> QED
    BY <1>1, <1>2, <1>3, <1>5, <2>2 DEF Inv, TypeOK, Blocks
<1>9. Tiling'
  BY <1>1 DEF Inv, Tiling, Covered, Blocks, End
<1>10. FreeListSorted'
  <2> SUFFICES ASSUME NEW b \in Free'
               PROVE  /\ next'[b] # Null => next'[b] > b
                      /\ \A c \in Free' : b < c => next'[b] # Null /\ next'[b] <= c
    BY DEF FreeListSorted
  <2>1. CASE b = prev
    <3>1. next'[b] # Null => next'[b] > b
      BY <2>1, <1>1, <1>2, <1>3, <1>6, <1>7
    <3>2. ASSUME NEW c \in Free', b < c PROVE next'[b] # Null /\ next'[b] <= c
      <4>1. c \in Free /\ c # cur /\ cur <= c
        BY <3>2, <2>1, <1>3, <1>5 DEF Inv, FreeListSorted
      <4>2. cur < c
        BY <4>1, <1>1, <1>2
      <4> QED
        BY <4>1, <4>2, <1>1, <1>6, <2>1 DEF Inv, FreeListSorted
    <3> QED
      BY <3>1, <3>2
  <2>2. CASE b # prev
    BY <2>2, <1>5, <1>6 DEF Inv, FreeListSorted
  <2> QED
    BY <2>1, <2>2
<1>11. Defragmented'
  <2> SUFFICES ASSUME NEW b \in Free' PROVE b + size[b] # next'[b]
    BY <1>1 DEF Defragmented, Unexamined, End
  <2>1. CASE b = prev
    <3>1. b + size[b] <= cur
      BY <2>1, <1>1, <1>2, <1>3 DEF Inv, Tiling, End
    <3> QED
      BY <3>1, <2>1, <1>1, <1>2, <1>6, <1>7
  <2>2. CASE b # prev
    BY <2>2, <1>1, <1>5, <1>6 DEF Inv, Defragmented, Unexamined, End
  <2> QED
    BY <2>1, <2>2
<1>12. (FirstFitWalk /\ ReleaseWalk /\ DeadRegisters)'
  BY <1>1 DEF FirstFitWalk, ReleaseWalk, DeadRegisters
<1> QED
  BY <1>8, <1>9, <1>10, <1>11, <1>12 DEF Inv

\* __MEM_ALLOC takes the end of a longer block, which stays in the list.
LEMMA AllocSplitInv == Inv /\ AllocSplit => Inv'
<1> SUFFICES ASSUME Inv, AllocSplit PROVE Inv'
  OBVIOUS
<1> USE HeapAssumption DEF HeapAssumption, Null
<1> DEFINE rest == size[cur] - len
           new  == cur + rest
<1>1. /\ cur \in Free /\ cur # Null /\ pc = "mem_loop" /\ pc' = "idle"
      /\ rest >= 4 /\ len \in Nat /\ len >= 4
      /\ size' = [b \in Blocks \union {new} |->
                         CASE b = new -> len
                           [] b = cur -> rest
                           [] OTHER   -> size[b]]
      /\ next' = next
      /\ ret' = new + 2
      /\ cur' = Null /\ prev' = Null /\ len' = 0 /\ blk' = Null /\ todo' = 0
  BY DEF AllocSplit, Splittable, Dead, Inv, TypeOK, DeadRegisters
<1>2. /\ HeapStart \in Nat /\ HeapStart > 0 /\ HeapEnd \in Nat
      /\ \A b \in Blocks : /\ b \in Nat /\ b > 0 /\ b >= HeapStart /\ b < HeapEnd
                           /\ size[b] \in Nat /\ b + size[b] <= HeapEnd
      /\ cur \in Blocks
  BY <1>1, BlockFacts DEF Inv, End
<1>3. cur # HeapStart
  BY <1>1, <1>2 DEF Inv, Tiling
\* The new block starts inside cur, where no block did.
<1>4. new \in Nat /\ cur < new /\ new + len = cur + size[cur] /\ rest \in Nat
  BY <1>1, <1>2
<1>5. new \notin Blocks
  BY <1>1, <1>2, <1>3, <1>4 DEF Inv, Tiling, End
<1>6. Free' = Free /\ Blocks' = Blocks \union {new}
  BY <1>1 DEF Free, Blocks
<1>7. size'[new] = len /\ size'[cur] = rest
  BY <1>1, <1>2, <1>4
<1>8. \A b \in Blocks : b # cur => size'[b] = size[b]
  BY <1>1, <1>2, <1>5
<1> HIDE DEF new, rest
<1>9. TypeOK'
  <2>1. \A b \in Blocks' : size'[b] \in Nat
    BY <1>1, <1>2, <1>4, <1>6, <1>7, <1>8
  <2>2. size' \in [Blocks' -> Nat]
    BY <2>1, <1>1, <1>6 DEF Blocks
  <2>3. new >= HeapStart /\ new < HeapEnd
    BY <1>1, <1>2, <1>4
  <2>4. Blocks' \subseteq HeapStart .. (HeapEnd - 1)
    BY <1>2, <1>4, <1>6, <2>3 DEF Inv, TypeOK
  <2>5. next' \in [Free' -> Free' \union {Null}]
    BY <1>1, <1>6 DEF Inv, TypeOK
  <2> QED
    BY <1>1, <1>4, <1>6, <2>2, <2>4, <2>5 DEF Inv, TypeOK
<1>10. Tiling'
  <2>1. size'[HeapStart] = 0
    BY <1>3, <1>8 DEF Inv, TypeOK, Tiling
  <2>2. ASSUME NEW b \in Blocks' \ {HeapStart}
        PROVE  /\ b >= FirstBlock
               /\ size'[b] >= 4
               /\ b + size'[b] = HeapEnd \/ b + size'[b] \in Blocks'
               /\ \A c \in Blocks' : b < c => b + size'[b] <= c
    <3>1. CASE b = new
      BY <3>1, <1>1, <1>2, <1>3, <1>4, <1>6, <1>7 DEF Inv, Tiling, End, FirstBlock
    <3>2. CASE b = cur
      <4>1. b + size'[b] = new
        BY <3>2, <1>2, <1>7 DEF new
      <4> QED
        BY <3>2, <4>1, <1>1, <1>2, <1>3, <1>4, <1>6, <1>7 DEF Inv, Tiling, End
    <3>3. CASE b \in Blocks /\ b # cur
      <4>1. size'[b] = size[b]
        BY <3>3, <1>8
      <4>2. b < new => b + size[b] <= new
        BY <3>3, <1>1, <1>2, <1>3, <1>4 DEF Inv, Tiling, End
      <4> QED
        BY <3>3, <4>1, <4>2, <1>6 DEF Inv, Tiling, End
    <3> QED
      BY <3>1, <3>2, <3>3, <1>6
  \* A byte of cur is now in what is left of it or in the new block.
  <2>3. ASSUME NEW a \in FirstBlock .. (HeapEnd - 1)
        PROVE  \E b \in Blocks' : b <= a /\ a < b + size'[b]
    <3>1. PICK b \in Blocks : b <= a /\ a < b + size[b]
      BY DEF Inv, Tiling, Covered, End
    <3>2. CASE b # cur
      BY <3>1, <3>2, <1>6, <1>8
    <3>3. CASE b = cur /\ a < new
      BY <3>1, <3>3, <1>2, <1>6, <1>7 DEF new
    <3>4. CASE b = cur /\ a >= new
      BY <3>1, <3>4, <1>4, <1>6, <1>7
    <3>5. a \in Nat /\ new \in Nat
      BY <1>2, <1>4 DEF FirstBlock
    <3> QED
      BY <3>2, <3>3, <3>4, <3>5
  <2> QED
    BY <2>1, <2>2, <2>3 DEF Tiling, Covered, End
<1>11. FreeListSorted'
  BY <1>1, <1>6 DEF Inv, FreeListSorted
<1>12. Defragmented'
  <2> SUFFICES ASSUME NEW b \in Free PROVE b + size'[b] # next[b]
    BY <1>1, <1>6 DEF Defragmented, Unexamined, End
  <2>0. b \in Blocks /\ next[b] \in Blocks \union {0}
    BY BlockFacts DEF Inv
  <2>1. CASE b = cur
    <3>1. b + size'[b] = new
      BY <2>1, <1>2, <1>7 DEF new
    <3> QED
      BY <3>1, <2>0, <1>2, <1>4, <1>5
  <2>2. CASE b # cur
    BY <2>0, <2>2, <1>1, <1>8 DEF Inv, Defragmented, Unexamined, End
  <2> QED
    BY <2>1, <2>2
<1>13. (FirstFitWalk /\ ReleaseWalk /\ DeadRegisters)'
  BY <1>1 DEF FirstFitWalk, ReleaseWalk, DeadRegisters
<1> QED
  BY <1>9, <1>10, <1>11, <1>12, <1>13 DEF Inv

-----------------------------------------------------------------------------
\* __MEM_FREE goes on to the next free block.
LEMMA FreeSkipInv == Inv /\ FreeSkip => Inv'
<1> SUFFICES ASSUME Inv, FreeSkip PROVE Inv'
  OBVIOUS
<1>1. /\ next[cur] # Null /\ next[cur] < blk /\ pc = "mem_loop2" /\ pc' = pc
      /\ cur' = next[cur]
      /\ size' = size /\ next' = next
      /\ prev' = prev /\ len' = len /\ blk' = blk /\ todo' = todo /\ ret' = ret
  BY DEF FreeSkip, NextBefore
<1>2. cur \in Free /\ cur' \in Free
  BY <1>1, BlockFacts DEF Inv, ReleaseWalk
<1>3. TypeOK'
  BY <1>1, <1>2 DEF Inv, TypeOK, Blocks, Free
<1>4. (Tiling /\ FreeListSorted)'
  BY <1>1 DEF Inv, Tiling, Covered, FreeListSorted, Blocks, Free, End
<1>5. (Defragmented /\ FirstFitWalk /\ DeadRegisters)'
  BY <1>1 DEF Inv, Defragmented, Unexamined, FirstFitWalk, DeadRegisters, Blocks, Free, End
<1>6. ReleaseWalk'
  BY <1>1, <1>2 DEF Inv, ReleaseWalk, Blocks, Free
<1> QED
  BY <1>3, <1>4, <1>5, <1>6 DEF Inv

\* __MEM_FREE links the block between its neighbours in the list.
LEMMA FreeLinkInv == Inv /\ FreeLink => Inv'
<1> SUFFICES ASSUME Inv, FreeLink PROVE Inv'
  OBVIOUS
<1> USE DEF Null
<1>1. /\ pc = "mem_loop2" /\ pc' = "join_block"
      /\ ~ (next[cur] # Null /\ next[cur] < blk)
      /\ next' = [b \in Free \union {blk} |->
                    CASE b = blk -> next[cur]
                      [] b = cur -> blk
                      [] OTHER   -> next[b]]
      /\ size' = size /\ cur' = cur /\ prev' = prev /\ len' = len /\ blk' = blk
      /\ todo' = todo /\ ret' = ret
  BY DEF FreeLink, NextBefore
<1>2. blk \in Blocks \ Free /\ cur \in Free /\ cur < blk
  BY <1>1 DEF Inv, ReleaseWalk
<1>3. /\ \A b \in Free : b \in Blocks /\ b \in Nat /\ next[b] \in Free \union {0}
      /\ blk \in Nat /\ blk > 0
  BY <1>2, BlockFacts DEF Inv
<1>4. Free' = Free \union {blk} /\ Blocks' = Blocks
  BY <1>1 DEF Free, Blocks
<1>5. /\ next'[blk] = next[cur] /\ next'[cur] = blk
      /\ \A b \in Free : b # cur => next'[b] = next[b]
  BY <1>1, <1>2
<1>6. next[cur] # Null => next[cur] > blk
  BY <1>1, <1>2, <1>3
<1>7. TypeOK'
  <2>1. next' \in [Free' -> Free' \union {Null}]
    <3>1. \A b \in Free' : next'[b] \in Free' \union {Null}
      BY <1>2, <1>3, <1>4, <1>5
    <3> QED
      BY <3>1, <1>1, <1>4 DEF Free
  <2> QED
    BY <2>1, <1>1, <1>2, <1>4 DEF Inv, TypeOK, Blocks
<1>8. Tiling'
  BY <1>1 DEF Inv, Tiling, Covered, Blocks, End
<1>9. FreeListSorted'
  <2> SUFFICES ASSUME NEW b \in Free'
               PROVE  /\ next'[b] # Null => next'[b] > b
                      /\ \A c \in Free' : b < c => next'[b] # Null /\ next'[b] <= c
    BY DEF FreeListSorted
  <2>1. CASE b = blk
    BY <2>1, <1>2, <1>3, <1>4, <1>5, <1>6 DEF Inv, FreeListSorted
  <2>2. CASE b = cur
    BY <2>2, <1>2, <1>3, <1>4, <1>5, <1>6 DEF Inv, FreeListSorted
  <2>3. CASE b # blk /\ b # cur
    <3>1. b \in Free /\ next'[b] = next[b]
      BY <2>3, <1>4, <1>5
    <3>2. ASSUME b < blk PROVE next[b] # Null /\ next[b] <= blk
      <4>1. ~ (cur < b)
        BY <3>1, <3>2, <1>2, <1>3, <1>6 DEF Inv, FreeListSorted
      <4> QED
        BY <4>1, <3>1, <2>3, <1>2, <1>3 DEF Inv, FreeListSorted
    <3> QED
      BY <3>1, <3>2, <1>4 DEF Inv, FreeListSorted
  <2> QED
    BY <2>1, <2>2, <2>3
<1>10. Defragmented'
  BY <1>1, <1>4, <1>5 DEF Inv, Defragmented, Unexamined, End
<1>11. ReleaseWalk'
  BY <1>1, <1>2, <1>4, <1>5 DEF ReleaseWalk
<1>12. (FirstFitWalk /\ DeadRegisters)'
  BY <1>1 DEF Inv, FirstFitWalk, DeadRegisters
<1> QED
  BY <1>7, <1>8, <1>9, <1>10, <1>11, <1>12 DEF Inv

\* What joining a free block with the next one does to the heap.
LEMMA AbsorbHeap ==
    ASSUME TypeOK, Tiling, FreeListSorted, NEW b \in Free,
           End(b) = next[b], Absorb(b)
    PROVE  /\ next[b] \in Free /\ b < next[b] /\ HeapStart < next[b]
           /\ Blocks' = Blocks \ {next[b]} /\ Free' = Free \ {next[b]}
           /\ size' \in [Blocks' -> Nat]
           /\ next' \in [Free' -> Free' \union {Null}]
           /\ Tiling' /\ FreeListSorted'
           /\ next'[b] = next[next[b]]
           /\ b + size'[b] = End(next[b])
           /\ \A c \in Free' \ {b} : size'[c] = size[c] /\ next'[c] = next[c]
<1> USE HeapAssumption DEF HeapAssumption, Null
<1> DEFINE gone == next[b]
<1>1. /\ size' = [c \in Blocks \ {gone} |->
                      IF c = b THEN size[b] + size[gone] ELSE size[c]]
      /\ next' = [c \in Free \ {gone} |->
                      IF c = b THEN next[gone] ELSE next[c]]
  BY DEF Absorb
<1>2. /\ HeapStart \in Nat /\ HeapStart > 0 /\ HeapEnd \in Nat
      /\ \A c \in Blocks : /\ c \in Nat /\ c > 0 /\ c >= HeapStart
                           /\ size[c] \in Nat
      /\ \A c \in Free : c \in Blocks /\ next[c] \in Free \union {0}
  BY BlockFacts
<1>3. gone = b + size[b] /\ gone \in Free /\ gone \in Blocks
  BY <1>2 DEF End
<1>4. b < gone /\ HeapStart < gone /\ b # HeapStart /\ b \in Blocks
  BY <1>2, <1>3 DEF Tiling, FreeListSorted
<1>5. Blocks' = Blocks \ {gone} /\ Free' = Free \ {gone}
  BY <1>1 DEF Blocks, Free
<1>6. /\ next'[b] = next[gone]
      /\ size'[b] = size[b] + size[gone]
      /\ \A c \in Blocks' : c # b => size'[c] = size[c]
      /\ \A c \in Free' : c # b => next'[c] = next[c]
  BY <1>1, <1>2, <1>3, <1>4, <1>5
<1>7. b + size'[b] = gone + size[gone] /\ size[gone] >= 4
  BY <1>2, <1>3, <1>4, <1>6 DEF Tiling
<1>8. size' \in [Blocks' -> Nat]
  <2>1. \A c \in Blocks' : size'[c] \in Nat
    BY <1>2, <1>3, <1>4, <1>5, <1>6
  <2> QED
    BY <2>1, <1>1, <1>5 DEF Blocks
<1>9. \A c \in Free : next[c] = gone => c = b
  BY <1>2, <1>3, OneLink
<1>10. next[gone] # Null => next[gone] > gone
  BY <1>3 DEF FreeListSorted
<1> HIDE DEF gone
<1>11. next' \in [Free' -> Free' \union {Null}]
  <2>1. \A c \in Free' : next'[c] \in Free' \union {Null}
    BY <1>2, <1>3, <1>5, <1>6, <1>9, <1>10
  <2> QED
    BY <2>1, <1>1, <1>5 DEF Free
<1>12. Tiling'
  <2>1. size'[HeapStart] = 0
    BY <1>2, <1>3, <1>4, <1>5, <1>6 DEF TypeOK, Tiling
  <2>2. ASSUME NEW c \in Blocks' \ {HeapStart}
        PROVE  /\ c >= FirstBlock
               /\ size'[c] >= 4
               /\ c + size'[c] = HeapEnd \/ c + size'[c] \in Blocks'
               /\ \A d \in Blocks' : c < d => c + size'[c] <= d
    <3>1. CASE c = b
      BY <3>1, <1>2, <1>3, <1>4, <1>5, <1>6, <1>7 DEF Tiling, End
    <3>2. CASE c # b
      <4>1. size'[c] = size[c] /\ c \in Blocks /\ c # gone
        BY <3>2, <1>5, <1>6
      <4>2. c + size[c] # gone
        BY <4>1, <3>2, <1>2, <1>3, <1>4 DEF Tiling, End
      <4> QED
        BY <4>1, <4>2, <1>5 DEF Tiling, End
    <3> QED
      BY <3>1, <3>2
  \* The bytes of the block absorbed are now in b.
  <2>3. ASSUME NEW a \in FirstBlock .. (HeapEnd - 1)
        PROVE  \E c \in Blocks' : c <= a /\ a < c + size'[c]
    <3>1. PICK c \in Blocks : c <= a /\ a < c + size[c]
      BY DEF Tiling, Covered, End
    <3>2. a \in Nat
      BY <1>2 DEF FirstBlock
    <3>3. CASE c = b \/ c = gone
      BY <3>1, <3>2, <3>3, <1>2, <1>3, <1>4, <1>5, <1>7
    <3>4. CASE c # b /\ c # gone
      BY <3>1, <3>4, <1>5, <1>6
    <3> QED
      BY <3>3, <3>4
  <2> QED
    BY <2>1, <2>2, <2>3 DEF Tiling, Covered, End
<1>13. FreeListSorted'
  <2> SUFFICES ASSUME NEW c \in Free'
               PROVE  /\ next'[c] # Null => next'[c] > c
                      /\ \A d \in Free' : c < d => next'[c] # Null /\ next'[c] <= d
    BY DEF FreeListSorted
  <2>1. CASE c = b
    <3>1. next'[c] # Null => next'[c] > c
      BY <2>1, <1>2, <1>3, <1>4, <1>6, <1>10
    <3>2. ASSUME NEW d \in Free', c < d PROVE next'[c] # Null /\ next'[c] <= d
      <4>1. d \in Free /\ d # gone /\ gone <= d
        BY <3>2, <2>1, <1>5 DEF gone, FreeListSorted
      <4> QED
        BY <4>1, <2>1, <1>2, <1>3, <1>6 DEF FreeListSorted
    <3> QED
      BY <3>1, <3>2
  <2>2. CASE c # b
    BY <2>2, <1>5, <1>6 DEF FreeListSorted
  <2> QED
    BY <2>1, <2>2
<1>14. \A c \in Free' \ {b} : size'[c] = size[c] /\ next'[c] = next[c]
  BY <1>2, <1>5, <1>6
<1>15. b + size'[b] = End(gone)
  BY <1>7 DEF End
<1> QED
  BY <1>3, <1>4, <1>5, <1>6, <1>8, <1>11, <1>12, <1>13, <1>14, <1>15 DEF gone

\* __MEM_FREE joins the block with the next one, if they touch.
LEMMA JoinBlockInv == Inv /\ JoinBlock => Inv'
<1> SUFFICES ASSUME Inv, JoinBlock PROVE Inv'
  OBVIOUS
<1> USE DEF Null
<1>1. /\ pc = "join_block" /\ pc' = "join_prev"
      /\ cur' = cur /\ prev' = prev /\ len' = len /\ blk' = blk
      /\ todo' = todo /\ ret' = ret
  BY DEF JoinBlock
<1>2. blk \in Free /\ cur \in Free /\ next[cur] = blk /\ cur < blk
  BY <1>1, BlockFacts DEF Inv, ReleaseWalk, FreeListSorted
<1>3. prev = Null
  BY <1>1 DEF Inv, DeadRegisters
<1>4. (FirstFitWalk /\ DeadRegisters)'
  BY <1>1, <1>3 DEF Inv, FirstFitWalk, DeadRegisters
<1>5. CASE End(blk) = next[blk]
  <2> DEFINE gone == next[blk]
  <2>0. Absorb(blk)
    BY <1>5 DEF JoinBlock, JoinTest
  <2>1. /\ gone \in Free /\ blk < gone /\ HeapStart < gone
        /\ Blocks' = Blocks \ {gone} /\ Free' = Free \ {gone}
        /\ size' \in [Blocks' -> Nat]
        /\ next' \in [Free' -> Free' \union {Null}]
        /\ Tiling' /\ FreeListSorted'
        /\ next'[blk] = next[gone]
        /\ blk + size'[blk] = End(gone)
        /\ \A c \in Free' \ {blk} : size'[c] = size[c] /\ next'[c] = next[c]
    BY <2>0, <1>2, <1>5, AbsorbHeap DEF Inv
  <2> HIDE DEF gone
  <2>2. \A b \in Blocks : b \in Nat
    BY BlockFacts DEF Inv
  <2>3. cur # gone /\ blk # gone /\ cur # blk
    BY <1>2, <2>1, <2>2, BlockFacts DEF Inv
  <2>4. TypeOK'
    BY <1>1, <1>2, <1>3, <2>1, <2>3 DEF Inv, TypeOK
  <2>5. ReleaseWalk'
    BY <1>1, <1>2, <2>1, <2>3 DEF ReleaseWalk
  <2>6. Defragmented'
    <3> SUFFICES ASSUME NEW b \in Free', b # cur PROVE b + size'[b] # next'[b]
      BY <1>1 DEF Defragmented, Unexamined, End
    <3>1. CASE b = blk
      BY <3>1, <1>1, <1>2, <2>1, <2>3 DEF Inv, Defragmented, Unexamined
    <3>2. CASE b # blk
      BY <3>2, <1>1, <2>1 DEF Inv, Defragmented, Unexamined, End
    <3> QED
      BY <3>1, <3>2
  <2> QED
    BY <1>4, <2>1, <2>4, <2>5, <2>6 DEF Inv
<1>6. CASE End(blk) # next[blk]
  <2>1. size' = size /\ next' = next
    BY <1>6 DEF JoinBlock, JoinTest
  <2>2. TypeOK'
    BY <1>1, <2>1 DEF Inv, TypeOK, Blocks, Free
  <2>3. (Tiling /\ FreeListSorted)'
    BY <2>1 DEF Inv, Tiling, Covered, FreeListSorted, Blocks, Free, End
  <2>4. Defragmented'
    BY <1>1, <1>6, <2>1 DEF Inv, Defragmented, Unexamined, Free, End
  <2>5. ReleaseWalk'
    BY <1>1, <1>2, <2>1 DEF ReleaseWalk, Free
  <2> QED
    BY <1>4, <2>2, <2>3, <2>4, <2>5 DEF Inv
<1> QED
  BY <1>5, <1>6

\* __MEM_FREE joins the previous one with the block, if they touch.
LEMMA JoinPrevInv == Inv /\ JoinPrev => Inv'
<1> SUFFICES ASSUME Inv, JoinPrev PROVE Inv'
  OBVIOUS
<1> USE HeapAssumption DEF HeapAssumption, Null
<1>1. /\ pc = "join_prev" /\ ret' = ret /\ blk' = Null /\ todo' = 0
      /\ \/ pc' = "idle" /\ cur' = Null /\ prev' = Null /\ len' = 0
         \/ /\ pc' = "mem_loop" /\ cur' = HeapStart /\ prev' = Null
            /\ len' = todo + 2 /\ todo # 0
  BY DEF JoinPrev, Dead
<1>2. blk \in Free /\ cur \in Free /\ next[cur] = blk /\ cur < blk
  BY <1>1, BlockFacts DEF Inv, ReleaseWalk, FreeListSorted
<1>3. len' \in Nat /\ (pc' = "mem_loop" => len' >= 4)
  BY <1>1 DEF Inv, TypeOK
<1>4. (ReleaseWalk /\ DeadRegisters)'
  BY <1>1, <1>3 DEF ReleaseWalk, DeadRegisters
<1>5. \A b \in Free : ~ (b < HeapStart)
  BY BlockFacts DEF Inv
<1>6. CASE End(cur) = blk
  <2>0. Absorb(cur)
    BY <1>2, <1>6 DEF JoinPrev, JoinTest
  <2>1. /\ HeapStart < blk
        /\ Blocks' = Blocks \ {blk} /\ Free' = Free \ {blk}
        /\ size' \in [Blocks' -> Nat]
        /\ next' \in [Free' -> Free' \union {Null}]
        /\ Tiling' /\ FreeListSorted'
        /\ next'[cur] = next[blk]
        /\ cur + size'[cur] = End(blk)
        /\ \A c \in Free' \ {cur} : size'[c] = size[c] /\ next'[c] = next[c]
    BY <2>0, <1>2, <1>6, AbsorbHeap DEF Inv
  <2>2. HeapStart \in Free /\ HeapStart # blk /\ Blocks \subseteq HeapStart .. (HeapEnd - 1)
        /\ Free \subseteq Blocks
    BY <2>1 DEF Inv, TypeOK
  <2>3. TypeOK'
    BY <1>1, <1>3, <2>1, <2>2 DEF Inv, TypeOK
  <2>4. FirstFitWalk'
    BY <1>1, <1>5, <2>1 DEF FirstFitWalk
  <2>5. Defragmented'
    <3> SUFFICES ASSUME NEW b \in Free' PROVE b + size'[b] # next'[b]
      BY <1>1 DEF Defragmented, Unexamined, End
    <3>1. CASE b = cur
      BY <3>1, <1>1, <1>2, <2>1 DEF Inv, Defragmented, Unexamined
    <3>2. CASE b # cur
      BY <3>2, <1>1, <2>1 DEF Inv, Defragmented, Unexamined, End
    <3> QED
      BY <3>1, <3>2
  <2> QED
    BY <1>4, <2>1, <2>3, <2>4, <2>5 DEF Inv
<1>7. CASE End(cur) # blk
  <2>1. size' = size /\ next' = next
    BY <1>2, <1>7 DEF JoinPrev, JoinTest
  <2>2. TypeOK'
    BY <1>1, <1>3, <2>1 DEF Inv, TypeOK, Blocks, Free
  <2>3. (Tiling /\ FreeListSorted)'
    BY <2>1 DEF Inv, Tiling, Covered, FreeListSorted, Blocks, Free, End
  <2>4. Defragmented'
    BY <1>1, <1>2, <1>7, <2>1 DEF Inv, Defragmented, Unexamined, Free, End
  <2>5. FirstFitWalk'
    BY <1>1, <1>5, <2>1 DEF FirstFitWalk, Free
  <2> QED
    BY <1>4, <2>2, <2>3, <2>4, <2>5 DEF Inv
<1> QED
  BY <1>6, <1>7

-----------------------------------------------------------------------------
\* Every step keeps the invariant.
LEMMA StepInv == Inv /\ [Next]_vars => Inv'
<1> SUFFICES ASSUME Inv, [Next]_vars PROVE Inv'
  OBVIOUS
<1>1. CASE UNCHANGED vars
  BY <1>1 DEF vars, Inv, TypeOK, Tiling, Covered, FreeListSorted, Defragmented, Unexamined,
     FirstFitWalk, ReleaseWalk, DeadRegisters, Blocks, Free, End
<1>2. CASE Call
  BY <1>2, CallInv
<1>3. CASE Step
  BY <1>3, AllocFailInv, AllocSkipInv, AllocWholeInv, AllocSplitInv,
     FreeSkipInv, FreeLinkInv, JoinBlockInv, JoinPrevInv DEF Step
<1> QED
  BY <1>1, <1>2, <1>3 DEF Next

\* The invariant holds of any heap and any sequence of calls.
LEMMA Invariance == Spec => []Inv
<1>1. Init => Inv
  BY InitInv
<1>2. Inv /\ [Next]_vars => Inv'
  BY StepInv
<1> QED
  BY <1>1, <1>2, PTL DEF Spec

\* Every block header and every link stays a block of the heap, whatever the
\* size of the heap and the requests.
THEOREM TypeCorrect == Spec => []TypeOK
<1>1. Inv => TypeOK
  BY DEF Inv
<1> QED
  BY <1>1, Invariance, PTL

\* No sequence of __MEM_ALLOC, __MEM_FREE and __REALLOC calls loses a byte of
\* the heap or puts two blocks over the same byte.
THEOREM NoOverlap == Spec => []Tiling
<1>1. Inv => Tiling
  BY DEF Inv
<1> QED
  BY <1>1, Invariance, PTL

\* The free list stays in address order, so that __MEM_FREE finds where to
\* link a block and every walk ends.
THEOREM SortedFreeList == Spec => []FreeListSorted
<1>1. Inv => FreeListSorted
  BY DEF Inv
<1> QED
  BY <1>1, Invariance, PTL

\* Between two calls no two free blocks touch.
THEOREM AlwaysDefragmented == Spec => []Defragmented
<1>1. Inv => Defragmented
  BY DEF Inv
<1> QED
  BY <1>1, Invariance, PTL

\* Both walks stop at the right block: the first that fits, and the last one
\* before the block being freed.
THEOREM WalksCorrect == Spec => []WalksRight
<1>1. Inv => WalksRight
  BY DEF Inv, WalksRight
<1> QED
  BY <1>1, Invariance, PTL
-----------------------------------------------------------------------------
(* The free list implements the allocator of Allocator.tla.                  *)


\* The extents held change only with the blocks held and their sizes.
LEMMA SameOwned ==
    ASSUME Live' = Live, \A b \in Live : size'[b] = size[b]
    PROVE  Owned' = Owned
<1>1. Owned' = {<<b, size'[b]>> : b \in Live}
  BY DEF Owned
<1> QED
  BY <1>1 DEF Owned

\* A call that returns block n adds its extent to those held.
LEMMA OneMoreOwned ==
    ASSUME NEW n, Live' = Live \union {n}, \A b \in Live : size'[b] = size[b]
    PROVE  Owned' = Owned \union {<<n, size'[n]>>}
<1>1. Owned' = {<<b, size'[b]>> : b \in Live \union {n}}
  BY DEF Owned
<1>2. \A e \in Owned' : e \in Owned \/ e = <<n, size'[n]>>
  BY <1>1 DEF Owned
<1>3. \A e \in Owned : e \in Owned'
  BY <1>1 DEF Owned
<1>4. <<n, size'[n]>> \in Owned'
  BY <1>1
<1> QED
  BY <1>2, <1>3, <1>4

\* Giving block n back removes its extent and no other.
LEMMA OneLessOwned ==
    ASSUME NEW n, Live' = Live \ {n}, size' = size
    PROVE  Owned' = Owned \ {<<n, size[n]>>}
<1>1. Owned' = {<<b, size[b]>> : b \in Live \ {n}}
  BY DEF Owned
<1>2. \A e \in Owned' : e \in Owned /\ e # <<n, size[n]>>
  BY <1>1 DEF Owned
<1>3. \A e \in Owned \ {<<n, size[n]>>} : e \in Owned'
  BY <1>1 DEF Owned
<1> QED
  BY <1>2, <1>3

\* No extent held covers a byte of a block that is not held.
LEMMA OwnedApart ==
    ASSUME Inv, NEW b \in Blocks, b \notin Live, b # HeapStart,
           NEW s \in Nat, NEW l \in Nat, b <= s, s + l <= End(b)
    PROVE  \A f \in Owned : Abs!Disjoint(<<s, l>>, f)
<1> SUFFICES ASSUME NEW c \in Live
             PROVE  Abs!Disjoint(<<s, l>>, <<c, size[c]>>)
  BY DEF Owned
<1>1. c \in Blocks /\ c # b /\ c \in Nat /\ b \in Nat /\ size[c] \in Nat /\ size[b] \in Nat
      /\ c # HeapStart
  BY BlockFacts DEF Inv, TypeOK, Live
<1>2. (b < c => End(b) <= c) /\ (c < b => End(c) <= b)
  BY <1>1 DEF Inv, Tiling
<1> QED
  BY <1>1, <1>2 DEF Abs!Disjoint, End

\* When __MEM_ALLOC gives up no vacant extent is long enough: the step is a Refuse.
LEMMA AllocFailRefuses == Inv /\ AllocFail => Abs!Refuse
<1> SUFFICES ASSUME Inv, AllocFail PROVE Abs!Refuse
  OBVIOUS
<1> USE DEF Null
<1>1. /\ size' = size /\ next' = next /\ pc = "mem_loop" /\ pc' = "idle" /\ cur = Null
      /\ blk' = Null /\ todo' = 0 /\ ret' = Null /\ blk = Null /\ todo = 0
      /\ len \in Nat /\ len >= 4
  BY DEF AllocFail, Exhausted, Dead, Inv, DeadRegisters, TypeOK
<1>2. Owned' = Owned
  <2>1. Live' = Live
    BY <1>1 DEF Live, Blocks, Free
  <2> QED
    BY <2>1, <1>1, SameOwned
<1>3. Asked = len - 2 /\ Asked' = -1
  BY <1>1 DEF Asked
<1>4. /\ HeapStart \in Nat /\ HeapStart > 0 /\ HeapEnd \in Nat /\ FirstBlock \in Nat
      /\ \A b \in Blocks : b \in Nat /\ b # Null /\ size[b] \in Nat
      /\ Free \subseteq Blocks
      /\ \A b \in Free : next[b] \in Free \union {Null}
  BY BlockFacts DEF Inv, TypeOK, FirstBlock
\* If a long enough extent were vacant, the blocks it starts and goes on in
\* would both be free and touch.
<1>5. ASSUME NEW s \in FirstBlock .. HeapEnd, Abs!Vacant(<<s, len>>) PROVE FALSE
  <2>1. s \in Nat /\ s >= FirstBlock /\ s + len <= HeapEnd
    BY <1>4, <1>5 DEF Abs!Vacant, Abs!InRegion
  <2>2. ASSUME NEW c \in Blocks, c < s + len, s < End(c), c # HeapStart PROVE c \in Free
    <3>1. CASE c \in Live
      <4>1. Abs!Disjoint(<<s, len>>, <<c, size[c]>>)
        BY <3>1, <1>5 DEF Abs!Vacant, Owned
      <4> QED
        BY <4>1, <2>1, <2>2, <1>1, <1>4 DEF Abs!Disjoint, End
    <3>2. CASE c \notin Live
      BY <3>2, <1>1, <1>4, <2>2 DEF Live
    <3> QED
      BY <3>1, <3>2
  <2>3. PICK b \in Blocks : b <= s /\ s < End(b)
    BY <2>1, <1>1, <1>4 DEF Inv, Tiling, Covered
  <2>4. b # HeapStart
    BY <2>1, <2>3, <1>4 DEF Inv, Tiling, End, FirstBlock
  <2>5. b \in Free
    BY <2>1, <2>2, <2>3, <2>4, <1>1, <1>4
  <2>6. size[b] < len
    BY <2>5, <1>1 DEF Inv, FirstFitWalk
  <2>7. End(b) < s + len /\ End(b) < HeapEnd /\ End(b) > b /\ End(b) \in Nat
    BY <2>1, <2>3, <2>6, <1>1, <1>4 DEF End
  <2> DEFINE c == End(b)
  <2>8. c \in Blocks /\ c # HeapStart
    BY <2>1, <2>3, <2>4, <2>7, <1>4 DEF Inv, Tiling, FirstBlock
  <2>9. s < End(c)
    BY <2>3, <2>7, <2>8, <1>4 DEF Inv, Tiling, End
  <2>10. c \in Free
    BY <2>2, <2>7, <2>8, <2>9
  <2>11. next[b] \in Blocks /\ next[b] > b /\ next[b] <= c
    BY <2>5, <2>7, <2>10, <1>4 DEF Inv, FreeListSorted
  <2>12. c <= next[b]
    BY <2>4, <2>11 DEF Inv, Tiling
  <2>13. c = next[b]
    BY <2>7, <2>11, <2>12, <1>4
  <2> QED
    BY <2>5, <2>13, <1>1 DEF Inv, Defragmented, Unexamined
<1>6. len - 2 # -1 /\ len - 2 + 2 = len
  BY <1>1
<1> QED
  BY <1>1, <1>2, <1>3, <1>5, <1>6 DEF Abs!Refuse, Abs!NoRequest, Abs!Null

\* Taking a whole block is a Grant of its extent,
LEMMA AllocWholeGrants == Inv /\ AllocWhole => Abs!Grant
<1> SUFFICES ASSUME Inv, AllocWhole PROVE Abs!Grant
  OBVIOUS
<1> USE DEF Null
<1>1. /\ cur \in Free /\ cur # Null /\ pc = "mem_loop" /\ pc' = "idle"
      /\ size[cur] >= len /\ len \in Nat /\ len >= 4
      /\ size' = size /\ ret' = cur + 2
      /\ blk' = Null /\ todo' = 0 /\ blk = Null /\ todo = 0
      /\ next' = [b \in Free \ {cur} |-> IF b = prev THEN next[cur] ELSE next[b]]
  BY DEF AllocWhole, Unlink, Dead, Inv, TypeOK, DeadRegisters
<1>2. /\ \A b \in Blocks : b # Null
      /\ cur \in Blocks /\ cur \in Nat /\ size[cur] \in Nat
      /\ HeapEnd \in Nat /\ FirstBlock \in Nat /\ End(cur) <= HeapEnd
  BY <1>1, BlockFacts DEF Inv, FirstBlock
<1>3. cur # HeapStart /\ cur >= FirstBlock /\ cur \notin Live
  BY <1>1, <1>2 DEF Inv, Tiling, Live
<1>4. Asked = len - 2 /\ Asked' = -1
  BY <1>1 DEF Asked
<1>5. Live' = Live \union {cur}
  <2>1. Blocks' = Blocks /\ Free' = Free \ {cur}
    BY <1>1 DEF Blocks, Free
  <2> QED
    BY <2>1, <1>1, <1>2 DEF Live
<1>6. Owned' = Owned \union {<<cur, size[cur]>>}
  BY <1>1, <1>5, OneMoreOwned
<1>7. Abs!Vacant(<<cur, size[cur]>>)
  <2>1. \A f \in Owned : Abs!Disjoint(<<cur, size[cur]>>, f)
    BY <1>2, <1>3, OwnedApart DEF End
  <2> QED
    BY <2>1, <1>2, <1>3 DEF Abs!Vacant, Abs!InRegion, End
<1>8. cur \in FirstBlock .. HeapEnd /\ size[cur] \in 1 .. (HeapEnd - FirstBlock)
  BY <1>1, <1>2, <1>3 DEF End
<1>9. Asked # -1 /\ size[cur] >= Asked + 2
  BY <1>1, <1>2, <1>4
<1> QED
  BY <1>1, <1>4, <1>6, <1>7, <1>8, <1>9 DEF Abs!Grant, Abs!NoRequest

\* and so is taking the end of a longer one.
LEMMA AllocSplitGrants == Inv /\ AllocSplit => Abs!Grant
<1> SUFFICES ASSUME Inv, AllocSplit PROVE Abs!Grant
  OBVIOUS
<1> USE DEF Null
<1> DEFINE rest == size[cur] - len
           new  == cur + rest
<1>1. /\ cur \in Free /\ cur # Null /\ pc = "mem_loop" /\ pc' = "idle"
      /\ rest >= 4 /\ len \in Nat /\ len >= 4
      /\ size' = [b \in Blocks \union {new} |->
                         CASE b = new -> len
                           [] b = cur -> rest
                           [] OTHER   -> size[b]]
      /\ next' = next /\ ret' = new + 2
      /\ blk' = Null /\ todo' = 0 /\ blk = Null /\ todo = 0
  BY DEF AllocSplit, Splittable, Dead, Inv, TypeOK, DeadRegisters
<1>2. /\ \A b \in Blocks : b # Null
      /\ cur \in Blocks /\ cur \in Nat /\ size[cur] \in Nat
      /\ HeapEnd \in Nat /\ FirstBlock \in Nat /\ End(cur) <= HeapEnd
      /\ \A b \in Free : b \in Blocks
  BY <1>1, BlockFacts DEF Inv, FirstBlock
<1>3. cur # HeapStart /\ cur >= FirstBlock /\ cur \notin Live
  BY <1>1, <1>2 DEF Inv, Tiling, Live
<1>4. new \in Nat /\ cur < new /\ new + len = End(cur)
  BY <1>1, <1>2 DEF End
<1>5. new \notin Blocks
  BY <1>1, <1>2, <1>3, <1>4 DEF Inv, Tiling, TypeOK
<1>6. size'[new] = len /\ \A b \in Blocks : b # cur => size'[b] = size[b]
  BY <1>1, <1>2, <1>4, <1>5
<1> HIDE DEF new, rest
<1>7. Asked = len - 2 /\ Asked' = -1
  BY <1>1 DEF Asked
<1>8. Live' = Live \union {new} /\ Live \subseteq Blocks
  <2>1. Blocks' = Blocks \union {new} /\ Free' = Free
    BY <1>1 DEF Blocks, Free
  <2> QED
    BY <2>1, <1>1, <1>2, <1>4, <1>5 DEF Live
<1>9. Owned' = Owned \union {<<new, len>>}
  <2>1. \A b \in Live : size'[b] = size[b]
    BY <1>3, <1>6, <1>8
  <2> QED
    BY <2>1, <1>6, <1>8, OneMoreOwned
<1>10. Abs!Vacant(<<new, len>>)
  <2>1. \A f \in Owned : Abs!Disjoint(<<new, len>>, f)
    BY <1>1, <1>2, <1>3, <1>4, OwnedApart
  <2> QED
    BY <2>1, <1>1, <1>2, <1>3, <1>4 DEF Abs!Vacant, Abs!InRegion
<1>11. new \in FirstBlock .. HeapEnd /\ len \in 1 .. (HeapEnd - FirstBlock)
  BY <1>1, <1>2, <1>3, <1>4
<1>12. Asked # -1 /\ len >= Asked + 2
  BY <1>1, <1>7
<1> QED
  BY <1>1, <1>7, <1>9, <1>10, <1>11, <1>12 DEF Abs!Grant, Abs!NoRequest
-----------------------------------------------------------------------------
\* A call is the step of Allocator of the same meaning.
LEMMA CallMaps == Inv /\ Call => Abs!Next
<1> SUFFICES ASSUME Inv, Call PROVE Abs!Next
  OBVIOUS
<1> USE HeapAssumption DEF HeapAssumption, Null
<1>1. size' = size /\ next' = next /\ pc = "idle" /\ blk = Null /\ todo = 0 /\ ret' = Null
  BY DEF Call, MemAlloc, MemFree, Realloc, Inv, DeadRegisters
<1>2. Asked = -1 /\ Blocks' = Blocks /\ Free' = Free
  BY <1>1 DEF Asked, Blocks, Free
<1>3. ASSUME NEW n \in Requests, MemAlloc(n) PROVE Abs!Ask(n)
  <2>1. Live' = Live
    BY <1>1, <1>2, <1>3 DEF MemAlloc, Live
  <2>2. Owned' = Owned
    BY <2>1, <1>1, SameOwned
  <2>3. Asked' = n
    BY <1>1, <1>3 DEF MemAlloc, Asked
  <2> QED
    BY <2>2, <2>3, <1>1, <1>2 DEF Abs!Ask, Abs!NoRequest, Abs!Null
<1>4. ASSUME NEW b \in Live, blk' = b
      PROVE  Owned' = Owned \ {<<b, size[b]>>} /\ <<b, size[b]>> \in Owned
  <2>1. Live' = Live \ {b}
    BY <1>1, <1>2, <1>4, BlockFacts DEF Live, Inv
  <2> QED
    BY <2>1, <1>1, OneLessOwned DEF Owned
<1>5. ASSUME NEW b \in Live, MemFree(b) PROVE Abs!Release(<<b, size[b]>>)
  <2>1. Asked' = -1
    BY <1>1, <1>5 DEF MemFree, Asked
  <2> QED
    BY <2>1, <1>1, <1>2, <1>4, <1>5 DEF MemFree, Abs!Release, Abs!NoRequest, Abs!Null
<1>6. ASSUME NEW b \in Live, NEW n \in Requests, Realloc(b, n)
      PROVE  Abs!Exchange(<<b, size[b]>>, n)
  <2>1. Asked' = n
    BY <1>6 DEF Realloc, Asked
  <2> QED
    BY <2>1, <1>1, <1>2, <1>4, <1>6 DEF Realloc, Abs!Exchange, Abs!NoRequest, Abs!Null
<1>7. \A b \in Live : <<b, size[b]>> \in Owned
  BY DEF Owned
<1> QED
  BY <1>3, <1>5, <1>6, <1>7 DEF Call, Abs!Next

\* The walks, the links and the joins are invisible to the program.
LEMMA WalkStutters ==
    Inv /\ (AllocSkip \/ FreeSkip \/ FreeLink \/ JoinBlock \/ JoinPrev) => UNCHANGED Abs!vars
<1> SUFFICES ASSUME Inv, AllocSkip \/ FreeSkip \/ FreeLink \/ JoinBlock \/ JoinPrev
             PROVE  UNCHANGED Abs!vars
  OBVIOUS
<1> USE DEF Null
<1>1. ret' = ret
  BY DEF AllocSkip, FreeSkip, FreeLink, JoinBlock, JoinPrev
<1>2. Asked' = Asked
  <2>1. CASE AllocSkip
    BY <2>1 DEF AllocSkip, Asked, Inv, DeadRegisters
  <2>2. CASE FreeSkip \/ FreeLink \/ JoinBlock
    BY <2>2 DEF FreeSkip, FreeLink, JoinBlock, Asked
  <2>3. CASE JoinPrev
    BY <2>3, HeapAssumption DEF HeapAssumption, JoinPrev, Dead, Asked, Inv, TypeOK
  <2> QED
    BY <2>1, <2>2, <2>3
<1>3. \A b \in Blocks : b # Null
  BY BlockFacts DEF Inv
<1>4. Live' = Live /\ \A b \in Live : size'[b] = size[b]
  <2>1. CASE AllocSkip \/ FreeSkip
    BY <2>1 DEF AllocSkip, FreeSkip, Live, Blocks, Free
  <2>2. CASE FreeLink
    BY <2>2, <1>3 DEF FreeLink, Live, Blocks, Free
  <2>3. ASSUME NEW b \in Free, JoinTest(b)
        PROVE  /\ Blocks' \ Free' = Blocks \ Free
               /\ \A c \in Blocks \ Free : size'[c] = size[c]
    <3>1. CASE End(b) = next[b]
      <4>1. next[b] \in Free
        BY <3>1, <2>3, AbsorbHeap DEF Inv, JoinTest
      <4> QED
        BY <4>1, <3>1, <2>3 DEF JoinTest, Absorb, Blocks, Free
    <3>2. CASE End(b) # next[b]
      BY <3>2, <2>3 DEF JoinTest, Blocks, Free
    <3> QED
      BY <3>1, <3>2
  <2>4. CASE JoinBlock
    BY <2>3, <2>4 DEF JoinBlock, Inv, ReleaseWalk, Live
  <2>5. CASE JoinPrev
    <3>1. blk \in Free /\ cur \in Free /\ JoinTest(cur) /\ blk' = Null
      BY <2>5 DEF JoinPrev, Dead, Inv, ReleaseWalk
    <3> QED
      BY <3>1, <2>3, <1>3 DEF Live
  <2> QED
    BY <2>1, <2>2, <2>4, <2>5
<1>5. Owned' = Owned
  BY <1>4, SameOwned
<1> QED
  BY <1>1, <1>2, <1>5 DEF Abs!vars

\* The program holds nothing at the start, as in Allocator.
LEMMA InitMaps == Init => Abs!Init
<1> SUFFICES ASSUME Init PROVE Abs!Init
  OBVIOUS
<1>1. Blocks = {HeapStart, FirstBlock} /\ Free = {HeapStart, FirstBlock}
  BY DEF Init, Blocks, Free
<1>2. Owned = {}
  BY <1>1 DEF Owned, Live
<1>3. Asked = -1 /\ ret = Null
  BY DEF Init, Asked
<1> QED
  BY <1>2, <1>3 DEF Abs!Init, Abs!NoRequest, Abs!Null, Null

\* Every step is one of Allocator, or a stutter.
LEMMA NextMaps == Inv /\ [Next]_vars => [Abs!Next]_(Abs!vars)
<1> SUFFICES ASSUME Inv, [Next]_vars PROVE [Abs!Next]_(Abs!vars)
  OBVIOUS
<1>1. CASE UNCHANGED vars
  BY <1>1 DEF vars, Abs!vars, Owned, Asked, Live, Blocks, Free
<1>2. CASE Call
  BY <1>2, CallMaps
<1>3. CASE AllocFail \/ AllocWhole \/ AllocSplit
  BY <1>3, AllocFailRefuses, AllocWholeGrants, AllocSplitGrants DEF Abs!Next
<1>4. CASE AllocSkip \/ FreeSkip \/ FreeLink \/ JoinBlock \/ JoinPrev
  BY <1>4, WalkStutters
<1> QED
  BY <1>1, <1>2, <1>3, <1>4 DEF Next, Step

\* The linked list of free blocks does what the allocator promises: what it hands
\* out is vacant and long enough, and it refuses a request only when no extent of
\* that length is vacant anywhere in the heap, whatever has been asked for and given
\* back before.
THEOREM HeapImplementsAllocator == Spec => ImplementsAllocator
<1>1. Init => Abs!Init
  BY InitMaps
<1>2. Inv /\ [Next]_vars => [Abs!Next]_(Abs!vars)
  BY NextMaps
<1> QED
  BY <1>1, <1>2, Invariance, PTL DEF Spec, ImplementsAllocator, Abs!Spec
=============================================================================
