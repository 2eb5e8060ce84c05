-------------------------------- MODULE Heap --------------------------------
(***************************************************************************)
(* The dynamic memory manager of the Z80 runtime library, at the level of  *)
(* its block headers: __MEM_INIT, __MEM_ALLOC, __MEM_FREE and __REALLOC of  *)
(* src/lib/arch/zx48k/runtime/mem/.                                        *)
(*                                                                         *)
(* The heap is a list of free blocks linked in address order behind a      *)
(* dummy header block of size 0.  Every block, free or allocated, starts   *)
(* with its length; a free block also holds the address of the next one.   *)
(* One action is one trip round a loop of the assembly, or the straight    *)
(* code after it.  The control state pc is the label the processor is at;  *)
(* "idle" is the program running between two calls.                        *)
(*                                                                         *)
(* Registers are dead once a routine returns, so the model clears them.    *)
(* Addresses do not wrap here: HeapAssumption keeps the heap below the top *)
(* of memory and requests at two bytes or more (what strings ask for).     *)
(* HeapMem.tla models the bytes, the 16-bit wrap and the other requests.   *)
(***************************************************************************)
EXTENDS Integers

CONSTANTS HeapStart,   \* ZXBASIC_MEM_HEAP
          HeapSize,    \* ZXBASIC_HEAP_SIZE, in bytes
          Requests     \* lengths passed to the routines in BC

Null == 0
HeapEnd == HeapStart + HeapSize
FirstBlock == HeapStart + 4

ASSUME HeapAssumption ==
    /\ HeapStart \in Nat \ {0}
    /\ HeapSize \in Nat /\ HeapSize >= 8
    /\ Requests \subseteq Nat
    /\ \A n \in Requests : n >= 2

VARIABLES size,   \* length word of every block, by the block's address
          next,   \* link word of every block of the free list
          pc,     \* the label being executed, or "idle"
          cur,    \* HL: the block the walk is at
          prev,   \* TEMP: the block whose link points to cur
          len,    \* BC in __MEM_ALLOC: the length the block must have
          blk,    \* BC in __MEM_FREE: the block being freed
          todo,   \* length __REALLOC will allocate after freeing, or Null
          ret     \* HL as left by the last allocation

vars == <<size, next, pc, cur, prev, len, blk, todo, ret>>

Blocks == DOMAIN size
Free == DOMAIN next

\* The blocks the program holds: allocated ones, but not the one being freed.
Live == {b \in Blocks \ Free : b # blk}

End(b) == b + size[b]

Dead == cur' = Null /\ prev' = Null /\ len' = 0 /\ blk' = Null /\ todo' = 0
-----------------------------------------------------------------------------
\* __MEM_INIT: the header, and one free block with all the memory after it.
Init ==
    /\ size = [b \in {HeapStart, FirstBlock} |->
                 IF b = HeapStart THEN 0 ELSE HeapSize - 4]
    /\ next = [b \in {HeapStart, FirstBlock} |->
                 IF b = HeapStart THEN FirstBlock ELSE Null]
    /\ pc = "idle"
    /\ cur = Null /\ prev = Null /\ len = 0 /\ blk = Null /\ todo = 0
    /\ ret = Null

\* __MEM_START: the program calls __MEM_ALLOC for n bytes.
MemAlloc(n) ==
    /\ pc = "idle"
    /\ pc' = "mem_loop"
    /\ cur' = HeapStart
    /\ prev' = Null
    /\ len' = n + 2
    /\ ret' = Null
    /\ UNCHANGED <<size, next, blk, todo>>

\* The walk of an allocation has come to the end of the list.
ExhaustedEarly == cur = Null \/ next[cur] = Null   \* fault: last block not tried
Exhausted == cur = Null

\* The walk moves from cur to the next block, and TEMP follows it.
AdvanceKeepTemp == prev' = prev /\ cur' = next[cur]       \* fault: TEMP is stale
AdvanceRestart == prev' = cur /\ cur' = next[HeapStart]   \* fault: starts again
Advance == prev' = cur /\ cur' = next[cur]

\* rest bytes can stay in the list as a block of their own.
SplittableShort(rest) == rest >= 2   \* fault: no room for the link
Splittable(rest) == rest >= 4

\* The free list without block b, whose predecessor is p.
UnlinkOnly(b, p) == [c \in Free \ {b} |-> next[c]]   \* fault: p still leads to b
Unlink(b, p) == [c \in Free \ {b} |-> IF c = p THEN next[b] ELSE next[c]]

\* __MEM_LOOP: past the last block, the call returns NULL.
AllocFail ==
    /\ pc = "mem_loop"
    /\ Exhausted
    /\ pc' = "idle"
    /\ ret' = Null
    /\ Dead
    /\ UNCHANGED <<size, next>>

\* __MEM_LOOP: the block is too short, look at the next one.
AllocSkip ==
    /\ pc = "mem_loop"
    /\ cur # Null
    /\ size[cur] < len
    /\ Advance
    /\ UNCHANGED <<size, next, pc, len, blk, todo, ret>>

\* __MEM_DONE: less than four bytes would remain, so the block is unlinked
\* and returned with its length as it is.
AllocWhole ==
    /\ pc = "mem_loop"
    /\ cur # Null
    /\ size[cur] >= len
    /\ ~ Splittable(size[cur] - len)
    /\ next' = Unlink(cur, prev)
    /\ ret' = cur + 2
    /\ pc' = "idle"
    /\ Dead
    /\ UNCHANGED size

\* __MEM_SUBTRACT: the block is shortened in place and its tail returned.
AllocSplit ==
    /\ pc = "mem_loop"
    /\ cur # Null
    /\ size[cur] >= len
    /\ Splittable(size[cur] - len)
    /\ LET rest == size[cur] - len
           new  == cur + rest
       IN  /\ size' = [b \in Blocks \union {new} |->
                         CASE b = new -> len
                           [] b = cur -> rest
                           [] OTHER   -> size[b]]
           /\ ret' = new + 2
    /\ pc' = "idle"
    /\ Dead
    /\ UNCHANGED next

\* __MEM_FREE: the program gives block b back.
MemFree(b) ==
    /\ pc = "idle"
    /\ b \in Live
    /\ pc' = "mem_loop2"
    /\ blk' = b
    /\ cur' = HeapStart
    /\ ret' = Null
    /\ UNCHANGED <<size, next, prev, len, todo>>

\* __REALLOC: free the block, then allocate n bytes.  (With a NULL pointer it
\* jumps to __MEM_ALLOC.)
Realloc(b, n) ==
    /\ pc = "idle"
    /\ b \in Live
    /\ pc' = "mem_loop2"
    /\ blk' = b
    /\ cur' = HeapStart
    /\ todo' = n
    /\ ret' = Null
    /\ UNCHANGED <<size, next, prev, len>>

\* The next free block, if any, is still before the one being freed.
NextBeforeNever == FALSE               \* fault: the walk stops at once
NextBefore == next[cur] # Null /\ next[cur] < blk

\* __MEM_LOOP2: the next free block is before the one being freed.
FreeSkip ==
    /\ pc = "mem_loop2"
    /\ NextBefore
    /\ cur' = next[cur]
    /\ UNCHANGED <<size, next, pc, prev, len, blk, todo, ret>>

\* __MEM_LINK_PREV: link the block between cur and its successor.
FreeLink ==
    /\ pc = "mem_loop2"
    /\ ~ NextBefore
    /\ next' = [b \in Free \union {blk} |->
                  CASE b = blk -> next[cur]
                    [] b = cur -> blk
                    [] OTHER   -> next[b]]
    /\ pc' = "join_block"
    /\ UNCHANGED <<size, cur, prev, len, blk, todo, ret>>

\* __MEM_BLOCK_JOIN: block b absorbs the free block that follows it.
Absorb(b) ==
    LET gone == next[b]
    IN  /\ size' = [c \in Blocks \ {gone} |->
                      IF c = b THEN size[b] + size[gone] ELSE size[c]]
        /\ next' = [c \in Free \ {gone} |->
                      IF c = b THEN next[gone] ELSE next[c]]

\* __MEM_JOIN_TEST: join block b with its successor when they touch.
JoinNever(b) == UNCHANGED <<size, next>>   \* fault: nothing is joined
JoinTest(b) ==
    IF End(b) = next[b] THEN Absorb(b) ELSE UNCHANGED <<size, next>>

\* First __MEM_JOIN_TEST, on the freed block.
JoinBlock ==
    /\ pc = "join_block"
    /\ JoinTest(blk)
    /\ pc' = "join_prev"
    /\ UNCHANGED <<cur, prev, len, blk, todo, ret>>

\* Second __MEM_JOIN_TEST, on the block before it; then return, or go on to
\* the allocation of __REALLOC.
JoinPrev ==
    /\ pc = "join_prev"
    /\ JoinTest(cur)
    /\ \/ /\ todo = 0
          /\ pc' = "idle"
          /\ Dead
       \/ /\ todo # 0
          /\ pc' = "mem_loop"
          /\ cur' = HeapStart
          /\ prev' = Null
          /\ len' = todo + 2
          /\ blk' = Null
          /\ todo' = 0
    /\ UNCHANGED ret

-----------------------------------------------------------------------------
Call ==
    \/ \E n \in Requests : MemAlloc(n)
    \/ \E b \in Live : MemFree(b)
    \/ \E b \in Live, n \in Requests : Realloc(b, n)

Step ==
    \/ AllocFail \/ AllocSkip \/ AllocWhole \/ AllocSplit
    \/ FreeSkip \/ FreeLink \/ JoinBlock \/ JoinPrev

Next == Call \/ Step

\* The processor goes on executing a routine it has entered; nothing obliges
\* the program to call one.
Fairness == WF_vars(Step)

Spec == Init /\ [][Next]_vars

FairSpec == Spec /\ Fairness
-----------------------------------------------------------------------------
\* Type invariant.
TypeOK ==
    /\ size \in [Blocks -> Nat]
    /\ next \in [Free -> Free \union {Null}]
    /\ Blocks \subseteq HeapStart .. (HeapEnd - 1)
    /\ HeapStart \in Free
    /\ Free \subseteq Blocks
    /\ pc \in {"idle", "mem_loop", "mem_loop2", "join_block", "join_prev"}
    /\ cur \in Free \union {Null}
    /\ prev \in Free \union {Null}
    /\ len \in Nat
    /\ blk \in Blocks \union {Null}
    /\ todo \in Requests \union {0}
    /\ ret \in Nat

\* Every byte behind the four of the header is in a block.
Covered ==
    \A a \in FirstBlock .. (HeapEnd - 1) : \E b \in Blocks : b <= a /\ a < End(b)

\* The blocks tile the heap behind the header: every byte is in one, each ends
\* where another one starts or at the end of the heap, and none starts inside
\* another.  No sequence of calls loses a byte or hands one out twice.
Tiling ==
    /\ Covered
    /\ size[HeapStart] = 0
    /\ \A b \in Blocks \ {HeapStart} :
          /\ b >= FirstBlock
          /\ size[b] >= 4
          /\ End(b) = HeapEnd \/ End(b) \in Blocks
          /\ \A c \in Blocks : b < c => End(b) <= c

\* The free list visits every free block once, in address order.
FreeListSorted ==
    \A b \in Free :
       /\ next[b] # Null => next[b] > b
       /\ \A c \in Free : b < c => next[b] # Null /\ next[b] <= c

\* MEM_FREE leaves the heap defragmented, as the notes at the top of free.asm
\* say: no free block touches the next one, but for the blocks the call in
\* progress has still to examine.
Unexamined ==
    CASE pc = "join_block" -> {blk, cur}
      [] pc = "join_prev"  -> {cur}
      [] OTHER             -> {}

Defragmented == \A b \in Free \ Unexamined : End(b) # next[b]

\* The walk of an allocation carries the block whose link leads to the current
\* one in TEMP, and every block it has passed is too short: the block it stops
\* at is the first fit.
FirstFitWalk ==
    pc = "mem_loop" =>
        /\ IF prev = Null THEN cur = HeapStart ELSE next[prev] = cur
        /\ \A b \in Free : cur = Null \/ b < cur => size[b] < len

\* The walk of a release is never past the block being freed, which stays off
\* the list until it is linked, right after the block the walk stopped at.
ReleaseWalk ==
    /\ pc = "mem_loop2" => blk \in Blocks \ Free /\ cur \in Free /\ cur < blk
    /\ pc = "join_block" => blk \in Free /\ cur \in Free /\ next[cur] = blk
    /\ pc = "join_prev" => blk \in Free /\ cur \in Free /\ next[cur] = blk

\* Both walks stop at the right block.
WalksRight == FirstFitWalk /\ ReleaseWalk

\* Refinement: the extents the program holds, and the request in progress.
Owned == {<<b, size[b]>> : b \in Live}
Asked ==
    CASE pc = "mem_loop" -> len - 2
      [] todo # 0        -> todo
      [] OTHER           -> -1

Abs == INSTANCE Allocator WITH
          Lo <- FirstBlock, Hi <- HeapEnd, Overhead <- 2, owned <- Owned, asked <- Asked

\* The free list implements the allocator: in particular a request is refused
\* only when no run of len bytes is free anywhere in the heap.
ImplementsAllocator == Abs!Spec

\* Every routine returns: the walks never go round in circles.
CallsReturn == pc # "idle" ~> pc = "idle"
=============================================================================
