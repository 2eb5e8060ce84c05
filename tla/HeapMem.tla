------------------------------ MODULE HeapMem ------------------------------
(***************************************************************************)
(* The dynamic memory manager at the level of the bytes it reads and       *)
(* writes: src/lib/arch/zx48k/runtime/mem/*.asm with 16-bit addresses that *)
(* wrap, block headers that live in the memory they describe, and the      *)
(* copying of __REALLOC and __MEM_CALLOC.  Heap.tla is the same algorithm  *)
(* over block headers only; HeapMem implements it for sane requests.       *)
(*                                                                         *)
(* A byte has Base values and a word is two bytes, so that the address      *)
(* space has Base * Base cells: 256 in the machine, a handful under TLC.    *)
(* What the program stores in its blocks is recorded in data, which no     *)
(* routine reads, to say that the manager never damages it.                *)
(***************************************************************************)
EXTENDS Integers, Sequences

CONSTANTS Base,        \* values of a byte
          RomTop,      \* the cells below it are ROM: writes have no effect
          HeapStart,   \* ZXBASIC_MEM_HEAP
          HeapSize,    \* ZXBASIC_HEAP_SIZE, in bytes
          Requests,    \* lengths passed to the routines in BC
          Marks        \* what the program writes: byte i of a block is mark + i

Space == Base * Base
Null == 0
Addresses == 0 .. (Space - 1)
HeapEnd == HeapStart + HeapSize
FirstBlock == HeapStart + 4

ASSUME HeapMemAssumption ==
    /\ Base \in Nat /\ Base >= 2
    /\ HeapStart \in Nat \ {0} /\ HeapSize \in Nat /\ HeapSize >= 8
    /\ HeapEnd <= Space /\ RomTop \in 0 .. HeapStart
    /\ Requests \subseteq Addresses
    /\ Marks \subseteq 0 .. (Base - 1)

NoJob == [op |-> "none", n |-> 0, src |-> Null, first |-> 0]

VARIABLES mem,     \* the memory, a byte per address
          pc,      \* the label being executed, or "idle"
          cur,     \* HL: the block the walk is at
          temp,    \* TEMP: the link field that leads to cur
          len,     \* BC in __MEM_ALLOC
          blk,     \* BC in __MEM_FREE
          job,     \* what the call in progress has left to do
          data,    \* the bytes the program expects to find at its pointers
          ret      \* HL as left by the last allocation

vars == <<mem, pc, cur, temp, len, blk, job, data, ret>>

\* Addition and subtraction on register pairs.
Plus(a, b) == (a + b) % Space

Word(m, a) == m[a] + Base * m[Plus(a, 1)]

\* The length word of a block, and its link word after it.
Length(b) == Word(mem, b)
Link(b) == Word(mem, Plus(b, 2))

\* ld (hl), r: a store, lost when the address is in ROM.
Store(m, a, byte) == IF a < RomTop THEN m ELSE [m EXCEPT ![a] = byte]

\* Two stores, low byte first.
StoreWord(m, a, w) ==
    Store(Store(m, a, w % Base), Plus(a, 1), w \div Base)

\* ldir: n bytes copied upwards one by one, each after the one before it is in
\* place; a count of zero means the whole address space.
Ldir(m, src, dst, n) ==
    LET count == IF n = 0 THEN Space ELSE n
        copied[i \in 0 .. count] ==
            IF i = 0 THEN m
            ELSE LET before == copied[i - 1]
                 IN  Store(before, Plus(dst, i - 1), before[Plus(src, i - 1)])
    IN  copied[count]

\* What is in memory before the program runs: anything but zeros.
Outside(a) == Base - 1

Idle == cur' = Null /\ temp' = Null /\ len' = 0 /\ blk' = Null

Forget(p) == [q \in DOMAIN data \ {p} |-> data[q]]

Remember(d, p, bytes) == [q \in DOMAIN d \union {p} |-> IF q = p THEN bytes ELSE d[q]]
-----------------------------------------------------------------------------
\* __MEM_INIT: a header of size 0 linked to a block with the rest of the heap.
Init ==
    /\ mem = LET blank  == [a \in Addresses |-> Outside(a)]
                 header == StoreWord(StoreWord(blank, HeapStart, 0),
                                     HeapStart + 2, FirstBlock)
             IN  StoreWord(StoreWord(header, FirstBlock, HeapSize - 4),
                           FirstBlock + 2, Null)
    /\ pc = "idle"
    /\ cur = Null /\ temp = Null /\ len = 0 /\ blk = Null
    /\ job = NoJob
    /\ data = <<>>
    /\ ret = Null

\* The block must hold the bytes asked for and its own length.
BlockLength(n) == Plus(n, 2)

\* ld hl, 0; ld (TEMP), hl; __MEM_START.
StartAlloc(n) ==
    /\ pc' = "mem_loop"
    /\ cur' = HeapStart
    /\ temp' = Null
    /\ len' = BlockLength(n)
    /\ blk' = Null

\* __MEM_ALLOC, and __MEM_CALLOC which calls it first.
MemAlloc(op, n) ==
    /\ pc = "idle"
    /\ StartAlloc(n)
    /\ job' = [NoJob EXCEPT !.op = op, !.n = n]
    /\ ret' = Null
    /\ UNCHANGED <<mem, data>>

\* ret z: __MEM_CALLOC and __REALLOC do not copy when there is no memory.
AfterRefusal == "idle"

AllocFail ==
    /\ pc = "mem_loop"
    /\ cur = Null
    /\ pc' = AfterRefusal
    /\ Idle
    /\ job' = IF AfterRefusal = "idle" THEN NoJob ELSE job
    /\ data' = Forget(job.src)
    /\ ret' = Null
    /\ UNCHANGED mem

AllocSkip ==
    /\ pc = "mem_loop"
    /\ cur # Null
    /\ Length(cur) < len
    /\ temp' = Plus(cur, 2)
    /\ cur' = Link(cur)
    /\ UNCHANGED <<mem, pc, len, blk, job, data, ret>>

\* The pointer p is returned to the program, or to the routine that copies.
Returned(p) ==
    /\ ret' = p
    /\ Idle
    /\ IF job.op = "alloc"
         THEN /\ pc' = "idle"
              /\ job' = NoJob
              /\ data' = Remember(data, p, [n |-> job.n, bytes |-> <<>>])
         ELSE /\ pc' = "copy"
              /\ UNCHANGED <<job, data>>

\* __MEM_DONE: the link before the block is set to the one after it.
AllocWhole ==
    /\ pc = "mem_loop"
    /\ cur # Null
    /\ Length(cur) >= len
    /\ Length(cur) - len < 4
    /\ mem' = StoreWord(mem, temp, Link(cur))
    /\ Returned(Plus(cur, 2))

\* __MEM_SUBTRACT.
AllocSplit ==
    /\ pc = "mem_loop"
    /\ cur # Null
    /\ Length(cur) >= len
    /\ Length(cur) - len >= 4
    /\ LET rest == Length(cur) - len
           new  == Plus(cur, rest)
       IN  /\ mem' = StoreWord(StoreWord(mem, cur, rest), new, len)
           /\ Returned(Plus(new, 2))

\* dec bc: the bytes that are left once the first one is in place.
FillCountShort(n) == Plus(n, Space - 2)   \* fault: it is decremented twice
FillCount(n) == Plus(n, Space - 1)

\* __MEM_CALLOC after the allocation: a zero in the first byte, copied upwards
\* over the n - 1 others.
CallocFill ==
    /\ pc = "copy"
    /\ job.op = "calloc"
    /\ LET first == Store(mem, ret, 0)
       IN  mem' = IF job.n = 1 THEN first
                  ELSE Ldir(first, ret, Plus(ret, 1), FillCount(job.n))
    /\ data' = Remember(data, ret, [n |-> job.n, bytes |-> [i \in 1 .. job.n |-> 0]])
    /\ pc' = "idle"
    /\ job' = NoJob
    /\ UNCHANGED <<cur, temp, len, blk, ret>>

\* __MEM_FREE, called with a pointer the program holds.
MemFree(p) ==
    /\ pc = "idle"
    /\ pc' = "mem_loop2"
    /\ blk' = Plus(p, Space - 2)
    /\ cur' = HeapStart
    /\ data' = Forget(p)
    /\ ret' = Null
    /\ UNCHANGED <<mem, temp, len, job>>

\* __REALLOC with a pointer the program holds: its first two bytes are kept in
\* a register, since the link of the free block overwrites them.
Realloc(p, n) ==
    /\ pc = "idle"
    /\ pc' = "mem_loop2"
    /\ blk' = Plus(p, Space - 2)
    /\ cur' = HeapStart
    /\ job' = [op |-> "realloc", n |-> n, src |-> p, first |-> Word(mem, p)]
    /\ ret' = Null
    /\ UNCHANGED <<mem, temp, len, data>>

FreeSkip ==
    /\ pc = "mem_loop2"
    /\ LET link == Link(cur)
       IN  /\ link # Null
           /\ link < blk
           /\ cur' = link
    /\ UNCHANGED <<mem, pc, temp, len, blk, job, data, ret>>

FreeLink ==
    /\ pc = "mem_loop2"
    /\ LET link == Link(cur)
       IN  /\ link = Null \/ link >= blk
           /\ mem' = StoreWord(StoreWord(mem, Plus(cur, 2), blk), Plus(blk, 2), link)
    /\ pc' = "join_block"
    /\ UNCHANGED <<cur, temp, len, blk, job, data, ret>>

\* The block ends where its link leads.
TouchesLoose(b) == Plus(b, Length(b)) >= Link(b)   \* fault: jp c for ret nz
Touches(b) == Plus(b, Length(b)) = Link(b)

\* __MEM_JOIN_TEST and __MEM_BLOCK_JOIN.
JoinTest(b) ==
    IF Touches(b)
      THEN mem' = StoreWord(StoreWord(mem, b, Plus(Length(b), Length(Link(b)))),
                            Plus(b, 2), Link(Link(b)))
      ELSE UNCHANGED mem

JoinBlock ==
    /\ pc = "join_block"
    /\ JoinTest(blk)
    /\ pc' = "join_prev"
    /\ UNCHANGED <<cur, temp, len, blk, job, data, ret>>

JoinPrev ==
    /\ pc = "join_prev"
    /\ JoinTest(cur)
    /\ IF job.op = "realloc"
         THEN StartAlloc(job.n)
         ELSE pc' = "idle" /\ Idle
    /\ UNCHANGED <<job, data, ret>>

\* dec bc; dec bc: the first two bytes are copied apart.
CopyCountAll(n) == n   \* fault: bc still counts them
CopyCount(n) == Plus(n, Space - 2)

\* __REALLOC after the allocation: the two bytes kept aside, then the others
\* from where the block was.
ReallocCopy ==
    /\ pc = "copy"
    /\ job.op = "realloc"
    /\ LET first == StoreWord(mem, ret, job.first)
           count == CopyCount(job.n)
       IN  mem' = IF count = 0 THEN first
                  ELSE Ldir(first, Plus(job.src, 2), Plus(ret, 2), count)
    /\ data' = Remember(Forget(job.src), ret, [n |-> job.n, bytes |-> <<>>])
    /\ pc' = "idle"
    /\ job' = NoJob
    /\ UNCHANGED <<cur, temp, len, blk, ret>>

\* The program fills a block it holds.
Write(p, mark) ==
    /\ pc = "idle"
    /\ LET bytes == [i \in 1 .. data[p].n |-> (mark + i) % Base]
       IN  /\ mem' = [a \in Addresses |->
                        IF p <= a /\ a < p + data[p].n THEN bytes[a - p + 1] ELSE mem[a]]
           /\ data' = [data EXCEPT ![p].bytes = bytes]
    /\ UNCHANGED <<pc, cur, temp, len, blk, job, ret>>

-----------------------------------------------------------------------------
Call ==
    \/ \E op \in {"alloc", "calloc"}, n \in Requests : MemAlloc(op, n)
    \/ \E p \in DOMAIN data : MemFree(p)
    \/ \E p \in DOMAIN data, n \in Requests : Realloc(p, n)

Step ==
    \/ AllocFail \/ AllocSkip \/ AllocWhole \/ AllocSplit
    \/ FreeSkip \/ FreeLink \/ JoinBlock \/ JoinPrev
    \/ CallocFill \/ ReallocCopy

Next == Call \/ Step \/ \E p \in DOMAIN data, mark \in Marks : Write(p, mark)

Spec == Init /\ [][Next]_vars

\* The processor goes on executing a routine it has entered.
FairSpec == Spec /\ WF_vars(Step)
-----------------------------------------------------------------------------
\* Type invariant.
\* The program finds in its blocks what it wrote there, or the zeros of
\* __MEM_CALLOC, whatever the manager has done with other blocks since, and
\* they have room for all it asked for.  (A block being reallocated is the
\* manager's.)
ContentsIntact ==
    \A p \in DOMAIN data \ {job.src} :
       /\ p - 2 >= FirstBlock /\ p + data[p].n <= HeapEnd
       /\ Word(mem, p - 2) >= data[p].n + 2
       /\ \A i \in 1 .. Len(data[p].bytes) : mem[Plus(p, i - 1)] = data[p].bytes[i]

\* Nothing outside the heap is written.
Confined ==
    \A a \in Addresses \ (HeapStart .. (HeapEnd - 1)) : mem[a] = Outside(a)

\* The places step leads to from first, each one after the place it is reached from.
Reached(first, step) ==
    LET at[a \in first .. (HeapEnd - 1)] ==
            \/ a = first
            \/ \E b \in first .. (a - 1) : step[b] = a /\ at[b]
    IN  {a \in first .. (HeapEnd - 1) : at[a]}

\* The block starts found by following lengths, and the free ones by links.
BlockStarts == {HeapStart} \union Reached(FirstBlock, [b \in Addresses |-> b + Length(b)])
FreeStarts == Reached(HeapStart, [b \in Addresses |-> Link(b)])

\* Refinement: the bytes and the registers as the blocks of Heap.tla.
Freeing == pc \in {"mem_loop2", "join_block", "join_prev"}

SizeNow == [b \in BlockStarts |-> Length(b)]
NextNow == [b \in FreeStarts |-> Link(b)]
PcNow == IF pc = "copy" THEN "idle" ELSE pc
PrevNow == IF temp = Null THEN Null ELSE temp - 2
TodoNow == IF Freeing THEN job.n ELSE 0

Blk == INSTANCE Heap WITH
          size <- SizeNow, next <- NextNow, pc <- PcNow, prev <- PrevNow, todo <- TodoNow

\* The code that reads and writes memory does what the block-level one says.
ImplementsHeap == Blk!Spec
=============================================================================
