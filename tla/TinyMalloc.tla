---------------------------- MODULE TinyMalloc ----------------------------
(***************************************************************************)
(* The allocator of the debug programs                                     *)
(* (testbench/riscv-tests/debug/programs/tiny-malloc.c), built with the    *)
(* upward-growing heap that is its default.  A block is a size_t that      *)
(* holds its size, followed by what the program gets.  Free blocks are     *)
(* chained in the order of their addresses, first fit; the heap grows at   *)
(* __malloc_end towards the stack.                                         *)
(***************************************************************************)
EXTENDS Integers, Sequences, FiniteSets, SequencesExt

CONSTANTS
    Start,       \* the address __malloc_start
    Frame,       \* the frame address of the callers, where the stack ends
    Word,        \* size_t wraps at this number
    Sizes,       \* what is asked for
    Aligns,      \* and with which alignments
    PAGE,        \* the alignment of valloc and pvalloc
    Chunks       \* how many chunks the program keeps at most

SizeT == 8       \* sizeof(size_t), the offset of what the program gets
Entry == 16      \* sizeof(struct freelist_entry), the smallest block
GAP   == 32      \* MALLOC_MINIMUM_GAP

PowersOf2 == {a \in 1 .. Word - 1 : \A d \in 1 .. a : a % d = 0 => d = 1 \/ d % 2 = 0}
M_ALIGN(x, align) == (-x) % align
REAL_SIZE(sz) == IF sz < Entry - SizeT THEN Entry ELSE sz + SizeT + M_ALIGN(sz, SizeT)

(* Requests are small enough for sizes and addresses not to wrap, and the  *)
(* frame of every caller is at one address.                                *)
ASSUME MallocAssumption ==
    /\ Word \in Nat /\ PAGE \in Nat \ {0} /\ Sizes \subseteq Nat /\ Aligns \subseteq Nat
    /\ Start \in Nat /\ Frame \in Nat /\ Start % SizeT = 0 /\ Start + GAP <= Frame
    /\ \A sz \in Sizes : \A align \in Aligns \cup {PAGE} :
          REAL_SIZE(2 * sz + PAGE) + align + Entry + Frame < Word

VARIABLES
    freelist,    \* __malloc_freelist, the blocks in the order of the chain
    end,         \* __malloc_end
    used,        \* the blocks of the program, with the length and alignment
                 \* it asked for and the bytes whose data it relies on
    base         \* __malloc_end when the program was last started
vars == <<freelist, end, used, base>>

Init == freelist = <<>> /\ end = Start /\ used = {} /\ base = Start

(* An operation works on the chain and __malloc_end and leaves these two   *)
(* and the block it returns.                                               *)
heap == [free |-> freelist, end |-> end]
Block(at, size) == [at |-> at, size |-> size]
NULL == Block(0, 0)
Gives(free, e, block) == [free |-> free, end |-> e, block |-> block]
Fails(h) == Gives(h.free, h.end, NULL)

CAN_ALLOC_P(e, required) == (Frame - e - GAP) % Word >= required

(* The chain with the blocks of m in place of those from i to k - 1: what  *)
(* a write through nextfree makes of it.                                   *)
Relinked(chain, i, k, m) == SubSeq(chain, 1, i - 1) \o m \o SubSeq(chain, k, Len(chain))
First(S) == CHOOSE i \in S : \A j \in S : i <= j
EndsHeap(h) == h.free # <<>> /\ Last(h.free).at + Last(h.free).size = h.end

-----------------------------------------------------------------------------
(* malloc: the first block that is large enough, split unless the rest     *)
(* could not be a block; else the last block, enlarged, if it ends the     *)
(* heap; else a new one.                                                   *)
Split(h, i, real) ==
    LET b == h.free[i]
    IN  IF b.size < real + Entry
        THEN Gives(Relinked(h.free, i, i + 1, <<>>), h.end, b)
        ELSE Gives(Relinked(h.free, i, i + 1, <<Block(b.at + real, b.size - real)>>), h.end,
                   Block(b.at, real))

Enlarge(h, real) ==
    LET b == Last(h.free)
    IN  IF CAN_ALLOC_P(h.end, real - b.size)
        THEN Gives(Relinked(h.free, Len(h.free), Len(h.free) + 1, <<>>), b.at + real,
                   Block(b.at, real))
        ELSE Fails(h)

Fresh(h, real) ==
    IF CAN_ALLOC_P(h.end, real)
    THEN Gives(h.free, h.end + real, Block(h.end, real))
    ELSE Fails(h)

malloc(h, sz) ==
    LET real == REAL_SIZE(sz)
        fits == {i \in DOMAIN h.free : h.free[i].size >= real}
    IN  IF fits # {} THEN Split(h, First(fits), real)
        ELSE IF EndsHeap(h) THEN Enlarge(h, real)
        ELSE Fresh(h, real)

-----------------------------------------------------------------------------
(* free: the block joins the free blocks it touches; else it goes before   *)
(* the first one behind it.                                                *)
Ends(b) == b.at + b.size
Meets(chain, block) ==
    {i \in DOMAIN chain : Ends(chain[i]) = block.at \/ chain[i].at > block.at}
FreeJoinsOne(h, block) ==  \* fault: the block behind is not joined as well
    LET i == First(Meets(h.free, block) \cup {Len(h.free) + 1})
        b == h.free[i]
    IN  [h EXCEPT !.free =
            IF i > Len(@) THEN Relinked(@, i, i, <<block>>)
            ELSE IF Ends(b) = block.at
            THEN Relinked(@, i, i + 1, <<Block(b.at, b.size + block.size)>>)
            ELSE IF b.at = Ends(block)
            THEN Relinked(@, i, i + 1, <<Block(block.at, block.size + b.size)>>)
            ELSE Relinked(@, i, i, <<block>>)]

free(h, block) ==
    LET i == First(Meets(h.free, block) \cup {Len(h.free) + 1})
        b == h.free[i]
        joins == i < Len(h.free) /\ h.free[i + 1].at = Ends(block)
    IN  [h EXCEPT !.free =
            IF i > Len(@) THEN Relinked(@, i, i, <<block>>)
            ELSE IF Ends(b) = block.at
            THEN IF joins
                 THEN Relinked(@, i, i + 2, <<Block(b.at, b.size + block.size + @[i + 1].size)>>)
                 ELSE Relinked(@, i, i + 1, <<Block(b.at, b.size + block.size)>>)
            ELSE IF b.at = Ends(block)
            THEN Relinked(@, i, i + 1, <<Block(block.at, block.size + b.size)>>)
            ELSE Relinked(@, i, i, <<block>>)]

-----------------------------------------------------------------------------
(* memalign: what is in front of the aligned block is zero bytes or enough *)
(* for a block of its own, which stays free.                               *)
BeforeNoBlock(at, align) == M_ALIGN(at + SizeT, align)  \* fault: room for no block
Before(at, align) ==
    IF M_ALIGN(at + SizeT, align) = 0 THEN 0 ELSE Entry + M_ALIGN(at + Entry + SizeT, align)

Place(h, i, real, align) ==
    LET b == h.free[i]
        before == Before(b.at, align)
        rest == b.size - before
        whole == rest <= real + Entry
        front == IF before = 0 THEN <<>> ELSE <<Block(b.at, before)>>
        back == IF whole THEN <<>> ELSE <<Block(b.at + before + real, rest - real)>>
    IN  Gives(Relinked(h.free, i, i + 1, front \o back), h.end,
              Block(b.at + before, IF whole THEN rest ELSE real))

(* The last block is made to end the heap and to be large enough. *)
Extend(h, real, align) ==
    LET b == Last(h.free)
        size == Before(b.at, align) + real
    IN  IF b.size >= size THEN Place(h, Len(h.free), real, align)
        ELSE IF ~CAN_ALLOC_P(h.end, size - b.size) THEN Fails(h)
        ELSE Place([free |-> Relinked(h.free, Len(h.free), Len(h.free) + 1, <<Block(b.at, size)>>),
                    end |-> b.at + size], Len(h.free), real, align)

memalign(h, align, sz) ==
    LET real == REAL_SIZE(sz)
        fits == {i \in DOMAIN h.free : h.free[i].size >= real + Before(h.free[i].at, align)}
        size == real + M_ALIGN(h.end + SizeT, align)
    IN  IF align \notin PowersOf2 THEN Fails(h)
        ELSE IF fits # {} THEN Place(h, First(fits), real, align)
        ELSE IF EndsHeap(h) THEN Extend(h, real, align)
        ELSE IF CAN_ALLOC_P(h.end, size)
        THEN Extend([free |-> Relinked(h.free, Len(h.free) + 1, Len(h.free) + 1,
                                       <<Block(h.end, size)>>),
                     end |-> h.end + size], real, align)
        ELSE Fails(h)

-----------------------------------------------------------------------------
(* The calls of the program *)

Chunk(block, len, align, held) ==
    [at |-> block.at, size |-> block.size, len |-> len, align |-> align, held |-> held]
Leaves(r, kept, new) ==
    /\ freelist' = r.free /\ end' = r.end
    /\ used' = kept \cup (IF r.block = NULL THEN {} ELSE {new})
    /\ UNCHANGED base

(* The program fills what it gets. *)
Returns(r, len, align) == Leaves(r, used, Chunk(r.block, len, align, len))

Malloc(sz) == Returns(malloc(heap, sz), sz, SizeT)

(* memset zeroes all that was asked for. *)
Calloc(count, sz) == Returns(malloc(heap, (count * sz) % Word), count * sz, SizeT)

Memalign(align, sz) == Returns(memalign(heap, align, sz), sz, align)
Valloc(sz)  == Memalign(PAGE, sz)
Pvalloc(sz) == Memalign(PAGE, sz + M_ALIGN(sz, PAGE))

Free(c) ==  \* and cfree
    LET h == free(heap, Block(c.at, c.size))
    IN  Leaves(Gives(h.free, h.end, NULL), used \ {c}, c)

Min2(m, n) == IF m < n THEN m ELSE n

(* realloc: a block that is too small is replaced by a larger one, which   *)
(* gets its data; one that is too large gives its tail back.               *)
CopiesOld(c, sz) == c.size - Entry  \* fault: the copy is one size_t short
Copied(c, sz) == Min2(c.size - SizeT, sz)

Move(c, sz) ==
    LET r == malloc(heap, sz)
        h == free([free |-> r.free, end |-> r.end], Block(c.at, c.size))
    IN  /\ c.size < REAL_SIZE(sz)
        /\ IF r.block = NULL THEN UNCHANGED vars
           ELSE Leaves(Gives(h.free, h.end, r.block), used \ {c},
                       Chunk(r.block, sz, SizeT, Min2(c.held, Copied(c, sz))))

Shrink(c, sz) ==
    LET real == REAL_SIZE(sz)
        tail == c.size - real
        h == free(heap, Block(c.at + real, tail))
        held == Min2(c.held, sz)
    IN  /\ c.size >= real
        /\ IF tail >= Entry
           THEN Leaves(Gives(h.free, h.end, Block(c.at, real)), used \ {c},
                       Chunk(Block(c.at, real), sz, SizeT, held))
           ELSE Leaves(Gives(freelist, end, Block(c.at, c.size)), used \ {c},
                       Chunk(Block(c.at, c.size), sz, SizeT, held))

Realloc(c, sz) == Move(c, sz) \/ Shrink(c, sz)

malloc_usable_size(c) == c.size - SizeT

MallinfoNoHeaders ==  \* fault: free_size leaves the headers out
    LET total == end - Start
        free_size == FoldSeq(LAMBDA b, sum : b.size - SizeT + sum, 0, freelist)
    IN  [arena |-> total, fordblks |-> free_size, uordblks |-> total - free_size,
         ordblks |-> Len(freelist),
         keepcost |-> IF EndsHeap(heap) THEN Last(freelist).size ELSE 0]
mallinfo ==
    LET total == end - Start
        free_size == FoldSeq(LAMBDA b, sum : b.size + sum, 0, freelist)
    IN  [arena |-> total, fordblks |-> free_size, uordblks |-> total - free_size,
         ordblks |-> Len(freelist),
         keepcost |-> IF EndsHeap(heap) THEN Last(freelist).size ELSE 0]

(* A debugger runs the program again: main (debug.c) clears the free list, *)
(* __malloc_end stays where it was.                                        *)
Restart ==
    /\ freelist' = <<>> /\ used' = {} /\ base' = end
    /\ UNCHANGED end

Next ==
    \/ /\ Cardinality(used) < Chunks
       /\ \E sz \in Sizes : \/ Malloc(sz) \/ Calloc(2, sz) \/ Valloc(sz) \/ Pvalloc(sz)
                           \/ \E align \in Aligns : Memalign(align, sz)
    \/ \E c \in used : Free(c) \/ \E sz \in Sizes : Realloc(c, sz)
    \/ Restart

Spec == Init /\ [][Next]_vars

-----------------------------------------------------------------------------
(* Properties *)

Blocks(chunks) == {Block(c.at, c.size) : c \in chunks}
Behind(b, d) == Ends(d) <= b.at

(* The blocks S cut the memory from one address to another in pieces: each *)
(* is aligned and can be freed, no two overlap, and where one ends the     *)
(* next begins.                                                            *)
Tiled(S, from, e) ==
    /\ \A b \in S :
          /\ from <= b.at /\ Ends(b) <= e
          /\ b.at % SizeT = 0 /\ b.size % SizeT = 0 /\ b.size >= Entry
    /\ \A b, d \in S : b # d => Behind(b, d) \/ Behind(d, b)
    /\ from = e \/ \E b \in S : b.at = from
    /\ \A b \in S : Ends(b) = e \/ \E d \in S : d.at = Ends(b)

(* The chain is in the order of the addresses and no two blocks touch.     *)
Chained(chain) ==
    \A i, j \in DOMAIN chain : i < j => Ends(chain[i]) < chain[j].at

(* No byte of the heap is lost or given out twice, whatever calls failed:  *)
(* free and used blocks together are the heap since the program started,   *)
(* which stays MALLOC_MINIMUM_GAP below the stack; the chain is ordered    *)
(* and joined; and each chunk has the bytes the program asked for.         *)
HeapInv ==
    /\ base <= end /\ end <= Frame - GAP
    /\ Tiled(Range(freelist) \cup Blocks(used), base, end)
    /\ Chained(freelist)
    /\ Range(freelist) \cap Blocks(used) = {}
    /\ \A c, d \in used : c # d => c.at # d.at
    /\ \A c \in used : c.len <= malloc_usable_size(c)

(* mallinfo counts the bytes of the used blocks, and after a restart those *)
(* the program held before, which are lost.                                *)
MallinfoCounts ==
    MapThenSumSet(LAMBDA c : c.size, used) + base - Start = mallinfo.uordblks

(* "or null if no space is available": an allocation fails only if no free *)
(* run of bytes could hold it, since free blocks are joined and the last   *)
(* one can grow.                                                           *)
Fits(from, size) ==
    /\ from + size <= Frame - GAP
    /\ \A c \in used : from + size <= c.at \/ Ends(c) <= from
Starts == {base} \cup {Ends(c) : c \in used}
NullMeansFull ==
    \A sz \in Sizes :
        /\ malloc(heap, sz).block = NULL =>
              \A from \in Starts : ~Fits(from, REAL_SIZE(sz))
        /\ \A align \in Aligns \cap PowersOf2 :
              memalign(heap, align, sz).block = NULL =>
                 \A from \in Starts : ~Fits(from, Before(from, align) + REAL_SIZE(sz))

(* The allocator as the program knows it.                                  *)
Requests == Sizes \cup {2 * sz : sz \in Sizes} \cup {sz + M_ALIGN(sz, PAGE) : sz \in Sizes}
Seen(c) == [at |-> c.at + SizeT, len |-> c.len, align |-> c.align, held |-> c.held]
HS == INSTANCE HeapService
        WITH Arena <- Start .. Frame - GAP - 1, Lengths <- Requests,
             chunks <- {Seen(c) : c \in used}
HeapServed == HS!Spec
=============================================================================
