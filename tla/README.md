# TLA+ verification of the SweRV EH1 core (RV64IMFDCB, dual issue) and its programs

The repository holds the RTL of a dual-issue, nine-stage, in-order RISC-V core
(Western Digital's SweRV EH1, widened here to RV64 with the F, D and B
extensions) and the programs that are run on it: multi-hart kernels, programs
for the debugger, the supervisor of the virtual-memory tests, benchmarks.  This
directory holds TLA+ modules of the parts whose correctness depends on
interleavings or on long sequences of operations: in the core several operations
in flight, several bus masters, answers out of order, flushes, freezes and clocks
of different speed; in the programs harts that share memory, a heap, and pages
that come and go under a running test.

Conventions of the modules of the core (the programs' modules have one action
per call, access or trap):

- One step is one edge of the core clock.  A register of the RTL is a variable,
  its next-state expression the primed side of an action, a combinational signal
  an operator that keeps the RTL's name, and a primary input a quantified
  parameter of the next-state relation, drawn from the values the rest of the
  core can produce.
- A slower bus clock is an input of the step ("this core clock is also one of
  the bus"); registers on that clock keep their value otherwise.
- Since hardware registers all move together, there is one action per clock,
  split into one conjunct per block of the RTL; the operations of a block are
  the disjuncts or cases of its conjunct, and each is reached in the runs.
- Reset states are those of `rvdff`, `rvdffs`, `rvdffsc` (`lib/beh_lib.sv`);
  where both are present, clear wins over enable.  Gated clocks are enables.
- Operators marked "fault" are plausible mistakes in the operator below them.
  No specification uses them: each is substituted in turn to see that a
  property fails, so that the property is known to depend on the code.

## 1. Inventory

| component (design/, testbench/) | state | operations and partners | what is hard | what makes it correct |
|---|---|---|---|---|
| LSU store buffer: lsu_stbuf, lsu | ring of entries with valid, drain, flush marks | write in dc3 (store, ECC repair, DMA), mark in dc5, drain to the DCCM | three operations in flight when "full" is computed; drain, flush and write in one clock | no entry lost, overwritten or unresolved; stalled stores get room |
| DCCM pipe: lsu_dccm_ctl, lsu_ecc, lsu_lsc_ctl | dc1 to dc5, banks | read, forward, correct, merge, write | forwarding from entries that may still be flushed; read-modify-write; repairs | one coherent memory |
| LSU bus buffer: lsu_bus_buffer, lsu_bus_intf | merge buffer, eight entries, output buffer, freeze | allocate, merge, send, answer, forward; AXI master | tags handed out ahead of time, order by age vectors, AW and W apart, answers in any order | loads see program order, commands neither lost nor doubled, freeze ends |
| non-blocking loads: dec_decode_ctl | CAM of pending loads, destination pipe | allocate in dc3, invalidate in dc5, return | return races with younger writers, readers and flushes | a return writes exactly when it should |
| rest of decode, instruction buffer, register files | pipe of packets | pair, bypass, stall | two slots, slip, freeze | in-order semantics |
| TLU: dec_tlu_ctl | CSRs, halt, debug, MPC and PMU state | exceptions, interrupts, halts | requests of three masters in any order | precise events; halted means idle |
| execution, dividers: exu | pipes, divider state | compute, mispredict | cancel of a running divide | arithmetic; flush order |
| fetch: ifu_ifc_ctl, ifu_mem_ctl, ifu_aln_ctl, ifu_bp_ctl | fetch and miss FSM, buffers, predictors | fetch, miss, fill, align | flush at any beat of a miss | the right bytes, in order |
| DMA: dma_ctrl | channel buffers, fifo of four, nack counter | accept, issue, return, answer; debugger | full known late, two latencies, debugger past the masters | served once, in order |
| debug: dbg, dmi | halt FSM, command FSM, system bus FSM | DMI registers, abstract commands, bus accesses | commands, resets and halts race | every command ends, with its status |
| bridges: axi4_to_ahb, ahb_to_axi4 | FSM and buffers | translate | streaming, errors in the second cycle | one transfer for one |
| PIC: pic_ctrl | gateways, enables, priorities | arbitrate, claim | edges during a claim | highest priority wins, no edge lost |
| FPU, HardFloat | pipes | arithmetic | data | IEEE 754 |
| multi-hart kernels: riscv-tests/mt, benchmarks/common/util.h, mt-matmul.c | C, scratch copies of B, the barrier's count and senses | each hart adds its share, copies, meets at barriers, verifies | no locks: the shares must be disjoint or separated by barriers; the barrier is used again at once | the product is exact whatever the interleaving; the barrier is a rendezvous |
| allocator: debug/programs/tiny-malloc.c | free list in address order, end of the heap | malloc, calloc, realloc, free, memalign, valloc, pvalloc, mallinfo | splitting, joining, growing, leading blocks of memalign, failures in the middle | chunks apart, aligned and kept; no byte lost; null only when full |
| test supervisor: env/v/vm.c | page table, list of frames, mapping | boot, page faults, accessed and dirty faults, eviction, exit | stale translations, retries, frames running out, order of copies | the test sees flat memory; assertions hold; instructions get through |
| benchmarks, other debug programs, debugger tests | | | sequential | |

Arrows between the modelled parts: decode issues loads and stores into dc1 and
obeys the LSU's stalls; the LSU pipe hands DCCM accesses to the store buffer and
external accesses to the bus buffer; the bus buffer returns loads to decode by
tag; the DMA controller enters the LSU pipe in dc1 when it finds it idle, and
answers from dc3; the debug module uses the DMA controller's fifo.  The kernels
call the barrier between their steps; the other programs run alone.

`PROJECT.json` lists every component with its status, and the hazards, each at
its line with the properties that watch it.

## 2. Plan

Done, in this order: `StoreBuffer` (control) and its proofs; `DccmPipe` (data)
with its abstract specification `CoherentMemory`; `LsuBusBuffer`;
`NonblockLoads`; `DmaCtrl` with its abstract specification `DmaService`; then the
programs: `SenseBarrier` with its abstract specification `Rendezvous`,
`MtKernels` and `MtMatmul`, which runs kernels and barrier together, and their proofs;
`TinyMalloc` with its abstract specification `HeapService`; `TestVm`.

What would come next, in order: the debug module composed with `DmaCtrl` (its
FSM and the early answer to writes); halt, resume and step of the TLU; the AHB
bridges against one transfer specification; instruction fetch with misses; PIC
gateways; the DMI's two clocks; pairing and bypass of decode; SECDED and the SRT
recurrences as pure algorithms.

## 3. Modules

### LsuFlush

The flushes of the LSU stages as five levels of depth (`lsu.sv:287-291`), and the
registers `i0_flush_final_e3` and `i1_flush_final_e3` through which a mispredict
reaches the stages.  They load only while the pipe is not frozen
(`dec_decode_ctl.sv:1960`), so a mispredict that they take on the edge on which a
freeze begins stays in them (`FlushRegister`): the branch in i0 whose pair in i1 is
the load that freezes the pipe.  It kills the load in dc3 and ends the freeze
(`lsu_bus_buffer.sv:792`).  A flush from writeback sets both registers
(`exu.sv:759-761`).  `StoreBuffer`, `LsuBusBuffer` and `NonblockLoads` have the
registers as `flush_e3`; "any" stands for whatever the branches of a clock in which
the pipe moves give them.

### StoreBuffer, MCStoreBuffer, StoreBufferProofs

`WrPtr`, `RdPtr`, `data_vld`, `drain_vld`, `flush_vld` and `stbuf_dma` are the
registers of `lsu_stbuf.sv` (bit vectors as sets of entries), `dc1` to `dc5` the
stages as far as the buffer looks at them, `ld_freeze` the freeze of the bus
interface, `store_wait` a store held at decode.  A clock is one of three cases
of what dc3 does: a store writes one or two entries, a load with a correctable
error writes its repair, or nothing is written; with it the buffer resolves the
entries of dc4 and dc5 and pops the head.  The bank conflict with the load in
dc1, the outcome of ECC and the end of a freeze are inputs here.

Decode may always hold an instruction back; it must do so when the buffer says
full.  The freeze is over-approximated: any external load in dc3 may freeze.

### DccmPipe, MCDccmPipe, CoherentMemory, DccmOrder, DccmPipeProofs

`DccmPipe` extends `StoreBuffer` with the addresses, byte enables and data of
the entries, the memory, what dc1 has read, what the buffer forwards in dc2, and
the merge in dc3; the bank conflict and the ECC outcome, inputs there, now follow
from these.
A step conjoins the control step with the data step, so what is shown of
`StoreBuffer` carries over by the shape of the definitions.  A cell may flip in any
double word of `Flippable`, at most one bit in each, since double errors end in an
exception and a flush.
`DccmCycle(ops, flips)` is a clock with the operations and flips to choose from;
`DccmNext` takes them all.

`CoherentMemory` is the promise: one memory, on which each operation takes
effect when it commits.  The refinement mapping `VisibleMemory` lays the
committed entries over the memory; `Coherent` is `CM!Spec`.

`DccmOrder` says how the entries lie over the memory in program order and states
the inductive invariant of the data, `DataInv`, which the run checks and
`DccmPipeProofs` proves.

### LsuBusBuffer, MCLsuBusBuffer, LsuBusBufferProofs

The path of external accesses: pipe, `ibuf` (merging), `buf` with
`IDLE, WAIT, CMD, RESP, DONE` and age vectors, `obuf`, the three AXI command
channels and two response channels.  The slave performs any outstanding command
next, so answers come in any order.  `arch` (memory in program order), `want`
(what each load should return) and `older` (for each tag whose access the slave
has not performed, those of the accesses in front of it) are ghosts that no action
reads.  A behaviour keeps to one of the `Settings`: the
chicken bits (coalescing, posted side effects, non-blocking loads), the
operations, the clocks and the flushes.

Not modelled: atomics, and lanes finer than the model's bytes (alignment and
sign extension are functions of the data returned).

### NonblockLoads, MCNonblockLoads, NonblockLoadsProofs

The two slots of the pipe from e1 to wb as far as destinations are concerned,
the CAM, the conditions under which decode stalls a reader and under which a
load blocks the pipe because a reader is already behind it, and the third write
port.  `pend` is a ghost: for each register the load whose data it waits for in
program order.  Loads of both slots in one clock do not exist in the core (one
LSU), so neither do they here.  The register dependences of floating-point
registers are not modelled; a floating-point load appears because it must never
leave the pipe without its data.

### DmaCtrl, DmaService, MCDmaCtrl, DmaCtrlProofs

The channel buffers `wrbuf`, `wrbuf_data`, `rdbuf`; the `fifo` with its valid,
error, data valid, pending, done and done-on-the-bus bits; `WrPtr`, `RdPtr`,
`RspPtr` and the three delayed copies of `RdPtr` by which read data finds its
slot; the copies of full, bubble and stall taken at the bus clock; the nack
counter.  `lsu` and `ifu` are the reads in the pipes of the two memories (three
clocks and two), `dbg` the part of the debug module's FSM that starts a command
and waits for it.  `aw_seq` and `w_seq` number write addresses and data modulo
two, to see that they stay paired.

`DmaService` is the promise: a queue of commands, taken, issued and answered in
order, each with a result it may have.  The mapping `Accepted` reads the queue
off the fifo from `RspPtr`.

A debugger write is answered in the clock after it enters the fifo, before the
memory has confirmed it.  The model lets the memory take a debugger command at
once (`ReadyInputs`), because the debug module issues them only with the core
halted and its pipes empty; this has to be shown of the debug module and the
TLU.  The memories' pipes do not freeze while a DMA read is in them, which
`DmaFollowsNoCoreOp` and `FreezeHasOwner` show of the LSU.

### SenseBarrier, Rendezvous

`barrier(ncores)` of `benchmarks/common/util.h`: `count` and `sense` are its
static variables, `threadsense` its thread-local one.  The atomic increment is
one step (`Arrive`), clearing the count and writing the sense are two
(`ClearCount`, `Release`), and a waiting hart leaves when it sees its sense
(`SpinEnds`).  `entered`, `left` and `rounds` count calls, returns and rounds; no
action reads them.  `Rendezvous` is the promise.

### MtKernels, MtMatmul, MtShares, MCMtMatmul, MtMatmulProofs

`MtKernels` has one definition per kernel of `riscv-tests/mt`, named like its
file.  A kernel is the program of one hart: the blocks of C it adds products to,
the rows of B it copies to scratch memory, and the steps a barrier follows.  Loops
become ranges; an unrolled body keeps its width, so that a stride that differs
from it shows as a product counted twice or never.  What the source writes as 32
stays 32, and the strides of the rows of A, B and C are part of the kernel: the
arrays are flat, and a kernel that takes rows of 32 finds other cells in an array
with rows of 16, or none.

`MtMatmul` runs a kernel on every hart (`thread_entry` of `mt-matmul.c`): a step
loads the cells it needs and stores the sums in two moments, between which the
other harts move.  A cell of C is the set of products in it, which tells every
wrong sum from the right one; a product added twice or read from a copy that is
not there yet makes the cell wrong for good, or leaves it without the product
where the static copy still has its zeros.  `mt/Makefile:114-115` links every
kernel with the one dataset there is, 16 by 16 (`mt-matmul/dataset.h:5-8`), and so
does `Program`: `Linked` unrolls each kernel on the flat arrays of `DIM_SIZE`.  The
variable `kernel` is the linked program itself, so kernels that differ only in the
order of their inner loops (`bh` and `bj`, `ag` and `cg`) share their states.  Two
shortcuts: the transposed copy that `at` makes on the stack is folded into the
places of B it reads, and hart 1's private copies of A and B in `cy` are read as A
and B.  Accesses outside the arrays are dropped, as what lies there is not known.

Of the 44 kernels 21 compute the product on this dataset.  The other 23 were
written for 32 by 32 and miss it whatever the interleaving (`ce` may even race):

| kernels | what is 32 whatever `lda` is |
|---|---|
| ad af am ay az bk cf cm cy do du dv, bo | the distance of rows in A, B or C (`row=l*32`, `j<<5`, `A_j += 32`) |
| al av bf cl cv df | the ends of the loops, over rows that are `lda` apart |
| br dr | the blocks of rows and products; columns in steps of 16, so that the harts overlap |
| ce | the columns that are shared out (`32 / ncores`) |
| at | the size of the transposed copy, whose rows are `lda` apart and overlap |

`MtShares` says what a kernel gets right in its text alone (`Disciplined`): all
harts call the barrier equally often; steps of different harts with as many
barriers before them touch no common cell or copy (`EpochsApart`) and none outside
the arrays (`InBounds`); each product is added by one step (`ProductsOnce`); and a
copy is complete, by the hart itself or behind a barrier, before it is read
(`CopiesFirst`).

Five `vvadd` kernels are not modelled: one loop each over elements that no two
harts share.

### TinyMalloc, HeapService, MCTinyMalloc, TinyMallocProofs

`debug/programs/tiny-malloc.c` with the heap that grows upwards, which is how the
programs are built.  `freelist` and `end` are `__malloc_freelist` and
`__malloc_end`; blocks are addresses and sizes, so splitting, joining and growing
are arithmetic on them as in the code, with the unsigned wrap of `CAN_ALLOC_P`.
A write through `nextfree` replaces a stretch of the list (`Relinked`).
Functions of the source that call each other (`realloc` calls `malloc` and
`free`) are operators from heap to heap; each call of the program is an action.
`used` is what the program holds, with the length and alignment it asked for and
how many bytes of data it relies on; `base` is the end of the heap when the
program was last started, since a restart clears the list but not the end.

`HeapService` is the promise to the program: chunks apart, aligned, with their
data kept until they are given back.

Assumed (`MallocAssumption`): requests so small that neither the rounding nor an
address wraps (`size_t` wraps at `Word`), and callers whose frames are at one
address.  The source warns of a stack that grows into
the heap (`tiny-malloc.c:97-100`); `CAN_ALLOC_P` then wraps and grants everything.

### TestVm, MCTestVm, TestVmProofs

`env/v/vm.c`.  `user_llpt` is the last-level page table, `tlb` what the hart keeps
of it until `sfence.vma`, `node` the two arrays of list nodes with their links as
in the code, `mem` the contents of pages and frames, `seen` what the test has in
its pages (a ghost).  An instruction (`inst`) is fetched from one page and may
access another; it is tried again after each fault.  The hart may cache and drop
any entry at any time, also an invalid one, and either sets accessed and dirty
bits or faults.  A fault handler is one step: it runs with interrupts off, and
other harts only read the memory or add zero to it.

The fssr branch of `handle_trap` ("FP test on non-FP hardware.  "succeed."",
`vm.c:197`) is not modelled because it is never entered: `medeleg` (`vm.c:276`)
does not delegate illegal instructions, so such a test ends in `wtf` with 841
(action `wtf`).  What `evict` leaves in the frame list (a node with address 0
behind a tail that may have been cleared) is modelled, but nothing is claimed of
it: the list is not used again before `terminate`.

## 4. Runs

| run | bounds | what it shows |
|---|---|---|
| store_buffer | DEPTH 3, six shapes of operation, every flush, fair clock | the ring, marks, ownership and room (`BufferInv`); DMA after no core operation; a freeze has its owner; a stalled store gets room although loads may use the port in every clock |
| dccm | DEPTH 4, 2 double words in 2 banks, 2 bytes; one of three sets of operations per behaviour: overlapping and misaligned core accesses, core against DMA with a freezing load, cells that flip | entries, reads and forwarded bytes have the data of program order (`DataInv`); the pipe is a coherent memory (`Coherent`), with replays when the buffer is full |
| bus | DEPTH 4; one of five settings per behaviour: stores that merge, the same stores kept apart, a store and a load on a slower bus clock, accesses to two double words with all flushes (also held through a freeze), freezes and errors, side effects not posted | tags, ages, one access per double word (`BusInv`), conservation of commands, program order, youngest store wins, misaligned loads, freeze, side effects, meaning of empty |
| bus_live | fair bus | entries and freezes end |
| nonblock | 3 tags (symmetric), 2 registers and x0, all flushes | returns against younger writers; readers wait |
| dma | 2 slots, QOS 1, three commands of masters and two of the debugger | order and results, overflow, the debugger alone, write pairing |
| dma_live | QOS 2, fair memory and masters, one command in error, no debugger | commands are answered; both channels move |
| mt_matmul | 2 harts, the 21 kernels that are right on the 16 by 16 dataset, every interleaving of their steps | exact product, no races, work shared out so that no locks are needed, barrier a rendezvous, all harts exit |
| mt_race | 2 harts, kernel `ce` | finding: a sum is lost |
| tiny_malloc | 14 words of heap, 4 chunks, sizes 0, 9, 24 and their multiples, alignments 0, 8, 12, 32, restarts | no byte lost or given twice, list ordered and joined, failure only when full, mallinfo counts what is used, promise kept |
| vm | 2 pages and 3 frames with every access, also wild ones, hart with and without hardware update of the bits; 62 pages and 63 frames from every seed | the test sees flat memory, frames owned once, assertions hold, instructions get through |
| vm_signature | as `vm` | finding: pages are overwritten when they are evicted |

Why the bounds suffice: the store buffer's DEPTH 3 is smaller than the
configured 8 and makes every full and wrap-around case occur with the (at most
six) entries that the pipe can add; the proofs hold for every depth.  `dccm` takes
DEPTH 4: two older entries that wait for their bank keep a flushed one in the
buffer until the next load reaches dc2; three entries are too few for that.  The sets of
operations and settings of `dccm` and `bus` are kept apart because their product
is out of reach; each holds the accesses that meet in one mechanism.  The bus
buffer needs at least three entries for a dual access and one in the merge
buffer; at 4 the stall by occupancy, tag reuse and the merge all meet.  Two
values of a byte tell an old store from a new one, three a third.  A CAM entry
interacts only with the entries of its tag and its register; with 3 tags two loads
are outstanding, so they return in either order, and a tag is reused while a
reader of its last load is in the pipe.  Tags are only compared, hence the symmetry.
In the DMA fifo pointers are taken modulo DEPTH; DEPTH 2 gives a full fifo while
an answer waits, and a delayed read pointer that has come round to the same slot.
The fence that holds off the masters (`FENCES`) is off in these runs: it only
lowers the ready of their channels, as a full fifo or the debugger's bubble does.

The kernels' Makefile runs two harts; with two, each kernel's shares, tiles and
exchanges all occur.  With 16 columns each hart has one tile of `ck` and `ak`.  Fourteen words are the least in which memalign can leave a
block on either side of its result and the heap still runs full with four chunks.
Two pages use up all frames but one, the state in which the tail of the list is
cleared; the period of the LFSR and the list built from it are checked at full
size.

Counters: `ibuf_timer`, `obuf_timer` saturate at TIMER_MAX, the nack count at
QOS; barrier calls are as many as the kernel has barriers; nothing else counts.
Deadlock checking is off where programs end (`mt_*`, `vm*`).

### Findings

- `mt_race`: `ce_matmul.c:50` cuts the columns in two chunks of `32 / ncores` ("we
  already know the size and numthreads", line 49), but the dataset has 16.  In the
  second chunk `i` runs from 16 to 31, and `C[i + j*lda] += ..` reaches the next row:
  hart 0 adds the zeros behind its copy of B to row 8, the first row of hart 1, with
  no barrier between them.  When hart 1 stores its sum between hart 0's load and
  store, it is lost, and `verify` (`mt-matmul.c:54`) fails.  Alone, one hart would
  compute the product, since what it adds is zero.  The kernels in the table above
  that miss the product without any race are listed there and not again here.
- `vm_signature`: `evict` (`vm.c:123`) copies the linked page over the frame, the
  same direction as the fault handler.  The frame holds what the test wrote, so
  its stores are lost, while `riscv-tests/README.md:86` has the data section
  captured at the end of the test.  The same environment leaves out the symbol
  `end_signature` (`env/v/riscv_test.h:45-46` empties `RVTEST_DATA_END`), so nothing
  there can look for the section either; self-checking tests do not notice.

### Fairness

- `StoreBuffer`: the clock runs; nothing is assumed of decode, of loads or of
  DMA, except that a frozen pipe is released again and again (`[]<>~ld_freeze`),
  which `FreezeEnds` of the bus buffer shows.
- `LsuBusBuffer`: clocks run, the bus clock comes again and again, and the slave
  accepts what is offered and answers what it has accepted (AXI).  That `ibuf`
  drains is not claimed: an endless stream of merging stores restarts its timer
  (`lsu_bus_buffer.sv:465,476`).
- `DmaCtrl`: bus clocks come, masters take answers, and a memory whose users are
  stalled by `dma_dccm_stall_any` or `dma_iccm_stall_any` takes a command; a
  memory not stalled may refuse for ever, which is what the counter is for.  A
  debugger that issued commands for ever would starve the masters; the run has
  none.
- `MtMatmul`: each hart keeps executing.  `TestVm`: the hart keeps trying its
  instruction.

## 5. Proofs

`StoreBufferProofs` proves for every DEPTH of at least two and every set of
well-formed operations

- `TypeCorrect`: `Spec => []TypeOK`;
- `BufferSound`: `Spec => []BufferInv`, the types with `RingIsSegment`,
  `MarksAreSound`, `NoOrphanEntry` and `StoreHasRoom`;
- `DmaOrdered`: `Spec => []DmaFollowsNoCoreOp`;
- `FreezeOwned`: `Spec => []FreezeHasOwner`.

The four invariants are inductive only together (`BufferInv`, with the types):
that a write takes free slots (`RingIsSegment`) follows from the room decode has
left (`StoreHasRoom`), which in turn counts entries by the segment; the head
that is popped is valid only because marked entries are (`MarksAreSound`); and
the entries marked in dc5 are still valid because nothing but the operation in
dc4 or dc5 can mark them (`NoOrphanEntry`).  The argument: `Push` and `Pop` say
how a ring segment grows and shrinks; `RingWrite`, `RingNoWrite`, `MarksStep` and
`RoomStep` treat one conjunct each; `WriteCycle` and `NoWriteCycle` put them
together for the cases of a clock.  The last two theorems are again inductive only
together (`PipeInv`), with a third fact about where a DMA operation may be: when it
is in dc1 no core operation is in dc2 or dc3 or unresolved in dc4 (`DmaStartsAlone`,
from `dccm_ready`).  A freeze needs a core load in dc3, so nothing of the DMA can be
behind it, and the clocks in which the pipe stands still cannot bring a DMA
operation nearer to a core one.

The assumptions are `DepthAssumption` and
`OpsAssumption` (the shape of an operation: a DMA access is never dual and always
internal, `dma_ctrl.sv:321-328`).

`DccmPipeProofs` proves for every geometry of the DCCM, every DEPTH and every set
of operations and of cells that flip

- `DccmBufferSound`: `DccmSpec => []BufferInv`, as every step is one of the control
  model (`ControlCarriesOver`);
- `DataSound`: `DccmSpec => []DataInv`;
- `DccmIsCoherent`: `DccmSpec => Coherent`, the refinement of `CoherentMemory`.

An entry is written in dc3 with a whole double word: the bytes of its operation,
and the rest from what dc2 has read and been forwarded, although the operation may
still be flushed, older entries drain, and younger ones come on top.  `DataInv`
says why this is right.  `View` is what a reader of a set of entries sees, the
youngest entry with the byte or the memory.  The bytes an entry has filled up are
those the live entries below it show (`FilledUp`), so writing the head to memory
changes nothing for those above (`Advance`, `Carried`).  Ring order is program
order (`AgeOrder`): the committed entries, then those of dc5, then those of dc4;
what a new entry holds is seen first (`Extend`, `WrittenSeen`), and a flush takes
from the top, or takes everything behind it too (`FlushEmpties`).  What dc2 has read
is what the memory has, since the bank conflict holds the drain off in the
clock of the read and the head that drains later is still forwarded (`Read2`); what
dc3 knows is what all live entries show (`Read3`, where `ForwardSees` treats what
the request in dc3 adds and the buffer at the same time).  In dc4 and dc5 a load
has the bytes that program order gives it, its repairs only rewrite what was there,
and a store has exactly its bytes in its entries (`Staged4`, `Staged5`); a DMA
operation, which takes effect in dc3, has nothing unresolved in front of it
(`DmaAlone`).  Each clock is then one step of the memory: the core operation that
commits in dc5 (`CoreCommits`), the DMA operation in dc3 (`DmaCommits`), or none
(`NothingCommits`).  That the repair of a bit error gives back the stored byte is in
the model (`rd3.data` is the corrected data), as the code's Hamming decoder does.

The assumptions are those of the store buffer and `DccmAssumption`: an access has
at least one byte of the DCCM, and touches one double word or, when it is dual,
that and the next.

`MtMatmulProofs` proves of the barrier, for every finite set of harts

- `BarrierSound`: `BarrierSpec => []BarrierInv`;
- `BarrierIsRendezvous`: `BarrierSpec => HartsMeet`, so the barrier implements
  `Rendezvous`.

`BarrierInv` says what count, senses and phases have to do with the calls made:
the count is the number of harts that wait in the current round, one hart at most
is between its arrival as the last and the release, and then all others wait; a
hart is in the current round or one ahead of the written sense, whose value is
the parity of the rounds.  Without it the last step, that a spinning hart sees
its own sense only after the release of its own round, does not follow: the
sense takes only two values, and a hart two rounds ahead would see the same one.

`DmaCtrlProofs` proves for every DEPTH of at least two, every QOS and all sets of
commands (`DmaAssumption`)

- `WritesPaired`: `Spec => []WritesArePaired`;
- `FifoNeverOverflows`: `Spec => []FifoSound`;
- `DebuggerIsAlone`: `Spec => []DebugIsAlone`.

The first follows from the parities of what is buffered (`PairInv`).  The second
needs the types with what the memories' pipes carry (`DmaTypes`), that the slots
in use are a ring segment (`FifoIsRing`, kept by `RingGrows` and `RingShrinks`)
and that a clear copy of full means a free slot (`FullIsKnown`): between two clocks
of the bus only the debugger can add a command, and it adds to an empty fifo.  The
third (`DebugInv`) needs that an empty fifo means empty pipes: every read in a
pipe has an entry of its own that cannot leave before the data comes
(`ReadsHaveEntries`, `EntriesAgree`, step lemmas `FlightGoesOn` and
`UnansweredStays`); and that the masters stay out although their copy of the
bubble may be old (`MastersStayOut`), as their buffers change only at the clock at
which the copy is taken.

- `CommandsServedInOrder`: `Spec => ServedInOrder`, the refinement of
  `DmaService`: initial states map to an empty queue, and each clock takes,
  issues or answers the commands the mapping `Accepted` says or leaves the queue
  alone.  It needs that an entry holds its command's own data or error
  (`EntriesAreHonest`), that what the memories' pipes carry is the answer to the
  entry it will find (`ReadsAreOwn`), and that the debugger's command is the
  one in the fifo (`DebuggerHasCommand`).

`NonblockLoadsProofs` proves for every set of tags and registers (x0 among them)

- `CamIsSound`: `Spec => []TagsAndCam`;
- `PendingLoadIsNotRead`: `Spec => []NoReaderOfPendingLoad`;
- `LoadsReturnExactly`: `Spec => []ReturnsAreExact`;
- `PortsAreExclusive`: `Spec => []OneWriterPerRegister`.

The inductive invariant (`NonblockInv`) says where a load may be: in a stage
without a tag (`Pipe`), in dc4 or dc5 with its tag (`Owners`) and an entry of the
CAM for its register (`Cams`), or with the bus, when its register waits for it
(`Pends`).  Together they leave a tag and an entry for the next load (`Room`); and a
load that a younger instruction has taken as its producer is one that will stop in
dc3 (`Readers`).

`LsuBusBufferProofs` proves for every number of entries from three up, every set
of double words and bytes, and every setting (operations, chicken bits, flushes,
bus clocks, errors)

- `BusBuffersAreSound`: `Spec => []BusInv`;
- `NoCommandIsLost`: `Spec => []CommandsConserved`;
- `LoadsAreInProgramOrder`: `Spec => []LoadsSeeProgramOrder`;
- `OneLoadAtATime`: `Spec => []OneLoadReturns`;
- `FreezeIsAnswered`: `Spec => []FreezeEndsWithItsLoad`;
- `SideEffectsAreOrdered`: `Spec => []SideEffectsOrdered`;
- `EmptyIsQuiet`: `Spec => []EmptyMeansQuiet`.

All follow from one inductive invariant, `BusIInv`, whose parts lean on each
other but have a step lemma each.  Tags (`TagsInv`): an access that will need tags
is counted from dc1 on, so that the two clocks for which the stall at decode is
late are paid for; hence what the pipe writes into an entry, and what leaves
`ibuf`, finds it idle.  Commands (`CmdInv`): obuf holds a copy of its entry, and a
command is with obuf, the slave or a response.  Order (`OrderInv`): the tags not
performed are totally ordered by `older`, sent ones in front, and an age vector is
exactly what is pending in front of its entry, so the one with an empty vector is
the oldest.  Data (`DataInv`): `Finds(b, S, mem, v)` says that who reads byte b
behind the stores of S gets v, from the youngest of them that writes b or from the
memory; it holds of every byte of `arch` behind all accesses not performed, and of
every byte of `want` behind those in front of the load.  When the slave performs
an access out of order this survives because no two accesses to a double word
are with it (`OneAccessPerDoubleWord`), and when a store merges into `ibuf` because
`ibuf` is the youngest.  Loads that take their bytes from older stores add what
they took in each stage (`FwdInv`), with the stores of dc4 and dc5 in front of it,
since these are not in the buffers yet.  The freeze needs where its load is
(`FreezeInv`: in dc3, dc4, dc5, or past them), that a mispredict held through the
freeze meets the load in the freeze's first clock, with its request still in dc3, so
that nothing has been sent for it, and what the buffers hold of it (`HeldInv`); returns, that the two halves of a load name each other and that a
complete access is gone at the next clock (`ReturnInv`).

The assumptions are `BusAssumption`: at least three entries, double words that
are numbers, and well-formed operations: an access touches one double word or two
neighbours, and not two when one of them has side effects (an exception,
`lsu_addrcheck.sv`).

`TestVmProofs` proves for every number of pages and all accesses

- `TestSeesFlatMemory`: `Spec => []TestSeesItsPages`;
- `FramesStayOwned`: `Spec => []FramesAreOwnedOnce`;
- `AssertionsNeverFail`: `Spec => []AssertionsHold`.

The inductive invariant (`VmIInv`) says that the hart keeps only what the table
says and the table only frames of their own (`TableIsSound`), which bits may be
missing between a fault and the retry (`BitsAreSet`), that a page and its frame are
the same until it is dirty (`PagesAreKept`), and that as many nodes have left the
front of the list as pages are mapped, the rest being a chain (`ListFrom`).  The
assumption `VmAssumption` is that the generator with the code's tap has its full
period, so that the boot loop deals out each frame once; TLC evaluates it for the
code's six bits and every seed.

`MtMatmulProofs` also proves, for every number of harts and every kernel whose work is
shared out as `Disciplined` says

- `ProductIsExact`: `Spec /\ Disciplined => []ProductExact`;
- `KernelsAreRaceFree`: `Spec /\ Disciplined => []RaceFree`;

and for every kernel, disciplined or not,

- `MatmulHartsMeet`: `Spec => HartsMeet`.

`Disciplined` looks only at the kernel, not at any interleaving; the run
`mt_matmul` shows it of its 21 kernels (`SharesAreDisciplined`), while `ce`, which
loses a sum in `mt_race`, breaks `EpochsApart`.  The proof uses the
barrier through `BarrierInv`: harts outside it have all returned from as many
rounds, so two harts about to store are in one epoch, and one that has entered a
barrier has done every step before it.  The invariant (`MatmulInv`) says where
each hart is by the barriers it has passed (`HartsInv`), that every cell and copy
holds what the steps done add up to (`CellsInv`, `CopiesInv`), and that what a
hart has loaded is still in its cells when it stores (`SeenInv`), for which the
others must keep off these cells in between.

`TinyMallocProofs` proves for every heap, every word and page size, all sizes and
alignments that `MallocAssumption` allows, and any number of chunks and restarts

- `HeapIsSound`: `Spec => []HeapInv`;
- `HeapIsServed`: `Spec => HeapServed`, the refinement of `HeapService`;
- `FailsOnlyWhenFull`: `Spec => []NullMeansFull`;
- `MallinfoIsExact`: `Spec => []MallinfoCounts`.

The inductive invariant is `HeapSound`: the blocks on the list and those of the
chunks cut the heap in pieces (`HeapOK`, with `Tiled` and `Chained`), and each
chunk is aligned and holds no more than was asked for.  The work is in lemmas about
the operators of the model, each for a list and a heap of any length.  `Relinked`
is taken apart once (`RelinkedIs`) and shown to keep the order of the addresses
when the new blocks lie in the gap of the old ones (`RelinkedChains`).  Blocks that
cut one block in pieces may stand for it (`PiecesTile`), and the other way round
(`JoinTiles`, `StretchTiles`).  From these follow what each function does with a
heap: a free block is carved up (`CarveUp`), the last one or the heap itself grows
(`GrowUsed`, `StretchUsed`), a block comes back and joins its neighbours
(`FreeKeepsHeap`), a used one is cut (`CutUsed`).  `MallocKeeps` and `MemalignKeeps`
say what a call leaves behind, and when it returns NULL where it has looked.  With
the list joined that is everywhere: the bytes from the end of a chunk on are either
one free block or the end of the heap (`NoRoom`), and moving the last block to the end
of the heap cannot bring the aligned address nearer (`BeforeMon`).  Each step then
keeps the invariant and serves the chunks (`Serves`): it allocates, releases or
resizes one, clears them all, or leaves them alone.  The sums of `MallinfoCounts` are
folds, one over the free list and one over the set of chunks; each is the number of
bytes its blocks cover, because that number solves the recursion of the fold
(`BytesSum`) and a least set on which another solution differed would have no element
to take away (`SumIs`).  As the blocks cover every byte of the heap once
(`AllBytes`), the two numbers add up to its length.

Only model-checked: `SharesAreDisciplined`, which evaluates the discipline of the
21 kernels of the run, each with its own loops, for the dataset they are linked with
and two harts (`Disciplined` is a hypothesis of the theorems above); and
liveness (`StalledStoreGetsRoom`, `EntriesComplete`, `FreezeEnds`,
`CommandsAreAnswered`, `BothAreSent`, `AllExit`, `InstructionsEnd`), since fairness is
beyond the prover.

## 6. Not modelled

The status and reason of each part are in `PROJECT.json`.  In short: the debug
module, DMI, bridges, TLU, fetch, PIC and the rest of decode are left for the
plan above; their hazards are where several masters meet, at `dbg.sv:486` (the
command register written while a command runs), `dbg.sv:559` (halt and resume
against the core's own), `dec_tlu_ctl.sv:561` (MPC against debugger),
`axi4_to_ahb.sv:223` (both halves of the write buffer reset together),
`ifu_mem_ctl.sv:418` (flush at any beat of a miss), `ifu_ifc_ctl.sv:190` (the
count of fetch buffers), `dmi_jtag_to_core_sync.v:58` (two clocks) and
`pic_ctrl.sv:503` (an edge while its gateway is cleared).  Arithmetic (FPU,
HardFloat, multiplier), generated decoder equations, memory macros, wiring and
the configuration scripts are outside the reach or the purpose of model checking.
The benchmarks (CoreMark, Whetstone, Dhrystone) and the formatter are vendored
sequential programs with their own self checks.
