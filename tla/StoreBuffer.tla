---------------------------- MODULE StoreBuffer ----------------------------
(***************************************************************************)
(* The DCCM/PIC store buffer of the load/store unit                        *)
(* (design/lsu/lsu_stbuf.sv) with the part of the LSU pipe that feeds it   *)
(* (dc1..dc5, design/lsu/lsu.sv and lsu_lsc_ctl.sv).  One step is one      *)
(* clock edge.  A store, or the repair of a load that hit a single-bit ECC *)
(* error, takes one or two entries when it is in dc3; two cycles later, in *)
(* dc5, the entries are marked "drain" (committed) or "flush".  DMA        *)
(* entries are marked "drain" as they are written.  The head entry leaves  *)
(* when it is flushed, or when it is drained and the DCCM port is free.    *)
(*                                                                         *)
(* Addresses and data are in DccmPipe, which extends this module.          *)
(***************************************************************************)
EXTENDS Integers, FiniteSets, LsuFlush

CONSTANTS
    DEPTH,   \* LSU_STBUF_DEPTH, number of entries
    Ops      \* the operations the instance issues, a subset of well-formed ones

Kinds == {"load", "store"}

(* What the buffer sees of an lsu_pkt_t: its kind, whether it is from the  *)
(* DMA, whether it needs two double words, whether it is in DCCM/PIC.      *)
WellFormed(op) ==
    /\ op.kind \in Kinds
    /\ op.dma \in BOOLEAN
    /\ op.dual \in BOOLEAN
    /\ op.dccm \in BOOLEAN
    /\ op.dma => op.dccm /\ ~op.dual

ASSUME DepthAssumption == DEPTH \in Nat /\ DEPTH >= 2
ASSUME OpsAssumption == \A op \in Ops : WellFormed(op)

NoOp == [kind |-> "none", dma |-> FALSE, dual |-> FALSE, dccm |-> FALSE]
Pkt  == Ops \cup {NoOp}
Ptr  == 0 .. DEPTH - 1

VARIABLES
    WrPtr, RdPtr,                      \* ring pointers
    data_vld, drain_vld, flush_vld,    \* sets of entries with that bit set
    stbuf_dma,                         \* entries written by the DMA
    dc1, dc2, dc3,                     \* packets in the first three stages
    dc4, dc5,                          \* what the last two stages keep
    ld_freeze,                         \* ld_freeze_dc3
    flush_e3,                          \* the registers of a mispredict in e3
    store_wait                         \* a stalled store is at decode

bufVars  == <<WrPtr, RdPtr, data_vld, drain_vld, flush_vld, stbuf_dma>>
pipeVars == <<dc1, dc2, dc3, dc4, dc5, ld_freeze, flush_e3, store_wait>>
vars     == <<bufVars, pipeVars>>

(* dc4 and dc5: packet valid, from the DMA, wrote the buffer in dc3, wrote *)
(* two entries, and the write pointer it had.                              *)
Staged == [valid : BOOLEAN, dma : BOOLEAN, reqvld : BOOLEAN,
           dual : BOOLEAN, ptr : Ptr]
NoStage == [valid |-> FALSE, dma |-> FALSE, reqvld |-> FALSE,
            dual |-> FALSE, ptr |-> 0]

Init ==
    /\ WrPtr = 0 /\ RdPtr = 0
    /\ data_vld = {} /\ drain_vld = {} /\ flush_vld = {} /\ stbuf_dma = {}
    /\ dc1 = NoOp /\ dc2 = NoOp /\ dc3 = NoOp
    /\ dc4 = NoStage /\ dc5 = NoStage
    /\ ld_freeze = FALSE /\ flush_e3 = "any" /\ store_wait = FALSE

-----------------------------------------------------------------------------
(* Pointers and fullness *)

(* The definitions marked "fault" are not part of the model: each is the   *)
(* next definition with a plausible bug, and shows that some property      *)
(* notices it.                                                             *)

Plus1(p) == IF p = DEPTH - 1 THEN 0 ELSE p + 1

(* The one or two entries of a request that starts at p. *)
Entries(p, dual) == IF dual THEN {p, Plus1(p)} ELSE {p}

Valid(op) == op.kind # "none"
Slots(op) == IF ~Valid(op) THEN 0 ELSE IF op.dual THEN 2 ELSE 1
DccmSlots(op) == IF op.dccm THEN Slots(op) ELSE 0

stbuf_numvld_any  == Cardinality(data_vld)
stbuf_specvld_any == stbuf_numvld_any + Slots(dc1) + DccmSlots(dc2) + DccmSlots(dc3)

lsu_stbuf_full_any == stbuf_specvld_any > DEPTH - 2
OneAvlWhenFull == stbuf_numvld_any <= DEPTH  \* fault: accepts when full
stbuf_oneavl_any   == stbuf_numvld_any < DEPTH
stbuf_twoavl_any   == stbuf_numvld_any < DEPTH - 1

-----------------------------------------------------------------------------
(* Flushes and the freeze *)

lsu_freeze_dc3(f) == ld_freeze /\ ~flush_dc4(f)

Flushes == IF flush_e3 = "any" THEN FlushLevel ELSE {flush_e3, "lower", "kill"}

Kill(op, flush) == IF flush /\ ~op.dma THEN NoOp ELSE op

-----------------------------------------------------------------------------
(* Accepting operations *)

IsCore(op) == Valid(op) /\ ~op.dma

NoDmaDc1ToDc2 == IsCore(dc1) \/ IsCore(dc2)  \* fault: dc3 forgotten
NoDmaDc1OrDc3 == IsCore(dc1) \/ IsCore(dc3)  \* fault: dc2 forgotten
ldst_nodma_dc1todc3 == IsCore(dc1) \/ IsCore(dc2) \/ IsCore(dc3)

dccm_ready(f) ==
    /\ ~lsu_stbuf_full_any
    /\ ~lsu_freeze_dc3(f)
    /\ ~ldst_nodma_dc1todc3

MayIssueLoadsPass(op, f) ==  \* fault: loads pass the stalled store
    \/ op = NoOp
    \/ op \in Ops /\ op.dma /\ dccm_ready(f)
    \/ /\ op \in Ops /\ ~op.dma
       /\ ~flush_dc2_up(f) /\ ~ld_freeze
       /\ op.kind = "store" => ~lsu_stbuf_full_any

(* What may enter dc1: nothing, a DMA access the LSU is ready for, a core  *)
(* load, or a core store that decode does not stall.  Decode is in order:  *)
(* behind a stalled store no core operation is issued.                     *)
MayIssue(op, f) ==
    \/ op = NoOp
    \/ op \in Ops /\ op.dma /\ dccm_ready(f)
    \/ /\ op \in Ops /\ ~op.dma
       /\ ~flush_dc2_up(f) /\ ~ld_freeze
       /\ op.kind = "store" => ~lsu_stbuf_full_any
       /\ store_wait => op.kind = "store"

(* Decode holds a store back: it starts when the buffer is full and lasts  *)
(* until a store issues or the pipe is flushed.                            *)
StallInputs == IF lsu_stbuf_full_any /\ ~store_wait THEN BOOLEAN ELSE {FALSE}
StoreWaitNext(op, f, stall) ==
    IF flush_dc2_up(f) \/ (IsCore(op) /\ op.kind = "store") THEN FALSE
    ELSE store_wait \/ stall

-----------------------------------------------------------------------------
(* The head of the buffer *)

stbuf_reqvld_flushed_any == RdPtr \in flush_vld
stbuf_reqvld_any         == RdPtr \in drain_vld

(* "conflict": the read in dc1 needs the bank of the head entry. *)
Conflicts == IF stbuf_reqvld_any /\ Valid(dc1) /\ dc1.dccm THEN BOOLEAN ELSE {FALSE}

lsu_stbuf_commit_any(f, conflict) ==
    stbuf_reqvld_any /\ ~lsu_freeze_dc3(f) /\ ~conflict

stbuf_reset(f, conflict) ==
    IF lsu_stbuf_commit_any(f, conflict) \/ stbuf_reqvld_flushed_any
    THEN {RdPtr} ELSE {}

-----------------------------------------------------------------------------
(* Resolution of the operation in dc5 *)

lsu_commit_dc5(f) == dc5.valid /\ ~flush_dc5(f) /\ ~dc5.dma

stbuf_drain_or_flush_en ==
    IF dc5.reqvld /\ ~dc5.dma THEN Entries(dc5.ptr, dc5.dual) ELSE {}

(* One clock of the buffer: "wr" are the entries written by dc3.  The      *)
(* flops are rvdffsc: a clear wins over a set.                             *)
Buffer(f, conflict, wr) ==
    LET reset == stbuf_reset(f, conflict)
        drain_en == (IF lsu_commit_dc5(f) THEN stbuf_drain_or_flush_en ELSE {})
                       \cup (IF dc3.dma THEN wr ELSE {})
        flush_en == IF lsu_commit_dc5(f) THEN {} ELSE stbuf_drain_or_flush_en
    IN  /\ data_vld'  = (data_vld \cup wr) \ reset
        /\ drain_vld' = (drain_vld \cup drain_en) \ reset
        /\ flush_vld' = (flush_vld \cup flush_en) \ reset
        /\ stbuf_dma' = IF dc3.dma THEN stbuf_dma \cup wr ELSE stbuf_dma \ wr
        /\ RdPtr' = IF reset # {} THEN Plus1(RdPtr) ELSE RdPtr

ExternalLoad(op) == IsCore(op) /\ op.kind = "load" /\ ~op.dccm

(* "bus": the external load in dc2 has to block the pipe, or the bus       *)
(* answers the one that does.                                              *)
BusInputs == IF ld_freeze \/ ExternalLoad(dc2) THEN BOOLEAN ELSE {FALSE}

(* One clock of the pipe: "op" enters dc1 unless the pipe is frozen.       *)
(* ld_freeze is set for an external load moving to dc3 and cleared by a    *)
(* flush or by the answer of the bus.                                      *)
Pipe(f, op, reqvld, dual, bus) ==
    LET frozen == lsu_freeze_dc3(f)
        ld_freeze_en  == bus /\ ~frozen /\ ~flush_dc2_up(f) /\ ExternalLoad(dc2)
        ld_freeze_rst == flush_dc3(f) \/ (bus /\ ld_freeze)
    IN  /\ dc1' = IF frozen THEN dc1 ELSE op
        /\ dc2' = IF frozen THEN dc2 ELSE Kill(dc1, flush_dc2_up(f))
        /\ dc3' = IF frozen THEN dc3 ELSE Kill(dc2, flush_dc2_up(f))
        /\ dc4' = [valid  |-> ~frozen /\ Valid(Kill(dc3, flush_dc3(f))),
                   dma    |-> dc3.dma,
                   reqvld |-> reqvld,
                   dual   |-> dual,
                   ptr    |-> IF reqvld THEN WrPtr ELSE 0]
        /\ dc5' = [dc4 EXCEPT !.valid = dc4.valid /\ (flush_dc4(f) => dc4.dma)]
        /\ ld_freeze' = ((ld_freeze \/ ld_freeze_en) /\ ~ld_freeze_rst)
        /\ flush_e3' = FlushRegisterNext(f, frozen)

(* One clock in which dc3 writes the buffer. *)
Write(f, conflict, op, dual, bus, stall) ==
    /\ Buffer(f, conflict, Entries(WrPtr, dual))
    /\ WrPtr' = IF dual THEN Plus1(Plus1(WrPtr)) ELSE Plus1(WrPtr)
    /\ Pipe(f, op, TRUE, dual, bus)
    /\ store_wait' = StoreWaitNext(op, f, stall)

(* One clock in which dc3 does not. *)
NoWrite(f, conflict, op, bus, stall) ==
    /\ Buffer(f, conflict, {})
    /\ UNCHANGED WrPtr
    /\ Pipe(f, op, FALSE, FALSE, bus)
    /\ store_wait' = StoreWaitNext(op, f, stall)

-----------------------------------------------------------------------------
(* What dc3 asks for *)

(* Valid in dc3, in DCCM or PIC, not flushed, not frozen. *)
Dc3Live(f) ==
    /\ Valid(dc3) /\ dc3.dccm
    /\ flush_dc3(f) => dc3.dma
    /\ ~lsu_freeze_dc3(f)

store_stbuf_reqvld_dc3(f) == dc3.kind = "store" /\ Dc3Live(f)

(* "ecc" below is the set of halves of the load with a single-bit error. *)
load_stbuf_reqvld_dc3(f) == dc3.kind = "load" /\ Dc3Live(f)

EccInputs == IF dc3.dual THEN {{"lo"}, {"hi"}, {"hi", "lo"}} ELSE {{"lo"}}

RepairRoom(ecc) == IF ecc = {"hi", "lo"} THEN stbuf_twoavl_any ELSE stbuf_oneavl_any

StoreRequest(f, conflict, op, bus, stall) ==
    /\ ~dc3.dma
    /\ store_stbuf_reqvld_dc3(f)
    /\ Write(f, conflict, op, dc3.dual, bus, stall)

DmaStoreRequest(f, conflict, op, bus, stall) ==
    /\ dc3.dma
    /\ store_stbuf_reqvld_dc3(f)
    /\ Write(f, conflict, op, dc3.dual, bus, stall)

(* The corrected double words of a load go back through the buffer. *)
LoadRepair(f, conflict, op, bus, stall, ecc) ==
    /\ load_stbuf_reqvld_dc3(f)
    /\ RepairRoom(ecc)
    /\ Write(f, conflict, op, ecc = {"hi", "lo"}, bus, stall)

(* "Don't correct ecc if not enough entries. Load will be flushed". *)
RepairRefused(f, conflict, op, bus, stall, ecc) ==
    /\ load_stbuf_reqvld_dc3(f)
    /\ ~RepairRoom(ecc)
    /\ NoWrite(f, conflict, op, bus, stall)

NoRequest(f, conflict, op, bus, stall) ==
    /\ ~store_stbuf_reqvld_dc3(f)
    /\ NoWrite(f, conflict, op, bus, stall)

Dc3Step(f, conflict, op, bus, stall) ==
    \/ StoreRequest(f, conflict, op, bus, stall)
    \/ DmaStoreRequest(f, conflict, op, bus, stall)
    \/ \E ecc \in EccInputs :
          \/ LoadRepair(f, conflict, op, bus, stall, ecc)
          \/ RepairRefused(f, conflict, op, bus, stall, ecc)
    \/ NoRequest(f, conflict, op, bus, stall)

Next ==
    \E f \in Flushes, conflict \in Conflicts, bus \in BusInputs, stall \in StallInputs :
        \E op \in {o \in Pkt : MayIssue(o, f)} : Dc3Step(f, conflict, op, bus, stall)

Spec == Init /\ [][Next]_vars

(* The clock keeps running, and every freeze ends: the bus answers the     *)
(* load that froze the pipe (FreezeEnds of LsuBusBuffer).                  *)
FairSpec == Spec /\ WF_vars(Next) /\ []<>~ld_freeze

-----------------------------------------------------------------------------
(* Properties *)

TypeOK ==
    /\ WrPtr \in Ptr /\ RdPtr \in Ptr
    /\ data_vld \in SUBSET Ptr /\ drain_vld \in SUBSET Ptr
    /\ flush_vld \in SUBSET Ptr /\ stbuf_dma \in SUBSET Ptr
    /\ dc1 \in Pkt /\ dc2 \in Pkt /\ dc3 \in Pkt
    /\ dc4 \in Staged /\ dc5 \in Staged
    /\ ld_freeze \in BOOLEAN /\ flush_e3 \in FlushRegister /\ store_wait \in BOOLEAN

(* The valid entries are exactly the ring segment from RdPtr up to WrPtr:  *)
(* however writes, repairs, DMA writes and pops coincide, no entry is      *)
(* skipped by the read pointer or overwritten by the write pointer.        *)
Wrap(n) == IF n < DEPTH THEN n ELSE n - DEPTH
Distance(p, i) == IF i >= p THEN i - p ELSE i + DEPTH - p
Segment(p, n) == {i \in Ptr : Distance(p, i) < n}

RingIsSegment ==
    /\ data_vld = Segment(RdPtr, stbuf_numvld_any)
    /\ WrPtr = Wrap(RdPtr + stbuf_numvld_any)

(* assert_drainorflushvld_notvld and assert_drainAndflushvld               *)
(* (lsu_stbuf.sv): an entry marked drain or flush is valid, and no entry   *)
(* is marked both.                                                         *)
MarksAreSound ==
    /\ drain_vld \cup flush_vld \subseteq data_vld
    /\ drain_vld \cap flush_vld = {}

(* The entries whose fate dc4 and dc5 have still to decide. *)
PendingEntries(stage) ==
    IF stage.reqvld /\ ~stage.dma THEN Entries(stage.ptr, stage.dual) ELSE {}

(* No core operation in the stage, nor entries of one. *)
Quiet(stage) == ~(stage.valid /\ ~stage.dma) /\ PendingEntries(stage) = {}

(* Every valid entry is either marked or will be marked by the operation   *)
(* in dc4 or dc5: an entry that nobody resolves would stop the read        *)
(* pointer for ever, and one resolved before its operation reaches dc5     *)
(* could be written to memory before it commits.                           *)
NoOrphanEntry ==
    /\ data_vld \ (drain_vld \cup flush_vld)
          = PendingEntries(dc4) \cup PendingEntries(dc5)
    /\ PendingEntries(dc4) \cap PendingEntries(dc5) = {}

(* The stall at decode, computed with up to three operations in flight,    *)
(* leaves every store that reaches dc3 the entries it needs: a store,      *)
(* unlike a load repair, writes without looking at the occupancy.          *)
StoreHasRoom ==
    /\ dc3.kind = "store" /\ dc3.dccm => stbuf_numvld_any + Slots(dc3) <= DEPTH
    /\ dc2.kind = "store" => stbuf_numvld_any + DccmSlots(dc3) + Slots(dc2) <= DEPTH
    /\ dc1.kind = "store" => stbuf_specvld_any <= DEPTH

(* The inductive invariant: no invariant of the buffer is inductive alone. *)
(* That a write finds its entries free needs the stall of decode           *)
(* (StoreHasRoom); that marks stay sound needs the owners in dc4 and dc5   *)
(* (NoOrphanEntry); both need the ring.                                    *)
BufferInv ==
    TypeOK /\ RingIsSegment /\ MarksAreSound /\ NoOrphanEntry /\ StoreHasRoom

(* lsu.sv: "we can't have ld/st in dc3-dc5 when dma is in dc2", since the  *)
(* DMA operation may not take data from a core store that can be flushed.  *)
DmaFollowsNoCoreOp ==
    Valid(dc2) /\ dc2.dma =>
        /\ ~IsCore(dc3)
        /\ ~(dc4.valid /\ ~dc4.dma) /\ ~(dc5.valid /\ ~dc5.dma)
        /\ PendingEntries(dc4) = {} /\ PendingEntries(dc5) = {}

(* The pipe is frozen only while the external load that froze it is in     *)
(* dc3, and nothing of the DMA waits behind it.                            *)
FreezeHasOwner ==
    ld_freeze => /\ IsCore(dc3) /\ dc3.kind = "load" /\ ~dc3.dccm
                 /\ ~dc1.dma /\ ~dc2.dma

(* A store that decode holds back because the buffer is full does not wait *)
(* for ever, although loads alone could keep the DCCM port busy: the store *)
(* stops the loads behind it, the operations in flight resolve, the head   *)
(* drains.                                                                 *)
StalledStoreGetsRoom ==
    (store_wait /\ lsu_stbuf_full_any) ~> (~store_wait \/ ~lsu_stbuf_full_any)

=============================================================================
