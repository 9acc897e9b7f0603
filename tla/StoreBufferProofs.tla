------------------------- MODULE StoreBufferProofs -------------------------
(***************************************************************************)
(* Proofs about StoreBuffer for every depth and every set of operations.   *)
(***************************************************************************)
EXTENDS StoreBuffer, FiniteSetTheorems, TLAPS

USE DepthAssumption

(* The packets in the pipe are well-formed operations or bubbles. *)
LEMMA PktShape ==
    ASSUME NEW op \in Pkt
    PROVE  /\ op.kind \in {"none", "load", "store"}
           /\ op.dma \in BOOLEAN /\ op.dual \in BOOLEAN /\ op.dccm \in BOOLEAN
           /\ op.dma => op.dccm /\ ~op.dual
<1>1. CASE op \in Ops
  BY <1>1, OpsAssumption DEF WellFormed, Kinds
<1>2. CASE op = NoOp
  BY <1>2 DEF NoOp
<1> QED  BY <1>1, <1>2 DEF Pkt

(* The entries of a request are entries of the ring. *)
LEMMA EntriesInPtr ==
    ASSUME NEW p \in Ptr, NEW dual \in BOOLEAN
    PROVE  Entries(p, dual) \subseteq Ptr /\ Plus1(p) \in Ptr
  BY DEF Entries, Plus1, Ptr

(* One clock of the buffer keeps its types, whatever dc3 writes. *)
LEMMA BufferType ==
    ASSUME TypeOK, NEW f, NEW conflict, NEW wr \in SUBSET Ptr,
           Buffer(f, conflict, wr)
    PROVE  /\ RdPtr' \in Ptr
           /\ data_vld' \in SUBSET Ptr /\ drain_vld' \in SUBSET Ptr
           /\ flush_vld' \in SUBSET Ptr /\ stbuf_dma' \in SUBSET Ptr
<1>1. stbuf_drain_or_flush_en \subseteq Ptr
  BY EntriesInPtr DEF TypeOK, Staged, stbuf_drain_or_flush_en
<1>2. Plus1(RdPtr) \in Ptr
  BY DEF TypeOK, Plus1, Ptr
<1> QED  BY <1>1, <1>2 DEF TypeOK, Buffer

(* One clock of the pipe keeps its types. *)
LEMMA PipeType ==
    ASSUME TypeOK, NEW f \in FlushLevel, NEW op \in Pkt, NEW reqvld \in BOOLEAN,
           NEW dual \in BOOLEAN, NEW bus \in BOOLEAN,
           Pipe(f, op, reqvld, dual, bus)
    PROVE  /\ dc1' \in Pkt /\ dc2' \in Pkt /\ dc3' \in Pkt
           /\ dc4' \in Staged /\ dc5' \in Staged
           /\ ld_freeze' \in BOOLEAN /\ flush_e3' \in FlushRegister
<1>1. \A o \in Pkt, b \in BOOLEAN : Kill(o, b) \in Pkt
  BY DEF Kill, Pkt
<1>2. flush_dc2_up(f) \in BOOLEAN /\ flush_dc3(f) \in BOOLEAN /\ flush_dc4(f) \in BOOLEAN
  BY DEF flush_dc2_up, flush_dc3, flush_dc4
<1>3. dc3.dma \in BOOLEAN /\ 0 \in Ptr
  BY PktShape DEF TypeOK, Ptr
<1>4. dc1' \in Pkt /\ dc2' \in Pkt /\ dc3' \in Pkt
  BY <1>1, <1>2 DEF TypeOK, Pipe
<1>5. dc4' \in Staged
  BY <1>3 DEF TypeOK, Pipe, Staged, Valid, lsu_freeze_dc3
<1>6. dc5' \in Staged
  BY <1>2 DEF TypeOK, Pipe, Staged
<1>7. ld_freeze' \in BOOLEAN /\ flush_e3' \in FlushRegister
  BY DEF Pipe, FlushRegisterNext, lsu_freeze_dc3, flush_dc4, FlushLevel, FlushRegister
<1> QED  BY <1>4, <1>5, <1>6, <1>7

(* A step of Next is a clock in which dc3 writes the buffer, with the      *)
(* entries it needs at hand if it is a repair, or one in which it does not.*)
Size(dual) == IF dual THEN 2 ELSE 1

WriteStep(f, conflict, op, dual, bus, stall) ==
    /\ Write(f, conflict, op, dual, bus, stall)
    /\ Dc3Live(f)
    /\ dual => dc3.dual
    /\ \/ dc3.kind = "store" /\ dual = dc3.dual
       \/ dc3.kind = "load" /\ stbuf_numvld_any + Size(dual) <= DEPTH

Cycle(f, conflict, op, bus, stall) ==
    /\ MayIssue(op, f)
    /\ \/ \E dual \in BOOLEAN : WriteStep(f, conflict, op, dual, bus, stall)
       \/ NoWrite(f, conflict, op, bus, stall)

LEMMA Occupancy ==
    ASSUME NEW S \in SUBSET Ptr
    PROVE  IsFiniteSet(S) /\ Cardinality(S) \in 0 .. DEPTH
<1>1. IsFiniteSet(Ptr) /\ Cardinality(Ptr) = DEPTH
  <2>1. Cardinality(0 .. DEPTH - 1) = (DEPTH - 1) - 0 + 1 /\ IsFiniteSet(0 .. DEPTH - 1)
    BY FS_Interval
  <2> QED  BY <2>1 DEF Ptr
<1>2. IsFiniteSet(S) /\ Cardinality(S) <= Cardinality(Ptr)
  BY <1>1, FS_Subset
<1>3. Cardinality(S) \in Nat
  BY <1>2, FS_CardinalityType
<1> QED  BY <1>1, <1>2, <1>3

LEMMA NextCases ==
    ASSUME TypeOK, Next
    PROVE  \E f \in FlushLevel, conflict \in BOOLEAN, bus \in BOOLEAN,
              stall \in BOOLEAN, op \in Pkt : Cycle(f, conflict, op, bus, stall)
<1>1. /\ Flushes \subseteq FlushLevel /\ Conflicts \subseteq BOOLEAN
      /\ BusInputs \subseteq BOOLEAN /\ StallInputs \subseteq BOOLEAN
  BY DEF TypeOK, Flushes, Conflicts, BusInputs, StallInputs, FlushLevel, FlushRegister
<1>2. PICK f \in Flushes, conflict \in Conflicts, bus \in BusInputs,
           stall \in StallInputs :
           \E op \in {o \in Pkt : MayIssue(o, f)} : Dc3Step(f, conflict, op, bus, stall)
  BY Zenon DEF Next
<1>3. PICK op \in {o \in Pkt : MayIssue(o, f)} : Dc3Step(f, conflict, op, bus, stall)
  BY <1>2
<1>4. dc3.dual \in BOOLEAN /\ op \in Pkt /\ MayIssue(op, f)
  BY <1>3, PktShape DEF TypeOK
<1>a. SUFFICES Cycle(f, conflict, op, bus, stall)
  BY <1>1, <1>4
<1>5. ASSUME \E dual \in BOOLEAN : WriteStep(f, conflict, op, dual, bus, stall)
      PROVE  Cycle(f, conflict, op, bus, stall)
  BY <1>4, <1>5, Zenon DEF Cycle
<1>6. CASE StoreRequest(f, conflict, op, bus, stall)
  <2>1. WriteStep(f, conflict, op, dc3.dual, bus, stall)
    BY <1>6, Zenon DEF StoreRequest, store_stbuf_reqvld_dc3, WriteStep
  <2> QED  BY <1>4, <1>5, <2>1
<1>7. CASE DmaStoreRequest(f, conflict, op, bus, stall)
  <2>1. WriteStep(f, conflict, op, dc3.dual, bus, stall)
    BY <1>7, Zenon DEF DmaStoreRequest, store_stbuf_reqvld_dc3, WriteStep
  <2> QED  BY <1>4, <1>5, <2>1
<1>8. ASSUME NEW ecc \in EccInputs, LoadRepair(f, conflict, op, bus, stall, ecc)
      PROVE  Cycle(f, conflict, op, bus, stall)
  <2>1. stbuf_numvld_any \in 0 .. DEPTH
    BY Occupancy DEF TypeOK, stbuf_numvld_any
  <2>2. Dc3Live(f) /\ dc3.kind = "load"
    BY <1>8 DEF LoadRepair, load_stbuf_reqvld_dc3
  <2>3. CASE ecc = {"hi", "lo"}
    <3>1. Write(f, conflict, op, TRUE, bus, stall)
      BY <1>8, <2>3 DEF LoadRepair
    <3>2. stbuf_numvld_any + 2 <= DEPTH
      BY <1>8, <2>1, <2>3 DEF LoadRepair, RepairRoom, stbuf_twoavl_any
    <3>3. dc3.dual
      <4>1. {"hi", "lo"} # {"lo"}
        OBVIOUS
      <4>2. CASE ~dc3.dual
        BY <1>8, <2>3, <4>1, <4>2, Zenon DEF EccInputs
      <4> QED  BY <1>4, <4>2
    <3>4. WriteStep(f, conflict, op, TRUE, bus, stall)
      BY <2>2, <3>1, <3>2, <3>3 DEF WriteStep, Size
    <3> QED  BY <1>5, <3>4
  <2>4. CASE ecc # {"hi", "lo"}
    <3>1. Write(f, conflict, op, FALSE, bus, stall)
      BY <1>8, <2>4 DEF LoadRepair
    <3>2. stbuf_numvld_any + 1 <= DEPTH
      BY <1>8, <2>1, <2>4 DEF LoadRepair, RepairRoom, stbuf_oneavl_any
    <3>3. WriteStep(f, conflict, op, FALSE, bus, stall)
      BY <2>2, <3>1, <3>2 DEF WriteStep, Size
    <3> QED  BY <1>5, <3>3
  <2> QED  BY <2>3, <2>4
<1>9. ASSUME NEW ecc \in EccInputs, RepairRefused(f, conflict, op, bus, stall, ecc)
      PROVE  Cycle(f, conflict, op, bus, stall)
  BY <1>4, <1>9, Zenon DEF Cycle, RepairRefused
<1>10. CASE NoRequest(f, conflict, op, bus, stall)
  BY <1>4, <1>10, Zenon DEF Cycle, NoRequest
<1> QED
  BY <1>3, <1>6, <1>7, <1>8, <1>9, <1>10, Zenon DEF Dc3Step

(* Every state of the store buffer and of the pipe that feeds it is        *)
(* well-typed: pointers stay on the ring (lsu_stbuf.sv WrPtr, RdPtr) and   *)
(* marks stay on entries, for every depth.                                 *)
THEOREM TypeCorrect == Spec => []TypeOK
<1>1. Init => TypeOK
  <2>1. 0 \in Ptr
    BY DEF Ptr
  <2>2. NoStage \in Staged /\ NoOp \in Pkt
    BY <2>1 DEF NoStage, Staged, Pkt
  <2> QED  BY <2>1, <2>2 DEF Init, TypeOK, FlushRegister
<1>2. ASSUME TypeOK, [Next]_vars
      PROVE  TypeOK'
  <2>1. CASE UNCHANGED vars
    BY <1>2, <2>1 DEF TypeOK, vars, bufVars, pipeVars
  <2>2. CASE Next
    <3>1. PICK f \in FlushLevel, conflict \in BOOLEAN, bus \in BOOLEAN,
               stall \in BOOLEAN, op \in Pkt : Cycle(f, conflict, op, bus, stall)
      BY <1>2, <2>2, NextCases, Zenon
    <3>2. ASSUME NEW dual \in BOOLEAN, Write(f, conflict, op, dual, bus, stall)
          PROVE  TypeOK'
      <4>1. Entries(WrPtr, dual) \in SUBSET Ptr
        BY <1>2, EntriesInPtr DEF TypeOK
      <4>2. WrPtr' \in Ptr
        BY <1>2, <3>2 DEF TypeOK, Write, Plus1, Ptr
      <4>3. store_wait' \in BOOLEAN
        BY <1>2, <3>2 DEF TypeOK, Write, StoreWaitNext
      <4> QED  BY <1>2, <3>2, <4>1, <4>2, <4>3, BufferType, PipeType DEF TypeOK, Write
    <3>3. CASE NoWrite(f, conflict, op, bus, stall)
      <4>1. store_wait' \in BOOLEAN
        BY <1>2, <3>3 DEF TypeOK, NoWrite, StoreWaitNext
      <4> QED  BY <1>2, <3>3, <4>1, BufferType, PipeType DEF TypeOK, NoWrite
    <3> QED  BY <3>1, <3>2, <3>3 DEF Cycle, WriteStep
  <2> QED  BY <1>2, <2>1, <2>2
<1> QED  BY <1>1, <1>2, PTL DEF Spec

-----------------------------------------------------------------------------
(* The ring.  A set of entries that is the segment of its own size from r  *)
(* stays one when the entry after its end is added or its first one taken. *)

LEMMA SegmentEnds ==
    ASSUME NEW r \in Ptr, NEW n \in 0 .. DEPTH
    PROVE  /\ n < DEPTH => Segment(r, n) \cup {Wrap(r + n)} = Segment(r, n + 1)
           /\ n > 0 => Segment(r, n) \ {r} = Segment(Plus1(r), n - 1)
<1>1. ASSUME NEW i \in Ptr, n < DEPTH
      PROVE  Distance(r, i) < n + 1 <=> Distance(r, i) < n \/ i = Wrap(r + n)
  BY <1>1 DEF Ptr, Distance, Wrap
<1>2. ASSUME NEW i \in Ptr, n > 0
      PROVE  Distance(Plus1(r), i) < n - 1 <=> Distance(r, i) < n /\ i # r
  BY <1>2 DEF Ptr, Distance, Plus1
<1>3. Wrap(r + n) \in Ptr
  BY DEF Wrap, Ptr
<1> QED  BY <1>1, <1>2, <1>3 DEF Segment

LEMMA Push ==
    ASSUME NEW r \in Ptr, NEW S \in SUBSET Ptr, S = Segment(r, Cardinality(S)),
           Cardinality(S) < DEPTH, NEW w, w = Wrap(r + Cardinality(S))
    PROVE  /\ w \in Ptr /\ w \notin S
           /\ Cardinality(S \cup {w}) = Cardinality(S) + 1
           /\ S \cup {w} = Segment(r, Cardinality(S \cup {w}))
           /\ Plus1(w) = Wrap(r + Cardinality(S \cup {w}))
<1> DEFINE n == Cardinality(S)
<1>1. IsFiniteSet(S) /\ n \in Nat /\ n < DEPTH
  BY Occupancy
<1>2. w \in Ptr
  BY <1>1 DEF Wrap, Ptr
<1>3. w \notin Segment(r, n)
  BY <1>1 DEF Wrap, Ptr, Segment, Distance
<1>4. Cardinality(S \cup {w}) = n + 1
  BY <1>1, <1>3, FS_AddElement
<1>5. Segment(r, n) \cup {w} = Segment(r, n + 1)
  BY <1>1, SegmentEnds
<1>6. Plus1(w) = Wrap(r + (n + 1))
  BY <1>1 DEF Wrap, Ptr, Plus1
<1> QED  BY <1>2, <1>3, <1>4, <1>5, <1>6

LEMMA Pop ==
    ASSUME NEW r \in Ptr, NEW S \in SUBSET Ptr, S = Segment(r, Cardinality(S)), r \in S
    PROVE  /\ Cardinality(S \ {r}) = Cardinality(S) - 1
           /\ S \ {r} = Segment(Plus1(r), Cardinality(S \ {r}))
           /\ Wrap(Plus1(r) + Cardinality(S \ {r})) = Wrap(r + Cardinality(S))
<1> DEFINE n == Cardinality(S)
<1>1. IsFiniteSet(S) /\ n \in 0 .. DEPTH
  BY Occupancy
<1>2. n > 0
  BY <1>1 DEF Segment, Distance, Ptr
<1>3. Cardinality(S \ {r}) = n - 1
  BY <1>1, FS_RemoveElement
<1>4. Segment(r, n) \ {r} = Segment(Plus1(r), n - 1)
  BY <1>1, <1>2, SegmentEnds
<1>5. Wrap(Plus1(r) + (n - 1)) = Wrap(r + n)
  BY <1>1, <1>2 DEF Wrap, Ptr, Plus1
<1> QED  BY <1>3, <1>4, <1>5

-----------------------------------------------------------------------------
(* What the pop of the head does to the set of entries "S" that would be   *)
(* valid without it.                                                       *)
LEMMA RingPop ==
    ASSUME TypeOK, NEW f, NEW conflict, NEW S \in SUBSET Ptr,
           S = Segment(RdPtr, Cardinality(S)),
           stbuf_reset(f, conflict) \subseteq S,
           data_vld' = S \ stbuf_reset(f, conflict),
           RdPtr' = IF stbuf_reset(f, conflict) # {} THEN Plus1(RdPtr) ELSE RdPtr,
           WrPtr' = Wrap(RdPtr + Cardinality(S))
    PROVE  RingIsSegment' /\ stbuf_numvld_any' <= Cardinality(S)
<1>1. Cardinality(S) \in Nat
  BY Occupancy
<1>2. CASE stbuf_reset(f, conflict) = {}
  BY <1>1, <1>2 DEF RingIsSegment, stbuf_numvld_any
<1>3. CASE stbuf_reset(f, conflict) = {RdPtr}
  <2>1. data_vld' = S \ {RdPtr} /\ RdPtr' = Plus1(RdPtr) /\ RdPtr \in S
    BY <1>3
  <2>2. /\ Cardinality(data_vld') = Cardinality(S) - 1
        /\ data_vld' = Segment(RdPtr', Cardinality(data_vld'))
        /\ Wrap(RdPtr' + Cardinality(data_vld')) = Wrap(RdPtr + Cardinality(S))
    BY <2>1, Pop DEF TypeOK
  <2>3. RingIsSegment'
    BY <2>2, Zenon DEF RingIsSegment, stbuf_numvld_any
  <2>4. Cardinality(data_vld') <= Cardinality(S)
    BY <1>1, <2>2
  <2> QED  BY <2>3, <2>4 DEF stbuf_numvld_any
<1> QED  BY <1>2, <1>3 DEF stbuf_reset

(* The entry the head pointer frees was valid. *)
LEMMA ResetIsMarked ==
    ASSUME MarksAreSound, NEW f, NEW conflict
    PROVE  /\ stbuf_reset(f, conflict) \subseteq drain_vld \cup flush_vld
           /\ stbuf_reset(f, conflict) \subseteq data_vld
  BY DEF MarksAreSound, stbuf_reset, lsu_stbuf_commit_any, stbuf_reqvld_any,
         stbuf_reqvld_flushed_any

(* A write that has room finds its entries free and extends the ring. *)
LEMMA RingWrite ==
    ASSUME BufferInv, NEW f, NEW conflict, NEW dual \in BOOLEAN,
           stbuf_numvld_any + Size(dual) <= DEPTH,
           Buffer(f, conflict, Entries(WrPtr, dual)),
           WrPtr' = IF dual THEN Plus1(Plus1(WrPtr)) ELSE Plus1(WrPtr)
    PROVE  /\ RingIsSegment'
           /\ Entries(WrPtr, dual) \cap data_vld = {}
           /\ stbuf_numvld_any' <= stbuf_numvld_any + Size(dual)
<1> DEFINE S1 == data_vld \cup {WrPtr}
           S2 == S1 \cup {Plus1(WrPtr)}
<1>1. /\ TypeOK /\ data_vld \in SUBSET Ptr /\ RdPtr \in Ptr
      /\ data_vld = Segment(RdPtr, Cardinality(data_vld))
      /\ WrPtr = Wrap(RdPtr + Cardinality(data_vld))
      /\ Cardinality(data_vld) \in Nat
  BY Occupancy DEF BufferInv, TypeOK, RingIsSegment, stbuf_numvld_any
<1>2. Cardinality(data_vld) < DEPTH
  BY <1>1 DEF Size, stbuf_numvld_any
<1>3. /\ WrPtr \notin data_vld /\ S1 \in SUBSET Ptr
      /\ Cardinality(S1) = Cardinality(data_vld) + 1
      /\ S1 = Segment(RdPtr, Cardinality(S1))
      /\ Plus1(WrPtr) = Wrap(RdPtr + Cardinality(S1))
  BY <1>1, <1>2, Push
<1>4. stbuf_reset(f, conflict) \subseteq data_vld
  BY ResetIsMarked DEF BufferInv
<1>5. CASE ~dual
  <2>1. Entries(WrPtr, dual) = {WrPtr} /\ Size(dual) = 1
    BY <1>5 DEF Entries, Size
  <2>2. /\ data_vld' = S1 \ stbuf_reset(f, conflict)
        /\ RdPtr' = IF stbuf_reset(f, conflict) # {} THEN Plus1(RdPtr) ELSE RdPtr
        /\ WrPtr' = Wrap(RdPtr + Cardinality(S1))
    BY <1>3, <1>5, <2>1 DEF Buffer
  <2>3. RingIsSegment' /\ stbuf_numvld_any' <= Cardinality(S1)
    BY <1>1, <1>3, <1>4, <2>2, RingPop
  <2> QED  BY <1>1, <1>3, <2>1, <2>3 DEF stbuf_numvld_any
<1>6. CASE dual
  <2>1. Entries(WrPtr, dual) = {WrPtr, Plus1(WrPtr)} /\ Size(dual) = 2
    BY <1>6 DEF Entries, Size
  <2>2. Cardinality(S1) < DEPTH
    BY <1>1, <1>3, <2>1 DEF stbuf_numvld_any
  <2>3. /\ Plus1(WrPtr) \notin S1 /\ S2 \in SUBSET Ptr
        /\ Cardinality(S2) = Cardinality(S1) + 1
        /\ S2 = Segment(RdPtr, Cardinality(S2))
        /\ Plus1(Plus1(WrPtr)) = Wrap(RdPtr + Cardinality(S2))
    <3> HIDE DEF S1
    <3>1. \A w : w = Wrap(RdPtr + Cardinality(S1)) =>
            /\ w \in Ptr /\ w \notin S1
            /\ Cardinality(S1 \cup {w}) = Cardinality(S1) + 1
            /\ S1 \cup {w} = Segment(RdPtr, Cardinality(S1 \cup {w}))
            /\ Plus1(w) = Wrap(RdPtr + Cardinality(S1 \cup {w}))
      BY <1>1, <1>3, <2>2, Push
    <3> QED  BY <1>3, <3>1
  <2>4. /\ data_vld' = S2 \ stbuf_reset(f, conflict)
        /\ RdPtr' = IF stbuf_reset(f, conflict) # {} THEN Plus1(RdPtr) ELSE RdPtr
        /\ WrPtr' = Wrap(RdPtr + Cardinality(S2))
    BY <1>6, <2>1, <2>3 DEF Buffer
  <2>5. RingIsSegment' /\ stbuf_numvld_any' <= Cardinality(S2)
    BY <1>1, <1>4, <2>3, <2>4, RingPop
  <2> QED  BY <1>1, <1>3, <2>1, <2>3, <2>5 DEF stbuf_numvld_any
<1> QED  BY <1>5, <1>6

(* A clock without a write keeps the ring. *)
LEMMA RingNoWrite ==
    ASSUME BufferInv, NEW f, NEW conflict, Buffer(f, conflict, {}), WrPtr' = WrPtr
    PROVE  RingIsSegment' /\ stbuf_numvld_any' <= stbuf_numvld_any
<1>1. /\ TypeOK /\ data_vld \in SUBSET Ptr
      /\ data_vld = Segment(RdPtr, Cardinality(data_vld))
      /\ WrPtr = Wrap(RdPtr + Cardinality(data_vld))
  BY DEF BufferInv, TypeOK, RingIsSegment, stbuf_numvld_any
<1>2. stbuf_reset(f, conflict) \subseteq data_vld
  BY ResetIsMarked DEF BufferInv
<1>3. /\ data_vld' = data_vld \ stbuf_reset(f, conflict)
      /\ RdPtr' = IF stbuf_reset(f, conflict) # {} THEN Plus1(RdPtr) ELSE RdPtr
  BY DEF Buffer
<1> QED  BY <1>1, <1>2, <1>3, RingPop DEF stbuf_numvld_any

-----------------------------------------------------------------------------
(* Marks and owners.  "wr" is what dc3 writes; it becomes pending in dc4   *)
(* unless it is from the DMA, and what dc5 owned is marked.                *)
LEMMA MarksStep ==
    ASSUME BufferInv, NEW f, NEW conflict, NEW op, NEW reqvld \in BOOLEAN,
           NEW dual \in BOOLEAN, NEW bus, NEW wr \in SUBSET Ptr,
           wr = IF reqvld THEN Entries(WrPtr, dual) ELSE {},
           wr \cap data_vld = {},
           Buffer(f, conflict, wr), Pipe(f, op, reqvld, dual, bus)
    PROVE  MarksAreSound' /\ NoOrphanEntry'
<1> DEFINE p4 == PendingEntries(dc4)
           p5 == PendingEntries(dc5)
           reset == stbuf_reset(f, conflict)
           kept == drain_vld \cup flush_vld
<1>1. /\ kept \subseteq data_vld /\ drain_vld \cap flush_vld = {}
      /\ data_vld \ kept = p4 \cup p5 /\ p4 \cap p5 = {}
  BY DEF BufferInv, MarksAreSound, NoOrphanEntry
<1>2. reset \subseteq kept
  BY ResetIsMarked DEF BufferInv
<1>3. stbuf_drain_or_flush_en = p5
  BY DEF stbuf_drain_or_flush_en, PendingEntries
<1>4. PendingEntries(dc5)' = p4
  <2>1. dc4 \in Staged
    BY DEF BufferInv, TypeOK
  <2>2. dc5' = [dc4 EXCEPT !.valid = dc4.valid /\ (flush_dc4(f) => dc4.dma)]
    BY DEF Pipe
  <2>3. /\ dc5'.reqvld = dc4.reqvld /\ dc5'.dma = dc4.dma
        /\ dc5'.dual = dc4.dual /\ dc5'.ptr = dc4.ptr
    BY <2>1, <2>2 DEF Staged
  <2> QED  BY <2>3 DEF PendingEntries
<1>5. PendingEntries(dc4)' = IF dc3.dma THEN {} ELSE wr
  <2>1. /\ dc4'.reqvld = reqvld /\ dc4'.dma = dc3.dma /\ dc4'.dual = dual
        /\ dc4'.ptr = IF reqvld THEN WrPtr ELSE 0
    BY DEF Pipe
  <2> QED  BY <2>1 DEF PendingEntries
<1>6. /\ data_vld' = (data_vld \cup wr) \ reset
      /\ drain_vld' = (drain_vld \cup ((IF lsu_commit_dc5(f) THEN p5 ELSE {})
                                       \cup (IF dc3.dma THEN wr ELSE {}))) \ reset
      /\ flush_vld' = (flush_vld \cup (IF lsu_commit_dc5(f) THEN {} ELSE p5)) \ reset
  BY <1>3 DEF Buffer
<1> HIDE DEF p4, p5, reset
<1>7. MarksAreSound'
  BY <1>1, <1>2, <1>6 DEF MarksAreSound
<1>8. NoOrphanEntry'
  BY <1>1, <1>2, <1>4, <1>5, <1>6 DEF NoOrphanEntry
<1> QED  BY <1>7, <1>8

-----------------------------------------------------------------------------
(* Room for the stores in flight *)

LEMMA SlotBounds ==
    ASSUME NEW op \in Pkt
    PROVE  /\ Slots(op) \in 0 .. 2 /\ DccmSlots(op) \in 0 .. Slots(op)
           /\ \A b \in BOOLEAN : /\ Kill(op, b) \in {op, NoOp}
                                /\ Slots(NoOp) = 0 /\ DccmSlots(NoOp) = 0
  BY DEF Slots, DccmSlots, Kill, Valid, NoOp

(* The occupancy grows by at most what dc3 was counted for, so the bounds  *)
(* move down the pipe with the operations.                                 *)
LEMMA RoomStep ==
    ASSUME BufferInv, NEW f \in FlushLevel, NEW op \in Pkt, MayIssue(op, f),
           NEW reqvld, NEW dual, NEW bus, Pipe(f, op, reqvld, dual, bus),
           NEW w \in 0 .. 2, stbuf_numvld_any' \in Nat,
           stbuf_numvld_any' <= stbuf_numvld_any + w,
           w > 0 => ~lsu_freeze_dc3(f) /\ w <= DccmSlots(dc3)
    PROVE  StoreHasRoom'
<1>1. /\ dc1 \in Pkt /\ dc2 \in Pkt /\ dc3 \in Pkt
      /\ stbuf_numvld_any \in Nat /\ StoreHasRoom
  BY Occupancy DEF BufferInv, TypeOK, stbuf_numvld_any
<1>2. CASE lsu_freeze_dc3(f)
  <2>1. dc1' = dc1 /\ dc2' = dc2 /\ dc3' = dc3 /\ w = 0
    BY <1>2 DEF Pipe
  <2> QED  BY <1>1, <2>1, SlotBounds DEF StoreHasRoom, stbuf_specvld_any
<1>3. CASE ~lsu_freeze_dc3(f)
  <2>1. dc1' = op /\ dc2' \in {dc1, NoOp} /\ dc3' \in {dc2, NoOp}
    <3>1. flush_dc2_up(f) \in BOOLEAN
      BY DEF flush_dc2_up
    <3> QED  BY <1>1, <1>3, <3>1, SlotBounds DEF Pipe
  <2>2. NoOp.kind # "store" /\ Slots(NoOp) = 0 /\ DccmSlots(NoOp) = 0
    BY <1>1, SlotBounds DEF NoOp
  <2>3. /\ Slots(dc1) \in 0 .. 2 /\ DccmSlots(dc1) \in 0 .. Slots(dc1)
        /\ Slots(dc2) \in 0 .. 2 /\ DccmSlots(dc2) \in 0 .. Slots(dc2)
        /\ Slots(dc3) \in 0 .. 2 /\ DccmSlots(dc3) \in 0 .. Slots(dc3)
        /\ Slots(op) \in 0 .. 2
    BY <1>1, SlotBounds
  <2>4. stbuf_numvld_any' <= stbuf_numvld_any + DccmSlots(dc3)
    BY <1>1, <2>3
  <2>5. (dc3.kind = "store" /\ dc3.dccm => stbuf_numvld_any + Slots(dc3) <= DEPTH)'
    BY <1>1, <2>1, <2>2, <2>3, <2>4 DEF StoreHasRoom
  <2>6. (dc2.kind = "store" => stbuf_numvld_any + DccmSlots(dc3) + Slots(dc2) <= DEPTH)'
    BY <1>1, <2>1, <2>2, <2>3, <2>4 DEF StoreHasRoom, stbuf_specvld_any
  <2>7. ASSUME op.kind = "store"
        PROVE  stbuf_specvld_any' <= DEPTH
    <3>1. ~lsu_stbuf_full_any
      BY <2>7 DEF MayIssue, dccm_ready, NoOp
    <3>2. stbuf_numvld_any + Slots(dc1) + DccmSlots(dc2) + DccmSlots(dc3) <= DEPTH - 2
      BY <1>1, <2>3, <3>1 DEF lsu_stbuf_full_any, stbuf_specvld_any
    <3>3. DccmSlots(dc2') <= Slots(dc1) /\ DccmSlots(dc2') \in Nat
      BY <2>1, <2>2, <2>3
    <3>4. DccmSlots(dc3') <= DccmSlots(dc2) /\ DccmSlots(dc3') \in Nat
      BY <2>1, <2>2, <2>3
    <3>5. stbuf_specvld_any' = stbuf_numvld_any' + Slots(op) + DccmSlots(dc2') + DccmSlots(dc3')
      BY <2>1 DEF stbuf_specvld_any
    <3> QED  BY <1>1, <2>3, <2>4, <3>2, <3>3, <3>4, <3>5
  <2> QED  BY <2>1, <2>5, <2>6, <2>7 DEF StoreHasRoom
<1> QED  BY <1>2, <1>3

-----------------------------------------------------------------------------
(* One cycle keeps the inductive invariant. *)
LEMMA WriteCycle ==
    ASSUME BufferInv, TypeOK', NEW f \in FlushLevel, NEW conflict \in BOOLEAN,
           NEW bus \in BOOLEAN, NEW stall \in BOOLEAN, NEW op \in Pkt,
           NEW dual \in BOOLEAN, MayIssue(op, f),
           WriteStep(f, conflict, op, dual, bus, stall)
    PROVE  BufferInv'
<1>1. /\ TypeOK /\ StoreHasRoom /\ dc3 \in Pkt /\ WrPtr \in Ptr
      /\ stbuf_numvld_any \in Nat /\ stbuf_numvld_any' \in Nat
  BY Occupancy DEF BufferInv, TypeOK, stbuf_numvld_any
<1>2. /\ Buffer(f, conflict, Entries(WrPtr, dual))
      /\ WrPtr' = IF dual THEN Plus1(Plus1(WrPtr)) ELSE Plus1(WrPtr)
      /\ Pipe(f, op, TRUE, dual, bus)
  BY Zenon DEF WriteStep, Write
<1>3. /\ Valid(dc3) /\ dc3.dccm /\ ~lsu_freeze_dc3(f)
      /\ dual => dc3.dual
      /\ \/ dc3.kind = "store" /\ dual = dc3.dual
         \/ dc3.kind = "load" /\ stbuf_numvld_any + Size(dual) <= DEPTH
  BY Zenon DEF WriteStep, Dc3Live
<1>4. Size(dual) \in 1 .. 2 /\ Size(dual) <= DccmSlots(dc3)
  BY <1>3 DEF Size, DccmSlots, Slots
<1>5. stbuf_numvld_any + Size(dual) <= DEPTH
  <2>1. CASE dc3.kind = "store" /\ dual = dc3.dual
    BY <1>1, <1>3, <2>1 DEF StoreHasRoom, Slots, Size
  <2> QED  BY <1>3, <2>1
<1>6. /\ RingIsSegment' /\ Entries(WrPtr, dual) \cap data_vld = {}
      /\ stbuf_numvld_any' <= stbuf_numvld_any + Size(dual)
  BY <1>2, <1>5, RingWrite
<1>7. Entries(WrPtr, dual) \in SUBSET Ptr
  BY <1>1, EntriesInPtr
<1>8. MarksAreSound' /\ NoOrphanEntry'
  BY <1>2, <1>6, <1>7, MarksStep
<1>9. StoreHasRoom'
  <2>1. Size(dual) \in 0 .. 2
    BY <1>4
  <2>2. Size(dual) > 0 => ~lsu_freeze_dc3(f) /\ Size(dual) <= DccmSlots(dc3)
    BY <1>3, <1>4, Zenon
  <2> QED  BY <1>1, <1>2, <1>6, <2>1, <2>2, RoomStep, Zenon
<1> QED  BY <1>6, <1>8, <1>9 DEF BufferInv

LEMMA NoWriteCycle ==
    ASSUME BufferInv, TypeOK', NEW f \in FlushLevel, NEW conflict \in BOOLEAN,
           NEW bus \in BOOLEAN, NEW stall \in BOOLEAN, NEW op \in Pkt,
           MayIssue(op, f), NoWrite(f, conflict, op, bus, stall)
    PROVE  BufferInv'
<1>1. stbuf_numvld_any \in Nat /\ stbuf_numvld_any' \in Nat
  BY Occupancy DEF BufferInv, TypeOK, stbuf_numvld_any
<1>2. /\ Buffer(f, conflict, {}) /\ WrPtr' = WrPtr
      /\ Pipe(f, op, FALSE, FALSE, bus)
  BY DEF NoWrite
<1>3. RingIsSegment' /\ stbuf_numvld_any' <= stbuf_numvld_any
  BY <1>2, RingNoWrite
<1>4. MarksAreSound' /\ NoOrphanEntry'
  BY <1>2, MarksStep
<1>5. StoreHasRoom'
  <2>1. 0 \in 0 .. 2 /\ ~(0 > 0) /\ stbuf_numvld_any' <= stbuf_numvld_any + 0
    BY <1>1, <1>3
  <2> QED  BY <1>1, <1>2, <2>1, RoomStep, Zenon
<1> QED  BY <1>3, <1>4, <1>5 DEF BufferInv

(* The store buffer is sound at every depth and for every mix of           *)
(* operations: the valid entries are the ring segment between the pointers *)
(* and a write never overwrites one of them (RingIsSegment, StoreHasRoom), *)
(* the assertions on the marks hold (MarksAreSound), and every entry is    *)
(* marked or owned by exactly one operation in dc4 or dc5 (NoOrphanEntry). *)
THEOREM BufferSound == Spec => []BufferInv
<1>1. Init => BufferInv
  <2> SUFFICES ASSUME Init PROVE BufferInv
    OBVIOUS
  <2>1. TypeOK
    <3>1. 0 \in Ptr
      BY DEF Ptr
    <3>2. NoStage \in Staged /\ NoOp \in Pkt
      BY <3>1 DEF NoStage, Staged, Pkt
    <3> QED  BY <3>1, <3>2 DEF Init, TypeOK, FlushRegister
  <2>2. stbuf_numvld_any = 0
    BY FS_EmptySet DEF Init, stbuf_numvld_any
  <2>3. RingIsSegment
    BY <2>2 DEF Init, RingIsSegment, Segment, Distance, Wrap, Ptr
  <2>4. MarksAreSound
    BY DEF Init, MarksAreSound
  <2>5. NoOrphanEntry
    BY DEF Init, NoOrphanEntry, PendingEntries, NoStage
  <2>6. StoreHasRoom
    BY DEF Init, StoreHasRoom, NoOp
  <2> QED  BY <2>1, <2>3, <2>4, <2>5, <2>6 DEF BufferInv
<1>2. ASSUME BufferInv, TypeOK', [Next]_vars
      PROVE  BufferInv'
  <2>1. CASE UNCHANGED vars
    <3>1. /\ RingIsSegment' <=> RingIsSegment
          /\ MarksAreSound' <=> MarksAreSound
          /\ NoOrphanEntry' <=> NoOrphanEntry
          /\ StoreHasRoom' <=> StoreHasRoom
      BY <2>1 DEF vars, bufVars, pipeVars, RingIsSegment, stbuf_numvld_any, MarksAreSound,
                  NoOrphanEntry, PendingEntries, StoreHasRoom, stbuf_specvld_any
    <3> QED  BY <1>2, <3>1 DEF BufferInv
  <2>2. CASE Next
    <3>1. PICK f \in FlushLevel, conflict \in BOOLEAN, bus \in BOOLEAN,
               stall \in BOOLEAN, op \in Pkt : Cycle(f, conflict, op, bus, stall)
      BY <1>2, <2>2, NextCases, Zenon DEF BufferInv
    <3>2. ASSUME NEW dual \in BOOLEAN, WriteStep(f, conflict, op, dual, bus, stall)
          PROVE  BufferInv'
      BY <1>2, <3>1, <3>2, WriteCycle DEF Cycle
    <3>3. CASE NoWrite(f, conflict, op, bus, stall)
      BY <1>2, <3>1, <3>3, NoWriteCycle DEF Cycle
    <3> QED  BY <3>1, <3>2, <3>3 DEF Cycle
  <2> QED  BY <1>2, <2>1, <2>2
<1> QED  BY <1>1, <1>2, TypeCorrect, PTL DEF Spec

-----------------------------------------------------------------------------
(* DMA operations and the freeze.  A DMA operation in dc1 already has no   *)
(* core operation in front of it but in dc5, and a freeze, which needs a   *)
(* core load in dc3, none behind it.                                       *)
DmaStartsAlone == dc1.dma => ~IsCore(dc2) /\ ~IsCore(dc3) /\ Quiet(dc4)
PipeInv == DmaStartsAlone /\ DmaFollowsNoCoreOp /\ FreezeHasOwner

(* What enters dc4 is of the core, or has entries to resolve, only if the  *)
(* operation in dc3 is of the core.                                        *)
LEMMA QuietMoves ==
    ASSUME TypeOK, NEW f \in FlushLevel, NEW op \in Pkt, NEW reqvld \in BOOLEAN,
           NEW dual \in BOOLEAN, NEW bus \in BOOLEAN,
           reqvld => Valid(dc3),
           Pipe(f, op, reqvld, dual, bus)
    PROVE  /\ ~IsCore(dc3) => Quiet(dc4)'
           /\ Quiet(dc4) => Quiet(dc5)'
<1>1. dc3.dma \in BOOLEAN /\ Valid(dc3) \in BOOLEAN /\ dc4 \in Staged
  BY PktShape DEF TypeOK, Valid
<1>2. /\ dc4'.valid => Valid(dc3)
      /\ dc4'.dma = dc3.dma /\ dc4'.reqvld = reqvld
  BY DEF Pipe, Kill, Valid, NoOp
<1>3. /\ dc5'.valid => dc4.valid
      /\ dc5'.dma = dc4.dma /\ dc5'.reqvld = dc4.reqvld
      /\ dc5'.dual = dc4.dual /\ dc5'.ptr = dc4.ptr
  BY <1>1 DEF Pipe, Staged
<1>4. ASSUME ~IsCore(dc3) PROVE Quiet(dc4)'
  BY <1>1, <1>2, <1>4 DEF IsCore, Quiet, PendingEntries
<1>5. ASSUME Quiet(dc4) PROVE Quiet(dc5)'
  BY <1>3, <1>5 DEF Quiet, PendingEntries
<1> QED  BY <1>4, <1>5

LEMMA PipeStep ==
    ASSUME TypeOK, PipeInv, NEW f \in FlushLevel, NEW op \in Pkt,
           NEW reqvld \in BOOLEAN, NEW dual \in BOOLEAN, NEW bus \in BOOLEAN,
           reqvld => Valid(dc3), MayIssue(op, f),
           Pipe(f, op, reqvld, dual, bus)
    PROVE  PipeInv'
<1>1. \A o \in Pkt : o.dma \in BOOLEAN /\ (o.dma => o.dccm)
  BY PktShape
<1>2. dc1 \in Pkt /\ dc2 \in Pkt /\ dc3 \in Pkt /\ ld_freeze \in BOOLEAN
  BY DEF TypeOK
<1>3. /\ ~IsCore(dc3) => Quiet(dc4)'
      /\ Quiet(dc4) => Quiet(dc5)'
  BY QuietMoves
<1>4. op.dma => dccm_ready(f)
  BY <1>1 DEF MayIssue, NoOp
<1>5. CASE lsu_freeze_dc3(f)
  <2>1. dc1' = dc1 /\ dc2' = dc2 /\ dc3' = dc3
    BY <1>5 DEF Pipe
  <2>2. ld_freeze /\ IsCore(dc3) /\ dc3.kind = "load" /\ ~dc3.dccm /\ ~dc1.dma /\ ~dc2.dma
    BY <1>5 DEF lsu_freeze_dc3, PipeInv, FreezeHasOwner
  <2>3. DmaStartsAlone'
    BY <2>1, <2>2 DEF DmaStartsAlone
  <2>4. DmaFollowsNoCoreOp'
    BY <2>1, <2>2 DEF DmaFollowsNoCoreOp
  <2>5. FreezeHasOwner'
    BY <2>1, <2>2 DEF FreezeHasOwner, IsCore, Valid
  <2> QED  BY <2>3, <2>4, <2>5 DEF PipeInv
<1>6. CASE ~lsu_freeze_dc3(f)
  <2>1. /\ dc1' = op
        /\ dc2' = Kill(dc1, flush_dc2_up(f)) /\ dc3' = Kill(dc2, flush_dc2_up(f))
    BY <1>6 DEF Pipe
  <2>2. IsCore(dc2)' => IsCore(dc1)
    BY <2>1 DEF Kill, NoOp, IsCore, Valid
  <2>3. IsCore(dc3)' => IsCore(dc2) /\ dc3' = dc2
    BY <2>1 DEF Kill, NoOp, IsCore, Valid
  <2>4. dc2'.dma => dc1.dma
    BY <2>1 DEF Kill, NoOp
  <2>5. op.dma => ~IsCore(dc1) /\ ~IsCore(dc2) /\ ~IsCore(dc3)
    BY <1>4 DEF dccm_ready, ldst_nodma_dc1todc3
  <2>6. DmaStartsAlone'
    BY <1>3, <2>1, <2>2, <2>3, <2>5 DEF DmaStartsAlone
  <2>7. DmaFollowsNoCoreOp'
    <3>1. SUFFICES ASSUME dc2'.dma
                   PROVE  ~IsCore(dc3)' /\ Quiet(dc4)' /\ Quiet(dc5)'
      BY DEF DmaFollowsNoCoreOp, Quiet
    <3> QED  BY <1>3, <2>3, <2>4, <3>1 DEF PipeInv, DmaStartsAlone
  <2>8. FreezeHasOwner'
    <3>1. SUFFICES ASSUME ld_freeze'
                   PROVE  (IsCore(dc3) /\ dc3.kind = "load" /\ ~dc3.dccm /\ ~dc1.dma /\ ~dc2.dma)'
      BY DEF FreezeHasOwner
    <3>2. ~ld_freeze
      BY <1>6, <3>1 DEF Pipe, lsu_freeze_dc3, flush_dc3, flush_dc4
    <3>3. ExternalLoad(dc2) /\ ~flush_dc2_up(f)
      BY <3>1, <3>2 DEF Pipe
    <3>4. dc3' = dc2 /\ dc2' = dc1
      BY <2>1, <3>3 DEF Kill
    <3>5. ~dc1.dma /\ ~dc2.dma /\ ~op.dma
      BY <1>2, <1>1, <2>5, <3>3 DEF PipeInv, DmaStartsAlone, ExternalLoad, IsCore
    <3> QED  BY <2>1, <3>3, <3>4, <3>5 DEF ExternalLoad, IsCore, Valid
  <2> QED  BY <2>6, <2>7, <2>8 DEF PipeInv
<1> QED  BY <1>5, <1>6

LEMMA PipeSound == Spec => []PipeInv
<1>1. Init => PipeInv
  BY DEF Init, PipeInv, DmaStartsAlone, DmaFollowsNoCoreOp, FreezeHasOwner, NoOp, Valid
<1>2. ASSUME TypeOK, PipeInv, [Next]_vars
      PROVE  PipeInv'
  <2>1. CASE UNCHANGED vars
    BY <1>2, <2>1 DEF vars, pipeVars, PipeInv, DmaStartsAlone, DmaFollowsNoCoreOp,
                      FreezeHasOwner, IsCore, Valid, Quiet, PendingEntries
  <2>2. CASE Next
    <3>1. PICK f \in FlushLevel, conflict \in BOOLEAN, bus \in BOOLEAN,
               stall \in BOOLEAN, op \in Pkt : Cycle(f, conflict, op, bus, stall)
      BY <1>2, <2>2, NextCases, Zenon
    <3>2. ASSUME NEW dual \in BOOLEAN, WriteStep(f, conflict, op, dual, bus, stall)
          PROVE  PipeInv'
      <4>1. Valid(dc3) /\ Pipe(f, op, TRUE, dual, bus) /\ MayIssue(op, f)
        BY <3>1, <3>2 DEF WriteStep, Write, Dc3Live, Cycle
      <4> QED  BY <1>2, <4>1, PipeStep
    <3>3. CASE NoWrite(f, conflict, op, bus, stall)
      <4>1. Pipe(f, op, FALSE, FALSE, bus) /\ MayIssue(op, f)
        BY <3>1, <3>3 DEF NoWrite, Cycle
      <4> QED  BY <1>2, <4>1, PipeStep
    <3> QED  BY <3>1, <3>2, <3>3 DEF Cycle
  <2> QED  BY <1>2, <2>1, <2>2
<1> QED  BY <1>1, <1>2, TypeCorrect, PTL DEF Spec

(* lsu.sv: "we can't have ld/st in dc3-dc5 when dma is in dc2".            *)
THEOREM DmaOrdered == Spec => []DmaFollowsNoCoreOp
<1>1. PipeInv => DmaFollowsNoCoreOp
  BY DEF PipeInv
<1> QED  BY <1>1, PipeSound, PTL

(* The pipe is frozen only by a core load in dc3, with no DMA behind it.   *)
THEOREM FreezeOwned == Spec => []FreezeHasOwner
<1>1. PipeInv => FreezeHasOwner
  BY DEF PipeInv
<1> QED  BY <1>1, PipeSound, PTL
=============================================================================
