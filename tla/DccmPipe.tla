------------------------------ MODULE DccmPipe ------------------------------
(***************************************************************************)
(* The data side of the DCCM pipe: the memory (lsu_dccm_mem.sv), the read  *)
(* in dc1 and the correction in dc3 (lsu_dccm_ctl.sv, lsu_ecc.sv), the     *)
(* forwarding of the store buffer (lsu_stbuf.sv) and the merge of a store  *)
(* with the rest of its double word.  The control is StoreBuffer's: here   *)
(* the bank conflict and the ECC outcome, inputs there, follow from the    *)
(* addresses and the memory.                                               *)
(*                                                                         *)
(* An operation of Ops has two more fields: the bytes it accesses, pairs   *)
(* <<double word, byte>>, and the value a store writes to each of them.    *)
(***************************************************************************)
EXTENDS StoreBuffer

CONSTANTS
    WORDS,      \* double words of the DCCM
    BANKS,      \* banks they are interleaved over
    BYTES,      \* bytes of a double word
    Values,     \* what a byte can hold
    Flippable   \* double words in which a memory cell may flip

Word  == 0 .. WORDS - 1
Byte  == 0 .. BYTES - 1
Bytes == Word \X Byte

WordsOf(op) == {b[1] : b \in op.bytes}
LowWord(op)  == CHOOSE w \in WordsOf(op) : \A v \in WordsOf(op) : w <= v
HighWord(op) == CHOOSE w \in WordsOf(op) : \A v \in WordsOf(op) : w >= v

ASSUME DccmAssumption ==
    /\ WORDS \in Nat \ {0} /\ BANKS \in Nat \ {0, 1} /\ BYTES \in Nat \ {0}
    /\ Values # {} /\ Flippable \subseteq Word
    /\ \A op \in Ops : op.dccm =>
          /\ op.bytes \in SUBSET Bytes \ {{}}
          /\ op.val \in Values
          /\ \E w \in Word : WordsOf(op) = {w} \cup (IF op.dual THEN {w + 1} ELSE {})

VARIABLES
    ent,        \* the double word, byte enables and data of each entry
    dccm,       \* the memory, byte by byte
    flipped,    \* double words that hold a flipped bit
    rd2, rd3,   \* what the memory returned for the operation in dc2, dc3
    fwd3,       \* the bytes forwarded to the operation in dc3
    op4, op5,   \* the operation in dc4, dc5 and the bytes a load returned
    result      \* the bytes of the load that committed last

dataVars == <<ent, dccm, flipped, rd2, rd3, fwd3, op4, op5, result>>

None   == <<>>
NoRead == [data |-> None, err |-> {}]
NoEntry == [word |-> 0, byteen |-> {}, data |-> [b \in Byte |-> CHOOSE v \in Values : TRUE]]
Nothing == [op |-> NoOp, data |-> None]

DccmInit ==
    /\ Init
    /\ ent = [i \in Ptr |-> NoEntry]
    /\ dccm = [b \in Bytes |-> CHOOSE v \in Values : TRUE]
    /\ flipped = {}
    /\ rd2 = NoRead /\ rd3 = NoRead /\ fwd3 = None
    /\ op4 = Nothing /\ op5 = Nothing
    /\ result = None

-----------------------------------------------------------------------------
(* The memory *)

InDccm(op) == Valid(op) /\ op.dccm

(* A store that replaces its double word does not read it. *)
FullWord(op) == ~op.dual /\ op.bytes = WordsOf(op) \X Byte
lsu_dccm_rden(op) == InDccm(op) /\ ~(op.kind = "store" /\ FullWord(op))

(* The head entry may not be written to a bank that dc1 reads.             *)
Bank(w) == w % BANKS
BankConflict ==
    /\ stbuf_reqvld_any /\ lsu_dccm_rden(dc1)
    /\ Bank(ent[RdPtr].word) \in {Bank(w) : w \in WordsOf(dc1)}

(* The memory as the operation in dc1 reads it: its double words, and      *)
(* which of them have a flipped bit.                                       *)
ReadMemory(op) ==
    IF lsu_dccm_rden(op)
    THEN [data |-> [b \in WordsOf(op) \X Byte |-> dccm[b]],
          err  |-> flipped \cap WordsOf(op)]
    ELSE NoRead

(* Which halves of the load in dc3 have a single-bit error. *)
EccOf(op, err) ==
    {h \in {"lo", "hi"} : \/ h = "lo" /\ LowWord(op) \in err
                          \/ h = "hi" /\ op.dual /\ HighWord(op) \in err}

-----------------------------------------------------------------------------
(* Forwarding *)

(* store_ecc_datafn: a byte of the double word as dc3 knows it: stored     *)
(* now, forwarded, or read and corrected.                                  *)
MergeIgnoresForward(b) ==  \* fault: the merge takes stale memory bytes
    IF dc3.kind = "store" /\ b \in dc3.bytes THEN dc3.val ELSE rd3.data[b]
store_ecc_datafn_dc3(b) ==
    IF dc3.kind = "store" /\ b \in dc3.bytes THEN dc3.val
    ELSE IF b \in DOMAIN fwd3 THEN fwd3[b]
    ELSE rd3.data[b]

(* "Just in time": from the request that dc3 is making.  "wr2" tells that  *)
(* it writes both double words.                                            *)
JitBytes(op, reqvld, wr2) ==
    IF reqvld /\ InDccm(op) /\ ~(op.dma /\ ~dc3.dma)
    THEN {b \in dc3.bytes : /\ b[1] \in WordsOf(op)
                            /\ b[1] = LowWord(dc3) \/ wr2}
    ELSE {}

LdMatchFlushed(op, b) ==  \* fault: forwards from flushed entries
    {i \in data_vld : /\ i \in drain_vld \/ ~op.dma
                      /\ ent[i].word = b[1] /\ b[2] \in ent[i].byteen}
stbuf_ldmatch(op, b) ==
    {i \in data_vld : /\ i \in drain_vld \/ ~op.dma
                      /\ i \notin flush_vld
                      /\ ent[i].word = b[1] /\ b[2] \in ent[i].byteen}

Youngest(S) == CHOOSE i \in S : \A j \in S : Distance(WrPtr, j) <= Distance(WrPtr, i)

Forward(op, reqvld, wr2) ==
    LET jit == JitBytes(op, reqvld, wr2)
        buf == IF InDccm(op)
               THEN {b \in WordsOf(op) \X Byte : stbuf_ldmatch(op, b) # {}}
               ELSE {}
    IN  [b \in jit \cup buf |->
            IF b \in jit THEN store_ecc_datafn_dc3(b)
            ELSE ent[Youngest(stbuf_ldmatch(op, b))].data[b[2]]]

-----------------------------------------------------------------------------
(* One clock *)

(* The entry of one double word of the request in dc3. *)
EntryFor(w) ==
    [word   |-> w,
     byteen |-> {b \in Byte : <<w, b>> \in dc3.bytes},
     data   |-> [b \in Byte |-> store_ecc_datafn_dc3(<<w, b>>)]]

(* The first entry holds the low double word unless only the high one of   *)
(* a load is repaired.  An entry that becomes invalid is blanked: every    *)
(* use of its contents is gated with its valid bit.                        *)
EntryStep(reqvld, wr2, first) ==
    ent' = [i \in Ptr |->
        IF i \notin data_vld' THEN NoEntry
        ELSE IF reqvld /\ i = WrPtr THEN EntryFor(first)
        ELSE IF reqvld /\ wr2 /\ i = Plus1(WrPtr) THEN EntryFor(HighWord(dc3))
        ELSE ent[i]]

(* The head entry is written to the memory, all its bytes at once, with a  *)
(* fresh ECC; a cell may flip in a double word that is not written.        *)
MemoryStep(f, conflict, flip) ==
    LET commit == lsu_stbuf_commit_any(f, conflict)
        head == ent[RdPtr]
    IN  /\ dccm' = IF commit
                   THEN [b \in Bytes |-> IF b[1] = head.word THEN head.data[b[2]] ELSE dccm[b]]
                   ELSE dccm
        /\ flipped' = (flipped \cup flip) \ (IF commit THEN {head.word} ELSE {})

(* lsu_rdata_corr_dc3: the load's bytes, forwarded or read and corrected.  *)
LoadData == [b \in dc3.bytes |-> IF b \in DOMAIN fwd3 THEN fwd3[b] ELSE rd3.data[b]]

PipeData(f, reqvld, wr2) ==
    LET frozen == lsu_freeze_dc3(f)
        killed2 == flush_dc2_up(f) /\ ~dc2.dma
        killed1 == flush_dc2_up(f) /\ ~dc1.dma
        live4 == InDccm(dc3) /\ dc4'.valid
    IN  /\ rd2' = IF frozen THEN rd2 ELSE IF killed1 THEN NoRead ELSE ReadMemory(dc1)
        /\ rd3' = IF frozen THEN rd3 ELSE IF killed2 THEN NoRead ELSE rd2
        /\ fwd3' = IF frozen THEN fwd3
                   ELSE IF killed2 THEN None ELSE Forward(dc2, reqvld, wr2)
        /\ op4' = IF ~live4 THEN Nothing
                  ELSE [op |-> dc3, data |-> IF dc3.kind = "load" THEN LoadData ELSE None]
        /\ op5' = IF dc5'.valid THEN op4 ELSE Nothing

(* A core load returns when it commits in dc5, a DMA load from dc3. *)
ResultStep(f) ==
    result' = IF lsu_commit_dc5(f) /\ op5.op.kind = "load" THEN op5.data
              ELSE IF InDccm(dc3) /\ dc3.kind = "load" /\ dc3.dma THEN LoadData
              ELSE None

(* Whatever the control step was, "reqvld" and "wr2" are what it put into  *)
(* dc4, and "first" the double word of its first entry.                    *)
DataStep(f, conflict, flip, first) ==
    /\ EntryStep(dc4'.reqvld, dc4'.dual, first)
    /\ MemoryStep(f, conflict, flip)
    /\ PipeData(f, dc4'.reqvld, dc4'.dual)
    /\ ResultStep(f)

(* One bit in each of some double words flips, more only after those were  *)
(* corrected: two flips in one double word are beyond what the code        *)
(* corrects.                                                               *)
Flips == IF flipped = {} THEN SUBSET Flippable ELSE {{}}

StoreData(f, op, bus, flip) ==
    /\ \/ StoreRequest(f, BankConflict, op, bus, FALSE)
       \/ DmaStoreRequest(f, BankConflict, op, bus, FALSE)
    /\ DataStep(f, BankConflict, flip, LowWord(dc3))

LoadWithError(f, op, bus, flip) ==
    /\ load_stbuf_reqvld_dc3(f)
    /\ LET ecc == EccOf(dc3, rd3.err)
       IN  /\ ecc # {}
           /\ \/ LoadRepair(f, BankConflict, op, bus, FALSE, ecc)
              \/ RepairRefused(f, BankConflict, op, bus, FALSE, ecc)
           /\ DataStep(f, BankConflict, flip,
                       IF ecc = {"hi"} THEN HighWord(dc3) ELSE LowWord(dc3))

NoEntryWritten(f, op, bus, flip) ==
    /\ load_stbuf_reqvld_dc3(f) => EccOf(dc3, rd3.err) = {}
    /\ NoRequest(f, BankConflict, op, bus, FALSE)
    /\ DataStep(f, BankConflict, flip, 0)

(* One clock, with an operation of "ops" or none issued to dc1 (store_wait *)
(* only ever holds operations back, so it is left FALSE here).             *)
DccmCycle(ops, flips) ==
    \E f \in Flushes, bus \in BusInputs, flip \in flips :
        \E op \in {o \in ops \cup {NoOp} : MayIssue(o, f)} :
            \/ StoreData(f, op, bus, flip)
            \/ LoadWithError(f, op, bus, flip)
            \/ NoEntryWritten(f, op, bus, flip)

DccmNext == DccmCycle(Ops, Flips)
DccmSpec == DccmInit /\ [][DccmNext]_<<vars, dataVars>>

-----------------------------------------------------------------------------
(* Properties *)

(* The memory a program sees: the DCCM with the committed entries laid     *)
(* over it, whole double words, the youngest on top.                       *)
Committed(w) == {i \in drain_vld : ent[i].word = w}
VisibleMemory ==
    [b \in Bytes |-> IF Committed(b[1]) = {} THEN dccm[b]
                     ELSE ent[Youngest(Committed(b[1]))].data[b[2]]]

(* With every forwarding path, read-modify-write merge, flush, freeze, ECC *)
(* repair and DMA access in flight, the LSU behaves like one memory on     *)
(* which each operation takes effect when it commits: core operations in   *)
(* dc5, DMA operations in dc3.                                             *)
CM == INSTANCE CoherentMemory
        WITH mem <- VisibleMemory, Accesses <- {o \in Ops : o.dccm}
Coherent == CM!Spec
=============================================================================
