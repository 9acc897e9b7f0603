---------------------------- MODULE LsuBusBuffer ----------------------------
(***************************************************************************)
(* The bus buffer of the load/store unit (design/lsu/lsu_bus_buffer.sv,    *)
(* lsu_bus_intf.sv): external accesses leave the pipe in dc5 into the      *)
(* input buffer "ibuf", where younger stores to the same double word merge *)
(* with them, or directly into an entry of "buf".  Entries are sent in     *)
(* program order through the output buffer "obuf" to the AXI port, which   *)
(* answers in any order.  Loads in dc2 take bytes from the older stores    *)
(* that have not been sent.  One step is one edge of the core clock; the   *)
(* bus sees the edges at which lsu_bus_clk_en is high ("clk" below).       *)
(*                                                                         *)
(* The bytes an access touches are pairs <<double word, byte>>.  An        *)
(* operation of Ops is a record of its kind, its bytes (none when it turns *)
(* out to be internal) and the value a store writes to each of them.       *)
(***************************************************************************)
EXTENDS Integers, FiniteSets, LsuFlush

CONSTANTS
    DEPTH,           \* LSU_NUM_NBLOAD, entries of buf
    DWS, BYTES,      \* double words, bytes of a double word
    Values,          \* what a byte can hold
    Settings         \* the settings a behaviour starts with and keeps

(* How the core is configured and what its surroundings do. *)
VARIABLE setting
TIMER_MAX      == setting.timer       \* clocks ibuf and the last store wait for a merge
Ops            == setting.ops         \* the operations that are issued
SideEffectDws  == setting.side        \* double words of a region with side effects
Coalescing     == setting.coalescing  \* merging of stores (AXI build, not disabled)
PostedDisable  == setting.posted      \* dec_tlu_sideeffect_posted_disable
DmaDisable     == setting.nodma       \* dec_tlu_dccm_nonblock_dma_disable
NbFreeze       == setting.nbfreeze    \* values of dec_nonblock_load_freeze_dc2
BusClocks      == setting.clocks      \* values of lsu_bus_clk_en
Levels         == setting.levels      \* flush levels that happen
Errors         == setting.errors      \* values of an error response

Byte  == 0 .. BYTES - 1
Bytes == DWS \X Byte
Tag   == 0 .. DEPTH - 1

DwsOf(op) == {b[1] : b \in op.bytes}
Lo(op) == CHOOSE d \in DwsOf(op) : \A e \in DwsOf(op) : d <= e
Hi(op) == CHOOSE d \in DwsOf(op) : \A e \in DwsOf(op) : d >= e
SideEffect(dw) == dw \in SideEffectDws

WellFormed(op, side) ==
    /\ op.kind \in {"load", "store"} /\ op.bytes \in SUBSET Bytes /\ op.val \in Values
    /\ op.bytes # {} => \E d \in DWS : DwsOf(op) \in {{d}, {d, d + 1}}
    \* an access across a region with side effects is an exception
    /\ Cardinality(DwsOf(op)) = 2 => DwsOf(op) \cap side = {}

ASSUME BusAssumption ==
    /\ DEPTH \in Nat /\ DEPTH >= 3 /\ BYTES \in Nat \ {0}
    /\ DWS \subseteq Nat /\ DWS # {} /\ Values # {}
    /\ \A s \in Settings :
          /\ s.timer \in Nat /\ s.side \subseteq DWS
          /\ {s.coalescing, s.posted, s.nodma} \subseteq BOOLEAN
          /\ s.nbfreeze \in SUBSET BOOLEAN /\ FALSE \in s.nbfreeze
          /\ s.clocks \in SUBSET BOOLEAN /\ TRUE \in s.clocks
          /\ s.levels \subseteq FlushLevel /\ "none" \in s.levels
          /\ s.errors \in SUBSET BOOLEAN /\ FALSE \in s.errors
          /\ \A op \in s.ops : WellFormed(op, s.side)

None == [b \in {} |-> 0]   \* no bytes
NoOp == [kind |-> "none", bytes |-> {}, val |-> CHOOSE v \in Values : TRUE]
Pkt  == Ops \cup {NoOp}
NoDw == CHOOSE d \in DWS : TRUE

VARIABLES
    dc1, dc2, dc3, dc4, dc5,  \* the LSU stages
    ld_freeze, FreezePtr,     \* a load blocks the pipe, and its entry
    flush_e3,                 \* the registers of a mispredict in e3
    clk_q,                    \* lsu_bus_clk_en_q
    ibuf, buf, ageQ,          \* input buffer, entries, age vectors
    obuf, obuf_timer,         \* output buffer and its coalescing timer
    outstanding,              \* commands the slave has accepted
    rrsp, brsp,               \* registered read and write response
    mem,                      \* the memory behind the bus
    arch, want, older         \* what the properties compare with

pipeVars == <<dc1, dc2, dc3, dc4, dc5, ld_freeze, FreezePtr, flush_e3, clk_q>>
bufVars  == <<ibuf, buf, ageQ, obuf, obuf_timer>>
busVars  == <<outstanding, rrsp, brsp, mem>>
ghosts   == <<arch, want, older>>
vars     == <<pipeVars, bufVars, busVars, ghosts, setting>>

(* An idle register is blank: each use of its contents is gated.           *)
NoDc3   == [op |-> NoOp, busreq |-> FALSE, nbfreeze |-> FALSE, fwd |-> None,
            cancelled |-> FALSE]
NoStage == [op |-> NoOp, valid |-> FALSE, busreq |-> FALSE, nb |-> FALSE,
            p0 |-> 0, p1 |-> 0, fwd |-> None, cancelled |-> FALSE]
NoIbuf  == [valid |-> FALSE, tag |-> 0, dualtag |-> 0, dual |-> FALSE, nb |-> FALSE,
            write |-> FALSE, nomerge |-> FALSE, dw |-> NoDw, bytes |-> {},
            data |-> None, timer |-> 0]
IdleEntry == [state |-> "IDLE", write |-> FALSE, dual |-> FALSE, dualhi |-> FALSE,
              dualtag |-> 0, nb |-> FALSE, nomerge |-> FALSE, dw |-> NoDw,
              bytes |-> {}, data |-> None, error |-> FALSE]
NoObuf  == [valid |-> FALSE, write |-> FALSE, dw |-> NoDw, tag |-> 0, bytes |-> {},
            data |-> None, cmd_done |-> FALSE, data_done |-> FALSE, wren |-> FALSE]

Init ==
    /\ setting \in Settings
    /\ dc1 = NoOp /\ dc2 = NoOp /\ dc3 = NoDc3 /\ dc4 = NoStage /\ dc5 = NoStage
    /\ ld_freeze = FALSE /\ FreezePtr = 0 /\ flush_e3 = "any" /\ clk_q = FALSE
    /\ ibuf = NoIbuf /\ buf = [i \in Tag |-> IdleEntry] /\ ageQ = [i \in Tag |-> {}]
    /\ obuf = NoObuf /\ obuf_timer = 0
    /\ outstanding = {} /\ rrsp = {} /\ brsp = {}
    /\ mem = [b \in Bytes |-> CHOOSE v \in Values : TRUE]
    /\ arch = mem /\ want = [i \in Tag |-> None] /\ older = [t \in {} |-> {}]

-----------------------------------------------------------------------------
(* The pipe *)

Valid(op) == op.kind # "none"
Dual(op)  == Cardinality(DwsOf(op)) = 2
Slots(op) == IF ~Valid(op) THEN 0 ELSE IF Dual(op) THEN 2 ELSE 1
BytesIn(op, dw) == {b \in op.bytes : b[1] = dw}
StoreData(op, dw) == [b \in BytesIn(op, dw) |-> op.val]
Overlay(new, old) ==
    [b \in DOMAIN new \cup DOMAIN old |-> IF b \in DOMAIN new THEN new[b] ELSE old[b]]

Flushes == IF dc5.cancelled THEN {"kill"}
           ELSE IF flush_e3 = "any" THEN Levels
           ELSE {flush_e3} \cup (Levels \cap {"lower", "kill"})

lsu_freeze_dc3(f) == ld_freeze /\ ~flush_dc4(f)
lsu_busreq_dc2(f) == Valid(dc2) /\ dc2.bytes # {} /\ ~flush_dc2_up(f)
lsu_commit_dc5(f) == dc5.valid /\ ~flush_dc5(f)

(* Nothing is between the access in dc2 and the buffers. *)
OnlyDc2(f) == lsu_busreq_dc2(f) /\ ~dc3.busreq /\ ~dc4.busreq /\ ~dc5.busreq

(* The access in dc5 enters the buffers: it commits, or it is the load     *)
(* that froze the pipe, which has to be answered before it can commit.     *)
Takes(f) == dc5.busreq /\ (lsu_commit_dc5(f) \/ lsu_freeze_dc3(f))

CannotMerge(op) == op.kind = "load" \/ Lo(op) # Lo(dc5.op)
no_dword_merge_dc5(f) ==
    /\ dc5.busreq /\ ~Dual(dc5.op)
    /\ IF dc4.busreq THEN CannotMerge(dc4.op)
       ELSE IF dc3.busreq THEN CannotMerge(dc3.op)
       ELSE lsu_busreq_dc2(f) /\ CannotMerge(dc2)

-----------------------------------------------------------------------------
(* The input buffer *)

ibuf_byp(f) ==
    dc5.busreq /\ ~ibuf.valid /\ (dc5.op.kind = "load" \/ no_dword_merge_dc5(f))

ibuf_wr_en(f) == Takes(f) /\ ~ibuf_byp(f)

ibuf_merge_en(f) ==
    /\ Coalescing
    /\ dc5.busreq /\ lsu_commit_dc5(f) /\ dc5.op.kind = "store"
    /\ ibuf.valid /\ ibuf.write
    /\ Lo(dc5.op) = ibuf.dw /\ ~SideEffect(ibuf.dw)

(* A store of two double words merges its low half as ibuf is drained, one *)
(* of a single double word while it stays.                                 *)
ibuf_merge_in == ~Dual(dc5.op)

ibuf_force_drain(f) ==
    OnlyDc2(f) /\ ibuf.valid /\ (dc2.kind = "load" \/ ibuf.dw # Lo(dc2))

ibuf_drain_vld(f) ==
    /\ ibuf.valid
    /\ \/ (ibuf_wr_en(f) \/ ibuf.timer = TIMER_MAX) /\ ~(ibuf_merge_en(f) /\ ibuf_merge_in)
       \/ ibuf_force_drain(f)
       \/ SideEffect(ibuf.dw)
       \/ ~ibuf.write
       \/ ~Coalescing

(* What the access in dc5 leaves in ibuf: its high half if it has two.     *)
IbufIn(f) ==
    LET merge == ibuf_merge_en(f) /\ ibuf_merge_in
        dw == IF Dual(dc5.op) THEN Hi(dc5.op) ELSE Lo(dc5.op)
        store == dc5.op.kind = "store"
        data == IF store THEN StoreData(dc5.op, dw) ELSE None
    IN  [valid |-> TRUE,
         tag |-> IF merge THEN ibuf.tag ELSE IF Dual(dc5.op) THEN dc5.p1 ELSE dc5.p0,
         dualtag |-> IF Dual(dc5.op) THEN dc5.p0 ELSE 0,
         dual |-> Dual(dc5.op), nb |-> dc5.nb, write |-> store,
         nomerge |-> no_dword_merge_dc5(f), dw |-> dw,
         bytes |-> BytesIn(dc5.op, dw) \cup (IF merge THEN ibuf.bytes ELSE {}),
         data |-> IF merge THEN Overlay(data, ibuf.data) ELSE data,
         timer |-> 0]

IbufStep(f) ==
    ibuf' = IF ibuf_wr_en(f) THEN IbufIn(f)
            ELSE IF ~ibuf.valid \/ ibuf_drain_vld(f) THEN NoIbuf
            ELSE [ibuf EXCEPT !.timer = IF @ < TIMER_MAX THEN @ + 1 ELSE @]

-----------------------------------------------------------------------------
(* Entries *)

(* Tags the stage has chosen and not yet used. *)
Reserved(stage) ==
    IF ~stage.busreq THEN {} ELSE IF Dual(stage.op) THEN {stage.p0, stage.p1} ELSE {stage.p0}

IbufTag == IF ibuf.valid THEN {ibuf.tag} ELSE {}
FreeTags == {i \in Tag : buf[i].state = "IDLE"} \ (IbufTag \cup Reserved(dc4) \cup Reserved(dc5))

First(S) == IF S = {} THEN DEPTH - 1 ELSE CHOOSE i \in S : \A j \in S : i <= j
WrPtr0_dc3 == First(FreeTags)
WrPtr1_dc3 == First(FreeTags \ {WrPtr0_dc3})

(* Its command is going out: the age vectors no longer count the entry.    *)
CmdSent(i) == buf[i].state = "CMD" /\ obuf.valid /\ obuf.wren /\ obuf.tag = i

PendingCmd == {i \in Tag : buf[i].state = "CMD" /\ ~CmdSent(i)}
Pending    == {i \in Tag : buf[i].state = "WAIT"} \cup PendingCmd
buf_age(i) == {j \in ageQ[i] : ~CmdSent(j)}

(* assert_CmdPtr0Dec_onehot: see AgeIsProgramOrder. *)
CmdPtr0Dec == {i \in PendingCmd : buf_age(i) = {}}
CmdPtr0    == First(CmdPtr0Dec)

(* The entries allocated: of ibuf, of dc5 and of the high half of dc5.     *)
Drained(f)  == IF ibuf_drain_vld(f) THEN {ibuf.tag} ELSE {}
LowAlloc(f) == IF Takes(f) /\ (ibuf_byp(f) \/ Dual(dc5.op)) /\ ~ibuf_merge_en(f)
               THEN {dc5.p0} ELSE {}
HighAlloc(f) == IF Takes(f) /\ ibuf_byp(f) /\ Dual(dc5.op) THEN {dc5.p1} ELSE {}

FromIbuf(f, clk) ==
    LET merge == ibuf_merge_en(f) /\ ~ibuf_merge_in
        lo == BytesIn(dc5.op, Lo(dc5.op))
    IN  [state |-> IF clk THEN "CMD" ELSE "WAIT", write |-> ibuf.write,
         dual |-> ibuf.dual, dualhi |-> ibuf.dual, dualtag |-> ibuf.dualtag,
         nb |-> ibuf.nb, nomerge |-> ibuf.nomerge \/ ibuf_force_drain(f), dw |-> ibuf.dw,
         bytes |-> ibuf.bytes \cup (IF merge THEN lo ELSE {}),
         data |-> IF merge THEN Overlay(StoreData(dc5.op, ibuf.dw), ibuf.data) ELSE ibuf.data,
         error |-> FALSE]

FromDc5(f, clk, high) ==
    LET dw == IF high THEN Hi(dc5.op) ELSE Lo(dc5.op)
        dual == Dual(dc5.op)
    IN  [state |-> IF clk THEN "CMD" ELSE "WAIT", write |-> dc5.op.kind = "store",
         dual |-> dual, dualhi |-> high,
         dualtag |-> IF ~dual THEN 0 ELSE IF high THEN dc5.p0 ELSE dc5.p1,
         nb |-> dc5.nb, nomerge |-> no_dword_merge_dc5(f), dw |-> dw,
         bytes |-> BytesIn(dc5.op, dw),
         data |-> IF dc5.op.kind = "store" THEN StoreData(dc5.op, dw) ELSE None,
         error |-> FALSE]

(* The answer to entry i in the registered responses. *)
Answers(i) == {r \in rrsp \cup brsp : r.tag = i}

(* An entry that has its answer is freed, a load of two double words when  *)
(* both halves have it.                                                    *)
RstAlone(i) == buf[i].state = "DONE" /\ clk_q  \* fault: does not wait for the other half
buf_rst(i) ==
    /\ buf[i].state = "DONE" /\ clk_q
    /\ buf[i].write \/ ~buf[i].dual \/ buf[buf[i].dualtag].state = "DONE"

EntryNext(i, f, clk) ==
    CASE i \in Drained(f)   -> FromIbuf(f, clk)
      [] i \in LowAlloc(f)  -> FromDc5(f, clk, FALSE)
      [] i \in HighAlloc(f) -> FromDc5(f, clk, TRUE)
      [] buf[i].state = "WAIT" /\ clk -> [buf[i] EXCEPT !.state = "CMD"]
      [] CmdSent(i) /\ clk -> [buf[i] EXCEPT !.state = "RESP"]
      [] buf[i].state = "RESP" /\ clk /\ Answers(i) # {} ->
            LET r == CHOOSE r \in Answers(i) : TRUE
            IN  IF buf[i].write /\ ~r.err THEN IdleEntry
                ELSE [buf[i] EXCEPT !.state = "DONE", !.error = r.err,
                                    !.data = IF buf[i].write THEN @ ELSE r.data]
      [] buf_rst(i) -> IdleEntry
      [] OTHER -> buf[i]

AgeLosesIbuf(i, f) ==  \* fault: the low half does not wait for the ibuf entry
    buf_age(i) \cup (IF i \in LowAlloc(f) \cup HighAlloc(f) \cup Drained(f) THEN Pending ELSE {})
                \cup (IF i \in HighAlloc(f) THEN {dc5.p0} ELSE {})
AgeIn(i, f) ==
    buf_age(i) \cup (IF i \in LowAlloc(f) \cup HighAlloc(f) \cup Drained(f) THEN Pending ELSE {})
                \cup (IF i \in LowAlloc(f) THEN Drained(f) ELSE {})
                \cup (IF i \in HighAlloc(f) THEN {dc5.p0} ELSE {})

EntryStep(f, clk) ==
    /\ buf' = [i \in Tag |-> EntryNext(i, f, clk)]
    /\ ageQ' = [i \in Tag |-> AgeIn(i, f)]

-----------------------------------------------------------------------------
(* The output buffer and the AXI port.  "r" holds the ready inputs. *)

SameAsResp == {i \in Tag : buf[i].state = "RESP" /\ buf[i].dw = obuf.dw /\ i # obuf.tag}
bus_addr_match_pending == obuf.valid /\ SameAsResp # {}

OnlyAnswerPending ==  \* fault: the access still in obuf is forgotten
    PostedDisable /\ \E i \in Tag : buf[i].state = "RESP" /\ SideEffect(buf[i].dw)
bus_sideeffect_pend ==
    /\ PostedDisable
    /\ \/ obuf.valid /\ SideEffect(obuf.dw)
       \/ \E i \in Tag : buf[i].state = "RESP" /\ SideEffect(buf[i].dw)

awvalid == obuf.valid /\ obuf.write /\ ~obuf.cmd_done /\ ~bus_addr_match_pending
wvalid  == obuf.valid /\ obuf.write /\ ~obuf.data_done /\ ~bus_addr_match_pending
arvalid == obuf.valid /\ ~obuf.write /\ ~bus_addr_match_pending

cmd_done(r)  == obuf.cmd_done \/ (awvalid /\ r.aw)
data_done(r) == obuf.data_done \/ (wvalid /\ r.w)
bus_cmd_sent(r) == (cmd_done(r) /\ data_done(r)) \/ (arvalid /\ r.ar)

ReadyEither(r) == IF obuf.write THEN r.aw \/ r.w ELSE r.ar  \* fault: one channel is enough
bus_cmd_ready(r) ==
    IF ~obuf.write THEN r.ar
    ELSE IF obuf.cmd_done THEN r.w
    ELSE IF obuf.data_done THEN r.aw
    ELSE r.aw /\ r.w

(* The last pending store waits a while for another one to merge with,     *)
(* unless it is known that none can.                                       *)
obuf_force_wr_en(f) ==
    /\ OnlyDc2(f) /\ ~ibuf.valid
    /\ Cardinality(PendingCmd) = 1 /\ Lo(dc2) # buf[CmdPtr0].dw
WaitWithoutTimer(f) ==  \* fault: the wait for a merge has no limit
    /\ Coalescing
    /\ Cardinality(PendingCmd) = 1 /\ \A i \in PendingCmd : buf[i].write
    /\ ~buf[CmdPtr0].nomerge /\ ~obuf_force_wr_en(f)
obuf_wr_wait(f) ==
    /\ Coalescing
    /\ Cardinality(PendingCmd) = 1 /\ \A i \in PendingCmd : buf[i].write
    /\ obuf_timer # TIMER_MAX
    /\ ~buf[CmdPtr0].nomerge /\ ~obuf_force_wr_en(f)

(* A store goes through to obuf when nothing is in front of it. *)
ibuf_buf_byp(f) == ibuf_byp(f) /\ Pending = {} /\ ~Dual(dc5.op) /\ dc5.op.kind = "store"

obuf_wr_en(f, r) ==
    /\ (ibuf_buf_byp(f) /\ lsu_commit_dc5(f)) \/ CmdPtr0Dec # {}
    /\ bus_cmd_ready(r) \/ ~obuf.valid
    /\ ~obuf_wr_wait(f) /\ ~bus_sideeffect_pend /\ ~bus_addr_match_pending

ObufIn(f) ==
    LET from == IF ibuf_buf_byp(f) THEN FromDc5(f, TRUE, FALSE) ELSE buf[CmdPtr0]
    IN  [valid |-> TRUE, write |-> from.write, dw |-> from.dw,
         tag |-> IF ibuf_buf_byp(f) THEN dc5.p0 ELSE CmdPtr0,
         bytes |-> from.bytes, data |-> from.data,
         cmd_done |-> FALSE, data_done |-> FALSE, wren |-> TRUE]

ObufStep(f, clk, r) ==
    IF ~clk THEN UNCHANGED <<obuf, obuf_timer>>
    ELSE /\ obuf' = IF obuf_wr_en(f, r) THEN ObufIn(f)
                    ELSE IF ~obuf.valid \/ bus_cmd_sent(r) THEN NoObuf
                    ELSE [obuf EXCEPT !.cmd_done = cmd_done(r), !.data_done = data_done(r),
                                      !.wren = FALSE]
         /\ obuf_timer' = IF obuf_wr_en(f, r) THEN 0
                          ELSE IF PendingCmd # {} /\ obuf_timer < TIMER_MAX
                          THEN obuf_timer + 1 ELSE obuf_timer

(* The slave: it accepts commands, may keep any number of them, and on     *)
(* each clock of the bus answers at most one read and one write, in any    *)
(* order, performing the access as it answers; an access that it answers   *)
(* with an error is performed too.                                         *)
ReadOf(o) == [b \in o.bytes |-> mem[b]]

(* What the slave answers: a read and a write, or none.                    *)
AnswerInputs(clk, write) ==
    {{}} \cup IF clk THEN {{o} : o \in {p \in outstanding : p.write = write}} ELSE {}

Accepted(r) ==
    IF bus_cmd_sent(r)
    THEN {[tag |-> obuf.tag, write |-> obuf.write, dw |-> obuf.dw, bytes |-> obuf.bytes,
           data |-> obuf.data]}
    ELSE {}

SlaveStep(clk, r, reads, writes, err) ==
    IF ~clk THEN UNCHANGED busVars
    ELSE /\ outstanding' = (outstanding \ (reads \cup writes)) \cup Accepted(r)
         /\ rrsp' = {[tag |-> o.tag, err |-> err, data |-> ReadOf(o)] : o \in reads}
         /\ brsp' = {[tag |-> o.tag, err |-> err, data |-> None] : o \in writes}
         /\ mem' = [b \in Bytes |-> IF \E o \in writes : b \in o.bytes
                                    THEN (CHOOSE o \in writes : TRUE).data[b] ELSE mem[b]]

-----------------------------------------------------------------------------
(* Forwarding to the load in dc2 *)

StageHit(op, valid, b) == valid /\ op.kind = "store" /\ b \in op.bytes

(* Entries that have b and are not sent; an entry that is being sent is no *)
(* longer in the age vectors and counts as younger than the others.        *)
Hits(b) == {i \in Tag : /\ buf[i].write /\ buf[i].state \in {"WAIT", "CMD"}
                        /\ b \in buf[i].bytes}
AnyHit(b) == Hits(b)  \* fault: not only the youngest
YoungestHit(b) == {i \in Hits(b) : Hits(b) \ {i} \subseteq buf_age(i)}

Covered(b) ==
    \/ StageHit(dc3.op, Valid(dc3.op), b)
    \/ StageHit(dc4.op, dc4.valid, b)
    \/ StageHit(dc5.op, dc5.valid, b)
    \/ ibuf.valid /\ ibuf.write /\ b \in ibuf.bytes
    \/ YoungestHit(b) # {}

Forwarded(b) ==
    IF StageHit(dc3.op, Valid(dc3.op), b) THEN dc3.op.val
    ELSE IF StageHit(dc4.op, dc4.valid, b) THEN dc4.op.val
    ELSE IF StageHit(dc5.op, dc5.valid, b) THEN dc5.op.val
    ELSE IF ibuf.valid /\ ibuf.write /\ b \in ibuf.bytes THEN ibuf.data[b]
    ELSE buf[CHOOSE i \in YoungestHit(b) : TRUE].data[b]

ld_full_hit_dc2(f) ==
    /\ lsu_busreq_dc2(f) /\ dc2.kind = "load" /\ ~SideEffect(Lo(dc2))
    /\ \A b \in dc2.bytes : Covered(b)

-----------------------------------------------------------------------------
(* The freeze *)

FreezePtrEn == dc3.busreq /\ dc3.op.kind = "load" /\ ld_freeze

(* "nbfreeze" (dec_nonblock_load_freeze_dc2): the load may not be          *)
(* non-blocking.                                                           *)
NbFreezes == IF Valid(dc2) /\ dc2.kind = "load" /\ dc2.bytes # {} THEN NbFreeze ELSE {FALSE}
ld_freeze_en(f, nbfreeze) ==
    /\ lsu_busreq_dc2(f) /\ dc2.kind = "load"
    /\ nbfreeze \/ (DmaDisable /\ SideEffect(Lo(dc2)))
    /\ ~lsu_freeze_dc3(f) /\ ~ld_full_hit_dc2(f)

(* "cancel" (dec_tlu_cancel_e4): in its second cycle of the freeze the     *)
(* load turns out to have hit a trigger, for which it will be killed.      *)
SecondFreezeCycle == ld_freeze /\ dc4.busreq /\ ~dc4.valid
Cancels(f) == IF SecondFreezeCycle /\ "kill" \in Levels /\ lsu_freeze_dc3(f)
              THEN BOOLEAN ELSE {FALSE}

AnyFreezeRst(f, cancel) ==  \* fault: the tag of the entry is not compared
    flush_dc3(f) \/ (cancel /\ ld_freeze) \/ \E i \in Tag : buf_rst(i) /\ ld_freeze
FlushOnlyRst(f, cancel) ==  \* fault: the answer does not end the freeze
    flush_dc3(f) \/ (cancel /\ ld_freeze)
ld_freeze_rst(f, cancel) ==
    \/ flush_dc3(f)
    \/ cancel /\ ld_freeze
    \/ buf_rst(FreezePtr) /\ ~FreezePtrEn /\ ld_freeze

FreezeStep(f, nbfreeze, cancel) ==
    /\ ld_freeze' = ((ld_freeze \/ ld_freeze_en(f, nbfreeze)) /\ ~ld_freeze_rst(f, cancel))
    /\ FreezePtr' = IF FreezePtrEn THEN WrPtr0_dc3 ELSE FreezePtr

-----------------------------------------------------------------------------
(* One clock *)

BusSlots(req, op) == IF req THEN Slots(op) ELSE 0
buf_numvld_any(f) ==
    Slots(dc1) + BusSlots(lsu_busreq_dc2(f), dc2) + BusSlots(dc3.busreq, dc3.op)
      + BusSlots(dc4.busreq, dc4.op) + BusSlots(dc5.busreq, dc5.op)
      + Cardinality(IbufTag) + Cardinality({i \in Tag : buf[i].state # "IDLE"})

lsu_bus_buffer_full_any(f) == buf_numvld_any(f) >= DEPTH - 1
EmptyWithoutIbuf ==  \* fault: the access in ibuf is forgotten
    (\A i \in Tag : buf[i].state = "IDLE") /\ ~obuf.valid
lsu_bus_buffer_empty_any ==
    (\A i \in Tag : buf[i].state = "IDLE") /\ ~ibuf.valid /\ ~obuf.valid

MayIssue(op, f) ==
    \/ op = NoOp
    \/ op \in Ops /\ ~flush_dc2_up(f) /\ ~ld_freeze /\ ~lsu_bus_buffer_full_any(f)

lsu_nonblock_load_valid_dc3(f) ==
    /\ dc3.busreq /\ Valid(dc3.op) /\ dc3.op.kind = "load"
    /\ ~flush_dc3(f) /\ ~dc3.nbfreeze /\ ~lsu_freeze_dc3(f)

Dc3In(f, nbfreeze) ==
    IF ~Valid(dc2) \/ flush_dc2_up(f) THEN NoDc3
    ELSE LET hit == ld_full_hit_dc2(f)
             req == lsu_busreq_dc2(f) /\ ~hit
         IN  [op |-> dc2, busreq |-> req, nbfreeze |-> req /\ nbfreeze,
              fwd |-> IF hit THEN [b \in dc2.bytes |-> Forwarded(b)] ELSE None,
              cancelled |-> FALSE]

Dc4In(f) ==
    LET valid  == Valid(dc3.op) /\ ~flush_dc3(f) /\ ~lsu_freeze_dc3(f)
        busreq == dc3.busreq /\ ~flush_dc4(f)
    IN  IF ~valid /\ ~busreq THEN NoStage
        ELSE [op |-> dc3.op, valid |-> valid, busreq |-> busreq,
              nb |-> lsu_nonblock_load_valid_dc3(f),
              p0 |-> IF busreq THEN WrPtr0_dc3 ELSE 0,
              p1 |-> IF busreq /\ Dual(dc3.op) THEN WrPtr1_dc3 ELSE 0,
              fwd |-> IF valid THEN dc3.fwd ELSE None,
              cancelled |-> valid /\ dc3.cancelled]

Dc5In(f) ==
    LET valid  == dc4.valid /\ ~flush_dc4(f)
        busreq == dc4.busreq /\ ~flush_dc5(f)
    IN  IF ~valid /\ ~busreq THEN NoStage
        ELSE [dc4 EXCEPT !.valid = valid, !.busreq = busreq,
                         !.fwd = IF valid THEN @ ELSE None,
                         !.cancelled = valid /\ @]

PipeStep(f, op, nbfreeze, cancel) ==
    LET frozen == lsu_freeze_dc3(f)
    IN  /\ dc1' = IF frozen THEN dc1 ELSE op
        /\ dc2' = IF frozen THEN dc2 ELSE IF flush_dc2_up(f) THEN NoOp ELSE dc1
        /\ dc3' = IF frozen
                  THEN [dc3 EXCEPT !.busreq = FALSE, !.nbfreeze = FALSE,
                                   !.cancelled = @ \/ cancel]
                  ELSE Dc3In(f, nbfreeze)
        /\ dc4' = Dc4In(f) /\ dc5' = Dc5In(f)
        /\ flush_e3' = FlushRegisterNext(f, frozen)
        /\ FreezeStep(f, nbfreeze, cancel)

(* The accesses in program order: the memory after all the stores taken    *)
(* from dc5 ("arch"), what each load must return ("want"), and for each    *)
(* tag whose access the slave has not performed yet those of the accesses  *)
(* in front of it ("older").                                               *)
GhostStep(f, performed) ==
    LET op == dc5.op
        take == Takes(f)
        load == take /\ op.kind = "load"
        now(dw) == [b \in BytesIn(op, dw) |-> arch[b]]
        low == IF ~take \/ ibuf_merge_en(f) THEN {} ELSE {dc5.p0}
        high == IF take /\ Dual(op) THEN {dc5.p1} ELSE {}
    IN  /\ arch' = IF take /\ op.kind = "store"
                   THEN [b \in Bytes |-> IF b \in op.bytes THEN op.val ELSE arch[b]]
                   ELSE arch
        /\ want' = [t \in Tag |-> IF load /\ t = dc5.p0 THEN now(Lo(op))
                                  ELSE IF load /\ Dual(op) /\ t = dc5.p1 THEN now(Hi(op))
                                  ELSE IF buf_rst(t) THEN None ELSE want[t]]
        /\ older' = [t \in (DOMAIN older \ performed) \cup low \cup high |->
                        IF t \in high THEN (DOMAIN older \ performed) \cup low
                        ELSE IF t \in low THEN DOMAIN older \ performed
                        ELSE older[t] \ performed]

NotReady == [aw |-> FALSE, w |-> FALSE, ar |-> FALSE]
ReadyInputs(clk) ==
    IF ~clk \/ ~obuf.valid THEN {NotReady}
    ELSE IF obuf.write THEN [aw : BOOLEAN, w : BOOLEAN, ar : {FALSE}]
    ELSE [aw : {FALSE}, w : {FALSE}, ar : BOOLEAN]

CoreSide(f, op, nbfreeze, cancel, clk) ==
    /\ MayIssue(op, f)
    /\ UNCHANGED setting
    /\ PipeStep(f, op, nbfreeze, cancel)
    /\ clk_q' = clk
    /\ IbufStep(f)
    /\ EntryStep(f, clk)

Step(clk, ready, reads, writes) ==
    \E f \in Flushes, op \in Pkt : \E nbfreeze \in NbFreezes, cancel \in Cancels(f) :
        /\ CoreSide(f, op, nbfreeze, cancel, clk)
        /\ \E r \in ready :
              /\ ObufStep(f, clk, r)
              /\ \E rs \in reads, ws \in writes :
                    /\ GhostStep(f, {o.tag : o \in rs \cup ws})
                    /\ \E err \in IF rs \cup ws = {} THEN {FALSE} ELSE Errors :
                          SlaveStep(clk, r, rs, ws, err)

Next == \E clk \in BusClocks :
    Step(clk, ReadyInputs(clk), AnswerInputs(clk, FALSE), AnswerInputs(clk, TRUE))

Spec == Init /\ [][Next]_vars

(* The clocks keep running, the slave is ready again and again and answers *)
(* every command.                                                          *)
AllReady == [aw |-> TRUE, w |-> TRUE, ar |-> TRUE]
Ready == Step(TRUE, {AllReady}, AnswerInputs(TRUE, FALSE), AnswerInputs(TRUE, TRUE))
Answer(t) ==
    \E o \in outstanding :
        /\ o.tag = t
        /\ Step(TRUE, ReadyInputs(TRUE),
                IF o.write THEN AnswerInputs(TRUE, FALSE) ELSE {{o}},
                IF o.write THEN {{o}} ELSE AnswerInputs(TRUE, TRUE))
FairSpec == Spec /\ WF_vars(Ready) /\ \A t \in Tag : WF_vars(Answer(t))

-----------------------------------------------------------------------------
(* Properties *)

InBus == {o.tag : o \in outstanding}
InRsp == {r.tag : r \in rrsp \cup brsp}

BusTypeOK ==
    /\ {dc1, dc2, dc3.op, dc4.op, dc5.op} \subseteq Pkt
    /\ flush_e3 \in FlushRegister
    /\ {dc4.p0, dc4.p1, dc5.p0, dc5.p1, FreezePtr, ibuf.tag, ibuf.dualtag, obuf.tag} \subseteq Tag
    /\ \A i \in Tag : /\ buf[i].state \in {"IDLE", "WAIT", "CMD", "RESP", "DONE"}
                      /\ ageQ[i] \subseteq Tag \ {i}
                      /\ buf[i].bytes \subseteq {buf[i].dw} \X Byte
                      /\ buf[i].write => DOMAIN buf[i].data = buf[i].bytes
    /\ ibuf.write => DOMAIN ibuf.data = ibuf.bytes
    /\ ibuf.timer \in 0 .. TIMER_MAX /\ obuf_timer \in 0 .. TIMER_MAX
    /\ Cardinality(rrsp) <= 1 /\ Cardinality(brsp) <= 1
    /\ InBus \cup InRsp \subseteq Tag
    /\ mem \in [Bytes -> Values] /\ arch \in [Bytes -> Values]

(* A tag is chosen in dc3 and used in dc5 or when ibuf drains, clocks      *)
(* later: no two accesses hold the same one, none of them is of an entry   *)
(* in use, and dc3 always finds those it needs, although the stall at      *)
(* decode looks at the occupancy two clocks before.                        *)
TagsAreOwnedOnce ==
    LET busy == {i \in Tag : buf[i].state # "IDLE"}
    IN  /\ Cardinality(Reserved(dc4)) = BusSlots(dc4.busreq, dc4.op)
        /\ Cardinality(Reserved(dc5)) = BusSlots(dc5.busreq, dc5.op)
        /\ Cardinality(busy \cup IbufTag \cup Reserved(dc4) \cup Reserved(dc5))
              = Cardinality(busy) + Cardinality(IbufTag)
                  + Cardinality(Reserved(dc4)) + Cardinality(Reserved(dc5))
        /\ dc3.busreq => Cardinality(FreeTags) >= Slots(dc3.op)

(* The age vectors are the program order of the accesses not yet sent,     *)
(* also when ibuf drains between the two halves of an access, and so there *)
(* is one command to send at a time (assert_CmdPtr0Dec_onehot) and it is   *)
(* the oldest.                                                             *)
Unsent == {i \in Tag : buf[i].state \in {"WAIT", "CMD"}} \cup IbufTag
InObuf == IF obuf.valid THEN {obuf.tag} ELSE {}
AgeIsProgramOrder ==
    /\ DOMAIN older = Unsent \cup InObuf \cup InBus
    /\ \A i \in DOMAIN older : i \notin older[i] /\ older[i] \subseteq DOMAIN older
    /\ \A i, j \in DOMAIN older : i # j => (i \in older[j] <=> j \notin older[i])
    /\ \A i \in Pending : buf_age(i) = older[i] \cap Pending
    /\ Cardinality(CmdPtr0Dec) <= 1

(* "We have no ordering rules for AXI": the slave never holds two accesses *)
(* to the same double word, which it could perform in either order.        *)
OneAccessPerDoubleWord ==
    \A o, p \in outstanding : o.dw = p.dw => o = p

(* What the entries, their tags and their order keep at every clock. *)
BusInv == BusTypeOK /\ TagsAreOwnedOnce /\ AgeIsProgramOrder /\ OneAccessPerDoubleWord

(* Every entry in RESP has its command in exactly one place: in obuf, with *)
(* the slave, or as a response not yet consumed; nothing else is there.    *)
(* No command is lost or sent twice when obuf is refilled as AW, W or AR   *)
(* are accepted one by one.                                                *)
CommandsConserved ==
    LET resp == {i \in Tag : buf[i].state = "RESP"}
        waiting == {i \in Tag : CmdSent(i)}
    IN  /\ resp \cup waiting = InObuf \cup InBus \cup InRsp
        /\ Cardinality(InObuf) + Cardinality(outstanding) + Cardinality(rrsp) + Cardinality(brsp)
              = Cardinality(resp \cup waiting)

(* A load returns the value of the last store before it in program order,  *)
(* byte by byte: whether it was answered by the bus or took all its bytes  *)
(* from stores in the pipe, in ibuf and in the entries.                    *)
LoadsSeeProgramOrder ==
    /\ \A i \in Tag : buf[i].state = "DONE" /\ ~buf[i].write /\ ~buf[i].error
                         => buf[i].data = want[i]
    /\ dc5.valid /\ dc5.fwd # None => dc5.fwd = [b \in dc5.op.bytes |-> arch[b]]

(* The freeze ends, if not by a flush from writeback, with the answer to   *)
(* the load that started it, and both halves of it are there; or by the    *)
(* mispredict of the branch in front of the load in its pair, which comes  *)
(* before the request of the load has left dc3: no answer comes to it      *)
(* then.                                                                   *)
FreezeEndsWithItsLoad ==
    \A f \in Flushes : lsu_freeze_dc3(f) /\ ld_freeze_rst(f, FALSE) =>
        LET halves == IF buf[FreezePtr].dual THEN {FreezePtr, buf[FreezePtr].dualtag}
                      ELSE {FreezePtr}
        IN  \/ flush_dc3(f) /\ dc3.busreq
            \/ /\ \A i \in halves : buf[i].state = "DONE" /\ ~buf[i].write
               /\ UNION {buf[i].bytes : i \in halves} = dc3.op.bytes
               /\ \A i \in halves : want[i] = [b \in buf[i].bytes |-> arch[b]]

(* At most one non-blocking load returns in a clock, for the data and tags *)
(* of all that return are or-ed together, and it returns with both its     *)
(* halves, either valid or in error                                        *)
(* (assert_dec_data_valid_data_error_onehot).  In the same way at most one *)
(* store reports an error.                                                 *)
Returning(high) == {i \in Tag : buf_rst(i) /\ buf[i].nb /\ buf[i].dualhi = high}
lsu_nonblock_load_data_valid ==
    \E i \in Returning(FALSE) : ~buf[i].error /\ (buf[i].dual => \E j \in Returning(TRUE) : ~buf[j].error)
lsu_nonblock_load_data_error ==
    \E i \in Returning(FALSE) : buf[i].error \/ (buf[i].dual /\ \E j \in Returning(TRUE) : buf[j].error)
OneLoadReturns ==
    /\ Cardinality(Returning(FALSE)) <= 1
    /\ \A i \in Returning(FALSE) :
          Returning(TRUE) = IF buf[i].dual THEN {buf[i].dualtag} ELSE {}
    /\ Returning(TRUE) # {} => Returning(FALSE) # {}
    /\ Returning(FALSE) # {} => lsu_nonblock_load_data_valid # lsu_nonblock_load_data_error
    /\ Cardinality({i \in Tag : buf_rst(i) /\ buf[i].write}) <= 1

(* While side effects are not posted, nothing is sent behind an access     *)
(* with side effects before it is answered.                                *)
SideEffectsOrdered ==
    PostedDisable /\ obuf.valid => \A o \in outstanding : ~SideEffect(o.dw)

(* lsu_bus_buffer_empty_any, on which fences and the halt of the core rely *)
(* (lsu.sv): when it is raised the slave holds nothing, and the memory has *)
(* every store taken from the pipe.                                        *)
EmptyMeansQuiet ==
    lsu_bus_buffer_empty_any =>
        outstanding = {} /\ rrsp = {} /\ brsp = {} /\ mem = arch

(* Every entry is answered and freed, and every freeze ends.               *)
EntriesComplete == \A i \in Tag : buf[i].state # "IDLE" ~> buf[i].state = "IDLE"
FreezeEnds == ld_freeze ~> ~ld_freeze
=============================================================================
