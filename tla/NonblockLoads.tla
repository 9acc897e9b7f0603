---------------------------- MODULE NonblockLoads ----------------------------
(***************************************************************************)
(* Non-blocking loads in decode (design/dec/dec_decode_ctl.sv).  A load    *)
(* whose data comes over the bus leaves the pipe without it; an entry of   *)
(* "cam" remembers its tag and destination until the data returns, out of  *)
(* order, and writes the register file through a port of its own.  Readers *)
(* of the register wait at decode, or, if they are already in the pipe,    *)
(* the load blocks it.  A younger instruction that writes the register     *)
(* takes the entry away.  One step is one clock.                           *)
(*                                                                         *)
(* An instruction is a record of its kind ("load", "fload" for a floating- *)
(* point load, or "op"), its integer destination                           *)
(* "rd" and source "rs" (0: none).  Its fields "nb" and "tag" say that it  *)
(* is a load that left dc3 as non-blocking and with which tag; "read" is a *)
(* ghost: a later instruction took it as the producer of its source.       *)
(***************************************************************************)
EXTENDS Integers, FiniteSets

CONSTANTS
    NBLOAD_SIZE,   \* LSU_NUM_NBLOAD, entries of the cam and tags of the LSU
    Tag, NoTag,    \* the tags, which the code numbers, and none of them
    Regs,          \* registers, not 0
    Instrs,        \* the instructions the instance issues
    External,      \* values of "the load goes to the bus"
    Flushes        \* flushes the instance takes

Flush == {"none", "i1_e3", "i0_e3", "lower", "kill_i1", "kill_i0"}
Index == 0 .. NBLOAD_SIZE - 1
Loads == {"load", "fload"}

ASSUME NonblockAssumption ==
    /\ NBLOAD_SIZE \in Nat /\ NBLOAD_SIZE >= 2
    /\ IsFiniteSet(Tag) /\ Cardinality(Tag) = NBLOAD_SIZE /\ NoTag \notin Tag
    /\ Regs \subseteq Nat \ {0}
    /\ \A i \in Instrs : /\ i.kind \in Loads \cup {"op"} /\ i.rs \in Regs \cup {0}
                         /\ i.rd \in IF i.kind = "fload" THEN {0} ELSE Regs \cup {0}
    /\ External \in SUBSET BOOLEAN /\ Flushes \subseteq Flush /\ "none" \in Flushes

NoInstr == [kind |-> "none", rd |-> 0, rs |-> 0, nb |-> FALSE, tag |-> NoTag, read |-> FALSE]
Fresh(i) == [kind |-> i.kind, rd |-> i.rd, rs |-> i.rs, nb |-> FALSE, tag |-> NoTag, read |-> FALSE]
NoPair  == [i0 |-> NoInstr, i1 |-> NoInstr]
Slot    == {"i0", "i1"}
NoEntry == [valid |-> FALSE, wb |-> FALSE, tag |-> NoTag, rd |-> 0]
Ready   == [tags |-> {}, read |-> FALSE]

VARIABLES
    e1, e2, e3, e4, wb,   \* the stages, a pair of instructions each
    ld_freeze,            \* a load in dc3 blocks the pipe
    flush_e3,             \* the registers of a mispredict in e3
    busreq,               \* lsu_busreq_dc3
    nbfreeze,             \* dec_nonblock_load_freeze_dc3
    depE1, sameE1, sameE2,\* depend_load_e2_e1, depend_load_same_cycle_e1, _e2
    nb4, nb5,             \* the tag of nonblock_load_valid_dc4, _dc5, or none
    cam,                  \* load_cam_pkt_t, by index
    busy,                 \* tags of the loads the bus has not answered
    pend                  \* ghost: of each register, the load it waits for

stages == <<e1, e2, e3, e4, wb>>
depend == <<depE1, sameE1, sameE2>>
vars   == <<stages, ld_freeze, flush_e3, busreq, nbfreeze, depend, nb4, nb5, cam, busy, pend>>

Init ==
    /\ e1 = NoPair /\ e2 = NoPair /\ e3 = NoPair /\ e4 = NoPair /\ wb = NoPair
    /\ ld_freeze = FALSE /\ flush_e3 = "any" /\ busreq = FALSE /\ nbfreeze = FALSE
    /\ depE1 = FALSE /\ sameE1 = FALSE /\ sameE2 = FALSE
    /\ nb4 = {} /\ nb5 = {}
    /\ cam = [i \in Index |-> NoEntry]
    /\ busy = {} /\ pend = [r \in Regs |-> Ready]

-----------------------------------------------------------------------------
(* Flushes: "i1_e3", "i0_e3" a mispredict found in e3, of i1 or of i0;     *)
(* "lower" a flush from writeback, which "kill_i1" and "kill_i0" make kill *)
(* i1, or both, in wb.                                                     *)

flush_final_e3(f)    == f \in {"i1_e3", "i0_e3"}
i0_flush_final_e3(f) == f = "i0_e3"
flush_lower_wb(f)    == f \in {"lower", "kill_i1", "kill_i0"}
kill_writeb_wb(f, s) == f = "kill_i0" \/ (f = "kill_i1" /\ s = "i1")

freeze(f) == ld_freeze /\ ~flush_lower_wb(f)

(* A mispredict comes from a pair of registers that are held while the     *)
(* pipe is frozen, also if it froze on the edge that loaded them, and that *)
(* a flush from writeback sets; otherwise "any" branch sets them, and a    *)
(* branch is not a load.                                                   *)
FlushRegister == {"any", "none", "i1_e3", "i0_e3"}
FlushRegisterNext(f) ==
    IF freeze(f) THEN f ELSE IF flush_lower_wb(f) THEN "i0_e3" ELSE "any"

Mispredicts ==
    IF flush_e3 # "any" THEN {flush_e3}
    ELSE {f \in Flushes \cap {"none", "i1_e3", "i0_e3"} :
             /\ f = "i0_e3" => e3.i0.kind = "op"
             /\ f = "i1_e3" => e3.i1.kind = "op"}
FlushInputs ==
    Mispredicts \cup
    {f \in Flushes \cap {"lower", "kill_i1", "kill_i0"} :
        /\ f = "kill_i0" => wb.i0.kind # "none"
        /\ f = "kill_i1" => wb.i0.kind # "none" \/ wb.i1.kind # "none"}

Drop(pair, all, i1) ==
    [i0 |-> IF all THEN NoInstr ELSE pair.i0,
     i1 |-> IF all \/ i1 THEN NoInstr ELSE pair.i1]

LoadSlot(pair) == {s \in Slot : pair[s].kind \in Loads}
HasLoad(pair)  == LoadSlot(pair) # {}

-----------------------------------------------------------------------------
(* The load/store unit, as decode sees it *)

flush_dc3(f) == flush_lower_wb(f) \/ i0_flush_final_e3(f)

lsu_nonblock_load_valid_dc3(f) ==
    busreq /\ HasLoad(e3) /\ ~flush_dc3(f) /\ ~nbfreeze /\ ~freeze(f)

lsu_commit_dc5(f) == \E s \in LoadSlot(wb) : ~kill_writeb_wb(f, s)
lsu_nonblock_load_inv_dc5(f) == nb5 # {} /\ ~lsu_commit_dc5(f)

(* The loads that hold or will hold a tag; decode stops loads at one less  *)
(* than all tags (lsu_bus_buffer_full_any).                                *)
InPipe == {p \in (1 .. 5) \X Slot : stages[p[1]][p[2]].kind \in Loads}
lsu_load_stall_any == Cardinality(InPipe) + Cardinality(busy) >= NBLOAD_SIZE - 1

FreeTags == Tag \ (busy \cup nb4 \cup nb5)

-----------------------------------------------------------------------------
(* Decode *)

nonblock_load_rd == IF e3.i0.kind \in Loads THEN e3.i0.rd ELSE e3.i1.rd

BoundaryIgnored(i, f) == FALSE  \* fault: the load in dc3 is overlooked
nonblock_boundary_stall(i, f) ==
    lsu_nonblock_load_valid_dc3(f) /\ i.rs # 0 /\ i.rs = nonblock_load_rd

nonblock_load_stall(i, f) ==
    \/ nonblock_boundary_stall(i, f)
    \/ i.rs # 0 /\ \E n \in Index : cam[n].valid /\ cam[n].rd = i.rs

(* The youngest instruction in the pipe that writes the source of i.       *)
Writers(i) == {p \in (1 .. 5) \X Slot : i.rs # 0 /\ stages[p[1]][p[2]].rd = i.rs}
Younger(p, q) == p[1] < q[1] \/ (p[1] = q[1] /\ p[2] = "i1")
Producer(i) == {p \in Writers(i) : \A q \in Writers(i) : p = q \/ Younger(p, q)}
DependsOnLoad(i, n) == \E p \in Producer(i) : p[1] = n /\ stages[n][p[2]].kind \in Loads

(* The pairs decode may issue: any number of instructions may wait for     *)
(* reasons of their own, so nothing at all is always possible.             *)
MayDecode(pair, f) ==
    \/ pair = NoPair
    \/ /\ f = "none" /\ ~freeze(f)
       /\ pair.i0.kind # "none"
       /\ \A s \in Slot : pair[s].kind # "none" => ~nonblock_load_stall(pair[s], f)
       /\ HasLoad(pair) => ~lsu_load_stall_any
       /\ ~(pair.i0.kind \in Loads /\ pair.i1.kind \in Loads)
       /\ pair.i1.rs # 0 /\ pair.i1.rs = pair.i0.rd =>
             pair.i0.kind = "load" /\ pair.i1.kind = "op"

depend_load_e1_d(pair) == \E s \in Slot : DependsOnLoad(pair[s], 1)
depend_load_e2_d(pair) == \E s \in Slot : DependsOnLoad(pair[s], 2)
depend_load_same_cycle_d(pair) ==
    pair.i0.kind = "load" /\ pair.i1.rs # 0 /\ pair.i1.rs = pair.i0.rd
load_float_e2 == \E s \in Slot : e2[s].kind = "fload"
dec_nonblock_load_freeze_dc2(pair) ==
    depend_load_e2_d(pair) \/ depE1 \/ sameE2 \/ load_float_e2

-----------------------------------------------------------------------------
(* Writeback *)

nonblock_load_valid_wb == nb5 # {}
load_kill_wen(s) == nonblock_load_valid_wb /\ wb[s].kind \in Loads

SameDest == wb.i0.rd # 0 /\ wb.i0.rd = wb.i1.rd

wen_wb(f, s) ==
    /\ wb[s].rd # 0 /\ ~kill_writeb_wb(f, s)
    /\ s = "i0" => ~(SameDest /\ ~kill_writeb_wb(f, "i1") /\ ~load_kill_wen("i1"))
dec_wen_wb(f, s) == wen_wb(f, s) /\ ~load_kill_wen(s)

cam_reset_same_dest_wb(f) ==
    /\ SameDest /\ wb.i0.kind \in Loads /\ nonblock_load_valid_wb
    /\ ~kill_writeb_wb(f, "i0") /\ ~kill_writeb_wb(f, "i1")

KilledStays(f) == cam_reset_same_dest_wb(f)  \* fault: a killed load keeps its entry
cam_inv_reset(f) == lsu_nonblock_load_inv_dc5(f) \/ cam_reset_same_dest_wb(f)

(* "ret" is the answer of the bus in this clock: none, or the tag of a     *)
(* load and whether it is an error.                                        *)
ReturnInputs == {[tag |-> {}, err |-> FALSE]} \cup [tag : {{t} : t \in busy}, err : BOOLEAN]

Writes(f, rd) == \E s \in Slot : wen_wb(f, s) /\ wb[s].rd = rd

NeverTaken(f, ret, n) ==  \* fault: a younger writer leaves the entry
    /\ cam[n].valid
    /\ ~(cam_inv_reset(f) /\ cam[n].tag \in nb5)
    /\ cam[n].tag \notin ret.tag
CamStays(f, ret, n) ==
    /\ cam[n].valid
    /\ ~(cam_inv_reset(f) /\ cam[n].tag \in nb5)
    /\ cam[n].tag \notin ret.tag
    /\ ~(cam[n].wb /\ Writes(f, cam[n].rd))

FirstInvalid == CHOOSE n \in Index :
    ~cam[n].valid /\ \A m \in Index : m < n => cam[m].valid

CamStep(f, ret, tag) ==
    cam' = [n \in Index |->
        IF lsu_nonblock_load_valid_dc3(f) /\ (\E m \in Index : ~cam[m].valid) /\ n = FirstInvalid
        THEN [valid |-> TRUE, wb |-> FALSE, tag |-> tag, rd |-> nonblock_load_rd]
        ELSE IF CamStays(f, ret, n)
        THEN [cam[n] EXCEPT !.wb = @ \/ (nonblock_load_valid_wb /\ cam[n].tag \in nb5)]
        ELSE NoEntry]

nonblock_load_write(t) == {n \in Index : cam[n].valid /\ cam[n].tag = t}
NoCancel(f, rd) == FALSE  \* fault: an instruction in wb does not stop the write
nonblock_load_cancel(f, rd) == Writes(f, rd)
dec_nonblock_load_waddr(t) == {cam[n].rd : n \in nonblock_load_write(t)}
dec_nonblock_load_wen(f, t) ==
    nonblock_load_write(t) # {} /\ \A rd \in dec_nonblock_load_waddr(t) : ~nonblock_load_cancel(f, rd)

-----------------------------------------------------------------------------
(* One clock *)

(* "pair" has taken p as a producer. *)
TakenBy(pair, p) == \E s \in Slot : p \in Producer(pair[s])
Marked(n, pair) ==
    [s \in Slot |-> [stages[n][s] EXCEPT !.read = @ \/ TakenBy(pair, <<n, s>>)]]
MarkedNew(pair) ==
    [pair EXCEPT !.i0.read = pair.i1.rs # 0 /\ pair.i1.rs = pair.i0.rd]

WithTag(pair, f, tag) ==
    IF ~lsu_nonblock_load_valid_dc3(f) THEN pair
    ELSE [s \in Slot |-> IF pair[s].kind \in Loads
                         THEN [pair[s] EXCEPT !.nb = TRUE, !.tag = tag] ELSE pair[s]]

PipeStep(f, pair, tag) ==
    LET upper == flush_final_e3(f) \/ flush_lower_wb(f)
        e2in == Drop(Marked(1, pair), flush_final_e3(f) \/ flush_lower_wb(f), FALSE)
        e3in == Drop(Marked(2, pair), upper, FALSE)
        e4in == Drop(WithTag(Marked(3, pair), f, tag), flush_lower_wb(f), i0_flush_final_e3(f))
    IN  /\ IF freeze(f) THEN UNCHANGED <<e1, e2, e3>> /\ e4' = NoPair
           ELSE /\ e1' = MarkedNew(pair) /\ e2' = e2in /\ e3' = e3in /\ e4' = e4in
        /\ wb' = Drop(Marked(4, pair), flush_lower_wb(f), FALSE)

LsuStep(f, pair, ext, done, tag) ==
    LET req == HasLoad(e2) /\ ext /\ f = "none" /\ ~freeze(f)
        stops == req /\ dec_nonblock_load_freeze_dc2(pair)
    IN  /\ busreq' = req
        /\ nbfreeze' = IF freeze(f) THEN nbfreeze ELSE stops
        /\ ld_freeze' = ((ld_freeze \/ stops) /\ ~flush_dc3(f) /\ ~done)
        /\ flush_e3' = FlushRegisterNext(f)
        /\ nb4' = IF lsu_nonblock_load_valid_dc3(f) THEN {tag} ELSE {}
        /\ nb5' = nb4

DependStep(f, pair) ==
    IF freeze(f) THEN UNCHANGED depend
    ELSE /\ depE1' = depend_load_e1_d(pair)
         /\ sameE1' = depend_load_same_cycle_d(pair)
         /\ sameE2' = sameE1

(* The register waits for the load that wrote it last, if it has not       *)
(* returned.                                                               *)
PendStep(f, pair, ret) ==
    pend' = [r \in Regs |->
        LET last == {s \in Slot : /\ wb[s].rd = r /\ ~kill_writeb_wb(f, s)
                                  /\ s = "i0" => wb.i1.rd # r \/ kill_writeb_wb(f, "i1")}
            reads == \E s \in Slot : pair[s].rs = r /\ Producer(pair[s]) = {}
        IN  IF \E s \in last : wb[s].nb
            THEN [tags |-> {wb[s].tag : s \in last},
                  read |-> \E s \in last : wb[s].read \/ TakenBy(pair, <<5, s>>)]
            ELSE IF last # {} \/ pend[r].tags \subseteq ret.tag THEN Ready
            ELSE [pend[r] EXCEPT !.read = @ \/ reads]]

Clock(f, pair, ext, done, ret, tag) ==
    /\ PipeStep(f, pair, tag)
    /\ LsuStep(f, pair, ext, done, tag)
    /\ DependStep(f, pair)
    /\ CamStep(f, ret, tag)
    /\ busy' = (busy \cup (IF lsu_commit_dc5(f) THEN nb5 ELSE {})) \ ret.tag
    /\ PendStep(f, pair, ret)

Pairs == {[i0 |-> a, i1 |-> b] : a, b \in {Fresh(i) : i \in Instrs} \cup {NoInstr}}
DoneInputs == IF ld_freeze /\ ~busreq THEN BOOLEAN ELSE {FALSE}
TagInputs(f) ==
    IF lsu_nonblock_load_valid_dc3(f) /\ FreeTags # {} THEN FreeTags ELSE {NoTag}

Next ==
    \E f \in FlushInputs, ext \in External, done \in DoneInputs, ret \in ReturnInputs :
        \E pair \in {p \in Pairs : MayDecode(p, f)}, tag \in TagInputs(f) :
            Clock(f, pair, ext, done, ret, tag)

Spec == Init /\ [][Next]_vars

-----------------------------------------------------------------------------
(* Properties *)

NonblockTypeOK ==
    /\ flush_e3 \in FlushRegister
    /\ \A n \in 1 .. 5 : \A s \in Slot :
          /\ stages[n][s].kind \in Loads \cup {"none", "op"} /\ stages[n][s].rd \in Regs \cup {0}
          /\ stages[n][s].nb => n \in {4, 5} /\ stages[n][s].tag \in nb4 \cup nb5
    /\ nb4 \subseteq Tag /\ nb5 \subseteq Tag /\ busy \subseteq Tag
    /\ Cardinality(nb4) + Cardinality(nb5) + Cardinality(busy)
          = Cardinality(nb4 \cup nb5 \cup busy)
    /\ \A n \in Index : cam[n].valid => cam[n].rd \in Regs \cup {0} /\ cam[n].tag \in Tag

(* No instruction takes its source from a load that leaves the pipe        *)
(* without its data, wherever in the pipe the load was when the reader was *)
(* decoded, nor reads a register that waits for one; and no floating-point *)
(* load leaves without its data, for which the cam has no register.        *)
NoReaderOfPendingLoad ==
    /\ \A s \in Slot : /\ e4[s].nb => ~e4[s].read /\ e4[s].kind = "load"
                       /\ wb[s].nb => ~wb[s].read /\ wb[s].kind = "load"
    /\ \A r \in Regs : pend[r].tags # {} => ~pend[r].read

(* A load that returns writes a register if and only if it is the last     *)
(* instruction in program order that has written it, also when a younger   *)
(* one writes in the same clock.                                           *)
ReturnsAreExact ==
    \A t \in busy, f \in FlushInputs, r \in Regs :
        dec_nonblock_load_wen(f, t) /\ r \in dec_nonblock_load_waddr(t)
            <=> pend[r].tags = {t} /\ ~Writes(f, r)

(* One entry per tag (assert_dec_cam_nonblock_load_write_onehot), only of  *)
(* loads that have not returned, so that a tag that is used again finds no *)
(* old entry; and a load that leaves dc3 finds an entry free.              *)
CamIsCurrent ==
    /\ \A m, n \in Index : cam[m].valid /\ cam[n].valid /\ cam[m].tag = cam[n].tag => m = n
    /\ \A n \in Index : cam[n].valid => cam[n].tag \in nb4 \cup nb5 \cup busy
    /\ \A r \in Regs : pend[r].tags # {} =>
          \E n \in Index : cam[n].valid /\ cam[n].wb /\ cam[n].tag \in pend[r].tags /\ cam[n].rd = r
    /\ \A f \in FlushInputs : lsu_nonblock_load_valid_dc3(f) =>
          FreeTags # {} /\ \E n \in Index : ~cam[n].valid

(* Tags have one owner in the pipe and the buffer, and what the cam says   *)
(* of them is current.                                                     *)
TagsAndCam == NonblockTypeOK /\ CamIsCurrent

(* assert_multiple_wen_to_same_gpr: the three write ports of the register  *)
(* file, whose data is or-ed, never write one register together.           *)
OneWriterPerRegister ==
    \A f \in FlushInputs :
        /\ ~(dec_wen_wb(f, "i0") /\ dec_wen_wb(f, "i1") /\ wb.i0.rd = wb.i1.rd)
        /\ \A t \in busy, s \in Slot :
              dec_wen_wb(f, s) /\ dec_nonblock_load_wen(f, t) =>
                  wb[s].rd \notin dec_nonblock_load_waddr(t)
=============================================================================
