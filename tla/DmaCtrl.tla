-------------------------------- MODULE DmaCtrl --------------------------------
(***************************************************************************)
(* The DMA controller (design/dma_ctrl.sv).  AXI writes and reads wait in  *)
(* one buffer each; one of them at a time enters the fifo, where WrPtr     *)
(* allocates, RdPtr gives commands to the DCCM (through the load/store     *)
(* pipe, whose data comes three clocks later) or to the ICCM (two clocks), *)
(* and RspPtr answers.  The debugger puts its memory commands in the same  *)
(* fifo, past the AXI side.                                                *)
(*                                                                         *)
(* One step is one core clock; "bus" says that it is also a clock of the   *)
(* bus, which is slower.  A command is a record of its direction "write",  *)
(* its target "at" ("dccm", "iccm", "pic" or "none"), an "addr" that tells *)
(* it from others and "bad", a size or an alignment the target refuses.    *)
(* The data read at an address is the address itself.                      *)
(***************************************************************************)
EXTENDS Integers, Sequences, FiniteSets

CONSTANTS
    DEPTH,      \* DMA_BUF_DEPTH
    QOS,        \* dec_tlu_dma_qos_prty, refusals before the core is stalled
    Commands,   \* the commands of the AXI masters
    DbgCommands,\* the memory commands of the debugger
    FENCES      \* whether a fence may hold off the masters (a chicken bit)

ASSUME DmaAssumption ==
    /\ DEPTH \in Nat /\ DEPTH >= 2
    /\ QOS \in 0 .. 7
    /\ FENCES \in BOOLEAN
    /\ \A c \in Commands \cup DbgCommands :
          /\ c.write \in BOOLEAN /\ c.bad \in BOOLEAN
          /\ c.at \in {"dccm", "iccm", "pic", "none"}

Index == 0 .. DEPTH - 1
Next1(p) == (p + 1) % DEPTH

NoCommand == [write |-> FALSE, at |-> "none", addr |-> 0, bad |-> FALSE]
NoEntry   == [valid |-> FALSE, cmd |-> NoCommand, dbg |-> FALSE, error |-> "none",
              data_valid |-> FALSE, rpend |-> FALSE, done |-> FALSE, done_bus |-> FALSE,
              data |-> 0]

VARIABLES
    wrbuf, wrbuf_data,   \* the write channel: sets of at most one command, one data
    rdbuf,               \* the read channel: a set of at most one command
    aw_seq, w_seq,       \* parity of the next write command and of the next data
    axi_mstr_priority,
    fifo,
    WrPtr, RdPtr, RspPtr,
    RdPtr_Q1, RdPtr_Q2, RdPtr_Q3,
    fifo_full, bubble_bus, stall_bus,  \* copies taken at clocks of the bus
    axi_slv_sent_q,
    dma_nack_count,
    lsu, ifu,            \* reads in the pipes of the memories, oldest last
    dbg                  \* the debug module's command, if it has one

axi    == <<wrbuf, wrbuf_data, rdbuf, aw_seq, w_seq, axi_mstr_priority>>
busff  == <<fifo_full, bubble_bus, stall_bus, axi_slv_sent_q>>
ptrs   == <<WrPtr, RdPtr, RspPtr, RdPtr_Q1, RdPtr_Q2, RdPtr_Q3>>
vars   == <<axi, fifo, ptrs, busff, dma_nack_count, lsu, ifu, dbg>>

NoDbg == [state |-> "idle", cmd |-> NoCommand]

Init ==
    /\ wrbuf = {} /\ wrbuf_data = {} /\ rdbuf = {}
    /\ aw_seq = 0 /\ w_seq = 0 /\ axi_mstr_priority = FALSE
    /\ fifo = [i \in Index |-> NoEntry]
    /\ WrPtr = 0 /\ RdPtr = 0 /\ RspPtr = 0
    /\ RdPtr_Q1 = 0 /\ RdPtr_Q2 = 0 /\ RdPtr_Q3 = 0
    /\ fifo_full = FALSE /\ bubble_bus = FALSE /\ stall_bus = FALSE /\ axi_slv_sent_q = FALSE
    /\ dma_nack_count = 0
    /\ lsu = <<{}, {}, {}>> /\ ifu = <<{}, {}>>
    /\ dbg = NoDbg

-----------------------------------------------------------------------------
(* The AXI side *)

dma_fifo_ready == ~fifo_full /\ ~bubble_bus /\ ~stall_bus
write_ready    == wrbuf # {} /\ wrbuf_data # {}
axi_mstr_valid == (write_ready \/ rdbuf # {}) /\ dma_fifo_ready
axi_mstr_write == IF write_ready /\ rdbuf # {} THEN axi_mstr_priority ELSE write_ready
axi_mstr_cmd   == IF axi_mstr_write THEN (CHOOSE w \in wrbuf : TRUE).cmd ELSE CHOOSE c \in rdbuf : TRUE

wrbuf_cmd_sent == axi_mstr_valid /\ axi_mstr_write
rdbuf_cmd_sent == axi_mstr_valid /\ ~axi_mstr_write

dma_axi_awready == wrbuf = {} \/ wrbuf_cmd_sent
dma_axi_wready  == wrbuf_data = {} \/ wrbuf_cmd_sent
dma_axi_arready == rdbuf = {} \/ rdbuf_cmd_sent

(* What the masters offer in this clock: a write command, data, a read. *)
AwInputs(bus) == {{}} \cup IF bus /\ dma_axi_awready THEN {{c} : c \in {c \in Commands : c.write}} ELSE {}
WInputs(bus)  == IF bus /\ dma_axi_wready THEN BOOLEAN ELSE {FALSE}
ArInputs(bus) == {{}} \cup IF bus /\ dma_axi_arready THEN {{c} : c \in {c \in Commands : ~c.write}} ELSE {}

DataLost(bus, w) ==  \* fault: the reset of the data buffer wins over new data
    IF ~bus THEN wrbuf_data
    ELSE IF wrbuf_cmd_sent THEN {} ELSE IF w THEN {w_seq} ELSE wrbuf_data
WriteData(bus, w) ==
    IF ~bus THEN wrbuf_data
    ELSE IF w THEN {w_seq} ELSE IF wrbuf_cmd_sent THEN {} ELSE wrbuf_data

NoTurns == axi_mstr_priority  \* fault: the priority never changes
axi_mstr_prty_in == ~axi_mstr_priority

AxiStep(bus, aw, w, ar) ==
    /\ wrbuf' = IF ~bus THEN wrbuf
                ELSE IF aw # {} THEN {[cmd |-> c, seq |-> aw_seq] : c \in aw}
                ELSE IF wrbuf_cmd_sent THEN {} ELSE wrbuf
    /\ wrbuf_data' = WriteData(bus, w)
    /\ rdbuf' = IF ~bus THEN rdbuf
                ELSE IF ar # {} THEN ar ELSE IF rdbuf_cmd_sent THEN {} ELSE rdbuf
    /\ aw_seq' = IF aw # {} THEN 1 - aw_seq ELSE aw_seq
    /\ w_seq' = IF w THEN 1 - w_seq ELSE w_seq
    /\ axi_mstr_priority' = IF bus /\ axi_mstr_valid THEN axi_mstr_prty_in ELSE axi_mstr_priority

-----------------------------------------------------------------------------
(* The fifo and the memories *)

ErrorOf(c, d) ==
    IF d THEN IF c.at = "none" \/ (c.at \in {"iccm", "pic"} /\ c.bad) THEN "decerr" ELSE "none"
    ELSE IF c.at \notin {"dccm", "iccm"} THEN "decerr"
    ELSE IF c.bad THEN "align" ELSE "none"

Head1 == fifo[RdPtr]
dma_mem_req ==
    /\ Head1.valid /\ ~Head1.rpend /\ ~Head1.done /\ Head1.error = "none"
    /\ Head1.cmd.write => Head1.data_valid
dccm_valid(e) == e.cmd.at \in {"dccm", "pic"}
iccm_valid(e) == e.cmd.at = "iccm"

(* "ready" is dccm_ready or iccm_ready, that of the target. *)
granted(ready) == dma_mem_req /\ ready /\ (dccm_valid(Head1) \/ iccm_valid(Head1))

dma_stall_any ==   \* dma_dccm_stall_any or dma_iccm_stall_any
    dma_mem_req /\ (dccm_valid(Head1) \/ iccm_valid(Head1)) /\ dma_nack_count >= QOS

(* The debugger's commands find the core halted and its pipes empty, so    *)
(* that the memories take them at once.                                    *)
ReadyInputs == IF ~dma_mem_req \/ Head1.dbg THEN {TRUE} ELSE BOOLEAN

(* The index whose read has its data in this clock, of each memory. *)
dccm_rindex == IF lsu[3] # {} THEN {RdPtr_Q3} ELSE {}
IccmByQ3    == IF ifu[2] # {} THEN {RdPtr_Q3} ELSE {}  \* fault: as far back as the DCCM
iccm_rindex == IF ifu[2] # {} THEN {RdPtr_Q2} ELSE {}
returns(i)  == i \in dccm_rindex \cup iccm_rindex
rdata(i)    == IF i \in dccm_rindex THEN CHOOSE a \in lsu[3] : TRUE ELSE CHOOSE a \in ifu[2] : TRUE

RspEntry == fifo[RspPtr]
axi_slv_valid == RspEntry.valid /\ ~RspEntry.dbg /\ RspEntry.done_bus
dma_dbg_cmd_done ==
    /\ RspEntry.valid /\ RspEntry.dbg
    /\ RspEntry.cmd.write \/ RspEntry.data_valid \/ RspEntry.error # "none"

dbg_dma_bubble == dbg.state # "idle"
EmptyOfEntries == ~(\E i \in Index : fifo[i].valid)  \* fault: a command about to enter is overlooked
fifo_empty == ~(\E i \in Index : fifo[i].valid) /\ ~axi_mstr_valid /\ ~axi_slv_sent_q
dma_dbg_ready == fifo_empty /\ dbg_dma_bubble
dbg_cmd_valid == dbg.state = "start" /\ dma_dbg_ready

fifo_cmd_en(bus, i) == ((axi_mstr_valid /\ bus) \/ dbg_cmd_valid) /\ i = WrPtr
fifo_reset(bus, sent, i) == ((sent /\ bus) \/ dma_dbg_cmd_done) /\ i = RspPtr
fifo_done_en(ready, i) ==
    \/ i = RdPtr /\ (fifo[i].error # "none" \/ (granted(ready) /\ Head1.cmd.write))
    \/ returns(i)

NewEntry ==
    LET c == IF dbg_cmd_valid THEN dbg.cmd ELSE axi_mstr_cmd
        err == ErrorOf(c, dbg_cmd_valid)
    IN  [NoEntry EXCEPT !.valid = TRUE, !.cmd = c, !.dbg = dbg_cmd_valid, !.error = err,
                        !.data_valid = c.write \/ (~dbg_cmd_valid /\ err # "none")]

FifoStep(bus, sent, ready, ecc) ==
    fifo' = [i \in Index |->
        LET e == fifo[i]
            done == e.done \/ fifo_done_en(ready, i)
        IN  IF fifo_reset(bus, sent, i) THEN NoEntry
            ELSE IF fifo_cmd_en(bus, i) THEN NewEntry
            ELSE [e EXCEPT
                    !.rpend = @ \/ (granted(ready) /\ ~Head1.cmd.write /\ i = RdPtr),
                    !.data_valid = @ \/ returns(i),
                    !.data = IF returns(i) THEN rdata(i) ELSE @,
                    !.error = IF i \in ecc THEN "ecc" ELSE @,
                    !.done = done,
                    !.done_bus = @ \/ (bus /\ done)]]

PointerStep(bus, sent, ready) ==
    /\ WrPtr' = IF \E i \in Index : fifo_cmd_en(bus, i) THEN Next1(WrPtr) ELSE WrPtr
    /\ RdPtr' = IF granted(ready) \/ (Head1.error # "none" /\ ~Head1.done) THEN Next1(RdPtr) ELSE RdPtr
    /\ RspPtr' = IF \E i \in Index : fifo_reset(bus, sent, i) THEN Next1(RspPtr) ELSE RspPtr
    /\ RdPtr_Q1' = RdPtr /\ RdPtr_Q2' = RdPtr_Q1 /\ RdPtr_Q3' = RdPtr_Q2

MemoryStep(ready) ==
    LET read == IF granted(ready) /\ ~Head1.cmd.write THEN {Head1.cmd.addr} ELSE {}
    IN  /\ lsu' = <<IF dccm_valid(Head1) THEN read ELSE {}, lsu[1], lsu[2]>>
        /\ ifu' = <<IF iccm_valid(Head1) THEN read ELSE {}, ifu[1]>>

NackForgets(ready) ==  \* fault: the core is stalled for one clock only
    IF ~dma_mem_req THEN dma_nack_count
    ELSE IF dma_nack_count >= QOS \/ granted(ready) THEN 0 ELSE dma_nack_count + 1
NackCount(ready) ==
    IF ~dma_mem_req THEN dma_nack_count
    ELSE IF dma_nack_count >= QOS THEN IF granted(ready) THEN 0 ELSE dma_nack_count
    ELSE IF granted(ready) THEN 0 ELSE dma_nack_count + 1

num_fifo_vld == Cardinality({i \in Index : fifo[i].valid \/ (axi_mstr_valid /\ i = WrPtr)})
FullOfEntries(bus, sent) ==  \* fault: the command about to enter is not counted
    Cardinality({i \in Index : fifo[i].valid}) = DEPTH /\ ~(\E i \in Index : fifo_reset(bus, sent, i))
fifo_full_spec(bus, sent) ==
    num_fifo_vld = DEPTH /\ ~(\E i \in Index : fifo_reset(bus, sent, i))

BusStep(bus, sent, stall) ==
    IF bus
    THEN /\ fifo_full' = fifo_full_spec(bus, sent)
         /\ bubble_bus' = dbg_dma_bubble
         /\ stall_bus' = stall
         /\ axi_slv_sent_q' = sent
    ELSE UNCHANGED busff

(* The debug module: CORE_CMD_START until the command is taken, then       *)
(* CORE_CMD_WAIT until it is done.                                         *)
DbgStep ==
    dbg' \in CASE dbg.state = "idle" -> {NoDbg} \cup {[state |-> "start", cmd |-> c] : c \in DbgCommands}
               [] dbg.state = "start" -> {IF dbg_cmd_valid THEN [dbg EXCEPT !.state = "wait"] ELSE dbg}
               [] dbg.state = "wait" -> {IF dma_dbg_cmd_done THEN NoDbg ELSE dbg}

-----------------------------------------------------------------------------
(* One clock *)

SentInputs(bus) == IF bus /\ axi_slv_valid THEN BOOLEAN ELSE {FALSE}
EccInputs == SUBSET (dccm_rindex \cup iccm_rindex)  \* the reads with an error that cannot be corrected
StallInputs(bus) == IF bus /\ FENCES THEN BOOLEAN ELSE {FALSE}

Clock(bus, aw, w, ar, sent, ready, ecc, stall) ==
    /\ AxiStep(bus, aw, w, ar)
    /\ FifoStep(bus, sent, ready, ecc)
    /\ PointerStep(bus, sent, ready)
    /\ MemoryStep(ready)
    /\ dma_nack_count' = NackCount(ready)
    /\ BusStep(bus, sent, stall)
    /\ DbgStep

Next ==
    \E bus \in BOOLEAN, ready \in ReadyInputs, ecc \in EccInputs :
        \E aw \in AwInputs(bus), w \in WInputs(bus), ar \in ArInputs(bus),
           sent \in SentInputs(bus), stall \in StallInputs(bus) :
            Clock(bus, aw, w, ar, sent, ready, ecc, stall)

Spec == Init /\ [][Next]_vars

(* The bus has clocks, a master takes the answer it is offered, and the    *)
(* memory whose users are stalled for the DMA controller takes a command.  *)
BusClock == \E ready \in ReadyInputs, ecc \in EccInputs :
    \E aw \in AwInputs(TRUE), w \in WInputs(TRUE), ar \in ArInputs(TRUE),
       sent \in SentInputs(TRUE), stall \in StallInputs(TRUE) :
        Clock(TRUE, aw, w, ar, sent, ready, ecc, stall)
MasterTakes == \E ready \in ReadyInputs, ecc \in EccInputs :
    \E aw \in AwInputs(TRUE), w \in WInputs(TRUE), ar \in ArInputs(TRUE), stall \in StallInputs(TRUE) :
        axi_slv_valid /\ Clock(TRUE, aw, w, ar, TRUE, ready, ecc, stall)
StalledMemoryTakes == \E bus \in BOOLEAN, ecc \in EccInputs :
    \E aw \in AwInputs(bus), w \in WInputs(bus), ar \in ArInputs(bus),
       sent \in SentInputs(bus), stall \in StallInputs(bus) :
        dma_stall_any /\ Clock(bus, aw, w, ar, sent, TRUE, ecc, stall)

FairSpec == Spec /\ WF_vars(BusClock) /\ WF_vars(MasterTakes) /\ WF_vars(StalledMemoryTakes)
                 /\ WF_vars(Next)

-----------------------------------------------------------------------------
(* Properties *)

AllCommands == Commands \cup DbgCommands \cup {NoCommand}
Entries == [valid : BOOLEAN, cmd : AllCommands, dbg : BOOLEAN,
            error : {"none", "decerr", "align", "ecc"}, data_valid : BOOLEAN, rpend : BOOLEAN,
            done : BOOLEAN, done_bus : BOOLEAN, data : {0} \cup {c.addr : c \in AllCommands}]

(* Every register holds a value of its type. *)
DmaTypeOK ==
    /\ wrbuf \subseteq [cmd : Commands, seq : {0, 1}] /\ Cardinality(wrbuf) <= 1
    /\ wrbuf_data \subseteq {0, 1} /\ Cardinality(wrbuf_data) <= 1
    /\ rdbuf \subseteq Commands /\ Cardinality(rdbuf) <= 1
    /\ aw_seq \in {0, 1} /\ w_seq \in {0, 1} /\ axi_mstr_priority \in BOOLEAN
    /\ fifo \in [Index -> Entries]
    /\ {WrPtr, RdPtr, RspPtr, RdPtr_Q1, RdPtr_Q2, RdPtr_Q3} \subseteq Index
    /\ {fifo_full, bubble_bus, stall_bus, axi_slv_sent_q} \subseteq BOOLEAN
    /\ dma_nack_count \in 0 .. QOS
    /\ dbg.state \in {"idle", "start", "wait"}

(* No command is written over one that is still in the fifo, although the  *)
(* AXI side goes by a copy of "full" that is as old as the last bus clock  *)
(* and the debugger by no such copy at all (dma_ctrl.sv:308-316).     *)
NoOverflow == axi_mstr_valid \/ dbg_cmd_valid => ~fifo[WrPtr].valid

(* The fifo holds commands in its slots and its counters in range, and     *)
(* loses none.                                                             *)
FifoSound == DmaTypeOK /\ NoOverflow

(* The debugger's command is alone in the fifo and in the memories' pipes, *)
(* from the clock in which it enters: it needs the masters' commands gone  *)
(* and keeps new ones out until it is answered (dma_ctrl.sv:318, 332, 361).*)
DebugIsAlone ==
    /\ dbg_cmd_valid => ~axi_mstr_valid /\ lsu = <<{}, {}, {}>> /\ ifu = <<{}, {}>>
    /\ \A i, j \in Index :
          fifo[i].valid /\ fifo[i].dbg => ~axi_mstr_valid /\ (fifo[j].valid => j = i)

(* A write command enters the fifo with its own data, whichever of the two *)
(* channels was ahead (dma_ctrl.sv:450-453).                               *)
WritesArePaired ==
    wrbuf_cmd_sent => \A w \in wrbuf, d \in wrbuf_data : w.seq = d

(* What the fifo promises: commands are given to the memories and answered *)
(* in the order in which they came, each once, each with its own data or   *)
(* error, though the data of the ICCM comes a clock earlier than that of   *)
(* the DCCM (dma_ctrl.sv:249-305).                                         *)
SlotAt(n) == fifo[(RspPtr + n - 1) % DEPTH]
Item(e) ==
    LET complete == e.done
        answer == IF e.error # "none" THEN <<e.error, 0>>
                  ELSE IF e.cmd.write THEN <<"ok", 0>> ELSE <<"data", e.data>>
    IN  [cmd |-> e.cmd, dbg |-> e.dbg,
         state |-> IF complete THEN "complete" ELSE IF e.rpend THEN "issued" ELSE "waiting",
         res |-> IF complete THEN answer ELSE <<"none", 0>>]
Accepted == [n \in 1 .. Cardinality({i \in Index : fifo[i].valid}) |-> Item(SlotAt(n))]

ResultsOf(c, d) ==
    IF ErrorOf(c, d) # "none" THEN {<<ErrorOf(c, d), 0>>}
    ELSE IF c.write THEN {<<"ok", 0>>} ELSE {<<"data", c.addr>>, <<"ecc", 0>>}
ImmediateResult(c, d) == c.write \/ ErrorOf(c, d) # "none"

Service == INSTANCE DmaService WITH
    queue <- Accepted, Commands <- Commands \cup DbgCommands,
    Results <- ResultsOf, DoneAtOnce <- ImmediateResult
ServedInOrder == Service!Spec

(* Every command accepted from a master is answered: refusals by a busy    *)
(* memory add up until its users are stalled (dma_ctrl.sv:357-368).        *)
CommandsAreAnswered ==
    \A i \in Index : fifo[i].valid ~> ~fifo[i].valid

(* Neither channel shuts out the other: a write and a read that wait       *)
(* together are both sent (dma_ctrl.sv:476-478).                           *)
BothAreSent ==
    /\ (write_ready /\ rdbuf # {}) ~> wrbuf_cmd_sent
    /\ (write_ready /\ rdbuf # {}) ~> rdbuf_cmd_sent
=============================================================================
