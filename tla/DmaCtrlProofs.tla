----------------------------- MODULE DmaCtrlProofs -----------------------------
(***************************************************************************)
(* Proofs about DmaCtrl for every depth, priority and set of commands.     *)
(***************************************************************************)
EXTENDS DmaCtrl, FiniteSetTheorems, FunctionTheorems, TLAPS

USE DmaAssumption

-----------------------------------------------------------------------------
(* The write channel.  Each buffered part carries the parity before the    *)
(* current one, and the parities agree when both parts are there or none.  *)
PairInv ==
    /\ aw_seq \in {0, 1} /\ w_seq \in {0, 1}
    /\ \A w \in wrbuf : w.seq = 1 - aw_seq
    /\ \A d \in wrbuf_data : d = 1 - w_seq
    /\ aw_seq = w_seq <=> (wrbuf = {} <=> wrbuf_data = {})

LEMMA PairStep ==
    ASSUME PairInv, NEW bus \in BOOLEAN, NEW aw \in AwInputs(bus),
           NEW w \in WInputs(bus), NEW ar, AxiStep(bus, aw, w, ar)
    PROVE  PairInv'
<1>1. aw # {} => bus /\ (wrbuf = {} \/ wrbuf_cmd_sent)
  BY DEF AwInputs, dma_axi_awready
<1>2. w \in BOOLEAN /\ (w => bus /\ (wrbuf_data = {} \/ wrbuf_cmd_sent))
  BY DEF WInputs, dma_axi_wready
<1>3. wrbuf_cmd_sent => wrbuf # {} /\ wrbuf_data # {}
  BY DEF wrbuf_cmd_sent, axi_mstr_valid, axi_mstr_write, write_ready
<1>4. aw_seq' \in {0, 1} /\ w_seq' \in {0, 1}
  BY <1>2 DEF PairInv, AxiStep
<1>5. /\ aw # {} => wrbuf' = {[cmd |-> c, seq |-> aw_seq] : c \in aw} /\ wrbuf' # {}
                    /\ aw_seq' = 1 - aw_seq
      /\ aw = {} => aw_seq' = aw_seq
                    /\ wrbuf' = IF bus /\ wrbuf_cmd_sent THEN {} ELSE wrbuf
  BY <1>1 DEF AxiStep
<1>6. /\ w => wrbuf_data' = {w_seq} /\ w_seq' = 1 - w_seq
      /\ ~w => w_seq' = w_seq
               /\ wrbuf_data' = IF bus /\ wrbuf_cmd_sent THEN {} ELSE wrbuf_data
  BY <1>2 DEF AxiStep, WriteData
<1>7. \A v \in wrbuf' : v.seq = 1 - aw_seq'
  BY <1>5 DEF PairInv
<1>8. \A d \in wrbuf_data' : d = 1 - w_seq'
  BY <1>6 DEF PairInv
<1>9. aw_seq' = w_seq' <=> (wrbuf' = {} <=> wrbuf_data' = {})
  BY <1>1, <1>2, <1>3, <1>5, <1>6 DEF PairInv
<1> QED  BY <1>4, <1>7, <1>8, <1>9 DEF PairInv

(* A write command enters the fifo with its own data, whichever of the two *)
(* channels is ahead, for any commands and any depth.                      *)
THEOREM WritesPaired == Spec => []WritesArePaired
<1>1. Init => PairInv
  BY DEF Init, PairInv
<1>2. ASSUME PairInv, [Next]_vars PROVE PairInv'
  <2>1. CASE UNCHANGED vars
    BY <1>2, <2>1 DEF vars, axi, PairInv
  <2>2. CASE Next
    <3>1. PICK bus \in BOOLEAN :
             \E aw \in AwInputs(bus), w \in WInputs(bus), ar \in ArInputs(bus) :
                AxiStep(bus, aw, w, ar)
      BY <2>2 DEF Next, Clock
    <3> QED  BY <1>2, <3>1, PairStep
  <2> QED  BY <1>2, <2>1, <2>2
<1>3. PairInv => WritesArePaired
  BY DEF PairInv, WritesArePaired, wrbuf_cmd_sent, axi_mstr_valid, axi_mstr_write,
         write_ready
<1> QED  BY <1>1, <1>2, <1>3, PTL DEF Spec

-----------------------------------------------------------------------------
(* The fifo as a ring: the slots in use are the n from RspPtr on, and      *)
(* WrPtr is the slot after them.                                           *)
Wrap(n) == IF n < DEPTH THEN n ELSE n - DEPTH
Distance(p, i) == IF i >= p THEN i - p ELSE i + DEPTH - p
RingFrom(p, n) == {i \in Index : Distance(p, i) < n}

Occupied == {i \in Index : fifo[i].valid}
FifoIsRing ==
    \E n \in 0 .. DEPTH : Occupied = RingFrom(RspPtr, n) /\ WrPtr = Wrap(RspPtr + n)

LEMMA NextIsWrap ==
    ASSUME NEW p \in Index
    PROVE  Next1(p) = Wrap(p + 1) /\ Next1(p) \in Index
<1>1. CASE p = DEPTH - 1
  <2>1. p + 1 = DEPTH /\ DEPTH % DEPTH = 0
    BY <1>1
  <2> QED  BY <2>1 DEF Next1, Wrap, Index
<1>2. CASE p # DEPTH - 1
  <2>1. p + 1 \in 0 .. DEPTH - 1
    BY <1>2 DEF Index
  <2>2. (p + 1) % DEPTH = p + 1
    BY <2>1
  <2> QED  BY <2>1, <2>2 DEF Next1, Wrap, Index
<1> QED  BY <1>1, <1>2

(* A command that enters takes the slot after the ring. *)
LEMMA RingGrows ==
    ASSUME NEW p \in Index, NEW n \in 0 .. DEPTH - 1
    PROVE  /\ Wrap(p + n) \in Index \ RingFrom(p, n)
           /\ RingFrom(p, n) \cup {Wrap(p + n)} = RingFrom(p, n + 1)
           /\ Next1(Wrap(p + n)) = Wrap(p + (n + 1))
<1>1. Wrap(p + n) \in Index
  BY DEF Wrap, Index
<1>2. \A i \in Index : Distance(p, i) = n <=> i = Wrap(p + n)
  BY DEF Wrap, Index, Distance
<1>3. \A i \in Index : Distance(p, i) \in Int
  BY DEF Index, Distance
<1>4. Next1(Wrap(p + n)) = Wrap(Wrap(p + n) + 1)
  BY <1>1, NextIsWrap
<1>5. Wrap(Wrap(p + n) + 1) = Wrap(p + (n + 1))
  BY DEF Wrap, Index
<1> QED  BY <1>1, <1>2, <1>3, <1>4, <1>5 DEF RingFrom

(* A command that is answered gives up the first slot of the ring. *)
LEMMA RingShrinks ==
    ASSUME NEW p \in Index, NEW n \in 1 .. DEPTH
    PROVE  /\ RingFrom(p, n) \ {p} = RingFrom(Next1(p), n - 1)
           /\ Wrap(p + n) = Wrap(Next1(p) + (n - 1))
<1>1. Next1(p) = Wrap(p + 1) /\ Wrap(p + 1) \in Index
  BY NextIsWrap
<1>2. \A i \in Index : (Distance(p, i) < n /\ i # p) <=> Distance(Wrap(p + 1), i) < n - 1
  BY DEF Wrap, Index, Distance
<1>3. Wrap(p + n) = Wrap(Wrap(p + 1) + (n - 1))
  BY DEF Wrap, Index
<1> QED  BY <1>1, <1>2, <1>3 DEF RingFrom

LEMMA WholeRing ==
    ASSUME NEW p \in Index
    PROVE  /\ RingFrom(p, DEPTH) = Index
           /\ RingFrom(p, 0) = {}
           /\ \A n \in 1 .. DEPTH : p \in RingFrom(p, n)
  BY DEF RingFrom, Index, Distance

-----------------------------------------------------------------------------
(* Types.  What the registers hold needs the types of what the pipes of    *)
(* the memories carry and of the debug module's command.                   *)
Addr == {c.addr : c \in AllCommands}
DbgStates == [state : {"idle", "start", "wait"}, cmd : DbgCommands \cup {NoCommand}]
DmaTypes ==
    /\ DmaTypeOK
    /\ dbg \in DbgStates
    /\ lsu[1] \subseteq Addr /\ lsu[2] \subseteq Addr /\ lsu[3] \subseteq Addr
    /\ ifu[1] \subseteq Addr /\ ifu[2] \subseteq Addr

LEMMA CommandShape ==
    ASSUME NEW c \in AllCommands
    PROVE  c.write \in BOOLEAN /\ c.at \in {"dccm", "iccm", "pic", "none"} /\ c.addr \in Addr
<1>1. CASE c \in Commands \cup DbgCommands
  BY <1>1, DmaAssumption DEF AllCommands, Addr
<1>2. CASE c = NoCommand
  <2>1. c.write = FALSE /\ c.at = "none"
    BY <1>2 DEF NoCommand
  <2> QED  BY <2>1 DEF Addr
<1> QED  BY <1>1, <1>2 DEF AllCommands

LEMMA AtMostOne ==
    /\ Cardinality({}) <= 1
    /\ \A x : Cardinality({x}) <= 1
<1>1. Cardinality({}) = 0
  BY FS_EmptySet
<1>2. \A x : Cardinality({x}) = 1
  BY FS_Singleton
<1> QED  BY <1>1, <1>2

LEMMA AxiType ==
    ASSUME DmaTypeOK, NEW bus \in BOOLEAN, NEW aw \in AwInputs(bus),
           NEW w \in WInputs(bus), NEW ar \in ArInputs(bus), AxiStep(bus, aw, w, ar)
    PROVE  /\ wrbuf' \subseteq [cmd : Commands, seq : {0, 1}] /\ Cardinality(wrbuf') <= 1
           /\ wrbuf_data' \subseteq {0, 1} /\ Cardinality(wrbuf_data') <= 1
           /\ rdbuf' \subseteq Commands /\ Cardinality(rdbuf') <= 1
           /\ aw_seq' \in {0, 1} /\ w_seq' \in {0, 1} /\ axi_mstr_priority' \in BOOLEAN
<1>1. w \in BOOLEAN
  BY DEF WInputs
<1>2. aw = {} \/ \E c \in Commands : aw = {c}
  BY DEF AwInputs
<1>3. ar = {} \/ \E c \in Commands : ar = {c}
  BY DEF ArInputs
<1>4. wrbuf' = {} \/ wrbuf' = wrbuf \/ \E c \in Commands : wrbuf' = {[cmd |-> c, seq |-> aw_seq]}
  <2>1. ASSUME NEW c \in Commands, aw = {c}
        PROVE  {[cmd |-> x, seq |-> aw_seq] : x \in aw} = {[cmd |-> c, seq |-> aw_seq]}
    BY <2>1
  <2> QED  BY <1>2, <2>1 DEF AxiStep
<1>5. wrbuf_data' = {} \/ wrbuf_data' = wrbuf_data \/ wrbuf_data' = {w_seq}
  BY DEF AxiStep, WriteData
<1>6. rdbuf' = {} \/ rdbuf' = rdbuf \/ rdbuf' = ar
  BY DEF AxiStep
<1>7. wrbuf' \subseteq [cmd : Commands, seq : {0, 1}] /\ Cardinality(wrbuf') <= 1
  <2>1. CASE wrbuf' = {} \/ wrbuf' = wrbuf
    BY <2>1, AtMostOne DEF DmaTypeOK
  <2>2. ASSUME NEW c \in Commands, wrbuf' = {[cmd |-> c, seq |-> aw_seq]}
        PROVE  wrbuf' \subseteq [cmd : Commands, seq : {0, 1}] /\ Cardinality(wrbuf') <= 1
    <3>1. [cmd |-> c, seq |-> aw_seq] \in [cmd : Commands, seq : {0, 1}]
      BY DEF DmaTypeOK
    <3> QED  BY <2>2, <3>1, AtMostOne
  <2> QED  BY <1>4, <2>1, <2>2
<1>8. wrbuf_data' \subseteq {0, 1} /\ Cardinality(wrbuf_data') <= 1
  BY <1>5, AtMostOne DEF DmaTypeOK
<1>9. rdbuf' \subseteq Commands /\ Cardinality(rdbuf') <= 1
  BY <1>3, <1>6, AtMostOne DEF DmaTypeOK
<1>10. aw_seq' \in {0, 1} /\ w_seq' \in {0, 1} /\ axi_mstr_priority' \in BOOLEAN
  <2>1. aw_seq' \in {0, 1} /\ w_seq' \in {0, 1}
    BY <1>1 DEF DmaTypeOK, AxiStep
  <2>2. axi_mstr_priority' = axi_mstr_priority \/ axi_mstr_priority' = ~axi_mstr_priority
    BY Zenon DEF AxiStep, axi_mstr_prty_in
  <2> QED  BY <2>1, <2>2 DEF DmaTypeOK
<1> QED  BY <1>7, <1>8, <1>9, <1>10

(* What enters the fifo is an entry with a command of the masters or of    *)
(* the debugger.                                                           *)
LEMMA NewEntryType ==
    ASSUME DmaTypes, axi_mstr_valid \/ dbg_cmd_valid
    PROVE  NewEntry \in Entries /\ NewEntry.valid
<1> DEFINE c == IF dbg_cmd_valid THEN dbg.cmd ELSE axi_mstr_cmd
           err == ErrorOf(c, dbg_cmd_valid)
<1>1. c \in AllCommands
  <2>1. CASE dbg_cmd_valid
    BY <2>1 DEF DmaTypes, DbgStates, AllCommands
  <2>2. CASE ~dbg_cmd_valid /\ axi_mstr_write
    <3>1. wrbuf # {}
      BY <2>2 DEF axi_mstr_valid, axi_mstr_write, write_ready
    <3>2. (CHOOSE w \in wrbuf : TRUE) \in [cmd : Commands, seq : {0, 1}]
      BY <3>1 DEF DmaTypes, DmaTypeOK
    <3> QED  BY <2>2, <3>2 DEF axi_mstr_cmd, AllCommands
  <2>3. CASE ~dbg_cmd_valid /\ ~axi_mstr_write
    <3>1. rdbuf # {}
      BY <2>3 DEF axi_mstr_valid, axi_mstr_write, write_ready
    <3>2. (CHOOSE r \in rdbuf : TRUE) \in Commands
      BY <3>1 DEF DmaTypes, DmaTypeOK
    <3> QED  BY <2>3, <3>2 DEF axi_mstr_cmd, AllCommands
  <2> QED  BY <2>1, <2>2, <2>3
<1>2. err \in {"none", "decerr", "align"} /\ c.write \in BOOLEAN /\ dbg_cmd_valid \in BOOLEAN
  BY <1>1, CommandShape DEF ErrorOf, dbg_cmd_valid
<1>3. 0 \in {0} \cup {x.addr : x \in AllCommands}
  OBVIOUS
<1> HIDE DEF c, err
<1>4. NewEntry = [NoEntry EXCEPT !.valid = TRUE, !.cmd = c, !.dbg = dbg_cmd_valid, !.error = err,
                        !.data_valid = c.write \/ (~dbg_cmd_valid /\ err # "none")]
  BY DEF NewEntry, c, err
<1> QED  BY <1>1, <1>2, <1>3, <1>4 DEF NoEntry, Entries

(* A read that returns brings the data of a command. *)
LEMMA ReturnType ==
    ASSUME DmaTypes, NEW i \in Index, returns(i)
    PROVE  rdata(i) \in Addr
<1>1. lsu[3] \subseteq Addr /\ ifu[2] \subseteq Addr
  BY DEF DmaTypes
<1>2. i \in dccm_rindex => lsu[3] # {}
  BY DEF dccm_rindex
<1>3. i \in iccm_rindex => ifu[2] # {}
  BY DEF iccm_rindex
<1> QED  BY <1>1, <1>2, <1>3 DEF returns, rdata

LEMMA FifoType ==
    ASSUME DmaTypes, NEW bus \in BOOLEAN, NEW sent \in BOOLEAN, NEW ready \in BOOLEAN,
           NEW ecc, FifoStep(bus, sent, ready, ecc)
    PROVE  /\ fifo' \in [Index -> Entries]
           /\ \A i \in Index :
                 fifo'[i].valid <=>
                     IF fifo_reset(bus, sent, i) THEN FALSE
                     ELSE fifo_cmd_en(bus, i) \/ fifo[i].valid
<1>1. fifo' = [i \in Index |-> fifo'[i]]
  BY DEF FifoStep
<1>2. ASSUME NEW i \in Index
      PROVE  /\ fifo'[i] \in Entries
             /\ fifo'[i].valid <=>
                     IF fifo_reset(bus, sent, i) THEN FALSE
                     ELSE fifo_cmd_en(bus, i) \/ fifo[i].valid
  <2>1. CASE fifo_reset(bus, sent, i)
    <3>1. fifo'[i] = NoEntry
      BY <2>1 DEF FifoStep
    <3>2. NoEntry \in Entries /\ ~NoEntry.valid
      BY DEF NoEntry, Entries, AllCommands
    <3> QED  BY <2>1, <3>1, <3>2
  <2>2. CASE ~fifo_reset(bus, sent, i) /\ fifo_cmd_en(bus, i)
    <3>1. fifo'[i] = NewEntry
      BY <2>2 DEF FifoStep
    <3> QED  BY <2>2, <3>1, NewEntryType DEF fifo_cmd_en
  <2>3. CASE ~fifo_reset(bus, sent, i) /\ ~fifo_cmd_en(bus, i)
    <3> DEFINE done == fifo[i].done \/ fifo_done_en(ready, i)
               rpend == fifo[i].rpend \/ (granted(ready) /\ ~Head1.cmd.write /\ i = RdPtr)
               data_valid == fifo[i].data_valid \/ returns(i)
               data == IF returns(i) THEN rdata(i) ELSE fifo[i].data
               error == IF i \in ecc THEN "ecc" ELSE fifo[i].error
               done_bus == fifo[i].done_bus \/ (bus /\ done)
    <3>1. fifo[i] \in Entries
      BY DEF DmaTypes, DmaTypeOK
    <3>2. data \in {0} \cup {c.addr : c \in AllCommands}
      BY <3>1, ReturnType DEF Entries, Addr
    <3>3. error \in {"none", "decerr", "align", "ecc"}
      BY <3>1 DEF Entries
    <3>4. {done, rpend, data_valid, done_bus} \subseteq BOOLEAN
      OBVIOUS
    <3>5. fifo'[i] = [fifo[i] EXCEPT !.rpend = rpend, !.data_valid = data_valid, !.data = data,
                          !.error = error, !.done = done, !.done_bus = done_bus]
      BY <2>3, Zenon DEF FifoStep
    <3> HIDE DEF done, rpend, data_valid, data, error, done_bus
    <3>6. fifo'[i] \in Entries
      BY <3>1, <3>2, <3>3, <3>4, <3>5 DEF Entries
    <3>7. fifo'[i].valid = fifo[i].valid
      BY <3>1, <3>5 DEF Entries
    <3> QED  BY <2>3, <3>6, <3>7, Zenon
  <2> QED  BY <2>1, <2>2, <2>3
<1> QED  BY <1>1, <1>2

LEMMA MemoryType ==
    ASSUME DmaTypes, NEW ready \in BOOLEAN, MemoryStep(ready)
    PROVE  /\ lsu'[1] \subseteq Addr /\ lsu'[2] \subseteq Addr /\ lsu'[3] \subseteq Addr
           /\ ifu'[1] \subseteq Addr /\ ifu'[2] \subseteq Addr
<1> DEFINE read == IF granted(ready) /\ ~Head1.cmd.write THEN {Head1.cmd.addr} ELSE {}
<1>1. Head1.cmd \in AllCommands
  BY DEF DmaTypes, DmaTypeOK, Head1, Entries
<1>2. read \subseteq Addr
  BY <1>1, CommandShape
<1>3. /\ lsu' = <<IF dccm_valid(Head1) THEN read ELSE {}, lsu[1], lsu[2]>>
      /\ ifu' = <<IF iccm_valid(Head1) THEN read ELSE {}, ifu[1]>>
  BY DEF MemoryStep
<1> HIDE DEF read
<1> QED  BY <1>2, <1>3 DEF DmaTypes

LEMMA ControlType ==
    ASSUME DmaTypes, NEW bus \in BOOLEAN, NEW sent \in BOOLEAN, NEW ready \in BOOLEAN,
           NEW stall \in BOOLEAN,
           PointerStep(bus, sent, ready), BusStep(bus, sent, stall),
           dma_nack_count' = NackCount(ready), DbgStep
    PROVE  /\ {WrPtr', RdPtr', RspPtr', RdPtr_Q1', RdPtr_Q2', RdPtr_Q3'} \subseteq Index
           /\ {fifo_full', bubble_bus', stall_bus', axi_slv_sent_q'} \subseteq BOOLEAN
           /\ dma_nack_count' \in 0 .. QOS
           /\ dbg' \in DbgStates
<1>1. \A p \in Index : Next1(p) \in Index
  BY NextIsWrap
<1>2. {WrPtr', RdPtr', RspPtr', RdPtr_Q1', RdPtr_Q2', RdPtr_Q3'} \subseteq Index
  BY <1>1 DEF DmaTypes, DmaTypeOK, PointerStep
<1>3. {fifo_full', bubble_bus', stall_bus', axi_slv_sent_q'} \subseteq BOOLEAN
  <2>1. CASE bus
    BY <2>1 DEF BusStep, fifo_full_spec, dbg_dma_bubble
  <2>2. CASE ~bus
    BY <2>2 DEF BusStep, busff, DmaTypes, DmaTypeOK
  <2> QED  BY <2>1, <2>2
<1>4. dma_nack_count' \in 0 .. QOS
  BY DEF NackCount, DmaTypes, DmaTypeOK
<1>5. dbg' \in DbgStates
  <2>1. dbg \in DbgStates /\ NoDbg \in DbgStates
    BY DEF DmaTypes, DbgStates, NoDbg
  <2>2. CASE dbg.state = "idle"
    <3>1. dbg' \in {NoDbg} \cup {[state |-> "start", cmd |-> c] : c \in DbgCommands}
      BY <2>2 DEF DbgStep
    <3> QED  BY <2>1, <3>1 DEF DbgStates
  <2>3. CASE dbg.state = "start"
    <3>1. dbg' = [dbg EXCEPT !.state = "wait"] \/ dbg' = dbg
      BY <2>3 DEF DbgStep
    <3> QED  BY <2>1, <3>1 DEF DbgStates
  <2>4. CASE dbg.state = "wait"
    <3>1. dbg' = NoDbg \/ dbg' = dbg
      BY <2>4 DEF DbgStep
    <3> QED  BY <2>1, <3>1
  <2> QED  BY <2>1, <2>2, <2>3, <2>4 DEF DbgStates
<1> QED  BY <1>2, <1>3, <1>4, <1>5

-----------------------------------------------------------------------------
(* Overflow.  The copy of "full" is old, but between two clocks of the bus *)
(* only the debugger can put a command in the fifo, and it does so when    *)
(* the fifo is empty: so when the copy is clear there is a free slot.      *)
FullIsKnown == ~fifo_full => Occupied # Index
FifoInv == DmaTypes /\ FifoIsRing /\ FullIsKnown

LEMMA AllOccupied ==
    ASSUME NEW S \in SUBSET Index
    PROVE  Cardinality(S) = DEPTH <=> S = Index
<1>1. IsFiniteSet(Index) /\ Cardinality(Index) = DEPTH
  <2>1. Cardinality(0 .. DEPTH - 1) = (DEPTH - 1) - 0 + 1 /\ IsFiniteSet(0 .. DEPTH - 1)
    BY FS_Interval
  <2> QED  BY <2>1 DEF Index
<1>2. Cardinality(S) = Cardinality(Index) => S = Index
  BY <1>1, FS_Subset
<1> QED  BY <1>1, <1>2

(* The slot that WrPtr names is free when a command enters. *)
LEMMA RoomToEnter ==
    ASSUME FifoInv
    PROVE  /\ NoOverflow
           /\ dbg_cmd_valid => Occupied = {} /\ ~axi_mstr_valid
<1>1. dbg_cmd_valid => Occupied = {} /\ ~axi_mstr_valid
  BY DEF dbg_cmd_valid, dma_dbg_ready, fifo_empty, Occupied
<1>2. WrPtr \in Index /\ RspPtr \in Index
  BY DEF FifoInv, DmaTypes, DmaTypeOK
<1>3. ASSUME axi_mstr_valid PROVE WrPtr \notin Occupied
  <2>1. Occupied # Index
    BY <1>3 DEF FifoInv, FullIsKnown, axi_mstr_valid, dma_fifo_ready
  <2>2. PICK n \in 0 .. DEPTH : Occupied = RingFrom(RspPtr, n) /\ WrPtr = Wrap(RspPtr + n)
    BY DEF FifoInv, FifoIsRing
  <2>3. n # DEPTH
    BY <1>2, <2>1, <2>2, WholeRing
  <2>4. n \in 0 .. DEPTH - 1
    BY <2>2, <2>3
  <2> QED  BY <1>2, <2>2, <2>4, RingGrows
<1> QED  BY <1>1, <1>2, <1>3 DEF NoOverflow, Occupied

LEMMA RingStep ==
    ASSUME FifoInv, NEW bus \in BOOLEAN, NEW sent \in SentInputs(bus),
           NEW ready \in BOOLEAN, NEW ecc,
           FifoStep(bus, sent, ready, ecc), PointerStep(bus, sent, ready)
    PROVE  FifoIsRing'
<1> DEFINE enters == (axi_mstr_valid /\ bus) \/ dbg_cmd_valid
           leaves == (sent /\ bus) \/ dma_dbg_cmd_done
<1>1. WrPtr \in Index /\ RspPtr \in Index /\ sent \in BOOLEAN
  BY DEF FifoInv, DmaTypes, DmaTypeOK, SentInputs
<1>2. leaves => RspPtr \in Occupied
  BY <1>1 DEF SentInputs, axi_slv_valid, dma_dbg_cmd_done, RspEntry, Occupied
<1>3. enters => WrPtr \notin Occupied
  BY RoomToEnter DEF NoOverflow, Occupied
<1>4. /\ WrPtr' = IF enters THEN Next1(WrPtr) ELSE WrPtr
      /\ RspPtr' = IF leaves THEN Next1(RspPtr) ELSE RspPtr
  BY <1>1 DEF PointerStep, fifo_cmd_en, fifo_reset
<1>5. Occupied' = (Occupied \cup (IF enters THEN {WrPtr} ELSE {}))
                     \ (IF leaves THEN {RspPtr} ELSE {})
  BY <1>1, FifoType DEF FifoInv, Occupied, fifo_cmd_en, fifo_reset
<1> HIDE DEF enters, leaves
<1>6. PICK n \in 0 .. DEPTH : Occupied = RingFrom(RspPtr, n) /\ WrPtr = Wrap(RspPtr + n)
  BY DEF FifoInv, FifoIsRing
<1>7. enters => n \in 0 .. DEPTH - 1
  BY <1>1, <1>3, <1>6, WholeRing
<1>8. leaves => n \in 1 .. DEPTH
  BY <1>1, <1>2, <1>6, WholeRing
<1>9. PICK m \in 0 .. DEPTH :
         /\ Occupied \cup (IF enters THEN {WrPtr} ELSE {}) = RingFrom(RspPtr, m)
         /\ WrPtr' = Wrap(RspPtr + m)
         /\ leaves => m \in 1 .. DEPTH
  <2>1. CASE enters
    <3>1. n + 1 \in 0 .. DEPTH /\ n + 1 \in 1 .. DEPTH
      BY <1>7, <2>1
    <3>2. /\ RingFrom(RspPtr, n) \cup {WrPtr} = RingFrom(RspPtr, n + 1)
          /\ Next1(WrPtr) = Wrap(RspPtr + (n + 1))
      BY <1>1, <1>6, <1>7, <2>1, RingGrows
    <3> QED  BY <1>4, <1>6, <2>1, <3>1, <3>2
  <2>2. CASE ~enters
    BY <1>4, <1>6, <1>8, <2>2
  <2> QED  BY <2>1, <2>2
<1>10. CASE leaves
  <2>1. /\ RingFrom(RspPtr, m) \ {RspPtr} = RingFrom(Next1(RspPtr), m - 1)
        /\ Wrap(RspPtr + m) = Wrap(Next1(RspPtr) + (m - 1))
        /\ m - 1 \in 0 .. DEPTH
    BY <1>1, <1>9, <1>10, RingShrinks
  <2>2. Occupied' = RingFrom(RspPtr', m - 1) /\ WrPtr' = Wrap(RspPtr' + (m - 1))
    BY <1>4, <1>5, <1>9, <1>10, <2>1
  <2> QED  BY <2>1, <2>2 DEF FifoIsRing, RingFrom, Wrap, Distance
<1>11. CASE ~leaves
  <2>1. Occupied' = RingFrom(RspPtr', m) /\ WrPtr' = Wrap(RspPtr' + m)
    BY <1>4, <1>5, <1>9, <1>11
  <2> QED  BY <2>1 DEF FifoIsRing, RingFrom, Wrap, Distance
<1> QED  BY <1>10, <1>11

LEMMA FullStep ==
    ASSUME FifoInv, NEW bus \in BOOLEAN, NEW sent \in SentInputs(bus),
           NEW ready \in BOOLEAN, NEW ecc, NEW stall,
           FifoStep(bus, sent, ready, ecc), BusStep(bus, sent, stall)
    PROVE  FullIsKnown'
<1>1. WrPtr \in Index /\ RspPtr \in Index /\ sent \in BOOLEAN
  BY DEF FifoInv, DmaTypes, DmaTypeOK, SentInputs
<1>2. \A i \in Occupied' : \/ i \in Occupied
                           \/ (axi_mstr_valid /\ bus) /\ i = WrPtr
                           \/ dbg_cmd_valid /\ i = WrPtr
  BY <1>1, FifoType DEF FifoInv, Occupied, fifo_cmd_en
<1>3. ASSUME dbg_cmd_valid PROVE Occupied' # Index
  <2>1. Occupied' \subseteq {WrPtr}
    BY <1>2, <1>3, RoomToEnter
  <2>2. 0 \in Index /\ 1 \in Index
    BY DEF Index
  <2> QED  BY <2>1, <2>2
<1>4. ASSUME ~dbg_cmd_valid, ~bus, ~fifo_full' PROVE Occupied' # Index
  <2>1. Occupied' \subseteq Occupied /\ Occupied \subseteq Index
    BY <1>2, <1>4 DEF Occupied
  <2>2. Occupied # Index
    BY <1>4 DEF BusStep, busff, FifoInv, FullIsKnown
  <2> QED  BY <2>1, <2>2
<1>5. ASSUME ~dbg_cmd_valid, bus, ~fifo_full' PROVE Occupied' # Index
  <2> DEFINE counted == {i \in Index : fifo[i].valid \/ (axi_mstr_valid /\ i = WrPtr)}
  <2>1. Cardinality(counted) # DEPTH \/ \E i \in Index : fifo_reset(bus, sent, i)
    BY <1>5 DEF BusStep, fifo_full_spec, num_fifo_vld
  <2>2. CASE Cardinality(counted) # DEPTH
    <3>1. counted \in SUBSET Index /\ counted # Index
      BY <2>2, AllOccupied
    <3>2. Occupied' \subseteq counted
      BY <1>1, <1>2, <1>5 DEF Occupied
    <3> QED  BY <3>1, <3>2
  <2>3. ASSUME NEW i \in Index, fifo_reset(bus, sent, i) PROVE Occupied' # Index
    <3>1. ~fifo'[i].valid
      BY <1>1, <2>3, FifoType DEF FifoInv
    <3> QED  BY <3>1 DEF Occupied
  <2> QED  BY <2>1, <2>2, <2>3
<1> QED  BY <1>3, <1>4, <1>5 DEF FullIsKnown

LEMMA FifoInvHolds == Spec => []FifoInv
<1>1. Init => FifoInv
  <2> SUFFICES ASSUME Init PROVE FifoInv
    OBVIOUS
  <2>1. 0 \in Index
    BY DEF Index
  <2>2. NoEntry \in Entries /\ NoDbg \in DbgStates
    BY DEF NoEntry, Entries, AllCommands, NoDbg, DbgStates
  <2>3. DmaTypes
    <3>1. fifo \in [Index -> Entries] /\ dbg \in DbgStates
      BY <2>2 DEF Init
    <3>2. DmaTypeOK
      <4>1. /\ wrbuf = {} /\ wrbuf_data = {} /\ rdbuf = {}
            /\ aw_seq = 0 /\ w_seq = 0 /\ axi_mstr_priority = FALSE /\ dma_nack_count = 0
        BY DEF Init
      <4>2. {WrPtr, RdPtr, RspPtr, RdPtr_Q1, RdPtr_Q2, RdPtr_Q3} \subseteq Index
        BY <2>1 DEF Init
      <4>3. {fifo_full, bubble_bus, stall_bus, axi_slv_sent_q} \subseteq BOOLEAN
        BY DEF Init
      <4>4. dbg.state \in {"idle", "start", "wait"} /\ 0 \in 0 .. QOS
        BY <3>1 DEF DbgStates
      <4> QED  BY <3>1, <4>1, <4>2, <4>3, <4>4, AtMostOne DEF DmaTypeOK
    <3>3. lsu = <<{}, {}, {}>> /\ ifu = <<{}, {}>>
      BY DEF Init
    <3> QED  BY <3>1, <3>2, <3>3 DEF DmaTypes
  <2>4. Occupied = {}
    BY DEF Init, Occupied, NoEntry
  <2>5. FifoIsRing
    <3>1. Occupied = RingFrom(RspPtr, 0) /\ WrPtr = Wrap(RspPtr + 0) /\ 0 \in 0 .. DEPTH
      BY <2>1, <2>4, WholeRing DEF Init, Wrap
    <3> QED  BY <3>1 DEF FifoIsRing
  <2>6. FullIsKnown
    BY <2>1, <2>4 DEF FullIsKnown
  <2> QED  BY <2>3, <2>5, <2>6 DEF FifoInv
<1>2. ASSUME FifoInv, [Next]_vars PROVE FifoInv'
  <2>1. CASE UNCHANGED vars
    BY <1>2, <2>1 DEF vars, axi, ptrs, busff, FifoInv, DmaTypes, DmaTypeOK, FifoIsRing,
                      FullIsKnown, Occupied
  <2>2. CASE Next
    <3>1. PICK bus \in BOOLEAN, ready \in ReadyInputs, ecc \in EccInputs :
            \E aw \in AwInputs(bus), w \in WInputs(bus), ar \in ArInputs(bus),
               sent \in SentInputs(bus), stall \in StallInputs(bus) :
                Clock(bus, aw, w, ar, sent, ready, ecc, stall)
      BY <2>2 DEF Next
    <3>2. PICK aw \in AwInputs(bus), w \in WInputs(bus), ar \in ArInputs(bus),
               sent \in SentInputs(bus), stall \in StallInputs(bus) :
                Clock(bus, aw, w, ar, sent, ready, ecc, stall)
      BY <3>1
    <3>3. ready \in BOOLEAN /\ sent \in BOOLEAN /\ stall \in BOOLEAN
      BY DEF ReadyInputs, SentInputs, StallInputs
    <3>4. /\ AxiStep(bus, aw, w, ar) /\ FifoStep(bus, sent, ready, ecc)
          /\ PointerStep(bus, sent, ready) /\ MemoryStep(ready)
          /\ dma_nack_count' = NackCount(ready)
          /\ BusStep(bus, sent, stall) /\ DbgStep
      BY <3>2 DEF Clock
    <3>5. DmaTypes'
      <4>1. DmaTypes /\ DmaTypeOK
        BY <1>2 DEF FifoInv, DmaTypes
      <4>2. fifo' \in [Index -> Entries]
        BY <3>3, <3>4, <4>1, FifoType
      <4>3. DmaTypeOK'
        <5>1. /\ wrbuf' \subseteq [cmd : Commands, seq : {0, 1}] /\ Cardinality(wrbuf') <= 1
              /\ wrbuf_data' \subseteq {0, 1} /\ Cardinality(wrbuf_data') <= 1
              /\ rdbuf' \subseteq Commands /\ Cardinality(rdbuf') <= 1
              /\ aw_seq' \in {0, 1} /\ w_seq' \in {0, 1} /\ axi_mstr_priority' \in BOOLEAN
          BY <3>4, <4>1, AxiType
        <5>2. /\ {WrPtr', RdPtr', RspPtr', RdPtr_Q1', RdPtr_Q2', RdPtr_Q3'} \subseteq Index
              /\ {fifo_full', bubble_bus', stall_bus', axi_slv_sent_q'} \subseteq BOOLEAN
              /\ dma_nack_count' \in 0 .. QOS
              /\ dbg'.state \in {"idle", "start", "wait"}
          BY <3>3, <3>4, <4>1, ControlType DEF DbgStates
        <5> QED  BY <4>2, <5>1, <5>2 DEF DmaTypeOK
      <4> QED  BY <3>3, <3>4, <4>1, <4>3, MemoryType, ControlType DEF DmaTypes
    <3>6. FifoIsRing'
      BY <1>2, <3>3, <3>4, RingStep
    <3>7. FullIsKnown'
      BY <1>2, <3>3, <3>4, FullStep
    <3> QED  BY <3>5, <3>6, <3>7 DEF FifoInv
  <2> QED  BY <1>2, <2>1, <2>2
<1> QED  BY <1>1, <1>2, PTL DEF Spec

(* At every depth, with any masters, memories and debugger, no command is  *)
(* written over one that is still in the fifo.                             *)
THEOREM FifoNeverOverflows == Spec => []FifoSound
<1>1. FifoInv => FifoSound
  BY RoomToEnter DEF FifoInv, DmaTypes, FifoSound
<1> QED  BY <1>1, FifoInvHolds, PTL

-----------------------------------------------------------------------------
(* The debugger.  Its command needs an empty fifo, and what is not in the  *)
(* fifo is not in the pipes of the memories either: the entry of a read    *)
(* cannot leave before the data comes.                                     *)
EntriesAgree ==
    \A i \in Index : fifo[i].valid =>
        /\ fifo[i].done_bus => fifo[i].done
        /\ ~fifo[i].cmd.write /\ fifo[i].error = "none" /\ ~fifo[i].done
              => ~fifo[i].data_valid

InFlight(e) == e.valid /\ e.rpend /\ ~e.done /\ e.error = "none" /\ ~e.cmd.write

Read1 == lsu[1] # {} \/ ifu[1] # {}
Read2 == lsu[2] # {} \/ ifu[2] # {}
Read3 == lsu[3] # {}

(* Each read in a pipe belongs to the entry that RdPtr named when it was   *)
(* given to the memory, and no two belong to the same one.                 *)
ReadsHaveEntries ==
    /\ lsu = <<lsu[1], lsu[2], lsu[3]>> /\ ifu = <<ifu[1], ifu[2]>>
    /\ lsu[1] = {} \/ ifu[1] = {}
    /\ lsu[2] = {} \/ ifu[2] = {}
    /\ Read1 => InFlight(fifo[RdPtr_Q1])
    /\ Read2 => InFlight(fifo[RdPtr_Q2]) /\ (Read1 => RdPtr_Q1 # RdPtr_Q2)
    /\ Read3 => /\ InFlight(fifo[RdPtr_Q3])
                /\ Read1 => RdPtr_Q1 # RdPtr_Q3
                /\ Read2 => RdPtr_Q2 # RdPtr_Q3

DebugHolds ==
    \A i \in Index : fifo[i].valid /\ fifo[i].dbg =>
        dbg.state = "wait" /\ ~axi_mstr_valid /\ Occupied = {i}

DebugInv == EntriesAgree /\ ReadsHaveEntries /\ DebugHolds

(* One clock of an entry that neither leaves nor is written. *)
LEMMA EntryStep ==
    ASSUME DmaTypes, NEW bus \in BOOLEAN, NEW sent \in BOOLEAN, NEW ready \in BOOLEAN,
           NEW ecc, FifoStep(bus, sent, ready, ecc), NEW i \in Index,
           ~fifo_reset(bus, sent, i), ~fifo_cmd_en(bus, i)
    PROVE  /\ fifo'[i].valid = fifo[i].valid
           /\ fifo'[i].dbg = fifo[i].dbg
           /\ fifo'[i].cmd = fifo[i].cmd
           /\ fifo'[i].data = IF returns(i) THEN rdata(i) ELSE fifo[i].data
           /\ fifo'[i].error = IF i \in ecc THEN "ecc" ELSE fifo[i].error
           /\ fifo'[i].rpend <=>
                 fifo[i].rpend \/ (granted(ready) /\ ~Head1.cmd.write /\ i = RdPtr)
           /\ fifo'[i].data_valid <=> fifo[i].data_valid \/ returns(i)
           /\ fifo'[i].done <=> fifo[i].done \/ fifo_done_en(ready, i)
           /\ fifo'[i].done_bus <=>
                 fifo[i].done_bus \/ (bus /\ (fifo[i].done \/ fifo_done_en(ready, i)))
<1> DEFINE done == fifo[i].done \/ fifo_done_en(ready, i)
           rpend == fifo[i].rpend \/ (granted(ready) /\ ~Head1.cmd.write /\ i = RdPtr)
           data_valid == fifo[i].data_valid \/ returns(i)
           data == IF returns(i) THEN rdata(i) ELSE fifo[i].data
           error == IF i \in ecc THEN "ecc" ELSE fifo[i].error
           done_bus == fifo[i].done_bus \/ (bus /\ done)
<1>1. fifo[i] \in Entries
  BY DEF DmaTypes, DmaTypeOK
<1>2. fifo'[i] = [fifo[i] EXCEPT !.rpend = rpend, !.data_valid = data_valid, !.data = data,
                      !.error = error, !.done = done, !.done_bus = done_bus]
  BY Zenon DEF FifoStep
<1> DEFINE d == done
           r == rpend
           v == data_valid
           b == done_bus
<1>3. /\ fifo'[i].valid = fifo[i].valid /\ fifo'[i].dbg = fifo[i].dbg
      /\ fifo'[i].cmd = fifo[i].cmd /\ fifo'[i].data = data /\ fifo'[i].error = error
      /\ fifo'[i].rpend = r /\ fifo'[i].data_valid = v
      /\ fifo'[i].done = d /\ fifo'[i].done_bus = b
  <2> HIDE DEF done, rpend, data_valid, data, error, done_bus
  <2> QED  BY <1>1, <1>2 DEF Entries
<1> QED  BY <1>3, Zenon

(* A command that is waiting for its data neither leaves nor is written.   *)
LEMMA UnansweredStays ==
    ASSUME FifoInv, EntriesAgree, NEW bus \in BOOLEAN, NEW sent \in SentInputs(bus),
           NEW i \in Index, fifo[i].valid, ~fifo[i].done, fifo[i].error = "none",
           ~fifo[i].cmd.write
    PROVE  ~fifo_reset(bus, sent, i) /\ ~fifo_cmd_en(bus, i)
<1>1. ~fifo[i].done_bus /\ ~fifo[i].data_valid
  BY DEF EntriesAgree
<1>2. ~fifo_reset(bus, sent, i)
  BY <1>1 DEF fifo_reset, SentInputs, axi_slv_valid, dma_dbg_cmd_done, RspEntry
<1>3. ~fifo_cmd_en(bus, i)
  BY RoomToEnter DEF NoOverflow, fifo_cmd_en
<1> QED  BY <1>2, <1>3

LEMMA FlightGoesOn ==
    ASSUME FifoInv, EntriesAgree, NEW bus \in BOOLEAN, NEW sent \in SentInputs(bus),
           NEW ready \in BOOLEAN, NEW ecc \in EccInputs, FifoStep(bus, sent, ready, ecc),
           NEW i \in Index, ~returns(i),
           \/ InFlight(fifo[i])
           \/ i = RdPtr /\ granted(ready) /\ ~Head1.cmd.write
    PROVE  InFlight(fifo'[i])
<1>1. DmaTypes /\ sent \in BOOLEAN
  BY DEF FifoInv, SentInputs
<1>2. /\ fifo[i].valid /\ ~fifo[i].done /\ fifo[i].error = "none" /\ ~fifo[i].cmd.write
      /\ fifo[i].rpend \/ (granted(ready) /\ ~Head1.cmd.write /\ i = RdPtr)
  BY DEF InFlight, granted, dma_mem_req, Head1
<1>3. ~fifo_reset(bus, sent, i) /\ ~fifo_cmd_en(bus, i)
  BY <1>2, UnansweredStays
<1>4. i \notin ecc
  BY DEF EccInputs, returns
<1>5. ~fifo_done_en(ready, i)
  BY <1>2 DEF fifo_done_en, Head1
<1>6. /\ fifo'[i].valid = fifo[i].valid /\ fifo'[i].cmd = fifo[i].cmd
      /\ fifo'[i].error = fifo[i].error
      /\ fifo'[i].rpend <=>
            fifo[i].rpend \/ (granted(ready) /\ ~Head1.cmd.write /\ i = RdPtr)
      /\ fifo'[i].done <=> fifo[i].done \/ fifo_done_en(ready, i)
  BY <1>1, <1>3, <1>4, EntryStep
<1>7. /\ fifo'[i].valid /\ fifo'[i].rpend /\ ~fifo'[i].done
      /\ fifo'[i].error = "none" /\ ~fifo'[i].cmd.write
  BY <1>2, <1>5, <1>6
<1> QED  BY <1>7 DEF InFlight

LEMMA ReadsStep ==
    ASSUME FifoInv, DebugInv, NEW bus \in BOOLEAN, NEW sent \in SentInputs(bus),
           NEW ready \in BOOLEAN, NEW ecc \in EccInputs, FifoStep(bus, sent, ready, ecc),
           PointerStep(bus, sent, ready), MemoryStep(ready)
    PROVE  ReadsHaveEntries'
<1>1. RdPtr \in Index /\ RdPtr_Q1 \in Index /\ RdPtr_Q2 \in Index /\ RdPtr_Q3 \in Index
  BY DEF FifoInv, DmaTypes, DmaTypeOK
<1>2. /\ RdPtr_Q1' = RdPtr /\ RdPtr_Q2' = RdPtr_Q1 /\ RdPtr_Q3' = RdPtr_Q2
  BY DEF PointerStep
<1> DEFINE read == IF granted(ready) /\ ~Head1.cmd.write THEN {Head1.cmd.addr} ELSE {}
           toLsu == IF dccm_valid(Head1) THEN read ELSE {}
           toIfu == IF iccm_valid(Head1) THEN read ELSE {}
<1>3. lsu' = <<toLsu, lsu[1], lsu[2]>> /\ ifu' = <<toIfu, ifu[1]>>
  BY DEF MemoryStep
<1>4. toLsu # {} \/ toIfu # {} => granted(ready) /\ ~Head1.cmd.write
  OBVIOUS
<1>5. toLsu = {} \/ toIfu = {}
  BY DEF dccm_valid, iccm_valid
<1> HIDE DEF read, toLsu, toIfu
<1>6. /\ lsu'[1] = toLsu /\ lsu'[2] = lsu[1] /\ lsu'[3] = lsu[2]
      /\ ifu'[1] = toIfu /\ ifu'[2] = ifu[1]
      /\ lsu' = <<lsu'[1], lsu'[2], lsu'[3]>> /\ ifu' = <<ifu'[1], ifu'[2]>>
  BY <1>3
<1>7. /\ Read1' => granted(ready) /\ ~Head1.cmd.write
      /\ Read2' <=> Read1
      /\ Read3' => Read2 /\ ifu[2] = {}
  BY <1>4, <1>6 DEF Read1, Read2, Read3, DebugInv, ReadsHaveEntries
<1>8. \A i \in Index : returns(i) =>
         (i = RdPtr_Q3 /\ Read3) \/ (i = RdPtr_Q2 /\ Read2 /\ ifu[2] # {})
  BY DEF returns, dccm_rindex, iccm_rindex, Read2, Read3
<1>9. granted(ready) => ~Head1.rpend
  BY DEF granted, dma_mem_req
<1>10. ASSUME Read1'
       PROVE  InFlight(fifo'[RdPtr]) /\ ~InFlight(fifo[RdPtr])
  <2>1. ~InFlight(fifo[RdPtr])
    BY <1>7, <1>9, <1>10 DEF InFlight, Head1
  <2>2. ~returns(RdPtr)
    BY <1>1, <1>8, <2>1 DEF DebugInv, ReadsHaveEntries
  <2> QED  BY <1>1, <1>7, <1>10, <2>1, <2>2, FlightGoesOn DEF DebugInv
<1>11. ASSUME Read2'
       PROVE  InFlight(fifo'[RdPtr_Q1]) /\ InFlight(fifo[RdPtr_Q1])
  <2>1. InFlight(fifo[RdPtr_Q1])
    BY <1>7, <1>11 DEF DebugInv, ReadsHaveEntries
  <2>2. ~returns(RdPtr_Q1)
    BY <1>1, <1>7, <1>8, <1>11 DEF DebugInv, ReadsHaveEntries
  <2> QED  BY <1>1, <2>1, <2>2, FlightGoesOn DEF DebugInv
<1>12. ASSUME Read3'
       PROVE  InFlight(fifo'[RdPtr_Q2]) /\ InFlight(fifo[RdPtr_Q2])
  <2>1. InFlight(fifo[RdPtr_Q2])
    BY <1>7, <1>12 DEF DebugInv, ReadsHaveEntries
  <2>2. ~returns(RdPtr_Q2)
    BY <1>1, <1>7, <1>8, <1>12 DEF DebugInv, ReadsHaveEntries
  <2> QED  BY <1>1, <2>1, <2>2, FlightGoesOn DEF DebugInv
<1>13. Read1' => (InFlight(fifo[RdPtr_Q1]))'
  BY <1>2, <1>10 DEF InFlight
<1>14. Read2' => (InFlight(fifo[RdPtr_Q2]))'
  BY <1>2, <1>11 DEF InFlight
<1>15. Read3' => (InFlight(fifo[RdPtr_Q3]))'
  BY <1>2, <1>12 DEF InFlight
<1>16. /\ Read1' /\ Read2' => RdPtr # RdPtr_Q1
       /\ Read1' /\ Read3' => RdPtr # RdPtr_Q2
  BY <1>10, <1>11, <1>12
<1>17. Read2' /\ Read3' => RdPtr_Q1 # RdPtr_Q2
  BY <1>7 DEF DebugInv, ReadsHaveEntries
<1>18. (lsu[1] = {} \/ ifu[1] = {})' /\ (lsu[2] = {} \/ ifu[2] = {})'
  BY <1>5, <1>6 DEF DebugInv, ReadsHaveEntries
<1> QED  BY <1>2, <1>6, <1>13, <1>14, <1>15, <1>16, <1>17, <1>18 DEF ReadsHaveEntries

LEMMA EntriesStep ==
    ASSUME FifoInv, DebugInv, NEW bus \in BOOLEAN, NEW sent \in SentInputs(bus),
           NEW ready \in BOOLEAN, NEW ecc \in EccInputs, FifoStep(bus, sent, ready, ecc)
    PROVE  EntriesAgree'
<1>1. DmaTypes /\ sent \in BOOLEAN
  BY DEF FifoInv, SentInputs
<1>2. SUFFICES ASSUME NEW i \in Index, fifo'[i].valid
               PROVE  /\ fifo'[i].done_bus => fifo'[i].done
                      /\ ~fifo'[i].cmd.write /\ fifo'[i].error = "none" /\ ~fifo'[i].done
                            => ~fifo'[i].data_valid
  BY DEF EntriesAgree
<1>3. ~fifo_reset(bus, sent, i)
  BY <1>1, <1>2, FifoType
<1>4. CASE fifo_cmd_en(bus, i)
  <2> DEFINE c == IF dbg_cmd_valid THEN dbg.cmd ELSE axi_mstr_cmd
             err == ErrorOf(c, dbg_cmd_valid)
  <2>1. fifo'[i] = NewEntry
    BY <1>3, <1>4 DEF FifoStep
  <2>2. NewEntry = [NoEntry EXCEPT !.valid = TRUE, !.cmd = c, !.dbg = dbg_cmd_valid,
                        !.error = err,
                        !.data_valid = c.write \/ (~dbg_cmd_valid /\ err # "none")]
    BY DEF NewEntry
  <2> HIDE DEF c, err
  <2>3. /\ ~NewEntry.done_bus /\ NewEntry.cmd = c /\ NewEntry.error = err
        /\ NewEntry.data_valid => c.write \/ err # "none"
    BY <2>2 DEF NoEntry
  <2> QED  BY <2>1, <2>3
<1>5. CASE ~fifo_cmd_en(bus, i)
  <2>1. /\ fifo[i].valid /\ fifo'[i].cmd = fifo[i].cmd
        /\ fifo'[i].error = IF i \in ecc THEN "ecc" ELSE fifo[i].error
        /\ fifo'[i].data_valid <=> fifo[i].data_valid \/ returns(i)
        /\ fifo'[i].done <=> fifo[i].done \/ fifo_done_en(ready, i)
        /\ fifo'[i].done_bus <=>
              fifo[i].done_bus \/ (bus /\ (fifo[i].done \/ fifo_done_en(ready, i)))
    BY <1>1, <1>2, <1>3, <1>5, EntryStep
  <2>2. returns(i) => fifo_done_en(ready, i)
    BY DEF fifo_done_en
  <2>3. /\ fifo[i].done_bus => fifo[i].done
        /\ ~fifo[i].cmd.write /\ fifo[i].error = "none" /\ ~fifo[i].done
              => ~fifo[i].data_valid
    BY <2>1 DEF DebugInv, EntriesAgree
  <2> QED  BY <2>1, <2>2, <2>3
<1> QED  BY <1>4, <1>5

(* While the debugger has a command no command of the masters comes up: at *)
(* the first clock of the bus the bubble is known, before it their buffers *)
(* do not change.                                                          *)
LEMMA MastersStayOut ==
    ASSUME NEW bus \in BOOLEAN, NEW aw \in AwInputs(bus), NEW w \in WInputs(bus),
           NEW ar \in ArInputs(bus), NEW sent, NEW stall,
           AxiStep(bus, aw, w, ar), BusStep(bus, sent, stall),
           dbg.state # "idle", ~axi_mstr_valid
    PROVE  ~axi_mstr_valid'
<1>1. CASE bus
  <2>1. bubble_bus' = TRUE
    BY <1>1 DEF BusStep, dbg_dma_bubble
  <2> QED  BY <2>1 DEF axi_mstr_valid, dma_fifo_ready
<1>2. CASE ~bus
  <2>1. wrbuf' = wrbuf /\ wrbuf_data' = wrbuf_data /\ rdbuf' = rdbuf
    BY <1>2 DEF AxiStep, WriteData
  <2>2. fifo_full' = fifo_full /\ bubble_bus' = bubble_bus /\ stall_bus' = stall_bus
    BY <1>2 DEF BusStep, busff
  <2> QED  BY <2>1, <2>2 DEF axi_mstr_valid, dma_fifo_ready, write_ready
<1> QED  BY <1>1, <1>2

LEMMA DebugStep ==
    ASSUME FifoInv, DebugInv, NEW bus \in BOOLEAN, NEW sent \in SentInputs(bus),
           NEW ready \in BOOLEAN, NEW ecc \in EccInputs, FifoStep(bus, sent, ready, ecc),
           DbgStep,
           dbg.state # "idle" /\ ~axi_mstr_valid => ~axi_mstr_valid'
    PROVE  DebugHolds'
<1>1. DmaTypes /\ sent \in BOOLEAN
  BY DEF FifoInv, SentInputs
<1>2. SUFFICES ASSUME NEW i \in Index, fifo'[i].valid, fifo'[i].dbg
               PROVE  dbg'.state = "wait" /\ ~axi_mstr_valid' /\ Occupied' = {i}
  BY DEF DebugHolds
<1>3. ~fifo_reset(bus, sent, i)
  BY <1>1, <1>2, FifoType
<1>4. \A j \in Occupied' : j \in Index /\ (j \in Occupied \/ fifo_cmd_en(bus, j))
  BY <1>1, FifoType DEF Occupied
<1>5. i \in Occupied'
  BY <1>2 DEF Occupied
<1>6. CASE fifo_cmd_en(bus, i)
  <2>1. fifo'[i] = NewEntry /\ NewEntry.dbg = dbg_cmd_valid
    BY <1>3, <1>6 DEF FifoStep, NewEntry, NoEntry
  <2>2. dbg_cmd_valid
    BY <1>2, <2>1
  <2>3. Occupied = {} /\ ~axi_mstr_valid /\ dbg.state = "start"
    BY <2>2, RoomToEnter DEF dbg_cmd_valid
  <2>4. Occupied' = {i}
    BY <1>4, <1>5, <1>6, <2>3 DEF fifo_cmd_en
  <2>5. dbg' = [dbg EXCEPT !.state = "wait"]
    BY <2>2, <2>3 DEF DbgStep
  <2>6. dbg'.state = "wait"
    BY <1>1, <2>5 DEF DmaTypes, DbgStates
  <2> QED  BY <2>3, <2>4, <2>6
<1>7. CASE ~fifo_cmd_en(bus, i)
  <2>1. fifo[i].valid /\ fifo[i].dbg
    BY <1>1, <1>2, <1>3, <1>7, EntryStep
  <2>2. dbg.state = "wait" /\ ~axi_mstr_valid /\ Occupied = {i}
    BY <2>1 DEF DebugInv, DebugHolds
  <2>3. \A j \in Index : ~fifo_cmd_en(bus, j)
    BY <2>2 DEF fifo_cmd_en, dbg_cmd_valid
  <2>4. Occupied' = {i}
    BY <1>4, <1>5, <2>2, <2>3
  <2>5. ~dma_dbg_cmd_done
    <3>1. RspPtr \in Index
      BY <1>1 DEF DmaTypes, DmaTypeOK
    <3>2. ASSUME dma_dbg_cmd_done PROVE FALSE
      <4>1. RspPtr = i
        BY <2>2, <3>1, <3>2 DEF dma_dbg_cmd_done, RspEntry, Occupied
      <4> QED  BY <1>3, <3>2, <4>1 DEF fifo_reset
    <3> QED  BY <3>2
  <2>6. dbg' = dbg
    BY <2>2, <2>5 DEF DbgStep
  <2> QED  BY <2>2, <2>4, <2>6
<1> QED  BY <1>6, <1>7

LEMMA InvSound == Spec => [](FifoInv /\ DebugInv)
<1>1. Init => DebugInv
  <2> SUFFICES ASSUME Init PROVE DebugInv
    OBVIOUS
  <2>1. \A i \in Index : ~fifo[i].valid
    BY DEF Init, NoEntry
  <2>2. lsu = <<{}, {}, {}>> /\ ifu = <<{}, {}>>
    BY DEF Init
  <2>3. ReadsHaveEntries
    BY <2>2 DEF ReadsHaveEntries, Read1, Read2, Read3
  <2> QED  BY <2>1, <2>3 DEF DebugInv, EntriesAgree, DebugHolds
<1>2. ASSUME FifoInv, DebugInv, [Next]_vars PROVE DebugInv'
  <2>1. CASE UNCHANGED vars
    BY <1>2, <2>1 DEF vars, axi, ptrs, busff, DebugInv, EntriesAgree, ReadsHaveEntries, InFlight,
                      Read1, Read2, Read3, DebugHolds, Occupied, axi_mstr_valid,
                      write_ready, dma_fifo_ready
  <2>2. CASE Next
    <3>1. PICK bus \in BOOLEAN, ready \in ReadyInputs, ecc \in EccInputs :
            \E aw \in AwInputs(bus), w \in WInputs(bus), ar \in ArInputs(bus),
               sent \in SentInputs(bus), stall \in StallInputs(bus) :
                Clock(bus, aw, w, ar, sent, ready, ecc, stall)
      BY <2>2 DEF Next
    <3>2. PICK aw \in AwInputs(bus), w \in WInputs(bus), ar \in ArInputs(bus),
               sent \in SentInputs(bus), stall \in StallInputs(bus) :
                Clock(bus, aw, w, ar, sent, ready, ecc, stall)
      BY <3>1
    <3>3. ready \in BOOLEAN
      BY DEF ReadyInputs
    <3>4. /\ AxiStep(bus, aw, w, ar) /\ FifoStep(bus, sent, ready, ecc)
          /\ PointerStep(bus, sent, ready) /\ MemoryStep(ready)
          /\ BusStep(bus, sent, stall) /\ DbgStep
      BY <3>2 DEF Clock
    <3>5. EntriesAgree'
      BY <1>2, <3>3, <3>4, EntriesStep
    <3>6. ReadsHaveEntries'
      BY <1>2, <3>3, <3>4, ReadsStep
    <3>7. dbg.state # "idle" /\ ~axi_mstr_valid => ~axi_mstr_valid'
      BY <3>4, MastersStayOut
    <3>8. DebugHolds'
      BY <1>2, <3>3, <3>4, <3>7, DebugStep
    <3> QED  BY <3>5, <3>6, <3>8 DEF DebugInv
  <2> QED  BY <1>2, <2>1, <2>2
<1> QED  BY <1>1, <1>2, FifoInvHolds, PTL DEF Spec

(* The debugger's command is alone in the fifo and in the pipes of the     *)
(* memories, though it looks neither at the pipes nor at the copy of the   *)
(* bubble that holds the masters off.                                      *)
THEOREM DebuggerIsAlone == Spec => []DebugIsAlone
<1>1. ASSUME FifoInv, DebugInv PROVE DebugIsAlone
  <2>1. ASSUME dbg_cmd_valid
        PROVE  ~axi_mstr_valid /\ lsu = <<{}, {}, {}>> /\ ifu = <<{}, {}>>
    <3>1. Occupied = {} /\ ~axi_mstr_valid
      BY <1>1, <2>1, RoomToEnter
    <3>2. RdPtr_Q1 \in Index /\ RdPtr_Q2 \in Index /\ RdPtr_Q3 \in Index
      BY <1>1 DEF FifoInv, DmaTypes, DmaTypeOK
    <3>3. ~Read1 /\ ~Read2 /\ ~Read3
      BY <1>1, <3>1, <3>2 DEF DebugInv, ReadsHaveEntries, InFlight, Occupied
    <3> QED  BY <1>1, <3>1, <3>3 DEF DebugInv, ReadsHaveEntries, Read1, Read2, Read3
  <2>2. ASSUME NEW i \in Index, NEW j \in Index, fifo[i].valid, fifo[i].dbg
        PROVE  ~axi_mstr_valid /\ (fifo[j].valid => j = i)
    BY <1>1, <2>2 DEF DebugInv, DebugHolds, Occupied
  <2> QED  BY <2>1, <2>2 DEF DebugIsAlone
<1> QED  BY <1>1, InvSound, PTL

-----------------------------------------------------------------------------
(* Order.  The m-th place of the ring. *)
Place(p, m) == Wrap(p + m - 1)

LEMMA ModIsWrap ==
    ASSUME NEW x \in 0 .. 2 * DEPTH - 1
    PROVE  x % DEPTH = Wrap(x)
<1>1. CASE x < DEPTH
  BY <1>1 DEF Wrap
<1>2. CASE x >= DEPTH
  <2>1. x - DEPTH \in 0 .. DEPTH - 1
    BY <1>2
  <2>2. x = DEPTH * 1 + (x - DEPTH)
    BY <2>1
  <2>3. x % DEPTH = x - DEPTH
    BY <2>1, <2>2
  <2> QED  BY <1>2, <2>3 DEF Wrap
<1> QED  BY <1>1, <1>2

(* The places of a ring are its slots, each once. *)
LEMMA PlacesOfRing ==
    ASSUME NEW p \in Index, NEW n \in 0 .. DEPTH
    PROVE  /\ \A m \in 1 .. n : Place(p, m) \in RingFrom(p, n) /\ Place(p, m) \in Index
           /\ \A l, m \in 1 .. n : Place(p, l) = Place(p, m) => l = m
           /\ \A i \in RingFrom(p, n) : i \in Index /\ \E m \in 1 .. n : i = Place(p, m)
<1>1. \A m \in 1 .. n : Place(p, m) \in Index /\ Distance(p, Place(p, m)) = m - 1
  BY DEF Place, Wrap, Index, Distance
<1>2. \A i \in Index : Distance(p, i) < n =>
         Distance(p, i) + 1 \in 1 .. n /\ Place(p, Distance(p, i) + 1) = i
  BY DEF Place, Wrap, Index, Distance
<1> QED  BY <1>1, <1>2 DEF RingFrom

LEMMA SizeOfRing ==
    ASSUME NEW p \in Index, NEW n \in 0 .. DEPTH
    PROVE  Cardinality(RingFrom(p, n)) = n
<1> DEFINE S == RingFrom(p, n)
           f == [m \in 1 .. n |-> Place(p, m)]
<1>1. f \in [1 .. n -> S]
  BY PlacesOfRing
<1>2. \A l, m \in 1 .. n : f[l] = f[m] => l = m
  BY PlacesOfRing
<1>3. \A i \in S : \E m \in 1 .. n : f[m] = i
  BY PlacesOfRing
<1> HIDE DEF S, f
<1>4. f \in Bijection(1 .. n, S)
  BY <1>1, <1>2, <1>3 DEF Bijection, Injection, Surjection, IsInjective
<1>5. Cardinality(S) = n
  BY <1>4, FS_CountingElements DEF ExistsBijection
<1> QED  BY <1>5 DEF S

(* When the first place is given up the others move up by one. *)
LEMMA PlacesMoveUp ==
    ASSUME NEW p \in Index
    PROVE  /\ Place(p, 1) = p
           /\ \A m \in 1 .. DEPTH - 1 : Place(Next1(p), m) = Place(p, m + 1)
           /\ \A m \in 1 .. DEPTH : Wrap(Next1(p) + (m - 1)) = Wrap(p + m)
           /\ \A m \in 0 .. DEPTH - 1 : Place(p, m + 1) = Wrap(p + m)
           /\ \A m \in 0 .. DEPTH - 1 : Next1(Wrap(p + m)) = Wrap(p + (m + 1))
<1>1. Next1(p) = Wrap(p + 1)
  BY NextIsWrap
<1>2. \A m \in 0 .. DEPTH - 1 : Wrap(p + m) \in Index
  BY DEF Wrap, Index
<1>3. \A m \in 0 .. DEPTH - 1 : Next1(Wrap(p + m)) = Wrap(Wrap(p + m) + 1)
  BY <1>2, NextIsWrap
<1>4. \A m \in 0 .. DEPTH - 1 : Wrap(Wrap(p + m) + 1) = Wrap(p + (m + 1))
  BY DEF Wrap, Index
<1>5. \A m \in 1 .. DEPTH : Wrap(Wrap(p + 1) + (m - 1)) = Wrap(p + m)
  BY DEF Wrap, Index
<1>6. \A m \in 1 .. DEPTH - 1 : Place(Wrap(p + 1), m) = Place(p, m + 1)
  BY DEF Place, Wrap, Index
<1>7. Place(p, 1) = p /\ \A m \in 0 .. DEPTH - 1 : Place(p, m + 1) = Wrap(p + m)
  BY DEF Place, Wrap, Index
<1> QED  BY <1>1, <1>3, <1>4, <1>5, <1>6, <1>7

(* What an entry says of its command is so: its error is the command's or  *)
(* what the memory said of a read, its data that of its address.           *)
Given(e) == e.rpend \/ e.done
Answer(e) == IF e.error # "none" THEN <<e.error, 0>>
             ELSE IF e.cmd.write THEN <<"ok", 0>> ELSE <<"data", e.data>>
Honest(e) ==
    /\ e.cmd \in Commands \cup DbgCommands
    /\ e.cmd.write => e.data_valid
    /\ e.rpend => ~e.cmd.write /\ ErrorOf(e.cmd, e.dbg) = "none"
    /\ ~e.done => e.error = ErrorOf(e.cmd, e.dbg)
    /\ e.done => Answer(e) \in ResultsOf(e.cmd, e.dbg)
EntriesAreHonest ==
    \A i \in Index : IF fifo[i].valid THEN Honest(fifo[i]) ELSE fifo[i].error = "none"

(* The reads in the pipes are of the addresses of their entries. *)
ReadsAreOwn ==
    /\ lsu[1] \cup ifu[1] \subseteq {fifo[RdPtr_Q1].cmd.addr}
    /\ lsu[2] \cup ifu[2] \subseteq {fifo[RdPtr_Q2].cmd.addr}
    /\ lsu[3] \subseteq {fifo[RdPtr_Q3].cmd.addr}

DebuggerHasCommand == dbg.state # "idle" => dbg.cmd \in DbgCommands

(* From RspPtr on the first k of the n commands have been given to a       *)
(* memory or refused, the others wait.                                     *)
InOrder(n, k) ==
    /\ Occupied = RingFrom(RspPtr, n) /\ WrPtr = Wrap(RspPtr + n) /\ RdPtr = Wrap(RspPtr + k)
    /\ \A m \in 1 .. n : Given(fifo[Place(RspPtr, m)]) <=> m <= k
CommandsInOrder == \E n \in 0 .. DEPTH : \E k \in 0 .. n : InOrder(n, k)

DmaInv ==
    /\ FifoInv /\ DebugInv
    /\ EntriesAreHonest /\ ReadsAreOwn /\ DebuggerHasCommand /\ CommandsInOrder

(* What happens in a clock. *)
Enters(bus) == (axi_mstr_valid /\ bus) \/ dbg_cmd_valid
Leaves(bus, sent) == (sent /\ bus) \/ dma_dbg_cmd_done
Advancing(ready) == granted(ready) \/ (Head1.error # "none" /\ ~Head1.done)

(* The head is given to a memory or refused only while it waits. *)
LEMMA HeadWaits ==
    ASSUME FifoInv, EntriesAreHonest, NEW ready \in BOOLEAN, Advancing(ready)
    PROVE  Head1.valid /\ ~Given(Head1)
<1>1. RdPtr \in Index
  BY DEF FifoInv, DmaTypes, DmaTypeOK
<1>2. granted(ready) => Head1.valid /\ ~Head1.rpend /\ ~Head1.done
  BY DEF granted, dma_mem_req
<1>3. ASSUME Head1.error # "none", ~Head1.done PROVE Head1.valid /\ ~Head1.rpend
  <2>1. Head1.valid /\ Honest(Head1)
    BY <1>1, <1>3 DEF EntriesAreHonest, Head1
  <2> QED  BY <1>3, <2>1 DEF Honest
<1> QED  BY <1>2, <1>3 DEF Advancing, Given

(* A read that returns is of an entry whose data is outstanding, and       *)
(* brings the data of its address.                                         *)
LEMMA ReturnIsOwn ==
    ASSUME FifoInv, ReadsHaveEntries, ReadsAreOwn, NEW i \in Index, returns(i)
    PROVE  InFlight(fifo[i]) /\ rdata(i) = fifo[i].cmd.addr
<1>1. CASE i \in dccm_rindex
  <2>1. lsu[3] # {} /\ i = RdPtr_Q3
    BY <1>1 DEF dccm_rindex
  <2>2. InFlight(fifo[i])
    BY <2>1 DEF ReadsHaveEntries, Read3
  <2>3. (CHOOSE a \in lsu[3] : TRUE) = fifo[i].cmd.addr
    BY <2>1 DEF ReadsAreOwn
  <2> QED  BY <1>1, <2>2, <2>3 DEF rdata
<1>2. CASE i \notin dccm_rindex
  <2>1. ifu[2] # {} /\ i = RdPtr_Q2
    BY <1>2 DEF returns, iccm_rindex
  <2>2. InFlight(fifo[i])
    BY <2>1 DEF ReadsHaveEntries, Read2
  <2>3. (CHOOSE a \in ifu[2] : TRUE) = fifo[i].cmd.addr
    BY <2>1 DEF ReadsAreOwn
  <2> QED  BY <1>2, <2>2, <2>3 DEF rdata
<1> QED  BY <1>1, <1>2

(* What a clock does to the item of an entry that stays. *)
ItemStep(ready, i, a, b) ==
    \/ b = a
    \/ i = RdPtr /\ Advancing(ready) /\ b = [a EXCEPT !.state = "issued"]
    \/ i = RdPtr /\ Advancing(ready) /\ ImmediateResult(a.cmd, a.dbg)
       /\ b.cmd = a.cmd /\ b.dbg = a.dbg /\ Service!Completes(a, b)
    \/ a.state = "issued" /\ b.cmd = a.cmd /\ b.dbg = a.dbg /\ Service!Completes(a, b)

LEMMA ItemFields ==
    ASSUME NEW e
    PROVE  /\ Item(e).cmd = e.cmd /\ Item(e).dbg = e.dbg
           /\ Item(e).state = IF e.done THEN "complete" ELSE IF e.rpend THEN "issued" ELSE "waiting"
           /\ Item(e).res = IF e.done THEN Answer(e) ELSE <<"none", 0>>
  BY DEF Item, Answer

LEMMA EntryOrder ==
    ASSUME DmaInv, NEW bus \in BOOLEAN, NEW sent \in SentInputs(bus),
           NEW ready \in BOOLEAN, NEW ecc \in EccInputs, FifoStep(bus, sent, ready, ecc),
           NEW i \in Index, fifo[i].valid, ~fifo_reset(bus, sent, i)
    PROVE  /\ fifo'[i].valid /\ fifo'[i].cmd = fifo[i].cmd /\ Honest(fifo'[i])
           /\ Given(fifo'[i]) <=> Given(fifo[i]) \/ (i = RdPtr /\ Advancing(ready))
           /\ ItemStep(ready, i, Item(fifo[i]), Item(fifo'[i]))
<1> DEFINE e == fifo[i]
           f == fifo'[i]
<1>1. DmaTypes /\ sent \in BOOLEAN /\ Honest(e) /\ FifoInv /\ EntriesAreHonest
  BY DEF DmaInv, FifoInv, SentInputs, EntriesAreHonest
<1>2. ~fifo_cmd_en(bus, i)
  BY <1>1, RoomToEnter DEF NoOverflow, fifo_cmd_en
<1>3. /\ f.valid /\ f.dbg = e.dbg /\ f.cmd = e.cmd
      /\ f.data = IF returns(i) THEN rdata(i) ELSE e.data
      /\ f.error = IF i \in ecc THEN "ecc" ELSE e.error
      /\ f.rpend <=> e.rpend \/ (granted(ready) /\ ~Head1.cmd.write /\ i = RdPtr)
      /\ f.data_valid <=> e.data_valid \/ returns(i)
      /\ f.done <=> e.done \/ fifo_done_en(ready, i)
  BY <1>1, <1>2, EntryStep
<1>4. i \in ecc => returns(i)
  BY DEF EccInputs, returns
<1>5. returns(i) => InFlight(e) /\ rdata(i) = e.cmd.addr
  BY ReturnIsOwn DEF DmaInv, FifoInv, DebugInv
<1>6. i = RdPtr => e = Head1
  BY DEF Head1
<1>7. i = RdPtr /\ Advancing(ready) => ~Given(e)
  BY <1>1, <1>6, HeadWaits
<1>8. fifo_done_en(ready, i) <=>
         \/ i = RdPtr /\ (e.error # "none" \/ (granted(ready) /\ e.cmd.write))
         \/ returns(i)
  BY <1>6 DEF fifo_done_en
<1>9. /\ Item(e).cmd = e.cmd /\ Item(e).dbg = e.dbg
      /\ Item(e).state = IF e.done THEN "complete" ELSE IF e.rpend THEN "issued" ELSE "waiting"
      /\ Item(e).res = IF e.done THEN Answer(e) ELSE <<"none", 0>>
      /\ Item(f).cmd = f.cmd /\ Item(f).dbg = f.dbg
      /\ Item(f).state = IF f.done THEN "complete" ELSE IF f.rpend THEN "issued" ELSE "waiting"
      /\ Item(f).res = IF f.done THEN Answer(f) ELSE <<"none", 0>>
  BY ItemFields
<1> HIDE DEF e, f
<1>10. CASE e.done
  <2>1. ~returns(i) /\ ~(i = RdPtr /\ Advancing(ready))
    BY <1>5, <1>7, <1>10 DEF InFlight, Given
  <2>2. f.done /\ Given(e) /\ Given(f) /\ f.data = e.data /\ f.error = e.error
    BY <1>3, <1>4, <1>10, <2>1 DEF Given
  <2>3. ~(granted(ready) /\ i = RdPtr)
    BY <2>1 DEF Advancing
  <2>4. Item(f) = Item(e)
    BY <1>3, <1>10, <2>2 DEF Item
  <2>5. Honest(f)
    BY <1>1, <1>3, <1>10, <2>2, <2>3 DEF Honest, Answer
  <2> QED  BY <1>3, <2>1, <2>2, <2>4, <2>5 DEF ItemStep, e, f
<1>11. CASE ~e.done /\ e.rpend
  <2>1. e.error = "none" /\ ~e.cmd.write /\ ErrorOf(e.cmd, e.dbg) = "none"
    BY <1>1, <1>11 DEF Honest
  <2>2. ~(i = RdPtr /\ Advancing(ready)) /\ ~(i = RdPtr /\ granted(ready))
    BY <1>7, <1>11 DEF Given, Advancing
  <2>3. f.done <=> returns(i)
    BY <1>3, <1>8, <1>11, <2>1
  <2>4. f.rpend /\ Given(e) /\ Given(f)
    BY <1>3, <1>11 DEF Given
  <2>5. CASE returns(i)
    <3>1. f.data = e.cmd.addr /\ (f.error = "none" \/ f.error = "ecc")
      BY <1>3, <1>5, <2>1, <2>5
    <3>2. Answer(f) \in ResultsOf(f.cmd, f.dbg)
      BY <1>3, <2>1, <3>1 DEF Answer, ResultsOf
    <3>3. Honest(f)
      BY <1>1, <1>3, <2>1, <2>3, <2>5, <3>2 DEF Honest
    <3>4. /\ Item(e).state = "issued" /\ Item(f).cmd = Item(e).cmd /\ Item(f).dbg = Item(e).dbg
          /\ Item(f).state = "complete" /\ Item(f).res \in ResultsOf(Item(e).cmd, Item(e).dbg)
      BY <1>3, <1>9, <1>11, <2>3, <2>5, <3>2
    <3> QED  BY <1>3, <2>2, <2>4, <3>3, <3>4 DEF ItemStep, Service!Completes, e, f
  <2>6. CASE ~returns(i)
    <3>1. ~f.done /\ f.error = e.error
      BY <1>3, <1>4, <2>3, <2>6
    <3>2. Item(f) = Item(e)
      BY <1>3, <1>11, <2>4, <3>1 DEF Item
    <3>3. Honest(f)
      BY <1>1, <1>3, <2>1, <2>4, <3>1 DEF Honest
    <3> QED  BY <1>3, <2>2, <2>4, <3>2, <3>3 DEF ItemStep, e, f
  <2> QED  BY <2>5, <2>6
<1>12. CASE ~e.done /\ ~e.rpend
  <2>1. ~returns(i) /\ i \notin ecc /\ ~Given(e)
    BY <1>4, <1>5, <1>12 DEF InFlight, Given
  <2>2. e.error = ErrorOf(e.cmd, e.dbg) /\ f.error = e.error /\ f.data = e.data
    BY <1>1, <1>3, <1>12, <2>1 DEF Honest
  <2>3. CASE i = RdPtr /\ e.error # "none"
    <3>1. f.done /\ Given(f) /\ Advancing(ready)
      BY <1>3, <1>6, <1>8, <1>12, <2>3 DEF Given, Advancing
    <3>2. ~granted(ready) /\ ~f.rpend
      BY <1>3, <1>6, <1>12, <2>3 DEF granted, dma_mem_req
    <3>3. Answer(f) \in ResultsOf(f.cmd, f.dbg)
      BY <1>3, <2>2, <2>3 DEF Answer, ResultsOf
    <3>4. Honest(f)
      BY <1>1, <1>3, <2>2, <3>1, <3>2, <3>3 DEF Honest
    <3>5. /\ Item(f).cmd = Item(e).cmd /\ Item(f).dbg = Item(e).dbg
          /\ ImmediateResult(Item(e).cmd, Item(e).dbg)
          /\ Item(f).state = "complete" /\ Item(f).res \in ResultsOf(Item(e).cmd, Item(e).dbg)
      BY <1>3, <1>9, <2>2, <2>3, <3>1, <3>3 DEF ImmediateResult
    <3> QED  BY <1>3, <2>3, <3>1, <3>4, <3>5 DEF ItemStep, Service!Completes, e, f
  <2>4. CASE i = RdPtr /\ e.error = "none" /\ granted(ready)
    <3>1. Advancing(ready) /\ ErrorOf(e.cmd, e.dbg) = "none"
      BY <2>2, <2>4 DEF Advancing
    <3>2. CASE e.cmd.write
      <4>1. f.done /\ ~f.rpend /\ Given(f)
        BY <1>3, <1>6, <1>8, <1>12, <2>4, <3>2 DEF Given
      <4>2. Answer(f) \in ResultsOf(f.cmd, f.dbg)
        BY <1>3, <2>2, <2>4, <3>1, <3>2 DEF Answer, ResultsOf
      <4>3. Honest(f)
        BY <1>1, <1>3, <4>1, <4>2 DEF Honest
      <4>4. /\ Item(f).cmd = Item(e).cmd /\ Item(f).dbg = Item(e).dbg
            /\ ImmediateResult(Item(e).cmd, Item(e).dbg)
            /\ Item(f).state = "complete" /\ Item(f).res \in ResultsOf(Item(e).cmd, Item(e).dbg)
        BY <1>3, <1>9, <3>2, <4>1, <4>2 DEF ImmediateResult
      <4> QED  BY <1>3, <2>4, <3>1, <4>1, <4>3, <4>4 DEF ItemStep, Service!Completes, e, f
    <3>3. CASE ~e.cmd.write
      <4>1. ~f.done /\ f.rpend /\ Given(f)
        BY <1>3, <1>6, <1>8, <1>12, <2>1, <2>4, <3>3 DEF Given
      <4>2. Honest(f)
        BY <1>1, <1>3, <2>2, <3>1, <3>3, <4>1 DEF Honest
      <4>3. Item(f) = [Item(e) EXCEPT !.state = "issued"]
        BY <1>3, <1>12, <4>1 DEF Item
      <4> QED  BY <1>3, <2>4, <3>1, <4>1, <4>2, <4>3 DEF ItemStep, e, f
    <3> QED  BY <3>2, <3>3
  <2>5. CASE ~(i = RdPtr /\ e.error # "none") /\ ~(i = RdPtr /\ granted(ready))
    <3>1. ~f.done /\ ~f.rpend /\ ~Given(f)
      BY <1>3, <1>8, <1>12, <2>1, <2>5 DEF Given
    <3>2. ~(i = RdPtr /\ Advancing(ready))
      BY <1>6, <2>5 DEF Advancing
    <3>3. Item(f) = Item(e)
      BY <1>3, <1>12, <3>1 DEF Item
    <3>4. Honest(f)
      BY <1>1, <1>3, <2>2, <3>1 DEF Honest
    <3> QED  BY <1>3, <2>1, <3>1, <3>2, <3>3, <3>4 DEF ItemStep, e, f
  <2> QED  BY <2>3, <2>4, <2>5
<1> QED  BY <1>10, <1>11, <1>12

(* An answer is given to the first command, and only when it is done; the  *)
(* debugger's write or refused command may leave in the clock in which it  *)
(* is given to the memory.                                                 *)
LEMMA LeavingIsDone ==
    ASSUME DmaInv, NEW bus \in BOOLEAN, NEW sent \in SentInputs(bus),
           NEW ready \in ReadyInputs, Leaves(bus, sent)
    PROVE  /\ RspPtr \in Index /\ fifo[RspPtr].valid
           /\ Given(fifo[RspPtr]) \/ (RspPtr = RdPtr => Advancing(ready))
           /\ Service!Answerable(Item(fifo[RspPtr]))
<1> DEFINE e == fifo[RspPtr]
<1>1. RspPtr \in Index
  BY DEF DmaInv, FifoInv, DmaTypes, DmaTypeOK
<1>2. e.valid
  BY DEF Leaves, SentInputs, axi_slv_valid, dma_dbg_cmd_done, RspEntry
<1>3. Honest(e) /\ e.cmd \in AllCommands
  BY <1>1, <1>2 DEF DmaInv, EntriesAreHonest, Honest, AllCommands
<1>4. /\ e.done_bus => e.done
      /\ ~e.cmd.write /\ e.error = "none" /\ ~e.done => ~e.data_valid
  BY <1>1, <1>2 DEF DmaInv, DebugInv, EntriesAgree
<1>5. e.done \/ (e.dbg /\ (e.cmd.write \/ e.error # "none"))
  BY <1>4 DEF Leaves, SentInputs, axi_slv_valid, dma_dbg_cmd_done, RspEntry
<1>6. RspPtr = RdPtr => e = Head1
  BY DEF Head1
<1>7. /\ Item(e).cmd = e.cmd /\ Item(e).dbg = e.dbg
      /\ Item(e).state = IF e.done THEN "complete" ELSE IF e.rpend THEN "issued" ELSE "waiting"
  BY ItemFields
<1> HIDE DEF e
<1>8. CASE e.done
  BY <1>1, <1>2, <1>7, <1>8 DEF Given, Service!Answerable, e
<1>9. CASE ~e.done
  <2>1. e.dbg /\ e.error = ErrorOf(e.cmd, e.dbg) /\ ~e.rpend
    BY <1>3, <1>5, <1>9 DEF Honest
  <2>2. Service!Answerable(Item(e))
    BY <1>5, <1>7, <1>9, <2>1 DEF Service!Answerable, ImmediateResult
  <2>3. ASSUME RspPtr = RdPtr PROVE Advancing(ready)
    <3>1. CASE e.error # "none"
      BY <1>6, <1>9, <2>3, <3>1 DEF Advancing
    <3>2. CASE e.error = "none"
      <4>1. dma_mem_req
        BY <1>2, <1>3, <1>6, <1>9, <2>1, <2>3, <3>2 DEF dma_mem_req, Honest
      <4>2. ready = TRUE
        BY <1>6, <2>1, <2>3, <4>1 DEF ReadyInputs
      <4>3. e.cmd.at \in {"dccm", "iccm", "pic"}
        BY <1>3, <2>1, <3>2, CommandShape DEF ErrorOf
      <4> QED  BY <1>6, <2>3, <4>1, <4>2, <4>3 DEF Advancing, granted, dccm_valid, iccm_valid
    <3> QED  BY <3>1, <3>2
  <2> QED  BY <1>1, <1>2, <2>2, <2>3 DEF e
<1> QED  BY <1>8, <1>9

(* What enters waits, and is what the masters or the debugger asked for. *)
LEMMA NewEntryWaits ==
    ASSUME DmaInv, axi_mstr_valid \/ dbg_cmd_valid
    PROVE  NewEntry.valid /\ Honest(NewEntry) /\ ~Given(NewEntry)
<1> DEFINE c == IF dbg_cmd_valid THEN dbg.cmd ELSE axi_mstr_cmd
           err == ErrorOf(c, dbg_cmd_valid)
           now == c.write \/ (~dbg_cmd_valid /\ err # "none")
<1>1. c \in Commands \cup DbgCommands
  <2>1. CASE dbg_cmd_valid
    BY <2>1 DEF DmaInv, DebuggerHasCommand, dbg_cmd_valid
  <2>2. CASE ~dbg_cmd_valid /\ axi_mstr_write
    <3>1. wrbuf # {}
      BY <2>2 DEF axi_mstr_valid, axi_mstr_write, write_ready
    <3>2. (CHOOSE w \in wrbuf : TRUE) \in [cmd : Commands, seq : {0, 1}]
      BY <3>1 DEF DmaInv, FifoInv, DmaTypes, DmaTypeOK
    <3> QED  BY <2>2, <3>2 DEF axi_mstr_cmd
  <2>3. CASE ~dbg_cmd_valid /\ ~axi_mstr_write
    <3>1. rdbuf # {}
      BY <2>3 DEF axi_mstr_valid, axi_mstr_write, write_ready
    <3>2. (CHOOSE r \in rdbuf : TRUE) \in Commands
      BY <3>1 DEF DmaInv, FifoInv, DmaTypes, DmaTypeOK
    <3> QED  BY <2>3, <3>2 DEF axi_mstr_cmd
  <2> QED  BY <2>1, <2>2, <2>3
<1>2. NewEntry = [NoEntry EXCEPT !.valid = TRUE, !.cmd = c, !.dbg = dbg_cmd_valid, !.error = err,
                        !.data_valid = now]
  BY DEF NewEntry
<1>3. c.write => now
  OBVIOUS
<1>4. err = ErrorOf(c, dbg_cmd_valid)
  OBVIOUS
<1> HIDE DEF c, err, now
<1>5. /\ NewEntry.valid /\ NewEntry.cmd = c /\ NewEntry.dbg = dbg_cmd_valid
      /\ NewEntry.error = err /\ NewEntry.data_valid = now
      /\ ~NewEntry.rpend /\ ~NewEntry.done
  BY <1>2 DEF NoEntry
<1> QED  BY <1>1, <1>3, <1>4, <1>5 DEF Honest, Given

LEMMA HonestStep ==
    ASSUME DmaInv, NEW bus \in BOOLEAN, NEW sent \in SentInputs(bus),
           NEW ready \in BOOLEAN, NEW ecc \in EccInputs, FifoStep(bus, sent, ready, ecc)
    PROVE  EntriesAreHonest'
<1> SUFFICES ASSUME NEW i \in Index
             PROVE  IF fifo'[i].valid THEN Honest(fifo'[i]) ELSE fifo'[i].error = "none"
  BY DEF EntriesAreHonest
<1>1. DmaTypes /\ sent \in BOOLEAN
  BY DEF DmaInv, FifoInv, SentInputs
<1>2. CASE fifo_reset(bus, sent, i)
  <2>1. fifo'[i] = NoEntry
    BY <1>2 DEF FifoStep
  <2> QED  BY <2>1 DEF NoEntry
<1>3. CASE ~fifo_reset(bus, sent, i) /\ fifo_cmd_en(bus, i)
  <2>1. fifo'[i] = NewEntry
    BY <1>3 DEF FifoStep
  <2> QED  BY <1>3, <2>1, NewEntryWaits DEF fifo_cmd_en
<1>4. CASE ~fifo_reset(bus, sent, i) /\ ~fifo_cmd_en(bus, i) /\ fifo[i].valid
  BY <1>4, EntryOrder
<1>5. CASE ~fifo_reset(bus, sent, i) /\ ~fifo_cmd_en(bus, i) /\ ~fifo[i].valid
  <2>1. fifo'[i].valid = fifo[i].valid /\ fifo'[i].error = IF i \in ecc THEN "ecc" ELSE fifo[i].error
    BY <1>1, <1>5, EntryStep
  <2>2. i \notin ecc
    BY <1>5, ReturnIsOwn DEF EccInputs, returns, InFlight, DmaInv, DebugInv
  <2> QED  BY <1>5, <2>1, <2>2 DEF DmaInv, EntriesAreHonest
<1> QED  BY <1>2, <1>3, <1>4, <1>5

LEMMA OwnStep ==
    ASSUME DmaInv, NEW bus \in BOOLEAN, NEW sent \in SentInputs(bus),
           NEW ready \in BOOLEAN, NEW ecc \in EccInputs, FifoStep(bus, sent, ready, ecc),
           PointerStep(bus, sent, ready), MemoryStep(ready)
    PROVE  ReadsAreOwn'
<1>1. RdPtr \in Index /\ RdPtr_Q1 \in Index /\ RdPtr_Q2 \in Index
  BY DEF DmaInv, FifoInv, DmaTypes, DmaTypeOK
<1>2. RdPtr_Q1' = RdPtr /\ RdPtr_Q2' = RdPtr_Q1 /\ RdPtr_Q3' = RdPtr_Q2
  BY DEF PointerStep
<1> DEFINE read == IF granted(ready) /\ ~Head1.cmd.write THEN {Head1.cmd.addr} ELSE {}
           toLsu == IF dccm_valid(Head1) THEN read ELSE {}
           toIfu == IF iccm_valid(Head1) THEN read ELSE {}
<1>3. lsu' = <<toLsu, lsu[1], lsu[2]>> /\ ifu' = <<toIfu, ifu[1]>>
  BY DEF MemoryStep
<1>4. /\ toLsu \cup toIfu \subseteq {fifo[RdPtr].cmd.addr}
      /\ toLsu \cup toIfu # {} => fifo[RdPtr].valid /\ InFlight(fifo'[RdPtr])
  <2>1. granted(ready) /\ ~Head1.cmd.write => Head1.valid /\ ~Head1.rpend
    BY DEF granted, dma_mem_req
  <2>2. ASSUME granted(ready), ~Head1.cmd.write PROVE InFlight(fifo'[RdPtr])
    <3>1. ~returns(RdPtr)
      BY <1>1, <2>1, <2>2, ReturnIsOwn DEF Head1, InFlight, DmaInv, DebugInv
    <3> QED  BY <1>1, <2>2, <3>1, FlightGoesOn DEF DmaInv, DebugInv
  <2> QED  BY <2>1, <2>2 DEF Head1
<1> HIDE DEF read, toLsu, toIfu
<1>5. /\ lsu'[1] = toLsu /\ lsu'[2] = lsu[1] /\ lsu'[3] = lsu[2]
      /\ ifu'[1] = toIfu /\ ifu'[2] = ifu[1]
  BY <1>3
<1>6. ASSUME NEW i \in Index, fifo[i].valid, fifo'[i].valid,
             InFlight(fifo[i]) \/ (i = RdPtr /\ granted(ready) /\ ~Head1.cmd.write)
      PROVE  fifo'[i].cmd = fifo[i].cmd
  <2>1. ~fifo[i].done /\ fifo[i].error = "none" /\ ~fifo[i].cmd.write
    BY <1>6 DEF InFlight, granted, dma_mem_req, Head1
  <2>2. ~fifo_reset(bus, sent, i)
    BY <1>6, <2>1, UnansweredStays DEF DmaInv, DebugInv
  <2> QED  BY <1>6, <2>2, EntryOrder
<1>7. toLsu \cup toIfu \subseteq {fifo'[RdPtr].cmd.addr}
  <2>1. CASE toLsu \cup toIfu # {}
    <3>1. fifo'[RdPtr].valid
      BY <1>4, <2>1 DEF InFlight
    <3>2. granted(ready) /\ ~Head1.cmd.write
      BY <2>1 DEF toLsu, toIfu, read
    <3> QED  BY <1>1, <1>4, <1>6, <2>1, <3>1, <3>2
  <2> QED  BY <2>1
<1>8. ASSUME NEW i \in Index, NEW S, S # {}, S \subseteq {fifo[i].cmd.addr}, InFlight(fifo[i])
      PROVE  S \subseteq {fifo'[i].cmd.addr}
  <2>1. ~fifo_reset(bus, sent, i)
    BY <1>8, UnansweredStays DEF InFlight, DmaInv, DebugInv
  <2>2. fifo'[i].cmd = fifo[i].cmd
    BY <1>8, <2>1, EntryOrder DEF InFlight
  <2> QED  BY <1>8, <2>2
<1>9. lsu[1] \cup ifu[1] \subseteq {fifo'[RdPtr_Q1].cmd.addr}
  <2>1. lsu[1] \cup ifu[1] # {} => InFlight(fifo[RdPtr_Q1])
    BY DEF DmaInv, DebugInv, ReadsHaveEntries, Read1
  <2> QED  BY <1>1, <1>8, <2>1 DEF DmaInv, ReadsAreOwn
<1>10. lsu[2] \subseteq {fifo'[RdPtr_Q2].cmd.addr}
  <2>1. lsu[2] # {} => InFlight(fifo[RdPtr_Q2])
    BY DEF DmaInv, DebugInv, ReadsHaveEntries, Read2
  <2>2. lsu[2] \subseteq {fifo[RdPtr_Q2].cmd.addr}
    BY DEF DmaInv, ReadsAreOwn
  <2> QED  BY <1>1, <1>8, <2>1, <2>2
<1> QED  BY <1>2, <1>5, <1>7, <1>9, <1>10 DEF ReadsAreOwn

LEMMA CommandStep ==
    ASSUME DmaInv, DbgStep
    PROVE  DebuggerHasCommand'
<1>1. dbg \in DbgStates
  BY DEF DmaInv, FifoInv, DmaTypes
<1>2. CASE dbg.state = "idle"
  BY <1>2 DEF DbgStep, DebuggerHasCommand, NoDbg
<1>3. CASE dbg.state = "start"
  <2>1. dbg' = [dbg EXCEPT !.state = "wait"] \/ dbg' = dbg
    BY <1>3 DEF DbgStep
  <2>2. dbg'.cmd = dbg.cmd
    BY <1>1, <2>1 DEF DbgStates
  <2> QED  BY <1>3, <2>2 DEF DmaInv, DebuggerHasCommand
<1>4. CASE dbg.state = "wait"
  <2>1. dbg' = NoDbg \/ dbg' = dbg
    BY <1>4 DEF DbgStep
  <2> QED  BY <1>4, <2>1 DEF DmaInv, DebuggerHasCommand, NoDbg
<1> QED  BY <1>1, <1>2, <1>3, <1>4 DEF DbgStates

(* A clock in terms of the ring: "a" commands leave, "b" enter and "d" are *)
(* given to a memory or refused.  An entry that stays keeps its slot.      *)
LEMMA ClockOfRing ==
    ASSUME DmaInv, NEW bus \in BOOLEAN, NEW sent \in SentInputs(bus),
           NEW ready \in ReadyInputs, NEW ecc \in EccInputs, FifoStep(bus, sent, ready, ecc),
           PointerStep(bus, sent, ready),
           NEW n \in 0 .. DEPTH, NEW k \in 0 .. n, InOrder(n, k),
           NEW a \in {0, 1}, NEW b \in {0, 1}, NEW d \in {0, 1},
           a = 1 <=> Leaves(bus, sent), b = 1 <=> Enters(bus), d = 1 <=> Advancing(ready)
    PROVE  /\ n - a + b \in 0 .. DEPTH /\ k - a + d \in 0 .. n - a + b
           /\ a = 1 => n >= 1
           /\ k + d <= n
           /\ d = 1 => RdPtr = Place(RspPtr, k + 1)
           /\ InOrder(n - a + b, k - a + d)'
           /\ \A m \in a + 1 .. n :
                 LET i == Place(RspPtr, m)
                 IN  /\ i = Place(RspPtr', m - a)
                     /\ i \in Index /\ fifo[i].valid /\ ~fifo_reset(bus, sent, i)
           /\ b = 1 => fifo'[Place(RspPtr', n - a + b)] = NewEntry
<1>1. /\ WrPtr \in Index /\ RspPtr \in Index /\ RdPtr \in Index
      /\ sent \in BOOLEAN /\ ready \in BOOLEAN /\ DmaTypes /\ FifoInv /\ EntriesAreHonest
  BY DEF DmaInv, FifoInv, DmaTypes, DmaTypeOK, SentInputs, ReadyInputs
<1>2. /\ Occupied = RingFrom(RspPtr, n) /\ WrPtr = Wrap(RspPtr + n) /\ RdPtr = Wrap(RspPtr + k)
      /\ \A m \in 1 .. n : Given(fifo[Place(RspPtr, m)]) <=> m <= k
  BY DEF InOrder
<1>3. /\ \A m \in 1 .. n : Place(RspPtr, m) \in Occupied /\ Place(RspPtr, m) \in Index
      /\ \A l, m \in 1 .. n : Place(RspPtr, l) = Place(RspPtr, m) => l = m
      /\ \A i \in Occupied : i \in Index /\ \E m \in 1 .. n : i = Place(RspPtr, m)
  BY <1>1, <1>2, PlacesOfRing
<1>4. /\ Place(RspPtr, 1) = RspPtr
      /\ \A m \in 1 .. DEPTH - 1 : Place(Next1(RspPtr), m) = Place(RspPtr, m + 1)
      /\ \A m \in 1 .. DEPTH : Wrap(Next1(RspPtr) + (m - 1)) = Wrap(RspPtr + m)
      /\ \A m \in 0 .. DEPTH - 1 : Place(RspPtr, m + 1) = Wrap(RspPtr + m)
      /\ \A m \in 0 .. DEPTH - 1 : Next1(Wrap(RspPtr + m)) = Wrap(RspPtr + (m + 1))
  BY <1>1, PlacesMoveUp
<1>5. Enters(bus) => WrPtr \notin Occupied
  BY <1>1, RoomToEnter DEF Enters, NoOverflow, Occupied
<1>6. b = 1 => n < DEPTH
  BY <1>1, <1>2, <1>5, WholeRing
<1>7. Leaves(bus, sent) => n >= 1 /\ (k >= 1 \/ Advancing(ready))
  <2>1. ASSUME Leaves(bus, sent), k = 0
        PROVE  Advancing(ready)
    <3>1. RspPtr \in Occupied /\ (Given(fifo[RspPtr]) \/ (RspPtr = RdPtr => Advancing(ready)))
      BY <2>1, LeavingIsDone DEF Occupied
    <3>2. n >= 1
      BY <1>1, <1>3, <3>1
    <3>3. ~Given(fifo[RspPtr])
      BY <1>2, <1>4, <2>1, <3>2
    <3>4. RdPtr = RspPtr
      BY <1>1, <1>2, <2>1 DEF Wrap, Index
    <3> QED  BY <3>1, <3>3, <3>4
  <2>2. ASSUME Leaves(bus, sent) PROVE n >= 1
    <3>1. RspPtr \in Occupied
      BY <2>2, LeavingIsDone DEF Occupied
    <3> QED  BY <1>3, <3>1
  <2> QED  BY <2>1, <2>2
<1>8. ASSUME Advancing(ready) PROVE k < n /\ RdPtr = Place(RspPtr, k + 1)
  <2>1. RdPtr \in Occupied /\ ~Given(fifo[RdPtr])
    BY <1>1, <1>8, HeadWaits DEF Occupied, Head1
  <2>2. PICK m \in 1 .. n : RdPtr = Place(RspPtr, m)
    BY <1>3, <2>1
  <2>3. ~(m <= k)
    BY <1>2, <2>1, <2>2
  <2>4. k < n
    BY <2>3
  <2> QED  BY <1>2, <1>4, <2>4
<1>9. /\ n - a + b \in 0 .. DEPTH /\ k - a + d \in 0 .. n - a + b
      /\ k + d \in 0 .. n /\ n + b \in 0 .. DEPTH /\ (a = 1 => n >= 1 /\ k + d >= 1)
  BY <1>6, <1>7, <1>8
<1>10. /\ WrPtr' = IF b = 1 THEN Next1(WrPtr) ELSE WrPtr
       /\ RspPtr' = IF a = 1 THEN Next1(RspPtr) ELSE RspPtr
       /\ RdPtr' = IF d = 1 THEN Next1(RdPtr) ELSE RdPtr
  BY <1>1 DEF PointerStep, fifo_cmd_en, fifo_reset, Enters, Leaves, Advancing
<1>11. WrPtr' = Wrap(RspPtr + (n + b)) /\ RdPtr' = Wrap(RspPtr + (k + d))
  <2>1. b = 1 => Next1(WrPtr) = Wrap(RspPtr + (n + 1))
    BY <1>2, <1>4, <1>6
  <2>2. d = 1 => Next1(RdPtr) = Wrap(RspPtr + (k + 1))
    BY <1>2, <1>4, <1>8
  <2> QED  BY <1>2, <1>10, <2>1, <2>2
<1>12. WrPtr' = Wrap(RspPtr' + (n - a + b)) /\ RdPtr' = Wrap(RspPtr' + (k - a + d))
  <2>1. CASE a = 0
    BY <1>10, <1>11, <2>1
  <2>2. CASE a = 1
    <3>1. /\ n + b \in 1 .. DEPTH /\ k + d \in 1 .. DEPTH
          /\ n - a + b = (n + b) - 1 /\ k - a + d = (k + d) - 1
      BY <1>9, <2>2
    <3> QED  BY <1>4, <1>10, <1>11, <2>2, <3>1
  <2> QED  BY <2>1, <2>2
<1>13. \A m \in a + 1 .. n + b : Place(RspPtr, m) = Place(RspPtr', m - a)
  <2> SUFFICES ASSUME NEW m \in a + 1 .. n + b PROVE Place(RspPtr, m) = Place(RspPtr', m - a)
    OBVIOUS
  <2>1. CASE a = 0
    BY <1>10, <2>1
  <2>2. CASE a = 1
    <3>1. m - a \in 1 .. DEPTH - 1 /\ (m - a) + 1 = m
      BY <1>9, <2>2
    <3> QED  BY <1>4, <1>10, <2>2, <3>1
  <2> QED  BY <2>1, <2>2
<1>14. Occupied' = (Occupied \cup (IF b = 1 THEN {WrPtr} ELSE {}))
                     \ (IF a = 1 THEN {RspPtr} ELSE {})
  BY <1>1, FifoType DEF Occupied, fifo_cmd_en, fifo_reset, Enters, Leaves
<1>15. Occupied' = RingFrom(RspPtr', n - a + b)
  <2>1. Occupied \cup (IF b = 1 THEN {WrPtr} ELSE {}) = RingFrom(RspPtr, n + b)
    <3>1. CASE b = 1
      <4>1. n \in 0 .. DEPTH - 1
        BY <1>6, <3>1
      <4> QED  BY <1>1, <1>2, <3>1, <4>1, RingGrows
    <3> QED  BY <1>2, <3>1
  <2>2. CASE a = 1
    <3>1. n + b \in 1 .. DEPTH /\ (n + b) - 1 = n - a + b
      BY <1>9, <2>2
    <3>2. RingFrom(RspPtr, n + b) \ {RspPtr} = RingFrom(Next1(RspPtr), (n + b) - 1)
      BY <1>1, <3>1, RingShrinks
    <3> QED  BY <1>10, <1>14, <2>1, <2>2, <3>1, <3>2
  <2>3. CASE a = 0
    BY <1>10, <1>14, <2>1, <2>3
  <2> QED  BY <2>2, <2>3
<1>16. ASSUME NEW m \in a + 1 .. n
       PROVE  /\ Place(RspPtr, m) = Place(RspPtr', m - a)
              /\ Place(RspPtr, m) \in Index /\ fifo[Place(RspPtr, m)].valid
              /\ ~fifo_reset(bus, sent, Place(RspPtr, m))
  <2>1. m \in 1 .. n /\ m \in a + 1 .. n + b
    OBVIOUS
  <2>2. fifo_reset(bus, sent, Place(RspPtr, m)) => a = 1 /\ Place(RspPtr, m) = Place(RspPtr, 1)
    BY <1>4 DEF fifo_reset, Leaves
  <2>3. a = 1 => m # 1 /\ 1 \in 1 .. n
    OBVIOUS
  <2> QED  BY <1>3, <1>13, <2>1, <2>2, <2>3 DEF Occupied
<1>17. b = 1 => fifo'[Place(RspPtr', n - a + b)] = NewEntry
  <2> SUFFICES ASSUME b = 1 PROVE fifo'[Place(RspPtr', n - a + b)] = NewEntry
    OBVIOUS
  <2>1. n + 1 \in a + 1 .. n + b /\ (n + 1) - a = n - a + b /\ n \in 0 .. DEPTH - 1
    BY <1>6, <1>9
  <2>2. Place(RspPtr', n - a + b) = WrPtr
    BY <1>2, <1>4, <1>13, <2>1
  <2>3. ~fifo_reset(bus, sent, WrPtr) /\ fifo_cmd_en(bus, WrPtr)
    <3>1. fifo_reset(bus, sent, WrPtr) => Leaves(bus, sent) /\ WrPtr = RspPtr
      BY DEF fifo_reset, Leaves
    <3>2. Leaves(bus, sent) => RspPtr \in Occupied
      BY LeavingIsDone DEF Occupied
    <3> QED  BY <1>5, <3>1, <3>2 DEF fifo_cmd_en, Enters
  <2> QED  BY <1>1, <2>2, <2>3 DEF FifoStep
<1>18. ASSUME NEW m \in 1 .. n - a + b
       PROVE  Given(fifo'[Place(RspPtr', m)]) <=> m <= k - a + d
  <2>1. CASE m + a \in a + 1 .. n
    <3> DEFINE l == m + a
               i == Place(RspPtr, l)
    <3>1. l \in 1 .. n /\ l - a = m
      BY <2>1
    <3>2. i = Place(RspPtr', m) /\ i \in Index /\ fifo[i].valid /\ ~fifo_reset(bus, sent, i)
      BY <1>16, <2>1, <3>1
    <3>3. Given(fifo[i]) <=> l <= k
      BY <1>2, <3>1
    <3>4. (i = RdPtr /\ Advancing(ready)) <=> (d = 1 /\ l = k + 1)
      <4>1. d = 1 => k + 1 \in 1 .. n
        BY <1>9
      <4> QED  BY <1>3, <1>8, <3>1, <4>1
    <3> HIDE DEF i, l
    <3>5. Given(fifo'[i]) <=> Given(fifo[i]) \/ (i = RdPtr /\ Advancing(ready))
      BY <1>1, <3>2, EntryOrder
    <3>6. Given(fifo'[i]) <=> l <= k + d
      BY <3>1, <3>3, <3>4, <3>5
    <3> QED  BY <3>1, <3>2, <3>6 DEF l
  <2>2. CASE m + a = n + 1 /\ b = 1
    <3>1. m = n - a + b /\ ~(m <= k - a + d)
      BY <1>9, <2>2
    <3>2. ~Given(NewEntry)
      BY <2>2, NewEntryWaits DEF Enters
    <3> QED  BY <1>17, <2>2, <3>1, <3>2
  <2> QED  BY <2>1, <2>2
<1>19. InOrder(n - a + b, k - a + d)'
  BY <1>12, <1>15, <1>18 DEF InOrder
<1> QED  BY <1>8, <1>9, <1>16, <1>17, <1>19

(* The queue that the fifo stands for. *)
LEMMA QueueOfRing ==
    ASSUME NEW p \in Index, NEW n \in 0 .. DEPTH, NEW f,
           {i \in Index : f[i].valid} = RingFrom(p, n)
    PROVE  [m \in 1 .. Cardinality({i \in Index : f[i].valid}) |-> Item(f[(p + m - 1) % DEPTH])]
              = [m \in 1 .. n |-> Item(f[Place(p, m)])]
<1>1. Cardinality({i \in Index : f[i].valid}) = n
  BY SizeOfRing
<1>2. ASSUME NEW m \in 1 .. n PROVE (p + m - 1) % DEPTH = Place(p, m)
  <2>1. p + m - 1 \in 0 .. 2 * DEPTH - 1
    BY DEF Index
  <2> QED  BY <2>1, ModIsWrap DEF Place
<1> QED  BY <1>1, <1>2

LEMMA ItemsAreAQueue ==
    ASSUME NEW p, NEW n \in Nat, NEW f
    PROVE  Len([m \in 1 .. n |-> Item(f[Place(p, m)])]) = n
  OBVIOUS

LEMMA ServiceStep ==
    ASSUME DmaInv, (RspPtr \in Index)', NEW bus \in BOOLEAN, NEW sent \in SentInputs(bus),
           NEW ready \in ReadyInputs, NEW ecc \in EccInputs, FifoStep(bus, sent, ready, ecc),
           PointerStep(bus, sent, ready)
    PROVE  Service!Next
<1>1. PICK n \in 0 .. DEPTH : \E k \in 0 .. n : InOrder(n, k)
  BY DEF DmaInv, CommandsInOrder
<1>2. PICK k \in 0 .. n : InOrder(n, k)
  BY <1>1
<1>3. PICK a \in {0, 1}, b \in {0, 1}, d \in {0, 1} :
         /\ a = 1 <=> Leaves(bus, sent)
         /\ b = 1 <=> Enters(bus)
         /\ d = 1 <=> Advancing(ready)
  <2>1. \E x \in {0, 1} : x = 1 <=> Leaves(bus, sent)
    OBVIOUS
  <2>2. \E x \in {0, 1} : x = 1 <=> Enters(bus)
    OBVIOUS
  <2>3. \E x \in {0, 1} : x = 1 <=> Advancing(ready)
    OBVIOUS
  <2> QED  BY <2>1, <2>2, <2>3
<1>4. /\ n - a + b \in 0 .. DEPTH /\ k - a + d \in 0 .. n - a + b
      /\ a = 1 => n >= 1
      /\ k + d <= n
      /\ d = 1 => RdPtr = Place(RspPtr, k + 1)
      /\ InOrder(n - a + b, k - a + d)'
      /\ \A m \in a + 1 .. n :
            LET i == Place(RspPtr, m)
            IN  /\ i = Place(RspPtr', m - a)
                /\ i \in Index /\ fifo[i].valid /\ ~fifo_reset(bus, sent, i)
      /\ b = 1 => fifo'[Place(RspPtr', n - a + b)] = NewEntry
  BY <1>2, <1>3, ClockOfRing
<1> DEFINE q == [m \in 1 .. n |-> Item(fifo[Place(RspPtr, m)])]
           r == [m \in 1 .. n - a + b |-> Item(fifo'[Place(RspPtr', m)])]
<1>5. RspPtr \in Index /\ ready \in BOOLEAN
  BY DEF DmaInv, FifoInv, DmaTypes, DmaTypeOK, ReadyInputs
<1>6. Accepted = q
  BY <1>2, <1>5, QueueOfRing DEF Accepted, SlotAt, InOrder, Occupied
<1>7. Accepted' = r
  <2>1. {i \in Index : fifo'[i].valid} = RingFrom(RspPtr', n - a + b)
    BY <1>4 DEF InOrder, Occupied
  <2> QED  BY <1>4, <2>1, QueueOfRing DEF Accepted, SlotAt
<1>8. Len(q) = n /\ Len(r) = n - a + b
  BY <1>4, ItemsAreAQueue
<1>9. a = 1 => q # <<>> /\ Service!Answerable(Head(q))
  <2> SUFFICES ASSUME a = 1 PROVE q # <<>> /\ Service!Answerable(Head(q))
    OBVIOUS
  <2>1. n >= 1 /\ 1 \in 1 .. n
    BY <1>4
  <2>2. q[1] = Item(fifo[RspPtr])
    BY <1>5, <2>1, PlacesMoveUp
  <2>3. Service!Answerable(Item(fifo[RspPtr]))
    BY <1>3, LeavingIsDone
  <2>4. q # <<>> /\ Head(q) = q[1]
    BY <1>8, <2>1
  <2> QED  BY <2>2, <2>3, <2>4
<1>10. ASSUME NEW m \in a + 1 .. n
       PROVE  Service!Advances(m, r[m - a])
  <2> DEFINE i == Place(RspPtr, m)
             e == Item(fifo[i])
             f == Item(fifo'[i])
  <2>1. m \in 1 .. n /\ m - a \in 1 .. n - a + b
    BY <1>3
  <2>2. i = Place(RspPtr', m - a) /\ i \in Index /\ fifo[i].valid /\ ~fifo_reset(bus, sent, i)
    BY <1>4
  <2>3. q[m] = e /\ r[m - a] = f
    BY <2>1, <2>2
  <2>4. ItemStep(ready, i, e, f)
    BY <1>5, <2>2, EntryOrder
  <2>5. ASSUME i = RdPtr, Advancing(ready)
        PROVE  /\ q[m].state = "waiting"
               /\ \A l \in 1 .. m - 1 : q[l].state # "waiting"
    <3>1. \A l, j \in 1 .. n : Place(RspPtr, l) = Place(RspPtr, j) => l = j
      BY <1>5, PlacesOfRing
    <3>2. m = k + 1
      BY <1>3, <1>4, <2>1, <2>5, <3>1
    <3>3. \A l \in 1 .. n : Given(fifo[Place(RspPtr, l)]) <=> l <= k
      BY <1>2 DEF InOrder
    <3>4. \A l \in 1 .. n : q[l].state = "waiting" <=> ~(l <= k)
      BY <3>3, ItemFields DEF Given
    <3> QED  BY <2>1, <3>2, <3>4
  <2> HIDE DEF q, r, e, f, i
  <2>6. Service!First(m) <=> Accepted[m].state = "waiting" /\ \A l \in 1 .. m - 1 : Accepted[l].state # "waiting"
    BY DEF Service!First
  <2>7. i = RdPtr /\ Advancing(ready) => Service!First(m)
    BY <1>6, <2>5, <2>6
  <2>8. /\ f.cmd = e.cmd /\ f.dbg = e.dbg
        /\ \/ f = e
           \/ Service!First(m) /\ f = [e EXCEPT !.state = "issued"]
           \/ Service!First(m) /\ ImmediateResult(e.cmd, e.dbg) /\ Service!Completes(e, f)
           \/ e.state = "issued" /\ Service!Completes(e, f)
    <3>1. [e EXCEPT !.state = "issued"].cmd = e.cmd /\ [e EXCEPT !.state = "issued"].dbg = e.dbg
      BY DEF e, Item
    <3> QED  BY <2>4, <2>7, <3>1 DEF ItemStep
  <2> QED  BY <1>6, <2>3, <2>8 DEF Service!Advances
<1>11. b = 1 => LET new == r[n - a + b]
                IN  new.cmd \in Commands \cup DbgCommands /\ new.state = "waiting"
                    /\ new.res = <<"none", 0>>
  <2> SUFFICES ASSUME b = 1
               PROVE  /\ r[n - a + b].cmd \in Commands \cup DbgCommands
                      /\ r[n - a + b].state = "waiting" /\ r[n - a + b].res = <<"none", 0>>
    OBVIOUS
  <2>1. r[n - a + b] = Item(NewEntry)
    <3>1. n - a + b \in 1 .. n - a + b
      BY <1>3, <1>4
    <3> QED  BY <1>4, <3>1
  <2>2. Honest(NewEntry) /\ ~Given(NewEntry)
    BY <1>3, NewEntryWaits DEF Enters
  <2> QED  BY <2>1, <2>2, ItemFields DEF Honest, Given
<1> HIDE DEF q, r
<1> QED  BY <1>3, <1>4, <1>6, <1>7, <1>8, <1>9, <1>10, <1>11 DEF Service!Next, Service!NoResult

LEMMA OrderStep ==
    ASSUME DmaInv, NEW bus \in BOOLEAN, NEW sent \in SentInputs(bus),
           NEW ready \in ReadyInputs, NEW ecc \in EccInputs, FifoStep(bus, sent, ready, ecc),
           PointerStep(bus, sent, ready)
    PROVE  CommandsInOrder'
<1>1. PICK n \in 0 .. DEPTH : \E k \in 0 .. n : InOrder(n, k)
  BY DEF DmaInv, CommandsInOrder
<1>2. PICK k \in 0 .. n : InOrder(n, k)
  BY <1>1
<1>3. PICK a \in {0, 1}, b \in {0, 1}, d \in {0, 1} :
         /\ a = 1 <=> Leaves(bus, sent)
         /\ b = 1 <=> Enters(bus)
         /\ d = 1 <=> Advancing(ready)
  <2>1. \E x \in {0, 1} : x = 1 <=> Leaves(bus, sent)
    OBVIOUS
  <2>2. \E x \in {0, 1} : x = 1 <=> Enters(bus)
    OBVIOUS
  <2>3. \E x \in {0, 1} : x = 1 <=> Advancing(ready)
    OBVIOUS
  <2> QED  BY <2>1, <2>2, <2>3
<1>4. /\ n - a + b \in 0 .. DEPTH /\ k - a + d \in 0 .. n - a + b
      /\ InOrder(n - a + b, k - a + d)'
  BY <1>2, <1>3, ClockOfRing
<1> QED  BY <1>4 DEF CommandsInOrder

LEMMA DmaInvHolds == Spec => []DmaInv
<1> DEFINE OrderInv == EntriesAreHonest /\ ReadsAreOwn /\ DebuggerHasCommand /\ CommandsInOrder
<1>1. Init => OrderInv
  <2> SUFFICES ASSUME Init PROVE OrderInv
    OBVIOUS
  <2>1. \A i \in Index : ~fifo[i].valid /\ fifo[i].error = "none"
    BY DEF Init, NoEntry
  <2>2. lsu = <<{}, {}, {}>> /\ ifu = <<{}, {}>>
    BY DEF Init
  <2>3. ReadsAreOwn
    BY <2>2 DEF ReadsAreOwn
  <2>4. InOrder(0, 0)
    <3>1. 0 \in Index /\ RingFrom(0, 0) = {}
      BY WholeRing DEF Index
    <3>2. Occupied = {}
      BY <2>1 DEF Occupied
    <3>3. RspPtr = 0 /\ WrPtr = 0 /\ RdPtr = 0 /\ Wrap(0 + 0) = 0
      BY DEF Init, Wrap
    <3> QED  BY <3>1, <3>2, <3>3 DEF InOrder
  <2>5. CommandsInOrder
    BY <2>4 DEF CommandsInOrder
  <2>6. DebuggerHasCommand
    BY DEF Init, NoDbg, DebuggerHasCommand
  <2> QED  BY <2>1, <2>3, <2>5, <2>6 DEF EntriesAreHonest
<1>2. ASSUME FifoInv, DebugInv, OrderInv, [Next]_vars PROVE OrderInv'
  <2>1. CASE UNCHANGED vars
    <3>1. fifo' = fifo /\ dbg' = dbg /\ lsu' = lsu /\ ifu' = ifu /\ UNCHANGED ptrs
      BY <2>1 DEF vars
    <3> QED  BY <1>2, <3>1 DEF ptrs, EntriesAreHonest, ReadsAreOwn, DebuggerHasCommand,
                               CommandsInOrder, InOrder, Occupied
  <2>2. CASE Next
    <3>1. PICK bus \in BOOLEAN, ready \in ReadyInputs, ecc \in EccInputs :
            \E aw \in AwInputs(bus), w \in WInputs(bus), ar \in ArInputs(bus),
               sent \in SentInputs(bus), stall \in StallInputs(bus) :
                Clock(bus, aw, w, ar, sent, ready, ecc, stall)
      BY <2>2 DEF Next
    <3>2. PICK sent \in SentInputs(bus) :
             /\ FifoStep(bus, sent, ready, ecc) /\ PointerStep(bus, sent, ready)
             /\ MemoryStep(ready) /\ DbgStep
      BY <3>1 DEF Clock
    <3>3. ready \in BOOLEAN /\ DmaInv
      BY <1>2 DEF ReadyInputs, DmaInv
    <3>4. EntriesAreHonest'
      BY <3>2, <3>3, HonestStep
    <3>5. ReadsAreOwn'
      BY <3>2, <3>3, OwnStep
    <3>6. DebuggerHasCommand'
      BY <3>2, <3>3, CommandStep
    <3>7. CommandsInOrder'
      BY <3>2, <3>3, OrderStep
    <3> QED  BY <3>4, <3>5, <3>6, <3>7
  <2> QED  BY <1>2, <2>1, <2>2
<1>3. FifoInv /\ DebugInv /\ OrderInv => DmaInv
  BY DEF DmaInv
<1> HIDE DEF OrderInv
<1> QED  BY <1>1, <1>2, <1>3, InvSound, PTL DEF Spec

(* The DMA controller implements the queue of commands: whatever the       *)
(* masters, the memories and the debugger do, commands are performed and   *)
(* answered in the order in which they came, each once, with its own       *)
(* result.                                                                 *)
THEOREM CommandsServedInOrder == Spec => ServedInOrder
<1>1. Init => Service!Init
  <2> SUFFICES ASSUME Init PROVE Accepted = <<>>
    BY DEF Service!Init
  <2>1. {i \in Index : fifo[i].valid} = {}
    BY DEF Init, NoEntry
  <2>2. Cardinality({i \in Index : fifo[i].valid}) = 0
    BY <2>1, FS_EmptySet, Zenon
  <2>3. Accepted = [n \in 1 .. 0 |-> Item(SlotAt(n))]
    BY <2>2 DEF Accepted
  <2> QED  BY <2>3
<1>2. ASSUME DmaInv, DmaInv', [Next]_vars PROVE [Service!Next]_Accepted
  <2>1. CASE UNCHANGED vars
    <3>1. fifo' = fifo /\ RspPtr' = RspPtr
      BY <2>1 DEF vars, ptrs
    <3> QED  BY <3>1 DEF Accepted, SlotAt
  <2>2. CASE Next
    <3>1. PICK bus \in BOOLEAN, ready \in ReadyInputs, ecc \in EccInputs :
            \E aw \in AwInputs(bus), w \in WInputs(bus), ar \in ArInputs(bus),
               sent \in SentInputs(bus), stall \in StallInputs(bus) :
                Clock(bus, aw, w, ar, sent, ready, ecc, stall)
      BY <2>2 DEF Next
    <3>2. PICK sent \in SentInputs(bus) :
             FifoStep(bus, sent, ready, ecc) /\ PointerStep(bus, sent, ready)
      BY <3>1 DEF Clock
    <3>3. (RspPtr \in Index)'
      BY <1>2 DEF DmaInv, FifoInv, DmaTypes, DmaTypeOK
    <3> QED  BY <1>2, <3>2, <3>3, ServiceStep
  <2> QED  BY <1>2, <2>1, <2>2
<1> QED  BY <1>1, <1>2, DmaInvHolds, PTL DEF Spec, ServedInOrder, Service!Spec
=============================================================================
