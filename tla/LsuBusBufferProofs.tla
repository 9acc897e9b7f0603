-------------------------- MODULE LsuBusBufferProofs --------------------------
(***************************************************************************)
(* Proofs about LsuBusBuffer, for every number of entries from three up,   *)
(* every set of double words and bytes and every setting.                  *)
(*                                                                         *)
(* The inductive invariant BusIInv has one part per concern, and a step    *)
(* keeps a part by a lemma of its own (TypesKept, TagsKept, ...):          *)
(*   Types       the form of the registers                                 *)
(*   TagsInv     who holds a tag, and that there are enough of them        *)
(*   FreezeInv   where the load is that froze the pipe                     *)
(*   HeldInv     what the buffers hold of it while the pipe waits          *)
(*   PipeInv     which accesses of the pipe are still to enter the buffers *)
(*   CmdInv      where the command of each entry is                        *)
(*   OrderInv    the age vectors as the program order of what is not sent  *)
(*   ContentInv  the bytes that stores hold                                *)
(*   DataInv     the memory, what is to be written to it and what is read  *)
(*   FwdInv      what a load took from older stores                        *)
(*   ReturnInv   the two halves of a load, and who has its answer          *)
(* A step is one clock with all that its environment decides in a record   *)
(* "x" (Clock, NextIsClock).                                               *)
(***************************************************************************)
EXTENDS LsuBusBuffer, FiniteSetTheorems, WellFoundedInduction, TLAPS
-----------------------------------------------------------------------------
(* The invariant *)

(* A record has its fields; the bytes of a store are in ContentInv, those  *)
(* of a load in DataInv and FwdInv.                                        *)
Dc3Of(s) == s \in [op : Pkt, busreq : BOOLEAN, nbfreeze : BOOLEAN, fwd : {s.fwd}, cancelled : BOOLEAN]
StageOf(s) == s \in [op : Pkt, valid : BOOLEAN, busreq : BOOLEAN, nb : BOOLEAN, p0 : Tag, p1 : Tag,
                     fwd : {s.fwd}, cancelled : BOOLEAN]
IbufOf(e) == e \in [valid : BOOLEAN, tag : Tag, dualtag : Tag, dual : BOOLEAN, nb : BOOLEAN,
                    write : BOOLEAN, nomerge : BOOLEAN, dw : DWS, bytes : SUBSET ({e.dw} \X Byte),
                    data : {e.data}, timer : Nat]
EntryOf(e) == e \in [state : {"IDLE", "WAIT", "CMD", "RESP", "DONE"}, write : BOOLEAN, dual : BOOLEAN,
                     dualhi : BOOLEAN, dualtag : Tag, nb : BOOLEAN, nomerge : BOOLEAN, dw : DWS,
                     bytes : SUBSET ({e.dw} \X Byte), data : {e.data}, error : BOOLEAN]
ObufOf(o) == o \in [valid : BOOLEAN, write : BOOLEAN, dw : DWS, tag : Tag, bytes : SUBSET Bytes,
                    data : {o.data}, cmd_done : BOOLEAN, data_done : BOOLEAN, wren : BOOLEAN]
External(op) == op \in Ops /\ op.bytes # {}
Types ==
    /\ setting \in Settings
    /\ dc1 \in Pkt /\ dc2 \in Pkt /\ Dc3Of(dc3) /\ StageOf(dc4) /\ StageOf(dc5)
    /\ dc3.busreq => External(dc3.op)
    /\ dc4.busreq => External(dc4.op)
    /\ dc5.busreq => External(dc5.op)
    /\ ld_freeze \in BOOLEAN /\ FreezePtr \in Tag /\ clk_q \in BOOLEAN
    /\ IbufOf(ibuf) /\ ibuf.timer <= TIMER_MAX
    /\ buf = [i \in Tag |-> buf[i]] /\ \A i \in Tag : EntryOf(buf[i])
    /\ ageQ \in [Tag -> SUBSET Tag]
    /\ ObufOf(obuf) /\ obuf_timer \in 0 .. TIMER_MAX
    /\ \A r \in rrsp \cup brsp : r.err \in BOOLEAN
    /\ want = [t \in Tag |-> want[t]]
    /\ arch \in [Bytes -> Values] /\ mem = [b \in Bytes |-> mem[b]]

(* No tag is held twice, and the accesses in front of dc4 that may need    *)
(* tags, as the stall at decode counts them, find them free.               *)
Busy == {i \in Tag : buf[i].state # "IDLE"}
Held == Busy \cup IbufTag \cup Reserved(dc4) \cup Reserved(dc5)
TagsInv ==
    /\ Busy \cap IbufTag = {}
    /\ (Busy \cup IbufTag) \cap (Reserved(dc4) \cup Reserved(dc5)) = {}
    /\ Reserved(dc4) \cap Reserved(dc5) = {}
    /\ dc4.busreq /\ Dual(dc4.op) => dc4.p0 # dc4.p1
    /\ dc5.busreq /\ Dual(dc5.op) => dc5.p0 # dc5.p1
    /\ Slots(dc1) + BusSlots(dc2.bytes # {}, dc2) + BusSlots(dc3.busreq, dc3.op) + Cardinality(Held) <= DEPTH

(* The load of a freeze is in dc3, in dc4 or in dc5, the stages behind it  *)
(* empty, or it is in the buffers with its halves, which are still to read *)
(* what the memory is for the processor now.  A store that needs the bus   *)
(* keeps its request; a load without its freeze is one that a flush is     *)
(* about to drop, or has been cancelled.  A mispredict ends the freeze     *)
(* before the load leaves dc3, and is still there in the clock after it.   *)
Idle(stage) == ~stage.valid /\ ~stage.busreq
FreezingLoad(stage) == stage.busreq /\ ~stage.valid /\ stage.op = dc3.op /\ stage.p0 = FreezePtr
InBuffers(t, bytes) ==
    \/ t \in IbufTag /\ ~ibuf.write /\ ibuf.bytes = bytes
    \/ t \in Busy /\ ~buf[t].write /\ buf[t].bytes = bytes
LoadIsHeld ==
    IF Dual(dc3.op)
    THEN /\ FreezePtr \in Busy /\ buf[FreezePtr].dual
         /\ InBuffers(FreezePtr, BytesIn(dc3.op, Lo(dc3.op)))
         /\ InBuffers(buf[FreezePtr].dualtag, BytesIn(dc3.op, Hi(dc3.op)))
         /\ want[FreezePtr] = [b \in BytesIn(dc3.op, Lo(dc3.op)) |-> arch[b]]
         /\ want[buf[FreezePtr].dualtag] = [b \in BytesIn(dc3.op, Hi(dc3.op)) |-> arch[b]]
    ELSE /\ InBuffers(FreezePtr, dc3.op.bytes)
         /\ FreezePtr \in Busy => ~buf[FreezePtr].dual
         /\ FreezePtr \in IbufTag => ~ibuf.dual
         /\ want[FreezePtr] = [b \in dc3.op.bytes |-> arch[b]]
FreezeInv ==
    /\ flush_e3 \in FlushRegister
    /\ ld_freeze =>
        /\ External(dc3.op) /\ dc3.op.kind = "load" /\ dc3.fwd = None
        /\ ~dc3.busreq => flush_e3 \in {"none", "upper"}
        /\ \/ dc3.busreq
           \/ ~dc3.busreq /\ FreezingLoad(dc4)
           \/ ~dc3.busreq /\ Idle(dc4) /\ FreezingLoad(dc5)
           \/ ~dc3.busreq /\ Idle(dc4) /\ Idle(dc5)
        /\ dc3.busreq => (dc4.busreq => dc4.valid) /\ (dc5.busreq => dc5.valid)
        /\ dc4.busreq /\ ~dc4.valid => (dc5.busreq => dc5.valid)
        /\ dc5.busreq /\ ~dc5.valid => FreezingLoad(dc5) /\ Idle(dc4) /\ ~dc3.busreq
HeldInv == ld_freeze /\ ~dc3.busreq /\ Idle(dc4) /\ Idle(dc5) => LoadIsHeld
PipeInv ==
    /\ External(dc3.op) /\ dc3.op.kind = "store" => dc3.busreq
    /\ \A s \in {dc4, dc5} : s.valid /\ External(s.op) /\ s.op.kind = "store" => s.busreq
    /\ \A s \in {dc4, dc5} : s.valid => s.op \in Ops
    /\ \A s \in {dc4, dc5} : s.nb => s.op.kind = "load"
    /\ dc4.busreq /\ ~dc4.valid /\ ~ld_freeze =>
          (dc1 = NoOp /\ dc2 = NoOp /\ dc3.op = NoOp) \/ flush_e3 = "e3"
    /\ dc5.busreq /\ ~dc5.valid /\ ~ld_freeze => (dc2 = NoOp /\ dc3.op = NoOp) \/ dc3.cancelled
    /\ dc3.cancelled => dc3.op.kind = "load" /\ ~dc3.busreq /\ Idle(dc4)

(* An entry's command is the entry's: in obuf until it is accepted, with   *)
(* the slave, or answered; and nothing is sent behind an access to the     *)
(* same double word, or with side effects, that is not answered.           *)
Resp == {i \in Tag : buf[i].state = "RESP"}
CmdInv ==
    /\ ~obuf.valid => obuf = NoObuf
    /\ obuf.valid =>
          /\ buf[obuf.tag].state = IF obuf.wren THEN "CMD" ELSE "RESP"
          /\ obuf.write = buf[obuf.tag].write /\ obuf.dw = buf[obuf.tag].dw
          /\ obuf.bytes = buf[obuf.tag].bytes /\ obuf.data = buf[obuf.tag].data
          /\ ~(obuf.cmd_done /\ obuf.data_done)
    /\ \A o \in outstanding :
          /\ o.tag \in Resp
          /\ o = [tag |-> o.tag, write |-> buf[o.tag].write, dw |-> buf[o.tag].dw,
                  bytes |-> buf[o.tag].bytes, data |-> buf[o.tag].data]
    /\ \A r \in rrsp : r.tag \in Resp /\ ~buf[r.tag].write
    /\ \A r \in brsp : r.tag \in Resp /\ buf[r.tag].write
    /\ \A r, s \in rrsp : r = s
    /\ \A r, s \in brsp : r = s
    /\ InObuf \cap InBus = {} /\ InObuf \cap InRsp = {} /\ InBus \cap InRsp = {}
    /\ Resp \subseteq InObuf \cup InBus \cup InRsp
    /\ OneAccessPerDoubleWord
    /\ PostedDisable /\ obuf.valid => \A i \in Resp \ {obuf.tag} : ~SideEffect(buf[i].dw)

(* The tags the slave has not performed, those that are sent in front, ibuf *)
(* behind all of them; an age vector is what is pending in front of a tag. *)
Front == InObuf \cup InBus
OrderInv ==
    /\ older = [i \in DOMAIN older |-> older[i]]
    /\ DOMAIN older = Pending \cup IbufTag \cup Front
    /\ \A i \in DOMAIN older : i \notin older[i] /\ older[i] \subseteq DOMAIN older
    /\ \A i, j \in DOMAIN older : i # j => (i \in older[j] <=> j \notin older[i])
    /\ \A i \in Tag : buf_age(i) = IF i \in Pending THEN older[i] \cap Pending ELSE {}
    /\ \A i \in Pending \cup IbufTag : Front \subseteq older[i]
    /\ obuf.valid => InBus \subseteq older[obuf.tag]
    /\ \A i \in IbufTag : older[i] = DOMAIN older \ {i}

(* Behind the stores not performed the memory is what the processor takes  *)
(* it for, and behind those in front of a load what the load must return.  *)
Writes(i, b) == IF i \in IbufTag THEN ibuf.write /\ b \in ibuf.bytes ELSE buf[i].write /\ b \in buf[i].bytes
Reads(i, b) == IF i \in IbufTag THEN ~ibuf.write /\ b \in ibuf.bytes ELSE ~buf[i].write /\ b \in buf[i].bytes
DataOf(i) == IF i \in IbufTag THEN ibuf.data ELSE buf[i].data
BytesOf(i) == IF i \in IbufTag THEN ibuf.bytes ELSE buf[i].bytes
IsRead(i) == IF i \in IbufTag THEN ~ibuf.write ELSE ~buf[i].write
Finds(b, S, m, v) ==   \* what is read behind the accesses of S when the memory is m
    \/ (\A j \in S : ~Writes(j, b)) /\ v = m[b]
    \/ \E j \in S : /\ Writes(j, b) /\ v = DataOf(j)[b]
                    /\ \A k \in S \ {j} : Writes(k, b) => k \in older[j]
StageFwd(b) == IF StageHit(dc5.op, dc5.valid, b) THEN dc5.op.val ELSE arch[b]
StageFwd2(b) == IF StageHit(dc4.op, dc4.valid, b) THEN dc4.op.val ELSE StageFwd(b)
ContentInv ==
    /\ ibuf.write => ibuf.data \in [ibuf.bytes -> Values]
    /\ \A i \in Tag : buf[i].write => buf[i].data \in [buf[i].bytes -> Values]
    /\ \A i \in Tag : i \notin ageQ[i]
    /\ mem \in [Bytes -> Values]
DataInv ==
    /\ \A b \in Bytes : Finds(b, DOMAIN older, mem, arch[b])
    /\ \A i \in DOMAIN older : IsRead(i) =>
          /\ want[i] = [b \in BytesOf(i) |-> want[i][b]]
          /\ \A b \in BytesOf(i) : Finds(b, older[i], mem, want[i][b])
    /\ \A r \in rrsp : r.data = want[r.tag]
    /\ \A i \in Tag : buf[i].state = "DONE" /\ ~buf[i].write => buf[i].data = want[i]
FwdInv ==
    /\ dc3.fwd # None => External(dc3.op) /\ dc3.op.kind = "load" /\ ~dc3.busreq
                         /\ dc3.fwd = [b \in dc3.op.bytes |-> StageFwd2(b)]
    /\ dc4.fwd # None => dc4.valid /\ External(dc4.op) /\ dc4.op.kind = "load"
                         /\ dc4.fwd = [b \in dc4.op.bytes |-> StageFwd(b)]
    /\ dc5.fwd # None => dc5.valid /\ External(dc5.op) /\ dc5.op.kind = "load"
                         /\ dc5.fwd = [b \in dc5.op.bytes |-> arch[b]]

(* The halves of a load name each other, and what is complete is freed at  *)
(* the next clock, so that never two accesses are.                         *)
HalfOf(p, i, nb, hi) ==   \* p holds the other half of i
    \/ p \in IbufTag /\ ibuf.dual /\ ~ibuf.write /\ ibuf.dualtag = i /\ ibuf.nb = nb /\ hi = FALSE
    \/ p \in Busy /\ buf[p].dual /\ ~buf[p].write /\ buf[p].dualtag = i /\ buf[p].nb = nb /\ buf[p].dualhi # hi
Complete(i) == buf[i].state = "DONE" /\ (buf[i].write \/ ~buf[i].dual \/ buf[buf[i].dualtag].state = "DONE")
ReturnInv ==
    /\ \A i \in Busy : buf[i].nb => ~buf[i].write
    /\ \A i \in Busy : ~buf[i].dual => ~buf[i].dualhi
    /\ ibuf.nb => ~ibuf.write
    /\ \A i \in Busy : ~buf[i].write /\ buf[i].dual => HalfOf(buf[i].dualtag, i, buf[i].nb, buf[i].dualhi)
    /\ \A i \in IbufTag : ~ibuf.write /\ ibuf.dual => HalfOf(ibuf.dualtag, i, ibuf.nb, TRUE)
    /\ \A i \in Tag : Complete(i) => clk_q
    /\ \A i, j \in Tag : Complete(i) /\ Complete(j) /\ ~buf[i].write /\ ~buf[j].write =>
          i = j \/ (buf[i].dual /\ buf[i].dualtag = j)
    /\ \A i, j \in Tag : Complete(i) /\ Complete(j) /\ buf[i].write /\ buf[j].write => i = j

-----------------------------------------------------------------------------
(* One clock, with all that its environment decides in "x". *)
Performed(x) == {o.tag : o \in x.reads \cup x.writes}
Clock(x) ==
    /\ x.f \in Flushes /\ x.op \in Pkt /\ x.clk \in BOOLEAN /\ x.err \in BOOLEAN
    /\ x.nbfreeze \in NbFreezes /\ x.cancel \in Cancels(x.f)
    /\ x.ready \in ReadyInputs(x.clk)
    /\ x.reads \in AnswerInputs(x.clk, FALSE) /\ x.writes \in AnswerInputs(x.clk, TRUE)
    /\ CoreSide(x.f, x.op, x.nbfreeze, x.cancel, x.clk)
    /\ ObufStep(x.f, x.clk, x.ready)
    /\ GhostStep(x.f, Performed(x))
    /\ SlaveStep(x.clk, x.ready, x.reads, x.writes, x.err)

LEMMA SettingIs ==
    ASSUME setting \in Settings
    PROVE  /\ TIMER_MAX \in Nat /\ SideEffectDws \subseteq DWS
           /\ Coalescing \in BOOLEAN /\ PostedDisable \in BOOLEAN /\ DmaDisable \in BOOLEAN
           /\ NbFreeze \subseteq BOOLEAN /\ BusClocks \subseteq BOOLEAN
           /\ Levels \subseteq FlushLevel /\ Errors \subseteq BOOLEAN
           /\ \A op \in Ops : WellFormed(op, SideEffectDws)
  BY BusAssumption DEF TIMER_MAX, SideEffectDws, Coalescing, PostedDisable, DmaDisable, NbFreeze,
     BusClocks, Levels, Errors, Ops

LEMMA NextIsClock ==
    ASSUME setting \in Settings, Next
    PROVE  \E x : Clock(x)
<1>1. PICK clk \in BusClocks : Step(clk, ReadyInputs(clk), AnswerInputs(clk, FALSE), AnswerInputs(clk, TRUE))
  BY DEF Next
<1>2a. PICK f \in Flushes, op \in Pkt :
        \E nbfreeze \in NbFreezes, cancel \in Cancels(f) :
            /\ CoreSide(f, op, nbfreeze, cancel, clk)
            /\ \E r \in ReadyInputs(clk) :
                  /\ ObufStep(f, clk, r)
                  /\ \E rs \in AnswerInputs(clk, FALSE), ws \in AnswerInputs(clk, TRUE) :
                        /\ GhostStep(f, {o.tag : o \in rs \cup ws})
                        /\ \E err \in IF rs \cup ws = {} THEN {FALSE} ELSE Errors :
                              SlaveStep(clk, r, rs, ws, err)
  BY <1>1 DEF Step
<1>2. PICK nbfreeze \in NbFreezes, cancel \in Cancels(f) :
            /\ CoreSide(f, op, nbfreeze, cancel, clk)
            /\ \E r \in ReadyInputs(clk) :
                  /\ ObufStep(f, clk, r)
                  /\ \E rs \in AnswerInputs(clk, FALSE), ws \in AnswerInputs(clk, TRUE) :
                        /\ GhostStep(f, {o.tag : o \in rs \cup ws})
                        /\ \E err \in IF rs \cup ws = {} THEN {FALSE} ELSE Errors :
                              SlaveStep(clk, r, rs, ws, err)
  BY <1>2a
<1>3. PICK r \in ReadyInputs(clk) :
              /\ ObufStep(f, clk, r)
              /\ \E rs \in AnswerInputs(clk, FALSE), ws \in AnswerInputs(clk, TRUE) :
                    /\ GhostStep(f, {o.tag : o \in rs \cup ws})
                    /\ \E err \in IF rs \cup ws = {} THEN {FALSE} ELSE Errors :
                          SlaveStep(clk, r, rs, ws, err)
  BY <1>2
<1>4. PICK rs \in AnswerInputs(clk, FALSE), ws \in AnswerInputs(clk, TRUE) :
                    /\ GhostStep(f, {o.tag : o \in rs \cup ws})
                    /\ \E err \in IF rs \cup ws = {} THEN {FALSE} ELSE Errors :
                          SlaveStep(clk, r, rs, ws, err)
  BY <1>3
<1>5. PICK err \in IF rs \cup ws = {} THEN {FALSE} ELSE Errors : SlaveStep(clk, r, rs, ws, err)
  BY <1>4
<1>6. clk \in BOOLEAN /\ err \in BOOLEAN
  BY <1>1, <1>5, SettingIs
<1> DEFINE x == [f |-> f, op |-> op, clk |-> clk, err |-> err, nbfreeze |-> nbfreeze, cancel |-> cancel,
                 ready |-> r, reads |-> rs, writes |-> ws]
<1>7. /\ x.f = f /\ x.op = op /\ x.clk = clk /\ x.err = err /\ x.nbfreeze = nbfreeze
      /\ x.cancel = cancel /\ x.ready = r /\ x.reads = rs /\ x.writes = ws
  OBVIOUS
<1> HIDE DEF x
<1>8. Performed(x) = {o.tag : o \in rs \cup ws}
  BY <1>7 DEF Performed
<1>9. Clock(x)
  BY <1>2, <1>3, <1>4, <1>5, <1>6, <1>7, <1>8 DEF Clock
<1> QED  BY <1>9

LEMMA Least ==
    ASSUME NEW S \in SUBSET Nat, S # {}
    PROVE  \E m \in S : \A k \in S : m <= k
<1>1. IsWellFoundedOn(OpToRel(<,Nat), Nat)
  BY NatLessThanWellFounded
<1>2. PICK m \in S : \A k \in S : <<k, m>> \notin OpToRel(<, Nat)
  BY <1>1, WFMin
<1>3. \A k \in S : k \in Nat /\ m \in Nat /\ ~(k < m)
  BY <1>2 DEF OpToRel
<1> QED  BY <1>3

LEMMA TagIs == DEPTH \in Nat /\ DEPTH >= 3 /\ Tag \subseteq Nat /\ 0 \in Tag /\ DEPTH - 1 \in Tag
               /\ IsFiniteSet(Tag) /\ Cardinality(Tag) = DEPTH
<1>1. DEPTH \in Nat /\ DEPTH >= 3
  BY BusAssumption
<1>2. IsFiniteSet(Tag) /\ Cardinality(Tag) = DEPTH
  BY <1>1, FS_Interval DEF Tag
<1> QED  BY <1>1, <1>2 DEF Tag

LEMMA FirstIs ==
    ASSUME NEW S, S \subseteq Tag
    PROVE  First(S) \in Tag /\ (S # {} => First(S) \in S)
<1>1. CASE S = {}
  BY <1>1, TagIs DEF First
<1>2. CASE S # {}
  <2>1. PICK m \in S : \A k \in S : m <= k
    BY <1>2, TagIs, Least
  <2> QED  BY <1>2, <2>1 DEF First
<1> QED  BY <1>1, <1>2

LEMMA PairIs ==
    ASSUME NEW a, NEW b, a # b
    PROVE  IsFiniteSet({a, b}) /\ Cardinality({a, b}) = 2
<1> DEFINE S == {a}
<1>1. IsFiniteSet(S) /\ Cardinality(S) = 1
  BY FS_Singleton
<1>2. b \notin S /\ {a, b} = S \cup {b}
  OBVIOUS
<1> HIDE DEF S
<1>3. IsFiniteSet(S \cup {b}) /\ Cardinality(S \cup {b}) = Cardinality(S) + 1
  BY <1>1, <1>2, FS_AddElement
<1> QED  BY <1>1, <1>2, <1>3

(* The shape of an access. *)
LEMMA OpIs ==
    ASSUME setting \in Settings, NEW op \in Ops
    PROVE  /\ op.kind \in {"load", "store"} /\ op.bytes \in SUBSET Bytes /\ op.val \in Values
           /\ op # NoOp /\ Valid(op) /\ Slots(op) = IF Dual(op) THEN 2 ELSE 1
           /\ op.bytes # {} =>
                 /\ Lo(op) \in DWS /\ Hi(op) \in DWS /\ DwsOf(op) = {Lo(op), Hi(op)}
                 /\ Dual(op) <=> Lo(op) # Hi(op)
                 /\ Dual(op) => ~SideEffect(Lo(op)) /\ ~SideEffect(Hi(op))
           /\ op.bytes = {} => ~Dual(op)
<1>1. WellFormed(op, SideEffectDws)
  BY SettingIs
<1>2. op.kind \in {"load", "store"} /\ op.bytes \in SUBSET Bytes /\ op.val \in Values
  BY <1>1 DEF WellFormed
<1>3. op # NoOp /\ Valid(op) /\ Slots(op) = IF Dual(op) THEN 2 ELSE 1
  BY <1>2 DEF NoOp, Valid, Slots
<1>4. ASSUME op.bytes # {}
      PROVE  /\ Lo(op) \in DWS /\ Hi(op) \in DWS /\ DwsOf(op) = {Lo(op), Hi(op)}
             /\ Dual(op) <=> Lo(op) # Hi(op)
             /\ Dual(op) => ~SideEffect(Lo(op)) /\ ~SideEffect(Hi(op))
  <2>1. PICK d \in DWS : DwsOf(op) \in {{d}, {d, d + 1}}
    BY <1>1, <1>4 DEF WellFormed
  <2>2. DwsOf(op) \subseteq DWS /\ d \in Nat /\ DWS \subseteq Nat
    BY <1>2, BusAssumption DEF DwsOf, Bytes
  <2>3. CASE DwsOf(op) = {d}
    <3>1. Lo(op) = d /\ Hi(op) = d
      BY <2>2, <2>3 DEF Lo, Hi
    <3>2. Cardinality(DwsOf(op)) = 1
      BY <2>3, FS_Singleton
    <3> QED  BY <2>3, <3>1, <3>2 DEF Dual
  <2>4. CASE DwsOf(op) = {d, d + 1}
    <3>1. Lo(op) = d /\ Hi(op) = d + 1
      BY <2>2, <2>4 DEF Lo, Hi
    <3>2. Cardinality(DwsOf(op)) = 2
      <4> DEFINE e == d + 1
      <4>1. e # d /\ DwsOf(op) = {d, e}
        BY <2>2, <2>4
      <4> HIDE DEF e
      <4>2. Cardinality({d, e}) = 2
        BY <4>1, PairIs, Zenon
      <4> QED  BY <4>1, <4>2
    <3>3. DwsOf(op) \cap SideEffectDws = {}
      BY <1>1, <3>2 DEF WellFormed
    <3> QED  BY <2>2, <2>4, <3>1, <3>2, <3>3 DEF Dual, SideEffect
  <2> QED  BY <2>1, <2>3, <2>4
<1>5. ASSUME op.bytes = {} PROVE ~Dual(op)
  <2>1. DwsOf(op) = {}
    BY <1>5 DEF DwsOf
  <2> QED  BY <2>1, FS_EmptySet DEF Dual
<1> QED  BY <1>2, <1>3, <1>4, <1>5

LEMMA NoOpIs == NoOp.kind = "none" /\ NoOp.bytes = {} /\ ~Valid(NoOp) /\ Slots(NoOp) = 0
  BY DEF NoOp, Valid, Slots

LEMMA HalvesAre ==
    ASSUME setting \in Settings, NEW op, External(op)
    PROVE  /\ BytesIn(op, Lo(op)) \in SUBSET ({Lo(op)} \X Byte) /\ BytesIn(op, Hi(op)) \in SUBSET ({Hi(op)} \X Byte)
           /\ op.bytes = BytesIn(op, Lo(op)) \cup BytesIn(op, Hi(op))
<1>1. /\ op \in Ops /\ op.bytes \subseteq Bytes /\ DwsOf(op) = {Lo(op), Hi(op)}
  BY OpIs DEF External
<1>2. \A b \in op.bytes : b[1] = Lo(op) \/ b[1] = Hi(op)
  BY <1>1 DEF DwsOf
<1> QED  BY <1>1, <1>2 DEF BytesIn, Bytes

-----------------------------------------------------------------------------
(* Types are kept *)
LEMMA Stays ==
    ASSUME setting' = setting
    PROVE  /\ TIMER_MAX' = TIMER_MAX /\ Ops' = Ops /\ Pkt' = Pkt /\ Coalescing' = Coalescing
           /\ PostedDisable' = PostedDisable /\ SideEffectDws' = SideEffectDws
  BY DEF TIMER_MAX, Ops, Pkt, Coalescing, PostedDisable, SideEffectDws

LEMMA WrPtrIs == WrPtr0_dc3 \in Tag /\ WrPtr1_dc3 \in Tag
  BY FirstIs DEF WrPtr0_dc3, WrPtr1_dc3, FreeTags

LEMMA BlankIs ==
    /\ NoOp \in Pkt /\ Dc3Of(NoDc3) /\ StageOf(NoStage) /\ IbufOf(NoIbuf) /\ EntryOf(IdleEntry) /\ ObufOf(NoObuf)
    /\ ~NoDc3.busreq /\ ~NoStage.busreq /\ ~NoStage.valid /\ NoDc3.op = NoOp /\ NoStage.op = NoOp
    /\ ~NoIbuf.valid /\ NoIbuf.timer = 0 /\ IdleEntry.state = "IDLE" /\ ~NoObuf.valid /\ NoDw \in DWS
<1>1. NoOp \in Pkt /\ NoDw \in DWS /\ 0 \in Tag
  BY BusAssumption, TagIs DEF Pkt, NoDw
<1>2. Dc3Of(NoDc3) /\ ~NoDc3.busreq /\ NoDc3.op = NoOp
  BY <1>1 DEF Dc3Of, NoDc3
<1>3. StageOf(NoStage) /\ ~NoStage.busreq /\ ~NoStage.valid /\ NoStage.op = NoOp
  BY <1>1 DEF StageOf, NoStage
<1>4. IbufOf(NoIbuf) /\ ~NoIbuf.valid /\ NoIbuf.timer = 0
  BY <1>1 DEF IbufOf, NoIbuf
<1>5. EntryOf(IdleEntry) /\ IdleEntry.state = "IDLE"
  BY <1>1 DEF EntryOf, IdleEntry
<1>6. ObufOf(NoObuf) /\ ~NoObuf.valid
  BY <1>1 DEF ObufOf, NoObuf
<1> QED  BY <1>1, <1>2, <1>3, <1>4, <1>5, <1>6

LEMMA PipeTypes ==
    ASSUME Types, NEW f, NEW op \in Pkt, NEW nbfreeze \in BOOLEAN, NEW cancel \in BOOLEAN,
           PipeStep(f, op, nbfreeze, cancel), setting' = setting
    PROVE  (/\ dc1 \in Pkt /\ dc2 \in Pkt /\ Dc3Of(dc3) /\ StageOf(dc4) /\ StageOf(dc5)
            /\ dc3.busreq => External(dc3.op)
            /\ dc4.busreq => External(dc4.op)
            /\ dc5.busreq => External(dc5.op)
            /\ ld_freeze \in BOOLEAN /\ FreezePtr \in Tag)'
<1>0. Pkt' = Pkt /\ Ops' = Ops
  BY Stays
<1>1. (dc1 \in Pkt /\ dc2 \in Pkt)'
  BY <1>0, BlankIs DEF Types, PipeStep
<1>2. Dc3Of(Dc3In(f, nbfreeze)) /\ (Dc3In(f, nbfreeze).busreq => External(Dc3In(f, nbfreeze).op))
  <2>1. CASE ~Valid(dc2) \/ flush_dc2_up(f)
    BY <2>1, BlankIs DEF Dc3In
  <2>2. CASE Valid(dc2) /\ ~flush_dc2_up(f)
    <3> DEFINE hit == ld_full_hit_dc2(f)
               req == lsu_busreq_dc2(f) /\ ~hit
               fwd == IF hit THEN [b \in dc2.bytes |-> Forwarded(b)] ELSE None
    <3>1. Dc3In(f, nbfreeze) = [op |-> dc2, busreq |-> req, nbfreeze |-> req /\ nbfreeze, fwd |-> fwd,
                                cancelled |-> FALSE]
      BY <2>2 DEF Dc3In
    <3>2. req \in BOOLEAN /\ (req => External(dc2))
      BY <2>2, NoOpIs DEF lsu_busreq_dc2, Types, Pkt, External, Valid
    <3> HIDE DEF req, fwd
    <3> QED  BY <3>1, <3>2 DEF Dc3Of, Types
  <2> QED  BY <2>1, <2>2
<1>3. Dc3Of(dc3)' /\ (dc3.busreq => External(dc3.op))'
  <2>1. CASE lsu_freeze_dc3(f)
    BY <1>0, <2>1 DEF Types, PipeStep, Dc3Of
  <2>2. CASE ~lsu_freeze_dc3(f)
    BY <1>0, <1>2, <2>2 DEF PipeStep, Dc3Of, External
  <2> QED  BY <2>1, <2>2
<1>4. StageOf(dc4)' /\ (dc4.busreq => External(dc4.op))'
  <2> DEFINE valid  == Valid(dc3.op) /\ ~flush_dc3(f) /\ ~lsu_freeze_dc3(f)
             busreq == dc3.busreq /\ ~flush_dc4(f)
             p0 == IF busreq THEN WrPtr0_dc3 ELSE 0
             p1 == IF busreq /\ Dual(dc3.op) THEN WrPtr1_dc3 ELSE 0
             fwd == IF valid THEN dc3.fwd ELSE None
             nb == lsu_nonblock_load_valid_dc3(f)
  <2>1. dc4' = IF ~valid /\ ~busreq THEN NoStage
               ELSE [op |-> dc3.op, valid |-> valid, busreq |-> busreq, nb |-> nb,
                     p0 |-> p0, p1 |-> p1, fwd |-> fwd, cancelled |-> valid /\ dc3.cancelled]
    BY DEF PipeStep, Dc4In
  <2>2. valid \in BOOLEAN /\ busreq \in BOOLEAN /\ nb \in BOOLEAN /\ p0 \in Tag /\ p1 \in Tag
        /\ (busreq => External(dc3.op)) /\ dc3.op \in Pkt /\ dc3.cancelled \in BOOLEAN
    BY TagIs, WrPtrIs DEF Types, Dc3Of, lsu_nonblock_load_valid_dc3
  <2> HIDE DEF valid, busreq, p0, p1, fwd, nb
  <2>3. CASE ~valid /\ ~busreq
    BY <1>0, <2>1, <2>3, BlankIs DEF StageOf, External
  <2>4. CASE ~(~valid /\ ~busreq)
    <3>1. dc4' = [op |-> dc3.op, valid |-> valid, busreq |-> busreq, nb |-> nb,
                     p0 |-> p0, p1 |-> p1, fwd |-> fwd, cancelled |-> valid /\ dc3.cancelled]
      BY <2>1, <2>4
    <3> QED  BY <1>0, <2>2, <3>1 DEF StageOf, External
  <2> QED  BY <2>3, <2>4
<1>5. StageOf(dc5)' /\ (dc5.busreq => External(dc5.op))'
  <2> DEFINE valid  == dc4.valid /\ ~flush_dc4(f)
             busreq == dc4.busreq /\ ~flush_dc5(f)
             fwd == IF valid THEN dc4.fwd ELSE None
  <2>1. dc5' = IF ~valid /\ ~busreq THEN NoStage
               ELSE [dc4 EXCEPT !.valid = valid, !.busreq = busreq, !.fwd = fwd,
                                !.cancelled = valid /\ dc4.cancelled]
    BY DEF PipeStep, Dc5In
  <2>2. valid \in BOOLEAN /\ busreq \in BOOLEAN /\ (busreq => dc4.busreq)
    BY DEF Types, StageOf
  <2> HIDE DEF valid, busreq, fwd
  <2>3. CASE ~valid /\ ~busreq
    BY <1>0, <2>1, <2>3, BlankIs DEF StageOf, External
  <2>4. CASE ~(~valid /\ ~busreq)
    BY <1>0, <2>1, <2>2, <2>4 DEF StageOf, Types, External
  <2> QED  BY <2>3, <2>4
<1>6. (ld_freeze \in BOOLEAN /\ FreezePtr \in Tag)'
  BY WrPtrIs DEF PipeStep, FreezeStep, Types
<1> QED  BY <1>1, <1>3, <1>4, <1>5, <1>6

(* What the access in dc5 puts into the buffers. *)
LEMMA HalfTypes ==
    ASSUME Types, dc5.busreq
    PROVE  /\ External(dc5.op) /\ dc5.op \in Ops /\ Lo(dc5.op) \in DWS /\ Hi(dc5.op) \in DWS
           /\ dc5.p0 \in Tag /\ dc5.p1 \in Tag /\ dc5.nb \in BOOLEAN
           /\ \A dw : BytesIn(dc5.op, dw) \in SUBSET ({dw} \X Byte)
<1>1. External(dc5.op) /\ dc5.p0 \in Tag /\ dc5.p1 \in Tag /\ dc5.nb \in BOOLEAN
  BY DEF Types, StageOf
<1>2. dc5.op \in Ops /\ dc5.op.bytes # {} /\ setting \in Settings
  BY <1>1 DEF External, Types
<1>3. dc5.op.bytes \in SUBSET Bytes /\ Lo(dc5.op) \in DWS /\ Hi(dc5.op) \in DWS
  BY <1>2, OpIs
<1>4. \A dw : BytesIn(dc5.op, dw) \in SUBSET ({dw} \X Byte)
  BY <1>3 DEF BytesIn, Bytes
<1> QED  BY <1>1, <1>2, <1>3, <1>4

LEMMA IbufTypes ==
    ASSUME Types, NEW f, IbufStep(f), setting' = setting
    PROVE  (IbufOf(ibuf) /\ ibuf.timer <= TIMER_MAX)'
<1>0. TIMER_MAX' = TIMER_MAX /\ TIMER_MAX \in Nat
  BY Stays, SettingIs DEF Types
<1>1. CASE ibuf_wr_en(f)
  <2>1. dc5.busreq
    BY <1>1 DEF ibuf_wr_en, Takes
  <2> DEFINE merge == ibuf_merge_en(f) /\ ibuf_merge_in
             dw == IF Dual(dc5.op) THEN Hi(dc5.op) ELSE Lo(dc5.op)
             store == dc5.op.kind = "store"
             data0 == IF store THEN StoreData(dc5.op, dw) ELSE None
             tag == IF merge THEN ibuf.tag ELSE IF Dual(dc5.op) THEN dc5.p1 ELSE dc5.p0
             dualtag == IF Dual(dc5.op) THEN dc5.p0 ELSE 0
             bytes == BytesIn(dc5.op, dw) \cup (IF merge THEN ibuf.bytes ELSE {})
             data == IF merge THEN Overlay(data0, ibuf.data) ELSE data0
             dual == Dual(dc5.op)
             nomerge == no_dword_merge_dc5(f)
  <2>2. ibuf' = [valid |-> TRUE, tag |-> tag, dualtag |-> dualtag, dual |-> dual, nb |-> dc5.nb, write |-> store,
                 nomerge |-> nomerge, dw |-> dw, bytes |-> bytes, data |-> data, timer |-> 0]
    BY <1>1 DEF IbufStep, IbufIn
  <2>3. tag \in Tag /\ dualtag \in Tag /\ dual \in BOOLEAN /\ dc5.nb \in BOOLEAN /\ store \in BOOLEAN
        /\ nomerge \in BOOLEAN /\ dw \in DWS
    BY <2>1, HalfTypes, TagIs DEF Types, IbufOf, Dual, no_dword_merge_dc5
  <2>4. bytes \in SUBSET ({dw} \X Byte)
    <3>1. merge => dw = ibuf.dw
      BY DEF ibuf_merge_en, ibuf_merge_in
    <3>2. ibuf.bytes \in SUBSET ({ibuf.dw} \X Byte)
      BY DEF Types, IbufOf
    <3>3. BytesIn(dc5.op, dw) \in SUBSET ({dw} \X Byte)
      BY <2>1, HalfTypes
    <3> QED  BY <3>1, <3>2, <3>3
  <2> HIDE DEF merge, dw, store, data0, tag, dualtag, bytes, data, dual, nomerge
  <2>5. ibuf'.timer = 0 /\ 0 \in Nat
    BY <2>2
  <2> QED  BY <1>0, <2>2, <2>3, <2>4, <2>5 DEF IbufOf
<1>2. CASE ~ibuf_wr_en(f) /\ (~ibuf.valid \/ ibuf_drain_vld(f))
  <2>1. ibuf' = NoIbuf
    BY <1>2 DEF IbufStep
  <2> QED  BY <1>0, <2>1, BlankIs DEF IbufOf
<1>3. CASE ~ibuf_wr_en(f) /\ ~(~ibuf.valid \/ ibuf_drain_vld(f))
  <2>1. ibuf' = [ibuf EXCEPT !.timer = IF ibuf.timer < TIMER_MAX THEN ibuf.timer + 1 ELSE ibuf.timer]
    BY <1>3 DEF IbufStep
  <2> QED  BY <1>0, <2>1 DEF IbufOf, Types
<1> QED  BY <1>1, <1>2, <1>3

(* The fields of a new entry. *)
(* The drained entry takes the low half of the access in dc5 with it. *)
DrainMerges(f) == ibuf_merge_en(f) /\ ~ibuf_merge_in
LEMMA FromIbufIs ==
    ASSUME Types, NEW f, NEW clk
    PROVE  LET e == FromIbuf(f, clk)
               merge == DrainMerges(f)
               lo == BytesIn(dc5.op, Lo(dc5.op))
           IN  /\ e.state = (IF clk THEN "CMD" ELSE "WAIT") /\ e.write = ibuf.write
               /\ e.dual = ibuf.dual /\ e.dualhi = ibuf.dual /\ e.dualtag = ibuf.dualtag /\ e.nb = ibuf.nb
               /\ e.dw = ibuf.dw /\ e.error = FALSE
               /\ e.bytes = ibuf.bytes \cup (IF merge THEN lo ELSE {})
               /\ e.data = IF merge THEN Overlay(StoreData(dc5.op, ibuf.dw), ibuf.data) ELSE ibuf.data
               /\ EntryOf(e)
<1> DEFINE merge == DrainMerges(f)
           lo == BytesIn(dc5.op, Lo(dc5.op))
           state == IF clk THEN "CMD" ELSE "WAIT"
           nomerge == ibuf.nomerge \/ ibuf_force_drain(f)
           bytes == ibuf.bytes \cup (IF merge THEN lo ELSE {})
           data == IF merge THEN Overlay(StoreData(dc5.op, ibuf.dw), ibuf.data) ELSE ibuf.data
<1>1. FromIbuf(f, clk) = [state |-> state, write |-> ibuf.write,
         dual |-> ibuf.dual, dualhi |-> ibuf.dual, dualtag |-> ibuf.dualtag,
         nb |-> ibuf.nb, nomerge |-> nomerge, dw |-> ibuf.dw, bytes |-> bytes, data |-> data, error |-> FALSE]
  BY DEF FromIbuf, DrainMerges
<1>2. state \in {"WAIT", "CMD"} /\ nomerge \in BOOLEAN
  BY DEF Types, IbufOf
<1>3. bytes \in SUBSET ({ibuf.dw} \X Byte)
  <2>1. merge => lo \in SUBSET ({ibuf.dw} \X Byte)
    BY HalfTypes DEF ibuf_merge_en, DrainMerges
  <2> QED  BY <2>1 DEF Types, IbufOf
<1> HIDE DEF merge, lo, state, nomerge, bytes, data
<1>4. EntryOf(FromIbuf(f, clk))
  BY <1>1, <1>2, <1>3 DEF Types, IbufOf, EntryOf
<1>5. LET e == FromIbuf(f, clk)
      IN  /\ e.state = state /\ e.write = ibuf.write /\ e.error = FALSE
          /\ e.dual = ibuf.dual /\ e.dualhi = ibuf.dual /\ e.dualtag = ibuf.dualtag /\ e.nb = ibuf.nb
          /\ e.dw = ibuf.dw /\ e.bytes = bytes /\ e.data = data
  BY <1>1
<1> QED  BY <1>4, <1>5 DEF merge, lo, state, nomerge, bytes, data

(* The half of the access in dc5. *)
Half(high) == IF high THEN Hi(dc5.op) ELSE Lo(dc5.op)
LEMMA FromDc5Is ==
    ASSUME Types, NEW f, NEW clk, NEW high \in BOOLEAN, dc5.busreq
    PROVE  LET e == FromDc5(f, clk, high)
           IN  /\ e.state = (IF clk THEN "CMD" ELSE "WAIT")
               /\ e.write <=> dc5.op.kind = "store"
               /\ e.dual = Dual(dc5.op) /\ e.dualhi = high
               /\ e.dualtag = (IF ~Dual(dc5.op) THEN 0 ELSE IF high THEN dc5.p0 ELSE dc5.p1)
               /\ e.nb = dc5.nb /\ e.dw = Half(high) /\ e.error = FALSE
               /\ e.bytes = BytesIn(dc5.op, Half(high))
               /\ e.write => e.data = StoreData(dc5.op, Half(high))
               /\ EntryOf(e)
<1> DEFINE dw == Half(high)
           dual == Dual(dc5.op)
           state == IF clk THEN "CMD" ELSE "WAIT"
           store == dc5.op.kind = "store"
           dualtag == IF ~dual THEN 0 ELSE IF high THEN dc5.p0 ELSE dc5.p1
           nomerge == no_dword_merge_dc5(f)
           data == IF store THEN StoreData(dc5.op, dw) ELSE None
           bytes == BytesIn(dc5.op, dw)
<1>1. FromDc5(f, clk, high) = [state |-> state, write |-> store,
         dual |-> dual, dualhi |-> high, dualtag |-> dualtag, nb |-> dc5.nb, nomerge |-> nomerge, dw |-> dw,
         bytes |-> bytes, data |-> data, error |-> FALSE]
  BY DEF FromDc5, Half
<1>2. state \in {"WAIT", "CMD"} /\ store \in BOOLEAN /\ dual \in BOOLEAN /\ dualtag \in Tag /\ nomerge \in BOOLEAN
      /\ dw \in DWS /\ dc5.nb \in BOOLEAN /\ bytes \in SUBSET ({dw} \X Byte)
  BY HalfTypes, TagIs DEF Dual, no_dword_merge_dc5, Half
<1> HIDE DEF dw, dual, state, store, dualtag, nomerge, data, bytes
<1>4. EntryOf(FromDc5(f, clk, high))
  BY <1>1, <1>2 DEF EntryOf
<1>5. LET e == FromDc5(f, clk, high)
      IN  /\ e.state = state /\ e.write = store /\ e.dual = dual /\ e.dualhi = high /\ e.dualtag = dualtag
          /\ e.nb = dc5.nb /\ e.dw = dw /\ e.bytes = bytes /\ e.data = data /\ e.error = FALSE
  BY <1>1
<1> QED  BY <1>4, <1>5 DEF dw, dual, state, store, dualtag, nomerge, data, bytes

-----------------------------------------------------------------------------
(* How the access in dc5 enters the buffers: the six cases.                *)
Low  == IF Dual(dc5.op) THEN {dc5.p0} ELSE {}
Last == IF Dual(dc5.op) THEN dc5.p1 ELSE dc5.p0
Waits(f)     == /\ ~Takes(f) /\ LowAlloc(f) = {} /\ HighAlloc(f) = {} /\ ~ibuf_merge_en(f)
                /\ Drained(f) \subseteq IbufTag
                /\ IbufTag' = IbufTag \ Drained(f)
                /\ ibuf' = IF IbufTag' = {} THEN NoIbuf
                           ELSE [ibuf EXCEPT !.timer = IF @ < TIMER_MAX THEN @ + 1 ELSE @]
Bypasses(f)  == /\ Takes(f) /\ IbufTag = {} /\ Drained(f) = {} /\ ~ibuf_merge_en(f)
                /\ LowAlloc(f) = {dc5.p0} /\ HighAlloc(f) = Reserved(dc5) \ {dc5.p0}
                /\ (HighAlloc(f) = IF Dual(dc5.op) THEN {dc5.p1} ELSE {})
                /\ IbufTag' = {} /\ ibuf' = NoIbuf
Enters(f)    == /\ Takes(f) /\ ~ibuf_merge_en(f) /\ Drained(f) = IbufTag
                /\ LowAlloc(f) = Low /\ HighAlloc(f) = {}
                /\ IbufTag' = {Last} /\ ibuf' = IbufIn(f)
                /\ IbufTag = {} => dc5.op.kind = "store"
Merges(f)    == /\ Takes(f) /\ ibuf_merge_en(f) /\ ~Dual(dc5.op) /\ IbufTag = {ibuf.tag}
                /\ Drained(f) = {} /\ LowAlloc(f) = {} /\ HighAlloc(f) = {}
                /\ IbufTag' = IbufTag /\ ibuf' = IbufIn(f)
MergesLow(f) == /\ Takes(f) /\ ibuf_merge_en(f) /\ Dual(dc5.op) /\ IbufTag = {ibuf.tag}
                /\ Drained(f) = IbufTag /\ LowAlloc(f) = {} /\ HighAlloc(f) = {}
                /\ IbufTag' = {dc5.p1} /\ ibuf' = IbufIn(f)

LEMMA IbufInIs ==
    ASSUME Types, NEW f, dc5.busreq
    PROVE  LET e == IbufIn(f)
               merge == ibuf_merge_en(f) /\ ibuf_merge_in
               dw == IF Dual(dc5.op) THEN Hi(dc5.op) ELSE Lo(dc5.op)
               store == dc5.op.kind = "store"
               data == IF store THEN StoreData(dc5.op, dw) ELSE None
           IN  /\ e.valid = TRUE /\ e.tag = (IF merge THEN ibuf.tag ELSE Last)
               /\ e.dualtag = (IF Dual(dc5.op) THEN dc5.p0 ELSE 0)
               /\ e.dual = Dual(dc5.op) /\ e.nb = dc5.nb /\ e.write = store /\ e.dw = dw
               /\ e.bytes = BytesIn(dc5.op, dw) \cup (IF merge THEN ibuf.bytes ELSE {})
               /\ e.data = (IF merge THEN Overlay(data, ibuf.data) ELSE data)
<1> DEFINE merge == ibuf_merge_en(f) /\ ibuf_merge_in
           dw == IF Dual(dc5.op) THEN Hi(dc5.op) ELSE Lo(dc5.op)
           store == dc5.op.kind = "store"
           data0 == IF store THEN StoreData(dc5.op, dw) ELSE None
           tag == IF merge THEN ibuf.tag ELSE IF Dual(dc5.op) THEN dc5.p1 ELSE dc5.p0
           dualtag == IF Dual(dc5.op) THEN dc5.p0 ELSE 0
           bytes == BytesIn(dc5.op, dw) \cup (IF merge THEN ibuf.bytes ELSE {})
           data == IF merge THEN Overlay(data0, ibuf.data) ELSE data0
           dual == Dual(dc5.op)
           nomerge == no_dword_merge_dc5(f)
<1>1. IbufIn(f) = [valid |-> TRUE, tag |-> tag, dualtag |-> dualtag, dual |-> dual, nb |-> dc5.nb, write |-> store,
                 nomerge |-> nomerge, dw |-> dw, bytes |-> bytes, data |-> data, timer |-> 0]
  BY DEF IbufIn
<1>2. tag = (IF merge THEN ibuf.tag ELSE Last)
  BY DEF Last
<1> HIDE DEF merge, dw, store, data0, tag, dualtag, bytes, data, dual, nomerge
<1>3. LET e == IbufIn(f)
      IN  /\ e.valid = TRUE /\ e.tag = tag /\ e.dualtag = dualtag /\ e.dual = dual /\ e.nb = dc5.nb
          /\ e.write = store /\ e.dw = dw /\ e.bytes = bytes /\ e.data = data
  BY <1>1
<1> QED  BY <1>2, <1>3 DEF merge, dw, store, data0, dualtag, bytes, data, dual

LEMMA SixCases ==
    ASSUME Types, TagsInv, NEW f, IbufStep(f)
    PROVE  Waits(f) \/ Bypasses(f) \/ Enters(f) \/ Merges(f) \/ MergesLow(f)
<1>0. (dc5.busreq => dc5.op.kind \in {"load", "store"}) /\ (ibuf_merge_en(f) => Takes(f) /\ ibuf.valid)
  <2>1. dc5.busreq => dc5.op \in Ops /\ setting \in Settings
    BY DEF Types, External
  <2> QED  BY <2>1, OpIs DEF Takes, ibuf_merge_en
<1>00. ~NoIbuf.valid
  BY BlankIs
<1>1. CASE ~Takes(f)
  <2>1. LowAlloc(f) = {} /\ HighAlloc(f) = {} /\ ~ibuf_merge_en(f) /\ ~ibuf_wr_en(f)
    BY <1>0, <1>1 DEF LowAlloc, HighAlloc, ibuf_wr_en
  <2>2. Drained(f) \subseteq IbufTag
    BY DEF Drained, IbufTag, ibuf_drain_vld
  <2>3. CASE ~ibuf.valid \/ ibuf_drain_vld(f)
    <3>1. ibuf' = NoIbuf
      BY <2>1, <2>3 DEF IbufStep
    <3> QED  BY <1>00, <1>1, <2>1, <2>2, <2>3, <3>1 DEF Drained, IbufTag, ibuf_drain_vld, Waits
  <2>4. CASE ~(~ibuf.valid \/ ibuf_drain_vld(f))
    <3>1. ibuf' = [ibuf EXCEPT !.timer = IF @ < TIMER_MAX THEN @ + 1 ELSE @]
      BY <2>1, <2>4 DEF IbufStep
    <3>2. ibuf'.valid /\ ibuf'.tag = ibuf.tag
      BY <2>4, <3>1 DEF Types, IbufOf
    <3> QED  BY <1>1, <2>1, <2>2, <2>4, <3>1, <3>2 DEF Drained, IbufTag, Waits
  <2> QED  BY <2>3, <2>4
<1>2. CASE Takes(f)
  <2>1. dc5.busreq /\ ~ibuf_force_drain(f)
    BY <1>2 DEF Takes, ibuf_force_drain, OnlyDc2
  <2>2. dc5.busreq /\ Dual(dc5.op) => dc5.p0 # dc5.p1
    BY DEF TagsInv
  <2>3. CASE ibuf_byp(f)
    <3>1. ~ibuf.valid /\ ~ibuf_wr_en(f) /\ ~ibuf_merge_en(f) /\ ibuf' = NoIbuf
      BY <1>0, <2>3 DEF ibuf_byp, ibuf_wr_en, IbufStep
    <3> QED  BY <1>00, <1>2, <2>1, <2>2, <2>3, <3>1
             DEF Bypasses, IbufTag, Drained, ibuf_drain_vld, LowAlloc, HighAlloc, Reserved
  <2>4. CASE ~ibuf_byp(f)
    <3>1. ibuf_wr_en(f) /\ ibuf' = IbufIn(f)
      BY <1>2, <2>4 DEF ibuf_wr_en, IbufStep
    <3>2. /\ ibuf'.valid
          /\ ibuf'.tag = IF ibuf_merge_en(f) /\ ibuf_merge_in THEN ibuf.tag ELSE Last
      BY <2>1, <3>1, IbufInIs
    <3>3. CASE ~ibuf_merge_en(f)
      <4>1. Drained(f) = IbufTag
        BY <3>1, <3>3 DEF Drained, IbufTag, ibuf_drain_vld
      <4>2. LowAlloc(f) = Low /\ HighAlloc(f) = {}
        BY <1>2, <2>4, <3>3 DEF LowAlloc, HighAlloc, Low
      <4>3. IbufTag = {} => dc5.op.kind = "store"
        BY <1>0, <2>1, <2>4 DEF IbufTag, ibuf_byp
      <4>4. IbufTag' = {Last}
        BY <3>2, <3>3 DEF IbufTag
      <4> QED  BY <1>2, <3>1, <3>3, <4>1, <4>2, <4>3, <4>4 DEF Enters
    <3>4. CASE ibuf_merge_en(f) /\ ~Dual(dc5.op)
      <4>1. Drained(f) = {}
        BY <2>1, <3>4 DEF Drained, ibuf_drain_vld, ibuf_merge_in, ibuf_merge_en
      <4> QED  BY <1>0, <1>2, <2>4, <3>1, <3>2, <3>4, <4>1
               DEF Merges, ibuf_merge_in, IbufTag, LowAlloc, HighAlloc
    <3>5. CASE ibuf_merge_en(f) /\ Dual(dc5.op)
      <4>1. Drained(f) = IbufTag /\ IbufTag = {ibuf.tag}
        BY <1>0, <3>1, <3>5 DEF Drained, IbufTag, ibuf_drain_vld, ibuf_merge_in
      <4>2. LowAlloc(f) = {} /\ HighAlloc(f) = {} /\ IbufTag' = {dc5.p1}
        BY <2>4, <3>2, <3>5 DEF LowAlloc, HighAlloc, IbufTag, ibuf_merge_in, Last
      <4> QED  BY <1>2, <3>1, <3>5, <4>1, <4>2 DEF MergesLow
    <3> QED  BY <3>3, <3>4, <3>5
  <2> QED  BY <2>3, <2>4
<1> QED  BY <1>1, <1>2

(* The tags each of them uses. *)
Alloc(f) == Drained(f) \cup LowAlloc(f) \cup HighAlloc(f)
LEMMA AllocIs ==
    ASSUME Types, TagsInv, NEW f, IbufStep(f)
    PROVE  /\ Drained(f) \subseteq IbufTag /\ LowAlloc(f) \cup HighAlloc(f) \subseteq Reserved(dc5)
           /\ LowAlloc(f) \cap HighAlloc(f) = {} /\ Alloc(f) \subseteq Tag /\ Alloc(f) \cap Busy = {}
           /\ Drained(f) \cap Reserved(dc5) = {}
           /\ IbufTag' \subseteq IbufTag \cup Reserved(dc5) /\ IbufTag' \cap Alloc(f) = {}
           /\ IbufTag \subseteq Drained(f) \cup IbufTag'
           /\ (Takes(f) => Reserved(dc5) \subseteq Alloc(f) \cup IbufTag' \cup (IF ibuf_merge_en(f) THEN {dc5.p0} ELSE {}))
           /\ (LowAlloc(f) # {} => dc5.busreq /\ LowAlloc(f) = {dc5.p0})
           /\ (HighAlloc(f) # {} => dc5.busreq /\ Dual(dc5.op) /\ HighAlloc(f) = {dc5.p1})
           /\ (Drained(f) # {} => ibuf.valid /\ Drained(f) = {ibuf.tag})
<1>1. Waits(f) \/ Bypasses(f) \/ Enters(f) \/ Merges(f) \/ MergesLow(f)
  BY SixCases
<1>2. dc5.busreq => dc5.p0 \in Tag /\ dc5.p1 \in Tag
  BY HalfTypes
<1>3. IbufTag \subseteq Tag /\ Reserved(dc5) \subseteq Tag
  BY <1>2 DEF IbufTag, Reserved, Types, IbufOf
<1>4. Busy \cap IbufTag = {} /\ Busy \cap Reserved(dc5) = {} /\ IbufTag \cap Reserved(dc5) = {}
      /\ (dc5.busreq /\ Dual(dc5.op) => dc5.p0 # dc5.p1)
  BY DEF TagsInv
<1>5. Takes(f) => dc5.busreq /\ Reserved(dc5) = IF Dual(dc5.op) THEN {dc5.p0, dc5.p1} ELSE {dc5.p0}
  BY DEF Takes, Reserved
<1>6. /\ (LowAlloc(f) # {} => dc5.busreq /\ LowAlloc(f) = {dc5.p0})
      /\ (HighAlloc(f) # {} => dc5.busreq /\ Dual(dc5.op) /\ HighAlloc(f) = {dc5.p1})
      /\ (Drained(f) # {} => ibuf.valid /\ Drained(f) = {ibuf.tag})
  BY DEF LowAlloc, HighAlloc, Drained, Takes, ibuf_drain_vld
<1>7. CASE Waits(f)
  BY <1>3, <1>4, <1>6, <1>7 DEF Waits, Alloc
<1>8. CASE Bypasses(f)
  BY <1>3, <1>4, <1>5, <1>6, <1>8 DEF Bypasses, Alloc
<1>9. CASE Enters(f)
  BY <1>3, <1>4, <1>5, <1>6, <1>9 DEF Enters, Alloc, Low, Last
<1>10. CASE Merges(f)
  BY <1>3, <1>4, <1>5, <1>6, <1>10 DEF Merges, Alloc
<1>11. CASE MergesLow(f)
  BY <1>3, <1>4, <1>5, <1>6, <1>11 DEF MergesLow, Alloc
<1> QED  BY <1>1, <1>7, <1>8, <1>9, <1>10, <1>11

-----------------------------------------------------------------------------
(* What a clock does to one entry. *)
Answered(i) ==
    LET r == CHOOSE r \in Answers(i) : TRUE
    IN  IF buf[i].write /\ ~r.err THEN IdleEntry
        ELSE [buf[i] EXCEPT !.state = "DONE", !.error = r.err,
                            !.data = IF buf[i].write THEN @ ELSE r.data]

LEMMA EntryMoves ==
    ASSUME Types, TagsInv, NEW f, NEW clk \in BOOLEAN, IbufStep(f), EntryStep(f, clk), NEW i \in Tag
    PROVE  /\ i \in Drained(f) => buf[i].state = "IDLE" /\ buf'[i] = FromIbuf(f, clk)
           /\ i \in LowAlloc(f) => buf[i].state = "IDLE" /\ buf'[i] = FromDc5(f, clk, FALSE)
           /\ i \in HighAlloc(f) => buf[i].state = "IDLE" /\ buf'[i] = FromDc5(f, clk, TRUE)
           /\ i \notin Alloc(f) =>
                /\ buf[i].state = "IDLE" => buf'[i] = buf[i]
                /\ buf[i].state = "WAIT" => buf'[i] = IF clk THEN [buf[i] EXCEPT !.state = "CMD"] ELSE buf[i]
                /\ buf[i].state = "CMD" => buf'[i] = IF CmdSent(i) /\ clk THEN [buf[i] EXCEPT !.state = "RESP"] ELSE buf[i]
                /\ buf[i].state = "RESP" => buf'[i] = IF clk /\ Answers(i) # {} THEN Answered(i) ELSE buf[i]
                /\ buf[i].state = "DONE" => buf'[i] = IF buf_rst(i) THEN IdleEntry ELSE buf[i]
<1>1. buf'[i] = EntryNext(i, f, clk)
  BY DEF EntryStep
<1>2. /\ Drained(f) \cap Busy = {} /\ LowAlloc(f) \cap Busy = {} /\ HighAlloc(f) \cap Busy = {}
      /\ Drained(f) \cap LowAlloc(f) = {} /\ Drained(f) \cap HighAlloc(f) = {} /\ LowAlloc(f) \cap HighAlloc(f) = {}
  BY AllocIs DEF Alloc
<1>3. /\ i \notin Busy <=> buf[i].state = "IDLE"
      /\ CmdSent(i) => buf[i].state = "CMD"
      /\ buf_rst(i) => buf[i].state = "DONE"
  BY DEF Busy, CmdSent, buf_rst
<1> DEFINE A == FromIbuf(f, clk)
           B == FromDc5(f, clk, FALSE)
           C == FromDc5(f, clk, TRUE)
           D == [buf[i] EXCEPT !.state = "CMD"]
           E == [buf[i] EXCEPT !.state = "RESP"]
           F == Answered(i)
<1>4. buf'[i] = CASE i \in Drained(f)   -> A
      [] i \in LowAlloc(f)  -> B
      [] i \in HighAlloc(f) -> C
      [] buf[i].state = "WAIT" /\ clk -> D
      [] CmdSent(i) /\ clk -> E
      [] buf[i].state = "RESP" /\ clk /\ Answers(i) # {} -> F
      [] buf_rst(i) -> IdleEntry
      [] OTHER -> buf[i]
  BY <1>1 DEF EntryNext, Answered
<1> HIDE DEF A, B, C, D, E, F
<1>5. CASE i \in Drained(f)
  <2>1. buf[i].state = "IDLE" /\ i \notin LowAlloc(f) /\ i \notin HighAlloc(f)
    BY <1>2, <1>3, <1>5
  <2>2. buf'[i] = A
    BY <1>3, <1>4, <1>5, <2>1
  <2> QED  BY <1>5, <2>1, <2>2 DEF A, Alloc
<1>6. CASE i \in LowAlloc(f)
  <2>1. buf[i].state = "IDLE" /\ i \notin Drained(f) /\ i \notin HighAlloc(f)
    BY <1>2, <1>3, <1>6
  <2>2. buf'[i] = B
    BY <1>3, <1>4, <1>6, <2>1
  <2> QED  BY <1>6, <2>1, <2>2 DEF B, Alloc
<1>7. CASE i \in HighAlloc(f)
  <2>1. buf[i].state = "IDLE" /\ i \notin Drained(f) /\ i \notin LowAlloc(f)
    BY <1>2, <1>3, <1>7
  <2>2. buf'[i] = C
    BY <1>3, <1>4, <1>7, <2>1
  <2> QED  BY <1>7, <2>1, <2>2 DEF C, Alloc
<1>8. CASE i \notin Alloc(f)
  <2>1. i \notin Drained(f) /\ i \notin LowAlloc(f) /\ i \notin HighAlloc(f)
    BY <1>8 DEF Alloc
  <2>2. buf[i].state = "IDLE" => buf'[i] = buf[i]
    BY <1>3, <1>4, <2>1
  <2>3. buf[i].state = "WAIT" => buf'[i] = IF clk THEN D ELSE buf[i]
    BY <1>3, <1>4, <2>1
  <2>4. buf[i].state = "CMD" => buf'[i] = IF CmdSent(i) /\ clk THEN E ELSE buf[i]
    BY <1>3, <1>4, <2>1
  <2>5. buf[i].state = "RESP" => buf'[i] = IF clk /\ Answers(i) # {} THEN F ELSE buf[i]
    BY <1>3, <1>4, <2>1
  <2>6. buf[i].state = "DONE" => buf'[i] = IF buf_rst(i) THEN IdleEntry ELSE buf[i]
    BY <1>3, <1>4, <2>1
  <2> QED  BY <2>1, <2>2, <2>3, <2>4, <2>5, <2>6 DEF D, E, F
<1> QED  BY <1>5, <1>6, <1>7, <1>8 DEF Alloc

(* The same, as the states go. *)
LEMMA StateMoves ==
    ASSUME Types, TagsInv, NEW f, NEW clk \in BOOLEAN, IbufStep(f), EntryStep(f, clk), NEW i \in Tag
    PROVE  /\ i \in Alloc(f) => buf[i].state = "IDLE" /\ buf'[i].state = (IF clk THEN "CMD" ELSE "WAIT")
           /\ i \notin Alloc(f) =>
                /\ buf[i].state = "IDLE" => buf'[i].state = "IDLE"
                /\ buf[i].state = "WAIT" => buf'[i].state = IF clk THEN "CMD" ELSE "WAIT"
                /\ buf[i].state = "CMD" => buf'[i].state = IF CmdSent(i) /\ clk THEN "RESP" ELSE "CMD"
                /\ buf[i].state = "RESP" => IF clk /\ Answers(i) # {} THEN buf'[i].state \in {"DONE", "IDLE"}
                                            ELSE buf'[i].state = "RESP"
                /\ buf[i].state = "DONE" => buf'[i].state = IF buf_rst(i) THEN "IDLE" ELSE "DONE"
                /\ buf'[i].state # "IDLE" =>
                     /\ buf'[i].write = buf[i].write /\ buf'[i].dual = buf[i].dual /\ buf'[i].dualhi = buf[i].dualhi
                     /\ buf'[i].dualtag = buf[i].dualtag /\ buf'[i].nb = buf[i].nb /\ buf'[i].dw = buf[i].dw
                     /\ buf'[i].bytes = buf[i].bytes
                /\ buf'[i].state \in {"WAIT", "CMD", "RESP"} => buf'[i].data = buf[i].data
<1>1. IdleEntry.state = "IDLE"
  BY BlankIs
<1>2. EntryOf(buf[i])
  BY DEF Types
<1>3. CASE i \in Alloc(f)
  <2>1. CASE i \in Drained(f)
    <3>1. buf[i].state = "IDLE" /\ buf'[i] = FromIbuf(f, clk)
      BY <2>1, EntryMoves
    <3>2. FromIbuf(f, clk).state = IF clk THEN "CMD" ELSE "WAIT"
      BY <2>1, FromIbufIs, ZenonT(30)
    <3> QED  BY <1>3, <3>1, <3>2
  <2>2. CASE i \in LowAlloc(f)
    <3>1. buf[i].state = "IDLE" /\ buf'[i] = FromDc5(f, clk, FALSE)
      BY <2>2, EntryMoves
    <3>0. dc5.busreq
      BY <2>2, AllocIs
    <3>2. FromDc5(f, clk, FALSE).state = IF clk THEN "CMD" ELSE "WAIT"
      BY <3>0, FromDc5Is
    <3> QED  BY <1>3, <3>1, <3>2
  <2>3. CASE i \in HighAlloc(f)
    <3>1. buf[i].state = "IDLE" /\ buf'[i] = FromDc5(f, clk, TRUE)
      BY <2>3, EntryMoves
    <3>0. dc5.busreq
      BY <2>3, AllocIs
    <3>2. FromDc5(f, clk, TRUE).state = IF clk THEN "CMD" ELSE "WAIT"
      BY <3>0, FromDc5Is
    <3> QED  BY <1>3, <3>1, <3>2
  <2> QED  BY <1>3, <2>1, <2>2, <2>3 DEF Alloc
<1>4. CASE i \notin Alloc(f)
  <2>1. CASE buf[i].state = "IDLE"
    BY <1>4, <2>1, EntryMoves
  <2>2. CASE buf[i].state = "WAIT"
    <3>1. buf'[i] = IF clk THEN [buf[i] EXCEPT !.state = "CMD"] ELSE buf[i]
      BY <1>4, <2>2, EntryMoves
    <3> QED  BY <1>2, <1>4, <2>2, <3>1 DEF EntryOf
  <2>3. CASE buf[i].state = "CMD"
    <3>1. buf'[i] = IF CmdSent(i) /\ clk THEN [buf[i] EXCEPT !.state = "RESP"] ELSE buf[i]
      BY <1>4, <2>3, EntryMoves
    <3> QED  BY <1>2, <1>4, <2>3, <3>1 DEF EntryOf
  <2>4. CASE buf[i].state = "RESP"
    <3>1. buf'[i] = IF clk /\ Answers(i) # {} THEN Answered(i) ELSE buf[i]
      BY <1>4, <2>4, EntryMoves
    <3> DEFINE r == CHOOSE r \in Answers(i) : TRUE
               data == IF buf[i].write THEN buf[i].data ELSE r.data
    <3>2. Answered(i) = IF buf[i].write /\ ~r.err THEN IdleEntry
                        ELSE [buf[i] EXCEPT !.state = "DONE", !.error = r.err, !.data = data]
      BY DEF Answered
    <3> HIDE DEF r, data
    <3>3. Answered(i).state \in {"DONE", "IDLE"} /\ (Answered(i).state = "DONE" =>
            /\ Answered(i).write = buf[i].write /\ Answered(i).dual = buf[i].dual
            /\ Answered(i).dualhi = buf[i].dualhi
            /\ Answered(i).dualtag = buf[i].dualtag /\ Answered(i).nb = buf[i].nb
            /\ Answered(i).dw = buf[i].dw /\ Answered(i).bytes = buf[i].bytes)
      <4>1. CASE buf[i].write /\ ~r.err
        BY <1>1, <3>2, <4>1
      <4>2. CASE ~(buf[i].write /\ ~r.err)
        BY <1>2, <3>2, <4>2 DEF EntryOf
      <4> QED  BY <4>1, <4>2
    <3>4. CASE clk /\ Answers(i) # {}
      BY <1>4, <2>4, <3>1, <3>3, <3>4
    <3>5. CASE ~(clk /\ Answers(i) # {})
      BY <1>4, <2>4, <3>1, <3>5
    <3> QED  BY <3>4, <3>5
  <2>5. CASE buf[i].state = "DONE"
    BY <1>1, <1>4, <2>5, EntryMoves
  <2> QED  BY <1>2, <2>1, <2>2, <2>3, <2>4, <2>5 DEF EntryOf
<1> QED  BY <1>3, <1>4

-----------------------------------------------------------------------------
LEMMA EntryTypes ==
    ASSUME Types, TagsInv, NEW f, NEW clk \in BOOLEAN, IbufStep(f), EntryStep(f, clk)
    PROVE  (buf = [i \in Tag |-> buf[i]] /\ (\A i \in Tag : EntryOf(buf[i])) /\ ageQ \in [Tag -> SUBSET Tag])'
<1>1. (buf = [i \in Tag |-> buf[i]])'
  BY DEF EntryStep
<1>2. ASSUME NEW i \in Tag PROVE EntryOf(buf[i])'
  <2>0. EntryOf(buf[i]) /\ EntryOf(IdleEntry)
    BY BlankIs DEF Types
  <2>1. CASE i \in Alloc(f)
    <3>1. CASE i \in Drained(f)
      <4>1. buf'[i] = FromIbuf(f, clk) /\ EntryOf(FromIbuf(f, clk))
        BY <3>1, EntryMoves, FromIbufIs
      <4> QED  BY <4>1 DEF EntryOf
    <3>2. CASE i \in LowAlloc(f)
      <4>0. dc5.busreq
        BY <3>2, AllocIs
      <4>1. buf'[i] = FromDc5(f, clk, FALSE)
        BY <3>2, EntryMoves
      <4>2. EntryOf(FromDc5(f, clk, FALSE))
        BY <4>0, FromDc5Is
      <4> QED  BY <4>1, <4>2 DEF EntryOf
    <3>3. CASE i \in HighAlloc(f)
      <4>0. dc5.busreq
        BY <3>3, AllocIs
      <4>1. buf'[i] = FromDc5(f, clk, TRUE)
        BY <3>3, EntryMoves
      <4>2. EntryOf(FromDc5(f, clk, TRUE))
        BY <4>0, FromDc5Is
      <4> QED  BY <4>1, <4>2 DEF EntryOf
    <3> QED  BY <2>1, <3>1, <3>2, <3>3 DEF Alloc
  <2>2. CASE i \notin Alloc(f)
    <3>1. ASSUME clk, Answers(i) # {} PROVE EntryOf(Answered(i))
      <4> DEFINE r == CHOOSE r \in Answers(i) : TRUE
                 data == IF buf[i].write THEN buf[i].data ELSE r.data
      <4>1. Answered(i) = IF buf[i].write /\ ~r.err THEN IdleEntry
                          ELSE [buf[i] EXCEPT !.state = "DONE", !.error = r.err, !.data = data]
        BY DEF Answered
      <4>2. r.err \in BOOLEAN
        BY <3>1 DEF Answers, Types
      <4> HIDE DEF r, data
      <4>3. EntryOf([buf[i] EXCEPT !.state = "DONE", !.error = r.err, !.data = data])
        BY <2>0, <4>2 DEF EntryOf
      <4>4. Answered(i) = IdleEntry \/ Answered(i) = [buf[i] EXCEPT !.state = "DONE", !.error = r.err, !.data = data]
        BY <4>1
      <4> QED  BY <2>0, <4>3, <4>4
    <3>2. EntryOf([buf[i] EXCEPT !.state = "CMD"]) /\ EntryOf([buf[i] EXCEPT !.state = "RESP"])
      BY <2>0 DEF EntryOf
    <3>3. \/ buf'[i] = buf[i] \/ buf'[i] = [buf[i] EXCEPT !.state = "CMD"] \/ buf'[i] = [buf[i] EXCEPT !.state = "RESP"]
          \/ buf'[i] = IdleEntry \/ (clk /\ Answers(i) # {} /\ buf'[i] = Answered(i))
      <4>1. buf[i].state \in {"IDLE", "WAIT", "CMD", "RESP", "DONE"}
        BY <2>0 DEF EntryOf
      <4> QED  BY <2>2, <4>1, EntryMoves
    <3> QED  BY <2>0, <3>1, <3>2, <3>3 DEF EntryOf
  <2> QED  BY <2>1, <2>2
<1>3. (ageQ \in [Tag -> SUBSET Tag])'
  <2>1. ASSUME NEW i \in Tag PROVE AgeIn(i, f) \subseteq Tag
    <3>1. buf_age(i) \subseteq Tag /\ Pending \subseteq Tag
      BY DEF buf_age, Pending, PendingCmd, Types
    <3>2. Drained(f) \subseteq Tag /\ (i \in HighAlloc(f) => dc5.p0 \in Tag)
      BY AllocIs, HalfTypes DEF Alloc
    <3> QED  BY <3>1, <3>2 DEF AgeIn
  <2> QED  BY <2>1 DEF EntryStep
<1> QED  BY <1>1, <1>2, <1>3

LEMMA ObufTypes ==
    ASSUME Types, NEW f, NEW clk \in BOOLEAN, NEW r, r \in ReadyInputs(clk), ObufStep(f, clk, r), setting' = setting
    PROVE  (ObufOf(obuf) /\ obuf_timer \in 0 .. TIMER_MAX)'
<1>0. TIMER_MAX' = TIMER_MAX /\ TIMER_MAX \in Nat
  BY Stays, SettingIs DEF Types
<1>1. CASE ~clk
  BY <1>0, <1>1 DEF ObufStep, Types, ObufOf
<1>2. CASE clk
  <2>1. obuf_timer' = IF obuf_wr_en(f, r) THEN 0
                      ELSE IF PendingCmd # {} /\ obuf_timer < TIMER_MAX
                      THEN obuf_timer + 1 ELSE obuf_timer
    BY <1>2 DEF ObufStep
  <2>2. (obuf_timer \in 0 .. TIMER_MAX)'
    BY <1>0, <2>1 DEF Types
  <2>3. obuf' = IF obuf_wr_en(f, r) THEN ObufIn(f)
                ELSE IF ~obuf.valid \/ bus_cmd_sent(r) THEN NoObuf
                ELSE [obuf EXCEPT !.cmd_done = cmd_done(r), !.data_done = data_done(r), !.wren = FALSE]
    BY <1>2 DEF ObufStep
  <2>4. ObufOf(ObufIn(f))
    <3> DEFINE from == IF ibuf_buf_byp(f) THEN FromDc5(f, TRUE, FALSE) ELSE buf[CmdPtr0]
               tag == IF ibuf_buf_byp(f) THEN dc5.p0 ELSE CmdPtr0
    <3>1. ObufIn(f) = [valid |-> TRUE, write |-> from.write, dw |-> from.dw, tag |-> tag,
                       bytes |-> from.bytes, data |-> from.data,
                       cmd_done |-> FALSE, data_done |-> FALSE, wren |-> TRUE]
      BY DEF ObufIn
    <3>2. ibuf_buf_byp(f) => dc5.busreq
      BY DEF ibuf_buf_byp, ibuf_byp
    <3>3. CmdPtr0 \in Tag
      BY FirstIs DEF CmdPtr0, CmdPtr0Dec, PendingCmd
    <3>4. EntryOf(from) /\ tag \in Tag
      BY <3>2, <3>3, FromDc5Is DEF Types, StageOf
    <3>5. from.bytes \in SUBSET Bytes /\ from.dw \in DWS /\ from.write \in BOOLEAN
      BY <3>4 DEF EntryOf, Bytes
    <3> HIDE DEF from, tag
    <3> QED  BY <3>1, <3>4, <3>5 DEF ObufOf
  <2>5. ObufOf([obuf EXCEPT !.cmd_done = cmd_done(r), !.data_done = data_done(r), !.wren = FALSE])
    <3>1. cmd_done(r) \in BOOLEAN /\ data_done(r) \in BOOLEAN
      BY DEF cmd_done, data_done, Types, ObufOf
    <3> QED  BY <3>1 DEF ObufOf, Types
  <2> QED  BY <2>2, <2>3, <2>4, <2>5, BlankIs DEF ObufOf
<1> QED  BY <1>1, <1>2

LEMMA GhostTypes ==
    ASSUME Types, NEW f, NEW P, GhostStep(f, P)
    PROVE  (want = [t \in Tag |-> want[t]] /\ arch \in [Bytes -> Values])'
<1>1. (want = [t \in Tag |-> want[t]])'
  BY DEF GhostStep
<1>2. arch' = IF Takes(f) /\ dc5.op.kind = "store"
              THEN [b \in Bytes |-> IF b \in dc5.op.bytes THEN dc5.op.val ELSE arch[b]] ELSE arch
  BY DEF GhostStep
<1>3. Takes(f) => dc5.op.val \in Values
  <2>1. Takes(f) => dc5.op \in Ops /\ setting \in Settings
    BY DEF Takes, Types, External
  <2> QED  BY <2>1, OpIs
<1>4. (arch \in [Bytes -> Values])'
  BY <1>2, <1>3 DEF Types
<1> QED  BY <1>1, <1>4

LEMMA SlaveTypes ==
    ASSUME Types, NEW clk, NEW r, NEW reads, NEW writes, NEW err \in BOOLEAN, SlaveStep(clk, r, reads, writes, err)
    PROVE  (mem = [b \in Bytes |-> mem[b]] /\ \A a \in rrsp \cup brsp : a.err \in BOOLEAN)'
<1>1. CASE ~clk
  BY <1>1 DEF SlaveStep, busVars, Types
<1>2. CASE clk
  <2>1. (mem = [b \in Bytes |-> mem[b]])'
    BY <1>2 DEF SlaveStep
  <2>2. /\ rrsp' = {[tag |-> o.tag, err |-> err, data |-> ReadOf(o)] : o \in reads}
        /\ brsp' = {[tag |-> o.tag, err |-> err, data |-> None] : o \in writes}
    BY <1>2 DEF SlaveStep
  <2> QED  BY <2>1, <2>2
<1> QED  BY <1>1, <1>2

LEMMA TypesKept ==
    ASSUME Types, TagsInv, NEW x, Clock(x)
    PROVE  Types'
<1>1. setting' = setting /\ clk_q' = x.clk /\ x.clk \in BOOLEAN /\ x.op \in Pkt
  BY DEF Clock, CoreSide
<1>2. x.nbfreeze \in BOOLEAN /\ x.cancel \in BOOLEAN
  <2>1. setting \in Settings
    BY DEF Types
  <2> QED  BY <2>1, SettingIs DEF Clock, NbFreezes, Cancels
<1>3. PipeStep(x.f, x.op, x.nbfreeze, x.cancel) /\ IbufStep(x.f) /\ EntryStep(x.f, x.clk)
  BY DEF Clock, CoreSide
<1>4. (/\ dc1 \in Pkt /\ dc2 \in Pkt /\ Dc3Of(dc3) /\ StageOf(dc4) /\ StageOf(dc5)
       /\ dc3.busreq => External(dc3.op)
       /\ dc4.busreq => External(dc4.op)
       /\ dc5.busreq => External(dc5.op)
       /\ ld_freeze \in BOOLEAN /\ FreezePtr \in Tag)'
  BY <1>1, <1>2, <1>3, PipeTypes
<1>5. (IbufOf(ibuf) /\ ibuf.timer <= TIMER_MAX)'
  BY <1>1, <1>3, IbufTypes
<1>6. (buf = [i \in Tag |-> buf[i]] /\ (\A i \in Tag : EntryOf(buf[i])) /\ ageQ \in [Tag -> SUBSET Tag])'
  BY <1>1, <1>3, EntryTypes
<1>7. (ObufOf(obuf) /\ obuf_timer \in 0 .. TIMER_MAX)'
  BY <1>1, ObufTypes DEF Clock
<1>8. (want = [t \in Tag |-> want[t]] /\ arch \in [Bytes -> Values])'
  BY GhostTypes DEF Clock
<1>9. (mem = [b \in Bytes |-> mem[b]] /\ \A a \in rrsp \cup brsp : a.err \in BOOLEAN)'
  BY SlaveTypes DEF Clock
<1>10. (setting \in Settings /\ clk_q \in BOOLEAN)'
  BY <1>1 DEF Types
<1> QED  BY <1>4, <1>5, <1>6, <1>7, <1>8, <1>9, <1>10 DEF Types

-----------------------------------------------------------------------------
(* Tags are kept *)
LEMMA HeldIs ==
    ASSUME Types
    PROVE  /\ Held \subseteq Tag /\ IsFiniteSet(Held) /\ Cardinality(Held) \in Nat
           /\ FreeTags = Tag \ Held /\ Cardinality(FreeTags) = DEPTH - Cardinality(Held)
           /\ Busy \subseteq Tag /\ IbufTag \subseteq Tag /\ Reserved(dc4) \subseteq Tag /\ Reserved(dc5) \subseteq Tag
<1>1. Busy \subseteq Tag /\ IbufTag \subseteq Tag /\ Reserved(dc4) \subseteq Tag /\ Reserved(dc5) \subseteq Tag
  BY DEF Busy, IbufTag, Reserved, Types, StageOf, IbufOf
<1>2. Held \subseteq Tag /\ FreeTags = Tag \ Held
  BY <1>1 DEF Held, Busy, FreeTags
<1>3. IsFiniteSet(Held) /\ Cardinality(Held) \in Nat
  BY <1>2, TagIs, FS_Subset, FS_CardinalityType
<1>4. Cardinality(Tag \ Held) = Cardinality(Tag) - Cardinality(Tag \cap Held)
  BY TagIs, FS_Difference
<1>5. Tag \cap Held = Held
  BY <1>2
<1> QED  BY <1>1, <1>2, <1>3, <1>4, <1>5, TagIs

LEMMA SlotsAre ==
    ASSUME setting \in Settings, NEW op \in Pkt, NEW req \in BOOLEAN
    PROVE  /\ Slots(op) \in 0 .. 2 /\ BusSlots(req, op) \in 0 .. 2 /\ BusSlots(req, op) <= Slots(op)
           /\ External(op) => BusSlots(req, op) = IF req THEN IF Dual(op) THEN 2 ELSE 1 ELSE 0
           /\ Valid(op) => op \in Ops
<1>1. CASE op \in Ops
  BY <1>1, OpIs DEF BusSlots, External
<1>2. CASE op = NoOp
  BY <1>2, NoOpIs, OpIs DEF BusSlots, External
<1> QED  BY <1>1, <1>2 DEF Pkt

LEMMA PtrsAreFree ==
    ASSUME Types, TagsInv, dc3.busreq
    PROVE  /\ WrPtr0_dc3 \in FreeTags
           /\ Dual(dc3.op) => WrPtr1_dc3 \in FreeTags /\ WrPtr0_dc3 # WrPtr1_dc3
           /\ Cardinality(FreeTags) >= Slots(dc3.op)
<1>1. setting \in Settings /\ External(dc3.op) /\ dc3.op \in Pkt /\ dc1 \in Pkt /\ dc2 \in Pkt
  BY DEF Types, Dc3Of
<1>2. BusSlots(dc3.busreq, dc3.op) = (IF Dual(dc3.op) THEN 2 ELSE 1) /\ Slots(dc3.op) = IF Dual(dc3.op) THEN 2 ELSE 1
  BY <1>1, SlotsAre, OpIs DEF External
<1>3. Slots(dc1) \in Nat /\ BusSlots(dc2.bytes # {}, dc2) \in Nat
  <2>1. Slots(dc1) \in 0 .. 2 /\ Slots(dc2) \in 0 .. 2
    BY <1>1, SlotsAre
  <2> QED  BY <2>1 DEF BusSlots
<1>4. Cardinality(FreeTags) >= IF Dual(dc3.op) THEN 2 ELSE 1
  <2>1. Slots(dc1) + BusSlots(dc2.bytes # {}, dc2) + BusSlots(dc3.busreq, dc3.op) + Cardinality(Held) <= DEPTH
    BY DEF TagsInv
  <2>2. Cardinality(Held) \in Nat /\ Cardinality(FreeTags) = DEPTH - Cardinality(Held) /\ DEPTH \in Nat
    BY HeldIs, TagIs
  <2> DEFINE a == Slots(dc1)
             b == BusSlots(dc2.bytes # {}, dc2)
             c == BusSlots(dc3.busreq, dc3.op)
             h == Cardinality(Held)
             n == Cardinality(FreeTags)
  <2>3. a + b + c + h <= DEPTH /\ a \in Nat /\ b \in Nat /\ h \in Nat /\ n = DEPTH - h /\ DEPTH \in Nat
        /\ c = IF Dual(dc3.op) THEN 2 ELSE 1
    BY <1>2, <1>3, <2>1, <2>2
  <2> HIDE DEF a, b, c, h, n
  <2>4. c <= n
    BY <2>3
  <2> QED  BY <2>3, <2>4 DEF n
<1>5. IsFiniteSet(FreeTags) /\ FreeTags \subseteq Tag
  BY HeldIs, TagIs, FS_Subset
<1>6. FreeTags # {}
  BY <1>4, <1>5, FS_EmptySet
<1>7. WrPtr0_dc3 \in FreeTags
  BY <1>5, <1>6, FirstIs DEF WrPtr0_dc3
<1>8. ASSUME Dual(dc3.op) PROVE WrPtr1_dc3 \in FreeTags \ {WrPtr0_dc3}
  <2>1. Cardinality(FreeTags \ {WrPtr0_dc3}) = Cardinality(FreeTags) - 1 /\ IsFiniteSet(FreeTags \ {WrPtr0_dc3})
    BY <1>5, <1>7, FS_RemoveElement
  <2>2. Cardinality(FreeTags) \in Nat /\ Cardinality(FreeTags) >= 2
    BY <1>4, <1>5, <1>8, FS_CardinalityType
  <2>3. FreeTags \ {WrPtr0_dc3} # {}
    BY <2>1, <2>2, FS_EmptySet
  <2> QED  BY <1>5, <2>3, FirstIs DEF WrPtr1_dc3
<1> QED  BY <1>2, <1>4, <1>7, <1>8

(* How the operations move along the pipe, as long as they hold tags. *)
LEMMA BusreqMoves ==
    ASSUME Types, TagsInv, NEW f, NEW op \in Pkt, NEW nbfreeze, NEW cancel, PipeStep(f, op, nbfreeze, cancel)
    PROVE  /\ dc5'.busreq = (dc4.busreq /\ ~flush_dc5(f))
           /\ dc5'.busreq => dc5'.op = dc4.op /\ dc5'.p0 = dc4.p0 /\ dc5'.p1 = dc4.p1 /\ dc5'.nb = dc4.nb
           /\ dc4'.busreq = (dc3.busreq /\ ~flush_dc4(f))
           /\ dc4'.busreq => /\ dc4'.op = dc3.op /\ dc4'.p0 = WrPtr0_dc3 /\ dc4'.p1 = (IF Dual(dc3.op) THEN WrPtr1_dc3 ELSE 0)
                             /\ dc4'.nb = lsu_nonblock_load_valid_dc3(f)
<1>1. /\ dc5'.busreq = (dc4.busreq /\ ~flush_dc5(f))
      /\ dc5'.busreq => dc5'.op = dc4.op /\ dc5'.p0 = dc4.p0 /\ dc5'.p1 = dc4.p1 /\ dc5'.nb = dc4.nb
  <2> DEFINE valid  == dc4.valid /\ ~flush_dc4(f)
             busreq == dc4.busreq /\ ~flush_dc5(f)
             fwd == IF valid THEN dc4.fwd ELSE None
  <2>1. dc5' = IF ~valid /\ ~busreq THEN NoStage
               ELSE [dc4 EXCEPT !.valid = valid, !.busreq = busreq, !.fwd = fwd,
                                !.cancelled = valid /\ dc4.cancelled]
    BY DEF PipeStep, Dc5In
  <2>2. busreq \in BOOLEAN /\ StageOf(dc4) /\ ~NoStage.busreq /\ NoStage.busreq \in BOOLEAN
    BY BlankIs DEF Types, StageOf, NoStage
  <2>3. busreq = (dc4.busreq /\ ~flush_dc5(f))
    OBVIOUS
  <2> HIDE DEF valid, busreq, fwd
  <2>4. dc5'.busreq = busreq /\ (busreq => dc5'.op = dc4.op /\ dc5'.p0 = dc4.p0 /\ dc5'.p1 = dc4.p1 /\ dc5'.nb = dc4.nb)
    BY <2>1, <2>2 DEF StageOf
  <2> QED  BY <2>3, <2>4
<1>2. /\ dc4'.busreq = (dc3.busreq /\ ~flush_dc4(f))
      /\ dc4'.busreq => /\ dc4'.op = dc3.op /\ dc4'.p0 = WrPtr0_dc3 /\ dc4'.p1 = (IF Dual(dc3.op) THEN WrPtr1_dc3 ELSE 0)
                        /\ dc4'.nb = lsu_nonblock_load_valid_dc3(f)
  <2> DEFINE valid  == Valid(dc3.op) /\ ~flush_dc3(f) /\ ~lsu_freeze_dc3(f)
             busreq == dc3.busreq /\ ~flush_dc4(f)
             p0 == IF busreq THEN WrPtr0_dc3 ELSE 0
             p1 == IF busreq /\ Dual(dc3.op) THEN WrPtr1_dc3 ELSE 0
             fwd == IF valid THEN dc3.fwd ELSE None
             nb == lsu_nonblock_load_valid_dc3(f)
  <2>1. dc4' = IF ~valid /\ ~busreq THEN NoStage
               ELSE [op |-> dc3.op, valid |-> valid, busreq |-> busreq, nb |-> nb,
                     p0 |-> p0, p1 |-> p1, fwd |-> fwd, cancelled |-> valid /\ dc3.cancelled]
    BY DEF PipeStep, Dc4In
  <2>2. busreq \in BOOLEAN /\ ~NoStage.busreq /\ NoStage.busreq \in BOOLEAN
    BY BlankIs DEF Types, NoStage
  <2>3. busreq = (dc3.busreq /\ ~flush_dc4(f)) /\ nb = lsu_nonblock_load_valid_dc3(f)
        /\ (busreq => p0 = WrPtr0_dc3 /\ p1 = IF Dual(dc3.op) THEN WrPtr1_dc3 ELSE 0)
    OBVIOUS
  <2> HIDE DEF valid, busreq, fwd, p0, p1, nb
  <2>4. dc4'.busreq = busreq /\ (busreq => dc4'.op = dc3.op /\ dc4'.p0 = p0 /\ dc4'.p1 = p1 /\ dc4'.nb = nb)
    BY <2>1, <2>2
  <2> QED  BY <2>3, <2>4
<1> QED  BY <1>1, <1>2

LEMMA ReservedCount ==
    ASSUME NEW stage, stage.busreq => stage.op \in Pkt /\ Slots(stage.op) = (IF Dual(stage.op) THEN 2 ELSE 1)
    PROVE  IsFiniteSet(Reserved(stage)) /\ Cardinality(Reserved(stage)) \in Nat
           /\ Cardinality(Reserved(stage)) <= BusSlots(stage.busreq, stage.op)
           /\ (stage.busreq /\ (Dual(stage.op) => stage.p0 # stage.p1)
                 => Cardinality(Reserved(stage)) = BusSlots(stage.busreq, stage.op))
<1> DEFINE n == BusSlots(stage.busreq, stage.op)
           R == Reserved(stage)
<1>1. CASE ~stage.busreq
  <2>1. R = {} /\ n = 0
    BY <1>1 DEF Reserved, BusSlots
  <2> HIDE DEF R, n
  <2>2. IsFiniteSet(R) /\ Cardinality(R) = 0
    BY <2>1, FS_EmptySet
  <2>3. Cardinality(R) \in Nat /\ Cardinality(R) <= n /\ Cardinality(R) = n
    BY <2>1, <2>2
  <2> QED  BY <1>1, <2>2, <2>3 DEF R, n
<1>2. CASE stage.busreq /\ ~Dual(stage.op)
  <2>1. R = {stage.p0} /\ n = 1
    BY <1>2 DEF Reserved, BusSlots
  <2> HIDE DEF R, n
  <2>2. IsFiniteSet(R) /\ Cardinality(R) = 1
    BY <2>1, FS_Singleton
  <2>3. Cardinality(R) \in Nat /\ Cardinality(R) <= n /\ Cardinality(R) = n
    BY <2>1, <2>2
  <2> QED  BY <1>2, <2>2, <2>3 DEF R, n
<1>3. CASE stage.busreq /\ Dual(stage.op)
  <2> DEFINE a == stage.p0
             b == stage.p1
  <2>1. R = {a, b} /\ n = 2
    BY <1>3 DEF Reserved, BusSlots
  <2> HIDE DEF R, n, a, b
  <2>2. a = b => IsFiniteSet(R) /\ Cardinality(R) = 1
    <3>1. a = b => R = {a}
      BY <2>1
    <3> QED  BY <3>1, FS_Singleton
  <2>3. a # b => IsFiniteSet(R) /\ Cardinality(R) = 2
    <3>1. a # b => IsFiniteSet({a, b}) /\ Cardinality({a, b}) = 2
      BY PairIs, Zenon
    <3> QED  BY <2>1, <3>1
  <2>4. IsFiniteSet(R) /\ Cardinality(R) \in Nat /\ Cardinality(R) <= n /\ (a # b => Cardinality(R) = n)
    BY <2>1, <2>2, <2>3
  <2> QED  BY <1>3, <2>4 DEF R, n, a, b
<1> QED  BY <1>1, <1>2, <1>3

LEMMA TagsDisjoint ==
    ASSUME Types, TagsInv, NEW x, Clock(x)
    PROVE  /\ (Busy \cap IbufTag = {})'
           /\ ((Busy \cup IbufTag) \cap (Reserved(dc4) \cup Reserved(dc5)) = {})'
           /\ (Reserved(dc4) \cap Reserved(dc5) = {})'
           /\ (dc4.busreq /\ Dual(dc4.op) => dc4.p0 # dc4.p1)'
           /\ (dc5.busreq /\ Dual(dc5.op) => dc5.p0 # dc5.p1)'
           /\ Reserved(dc5)' \subseteq Reserved(dc4) /\ Reserved(dc4)' \subseteq FreeTags
           /\ Busy' \cup IbufTag' \subseteq Busy \cup IbufTag \cup Reserved(dc5)
<1>1. PipeStep(x.f, x.op, x.nbfreeze, x.cancel) /\ IbufStep(x.f) /\ EntryStep(x.f, x.clk) /\ x.clk \in BOOLEAN /\ x.op \in Pkt
  BY DEF Clock, CoreSide
<1>2. /\ dc5'.busreq => dc4.busreq /\ dc5'.op = dc4.op /\ dc5'.p0 = dc4.p0 /\ dc5'.p1 = dc4.p1
      /\ dc4'.busreq => /\ dc3.busreq /\ dc4'.op = dc3.op /\ dc4'.p0 = WrPtr0_dc3
                        /\ dc4'.p1 = (IF Dual(dc3.op) THEN WrPtr1_dc3 ELSE 0)
  BY <1>1, BusreqMoves
<1>3. Reserved(dc5)' \subseteq Reserved(dc4) /\ (dc5.busreq /\ Dual(dc5.op) => dc5.p0 # dc5.p1)'
  BY <1>2 DEF Reserved, TagsInv
<1>4. Reserved(dc4)' \subseteq FreeTags /\ (dc4.busreq /\ Dual(dc4.op) => dc4.p0 # dc4.p1)'
  BY <1>2, PtrsAreFree DEF Reserved
<1>5. Busy' \subseteq Busy \cup Alloc(x.f)
  <2>1. \A i \in Tag : i \notin Alloc(x.f) /\ buf[i].state = "IDLE" => buf'[i].state = "IDLE"
    BY <1>1, StateMoves
  <2> QED  BY <2>1 DEF Busy
<1>6. /\ Alloc(x.f) \subseteq IbufTag \cup Reserved(dc5)
      /\ IbufTag' \subseteq IbufTag \cup Reserved(dc5) /\ IbufTag' \cap Alloc(x.f) = {}
  BY <1>1, AllocIs DEF Alloc
<1>7. FreeTags = Tag \ Held
  BY HeldIs
<1> QED  BY <1>3, <1>4, <1>5, <1>6, <1>7 DEF TagsInv, Held

LEMMA TagsCounted ==
    ASSUME Types, TagsInv, NEW x, Clock(x)
    PROVE  (Slots(dc1) + BusSlots(dc2.bytes # {}, dc2) + BusSlots(dc3.busreq, dc3.op) + Cardinality(Held) <= DEPTH)'
<1>1. /\ PipeStep(x.f, x.op, x.nbfreeze, x.cancel) /\ MayIssue(x.op, x.f) /\ x.op \in Pkt
      /\ setting \in Settings /\ dc1 \in Pkt /\ dc2 \in Pkt /\ dc3.op \in Pkt /\ dc4.op \in Pkt /\ dc5.op \in Pkt
      /\ dc3.busreq \in BOOLEAN /\ dc4.busreq \in BOOLEAN /\ dc5.busreq \in BOOLEAN
  BY DEF Clock, CoreSide, Types, Dc3Of, StageOf
<1> DEFINE s1 == Slots(dc1)
           n2 == BusSlots(dc2.bytes # {}, dc2)
           r2 == BusSlots(lsu_busreq_dc2(x.f), dc2)
           n3 == BusSlots(dc3.busreq, dc3.op)
           n4 == BusSlots(dc4.busreq, dc4.op)
           n5 == BusSlots(dc5.busreq, dc5.op)
           h == Cardinality(Held)
           t1 == Slots(dc1')
           t2 == BusSlots(dc2'.bytes # {}, dc2')
           t3 == BusSlots(dc3'.busreq, dc3'.op)
           k == Cardinality(Held')
           c == Cardinality(IbufTag)
           d == Cardinality(Busy)
<1>2. s1 \in 0 .. 2 /\ n2 \in 0 .. 2 /\ r2 \in 0 .. 2 /\ n3 \in 0 .. 2 /\ n4 \in 0 .. 2 /\ n5 \in 0 .. 2
  <2>1. \A op \in Pkt : Slots(op) \in 0 .. 2
    BY <1>1, SlotsAre
  <2> QED  BY <1>1, <2>1 DEF BusSlots
<1>3. h \in Nat /\ s1 + n2 + n3 + h <= DEPTH /\ DEPTH \in Nat
  BY HeldIs, TagIs DEF TagsInv
<1>4. k \in Nat /\ k <= h + n3
  <2>1. Held' \subseteq Held \cup Reserved(dc4)'
    BY TagsDisjoint DEF Held
  <2>2. IsFiniteSet(Reserved(dc4)') /\ Cardinality(Reserved(dc4)') <= n3
    <3>1. Types' /\ dc4'.busreq = (dc3.busreq /\ ~flush_dc4(x.f)) /\ (dc4'.busreq => dc4'.op = dc3.op)
      BY <1>1, TypesKept, BusreqMoves
    <3>2. dc4'.busreq => dc4'.op \in Pkt /\ Slots(dc4'.op) = (IF Dual(dc4'.op) THEN 2 ELSE 1)
      <4>1. dc4'.busreq => External(dc3.op)
        BY <3>1 DEF Types
      <4> QED  BY <1>1, <3>1, <4>1, OpIs DEF External
    <3>3. IsFiniteSet(Reserved(dc4')) /\ Cardinality(Reserved(dc4')) <= BusSlots(dc4'.busreq, dc4'.op)
      BY <3>2, ReservedCount
    <3>4. BusSlots(dc4'.busreq, dc4'.op) <= n3
      <4>1. CASE dc4'.busreq
        <5>1. BusSlots(dc4'.busreq, dc4'.op) = Slots(dc3.op)
          BY <3>1, <4>1 DEF BusSlots
        <5>2. n3 = Slots(dc3.op)
          BY <3>1, <4>1 DEF BusSlots
        <5> HIDE DEF n3
        <5> QED  BY <1>2, <5>1, <5>2
      <4>2. CASE ~dc4'.busreq
        BY <1>2, <4>2 DEF BusSlots
      <4> QED  BY <4>1, <4>2
    <3>5. BusSlots(dc4'.busreq, dc4'.op) \in Nat
      BY <3>2 DEF BusSlots
    <3>6. Reserved(dc4)' = Reserved(dc4')
      BY DEF Reserved
    <3>7. Cardinality(Reserved(dc4')) \in Nat
      BY <3>2, ReservedCount
    <3> HIDE DEF n3
    <3> QED  BY <1>2, <3>3, <3>4, <3>5, <3>6, <3>7
  <2> DEFINE R == Reserved(dc4)'
             H == Held
             G == Held'
  <2>3. IsFiniteSet(H) /\ IsFiniteSet(R) /\ G \subseteq H \cup R /\ Cardinality(R) <= n3
    BY <2>1, <2>2, HeldIs
  <2> HIDE DEF R, H, G
  <2>4. IsFiniteSet(H \cup R) /\ Cardinality(H \cup R) = Cardinality(H) + Cardinality(R) - Cardinality(H \cap R)
    BY <2>3, FS_Union
  <2>5. IsFiniteSet(H \cap R) /\ Cardinality(H \cap R) \in Nat /\ Cardinality(H) \in Nat /\ Cardinality(R) \in Nat
    <3>1. H \cap R \in SUBSET H
      OBVIOUS
    <3> QED  BY <2>3, <3>1, FS_Subset, FS_CardinalityType
  <2>6. IsFiniteSet(G) /\ Cardinality(G) \in Nat /\ Cardinality(G) <= Cardinality(H \cup R)
    BY <2>3, <2>4, FS_Subset, FS_CardinalityType
  <2>7. Cardinality(G) <= Cardinality(H) + n3
    <3> HIDE DEF n3
    <3> QED  BY <1>2, <2>3, <2>4, <2>5, <2>6
  <2> QED  BY <2>6, <2>7 DEF G, H
<1>5. h <= n4 + n5 + c + d /\ c \in Nat /\ d \in Nat
  <2>1. \A s \in {dc4, dc5} : s.busreq => s.op \in Pkt /\ Slots(s.op) = (IF Dual(s.op) THEN 2 ELSE 1)
    <3>1. \A s \in {dc4, dc5} : s.busreq => External(s.op)
      BY DEF Types
    <3> QED  BY <1>1, <3>1, OpIs DEF External
  <2>2. /\ IsFiniteSet(Reserved(dc4)) /\ Cardinality(Reserved(dc4)) <= n4 /\ Cardinality(Reserved(dc4)) \in Nat
        /\ IsFiniteSet(Reserved(dc5)) /\ Cardinality(Reserved(dc5)) <= n5 /\ Cardinality(Reserved(dc5)) \in Nat
    BY <2>1, ReservedCount
  <2>3. IsFiniteSet(Busy) /\ IsFiniteSet(IbufTag)
    BY HeldIs, TagIs, FS_Subset
  <2>4. c \in Nat /\ d \in Nat
    BY <2>3, FS_CardinalityType
  <2> DEFINE A == Busy
             B == IbufTag
             C == Reserved(dc4)
             D == Reserved(dc5)
  <2>5. /\ IsFiniteSet(A) /\ IsFiniteSet(B) /\ IsFiniteSet(C) /\ IsFiniteSet(D)
        /\ Cardinality(A) \in Nat /\ Cardinality(B) \in Nat /\ Cardinality(C) \in Nat /\ Cardinality(D) \in Nat
    BY <2>2, <2>3, <2>4
  <2>6. Held = A \cup B \cup C \cup D
    BY DEF Held
  <2> HIDE DEF A, B, C, D
  <2>7. /\ IsFiniteSet(A \cup B)
        /\ Cardinality(A \cup B) = Cardinality(A) + Cardinality(B) - Cardinality(A \cap B) 
    BY <2>5, FS_Union
  <2>8. /\ IsFiniteSet(A \cup B \cup C)
        /\ Cardinality((A \cup B) \cup C) = Cardinality(A \cup B) + Cardinality(C) - Cardinality((A \cup B) \cap C)
    BY <2>5, <2>7, FS_Union
  <2>9. Cardinality((A \cup B \cup C) \cup D) = Cardinality(A \cup B \cup C) + Cardinality(D) - Cardinality((A \cup B \cup C) \cap D)
    BY <2>5, <2>8, FS_Union
  <2>10. Cardinality(A \cap B) \in Nat /\ Cardinality((A \cup B) \cap C) \in Nat /\ Cardinality((A \cup B \cup C) \cap D) \in Nat
    <3>1. A \cap B \in SUBSET A /\ (A \cup B) \cap C \in SUBSET C /\ (A \cup B \cup C) \cap D \in SUBSET D
      OBVIOUS
    <3> QED  BY <2>5, <3>1, FS_Subset, FS_CardinalityType
  <2>11. h <= Cardinality(A) + Cardinality(B) + Cardinality(C) + Cardinality(D)
    <3> DEFINE u == Cardinality(A \cup B)
               v == Cardinality(A \cup B \cup C)
               w == Cardinality(A \cup B \cup C \cup D)
    <3>1. u \in Nat /\ v \in Nat
      BY <2>7, <2>8, FS_CardinalityType
    <3>2. u <= Cardinality(A) + Cardinality(B)
      BY <2>5, <2>7, <2>10
    <3>3. v <= u + Cardinality(C)
      <4> HIDE DEF u
      <4>1. v = u + Cardinality(C) - Cardinality((A \cup B) \cap C)
        BY <2>8 DEF u
      <4> QED  BY <2>5, <2>10, <3>1, <4>1
    <3>4. w <= v + Cardinality(D)
      <4>1. w = v + Cardinality(D) - Cardinality((A \cup B \cup C) \cap D)
        BY <2>9
      <4> HIDE DEF v, w
      <4> QED  BY <2>5, <2>10, <3>1, <4>1
    <3>5. h = w
      BY <2>6
    <3> HIDE DEF u, v, w, h
    <3> QED  BY <1>3, <2>5, <3>1, <3>2, <3>3, <3>4, <3>5
  <2> DEFINE ca == Cardinality(A)
             cb == Cardinality(B)
             cc == Cardinality(C)
             cd == Cardinality(D)
  <2>12. ca = d /\ cb = c /\ cc <= n4 /\ cd <= n5
    BY <2>2 DEF A, B, C, D
  <2>13. h <= ca + cb + cc + cd /\ ca \in Nat /\ cb \in Nat /\ cc \in Nat /\ cd \in Nat
    BY <2>5, <2>11
  <2> HIDE DEF ca, cb, cc, cd, h, n4, n5, c, d
  <2> QED  BY <1>2, <1>3, <2>4, <2>12, <2>13
<1>6. CASE lsu_freeze_dc3(x.f)
  <2>1. dc1' = dc1 /\ dc2' = dc2 /\ dc3' = [dc3 EXCEPT !.busreq = FALSE, !.nbfreeze = FALSE, !.cancelled = @ \/ x.cancel]
    BY <1>1, <1>6 DEF PipeStep
  <2>2. dc3'.busreq = FALSE
    BY <2>1 DEF Types, Dc3Of
  <2>3. t1 = s1 /\ t2 = n2 /\ t3 = 0
    BY <2>1, <2>2 DEF BusSlots
  <2>4. t1 + t2 + t3 + k <= DEPTH
    <3> HIDE DEF t1, t2, t3, s1, n2, n3, h, k
    <3> QED  BY <1>2, <1>3, <1>4, <2>3
  <2> QED  BY <2>4
<1>7. CASE ~lsu_freeze_dc3(x.f)
  <2>1. dc1' = x.op /\ dc2' = (IF flush_dc2_up(x.f) THEN NoOp ELSE dc1) /\ dc3' = Dc3In(x.f, x.nbfreeze)
    BY <1>1, <1>7 DEF PipeStep
  <2>2. t3 \in Nat /\ t3 <= r2
    <3>1. CASE ~Valid(dc2) \/ flush_dc2_up(x.f)
      <4>1. dc3' = NoDc3 /\ ~NoDc3.busreq
        BY <2>1, <3>1, BlankIs DEF Dc3In
      <4> QED  BY <1>2, <4>1 DEF BusSlots
    <3>2. CASE ~(~Valid(dc2) \/ flush_dc2_up(x.f))
      <4>1. dc3'.op = dc2 /\ dc3'.busreq = (lsu_busreq_dc2(x.f) /\ ~ld_full_hit_dc2(x.f))
        BY <2>1, <3>2 DEF Dc3In
      <4>2. CASE dc3'.busreq
        <5>1. t3 = Slots(dc2)
          BY <4>1, <4>2 DEF BusSlots
        <5>2. r2 = Slots(dc2)
          BY <4>1, <4>2 DEF BusSlots
        <5> HIDE DEF t3, r2
        <5> QED  BY <1>2, <5>1, <5>2
      <4>3. CASE ~dc3'.busreq
        BY <1>2, <4>3 DEF BusSlots
      <4> QED  BY <4>2, <4>3
    <3> QED  BY <3>1, <3>2
  <2>3. t2 \in Nat /\ t2 <= s1
    <3>1. CASE flush_dc2_up(x.f)
      BY <1>2, <2>1, <3>1, NoOpIs DEF BusSlots
    <3>2. CASE ~flush_dc2_up(x.f)
      BY <1>2, <2>1, <3>2 DEF BusSlots
    <3> QED  BY <3>1, <3>2
  <2>4. r2 <= n2
    <3>1. lsu_busreq_dc2(x.f) => dc2.bytes # {}
      BY DEF lsu_busreq_dc2
    <3>2. CASE lsu_busreq_dc2(x.f)
      BY <1>2, <3>1, <3>2 DEF BusSlots
    <3>3. CASE ~lsu_busreq_dc2(x.f)
      BY <1>2, <3>3 DEF BusSlots
    <3> QED  BY <3>2, <3>3
  <2>5. CASE x.op = NoOp
    <3>1. t1 = 0
      BY <2>1, <2>5, NoOpIs
    <3>2. t1 + t2 + t3 + k <= DEPTH
      <4> HIDE DEF t1, t2, t3, s1, n2, r2, n3, h, k
      <4> QED  BY <1>2, <1>3, <1>4, <2>2, <2>3, <2>4, <3>1
    <3> QED  BY <3>2
  <2>6. CASE x.op # NoOp
    <3>1. ~lsu_bus_buffer_full_any(x.f)
      BY <1>1, <2>6 DEF MayIssue
    <3>2. s1 + r2 + n3 + n4 + n5 + c + d < DEPTH - 1
      <4>1. buf_numvld_any(x.f) = s1 + r2 + n3 + n4 + n5 + c + d
        BY DEF buf_numvld_any, Busy
      <4>2. s1 + r2 + n3 + n4 + n5 + c + d \in Nat
        <5> HIDE DEF s1, r2, n3, n4, n5, c, d
        <5> QED  BY <1>2, <1>5
      <4> HIDE DEF s1, r2, n3, n4, n5, c, d
      <4> QED  BY <1>3, <3>1, <4>1, <4>2 DEF lsu_bus_buffer_full_any
    <3>3. t1 \in 0 .. 2
      BY <1>1, <2>1, SlotsAre
    <3>4. t1 + t2 + t3 + k <= DEPTH
      <4> HIDE DEF t1, t2, t3, s1, n2, r2, n3, n4, n5, c, d, h, k
      <4> QED  BY <1>2, <1>3, <1>4, <1>5, <2>2, <2>3, <3>2, <3>3
    <3> QED  BY <3>4
  <2> QED  BY <2>5, <2>6
<1> QED  BY <1>6, <1>7

LEMMA TagsKept ==
    ASSUME Types, TagsInv, NEW x, Clock(x)
    PROVE  TagsInv'
  BY TagsDisjoint, TagsCounted DEF TagsInv

-----------------------------------------------------------------------------
(* Commands *)

(* What comes into obuf is a new entry, that of a store that bypasses      *)
(* ibuf, or one whose command was waiting.                                 *)
LEMMA RefillIs ==
    ASSUME Types, TagsInv, NEW f, NEW r, IbufStep(f), EntryStep(f, TRUE), obuf_wr_en(f, r)
    PROVE  LET o == ObufIn(f)
           IN  /\ o.valid = TRUE /\ o.wren = TRUE /\ o.cmd_done = FALSE /\ o.data_done = FALSE /\ o.tag \in Tag
               /\ buf'[o.tag].state = "CMD" /\ o.write = buf'[o.tag].write /\ o.dw = buf'[o.tag].dw
               /\ o.bytes = buf'[o.tag].bytes /\ o.data = buf'[o.tag].data
               /\ \/ ibuf_buf_byp(f) /\ Takes(f) /\ LowAlloc(f) = {o.tag} /\ o.tag = dc5.p0 /\ Bypasses(f) /\ Pending = {}
                  \/ ~ibuf_buf_byp(f) /\ o.tag \in CmdPtr0Dec /\ o.tag \notin Alloc(f)
               /\ buf[o.tag].state = "CMD" \/ buf[o.tag].state = "IDLE"
<1> DEFINE from == IF ibuf_buf_byp(f) THEN FromDc5(f, TRUE, FALSE) ELSE buf[CmdPtr0]
           tag == IF ibuf_buf_byp(f) THEN dc5.p0 ELSE CmdPtr0
           o == ObufIn(f)
<1>1. o = [valid |-> TRUE, write |-> from.write, dw |-> from.dw, tag |-> tag, bytes |-> from.bytes, data |-> from.data,
           cmd_done |-> FALSE, data_done |-> FALSE, wren |-> TRUE]
  BY DEF ObufIn
<1> HIDE DEF from, tag, o
<1>2. /\ o.valid = TRUE /\ o.wren = TRUE /\ o.cmd_done = FALSE /\ o.data_done = FALSE /\ o.tag = tag
      /\ o.write = from.write /\ o.dw = from.dw /\ o.bytes = from.bytes /\ o.data = from.data
  BY <1>1
<1>3. CASE ibuf_buf_byp(f)
  <2>1. tag = dc5.p0 /\ from = FromDc5(f, TRUE, FALSE)
    BY <1>3 DEF tag, from
  <2>2. CmdPtr0Dec = {} /\ Pending = {} /\ ibuf_byp(f) /\ dc5.busreq /\ ~ibuf.valid
    BY <1>3 DEF ibuf_buf_byp, ibuf_byp, CmdPtr0Dec, Pending
  <2>3. Takes(f)
    BY <1>3, <2>2 DEF obuf_wr_en, Takes
  <2>4. LowAlloc(f) = {dc5.p0}
    BY <2>2, <2>3 DEF LowAlloc, ibuf_merge_en
  <2>5. dc5.p0 \in Tag
    BY <2>2, HalfTypes
  <2>6. buf[dc5.p0].state = "IDLE" /\ buf'[dc5.p0] = from
    BY <2>1, <2>4, <2>5, EntryMoves
  <2>7. from.state = "CMD"
    BY <2>1, <2>2, FromDc5Is
  <2>8. Bypasses(f)
    <3>1. Waits(f) \/ Bypasses(f) \/ Enters(f) \/ Merges(f) \/ MergesLow(f)
      BY SixCases
    <3>2. ~Waits(f) /\ ~Merges(f) /\ ~MergesLow(f)
      BY <2>3, <2>4 DEF Waits, Merges, MergesLow
    <3>3. ~Enters(f)
      BY <1>3, <2>4 DEF Enters, Low, ibuf_buf_byp
    <3> QED  BY <3>1, <3>2, <3>3
  <2> QED  BY <1>2, <1>3, <2>1, <2>2, <2>3, <2>4, <2>5, <2>6, <2>7, <2>8 DEF o
<1>4. CASE ~ibuf_buf_byp(f)
  <2>1. tag = CmdPtr0 /\ from = buf[tag]
    BY <1>4 DEF tag, from
  <2>2. CmdPtr0Dec # {} /\ CmdPtr0Dec \subseteq Tag
    BY <1>4 DEF obuf_wr_en, CmdPtr0Dec, PendingCmd
  <2>3. tag \in CmdPtr0Dec
    BY <2>1, <2>2, FirstIs DEF CmdPtr0
  <2>4. tag \in Tag /\ buf[tag].state = "CMD" /\ ~CmdSent(tag)
    BY <2>3 DEF CmdPtr0Dec, PendingCmd
  <2>5. tag \notin Alloc(f)
    BY <2>4, AllocIs DEF Busy
  <2>6. buf'[tag] = buf[tag]
    BY <2>4, <2>5, EntryMoves
  <2> QED  BY <1>2, <1>4, <2>1, <2>3, <2>4, <2>5, <2>6 DEF o
<1> QED  BY <1>3, <1>4

LEMMA SentIs ==
    ASSUME Types, CmdInv, NEW r
    PROVE  /\ bus_cmd_sent(r) => obuf.valid /\ ~bus_addr_match_pending
           /\ obuf.valid /\ bus_cmd_ready(r) /\ ~bus_addr_match_pending => bus_cmd_sent(r)
           /\ ~bus_cmd_sent(r) => ~(cmd_done(r) /\ data_done(r))
<1>1. ~obuf.valid => ~obuf.cmd_done /\ ~obuf.data_done
  BY DEF CmdInv, NoObuf
<1>2. obuf.valid => ~(obuf.cmd_done /\ obuf.data_done)
  BY DEF CmdInv
<1> QED  BY <1>1, <1>2 DEF bus_cmd_sent, bus_cmd_ready, cmd_done, data_done, awvalid, wvalid, arvalid

LEMMA ObufMoves ==
    ASSUME Types, CmdInv, NEW f, NEW clk \in BOOLEAN, NEW r, ObufStep(f, clk, r)
    PROVE  \/ ~clk /\ obuf' = obuf
           \/ clk /\ obuf_wr_en(f, r) /\ obuf' = ObufIn(f) /\ (obuf.valid => bus_cmd_sent(r))
           \/ clk /\ obuf' = NoObuf /\ (obuf.valid => bus_cmd_sent(r))
           \/ /\ clk /\ obuf.valid /\ ~bus_cmd_sent(r) /\ ~obuf_wr_en(f, r)
              /\ obuf' = [obuf EXCEPT !.cmd_done = cmd_done(r), !.data_done = data_done(r), !.wren = FALSE]
<1>1. CASE ~clk
  BY <1>1 DEF ObufStep
<1>2. CASE clk
  <2>1. obuf' = IF obuf_wr_en(f, r) THEN ObufIn(f)
                ELSE IF ~obuf.valid \/ bus_cmd_sent(r) THEN NoObuf
                ELSE [obuf EXCEPT !.cmd_done = cmd_done(r), !.data_done = data_done(r), !.wren = FALSE]
    BY <1>2 DEF ObufStep
  <2>2. obuf_wr_en(f, r) /\ obuf.valid => bus_cmd_sent(r)
    BY SentIs DEF obuf_wr_en
  <2> QED  BY <1>2, <2>1, <2>2
<1> QED  BY <1>1, <1>2

(* The registered answers of an entry, and those whose command is out. *)
LEMMA CmdUnique ==
    ASSUME Types, CmdInv
    PROVE  /\ \A o, p \in outstanding : o.tag = p.tag => o = p
           /\ \A i : (Answers(i) # {}) <=> i \in InRsp
           /\ \A i : CmdSent(i) <=> (i \in InObuf /\ obuf.wren)
           /\ InBus \subseteq Resp /\ InRsp \subseteq Resp /\ Resp \subseteq Tag
           /\ \A i \in InObuf : i = obuf.tag /\ obuf.valid
           /\ \A i \in InObuf : ~CmdSent(i) => i \in Resp
<1>1. \A o, p \in outstanding : o.tag = p.tag => o = p
  <2>1. ASSUME NEW o \in outstanding PROVE
          o = [tag |-> o.tag, write |-> buf[o.tag].write, dw |-> buf[o.tag].dw,
               bytes |-> buf[o.tag].bytes, data |-> buf[o.tag].data]
    BY DEF CmdInv
  <2>2. ASSUME NEW o \in outstanding, NEW p \in outstanding, o.tag = p.tag PROVE o = p
    <3>1. [tag |-> o.tag, write |-> buf[o.tag].write, dw |-> buf[o.tag].dw,
               bytes |-> buf[o.tag].bytes, data |-> buf[o.tag].data]
          = [tag |-> p.tag, write |-> buf[p.tag].write, dw |-> buf[p.tag].dw,
               bytes |-> buf[p.tag].bytes, data |-> buf[p.tag].data]
      BY <2>2
    <3> QED  BY <2>1, <3>1, Zenon
  <2> QED  BY <2>2
<1>2. \A i : (Answers(i) # {}) <=> i \in InRsp
  BY DEF Answers, InRsp
<1>3. InObuf = (IF obuf.valid THEN {obuf.tag} ELSE {})
      /\ (obuf.valid => buf[obuf.tag].state = (IF obuf.wren THEN "CMD" ELSE "RESP"))
  BY DEF InObuf, CmdInv
<1>4. \A i : CmdSent(i) <=> (i \in InObuf /\ obuf.wren)
  BY <1>3 DEF CmdSent
<1>5. InBus \subseteq Resp /\ InRsp \subseteq Resp /\ Resp \subseteq Tag
  BY DEF CmdInv, InBus, InRsp, Resp
<1>6. \A i \in InObuf : ~CmdSent(i) => i \in Resp
  BY <1>3, <1>4 DEF Resp, Types, ObufOf
<1> QED  BY <1>1, <1>2, <1>3, <1>4, <1>5, <1>6

LEMMA AnswersAre ==
    ASSUME NEW clk \in BOOLEAN, NEW write \in BOOLEAN, NEW as, as \in AnswerInputs(clk, write)
    PROVE  /\ as \subseteq outstanding /\ \A o \in as : o.write = write
           /\ \A o, p \in as : o = p
           /\ ~clk => as = {}
  BY DEF AnswerInputs

SentCmd == [tag |-> obuf.tag, write |-> obuf.write, dw |-> obuf.dw, bytes |-> obuf.bytes, data |-> obuf.data]
LEMMA SlaveMoves ==
    ASSUME Types, CmdInv, NEW x, Clock(x)
    PROVE  /\ x.reads \cup x.writes \subseteq outstanding /\ Performed(x) \subseteq InBus
           /\ ~x.clk => Performed(x) = {} /\ InBus' = InBus /\ InRsp' = InRsp
                        /\ outstanding' = outstanding /\ rrsp' = rrsp /\ brsp' = brsp /\ mem' = mem
           /\ x.clk => /\ InBus' = (InBus \ Performed(x)) \cup (IF bus_cmd_sent(x.ready) THEN {obuf.tag} ELSE {})
                       /\ InRsp' = Performed(x)
           /\ \A o \in outstanding' : \/ o \in outstanding /\ (o.tag \notin Performed(x))
                                      \/ x.clk /\ bus_cmd_sent(x.ready) /\ o = SentCmd
           /\ \A o \in outstanding : o.tag \notin Performed(x) => o \in outstanding'
           /\ x.clk => \A a \in rrsp' : \E o \in x.reads : a.tag = o.tag /\ a.data = ReadOf(o) /\ a.err = x.err
           /\ x.clk => \A a \in brsp' : \E o \in x.writes : a.tag = o.tag /\ a.err = x.err
           /\ x.clk => (\A a, b \in rrsp' : a = b) /\ (\A a, b \in brsp' : a = b)
<1>1. /\ x.reads \subseteq outstanding /\ x.writes \subseteq outstanding
      /\ \A o, p \in x.reads : o = p
      /\ \A o, p \in x.writes : o = p
      /\ ~x.clk => x.reads = {} /\ x.writes = {}
      /\ x.clk \in BOOLEAN
  BY AnswersAre DEF Clock
<1>2. Performed(x) = {o.tag : o \in x.reads \cup x.writes}
  BY DEF Performed
<1>3. SlaveStep(x.clk, x.ready, x.reads, x.writes, x.err)
  BY DEF Clock
<1>4. \A o, p \in outstanding : o.tag = p.tag => o = p
  BY CmdUnique
<1>5. \A o \in outstanding : o.tag \in Performed(x) <=> o \in x.reads \cup x.writes
  BY <1>1, <1>2, <1>4
<1>6. Performed(x) \subseteq InBus
  BY <1>1, <1>2 DEF InBus
<1>7. CASE ~x.clk
  <2>1. outstanding' = outstanding /\ rrsp' = rrsp /\ brsp' = brsp /\ mem' = mem
    BY <1>3, <1>7 DEF SlaveStep, busVars
  <2>2. InBus' = InBus /\ InRsp' = InRsp
    BY <2>1 DEF InBus, InRsp
  <2>3. Performed(x) = {}
    BY <1>1, <1>2, <1>7
  <2> QED  BY <1>1, <1>6, <1>7, <2>1, <2>2, <2>3
<1>8. CASE x.clk
  <2> DEFINE A == IF bus_cmd_sent(x.ready) THEN {SentCmd} ELSE {}
  <2>1. outstanding' = (outstanding \ (x.reads \cup x.writes)) \cup A
    BY <1>3, <1>8 DEF SlaveStep, Accepted, SentCmd
  <2>2. /\ rrsp' = {[tag |-> o.tag, err |-> x.err, data |-> ReadOf(o)] : o \in x.reads}
        /\ brsp' = {[tag |-> o.tag, err |-> x.err, data |-> None] : o \in x.writes}
    BY <1>3, <1>8 DEF SlaveStep
  <2>3. SentCmd.tag = obuf.tag
    BY DEF SentCmd
  <2>4. InBus' = (InBus \ Performed(x)) \cup (IF bus_cmd_sent(x.ready) THEN {obuf.tag} ELSE {})
    <3>1. InBus' = {o.tag : o \in outstanding'}
      BY DEF InBus
    <3>2. ASSUME NEW t PROVE t \in InBus' <=> \E o \in outstanding' : o.tag = t
      BY <3>1
    <3>3. ASSUME NEW t PROVE t \in InBus <=> \E o \in outstanding : o.tag = t
      BY DEF InBus
    <3>4. ASSUME NEW t PROVE (\E o \in outstanding' : o.tag = t) <=>
             \/ \E o \in outstanding : o.tag = t /\ t \notin Performed(x)
             \/ bus_cmd_sent(x.ready) /\ t = obuf.tag
      BY <1>5, <2>1, <2>3
    <3> QED  BY <3>2, <3>3, <3>4
  <2>5. InRsp' = Performed(x)
    <3>1. /\ \A a \in rrsp' : \E o \in x.reads : a.tag = o.tag
          /\ \A o \in x.reads : \E a \in rrsp' : a.tag = o.tag
      <4>1. \A a \in rrsp' : \E o \in x.reads : a.tag = o.tag
        BY <2>2
      <4>2. ASSUME NEW o \in x.reads PROVE \E a \in rrsp' : a.tag = o.tag
        <5> DEFINE a == [tag |-> o.tag, err |-> x.err, data |-> ReadOf(o)]
        <5>1. a \in rrsp' /\ a.tag = o.tag
          BY <2>2
        <5> QED  BY <5>1
      <4> QED  BY <4>1, <4>2
    <3>2. /\ \A a \in brsp' : \E o \in x.writes : a.tag = o.tag
          /\ \A o \in x.writes : \E a \in brsp' : a.tag = o.tag
      <4>1. \A a \in brsp' : \E o \in x.writes : a.tag = o.tag
        BY <2>2
      <4>2. ASSUME NEW o \in x.writes PROVE \E a \in brsp' : a.tag = o.tag
        <5> DEFINE a == [tag |-> o.tag, err |-> x.err, data |-> None]
        <5>1. a \in brsp' /\ a.tag = o.tag
          BY <2>2
        <5> QED  BY <5>1
      <4> QED  BY <4>1, <4>2
    <3>3. InRsp' = {a.tag : a \in rrsp' \cup brsp'}
      BY DEF InRsp
    <3>4. ASSUME NEW t PROVE t \in InRsp' <=> t \in Performed(x)
      BY <1>2, <3>1, <3>2, <3>3
    <3> QED  BY <3>4
  <2>6. \A a \in rrsp' : \E o \in x.reads : a.tag = o.tag /\ a.data = ReadOf(o) /\ a.err = x.err
    BY <2>2
  <2>7. \A a \in brsp' : \E o \in x.writes : a.tag = o.tag /\ a.err = x.err
    BY <2>2
  <2>8. (\A a, b \in rrsp' : a = b) /\ (\A a, b \in brsp' : a = b)
    BY <1>1, <2>2
  <2>9. \A o \in outstanding' : \/ o \in outstanding /\ (o.tag \notin Performed(x))
                                \/ x.clk /\ bus_cmd_sent(x.ready) /\ o = SentCmd
    BY <1>5, <1>8, <2>1
  <2>10. \A o \in outstanding : o.tag \notin Performed(x) => o \in outstanding'
    BY <1>5, <2>1
  <2> QED  BY <1>1, <1>6, <1>8, <2>4, <2>5, <2>6, <2>7, <2>8, <2>9, <2>10
<1> QED  BY <1>1, <1>7, <1>8

(* An entry in RESP keeps still until its answer comes. *)
LEMMA RespMoves ==
    ASSUME Types, TagsInv, CmdInv, NEW x, Clock(x)
    PROVE  /\ Alloc(x.f) \cap Resp = {} /\ Alloc(x.f) \cap InObuf = {}
           /\ \A i \in Resp : (~x.clk \/ i \notin InRsp) => buf'[i] = buf[i]
           /\ Resp' = (Resp \ (IF x.clk THEN InRsp ELSE {})) \cup (IF x.clk THEN {i \in InObuf : CmdSent(i)} ELSE {})
           /\ \A i \in InObuf : (x.clk => buf'[i].state = "RESP") /\ (~x.clk => buf'[i] = buf[i])
                 /\ buf'[i].write = buf[i].write /\ buf'[i].dw = buf[i].dw
                 /\ buf'[i].bytes = buf[i].bytes /\ buf'[i].data = buf[i].data
<1>1. IbufStep(x.f) /\ EntryStep(x.f, x.clk) /\ x.clk \in BOOLEAN
  BY DEF Clock, CoreSide
<1>2. Alloc(x.f) \cap Busy = {}
  BY <1>1, AllocIs
<1>3. Resp \subseteq Busy /\ InObuf \subseteq Busy /\ Busy \subseteq Tag
  BY DEF Resp, Busy, InObuf, CmdInv, Types, ObufOf
<1>4. \A i \in Resp : (~x.clk \/ i \notin InRsp) => buf'[i] = buf[i]
  <2>1. ASSUME NEW i \in Resp, ~x.clk \/ i \notin InRsp PROVE buf'[i] = buf[i]
    <3>1. i \in Tag /\ buf[i].state = "RESP" /\ i \notin Alloc(x.f) /\ ~(x.clk /\ Answers(i) # {})
      BY <1>2, <1>3, <2>1, CmdUnique DEF Resp
    <3>2. buf[i].state = "RESP" => buf'[i] = IF x.clk /\ Answers(i) # {} THEN Answered(i) ELSE buf[i]
      BY <1>1, <3>1, EntryMoves
    <3> QED  BY <3>1, <3>2
  <2> QED  BY <2>1
<1>5. ASSUME NEW i \in Tag
      PROVE  i \in Resp' <=> i \in (Resp \ (IF x.clk THEN InRsp ELSE {})) \cup (IF x.clk THEN {j \in InObuf : CmdSent(j)} ELSE {})
  <2>0. /\ i \in Resp' <=> buf'[i].state = "RESP"
        /\ i \in Resp <=> buf[i].state = "RESP"
        /\ i \in InRsp <=> Answers(i) # {}
        /\ CmdSent(i) => i \in InObuf /\ buf[i].state = "CMD"
    BY CmdUnique DEF Resp, CmdSent
  <2>1. CASE i \in Alloc(x.f)
    <3>1. buf[i].state = "IDLE" /\ buf'[i].state = (IF x.clk THEN "CMD" ELSE "WAIT")
      BY <1>1, <2>1, StateMoves
    <3> QED  BY <2>0, <3>1
  <2>2. CASE i \notin Alloc(x.f)
    <3>1. /\ buf[i].state = "IDLE" => buf'[i].state = "IDLE"
          /\ buf[i].state = "WAIT" => buf'[i].state = IF x.clk THEN "CMD" ELSE "WAIT"
          /\ buf[i].state = "CMD" => buf'[i].state = IF CmdSent(i) /\ x.clk THEN "RESP" ELSE "CMD"
          /\ buf[i].state = "RESP" => IF x.clk /\ Answers(i) # {} THEN buf'[i].state \in {"DONE", "IDLE"}
                                      ELSE buf'[i].state = "RESP"
          /\ buf[i].state = "DONE" => buf'[i].state = IF buf_rst(i) THEN "IDLE" ELSE "DONE"
      BY <1>1, <2>2, StateMoves
    <3>2. buf[i].state \in {"IDLE", "WAIT", "CMD", "RESP", "DONE"}
      BY DEF Types, EntryOf
    <3> QED  BY <2>0, <3>1, <3>2
  <2> QED  BY <2>1, <2>2
<1>6. Resp' = (Resp \ (IF x.clk THEN InRsp ELSE {})) \cup (IF x.clk THEN {i \in InObuf : CmdSent(i)} ELSE {})
  <2>1. Resp' \subseteq Tag /\ Resp \subseteq Tag /\ InObuf \subseteq Tag
    BY <1>3 DEF Resp
  <2> QED  BY <1>5, <2>1
<1>7. ASSUME NEW i \in InObuf
      PROVE  /\ x.clk => buf'[i].state = "RESP"
             /\ ~x.clk => buf'[i] = buf[i]
             /\ buf'[i].write = buf[i].write /\ buf'[i].dw = buf[i].dw
             /\ buf'[i].bytes = buf[i].bytes /\ buf'[i].data = buf[i].data
  <2>1. i \in Tag /\ i \notin Alloc(x.f) /\ EntryOf(buf[i])
    BY <1>2, <1>3 DEF Types
  <2>2. CASE CmdSent(i)
    <3>1. buf[i].state = "CMD"
      BY <2>2 DEF CmdSent
    <3>2. buf'[i] = IF x.clk THEN [buf[i] EXCEPT !.state = "RESP"] ELSE buf[i]
      BY <1>1, <2>1, <2>2, <3>1, EntryMoves
    <3> QED  BY <2>1, <3>2 DEF EntryOf
  <2>3. CASE ~CmdSent(i)
    <3>1. i \in Resp /\ i \notin InRsp
      BY <2>3, CmdUnique DEF CmdInv
    <3>2. buf'[i] = buf[i] /\ buf[i].state = "RESP"
      BY <1>4, <3>1 DEF Resp
    <3> QED  BY <3>2
  <2> QED  BY <2>2, <2>3
<1> QED  BY <1>2, <1>3, <1>4, <1>6, <1>7

LEMMA CmdKept ==
    ASSUME Types, TagsInv, CmdInv, NEW x, Clock(x)
    PROVE  CmdInv'
<1>1. /\ IbufStep(x.f) /\ EntryStep(x.f, x.clk) /\ ObufStep(x.f, x.clk, x.ready) /\ x.clk \in BOOLEAN
      /\ setting' = setting
  BY DEF Clock, CoreSide
<1>2. Types' /\ TagsInv'
  BY TypesKept, TagsKept
<1> DEFINE Kept == /\ x.clk /\ obuf.valid /\ ~bus_cmd_sent(x.ready) /\ ~obuf_wr_en(x.f, x.ready)
                   /\ obuf' = [obuf EXCEPT !.cmd_done = cmd_done(x.ready), !.data_done = data_done(x.ready), !.wren = FALSE]
           Same == ~x.clk /\ obuf' = obuf
           Refilled == x.clk /\ obuf_wr_en(x.f, x.ready) /\ obuf' = ObufIn(x.f) /\ (obuf.valid => bus_cmd_sent(x.ready))
           Emptied == x.clk /\ obuf' = NoObuf /\ (obuf.valid => bus_cmd_sent(x.ready))
<1>3. Same \/ Refilled \/ Emptied \/ Kept
  BY <1>1, ObufMoves
<1>4. Kept => /\ obuf'.valid /\ obuf'.tag = obuf.tag /\ obuf'.write = obuf.write /\ obuf'.dw = obuf.dw
              /\ obuf'.bytes = obuf.bytes /\ obuf'.data = obuf.data /\ ~obuf'.wren
              /\ ~(obuf'.cmd_done /\ obuf'.data_done)
  <2>1. ~bus_cmd_sent(x.ready) => ~(cmd_done(x.ready) /\ data_done(x.ready))
    BY SentIs
  <2>2. ObufOf(obuf)
    BY DEF Types
  <2> QED  BY <2>1, <2>2 DEF ObufOf
<1>5. Refilled =>
        /\ obuf'.valid /\ obuf'.wren /\ ~obuf'.cmd_done /\ ~obuf'.data_done /\ obuf'.tag \in Tag
        /\ buf'[obuf'.tag].state = "CMD" /\ obuf'.write = buf'[obuf'.tag].write /\ obuf'.dw = buf'[obuf'.tag].dw
        /\ obuf'.bytes = buf'[obuf'.tag].bytes /\ obuf'.data = buf'[obuf'.tag].data
        /\ obuf'.tag \notin Resp /\ obuf'.tag \notin InObuf
  <2>1. SUFFICES ASSUME Refilled PROVE
        /\ obuf'.valid /\ obuf'.wren /\ ~obuf'.cmd_done /\ ~obuf'.data_done /\ obuf'.tag \in Tag
        /\ buf'[obuf'.tag].state = "CMD" /\ obuf'.write = buf'[obuf'.tag].write /\ obuf'.dw = buf'[obuf'.tag].dw
        /\ obuf'.bytes = buf'[obuf'.tag].bytes /\ obuf'.data = buf'[obuf'.tag].data
        /\ obuf'.tag \notin Resp /\ obuf'.tag \notin InObuf
    OBVIOUS
  <2> DEFINE o == ObufIn(x.f)
  <2>2. EntryStep(x.f, TRUE) /\ obuf' = o
    BY <1>1, <2>1
  <2>3. /\ o.valid /\ o.wren /\ ~o.cmd_done /\ ~o.data_done /\ o.tag \in Tag
        /\ buf'[o.tag].state = "CMD" /\ o.write = buf'[o.tag].write /\ o.dw = buf'[o.tag].dw
        /\ o.bytes = buf'[o.tag].bytes /\ o.data = buf'[o.tag].data
        /\ o.tag \in LowAlloc(x.f) \/ o.tag \in CmdPtr0Dec
        /\ buf[o.tag].state = "CMD" \/ buf[o.tag].state = "IDLE"
    BY <1>1, <2>1, <2>2, RefillIs
  <2>4. o.tag \notin Resp
    BY <2>3 DEF Resp
  <2>5. o.tag \notin InObuf
    <3>1. CASE o.tag \in LowAlloc(x.f)
      BY <3>1, RespMoves DEF Alloc
    <3>2. CASE o.tag \in CmdPtr0Dec
      <4>1. ~CmdSent(o.tag) /\ buf[o.tag].state = "CMD"
        BY <3>2 DEF CmdPtr0Dec, PendingCmd
      <4> QED  BY <4>1, CmdUnique DEF Resp
    <3> QED  BY <2>3, <3>1, <3>2
  <2> QED  BY <2>2, <2>3, <2>4, <2>5
<1>6. Same => obuf' = obuf /\ InObuf' = InObuf
  BY DEF InObuf
<1>7. Kept => InObuf' = InObuf /\ InObuf = {obuf.tag}
  BY <1>4 DEF InObuf
<1>8. Emptied => InObuf' = {} /\ obuf' = NoObuf /\ ~obuf'.valid
  BY BlankIs DEF InObuf
<1>9. Refilled => InObuf' = {obuf'.tag}
  BY <1>5 DEF InObuf
<1>10. bus_cmd_sent(x.ready) => obuf.valid /\ InObuf = {obuf.tag} /\ ~bus_addr_match_pending
  BY SentIs DEF InObuf
<1> HIDE DEF Same, Kept, Refilled, Emptied
<1>11. (~obuf.valid => obuf = NoObuf)'
  BY <1>3, <1>4, <1>5, <1>6, <1>8 DEF CmdInv
<1>12. (obuf.valid =>
          /\ buf[obuf.tag].state = IF obuf.wren THEN "CMD" ELSE "RESP"
          /\ obuf.write = buf[obuf.tag].write /\ obuf.dw = buf[obuf.tag].dw
          /\ obuf.bytes = buf[obuf.tag].bytes /\ obuf.data = buf[obuf.tag].data
          /\ ~(obuf.cmd_done /\ obuf.data_done))'
  <2>1. CASE Same
    <3>1. obuf.valid => buf'[obuf.tag] = buf[obuf.tag]
      BY <2>1, RespMoves DEF InObuf, Same
    <3> QED  BY <1>6, <2>1, <3>1 DEF CmdInv
  <2>2. CASE Refilled
    BY <1>5, <2>2
  <2>3. CASE Emptied
    BY <1>8, <2>3
  <2>4. CASE Kept
    <3>1. buf'[obuf.tag].state = "RESP" /\ obuf.valid
          /\ buf'[obuf.tag].write = buf[obuf.tag].write /\ buf'[obuf.tag].dw = buf[obuf.tag].dw
          /\ buf'[obuf.tag].bytes = buf[obuf.tag].bytes /\ buf'[obuf.tag].data = buf[obuf.tag].data
      BY <1>7, <2>4, RespMoves DEF Kept
    <3> QED  BY <1>4, <2>4, <3>1 DEF CmdInv
  <2> QED  BY <1>3, <2>1, <2>2, <2>3, <2>4
<1>13. (\A o \in outstanding :
          /\ o.tag \in Resp
          /\ o = [tag |-> o.tag, write |-> buf[o.tag].write, dw |-> buf[o.tag].dw,
                  bytes |-> buf[o.tag].bytes, data |-> buf[o.tag].data])'
  <2>1. ASSUME NEW o \in outstanding'
        PROVE  /\ buf'[o.tag].state = "RESP" /\ o.tag \in Tag
               /\ o = [tag |-> o.tag, write |-> buf'[o.tag].write, dw |-> buf'[o.tag].dw,
                       bytes |-> buf'[o.tag].bytes, data |-> buf'[o.tag].data]
    <3>1. CASE o \in outstanding
      <4>1. o.tag \in Resp /\ o.tag \notin InRsp
            /\ o = [tag |-> o.tag, write |-> buf[o.tag].write, dw |-> buf[o.tag].dw,
                       bytes |-> buf[o.tag].bytes, data |-> buf[o.tag].data]
        BY <3>1 DEF CmdInv, InBus
      <4>2. buf'[o.tag] = buf[o.tag] /\ buf[o.tag].state = "RESP" /\ o.tag \in Tag
        BY <4>1, RespMoves DEF Resp
      <4> QED  BY <4>1, <4>2
    <3>2. CASE x.clk /\ bus_cmd_sent(x.ready) /\ o = SentCmd
      <4>1. o.tag = obuf.tag /\ obuf.valid /\ obuf.tag \in InObuf
        BY <1>10, <3>2 DEF SentCmd
      <4>2. buf'[obuf.tag].state = "RESP"
            /\ buf'[obuf.tag].write = buf[obuf.tag].write /\ buf'[obuf.tag].dw = buf[obuf.tag].dw
            /\ buf'[obuf.tag].bytes = buf[obuf.tag].bytes /\ buf'[obuf.tag].data = buf[obuf.tag].data
        BY <3>2, <4>1, RespMoves
      <4>3. /\ obuf.write = buf[obuf.tag].write /\ obuf.dw = buf[obuf.tag].dw
            /\ obuf.bytes = buf[obuf.tag].bytes /\ obuf.data = buf[obuf.tag].data
        BY <4>1 DEF CmdInv
      <4>4. obuf.tag \in Tag
        BY DEF Types, ObufOf
      <4> QED  BY <3>2, <4>1, <4>2, <4>3, <4>4 DEF SentCmd
    <3> QED  BY <3>1, <3>2, SlaveMoves
  <2> QED  BY <2>1 DEF Resp
<1>14. InRsp' \subseteq Resp'
  <2>1. CASE x.clk
    <3>1. InRsp' \subseteq InBus /\ InBus \subseteq Resp /\ InBus \cap InRsp = {}
      BY <2>1, SlaveMoves, CmdUnique DEF CmdInv
    <3> QED  BY <3>1, RespMoves
  <2>2. CASE ~x.clk
    BY <1>1, <2>2, SlaveMoves, RespMoves, CmdUnique
  <2> QED  BY <2>1, <2>2
<1>15. (/\ \A r \in rrsp : r.tag \in Resp /\ ~buf[r.tag].write
        /\ \A r \in brsp : r.tag \in Resp /\ buf[r.tag].write)'
  <2>0. \A r \in rrsp' \cup brsp' : r.tag \in Resp'
    BY <1>14 DEF InRsp
  <2>1. CASE x.clk
    <3>1. ASSUME NEW o \in outstanding PROVE buf'[o.tag].write = o.write
      <4>1. o.tag \in Resp /\ o.tag \notin InRsp /\ o.write = buf[o.tag].write
        BY DEF CmdInv, InBus
      <4> QED  BY <4>1, RespMoves
    <3>2. \A o \in x.reads : o \in outstanding /\ o.write = FALSE
      BY AnswersAre, ZenonT(60) DEF Clock
    <3>3. \A o \in x.writes : o \in outstanding /\ o.write = TRUE
      BY AnswersAre DEF Clock
    <3>4. \A a \in rrsp' : ~buf'[a.tag].write
      BY <2>1, <3>1, <3>2, SlaveMoves
    <3>5. \A a \in brsp' : buf'[a.tag].write
      BY <2>1, <3>1, <3>3, SlaveMoves
    <3> QED  BY <2>0, <3>4, <3>5
  <2>2. CASE ~x.clk
    <3>1. rrsp' = rrsp /\ brsp' = brsp
      BY <2>2, SlaveMoves
    <3>2. \A r \in rrsp \cup brsp : r.tag \in Resp /\ buf'[r.tag] = buf[r.tag]
      BY <2>2, RespMoves DEF CmdInv
    <3> QED  BY <2>0, <3>1, <3>2 DEF CmdInv
  <2> QED  BY <1>1, <2>1, <2>2
<1>16. (\A r, s \in rrsp : r = s)' /\ (\A r, s \in brsp : r = s)'
  <2>1. CASE x.clk
    BY <2>1, SlaveMoves
  <2>2. CASE ~x.clk
    BY <2>2, SlaveMoves DEF CmdInv
  <2> QED  BY <1>1, <2>1, <2>2
<1>17. (InObuf \cap InBus = {} /\ InObuf \cap InRsp = {} /\ InBus \cap InRsp = {})'
  <2>0. InObuf \cap InBus = {} /\ InObuf \cap InRsp = {} /\ InBus \cap InRsp = {} /\ InBus \subseteq Resp /\ InRsp \subseteq Resp
    BY CmdUnique DEF CmdInv
  <2>1. CASE ~x.clk
    <3>1. InObuf' = InObuf
      BY <1>3, <1>6, <2>1 DEF Same, Refilled, Emptied, Kept
    <3> QED  BY <2>0, <2>1, <3>1, SlaveMoves
  <2>2. CASE x.clk
    <3>1. /\ InBus' = (InBus \ Performed(x)) \cup (IF bus_cmd_sent(x.ready) THEN {obuf.tag} ELSE {})
          /\ InRsp' = Performed(x) /\ Performed(x) \subseteq InBus
      BY <2>2, SlaveMoves
    <3>2. InBus' \cap InRsp' = {}
      BY <1>10, <2>0, <3>1
    <3>3. InObuf' \cap (InBus \cup (IF bus_cmd_sent(x.ready) THEN {obuf.tag} ELSE {})) = {}
      <4>1. CASE Refilled
        BY <1>5, <1>9, <1>10, <2>0, <4>1
      <4>2. CASE Emptied
        BY <1>8, <4>2
      <4>3. CASE Kept
        BY <1>7, <2>0, <4>3 DEF Kept
      <4> QED  BY <1>3, <2>2, <4>1, <4>2, <4>3 DEF Same
    <3> QED  BY <3>1, <3>2, <3>3
  <2> QED  BY <1>1, <2>1, <2>2
<1>18. (Resp \subseteq InObuf \cup InBus \cup InRsp)'
  <2>0. Resp \subseteq InObuf \cup InBus \cup InRsp
    BY DEF CmdInv
  <2>1. CASE ~x.clk
    <3>1. InObuf' = InObuf
      BY <1>3, <1>6, <2>1 DEF Same, Refilled, Emptied, Kept
    <3> QED  BY <2>0, <2>1, <3>1, SlaveMoves, RespMoves
  <2>2. CASE x.clk
    <3>1. /\ InBus' = (InBus \ Performed(x)) \cup (IF bus_cmd_sent(x.ready) THEN {obuf.tag} ELSE {})
          /\ InRsp' = Performed(x) /\ Performed(x) \subseteq InBus
      BY <2>2, SlaveMoves
    <3>2. Resp' \subseteq InObuf \cup InBus
      BY <2>0, <2>2, RespMoves
    <3>3. InObuf \subseteq InObuf' \cup InBus'
      <4>1. CASE Kept
        BY <1>7, <4>1
      <4>2. CASE Refilled \/ Emptied
        BY <3>1, <4>2 DEF InObuf, Refilled, Emptied
      <4> QED  BY <1>3, <2>2, <4>1, <4>2 DEF Same
    <3> QED  BY <3>1, <3>2, <3>3
  <2> QED  BY <1>1, <2>1, <2>2
<1>19. OneAccessPerDoubleWord'
  <2>1. ASSUME NEW o \in outstanding, bus_cmd_sent(x.ready) PROVE o.dw # SentCmd.dw
    <3>1. o.tag \in Resp /\ o.dw = buf[o.tag].dw /\ o.tag # obuf.tag
      BY <1>10, <2>1 DEF CmdInv, InBus
    <3>2. SameAsResp = {}
      BY <1>10, <2>1 DEF bus_addr_match_pending
    <3>3. buf[o.tag].dw # obuf.dw
      BY <3>1, <3>2 DEF SameAsResp, Resp
    <3> QED  BY <3>1, <3>3 DEF SentCmd
  <2>2. \A o \in outstanding' : o \in outstanding \/ (bus_cmd_sent(x.ready) /\ o = SentCmd)
    BY SlaveMoves
  <2>3. \A o, p \in outstanding : o.dw = p.dw => o = p
    BY DEF CmdInv, OneAccessPerDoubleWord
  <2>4. \A o, p \in outstanding' : o.dw = p.dw => o = p
    BY <2>1, <2>2, <2>3
  <2> QED  BY <2>4 DEF OneAccessPerDoubleWord
<1>20. (PostedDisable /\ obuf.valid => \A i \in Resp \ {obuf.tag} : ~SideEffect(buf[i].dw))'
  <2>0. PostedDisable' = PostedDisable /\ SideEffectDws' = SideEffectDws
    BY <1>1, Stays
  <2>1. Resp' \subseteq Resp \cup InObuf
    BY RespMoves
  <2>2. ASSUME NEW i \in Resp' PROVE buf'[i].dw = buf[i].dw
    <3>1. CASE i \in InObuf
      BY <3>1, RespMoves
    <3>2. CASE i \notin InObuf
      <4>1. i \in Resp /\ (~x.clk \/ i \notin InRsp)
        BY <3>2, RespMoves
      <4> QED  BY <4>1, RespMoves
    <3> QED  BY <3>1, <3>2
  <2>3. SUFFICES ASSUME PostedDisable, obuf'.valid, NEW i \in Resp' \ {obuf'.tag} PROVE ~SideEffect(buf[i].dw)
    <3>1. PostedDisable /\ obuf'.valid => \A i \in Resp' \ {obuf'.tag} : ~SideEffect(buf[i].dw)
      BY <2>3
    <3> QED  BY <2>0, <2>2, <3>1 DEF SideEffect
  <2>4. CASE Refilled
    <3>1. ~bus_sideeffect_pend
      BY <2>4 DEF Refilled, obuf_wr_en
    <3>2. CASE i \in Resp
      BY <2>3, <3>1, <3>2 DEF bus_sideeffect_pend, Resp
    <3>3. CASE i \in InObuf
      BY <2>3, <3>1, <3>3 DEF bus_sideeffect_pend, InObuf, CmdInv
    <3> QED  BY <2>1, <3>2, <3>3
  <2>5. CASE Kept \/ Same
    <3>1. obuf.valid /\ obuf'.tag = obuf.tag /\ i # obuf.tag
      BY <1>4, <1>6, <2>3, <2>5 DEF Kept
    <3>2. i \in Resp \ {obuf.tag}
      BY <2>1, <3>1 DEF InObuf
    <3> QED  BY <2>3, <3>1, <3>2 DEF CmdInv
  <2> QED  BY <1>3, <1>8, <2>3, <2>4, <2>5
<1> QED  BY <1>11, <1>12, <1>13, <1>15, <1>16, <1>17, <1>18, <1>19, <1>20 DEF CmdInv

-----------------------------------------------------------------------------
(* Order *)

(* What comes into obuf at this clock. *)
Fresh(x) == IF x.clk /\ obuf_wr_en(x.f, x.ready) THEN {ObufIn(x.f).tag} ELSE {}

LEMMA FrontMoves ==
    ASSUME Types, TagsInv, CmdInv, NEW x, Clock(x)
    PROVE  /\ Pending' = (Pending \cup Alloc(x.f)) \ Fresh(x)
           /\ Front' = (Front \ Performed(x)) \cup Fresh(x)
           /\ \A j : CmdSent(j)' <=> (j \in Fresh(x) \/ (~x.clk /\ CmdSent(j)))
           /\ InBus' \subseteq Front \ Performed(x)
           /\ obuf'.valid => \/ Fresh(x) = {obuf'.tag}
                             \/ Fresh(x) = {} /\ obuf.valid /\ obuf'.tag = obuf.tag /\ InBus' = InBus \ Performed(x)
           /\ Fresh(x) \subseteq Pending \cup Alloc(x.f)
           /\ \/ Fresh(x) = {}
              \/ Fresh(x) = {dc5.p0} /\ Bypasses(x.f) /\ ~Dual(dc5.op) /\ Pending = {}
              \/ \E c \in CmdPtr0Dec : Fresh(x) = {c} /\ c \notin Alloc(x.f)
<1>1. /\ IbufStep(x.f) /\ EntryStep(x.f, x.clk) /\ ObufStep(x.f, x.clk, x.ready) /\ x.clk \in BOOLEAN
  BY DEF Clock, CoreSide
<1>2. Types' /\ TagsInv' /\ CmdInv'
  BY TypesKept, TagsKept, CmdKept
<1> DEFINE o == ObufIn(x.f)
           Kept == /\ x.clk /\ obuf.valid /\ ~bus_cmd_sent(x.ready) /\ ~obuf_wr_en(x.f, x.ready)
                   /\ obuf' = [obuf EXCEPT !.cmd_done = cmd_done(x.ready), !.data_done = data_done(x.ready), !.wren = FALSE]
           Same == ~x.clk /\ obuf' = obuf
           Refilled == x.clk /\ obuf_wr_en(x.f, x.ready) /\ obuf' = o /\ (obuf.valid => bus_cmd_sent(x.ready))
           Emptied == x.clk /\ obuf' = NoObuf /\ (obuf.valid => bus_cmd_sent(x.ready))
<1>3. Same \/ Refilled \/ Emptied \/ Kept
  BY <1>1, ObufMoves
<1>4. Kept => obuf'.valid /\ obuf'.tag = obuf.tag /\ obuf'.wren = FALSE /\ Fresh(x) = {}
  BY DEF Types, ObufOf, Fresh
<1>5. Same => obuf' = obuf /\ Fresh(x) = {}
  BY DEF Fresh
<1>6. Emptied => ~obuf'.valid /\ (~obuf_wr_en(x.f, x.ready) => Fresh(x) = {})
  BY BlankIs DEF Fresh
<1>7. Refilled => /\ obuf'.valid /\ obuf'.wren = TRUE /\ Fresh(x) = {obuf'.tag}
                  /\ \/ ibuf_buf_byp(x.f) /\ LowAlloc(x.f) = {obuf'.tag} /\ obuf'.tag = dc5.p0 /\ Bypasses(x.f) /\ Pending = {}
                     \/ obuf'.tag \in CmdPtr0Dec /\ obuf'.tag \notin Alloc(x.f)
  <2>1. SUFFICES ASSUME Refilled
        PROVE  /\ obuf'.valid /\ obuf'.wren = TRUE /\ Fresh(x) = {obuf'.tag}
               /\ \/ ibuf_buf_byp(x.f) /\ LowAlloc(x.f) = {obuf'.tag} /\ obuf'.tag = dc5.p0 /\ Bypasses(x.f) /\ Pending = {}
                  \/ obuf'.tag \in CmdPtr0Dec /\ obuf'.tag \notin Alloc(x.f)
    OBVIOUS
  <2>2. EntryStep(x.f, TRUE) /\ obuf_wr_en(x.f, x.ready) /\ obuf' = o
    BY <1>1, <2>1
  <2>3. o.valid /\ o.wren = TRUE /\
          (\/ ibuf_buf_byp(x.f) /\ LowAlloc(x.f) = {o.tag} /\ o.tag = dc5.p0 /\ Bypasses(x.f) /\ Pending = {}
           \/ o.tag \in CmdPtr0Dec /\ o.tag \notin Alloc(x.f))
    BY <1>1, <2>2, RefillIs
  <2> QED  BY <2>1, <2>2, <2>3 DEF Fresh
<1>8. x.clk /\ obuf_wr_en(x.f, x.ready) => Refilled
  <2>1. x.clk /\ obuf_wr_en(x.f, x.ready) => obuf' = o
    BY <1>1 DEF ObufStep
  <2>2. obuf_wr_en(x.f, x.ready) /\ obuf.valid => bus_cmd_sent(x.ready)
    BY SentIs DEF obuf_wr_en
  <2> QED  BY <2>1, <2>2
<1>9. \A j : CmdSent(j)' <=> (j \in Fresh(x) \/ (~x.clk /\ CmdSent(j)))
  <2>1. \A j : CmdSent(j)' <=> (j \in InObuf' /\ obuf'.wren)
    <3>1. (obuf.valid => buf[obuf.tag].state = IF obuf.wren THEN "CMD" ELSE "RESP")'
      BY <1>2 DEF CmdInv
    <3> QED  BY <3>1 DEF CmdSent, InObuf
  <2>2. \A j : CmdSent(j) <=> (j \in InObuf /\ obuf.wren)
    BY CmdUnique
  <2>3. CASE Same
    BY <1>5, <2>1, <2>2, <2>3 DEF InObuf
  <2>4. CASE Refilled
    BY <1>7, <2>1, <2>4 DEF InObuf
  <2>5. CASE Emptied /\ ~Refilled
    BY <1>6, <1>8, <2>1, <2>5 DEF InObuf
  <2>6. CASE Kept
    BY <1>4, <2>1, <2>6 DEF InObuf
  <2> QED  BY <1>3, <2>3, <2>4, <2>5, <2>6
<1>10. ASSUME NEW i \in Tag PROVE i \in Pending' <=> i \in (Pending \cup Alloc(x.f)) \ Fresh(x)
  <2>0. /\ i \in Pending' <=> (buf'[i].state = "WAIT" \/ (buf'[i].state = "CMD" /\ ~CmdSent(i)'))
        /\ i \in Pending <=> (buf[i].state = "WAIT" \/ (buf[i].state = "CMD" /\ ~CmdSent(i)))
        /\ CmdSent(i) => buf[i].state = "CMD"
        /\ CmdSent(i)' => buf'[i].state = "CMD"
    BY DEF Pending, PendingCmd, CmdSent
  <2>1. CASE i \in Alloc(x.f)
    <3>1. buf[i].state = "IDLE" /\ buf'[i].state = (IF x.clk THEN "CMD" ELSE "WAIT")
      BY <1>1, <2>1, StateMoves
    <3> QED  BY <1>1, <1>9, <2>0, <2>1, <3>1
  <2>2. CASE i \notin Alloc(x.f)
    <3>1. /\ buf[i].state = "IDLE" => buf'[i].state = "IDLE"
          /\ buf[i].state = "WAIT" => buf'[i].state = IF x.clk THEN "CMD" ELSE "WAIT"
          /\ buf[i].state = "CMD" => buf'[i].state = IF CmdSent(i) /\ x.clk THEN "RESP" ELSE "CMD"
          /\ buf[i].state = "RESP" => IF x.clk /\ Answers(i) # {} THEN buf'[i].state \in {"DONE", "IDLE"}
                                      ELSE buf'[i].state = "RESP"
          /\ buf[i].state = "DONE" => buf'[i].state = IF buf_rst(i) THEN "IDLE" ELSE "DONE"
      BY <1>1, <2>2, StateMoves
    <3>2. buf[i].state \in {"IDLE", "WAIT", "CMD", "RESP", "DONE"}
      BY DEF Types, EntryOf
    <3>3. Fresh(x) # {} => x.clk
      BY DEF Fresh
    <3> QED  BY <1>1, <1>9, <2>0, <2>2, <3>1, <3>2, <3>3
  <2> QED  BY <2>1, <2>2
<1>11. Pending' = (Pending \cup Alloc(x.f)) \ Fresh(x)
  <2>1. Pending' \subseteq Tag /\ Pending \subseteq Tag /\ Alloc(x.f) \subseteq Tag
    BY <1>1, AllocIs DEF Pending, PendingCmd
  <2> QED  BY <1>10, <2>1
<1>12. InBus' = (InBus \ Performed(x)) \cup (IF x.clk /\ bus_cmd_sent(x.ready) THEN {obuf.tag} ELSE {})
       /\ Performed(x) \subseteq InBus
  BY <1>1, SlaveMoves
<1>13. InObuf \cap InBus = {} /\ (bus_cmd_sent(x.ready) => InObuf = {obuf.tag} /\ obuf.valid)
  BY SentIs DEF CmdInv, InObuf
<1>14. Front' = (Front \ Performed(x)) \cup Fresh(x)
  <2>1. CASE Same
    BY <1>5, <1>12, <1>13, <2>1 DEF Front, InObuf
  <2>2. CASE Refilled
    BY <1>7, <1>12, <1>13, <2>2 DEF Front, InObuf
  <2>3. CASE Emptied /\ ~Refilled
    BY <1>6, <1>8, <1>12, <1>13, <2>3 DEF Front, InObuf
  <2>4. CASE Kept
    BY <1>4, <1>12, <1>13, <2>4 DEF Front, InObuf
  <2> QED  BY <1>3, <2>1, <2>2, <2>3, <2>4
<1>15. InBus' \subseteq Front \ Performed(x)
  BY <1>12, <1>13 DEF Front
<1>16. obuf'.valid => \/ Fresh(x) = {obuf'.tag}
                      \/ Fresh(x) = {} /\ obuf.valid /\ obuf'.tag = obuf.tag /\ InBus' = InBus \ Performed(x)
  BY <1>3, <1>4, <1>5, <1>6, <1>7, <1>12
<1>17. Fresh(x) = {} \/ Refilled
  BY <1>8 DEF Fresh
<1> HIDE DEF Refilled
<1>18. Fresh(x) \subseteq Pending \cup Alloc(x.f)
  BY <1>7, <1>17 DEF Alloc, CmdPtr0Dec, Pending
<1>19. \/ Fresh(x) = {}
       \/ Fresh(x) = {dc5.p0} /\ Bypasses(x.f) /\ ~Dual(dc5.op) /\ Pending = {}
       \/ \E c \in CmdPtr0Dec : Fresh(x) = {c} /\ c \notin Alloc(x.f)
  BY <1>7, <1>17 DEF ibuf_buf_byp
<1> QED  BY <1>9, <1>11, <1>14, <1>15, <1>16, <1>18, <1>19

(* The tags of the accesses that enter the program order. *)
NewLow(f)  == IF ~Takes(f) \/ ibuf_merge_en(f) THEN {} ELSE {dc5.p0}
NewHigh(f) == IF Takes(f) /\ Dual(dc5.op) THEN {dc5.p1} ELSE {}

LEMMA NewTags ==
    ASSUME Types, TagsInv, NEW f, IbufStep(f)
    PROVE  /\ Alloc(f) \cup IbufTag' = IbufTag \cup NewLow(f) \cup NewHigh(f)
           /\ NewLow(f) \cup NewHigh(f) \subseteq Reserved(dc5) /\ NewLow(f) \cap NewHigh(f) = {}
           /\ (NewLow(f) \cup NewHigh(f)) \cap (Busy \cup IbufTag) = {}
           /\ LowAlloc(f) \subseteq NewLow(f) /\ HighAlloc(f) \subseteq NewHigh(f) /\ Drained(f) \subseteq IbufTag
           /\ HighAlloc(f) # {} => NewLow(f) = {dc5.p0} /\ HighAlloc(f) = NewHigh(f) /\ IbufTag = {} /\ IbufTag' = {}
           /\ LowAlloc(f) # {} => LowAlloc(f) = {dc5.p0} /\ Drained(f) = IbufTag
           /\ \A i \in IbufTag' : \/ i \in IbufTag /\ NewLow(f) = {} /\ NewHigh(f) = {}
                                  \/ NewHigh(f) = {i}
                                  \/ NewLow(f) = {i} /\ NewHigh(f) = {}
<1>1. Waits(f) \/ Bypasses(f) \/ Enters(f) \/ Merges(f) \/ MergesLow(f)
  BY SixCases
<1>2. /\ Busy \cap IbufTag = {} /\ Busy \cap Reserved(dc5) = {} /\ IbufTag \cap Reserved(dc5) = {}
      /\ dc5.busreq /\ Dual(dc5.op) => dc5.p0 # dc5.p1
  BY DEF TagsInv
<1>3. Takes(f) => dc5.busreq /\ Reserved(dc5) = IF Dual(dc5.op) THEN {dc5.p0, dc5.p1} ELSE {dc5.p0}
  BY DEF Takes, Reserved
<1>4. NewLow(f) \cup NewHigh(f) \subseteq Reserved(dc5) /\ NewLow(f) \cap NewHigh(f) = {}
  BY <1>2, <1>3 DEF NewLow, NewHigh
<1>5. (NewLow(f) \cup NewHigh(f)) \cap (Busy \cup IbufTag) = {}
  BY <1>2, <1>4
<1>6. CASE Waits(f)
  BY <1>4, <1>5, <1>6 DEF Waits, NewLow, NewHigh, Alloc
<1>7. CASE Bypasses(f)
  BY <1>3, <1>4, <1>5, <1>7 DEF Bypasses, NewLow, NewHigh, Alloc
<1>8. CASE Enters(f)
  BY <1>3, <1>4, <1>5, <1>8 DEF Enters, NewLow, NewHigh, Alloc, Low, Last
<1>9. CASE Merges(f)
  BY <1>4, <1>5, <1>9 DEF Merges, NewLow, NewHigh, Alloc
<1>10. CASE MergesLow(f)
  BY <1>4, <1>5, <1>10 DEF MergesLow, NewLow, NewHigh, Alloc
<1> QED  BY <1>1, <1>6, <1>7, <1>8, <1>9, <1>10

LEMMA OlderMoves ==
    ASSUME Types, TagsInv, NEW x, Clock(x)
    PROVE  LET rest == DOMAIN older \ Performed(x)
           IN  /\ (older = [i \in DOMAIN older |-> older[i]])'
               /\ DOMAIN older' = rest \cup NewLow(x.f) \cup NewHigh(x.f)
               /\ \A t \in NewHigh(x.f) : older'[t] = rest \cup NewLow(x.f)
               /\ \A t \in NewLow(x.f) : older'[t] = rest
               /\ \A t \in rest \ (NewLow(x.f) \cup NewHigh(x.f)) : older'[t] = older[t] \ Performed(x)
<1>1. IbufStep(x.f)
  BY DEF Clock, CoreSide
<1> DEFINE low == NewLow(x.f)
           high == NewHigh(x.f)
           rest == DOMAIN older \ Performed(x)
<1>2. older' = [t \in rest \cup low \cup high |->
                  IF t \in high THEN rest \cup low ELSE IF t \in low THEN rest ELSE older[t] \ Performed(x)]
  BY DEF Clock, GhostStep, NewLow, NewHigh
<1>3. low \cap high = {}
  BY <1>1, NewTags
<1> HIDE DEF low, high, rest
<1>4. DOMAIN older' = rest \cup low \cup high
  BY <1>2
<1>5. \A t \in rest \cup low \cup high : older'[t] =
          IF t \in high THEN rest \cup low ELSE IF t \in low THEN rest ELSE older[t] \ Performed(x)
  BY <1>2
<1>6. (older = [i \in DOMAIN older |-> older[i]])'
  BY <1>2, <1>4
<1>7. /\ \A t \in high : older'[t] = rest \cup low
      /\ \A t \in low : older'[t] = rest
      /\ \A t \in rest \ (low \cup high) : older'[t] = older[t] \ Performed(x)
  BY <1>3, <1>5
<1> QED  BY <1>4, <1>6, <1>7 DEF low, high, rest

LEMMA OrderKept ==
    ASSUME Types, TagsInv, CmdInv, OrderInv, NEW x, Clock(x)
    PROVE  OrderInv'
<1>1. /\ IbufStep(x.f) /\ EntryStep(x.f, x.clk) /\ x.clk \in BOOLEAN
  BY DEF Clock, CoreSide
<1>2. Types' /\ TagsInv' /\ CmdInv'
  BY TypesKept, TagsKept, CmdKept
<1> DEFINE D == DOMAIN older
           P == Performed(x)
           L == NewLow(x.f)
           H == NewHigh(x.f)
           N == Fresh(x)
           A == Alloc(x.f)
           E == DOMAIN older'
<1>3. /\ D = Pending \cup IbufTag \cup Front
      /\ \A i \in D : i \notin older[i] /\ older[i] \subseteq D
      /\ \A i, j \in D : i # j => (i \in older[j] <=> j \notin older[i])
      /\ \A i \in Tag : buf_age(i) = IF i \in Pending THEN older[i] \cap Pending ELSE {}
      /\ \A i \in Pending \cup IbufTag : Front \subseteq older[i]
      /\ obuf.valid => InBus \subseteq older[obuf.tag]
      /\ \A i \in IbufTag : older[i] = D \ {i}
  BY DEF OrderInv
<1>4. /\ E = (D \ P) \cup L \cup H
      /\ \A t \in H : older'[t] = (D \ P) \cup L
      /\ \A t \in L : older'[t] = D \ P
      /\ \A t \in (D \ P) \ (L \cup H) : older'[t] = older[t] \ P
  BY OlderMoves
<1>5. /\ Pending' = (Pending \cup A) \ N /\ Front' = (Front \ P) \cup N
      /\ \A j : CmdSent(j)' <=> (j \in N \/ (~x.clk /\ CmdSent(j)))
      /\ InBus' \subseteq Front \ P
      /\ obuf'.valid => \/ N = {obuf'.tag}
                        \/ N = {} /\ obuf.valid /\ obuf'.tag = obuf.tag /\ InBus' = InBus \ P
      /\ N \subseteq Pending \cup A
  BY FrontMoves
<1>6. /\ A \cup IbufTag' = IbufTag \cup L \cup H
      /\ L \cap H = {} /\ (L \cup H) \cap (Busy \cup IbufTag) = {}
      /\ LowAlloc(x.f) \subseteq L /\ HighAlloc(x.f) \subseteq H /\ Drained(x.f) \subseteq IbufTag
      /\ HighAlloc(x.f) # {} => L = {dc5.p0} /\ HighAlloc(x.f) = H /\ IbufTag = {} /\ IbufTag' = {}
      /\ LowAlloc(x.f) # {} => LowAlloc(x.f) = {dc5.p0} /\ Drained(x.f) = IbufTag
      /\ \A i \in IbufTag' : \/ i \in IbufTag /\ L = {} /\ H = {}
                             \/ H = {i}
                             \/ L = {i} /\ H = {}
  BY <1>1, NewTags
<1>7. /\ A = Drained(x.f) \cup LowAlloc(x.f) \cup HighAlloc(x.f) /\ IbufTag' \cap A = {} /\ A \cap Busy = {}
  BY <1>1, AllocIs DEF Alloc
<1>8. /\ P \subseteq InBus /\ InBus \subseteq Resp /\ Resp \subseteq Busy /\ Resp \cap Pending = {}
      /\ Pending \subseteq Busy /\ Front \subseteq Busy /\ Front \cap Pending = {} /\ Busy \cap IbufTag = {}
  <2>1. P \subseteq InBus /\ InBus \subseteq Resp
    BY SlaveMoves, CmdUnique
  <2>2. Resp \subseteq Busy /\ Resp \cap Pending = {} /\ Pending \subseteq Busy
    BY DEF Resp, Busy, Pending, PendingCmd
  <2>3. InObuf \subseteq Busy /\ InObuf \cap Pending = {}
    <3>1. \A i \in InObuf : CmdSent(i) \/ i \in Resp
      BY CmdUnique
    <3>2. \A i : CmdSent(i) => i \notin Pending
      BY DEF CmdSent, Pending, PendingCmd
    <3>3. \A i \in InObuf : i \in Tag /\ (CmdSent(i) => buf[i].state = "CMD")
      BY DEF InObuf, Types, ObufOf, CmdSent
    <3> QED  BY <2>2, <3>1, <3>2, <3>3 DEF Busy
  <2> QED  BY <2>1, <2>2, <2>3 DEF Front, TagsInv
<1>9. D \subseteq Busy \cup IbufTag /\ D \cap (L \cup H) = {}
  BY <1>3, <1>6, <1>8
<1>10. IbufTag' \cap N = {}
  <2>1. IbufTag' \cap Pending = {}
    BY <1>6, <1>8
  <2> QED  BY <1>5, <1>7, <2>1
<1> HIDE DEF D, P, L, H, N, A, E
<1>11. (older = [i \in DOMAIN older |-> older[i]])'
  BY OlderMoves
<1>12. E = Pending' \cup IbufTag' \cup Front'
  BY <1>3, <1>4, <1>5, <1>6, <1>8, <1>10
<1>13. \A i \in E : i \notin older'[i] /\ older'[i] \subseteq E
  BY <1>3, <1>4, <1>6, <1>9
<1>14. \A i, j \in E : i # j => (i \in older'[j] <=> j \notin older'[i])
  <2> DEFINE R == D \ P
  <2>1. SUFFICES ASSUME NEW i \in E, NEW j \in E, i # j
        PROVE  i \in older'[j] <=> j \notin older'[i]
    OBVIOUS
  <2>2. R \cap (L \cup H) = {} /\ L \cap H = {} /\ i \in R \cup L \cup H /\ j \in R \cup L \cup H
    BY <1>4, <1>6, <1>9
  <2>3. /\ \A t \in H : older'[t] = R \cup L
        /\ \A t \in L : older'[t] = R
        /\ \A t \in R : older'[t] = older[t] \ P /\ older'[t] \cap (L \cup H) = {}
    BY <1>3, <1>4, <1>9, <2>2
  <2>4. /\ \A s, t \in L : s = t
        /\ \A s, t \in H : s = t
    BY DEF L, H, NewLow, NewHigh
  <2>5. CASE i \in R /\ j \in R
    BY <1>3, <2>1, <2>3, <2>5
  <2>6. CASE i \in R /\ j \notin R
    BY <2>2, <2>3, <2>6
  <2>7. CASE i \notin R /\ j \in R
    BY <2>2, <2>3, <2>7
  <2>8. CASE i \notin R /\ j \notin R
    BY <2>1, <2>2, <2>3, <2>4, <2>8
  <2> QED  BY <2>5, <2>6, <2>7, <2>8
<1>15. \A i \in IbufTag' : older'[i] = E \ {i}
  <2>1. SUFFICES ASSUME NEW i \in IbufTag' PROVE older'[i] = E \ {i}
    OBVIOUS
  <2>2. CASE i \in IbufTag /\ L = {} /\ H = {}
    <3>1. i \in D /\ i \notin P
      BY <1>3, <1>8, <2>2
    <3> QED  BY <1>3, <1>4, <2>2, <3>1
  <2>3. CASE H = {i}
    BY <1>4, <1>6, <1>9, <2>3
  <2>4. CASE L = {i} /\ H = {}
    BY <1>4, <1>9, <2>4
  <2> QED  BY <1>6, <2>2, <2>3, <2>4
<1>16. \A c \in N : \/ c \in Pending /\ c \notin A /\ buf_age(c) = {} /\ N = {c}
                    \/ L = {c} /\ H = {} /\ N = {c} /\ Pending = {} /\ A = {c} /\ IbufTag' = {}
  <2>1. \/ N = {}
        \/ N = {dc5.p0} /\ Bypasses(x.f) /\ ~Dual(dc5.op) /\ Pending = {}
        \/ \E c \in CmdPtr0Dec : N = {c} /\ c \notin A
    BY FrontMoves DEF N, A
  <2>2. CASE N = {dc5.p0} /\ Bypasses(x.f) /\ ~Dual(dc5.op) /\ Pending = {}
    <3>1. L = {dc5.p0} /\ H = {} /\ A = {dc5.p0} /\ IbufTag' = {}
      BY <2>2 DEF Bypasses, L, H, NewLow, NewHigh, A, Alloc
    <3> QED  BY <2>2, <3>1
  <2>3. CASE \E c \in CmdPtr0Dec : N = {c} /\ c \notin A
    BY <2>3 DEF CmdPtr0Dec, Pending
  <2> QED  BY <2>1, <2>2, <2>3
<1>17. \A i \in Pending' \cup IbufTag' : Front' \subseteq older'[i]
  <2>1. SUFFICES ASSUME NEW i \in Pending' \cup IbufTag' PROVE Front' \subseteq older'[i]
    OBVIOUS
  <2>2. i \in E /\ i \notin N /\ i \in Pending \cup IbufTag \cup L \cup H
    BY <1>5, <1>6, <1>10, <1>12
  <2>3. Front \ P \subseteq older'[i]
    BY <1>3, <1>4, <1>6, <1>8, <1>9, <2>2
  <2>4. N \subseteq older'[i]
    <3>1. SUFFICES ASSUME NEW c \in N PROVE c \in older'[i]
      OBVIOUS
    <3>2. CASE c \in Pending /\ c \notin A /\ buf_age(c) = {}
      <4>1. c \in D /\ c \in Tag /\ older[c] \cap Pending = {} /\ c \notin P
        BY <1>3, <1>8, <3>2 DEF Pending, PendingCmd
      <4>2. CASE i \in L \cup H
        BY <1>4, <1>6, <4>1, <4>2
      <4>3. CASE i \in IbufTag
        BY <1>3, <1>4, <1>8, <1>9, <2>2, <3>1, <4>1, <4>3
      <4>4. CASE i \in Pending
        <5>1. i \in D /\ i # c /\ i \notin older[c]
          BY <1>3, <2>2, <3>1, <4>1, <4>4
        <5>2. c \in older[i]
          BY <1>3, <4>1, <5>1
        <5>3. i \in (D \ P) \ (L \cup H)
          BY <1>8, <1>9, <4>4, <5>1
        <5> QED  BY <1>4, <4>1, <5>2, <5>3
      <4> QED  BY <2>2, <4>2, <4>3, <4>4
    <3>3. CASE L = {c} /\ H = {} /\ N = {c} /\ Pending = {} /\ A = {c} /\ IbufTag' = {}
      <4>1. Pending' = {}
        BY <1>5, <3>3
      <4> QED  BY <3>3, <4>1
    <3> QED  BY <1>16, <3>2, <3>3
  <2> QED  BY <1>5, <2>3, <2>4
<1>18. obuf'.valid => InBus' \subseteq older'[obuf'.tag]
  <2>1. SUFFICES ASSUME obuf'.valid PROVE InBus' \subseteq older'[obuf'.tag]
    OBVIOUS
  <2>2. CASE N = {obuf'.tag}
    <3> DEFINE c == obuf'.tag
    <3>1. CASE c \in Pending
      <4>1. c \in (D \ P) \ (L \cup H) /\ Front \subseteq older[c]
        BY <1>3, <1>8, <1>9, <3>1
      <4> QED  BY <1>4, <1>5, <4>1
    <3>2. CASE L = {c}
      BY <1>3, <1>4, <1>5, <3>2
    <3> QED  BY <1>16, <2>2, <3>1, <3>2
  <2>3. CASE N = {} /\ obuf.valid /\ obuf'.tag = obuf.tag /\ InBus' = InBus \ P
    <3>1. obuf.tag \in Front /\ obuf.tag \notin P
      <4>1. InObuf \cap InBus = {} /\ obuf.tag \in InObuf
        BY <2>3 DEF CmdInv, InObuf
      <4> QED  BY <1>8, <4>1 DEF Front
    <3>2. obuf.tag \in (D \ P) \ (L \cup H)
      BY <1>3, <1>9, <3>1
    <3> QED  BY <1>3, <1>4, <2>3, <3>2
  <2> QED  BY <1>5, <2>1, <2>2, <2>3
<1>19. \A i \in Tag : buf_age(i)' = IF i \in Pending' THEN older'[i] \cap Pending' ELSE {}
  <2>1. SUFFICES ASSUME NEW i \in Tag PROVE buf_age(i)' = IF i \in Pending' THEN older'[i] \cap Pending' ELSE {}
    OBVIOUS
  <2>2. buf_age(i)' = {j \in AgeIn(i, x.f) : ~CmdSent(j)'}
    BY <1>1 DEF buf_age, EntryStep
  <2>3. AgeIn(i, x.f) = buf_age(i) \cup (IF i \in A THEN Pending ELSE {})
                \cup (IF i \in LowAlloc(x.f) THEN Drained(x.f) ELSE {})
                \cup (IF i \in HighAlloc(x.f) THEN {dc5.p0} ELSE {})
    BY <1>7 DEF AgeIn
  <2>4. ~x.clk => \A j \in Pending \cup A : ~CmdSent(j)
    <3>1. \A j : CmdSent(j) => j \in Busy /\ j \notin Pending
      BY DEF CmdSent, Busy, Pending, PendingCmd, Types, ObufOf
    <3> QED  BY <1>7, <3>1
  <2>5. AgeIn(i, x.f) \subseteq Pending \cup A
    <3>1. i \in HighAlloc(x.f) => dc5.p0 \in A
      <4>1. i \in HighAlloc(x.f) => L = {dc5.p0} /\ IbufTag' = {}
        BY <1>6
      <4> QED  BY <1>6, <4>1
    <3> QED  BY <1>3, <1>7, <2>3, <3>1
  <2>6. buf_age(i)' = AgeIn(i, x.f) \ N
    BY <1>5, <2>2, <2>4, <2>5
  <2>7. CASE i \in Pending
    <3>1. i \notin A /\ i \in D /\ i \notin P /\ i \notin L \cup H
      BY <1>3, <1>7, <1>8, <1>9, <2>7
    <3>2. AgeIn(i, x.f) = older[i] \cap Pending
      BY <1>3, <1>7, <2>3, <2>7, <3>1
    <3>3. older[i] \cap A = {}
      <4>1. older[i] \cap (L \cup H) = {}
        BY <1>3, <1>9, <3>1
      <4>2. \A j \in IbufTag : j \notin older[i]
        BY <1>3, <1>8, <2>7, <3>1
      <4> QED  BY <1>6, <1>7, <4>1, <4>2
    <3>4. older'[i] = older[i] \ P
      BY <1>4, <3>1
    <3>5. older'[i] \cap Pending' = (older[i] \cap Pending) \ N
      BY <1>5, <1>8, <3>3, <3>4
    <3>6. CASE i \in N
      <4>1. buf_age(i) = {} /\ i \notin Pending'
        BY <1>5, <1>7, <1>16, <2>7, <3>1, <3>6
      <4> QED  BY <1>3, <2>6, <2>7, <3>2, <4>1
    <3>7. CASE i \notin N
      <4>1. i \in Pending'
        BY <1>5, <2>7, <3>7
      <4> QED  BY <2>6, <3>2, <3>5, <4>1
    <3> QED  BY <3>6, <3>7
  <2>8. CASE i \in A /\ i \notin Pending
    <3>1. buf_age(i) = {}
      BY <1>3, <2>8
    <3>2. CASE i \in N
      <4>1. Pending = {} /\ A = {i} /\ i \notin Pending' /\ L = {i} /\ H = {}
        BY <1>5, <1>16, <2>8, <3>2
      <4>2. i \notin IbufTag /\ i \notin HighAlloc(x.f)
        BY <1>6, <4>1
      <4>3. Drained(x.f) = {}
        BY <1>6, <1>7, <4>1, <4>2
      <4> QED  BY <2>3, <2>6, <3>1, <4>1, <4>2, <4>3
    <3>3. CASE i \notin N /\ i \in Drained(x.f)
      <4>1. i \in IbufTag /\ i \in D /\ i \notin P /\ i \notin L \cup H /\ i \in Pending'
        BY <1>3, <1>5, <1>6, <1>8, <1>9, <2>8, <3>3
      <4>2. AgeIn(i, x.f) = Pending
        BY <1>6, <2>3, <2>8, <3>1, <4>1
      <4>3. older'[i] = (D \ {i}) \ P
        BY <1>3, <1>4, <4>1
      <4>4. (D \ {i}) \cap A = {}
        <5>1. Drained(x.f) = {i}
          BY <1>1, <3>3, AllocIs
        <5> QED  BY <1>6, <1>7, <1>9, <5>1
      <4>5. older'[i] \cap Pending' = Pending \ N
        BY <1>3, <1>5, <1>8, <2>8, <4>3, <4>4
      <4> QED  BY <2>6, <4>1, <4>2, <4>5
    <3>4. CASE i \notin N /\ i \in LowAlloc(x.f)
      <4>1. i \in L /\ i \notin IbufTag /\ i \notin HighAlloc(x.f) /\ i \in Pending' /\ Drained(x.f) = IbufTag
        BY <1>5, <1>6, <2>8, <3>4
      <4>2. AgeIn(i, x.f) = Pending \cup Drained(x.f)
        BY <2>3, <2>8, <3>1, <3>4, <4>1
      <4>3. older'[i] = D \ P
        BY <1>4, <4>1
      <4>4. (D \ P) \cap A = Drained(x.f)
        BY <1>3, <1>6, <1>7, <1>8, <1>9, <4>1
      <4>5. older'[i] \cap Pending' = (Pending \cup Drained(x.f)) \ N
        BY <1>3, <1>5, <1>8, <4>3, <4>4
      <4> QED  BY <2>6, <4>1, <4>2, <4>5
    <3>5. CASE i \notin N /\ i \in HighAlloc(x.f)
      <4>1. i \in H /\ i \notin LowAlloc(x.f) /\ i \in Pending' /\ IbufTag = {} /\ L = {dc5.p0} /\ IbufTag' = {}
        BY <1>5, <1>6, <2>8, <3>5
      <4>2. AgeIn(i, x.f) = Pending \cup {dc5.p0}
        BY <2>3, <2>8, <3>1, <3>5, <4>1
      <4>3. older'[i] = (D \ P) \cup {dc5.p0}
        BY <1>4, <4>1
      <4>4. (D \ P) \cap A = {} /\ dc5.p0 \in A
        BY <1>6, <1>7, <1>9, <4>1
      <4>5. older'[i] \cap Pending' = (Pending \cup {dc5.p0}) \ N
        BY <1>3, <1>5, <1>8, <4>3, <4>4
      <4> QED  BY <2>6, <4>1, <4>2, <4>5
    <3> QED  BY <1>7, <2>8, <3>2, <3>3, <3>4, <3>5
  <2>9. CASE i \notin A /\ i \notin Pending
    <3>1. i \notin Pending' /\ AgeIn(i, x.f) = {}
      BY <1>3, <1>5, <1>7, <2>3, <2>9
    <3> QED  BY <2>6, <3>1
  <2> QED  BY <2>7, <2>8, <2>9
<1> QED  BY <1>11, <1>12, <1>13, <1>14, <1>15, <1>17, <1>18, <1>19 DEF OrderInv, E

-----------------------------------------------------------------------------
(* The freeze *)

LEMMA StageMoves ==
    ASSUME Types, NEW f, NEW op \in Pkt, NEW nbfreeze \in BOOLEAN, NEW cancel \in BOOLEAN,
           PipeStep(f, op, nbfreeze, cancel)
    PROVE  /\ dc4'.valid = (Valid(dc3.op) /\ ~flush_dc3(f) /\ ~lsu_freeze_dc3(f))
           /\ dc4'.busreq = (dc3.busreq /\ ~flush_dc4(f))
           /\ dc4'.valid \/ dc4'.busreq => dc4'.op = dc3.op
           /\ dc4'.busreq => dc4'.p0 = WrPtr0_dc3
           /\ dc4'.fwd = IF dc4'.valid THEN dc3.fwd ELSE None
           /\ dc4'.nb => dc4'.op.kind = "load" /\ dc4'.op = dc3.op
           /\ dc5'.valid = (dc4.valid /\ ~flush_dc4(f))
           /\ dc5'.busreq = (dc4.busreq /\ ~flush_dc5(f))
           /\ dc5'.valid \/ dc5'.busreq => dc5'.op = dc4.op
           /\ dc5'.busreq => dc5'.p0 = dc4.p0
           /\ dc5'.fwd = IF dc5'.valid THEN dc4.fwd ELSE None
           /\ dc5'.nb => dc5'.op = dc4.op /\ dc4.nb
<1>1. /\ dc5'.valid = (dc4.valid /\ ~flush_dc4(f))
      /\ dc5'.busreq = (dc4.busreq /\ ~flush_dc5(f))
      /\ dc5'.valid \/ dc5'.busreq => dc5'.op = dc4.op
      /\ dc5'.busreq => dc5'.p0 = dc4.p0
      /\ dc5'.fwd = IF dc5'.valid THEN dc4.fwd ELSE None
      /\ dc5'.nb => dc5'.op = dc4.op /\ dc4.nb
  <2> DEFINE valid  == dc4.valid /\ ~flush_dc4(f)
             busreq == dc4.busreq /\ ~flush_dc5(f)
             fwd == IF valid THEN dc4.fwd ELSE None
  <2>1. dc5' = IF ~valid /\ ~busreq THEN NoStage
               ELSE [dc4 EXCEPT !.valid = valid, !.busreq = busreq, !.fwd = fwd,
                                !.cancelled = valid /\ dc4.cancelled]
    BY DEF PipeStep, Dc5In
  <2>2. /\ valid \in BOOLEAN /\ busreq \in BOOLEAN /\ StageOf(dc4)
        /\ NoStage.busreq = FALSE /\ NoStage.valid = FALSE /\ NoStage.nb = FALSE /\ NoStage.fwd = None
    BY DEF Types, StageOf, NoStage
  <2>3. busreq = (dc4.busreq /\ ~flush_dc5(f)) /\ valid = (dc4.valid /\ ~flush_dc4(f))
        /\ fwd = IF valid THEN dc4.fwd ELSE None
    OBVIOUS
  <2> HIDE DEF valid, busreq, fwd
  <2>4. CASE ~valid /\ ~busreq
    <3>1. dc5'.valid = valid /\ dc5'.busreq = busreq /\ dc5'.fwd = None /\ dc5'.nb = FALSE
      BY <2>1, <2>2, <2>4
    <3> QED  BY <2>2, <2>3, <2>4, <3>1
  <2>5. CASE valid \/ busreq
    <3>1. /\ dc5'.valid = valid /\ dc5'.busreq = busreq /\ dc5'.fwd = fwd /\ dc5'.nb = dc4.nb
          /\ dc5'.op = dc4.op /\ dc5'.p0 = dc4.p0
      BY <2>1, <2>2, <2>5 DEF StageOf
    <3> QED  BY <2>2, <2>3, <2>5, <3>1
  <2> QED  BY <2>2, <2>4, <2>5
<1>2. /\ dc4'.valid = (Valid(dc3.op) /\ ~flush_dc3(f) /\ ~lsu_freeze_dc3(f))
      /\ dc4'.busreq = (dc3.busreq /\ ~flush_dc4(f))
      /\ dc4'.valid \/ dc4'.busreq => dc4'.op = dc3.op
      /\ dc4'.busreq => dc4'.p0 = WrPtr0_dc3
      /\ dc4'.fwd = IF dc4'.valid THEN dc3.fwd ELSE None
      /\ dc4'.nb => dc4'.op.kind = "load" /\ dc4'.op = dc3.op
  <2> DEFINE valid  == Valid(dc3.op) /\ ~flush_dc3(f) /\ ~lsu_freeze_dc3(f)
             busreq == dc3.busreq /\ ~flush_dc4(f)
             p0 == IF busreq THEN WrPtr0_dc3 ELSE 0
             p1 == IF busreq /\ Dual(dc3.op) THEN WrPtr1_dc3 ELSE 0
             fwd == IF valid THEN dc3.fwd ELSE None
             nb == lsu_nonblock_load_valid_dc3(f)
  <2>1. dc4' = IF ~valid /\ ~busreq THEN NoStage
               ELSE [op |-> dc3.op, valid |-> valid, busreq |-> busreq, nb |-> nb,
                     p0 |-> p0, p1 |-> p1, fwd |-> fwd, cancelled |-> valid /\ dc3.cancelled]
    BY DEF PipeStep, Dc4In
  <2>2. /\ valid \in BOOLEAN /\ busreq \in BOOLEAN
        /\ NoStage.busreq = FALSE /\ NoStage.valid = FALSE /\ NoStage.nb = FALSE /\ NoStage.fwd = None
    BY DEF Types, NoStage
  <2>3. /\ busreq = (dc3.busreq /\ ~flush_dc4(f))
        /\ valid = (Valid(dc3.op) /\ ~flush_dc3(f) /\ ~lsu_freeze_dc3(f))
        /\ fwd = (IF valid THEN dc3.fwd ELSE None) /\ (busreq => p0 = WrPtr0_dc3)
        /\ (nb => dc3.op.kind = "load")
    BY DEF lsu_nonblock_load_valid_dc3
  <2> HIDE DEF valid, busreq, fwd, p0, p1, nb
  <2>4. CASE ~valid /\ ~busreq
    <3>1. dc4'.valid = valid /\ dc4'.busreq = busreq /\ dc4'.fwd = None /\ dc4'.nb = FALSE
      BY <2>1, <2>2, <2>4
    <3> QED  BY <2>2, <2>3, <2>4, <3>1
  <2>5. CASE valid \/ busreq
    <3>1. /\ dc4'.valid = valid /\ dc4'.busreq = busreq /\ dc4'.fwd = fwd /\ dc4'.nb = nb
          /\ dc4'.op = dc3.op /\ dc4'.p0 = p0
      BY <2>1, <2>2, <2>5
    <3> QED  BY <2>2, <2>3, <2>5, <3>1
  <2> QED  BY <2>2, <2>4, <2>5
<1> QED  BY <1>1, <1>2

(* The flush of a clock: the pipe stays frozen unless it comes from writeback, *)
(* and a mispredict that reaches the load comes in the first clock of the      *)
(* freeze.                                                                     *)
LEMMA FlushIs ==
    ASSUME setting \in Settings, FreezeInv, NEW f \in Flushes
    PROVE  /\ f \in FlushLevel
           /\ lsu_freeze_dc3(f) <=> ld_freeze /\ f \notin {"lower", "kill"}
           /\ ld_freeze /\ ~dc3.busreq => f # "e3"
           /\ flush_e3 = "e3" => f # "none"
<1>1. Levels \subseteq FlushLevel
  BY SettingIs
<1>2. flush_e3 \in FlushRegister
  BY DEF FreezeInv
<1>3. f \in FlushLevel /\ (flush_e3 # "any" => f \in {flush_e3, "lower", "kill"})
  BY <1>1, <1>2 DEF Flushes, FlushLevel, FlushRegister
<1> QED  BY <1>3 DEF FreezeInv, lsu_freeze_dc3, flush_dc4

LEMMA Dc3Moves ==
    ASSUME Types, NEW f, NEW op \in Pkt, NEW nbfreeze \in BOOLEAN, NEW cancel \in BOOLEAN,
           PipeStep(f, op, nbfreeze, cancel)
    PROVE  /\ lsu_freeze_dc3(f) => /\ dc3'.op = dc3.op /\ dc3'.busreq = FALSE /\ dc3'.fwd = dc3.fwd
                                   /\ dc3'.cancelled = (dc3.cancelled \/ cancel)
                                   /\ dc1' = dc1 /\ dc2' = dc2
           /\ ~lsu_freeze_dc3(f) =>
                 /\ dc3'.cancelled = FALSE
                 /\ ~Valid(dc2) \/ flush_dc2_up(f) => dc3'.op = NoOp /\ dc3'.busreq = FALSE /\ dc3'.fwd = None
                 /\ Valid(dc2) /\ ~flush_dc2_up(f) =>
                      /\ dc3'.op = dc2 /\ dc3'.busreq = (lsu_busreq_dc2(f) /\ ~ld_full_hit_dc2(f))
                      /\ dc3'.fwd = IF ld_full_hit_dc2(f) THEN [b \in dc2.bytes |-> Forwarded(b)] ELSE None
                 /\ dc1' = op /\ dc2' = IF flush_dc2_up(f) THEN NoOp ELSE dc1
<1>1. CASE lsu_freeze_dc3(f)
  BY <1>1 DEF Types, Dc3Of, PipeStep
<1>2. CASE ~lsu_freeze_dc3(f) /\ (~Valid(dc2) \/ flush_dc2_up(f))
  BY <1>2 DEF PipeStep, Dc3In, NoDc3
<1>3. CASE ~lsu_freeze_dc3(f) /\ Valid(dc2) /\ ~flush_dc2_up(f)
  <2> DEFINE hit == ld_full_hit_dc2(f)
             req == lsu_busreq_dc2(f) /\ ~hit
             fwd == IF hit THEN [b \in dc2.bytes |-> Forwarded(b)] ELSE None
  <2>1. dc3' = [op |-> dc2, busreq |-> req, nbfreeze |-> req /\ nbfreeze, fwd |-> fwd, cancelled |-> FALSE]
    BY <1>3 DEF PipeStep, Dc3In
  <2>2. dc1' = op /\ dc2' = IF flush_dc2_up(f) THEN NoOp ELSE dc1
    BY <1>3 DEF PipeStep
  <2> HIDE DEF req, fwd
  <2>3. dc3'.op = dc2 /\ dc3'.busreq = req /\ dc3'.fwd = fwd /\ dc3'.cancelled = FALSE
    BY <2>1
  <2> QED  BY <1>3, <2>2, <2>3 DEF req, fwd
<1> QED  BY <1>1, <1>2, <1>3

LEMMA PipeKept ==
    ASSUME Types, TagsInv, FreezeInv, PipeInv, NEW x, Clock(x)
    PROVE  FreezeInv' /\ PipeInv'
<1> DEFINE f == x.f
           frozen == lsu_freeze_dc3(x.f)
<1>1. /\ PipeStep(f, x.op, x.nbfreeze, x.cancel) /\ MayIssue(x.op, f) /\ setting' = setting
      /\ x.op \in Pkt /\ f \in Flushes /\ x.cancel \in Cancels(f) /\ x.cancel \in BOOLEAN
      /\ x.nbfreeze \in BOOLEAN /\ setting \in Settings
  <2>1. x.cancel \in BOOLEAN
    BY DEF Clock, Cancels
  <2>2. setting \in Settings
    BY DEF Types
  <2>3. x.nbfreeze \in BOOLEAN
    BY <2>2, SettingIs DEF Clock, NbFreezes
  <2> QED  BY <2>1, <2>2, <2>3 DEF Clock, CoreSide
<1>2. /\ f \in FlushLevel
      /\ frozen <=> ld_freeze /\ f \notin {"lower", "kill"}
      /\ ld_freeze /\ ~dc3.busreq => f # "e3"
      /\ flush_e3 = "e3" => f # "none"
  BY <1>1, FlushIs
<1>2a. /\ flush_e3' = IF frozen THEN f ELSE IF f \in {"lower", "kill"} THEN "e3" ELSE "any"
       /\ flush_e3' \in FlushRegister
  <2>1. flush_e3' = IF frozen THEN f ELSE IF f \in {"lower", "kill"} THEN "e3" ELSE "any"
    BY <1>1 DEF PipeStep, FlushRegisterNext, flush_dc4
  <2> QED  BY <1>2, <2>1 DEF FlushRegister, FlushLevel
<1>3. /\ dc4'.valid = (Valid(dc3.op) /\ ~flush_dc3(f) /\ ~frozen)
      /\ dc4'.busreq = (dc3.busreq /\ ~flush_dc4(f))
      /\ dc4'.valid \/ dc4'.busreq => dc4'.op = dc3.op
      /\ dc4'.busreq => dc4'.p0 = WrPtr0_dc3
      /\ dc4'.nb => dc4'.op.kind = "load" /\ dc4'.op = dc3.op
      /\ dc5'.valid = (dc4.valid /\ ~flush_dc4(f))
      /\ dc5'.busreq = (dc4.busreq /\ ~flush_dc5(f))
      /\ dc5'.valid \/ dc5'.busreq => dc5'.op = dc4.op
      /\ dc5'.busreq => dc5'.p0 = dc4.p0
      /\ dc5'.nb => dc5'.op = dc4.op /\ dc4.nb
  BY <1>1, StageMoves
<1>4. /\ frozen => /\ dc3'.op = dc3.op /\ dc3'.busreq = FALSE /\ dc3'.fwd = dc3.fwd
                   /\ dc3'.cancelled = (dc3.cancelled \/ x.cancel)
                   /\ dc1' = dc1 /\ dc2' = dc2
      /\ ~frozen =>
            /\ dc3'.cancelled = FALSE
            /\ ~Valid(dc2) \/ flush_dc2_up(f) => dc3'.op = NoOp /\ dc3'.busreq = FALSE /\ dc3'.fwd = None
            /\ Valid(dc2) /\ ~flush_dc2_up(f) =>
                 /\ dc3'.op = dc2 /\ dc3'.busreq = (lsu_busreq_dc2(f) /\ ~ld_full_hit_dc2(f))
                 /\ dc3'.fwd = IF ld_full_hit_dc2(f) THEN [b \in dc2.bytes |-> Forwarded(b)] ELSE None
            /\ dc1' = x.op /\ dc2' = IF flush_dc2_up(f) THEN NoOp ELSE dc1
  BY <1>1, Dc3Moves
<1>5. /\ dc3.busreq => External(dc3.op) /\ Valid(dc3.op)
      /\ dc1 \in Pkt /\ dc2 \in Pkt /\ dc3.op \in Pkt /\ dc3.busreq \in BOOLEAN /\ dc4.busreq \in BOOLEAN
      /\ dc4.valid \in BOOLEAN /\ dc5.busreq \in BOOLEAN /\ dc5.valid \in BOOLEAN
      /\ dc3.cancelled \in BOOLEAN /\ ld_freeze \in BOOLEAN
  BY <1>1, OpIs DEF Types, External, Dc3Of, StageOf
<1>6. /\ ~Valid(NoOp) /\ ~External(NoOp)
      /\ \A p \in Pkt : Valid(p) <=> p \in Ops
  BY <1>1, OpIs, NoOpIs DEF Pkt, External
<1>7. ld_freeze' = ((ld_freeze \/ ld_freeze_en(f, x.nbfreeze)) /\ ~ld_freeze_rst(f, x.cancel))
      /\ FreezePtr' = IF FreezePtrEn THEN WrPtr0_dc3 ELSE FreezePtr
  BY <1>1 DEF PipeStep, FreezeStep
<1>8. /\ flush_dc2_up(f) <=> f # "none"
      /\ flush_dc3(f) <=> f \in {"e3", "lower", "kill"}
      /\ flush_dc4(f) <=> f \in {"lower", "kill"}
      /\ flush_dc5(f) <=> f = "kill"
  BY DEF flush_dc2_up, flush_dc3, flush_dc4, flush_dc5
<1>9. Ops' = Ops /\ \A p : External(p)' <=> External(p)
  BY <1>1, Stays DEF External
<1>10. x.cancel => ld_freeze /\ dc4.busreq /\ ~dc4.valid
  BY <1>1 DEF Cancels, SecondFreezeCycle
<1>11. FreezingLoad(dc4) /\ buf[FreezePtr].state = "DONE" => FALSE
  <2>1. FreezingLoad(dc4) => FreezePtr \in Reserved(dc4)
    BY DEF FreezingLoad, Reserved
  <2>2. buf[FreezePtr].state = "DONE" => FreezePtr \in Busy
    BY DEF Busy, Types
  <2> QED  BY <2>1, <2>2 DEF TagsInv
<1> HIDE DEF f, frozen
<1>12. CASE frozen
  <2>1. /\ External(dc3.op) /\ dc3.op.kind = "load" /\ dc3.fwd = None
        /\ \/ dc3.busreq
           \/ ~dc3.busreq /\ FreezingLoad(dc4)
           \/ ~dc3.busreq /\ Idle(dc4) /\ FreezingLoad(dc5)
           \/ ~dc3.busreq /\ Idle(dc4) /\ Idle(dc5)
        /\ dc3.busreq => (dc4.busreq => dc4.valid) /\ (dc5.busreq => dc5.valid)
        /\ dc4.busreq /\ ~dc4.valid => (dc5.busreq => dc5.valid)
        /\ dc5.busreq /\ ~dc5.valid => FreezingLoad(dc5) /\ Idle(dc4) /\ ~dc3.busreq
    BY <1>2, <1>12 DEF FreezeInv
  <2>2. /\ dc3'.op = dc3.op /\ dc3'.busreq = FALSE /\ dc3'.fwd = None
        /\ dc3'.cancelled = (dc3.cancelled \/ x.cancel)
        /\ dc4'.valid = FALSE /\ dc4'.busreq = dc3.busreq
        /\ dc5'.valid = dc4.valid /\ dc5'.busreq = dc4.busreq
    BY <1>2, <1>3, <1>4, <1>5, <1>8, <1>12, <2>1
  <2>3. FreezePtrEn <=> dc3.busreq
    BY <1>2, <1>12, <2>1 DEF FreezePtrEn
  <2>3a. ld_freeze' => f \in {"none", "upper"} /\ flush_e3' \in {"none", "upper"}
    BY <1>2, <1>2a, <1>7, <1>8, <1>12 DEF ld_freeze_rst, FlushLevel
  <2>4. FreezeInv'
    <3>1. CASE dc3.busreq
      <4>1. FreezingLoad(dc4)'
        BY <1>3, <1>7, <2>2, <2>3, <3>1 DEF FreezingLoad
      <4> QED  BY <1>2a, <1>9, <2>1, <2>2, <2>3a, <3>1, <4>1 DEF FreezeInv
    <3>2. CASE ~dc3.busreq /\ FreezingLoad(dc4)
      <4>1. Idle(dc4)' /\ FreezingLoad(dc5)'
        BY <1>3, <1>7, <2>2, <2>3, <3>2 DEF FreezingLoad, Idle
      <4> QED  BY <1>2a, <1>9, <2>1, <2>2, <2>3a, <3>2, <4>1 DEF FreezeInv, Idle
    <3>3. CASE ~dc3.busreq /\ Idle(dc4)
      <4>1. Idle(dc4)' /\ Idle(dc5)'
        BY <2>2, <3>3 DEF Idle
      <4> QED  BY <1>2a, <1>9, <2>1, <2>2, <2>3a, <3>3, <4>1 DEF FreezeInv, Idle
    <3> QED  BY <2>1, <3>1, <3>2, <3>3
  <2>5. (dc4.busreq /\ ~dc4.valid /\ ~ld_freeze =>
             (dc1 = NoOp /\ dc2 = NoOp /\ dc3.op = NoOp) \/ flush_e3 = "e3")'
    <3>1. SUFFICES ASSUME dc3.busreq, ~ld_freeze', f # "e3" PROVE FALSE
      BY <1>2a, <1>12, <2>2
    <3>2. ~x.cancel
      BY <1>10, <2>1, <3>1
    <3> QED  BY <1>2, <1>7, <1>8, <1>12, <2>3, <3>1, <3>2 DEF ld_freeze_rst
  <2>6. (dc5.busreq /\ ~dc5.valid /\ ~ld_freeze => (dc2 = NoOp /\ dc3.op = NoOp) \/ dc3.cancelled)'
    <3>1. SUFFICES ASSUME dc4.busreq, ~dc4.valid, ~ld_freeze', ~x.cancel PROVE FALSE
      BY <2>2
    <3>2. ~dc3.busreq /\ FreezingLoad(dc4)
      BY <2>1, <3>1 DEF Idle
    <3>3. buf_rst(FreezePtr)
      BY <1>2, <1>7, <1>8, <1>12, <3>1, <3>2 DEF ld_freeze_rst
    <3> QED  BY <1>11, <3>2, <3>3 DEF buf_rst
  <2>7. (dc3.cancelled => dc3.op.kind = "load" /\ ~dc3.busreq /\ Idle(dc4))'
    <3>1. dc3'.cancelled => ~dc3.busreq
      BY <1>10, <2>1, <2>2 DEF PipeInv
    <3> QED  BY <2>1, <2>2, <3>1 DEF Idle
  <2>8. /\ (External(dc3.op) /\ dc3.op.kind = "store" => dc3.busreq)'
        /\ (\A s \in {dc4, dc5} : s.valid /\ External(s.op) /\ s.op.kind = "store" => s.busreq)'
        /\ (\A s \in {dc4, dc5} : s.valid => s.op \in Ops)'
        /\ (\A s \in {dc4, dc5} : s.nb => s.op.kind = "load")'
    BY <1>3, <1>9, <2>1, <2>2 DEF PipeInv
  <2> QED  BY <2>4, <2>5, <2>6, <2>7, <2>8 DEF PipeInv
<1>13. CASE ~frozen
  <2>0. /\ dc3'.cancelled = FALSE /\ dc1' = x.op
        /\ dc4'.valid = (Valid(dc3.op) /\ ~flush_dc3(f)) /\ dc4'.busreq = (dc3.busreq /\ ~flush_dc4(f))
    BY <1>3, <1>4, <1>13
  <2>1. ld_freeze' => ~ld_freeze /\ f = "none" /\ lsu_busreq_dc2(f) /\ dc2.kind = "load" /\ ~ld_full_hit_dc2(f)
    BY <1>2, <1>7, <1>8, <1>13 DEF ld_freeze_rst, ld_freeze_en, lsu_busreq_dc2
  <2>2. FreezeInv'
    <3>1. SUFFICES ASSUME ld_freeze' PROVE FreezeInv'
      BY <1>2a DEF FreezeInv
    <3>2. Valid(dc2) /\ External(dc2)
      BY <1>5, <1>6, <2>1, <3>1 DEF lsu_busreq_dc2, External
    <3>3. dc3'.op = dc2 /\ dc3'.busreq = TRUE /\ dc3'.fwd = None
      BY <1>4, <1>8, <1>13, <2>1, <3>1, <3>2
    <3>4. dc4'.busreq => dc4'.valid
      BY <1>5, <1>8, <2>0, <2>1, <3>1
    <3>5. dc5'.busreq => dc5'.valid
      <4>1. dc4.busreq => dc4.valid
        BY <1>2, <1>5, <1>6, <2>1, <3>1, <3>2 DEF PipeInv
      <4> QED  BY <1>3, <1>8, <2>1, <3>1, <4>1
    <3> QED  BY <1>2a, <1>9, <2>1, <3>1, <3>2, <3>3, <3>4, <3>5 DEF FreezeInv
  <2>3. f # "none" => dc1' = NoOp /\ dc2' = NoOp /\ dc3'.op = NoOp
    BY <1>1, <1>4, <1>8, <1>13 DEF MayIssue, f
  <2>4. (dc4.busreq /\ ~dc4.valid /\ ~ld_freeze =>
             (dc1 = NoOp /\ dc2 = NoOp /\ dc3.op = NoOp) \/ flush_e3 = "e3")'
    BY <1>5, <1>8, <2>0, <2>3
  <2>5. (dc5.busreq /\ ~dc5.valid /\ ~ld_freeze => (dc2 = NoOp /\ dc3.op = NoOp) \/ dc3.cancelled)'
    <3>1. SUFFICES ASSUME dc4.busreq, ~dc4.valid, f = "none" PROVE dc2' = NoOp /\ dc3'.op = NoOp
      BY <1>3, <1>8, <2>3
    <3>2. dc1 = NoOp /\ dc2 = NoOp
      BY <1>2, <1>13, <3>1 DEF PipeInv
    <3> QED  BY <1>4, <1>6, <1>8, <1>13, <3>1, <3>2
  <2>6. (External(dc3.op) /\ dc3.op.kind = "store" => dc3.busreq)'
    <3>1. CASE ~Valid(dc2) \/ flush_dc2_up(f)
      BY <1>4, <1>6, <1>9, <1>13, <3>1
    <3>2. CASE Valid(dc2) /\ ~flush_dc2_up(f)
      BY <1>4, <1>9, <1>13, <3>2 DEF lsu_busreq_dc2, ld_full_hit_dc2, External
    <3> QED  BY <3>1, <3>2
  <2>7. /\ (\A s \in {dc4, dc5} : s.valid /\ External(s.op) /\ s.op.kind = "store" => s.busreq)'
        /\ (\A s \in {dc4, dc5} : s.valid => s.op \in Ops)'
        /\ (\A s \in {dc4, dc5} : s.nb => s.op.kind = "load")'
    BY <1>3, <1>5, <1>6, <1>8, <1>9, <2>0 DEF PipeInv
  <2> QED  BY <2>0, <2>2, <2>4, <2>5, <2>6, <2>7 DEF PipeInv
<1> QED  BY <1>12, <1>13

-----------------------------------------------------------------------------
(* The contents of the buffers *)

(* A store fills the bytes of one double word, whatever it is merged with. *)
LEMMA StoreFills ==
    ASSUME Types, dc5.busreq, NEW dw
    PROVE  /\ StoreData(dc5.op, dw) \in [BytesIn(dc5.op, dw) -> Values]
           /\ \A b \in BytesIn(dc5.op, dw) : StoreData(dc5.op, dw)[b] = dc5.op.val
<1>1. dc5.op.val \in Values
  BY HalfTypes, OpIs DEF Types
<1> QED  BY <1>1 DEF StoreData

LEMMA OverlayIs ==
    ASSUME NEW A, NEW B, NEW g \in [A -> Values], NEW h \in [B -> Values]
    PROVE  /\ Overlay(g, h) \in [B \cup A -> Values]
           /\ \A b \in A \cup B : Overlay(g, h)[b] = IF b \in A THEN g[b] ELSE h[b]
<1>1. DOMAIN g = A /\ DOMAIN h = B
  OBVIOUS
<1>2. Overlay(g, h) = [b \in A \cup B |-> IF b \in A THEN g[b] ELSE h[b]]
  BY <1>1 DEF Overlay
<1>3. \A b \in A \cup B : (IF b \in A THEN g[b] ELSE h[b]) \in Values
  OBVIOUS
<1>4. B \cup A = A \cup B
  OBVIOUS
<1> QED  BY <1>2, <1>3, <1>4

LEMMA IbufContent ==
    ASSUME Types, NEW f, NEW clk
    PROVE  /\ FromIbuf(f, clk).write = ibuf.write
           /\ FromIbuf(f, clk).bytes = ibuf.bytes \cup (IF DrainMerges(f) THEN BytesIn(dc5.op, Lo(dc5.op)) ELSE {})
           /\ FromIbuf(f, clk).data = IF DrainMerges(f) THEN Overlay(StoreData(dc5.op, ibuf.dw), ibuf.data) ELSE ibuf.data
<1>1. FromIbuf(f, clk).write = ibuf.write
  BY FromIbufIs
<1>2. FromIbuf(f, clk).bytes = ibuf.bytes \cup (IF DrainMerges(f) THEN BytesIn(dc5.op, Lo(dc5.op)) ELSE {})
  BY FromIbufIs
<1>3. FromIbuf(f, clk).data = IF DrainMerges(f) THEN Overlay(StoreData(dc5.op, ibuf.dw), ibuf.data) ELSE ibuf.data
  BY FromIbufIs
<1> QED  BY <1>1, <1>2, <1>3

LEMMA Dc5Content ==
    ASSUME Types, NEW f, NEW clk, NEW high \in BOOLEAN, dc5.busreq
    PROVE  /\ FromDc5(f, clk, high).write <=> dc5.op.kind = "store"
           /\ FromDc5(f, clk, high).bytes = BytesIn(dc5.op, Half(high))
           /\ FromDc5(f, clk, high).write => FromDc5(f, clk, high).data = StoreData(dc5.op, Half(high))
  BY FromDc5Is, ZenonT(60)

LEMMA EntryFilled ==
    ASSUME Types, TagsInv, ContentInv, NEW f, NEW clk \in BOOLEAN, IbufStep(f), EntryStep(f, clk),
           NEW i \in Tag, buf'[i].write
    PROVE  buf'[i].data \in [buf'[i].bytes -> Values]
<1>0. EntryOf(buf[i]) /\ IdleEntry.write = FALSE
  BY DEF Types, IdleEntry
<1>1. CASE i \in Drained(f)
  <2> DEFINE merge == DrainMerges(f)
             lo == BytesIn(dc5.op, Lo(dc5.op))
             e == FromIbuf(f, clk)
  <2>1. buf'[i] = e
    BY <1>1, EntryMoves
  <2>2. /\ e.write = ibuf.write /\ e.bytes = ibuf.bytes \cup (IF merge THEN lo ELSE {})
        /\ e.data = IF merge THEN Overlay(StoreData(dc5.op, ibuf.dw), ibuf.data) ELSE ibuf.data
    <3>1. e.write = ibuf.write
      BY IbufContent
    <3>2. e.bytes = ibuf.bytes \cup (IF merge THEN lo ELSE {})
      BY IbufContent
    <3>3. e.data = IF merge THEN Overlay(StoreData(dc5.op, ibuf.dw), ibuf.data) ELSE ibuf.data
      BY IbufContent
    <3> QED  BY <3>1, <3>2, <3>3
  <2> HIDE DEF e
  <2>3. ibuf.data \in [ibuf.bytes -> Values]
    BY <2>1, <2>2 DEF ContentInv
  <2>4. CASE merge
    <3>1. dc5.busreq /\ lo = BytesIn(dc5.op, ibuf.dw)
      BY <2>4 DEF ibuf_merge_en, DrainMerges
    <3>2. StoreData(dc5.op, ibuf.dw) \in [lo -> Values]
      BY <3>1, StoreFills
    <3> HIDE DEF lo
    <3> DEFINE new == StoreData(dc5.op, ibuf.dw)
    <3> HIDE DEF new, merge
    <3>3. new \in [lo -> Values]
      BY <3>2 DEF new
    <3>4. Overlay(new, ibuf.data) \in [ibuf.bytes \cup lo -> Values]
      BY <2>3, <3>3, OverlayIs
    <3>5. e.bytes = ibuf.bytes \cup lo /\ e.data = Overlay(new, ibuf.data)
      BY <2>2, <2>4 DEF new
    <3> QED  BY <2>1, <3>4, <3>5
  <2>5. CASE ~merge
    <3> HIDE DEF merge, lo
    <3>1. e.bytes = ibuf.bytes /\ e.data = ibuf.data
      BY <2>2, <2>5
    <3> QED  BY <2>1, <2>3, <3>1
  <2> QED  BY <2>4, <2>5
<1>2. ASSUME NEW high \in BOOLEAN, dc5.busreq, buf'[i] = FromDc5(f, clk, high)
      PROVE  buf'[i].data \in [buf'[i].bytes -> Values]
  <2> DEFINE e == FromDc5(f, clk, high)
             dw == Half(high)
  <2>1. e.bytes = BytesIn(dc5.op, dw) /\ (e.write => e.data = StoreData(dc5.op, dw))
    BY <1>2, Dc5Content
  <2> HIDE DEF e, dw
  <2>2. StoreData(dc5.op, dw) \in [BytesIn(dc5.op, dw) -> Values]
    BY <1>2, StoreFills
  <2>3. buf'[i] = e
    BY <1>2 DEF e
  <2> QED  BY <2>1, <2>2, <2>3
<1>3. CASE i \in LowAlloc(f)
  <2>1. buf'[i] = FromDc5(f, clk, FALSE)
    BY <1>3, EntryMoves
  <2>2. dc5.busreq
    BY <1>3, AllocIs
  <2> QED  BY <1>2, <2>1, <2>2
<1>4. CASE i \in HighAlloc(f)
  <2>1. buf'[i] = FromDc5(f, clk, TRUE)
    BY <1>4, EntryMoves
  <2>2. dc5.busreq
    BY <1>4, AllocIs
  <2> QED  BY <1>2, <2>1, <2>2
<1>5. CASE i \notin Alloc(f)
  <2>1. /\ buf[i].state = "IDLE" => buf'[i] = buf[i]
        /\ buf[i].state = "WAIT" => buf'[i] = IF clk THEN [buf[i] EXCEPT !.state = "CMD"] ELSE buf[i]
        /\ buf[i].state = "CMD" => buf'[i] = IF CmdSent(i) /\ clk THEN [buf[i] EXCEPT !.state = "RESP"] ELSE buf[i]
        /\ buf[i].state = "RESP" => buf'[i] = IF clk /\ Answers(i) # {} THEN Answered(i) ELSE buf[i]
        /\ buf[i].state = "DONE" => buf'[i] = IF buf_rst(i) THEN IdleEntry ELSE buf[i]
    BY <1>5, EntryMoves
  <2>2. buf'[i].data = buf[i].data /\ buf'[i].bytes = buf[i].bytes /\ buf[i].write
    <3>1. CASE buf[i].state = "RESP" /\ buf'[i] = Answered(i)
      <4> DEFINE r == CHOOSE r \in Answers(i) : TRUE
      <4>1. buf'[i] = IF buf[i].write /\ ~r.err THEN IdleEntry
                      ELSE [buf[i] EXCEPT !.state = "DONE", !.error = r.err,
                                          !.data = IF buf[i].write THEN buf[i].data ELSE r.data]
        BY <3>1 DEF Answered
      <4> HIDE DEF r
      <4>2. ~(buf[i].write /\ ~r.err)
        BY <1>0, <4>1
      <4> DEFINE d == IF buf[i].write THEN buf[i].data ELSE r.data
      <4>3. buf'[i] = [buf[i] EXCEPT !.state = "DONE", !.error = r.err, !.data = d]
        BY <4>1, <4>2
      <4> HIDE DEF d
      <4>4. buf'[i].write = buf[i].write /\ buf'[i].bytes = buf[i].bytes /\ buf'[i].data = d
        BY <1>0, <4>3 DEF EntryOf
      <4> QED  BY <4>4 DEF d
    <3>2. CASE buf[i].state # "RESP" \/ buf'[i] # Answered(i)
      BY <1>0, <2>1, <3>2 DEF EntryOf
    <3> QED  BY <3>1, <3>2
  <2> QED  BY <2>2 DEF ContentInv
<1> QED  BY <1>1, <1>3, <1>4, <1>5 DEF Alloc

LEMMA ContentKept ==
    ASSUME Types, TagsInv, CmdInv, OrderInv, ContentInv, NEW x, Clock(x)
    PROVE  ContentInv'
<1>1. /\ IbufStep(x.f) /\ EntryStep(x.f, x.clk) /\ x.clk \in BOOLEAN
  BY DEF Clock, CoreSide
<1>2. (ibuf.write => ibuf.data \in [ibuf.bytes -> Values])'
  <2>1. CASE ibuf_wr_en(x.f)
    <3>1. dc5.busreq /\ ibuf' = IbufIn(x.f)
      BY <1>1, <2>1 DEF IbufStep, ibuf_wr_en, Takes
    <3> DEFINE merge == ibuf_merge_en(x.f) /\ ibuf_merge_in
               dw == IF Dual(dc5.op) THEN Hi(dc5.op) ELSE Lo(dc5.op)
               data == StoreData(dc5.op, dw)
    <3>2. SUFFICES ASSUME ibuf'.write PROVE ibuf'.data \in [ibuf'.bytes -> Values]
      OBVIOUS
    <3>3. /\ dc5.op.kind = "store" /\ ibuf'.bytes = BytesIn(dc5.op, dw) \cup (IF merge THEN ibuf.bytes ELSE {})
          /\ ibuf'.data = IF merge THEN Overlay(data, ibuf.data) ELSE data
      BY <3>1, <3>2, IbufInIs
    <3>4. data \in [BytesIn(dc5.op, dw) -> Values]
      BY <3>1, StoreFills
    <3>5. CASE merge
      <4>1. ibuf.data \in [ibuf.bytes -> Values]
        BY <3>5 DEF ibuf_merge_en, ContentInv
      <4> HIDE DEF data, merge, dw
      <4>2. Overlay(data, ibuf.data) \in [ibuf.bytes \cup BytesIn(dc5.op, dw) -> Values]
        BY <3>4, <4>1, OverlayIs
      <4>3. ibuf'.bytes = ibuf.bytes \cup BytesIn(dc5.op, dw)
        BY <3>3, <3>5
      <4> QED  BY <3>3, <3>5, <4>2, <4>3
    <3>6. CASE ~merge
      <4> HIDE DEF data, merge, dw
      <4>1. ibuf'.bytes = BytesIn(dc5.op, dw) /\ ibuf'.data = data
        BY <3>3, <3>6
      <4> QED  BY <3>4, <4>1
    <3> QED  BY <3>5, <3>6
  <2>2. CASE ~ibuf_wr_en(x.f) /\ (~ibuf.valid \/ ibuf_drain_vld(x.f))
    BY <1>1, <2>2 DEF IbufStep, NoIbuf
  <2>3. CASE ~ibuf_wr_en(x.f) /\ ~(~ibuf.valid \/ ibuf_drain_vld(x.f))
    BY <1>1, <2>3 DEF IbufStep, ContentInv, Types, IbufOf
  <2> QED  BY <2>1, <2>2, <2>3
<1>3. ASSUME NEW i \in Tag, buf'[i].write PROVE buf'[i].data \in [buf'[i].bytes -> Values]
  BY <1>1, <1>3, EntryFilled
<1>4. ASSUME NEW i \in Tag PROVE i \notin ageQ'[i]
  <2>1. ageQ'[i] = AgeIn(i, x.f)
    BY <1>1 DEF EntryStep
  <2>2. i \notin buf_age(i) /\ (i \in Pending => i \notin Alloc(x.f))
    <3>1. Alloc(x.f) \cap Busy = {}
      BY <1>1, AllocIs
    <3> QED  BY <3>1 DEF OrderInv, Pending, PendingCmd, Busy
  <2>3. /\ i \in LowAlloc(x.f) => i \notin Drained(x.f)
        /\ i \in HighAlloc(x.f) => i # dc5.p0
    <3>1. /\ LowAlloc(x.f) \cup HighAlloc(x.f) \subseteq Reserved(dc5) /\ Drained(x.f) \cap Reserved(dc5) = {}
          /\ (HighAlloc(x.f) # {} => dc5.busreq /\ Dual(dc5.op) /\ HighAlloc(x.f) = {dc5.p1})
      BY <1>1, AllocIs
    <3> QED  BY <3>1 DEF TagsInv
  <2> QED  BY <2>1, <2>2, <2>3 DEF AgeIn, Alloc
<1>5. mem' \in [Bytes -> Values]
  <2>1. x.writes \subseteq outstanding /\ \A o \in x.writes : o.write = TRUE
    BY AnswersAre, ZenonT(60) DEF Clock
  <2>2. \A o \in x.writes : o.data \in [o.bytes -> Values]
    <3>1. ASSUME NEW o \in x.writes PROVE o.data \in [o.bytes -> Values]
      <4>1. /\ o.tag \in Resp
            /\ o = [tag |-> o.tag, write |-> buf[o.tag].write, dw |-> buf[o.tag].dw,
                    bytes |-> buf[o.tag].bytes, data |-> buf[o.tag].data]
        BY <2>1 DEF CmdInv
      <4>2. o.write = buf[o.tag].write /\ o.bytes = buf[o.tag].bytes /\ o.data = buf[o.tag].data /\ o.tag \in Tag
        BY <4>1 DEF Resp
      <4> QED  BY <2>1, <4>2 DEF ContentInv
    <3> QED  BY <3>1
  <2>3. \A o, p \in x.writes : o = p
    BY AnswersAre DEF Clock
  <2>4. CASE ~x.clk
    BY <2>4 DEF Clock, SlaveStep, busVars, ContentInv
  <2>5. CASE x.clk
    <3>1. mem' = [b \in Bytes |-> IF \E o \in x.writes : b \in o.bytes
                                  THEN (CHOOSE o \in x.writes : TRUE).data[b] ELSE mem[b]]
      BY <2>5 DEF Clock, SlaveStep
    <3>2. ASSUME NEW b \in Bytes, NEW o \in x.writes, b \in o.bytes
          PROVE  (CHOOSE p \in x.writes : TRUE).data[b] \in Values
      <4>1. (CHOOSE p \in x.writes : TRUE) = o
        BY <2>3, <3>2
      <4> QED  BY <2>2, <3>2, <4>1
    <3> QED  BY <3>1, <3>2 DEF ContentInv
  <2> QED  BY <1>1, <2>4, <2>5
<1> QED  BY <1>2, <1>3, <1>4, <1>5 DEF ContentInv

LEMMA FrontBusy ==
    ASSUME Types, CmdInv
    PROVE  /\ Front \subseteq Busy /\ InBus \subseteq Front
           /\ \A i \in InBus : i \in Tag /\ buf[i].state = "RESP"
<1>1. InBus \subseteq Resp /\ Resp \subseteq Busy /\ Resp \subseteq Tag
  BY CmdUnique DEF Resp, Busy
<1>2. \A i \in InObuf : i \in Tag /\ buf[i].state # "IDLE"
  BY DEF InObuf, Types, ObufOf, CmdInv
<1> QED  BY <1>1, <1>2 DEF Front, Busy, Resp

(* The bytes of the store in dc5 that are merged with the access in ibuf. *)
Merged(f, i, b) == i \in IbufTag /\ ibuf_merge_en(f) /\ b \in BytesIn(dc5.op, Lo(dc5.op))

LEMMA DrainMoves ==
    ASSUME Types, TagsInv, NEW f, NEW clk \in BOOLEAN, IbufStep(f), EntryStep(f, clk), NEW i \in Tag,
           i \in Drained(f)
    PROVE  buf'[i] = FromIbuf(f, clk)
  BY EntryMoves

(* An access that stays keeps what it does, but for what is merged with it. *)
LEMMA RestMoves ==
    ASSUME Types, TagsInv, CmdInv, OrderInv, ContentInv, NEW x, Clock(x),
           NEW i \in DOMAIN older \ Performed(x)
    PROVE  /\ IsRead(i)' <=> IsRead(i)
           /\ IsRead(i) => BytesOf(i)' = BytesOf(i)
           /\ \A b : Writes(i, b)' <=> Writes(i, b) \/ Merged(x.f, i, b)
           /\ \A b : Writes(i, b)' => DataOf(i)'[b] = IF Merged(x.f, i, b) THEN dc5.op.val ELSE DataOf(i)[b]
<1>1. /\ IbufStep(x.f) /\ EntryStep(x.f, x.clk) /\ x.clk \in BOOLEAN
  BY DEF Clock, CoreSide
<1>2. Types' /\ OrderInv' /\ CmdInv'
  BY TypesKept, OrderKept, CmdKept
<1>3. /\ DOMAIN older = Pending \cup IbufTag \cup Front
      /\ DOMAIN older' = Pending' \cup IbufTag' \cup Front'
      /\ i \in DOMAIN older'
  BY <1>2, OlderMoves DEF OrderInv
<1>4. /\ IbufTag' \subseteq IbufTag \cup Reserved(dc5) /\ IbufTag \subseteq Drained(x.f) \cup IbufTag'
      /\ IbufTag' \cap Alloc(x.f) = {} /\ Alloc(x.f) \cap Busy = {}
  BY <1>1, AllocIs
<1>5. Busy \cap IbufTag = {} /\ (Busy \cup IbufTag) \cap Reserved(dc5) = {}
  BY DEF TagsInv
<1>6. ibuf_merge_en(x.f) => /\ dc5.busreq /\ dc5.op.kind = "store" /\ ibuf.write /\ ibuf.dw = Lo(dc5.op)
                            /\ ibuf.data \in [ibuf.bytes -> Values]
                            /\ StoreData(dc5.op, Lo(dc5.op)) \in [BytesIn(dc5.op, Lo(dc5.op)) -> Values]
                            /\ \A b \in BytesIn(dc5.op, Lo(dc5.op)) : StoreData(dc5.op, Lo(dc5.op))[b] = dc5.op.val
  <2>1. ibuf_merge_en(x.f) => dc5.busreq /\ dc5.op.kind = "store" /\ ibuf.write /\ ibuf.dw = Lo(dc5.op)
    BY DEF ibuf_merge_en
  <2>2. dc5.busreq => /\ StoreData(dc5.op, Lo(dc5.op)) \in [BytesIn(dc5.op, Lo(dc5.op)) -> Values]
                      /\ \A b \in BytesIn(dc5.op, Lo(dc5.op)) : StoreData(dc5.op, Lo(dc5.op))[b] = dc5.op.val
    BY StoreFills
  <2> QED  BY <2>1, <2>2 DEF ContentInv
<1> DEFINE new == StoreData(dc5.op, Lo(dc5.op))
           lo == BytesIn(dc5.op, Lo(dc5.op))
<1>7. ASSUME ibuf_merge_en(x.f)
      PROVE  \A b \in lo \cup ibuf.bytes : Overlay(new, ibuf.data)[b] = IF b \in lo THEN dc5.op.val ELSE ibuf.data[b]
  <2>1. new \in [lo -> Values] /\ ibuf.data \in [ibuf.bytes -> Values] /\ \A b \in lo : new[b] = dc5.op.val
    BY <1>6, <1>7
  <2> HIDE DEF new, lo
  <2>2. ASSUME NEW b \in lo \cup ibuf.bytes PROVE Overlay(new, ibuf.data)[b] = IF b \in lo THEN new[b] ELSE ibuf.data[b]
    <3>1. DOMAIN new = lo /\ DOMAIN ibuf.data = ibuf.bytes
      BY <2>1
    <3> QED  BY <3>1 DEF Overlay
  <2> QED  BY <2>1, <2>2
<1>8. CASE i \in IbufTag /\ i \in IbufTag'
  <2>1. i \notin Reserved(dc5)
    BY <1>5, <1>8
  <2>2. Waits(x.f) \/ Merges(x.f)
    <3>1. Waits(x.f) \/ Bypasses(x.f) \/ Enters(x.f) \/ Merges(x.f) \/ MergesLow(x.f)
      BY <1>1, SixCases
    <3>2. Takes(x.f) => Last \in Reserved(dc5) /\ (Dual(dc5.op) => dc5.p1 \in Reserved(dc5))
      BY DEF Takes, Reserved, Last
    <3> QED  BY <1>8, <2>1, <3>1, <3>2 DEF Bypasses, Enters, MergesLow
  <2>3. CASE Waits(x.f)
    <3>1. ibuf'.write = ibuf.write /\ ibuf'.bytes = ibuf.bytes /\ ibuf'.data = ibuf.data /\ ~ibuf_merge_en(x.f)
      BY <1>8, <2>3 DEF Waits, Types, IbufOf
    <3> QED  BY <1>8, <3>1 DEF IsRead, BytesOf, Writes, DataOf, Merged
  <2>4. CASE Merges(x.f)
    <3>1. ibuf_merge_en(x.f) /\ ~Dual(dc5.op) /\ ibuf' = IbufIn(x.f) /\ ibuf_merge_in
      BY <2>4 DEF Merges, ibuf_merge_in
    <3>2. /\ ibuf'.write /\ ibuf'.bytes = lo \cup ibuf.bytes /\ ibuf'.data = Overlay(new, ibuf.data)
      <4>1. dc5.busreq /\ dc5.op.kind = "store"
        BY <1>6, <3>1
      <4>2. LET e == IbufIn(x.f)
                merge == ibuf_merge_en(x.f) /\ ibuf_merge_in
                dw == IF Dual(dc5.op) THEN Hi(dc5.op) ELSE Lo(dc5.op)
                store == dc5.op.kind = "store"
                data == IF store THEN StoreData(dc5.op, dw) ELSE None
            IN  /\ e.write = store
                /\ e.bytes = BytesIn(dc5.op, dw) \cup (IF merge THEN ibuf.bytes ELSE {})
                /\ e.data = (IF merge THEN Overlay(data, ibuf.data) ELSE data)
        BY <4>1, IbufInIs
      <4> QED  BY <3>1, <4>1, <4>2
    <3>3. ibuf.write /\ ibuf_merge_en(x.f)
      BY <1>6, <3>1
    <3> HIDE DEF new, lo
    <3>4. \A b : Writes(i, b)' <=> b \in lo \cup ibuf.bytes
      BY <1>8, <3>2 DEF Writes
    <3>5. \A b : Writes(i, b) \/ Merged(x.f, i, b) <=> b \in lo \cup ibuf.bytes
      BY <1>8, <3>3 DEF Writes, Merged, lo
    <3>6. DataOf(i)' = Overlay(new, ibuf.data) /\ DataOf(i) = ibuf.data /\ ~IsRead(i) /\ ~IsRead(i)'
      BY <1>8, <3>2, <3>3 DEF DataOf, IsRead
    <3>7. \A b : Merged(x.f, i, b) <=> b \in lo
      BY <1>8, <3>3 DEF Merged, lo
    <3> QED  BY <1>7, <3>3, <3>4, <3>5, <3>6, <3>7
  <2> QED  BY <2>2, <2>3, <2>4
<1>9. CASE i \in IbufTag /\ i \notin IbufTag'
  <2>1. i \in Drained(x.f) /\ i = ibuf.tag /\ i \in Tag
    BY <1>4, <1>9 DEF IbufTag, Types, IbufOf
  <2>2. buf'[i] = FromIbuf(x.f, x.clk)
    BY <1>1, <2>1, DrainMoves
  <2>3. DrainMerges(x.f) <=> ibuf_merge_en(x.f)
    <3>1. ibuf_merge_en(x.f) /\ ibuf_merge_in => Drained(x.f) = {}
      <4>1. Waits(x.f) \/ Bypasses(x.f) \/ Enters(x.f) \/ Merges(x.f) \/ MergesLow(x.f)
        BY <1>1, SixCases
      <4> QED  BY <4>1 DEF Waits, Bypasses, Enters, Merges, MergesLow, ibuf_merge_in
    <3> QED  BY <2>1, <3>1 DEF DrainMerges
  <2>4. /\ buf'[i].write = ibuf.write
        /\ buf'[i].bytes = ibuf.bytes \cup (IF ibuf_merge_en(x.f) THEN lo ELSE {})
        /\ buf'[i].data = IF ibuf_merge_en(x.f) THEN Overlay(StoreData(dc5.op, ibuf.dw), ibuf.data) ELSE ibuf.data
    BY <2>2, <2>3, IbufContent
  <2>5. CASE ibuf_merge_en(x.f)
    <3>1. buf'[i].write /\ buf'[i].bytes = lo \cup ibuf.bytes /\ buf'[i].data = Overlay(new, ibuf.data) /\ ibuf.write
      BY <1>6, <2>4, <2>5
    <3> HIDE DEF new, lo
    <3>4. \A b : Writes(i, b)' <=> b \in lo \cup ibuf.bytes
      BY <1>9, <3>1 DEF Writes
    <3>5. \A b : Writes(i, b) \/ Merged(x.f, i, b) <=> b \in lo \cup ibuf.bytes
      BY <1>9, <2>5, <3>1 DEF Writes, Merged, lo
    <3>6. DataOf(i)' = Overlay(new, ibuf.data) /\ DataOf(i) = ibuf.data /\ ~IsRead(i) /\ ~IsRead(i)'
      BY <1>9, <3>1 DEF DataOf, IsRead
    <3>7. \A b : Merged(x.f, i, b) <=> b \in lo
      BY <1>9, <2>5 DEF Merged, lo
    <3> QED  BY <1>7, <2>5, <3>4, <3>5, <3>6, <3>7
  <2>6. CASE ~ibuf_merge_en(x.f)
    <3>1. buf'[i].write = ibuf.write /\ buf'[i].bytes = ibuf.bytes /\ buf'[i].data = ibuf.data
      BY <2>4, <2>6
    <3> QED  BY <1>9, <2>6, <3>1 DEF IsRead, BytesOf, Writes, DataOf, Merged
  <2> QED  BY <2>5, <2>6
<1>10. CASE i \notin IbufTag
  <2>1. i \in Busy
    <3>1. Pending \subseteq Busy
      BY DEF Pending, PendingCmd, Busy
    <3>2. Front \subseteq Busy
      BY FrontBusy
    <3> QED  BY <1>3, <1>10, <3>1, <3>2
  <2>2. i \in Tag /\ i \notin Alloc(x.f) /\ i \notin IbufTag'
    BY <1>4, <1>5, <1>10, <2>1 DEF Busy
  <2>3. buf'[i].state \in {"WAIT", "CMD", "RESP"}
    <3>1. i \in Pending' \/ i \in InObuf' \/ i \in InBus'
      BY <1>3, <2>2 DEF Front
    <3>2. i \in Pending' => buf'[i].state \in {"WAIT", "CMD"}
      BY DEF Pending, PendingCmd
    <3>3. i \in InObuf' => buf'[i].state \in {"CMD", "RESP"}
      BY <1>2 DEF InObuf, CmdInv
    <3>4. i \in InBus' => buf'[i].state = "RESP"
      BY <1>2 DEF InBus, CmdInv, Resp
    <3> QED  BY <3>1, <3>2, <3>3, <3>4
  <2>4. buf'[i].write = buf[i].write /\ buf'[i].bytes = buf[i].bytes /\ buf'[i].data = buf[i].data
    BY <1>1, <2>2, <2>3, StateMoves
  <2> QED  BY <1>10, <2>2, <2>4 DEF IsRead, BytesOf, Writes, DataOf, Merged
<1> QED  BY <1>8, <1>9, <1>10

(* What the access in dc5 brings. *)
New(f, high) == IF high THEN NewHigh(f) ELSE NewLow(f)
LEMMA IntoIbuf ==
    ASSUME Types, NEW f, dc5.busreq, ~(ibuf_merge_en(f) /\ ibuf_merge_in)
    PROVE  LET dw == IF Dual(dc5.op) THEN Hi(dc5.op) ELSE Lo(dc5.op)
           IN  /\ IbufIn(f).write <=> dc5.op.kind = "store"
               /\ IbufIn(f).bytes = BytesIn(dc5.op, dw)
               /\ dc5.op.kind = "store" => IbufIn(f).data = StoreData(dc5.op, dw)
<1> DEFINE dw == IF Dual(dc5.op) THEN Hi(dc5.op) ELSE Lo(dc5.op)
           merge == ibuf_merge_en(f) /\ ibuf_merge_in
           store == dc5.op.kind = "store"
           data == IF store THEN StoreData(dc5.op, dw) ELSE None
           e == IbufIn(f)
<1>1. /\ e.write = store
      /\ e.bytes = BytesIn(dc5.op, dw) \cup (IF merge THEN ibuf.bytes ELSE {})
      /\ e.data = (IF merge THEN Overlay(data, ibuf.data) ELSE data)
  BY IbufInIs
<1>2. ~merge
  OBVIOUS
<1> HIDE DEF dw, merge, e
<1>3. e.bytes = BytesIn(dc5.op, dw) /\ e.data = data
  BY <1>1, <1>2
<1> QED  BY <1>1, <1>3 DEF dw, e

LEMMA IntoEntry ==
    ASSUME Types, TagsInv, NEW f, NEW clk \in BOOLEAN, IbufStep(f), EntryStep(f, clk), NEW high \in BOOLEAN,
           NEW t, t \in IF high THEN HighAlloc(f) ELSE LowAlloc(f)
    PROVE  dc5.busreq /\ t \in Tag /\ buf'[t] = FromDc5(f, clk, high)
<1>1. CASE high
  <2>1. t \in HighAlloc(f) /\ high = TRUE
    BY <1>1
  <2>2. dc5.busreq /\ t \in Tag
    BY <2>1, AllocIs DEF Alloc
  <2>3. buf'[t] = FromDc5(f, clk, TRUE)
    BY <2>1, <2>2, EntryMoves, ZenonT(60)
  <2> QED  BY <2>1, <2>2, <2>3
<1>2. CASE ~high
  <2>1. t \in LowAlloc(f) /\ high = FALSE
    BY <1>2
  <2>2. dc5.busreq /\ t \in Tag
    BY <2>1, AllocIs DEF Alloc
  <2>3. buf'[t] = FromDc5(f, clk, FALSE)
    BY <2>1, <2>2, EntryMoves
  <2> QED  BY <2>1, <2>2, <2>3
<1> QED  BY <1>1, <1>2

LEMMA NewMoves ==
    ASSUME Types, TagsInv, NEW x, Clock(x), NEW high \in BOOLEAN, NEW t \in New(x.f, high)
    PROVE  /\ Takes(x.f) /\ (high => Dual(dc5.op))
           /\ IsRead(t)' <=> dc5.op.kind # "store"
           /\ BytesOf(t)' = BytesIn(dc5.op, Half(high))
           /\ \A b : Writes(t, b)' <=> dc5.op.kind = "store" /\ b \in BytesIn(dc5.op, Half(high))
           /\ \A b : Writes(t, b)' => DataOf(t)'[b] = dc5.op.val
<1>1. /\ IbufStep(x.f) /\ EntryStep(x.f, x.clk) /\ x.clk \in BOOLEAN
  BY DEF Clock, CoreSide
<1>2. Takes(x.f) /\ dc5.busreq /\ (high => t = dc5.p1 /\ Dual(dc5.op)) /\ (~high => t = dc5.p0 /\ ~ibuf_merge_en(x.f))
  BY DEF New, NewLow, NewHigh, Takes
<1>3. \/ t \in (IF high THEN HighAlloc(x.f) ELSE LowAlloc(x.f)) /\ t \notin IbufTag'
      \/ /\ IbufTag' = {t} /\ ibuf' = IbufIn(x.f) /\ ~(ibuf_merge_en(x.f) /\ ibuf_merge_in)
         /\ Half(high) = IF Dual(dc5.op) THEN Hi(dc5.op) ELSE Lo(dc5.op)
  <2>1. Waits(x.f) \/ Bypasses(x.f) \/ Enters(x.f) \/ Merges(x.f) \/ MergesLow(x.f)
    BY <1>1, SixCases
  <2>2. Dual(dc5.op) => dc5.p0 # dc5.p1
    BY <1>2 DEF TagsInv
  <2>3. CASE Bypasses(x.f)
    BY <1>2, <2>3 DEF Bypasses
  <2>4. CASE Enters(x.f) /\ Dual(dc5.op) /\ ~high
    BY <1>2, <2>2, <2>4 DEF Enters, Low, Last
  <2>5. CASE Enters(x.f) /\ (~Dual(dc5.op) \/ high)
    BY <1>2, <2>5 DEF Enters, Last, Half
  <2>6. CASE MergesLow(x.f)
    BY <1>2, <2>6 DEF MergesLow, Half, ibuf_merge_in
  <2> QED  BY <1>2, <2>1, <2>3, <2>4, <2>5, <2>6 DEF Waits, Merges
<1>4. \E e : /\ e.write <=> dc5.op.kind = "store"
             /\ e.bytes = BytesIn(dc5.op, Half(high))
             /\ e.write => e.data = StoreData(dc5.op, Half(high))
             /\ \/ t \in IbufTag' /\ ibuf' = e
                \/ t \notin IbufTag' /\ buf'[t] = e
  <2>1. CASE t \in (IF high THEN HighAlloc(x.f) ELSE LowAlloc(x.f)) /\ t \notin IbufTag'
    <3> DEFINE e == FromDc5(x.f, x.clk, high)
    <3>1. buf'[t] = e
      BY <1>1, <2>1, IntoEntry
    <3>2. /\ e.write <=> dc5.op.kind = "store"
          /\ e.bytes = BytesIn(dc5.op, Half(high))
          /\ e.write => e.data = StoreData(dc5.op, Half(high))
      BY <1>2, Dc5Content
    <3> QED  BY <2>1, <3>1, <3>2
  <2>2. CASE /\ IbufTag' = {t} /\ ibuf' = IbufIn(x.f) /\ ~(ibuf_merge_en(x.f) /\ ibuf_merge_in)
             /\ Half(high) = IF Dual(dc5.op) THEN Hi(dc5.op) ELSE Lo(dc5.op)
    <3> DEFINE e == IbufIn(x.f)
    <3>1. /\ e.write <=> dc5.op.kind = "store"
          /\ e.bytes = BytesIn(dc5.op, Half(high))
          /\ dc5.op.kind = "store" => e.data = StoreData(dc5.op, Half(high))
      BY <1>2, <2>2, IntoIbuf
    <3> QED  BY <2>2, <3>1
  <2> QED  BY <1>3, <2>1, <2>2
<1>5. PICK e : /\ e.write <=> dc5.op.kind = "store"
               /\ e.bytes = BytesIn(dc5.op, Half(high))
               /\ e.write => e.data = StoreData(dc5.op, Half(high))
               /\ \/ t \in IbufTag' /\ ibuf' = e
                  \/ t \notin IbufTag' /\ buf'[t] = e
  BY <1>4
<1>6. /\ IsRead(t)' <=> ~e.write
      /\ BytesOf(t)' = e.bytes /\ DataOf(t)' = e.data
      /\ \A b : Writes(t, b)' <=> e.write /\ b \in e.bytes
  BY <1>5 DEF IsRead, BytesOf, DataOf, Writes
<1>7. \A b \in BytesIn(dc5.op, Half(high)) : StoreData(dc5.op, Half(high))[b] = dc5.op.val
  BY <1>2, StoreFills
<1> QED  BY <1>2, <1>5, <1>6, <1>7

-----------------------------------------------------------------------------
(* Data *)

(* In front of an access the slave holds are only accesses it holds too,   *)
(* and none of them to the same byte.                                      *)
LEMMA BusFirst ==
    ASSUME Types, TagsInv, CmdInv, OrderInv
    PROVE  /\ DOMAIN older \subseteq Busy \cup IbufTag /\ InBus \subseteq DOMAIN older
           /\ \A w \in InBus : older[w] \subseteq InBus
           /\ \A w \in InBus : /\ BytesOf(w) = buf[w].bytes /\ DataOf(w) = buf[w].data
                               /\ IsRead(w) <=> ~buf[w].write
                               /\ \A b : Writes(w, b) <=> buf[w].write /\ b \in buf[w].bytes
           /\ \A w, k \in InBus : \A b : b \in buf[w].bytes /\ b \in buf[k].bytes => w = k
<1>1. /\ Front \subseteq Busy /\ InBus \subseteq Front
      /\ \A i \in InBus : i \in Tag /\ buf[i].state = "RESP"
  BY FrontBusy
<1>2. Pending \subseteq Busy
  BY DEF Pending, PendingCmd, Busy
<1>3. DOMAIN older \subseteq Busy \cup IbufTag /\ InBus \subseteq DOMAIN older
  BY <1>1, <1>2 DEF OrderInv
<1>4. ASSUME NEW w \in InBus, NEW k \in older[w] PROVE k \in InBus
  <2>1. k \in DOMAIN older /\ k # w /\ w \in DOMAIN older /\ w \notin older[k]
    BY <1>3, <1>4 DEF OrderInv
  <2>2. k \notin Pending \cup IbufTag
    BY <1>1, <1>4, <2>1 DEF OrderInv
  <2>3. k \notin InObuf
    BY <1>4, <2>1 DEF OrderInv, InObuf
  <2> QED  BY <2>1, <2>2, <2>3 DEF OrderInv, Front
<1>5. ASSUME NEW w \in InBus
      PROVE  /\ BytesOf(w) = buf[w].bytes /\ DataOf(w) = buf[w].data
             /\ IsRead(w) <=> ~buf[w].write
             /\ \A b : Writes(w, b) <=> buf[w].write /\ b \in buf[w].bytes
  <2>1. w \notin IbufTag
    BY <1>1, <1>5 DEF TagsInv
  <2> QED  BY <2>1 DEF BytesOf, DataOf, IsRead, Writes
<1>6. ASSUME NEW w \in InBus, NEW k \in InBus, NEW b, b \in buf[w].bytes, b \in buf[k].bytes PROVE w = k
  <2>1. PICK o \in outstanding : o.tag = w
    BY <1>6 DEF InBus
  <2>2. PICK p \in outstanding : p.tag = k
    BY <1>6 DEF InBus
  <2>3. o.dw = buf[w].dw /\ p.dw = buf[k].dw
    BY <2>1, <2>2 DEF CmdInv
  <2>4. EntryOf(buf[w]) /\ EntryOf(buf[k])
    BY <1>1, <1>6 DEF Types
  <2>5. b[1] = buf[w].dw /\ b[1] = buf[k].dw
    BY <1>6, <2>4 DEF EntryOf
  <2> QED  BY <2>1, <2>2, <2>3, <2>5 DEF CmdInv, OneAccessPerDoubleWord
<1> QED  BY <1>3, <1>4, <1>5, <1>6

(* What the slave performs. *)
LEMMA MemMoves ==
    ASSUME Types, TagsInv, CmdInv, OrderInv, NEW x, Clock(x), NEW b \in Bytes
    PROVE  /\ \A w \in Performed(x) : Writes(w, b) => mem'[b] = DataOf(w)[b]
           /\ (\A w \in Performed(x) : ~Writes(w, b)) => mem'[b] = mem[b]
<1>1. /\ SlaveStep(x.clk, x.ready, x.reads, x.writes, x.err) /\ x.clk \in BOOLEAN
      /\ x.reads \in AnswerInputs(x.clk, FALSE) /\ x.writes \in AnswerInputs(x.clk, TRUE)
  BY DEF Clock
<1>2. /\ x.reads \subseteq outstanding /\ \A o \in x.reads : o.write = FALSE
      /\ x.writes \subseteq outstanding /\ (\A o \in x.writes : o.write = TRUE)
      /\ \A o, p \in x.writes : o = p
  BY <1>1, AnswersAre
<1>3. /\ Performed(x) \subseteq InBus
      /\ ~x.clk => Performed(x) = {} /\ mem' = mem
  BY SlaveMoves
<1>4. \A o \in outstanding : /\ o.tag \in InBus /\ o.write = buf[o.tag].write /\ o.bytes = buf[o.tag].bytes
                             /\ o.data = buf[o.tag].data
  BY DEF CmdInv, InBus
<1>5. \A o \in outstanding : /\ DataOf(o.tag) = o.data
                             /\ Writes(o.tag, b) <=> o.write /\ b \in o.bytes
  <2>1. ASSUME NEW o \in outstanding
        PROVE  DataOf(o.tag) = o.data /\ (Writes(o.tag, b) <=> o.write /\ b \in o.bytes)
    <3>1. o.tag \in InBus
      BY <1>4
    <3>2. DataOf(o.tag) = buf[o.tag].data /\ (Writes(o.tag, b) <=> buf[o.tag].write /\ b \in buf[o.tag].bytes)
      BY <3>1, BusFirst
    <3> QED  BY <1>4, <3>2
  <2> QED  BY <2>1
<1>6. CASE ~x.clk
  BY <1>3, <1>6
<1>7. CASE x.clk
  <2>1. mem'[b] = IF \E o \in x.writes : b \in o.bytes THEN (CHOOSE o \in x.writes : TRUE).data[b] ELSE mem[b]
    BY <1>1, <1>7 DEF SlaveStep
  <2>2. \A o \in x.writes : o = CHOOSE p \in x.writes : TRUE
    BY <1>2
  <2>3. ASSUME NEW w \in Performed(x), Writes(w, b)
        PROVE  mem'[b] = DataOf(w)[b]
    <3>1. PICK o \in x.reads \cup x.writes : w = o.tag
      BY <2>3 DEF Performed
    <3>2. o \in x.writes /\ b \in o.bytes /\ DataOf(w) = o.data
      BY <1>2, <1>5, <2>3, <3>1
    <3> QED  BY <2>1, <2>2, <3>2
  <2>4. ASSUME \A w \in Performed(x) : ~Writes(w, b) PROVE mem'[b] = mem[b]
    <3>1. \A o \in x.writes : b \notin o.bytes
      BY <1>2, <1>5, <2>4 DEF Performed
    <3> QED  BY <2>1, <3>1
  <2> QED  BY <2>3, <2>4
<1> QED  BY <1>6, <1>7

(* What is read behind the accesses of S stays what it is as the slave     *)
(* performs some of them.                                                  *)
FindsNext(b, S, v) ==
    \/ (\A j \in S : ~Writes(j, b)') /\ v = mem'[b]
    \/ \E j \in S : /\ Writes(j, b)' /\ v = DataOf(j)'[b]
                    /\ \A k \in S \ {j} : Writes(k, b)' => k \in older'[j]
LEMMA FindsMoves ==
    ASSUME Types, TagsInv, CmdInv, OrderInv, ContentInv, NEW x, Clock(x), NEW b \in Bytes
    PROVE  \A S, v :
             /\ S \subseteq DOMAIN older /\ Finds(b, S, mem, v)
             /\ \A w \in Performed(x) : Writes(w, b) => w \in S
             /\ \A j \in S : ~Merged(x.f, j, b)
             => FindsNext(b, S \ Performed(x), v)
<1> SUFFICES ASSUME NEW S, NEW v, S \subseteq DOMAIN older, Finds(b, S, mem, v),
                    \A w \in Performed(x) : Writes(w, b) => w \in S,
                    \A j \in S : ~Merged(x.f, j, b)
             PROVE  FindsNext(b, S \ Performed(x), v)
  OBVIOUS
<1> DEFINE P == Performed(x)
<1>1. \A j \in S \ P : /\ Writes(j, b)' <=> Writes(j, b)
                       /\ Writes(j, b)' => DataOf(j)'[b] = DataOf(j)[b]
  <2>1. ASSUME NEW j \in S \ P
        PROVE  /\ Writes(j, b)' <=> Writes(j, b)
               /\ Writes(j, b)' => DataOf(j)'[b] = DataOf(j)[b]
    <3>1. j \in DOMAIN older \ Performed(x) /\ ~Merged(x.f, j, b)
      BY <2>1
    <3>2. /\ \A c : Writes(j, c)' <=> Writes(j, c) \/ Merged(x.f, j, c)
          /\ \A c : Writes(j, c)' => DataOf(j)'[c] = IF Merged(x.f, j, c) THEN dc5.op.val ELSE DataOf(j)[c]
      BY <3>1, RestMoves
    <3> QED  BY <3>1, <3>2
  <2> QED  BY <2>1
<1>2. /\ \A w \in P : Writes(w, b) => mem'[b] = DataOf(w)[b]
      /\ (\A w \in P : ~Writes(w, b)) => mem'[b] = mem[b]
  BY MemMoves
<1>3. P \subseteq InBus
  BY SlaveMoves
<1>4. CASE (\A j \in S : ~Writes(j, b)) /\ v = mem[b]
  <2>1. mem'[b] = mem[b]
    BY <1>2, <1>4
  <2> QED  BY <1>1, <1>4, <2>1 DEF FindsNext
<1>5. CASE \E j \in S : /\ Writes(j, b) /\ v = DataOf(j)[b]
                        /\ \A k \in S \ {j} : Writes(k, b) => k \in older[j]
  <2>1. PICK j \in S : /\ Writes(j, b) /\ v = DataOf(j)[b]
                       /\ \A k \in S \ {j} : Writes(k, b) => k \in older[j]
    BY <1>5
  <2>2. CASE j \in P
    <3>1. v = mem'[b]
      BY <1>2, <2>1, <2>2
    <3>2. ASSUME NEW k \in S \ {j}, Writes(k, b) PROVE FALSE
      <4>1. j \in InBus /\ k \in older[j]
        BY <1>3, <2>1, <2>2, <3>2
      <4>2. k \in InBus
        BY <4>1, BusFirst
      <4>3. b \in buf[j].bytes /\ b \in buf[k].bytes
        <5>1. \A w \in InBus : Writes(w, b) => b \in buf[w].bytes
          BY BusFirst
        <5> QED  BY <2>1, <3>2, <4>1, <4>2, <5>1
      <4> QED  BY <3>2, <4>1, <4>2, <4>3, BusFirst
    <3> QED  BY <1>1, <2>2, <3>1, <3>2 DEF FindsNext
  <2>3. CASE j \notin P
    <3>1. older'[j] = older[j] \ P
      <4>1. IbufStep(x.f)
        BY DEF Clock, CoreSide
      <4>2. (NewLow(x.f) \cup NewHigh(x.f)) \cap (Busy \cup IbufTag) = {}
        BY <4>1, NewTags
      <4>3. j \in (DOMAIN older \ Performed(x)) \ (NewLow(x.f) \cup NewHigh(x.f))
        BY <2>3, <4>2, BusFirst
      <4> QED  BY <4>3, OlderMoves
    <3> QED  BY <1>1, <2>1, <2>3, <3>1 DEF FindsNext
  <2> QED  BY <2>2, <2>3
<1> QED  BY <1>4, <1>5 DEF Finds

(* What each read must return is set as it is taken from dc5. *)
LEMMA WantMoves ==
    ASSUME Types, TagsInv, NEW x, Clock(x)
    PROVE  /\ \A i \in Busy \cup IbufTag : ~buf_rst(i) => want'[i] = want[i]
           /\ dc5.op.kind = "load" => \A high \in BOOLEAN : \A t \in New(x.f, high) :
                 want'[t] = [b \in BytesIn(dc5.op, Half(high)) |-> arch[b]]
<1> DEFINE op == dc5.op
           load == Takes(x.f) /\ op.kind = "load"
           now(dw) == [b \in BytesIn(op, dw) |-> arch[b]]
<1>1. GhostStep(x.f, Performed(x)) /\ IbufStep(x.f)
  BY DEF Clock, CoreSide
<1>2. \A t \in Tag : want'[t] = IF load /\ t = dc5.p0 THEN now(Lo(op))
                                ELSE IF load /\ Dual(op) /\ t = dc5.p1 THEN now(Hi(op))
                                ELSE IF buf_rst(t) THEN None ELSE want[t]
  BY <1>1 DEF GhostStep
<1>3. /\ Takes(x.f) => Reserved(dc5) = IF Dual(op) THEN {dc5.p0, dc5.p1} ELSE {dc5.p0}
      /\ Takes(x.f) => dc5.busreq /\ dc5.p0 \in Tag /\ dc5.p1 \in Tag
      /\ Takes(x.f) /\ Dual(op) => dc5.p0 # dc5.p1
  <2>1. Takes(x.f) => dc5.busreq
    BY DEF Takes
  <2> QED  BY <2>1, HalfTypes DEF Reserved, TagsInv
<1> HIDE DEF now, load
<1>4. ASSUME NEW i \in Busy \cup IbufTag, ~buf_rst(i) PROVE want'[i] = want[i]
  <2>1. i \in Tag
    BY <1>4, HeldIs
  <2>2. i \notin Reserved(dc5)
    BY <1>4 DEF TagsInv
  <2> QED  BY <1>2, <1>3, <1>4, <2>1, <2>2 DEF load
<1>5. ASSUME op.kind = "load", NEW high \in BOOLEAN, NEW t \in New(x.f, high)
      PROVE  want'[t] = [b \in BytesIn(op, Half(high)) |-> arch[b]]
  <2>1. Takes(x.f) /\ (high => t = dc5.p1 /\ Dual(op)) /\ (~high => t = dc5.p0)
    BY <1>5 DEF New, NewLow, NewHigh
  <2>2. want'[t] = now(Half(high))
    BY <1>2, <1>3, <1>5, <2>1 DEF Half, load
  <2> QED  BY <2>2 DEF now
<1> QED  BY <1>4, <1>5

(* The accesses in program order hold no answer; those the slave performs  *)
(* are not in ibuf.                                                        *)
LEMMA OldersAre ==
    ASSUME Types, TagsInv, CmdInv, OrderInv, NEW x, Clock(x)
    PROVE  /\ \A i \in DOMAIN older : i \in Tag /\ ~buf_rst(i) /\ want'[i] = want[i]
           /\ IbufTag \subseteq DOMAIN older \ Performed(x)
           /\ NewLow(x.f) \cap DOMAIN older = {} /\ NewHigh(x.f) \cap DOMAIN older = {}
           /\ \A i \in DOMAIN older \ Performed(x) : older'[i] = older[i] \ Performed(x)
           /\ NewHigh(x.f) \subseteq New(x.f, TRUE) /\ NewLow(x.f) \subseteq New(x.f, FALSE)
<1>0. IbufStep(x.f)
  BY DEF Clock, CoreSide
<1>1. DOMAIN older \subseteq Busy \cup IbufTag
  BY BusFirst
<1>2. ASSUME NEW i \in DOMAIN older
      PROVE  i \in Tag /\ ~buf_rst(i) /\ want'[i] = want[i]
  <2>1. i \in Pending \/ i \in IbufTag \/ i \in Front
    BY <1>2 DEF OrderInv
  <2>2. i \in Tag
    BY <1>1, <1>2, HeldIs
  <2>3. buf[i].state # "DONE"
    <3>1. i \in Pending => buf[i].state # "DONE"
      BY DEF Pending, PendingCmd
    <3>2. i \in IbufTag => buf[i].state # "DONE"
      BY <2>2 DEF TagsInv, Busy
    <3>3. i \in InBus => buf[i].state # "DONE"
      BY FrontBusy
    <3>4. i \in InObuf => buf[i].state # "DONE"
      BY DEF InObuf, CmdInv
    <3> QED  BY <2>1, <3>1, <3>2, <3>3, <3>4 DEF Front
  <2>4. ~buf_rst(i)
    BY <2>3 DEF buf_rst
  <2> QED  BY <1>1, <2>2, <2>4, WantMoves
<1>3. Performed(x) \subseteq InBus
  BY SlaveMoves
<1>4. IbufTag \subseteq DOMAIN older \ Performed(x)
  BY <1>3, FrontBusy DEF OrderInv, TagsInv
<1>5. (NewLow(x.f) \cup NewHigh(x.f)) \cap (Busy \cup IbufTag) = {}
  BY <1>0, NewTags
<1>6. \A i \in DOMAIN older \ Performed(x) : older'[i] = older[i] \ Performed(x)
  <2>1. \A t \in (DOMAIN older \ Performed(x)) \ (NewLow(x.f) \cup NewHigh(x.f)) : older'[t] = older[t] \ Performed(x)
    BY OlderMoves
  <2> QED  BY <1>1, <1>5, <2>1
<1> QED  BY <1>1, <1>2, <1>4, <1>5, <1>6 DEF New

(* The memory as the program sees it. *)
LEMMA ArchKept ==
    ASSUME Types, TagsInv, CmdInv, OrderInv, ContentInv, DataInv, NEW x, Clock(x), NEW b \in Bytes
    PROVE  FindsNext(b, DOMAIN older', arch'[b])
<1> DEFINE rest == DOMAIN older \ Performed(x)
           low == NewLow(x.f)
           high == NewHigh(x.f)
           op == dc5.op
<1>1. GhostStep(x.f, Performed(x)) /\ IbufStep(x.f) /\ setting \in Settings
  BY DEF Clock, CoreSide, Types
<1>2. arch'[b] = IF Takes(x.f) /\ op.kind = "store" /\ b \in op.bytes THEN op.val ELSE arch[b]
  BY <1>1 DEF GhostStep
<1>3. /\ DOMAIN older' = rest \cup low \cup high
      /\ \A t \in high : older'[t] = rest \cup low
      /\ \A t \in low : older'[t] = rest
  BY OlderMoves
<1>4. /\ \A t \in high : /\ Takes(x.f) /\ Dual(op)
                         /\ Writes(t, b)' <=> op.kind = "store" /\ b \in BytesIn(op, Hi(op))
                         /\ Writes(t, b)' => DataOf(t)'[b] = op.val
      /\ \A t \in low : /\ Takes(x.f)
                        /\ Writes(t, b)' <=> op.kind = "store" /\ b \in BytesIn(op, Lo(op))
                        /\ Writes(t, b)' => DataOf(t)'[b] = op.val
  <2>1. ASSUME NEW t \in high
        PROVE  /\ Takes(x.f) /\ Dual(op)
               /\ Writes(t, b)' <=> op.kind = "store" /\ b \in BytesIn(op, Hi(op))
               /\ Writes(t, b)' => DataOf(t)'[b] = op.val
    <3>1. t \in New(x.f, TRUE)
      BY <2>1 DEF New
    <3>2. /\ Takes(x.f) /\ Dual(op)
          /\ \A c : Writes(t, c)' <=> op.kind = "store" /\ c \in BytesIn(op, Half(TRUE))
          /\ \A c : Writes(t, c)' => DataOf(t)'[c] = op.val
      BY <3>1, NewMoves
    <3> QED  BY <3>2 DEF Half
  <2>2. ASSUME NEW t \in low
        PROVE  /\ Takes(x.f)
               /\ Writes(t, b)' <=> op.kind = "store" /\ b \in BytesIn(op, Lo(op))
               /\ Writes(t, b)' => DataOf(t)'[b] = op.val
    <3>1. t \in New(x.f, FALSE)
      BY <2>2 DEF New
    <3>2. /\ Takes(x.f)
          /\ \A c : Writes(t, c)' <=> op.kind = "store" /\ c \in BytesIn(op, Half(FALSE))
          /\ \A c : Writes(t, c)' => DataOf(t)'[c] = op.val
      BY <3>1, NewMoves
    <3> QED  BY <3>2 DEF Half
  <2> QED  BY <2>1, <2>2
<1>5. ASSUME NEW i \in rest
      PROVE  /\ Writes(i, b)' <=> Writes(i, b) \/ Merged(x.f, i, b)
             /\ Merged(x.f, i, b) => DataOf(i)'[b] = op.val
  <2>1. /\ \A c : Writes(i, c)' <=> Writes(i, c) \/ Merged(x.f, i, c)
        /\ \A c : Writes(i, c)' => DataOf(i)'[c] = IF Merged(x.f, i, c) THEN op.val ELSE DataOf(i)[c]
    BY RestMoves
  <2> QED  BY <2>1
<1>6. ibuf_merge_en(x.f) => Takes(x.f) /\ op.kind = "store" /\ IbufTag = {ibuf.tag}
  BY DEF ibuf_merge_en, Takes, IbufTag
<1>7. /\ IbufTag \subseteq rest
      /\ \A i \in rest : older'[i] = older[i] \ Performed(x)
  BY OldersAre
<1>8. Takes(x.f) => DwsOf(op) = {Lo(op), Hi(op)} /\ (Dual(op) <=> Lo(op) # Hi(op))
  <2>1. Takes(x.f) => op \in Ops /\ op.bytes # {}
    BY DEF Takes, Types, External
  <2> QED  BY <1>1, <2>1, OpIs
<1>9. CASE Takes(x.f) /\ op.kind = "store" /\ b \in op.bytes
  <2>1. b[1] = Lo(op) \/ b[1] = Hi(op)
    BY <1>8, <1>9 DEF DwsOf
  <2>2. CASE Dual(op) /\ b[1] = Hi(op)
    <3>1. b \in BytesIn(op, Hi(op)) /\ high = {dc5.p1}
      BY <1>9, <2>2 DEF NewHigh, BytesIn
    <3>2. PICK t : t = dc5.p1
      OBVIOUS
    <3> HIDE DEF high, low, rest
    <3>3. t \in DOMAIN older' /\ Writes(t, b)' /\ DataOf(t)'[b] = op.val
      BY <1>3, <1>4, <1>9, <3>1, <3>2
    <3>4. \A k \in DOMAIN older' \ {t} : k \in older'[t]
      BY <1>3, <3>1, <3>2
    <3> QED  BY <1>2, <1>9, <3>3, <3>4 DEF FindsNext
  <2>3. CASE ~(Dual(op) /\ b[1] = Hi(op))
    <3>1. b[1] = Lo(op) /\ b \in BytesIn(op, Lo(op)) /\ (Dual(op) => b \notin BytesIn(op, Hi(op)))
      BY <1>8, <1>9, <2>1, <2>3 DEF BytesIn
    <3>2. \A t \in high : ~Writes(t, b)'
      BY <1>4, <3>1
    <3>3. CASE ~ibuf_merge_en(x.f)
      <4>1. low = {dc5.p0}
        BY <1>9, <3>3 DEF NewLow
      <4>2. PICK t : t = dc5.p0
        OBVIOUS
      <4> HIDE DEF high, low, rest
      <4>3. t \in DOMAIN older' /\ Writes(t, b)' /\ DataOf(t)'[b] = op.val
        BY <1>3, <1>4, <1>9, <3>1, <4>1, <4>2
      <4>4. \A k \in DOMAIN older' \ {t} : Writes(k, b)' => k \in older'[t]
        BY <1>3, <3>2, <4>1, <4>2
      <4> QED  BY <1>2, <1>9, <4>3, <4>4 DEF FindsNext
    <3>4. CASE ibuf_merge_en(x.f)
      <4>1. PICK t : t = ibuf.tag
        OBVIOUS
      <4>2. low = {} /\ t \in IbufTag /\ t \in rest /\ Merged(x.f, t, b)
        BY <1>6, <1>7, <3>1, <3>4, <4>1 DEF NewLow, Merged
      <4> HIDE DEF high, low
      <4>3. t \in DOMAIN older' /\ Writes(t, b)' /\ DataOf(t)'[b] = op.val
        BY <1>3, <1>5, <4>2
      <4>4. older'[t] = rest \ {t}
        <5>1. older[t] = DOMAIN older \ {t}
          BY <4>2 DEF OrderInv
        <5> QED  BY <1>7, <4>2, <5>1
      <4>5. \A k \in DOMAIN older' \ {t} : Writes(k, b)' => k \in older'[t]
        BY <1>3, <3>2, <4>2, <4>4
      <4> QED  BY <1>2, <1>9, <4>3, <4>5 DEF FindsNext
    <3> QED  BY <3>3, <3>4
  <2> QED  BY <2>2, <2>3
<1>10. CASE ~(Takes(x.f) /\ op.kind = "store" /\ b \in op.bytes)
  <2>1. \A t \in low \cup high : ~Writes(t, b)'
    BY <1>4, <1>10 DEF BytesIn
  <2>2. \A j : ~Merged(x.f, j, b)
    BY <1>6, <1>10 DEF Merged, BytesIn
  <2>3. Performed(x) \subseteq DOMAIN older
    BY SlaveMoves, BusFirst
  <2>4. Finds(b, DOMAIN older, mem, arch[b])
    BY DEF DataInv
  <2>5. FindsNext(b, rest, arch[b])
    <3> DEFINE S == DOMAIN older
               v == arch[b]
    <3>1. Finds(b, S, mem, v) /\ S \subseteq DOMAIN older /\ (\A w \in Performed(x) : Writes(w, b) => w \in S)
          /\ \A j \in S : ~Merged(x.f, j, b)
      BY <2>2, <2>3, <2>4
    <3> HIDE DEF S, v
    <3>2. FindsNext(b, S \ Performed(x), v)
      BY <3>1, FindsMoves
    <3> QED  BY <3>2 DEF S, v
  <2> HIDE DEF low, high, rest
  <2>6. DOMAIN older' = rest \cup (low \cup high) /\ arch'[b] = arch[b]
    BY <1>2, <1>3, <1>10
  <2> QED  BY <2>1, <2>5, <2>6 DEF FindsNext
<1> QED  BY <1>9, <1>10

(* A read that waits. *)
LEMMA RestWants ==
    ASSUME Types, TagsInv, CmdInv, OrderInv, ContentInv, DataInv, NEW x, Clock(x),
           NEW i \in DOMAIN older \ Performed(x), IsRead(i)'
    PROVE  /\ want'[i] = [b \in BytesOf(i)' |-> want'[i][b]]
           /\ \A b \in BytesOf(i)' : FindsNext(b, older'[i], want'[i][b])
<1>1. IsRead(i) /\ BytesOf(i)' = BytesOf(i)
  BY RestMoves
<1>2. want'[i] = want[i] /\ older'[i] = older[i] \ Performed(x)
  BY OldersAre
<1>3. /\ want[i] = [b \in BytesOf(i) |-> want[i][b]]
      /\ \A b \in BytesOf(i) : Finds(b, older[i], mem, want[i][b])
  BY <1>1 DEF DataInv
<1>4. BytesOf(i) \subseteq Bytes
  <2>1. i \in Tag
    BY OldersAre
  <2>2. EntryOf(buf[i]) /\ IbufOf(ibuf)
    BY <2>1 DEF Types
  <2> QED  BY <2>2 DEF BytesOf, EntryOf, IbufOf, Bytes
<1>5. older[i] \subseteq DOMAIN older /\ i \notin older[i]
  BY DEF OrderInv
<1>6. ASSUME NEW b \in BytesOf(i)
      PROVE  FindsNext(b, older[i] \ Performed(x), want[i][b])
  <2>1. ASSUME NEW w \in Performed(x), Writes(w, b) PROVE w \in older[i]
    <3>1. w \in InBus
      BY SlaveMoves
    <3>2. w \in DOMAIN older
      BY <3>1, BusFirst
    <3>3. w # i
      BY <1>1, <2>1, <3>1, BusFirst
    <3>4. CASE i \in older[w]
      <4>1. i \in InBus
        BY <3>1, <3>4, BusFirst
      <4>2. b \in buf[w].bytes
        <5>1. \A c : Writes(w, c) <=> buf[w].write /\ c \in buf[w].bytes
          BY <3>1, BusFirst
        <5> QED  BY <2>1, <5>1
      <4>3. b \in buf[i].bytes
        <5>1. BytesOf(i) = buf[i].bytes
          BY <4>1, BusFirst
        <5> QED  BY <1>6, <5>1
      <4> QED  BY <3>1, <3>3, <4>1, <4>2, <4>3, BusFirst
    <3> QED  BY <3>2, <3>3, <3>4 DEF OrderInv
  <2>2. ASSUME NEW j \in older[i] PROVE ~Merged(x.f, j, b)
    <3>1. j \in IbufTag => older[j] = DOMAIN older \ {j}
      BY DEF OrderInv
    <3>2. j \in IbufTag => FALSE
      BY <1>5, <2>2, <3>1 DEF OrderInv
    <3> QED  BY <3>2 DEF Merged
  <2> DEFINE S == older[i]
             v == want[i][b]
  <2>3. Finds(b, S, mem, v) /\ S \subseteq DOMAIN older /\ (\A w \in Performed(x) : Writes(w, b) => w \in S)
        /\ (\A j \in S : ~Merged(x.f, j, b)) /\ b \in Bytes
    BY <1>3, <1>4, <1>5, <1>6, <2>1, <2>2
  <2> HIDE DEF S, v
  <2>4. FindsNext(b, S \ Performed(x), v)
    BY <2>3, FindsMoves
  <2> QED  BY <2>4 DEF S, v
<1>7. \A b \in BytesOf(i)' : FindsNext(b, older'[i], want'[i][b])
  <2>1. ASSUME NEW b \in BytesOf(i)' PROVE FindsNext(b, older'[i], want'[i][b])
    <3>1. b \in BytesOf(i)
      BY <1>1, <2>1
    <3>2. FindsNext(b, older[i] \ Performed(x), want[i][b])
      BY <1>6, <3>1
    <3> QED  BY <1>2, <3>2
  <2> QED  BY <2>1
<1>8. want'[i] = [b \in BytesOf(i)' |-> want'[i][b]]
  BY <1>1, <1>2, <1>3
<1> QED  BY <1>7, <1>8

(* A new one. *)
LEMMA NewWants ==
    ASSUME Types, TagsInv, CmdInv, OrderInv, ContentInv, DataInv, NEW x, Clock(x),
           NEW high \in BOOLEAN, NEW i \in New(x.f, high), IsRead(i)'
    PROVE  /\ want'[i] = [b \in BytesOf(i)' |-> want'[i][b]]
           /\ \A b \in BytesOf(i)' : FindsNext(b, older'[i], want'[i][b])
<1>1. /\ Takes(x.f) /\ dc5.op.kind # "store" /\ BytesOf(i)' = BytesIn(dc5.op, Half(high))
  BY NewMoves
<1>2. dc5.op \in Ops /\ setting \in Settings
  BY <1>1 DEF Takes, Types, External
<1>3. dc5.op.kind = "load" /\ dc5.op.bytes \subseteq Bytes
  BY <1>1, <1>2, OpIs
<1>4. want'[i] = [b \in BytesIn(dc5.op, Half(high)) |-> arch[b]]
  BY <1>3, WantMoves
<1>5. want'[i] = [b \in BytesOf(i)' |-> want'[i][b]]
  <2> DEFINE B == BytesIn(dc5.op, Half(high))
             w == want'[i]
  <2>1. w = [b \in B |-> arch[b]]
    BY <1>4
  <2> HIDE DEF B, w
  <2>2. w = [b \in B |-> w[b]]
    BY <2>1
  <2> QED  BY <1>1, <2>2 DEF B, w
<1>6. ~ibuf_merge_en(x.f)
  BY <1>1 DEF ibuf_merge_en
<1> DEFINE rest == DOMAIN older \ Performed(x)
<1>7. older'[i] = rest \/ older'[i] = rest \cup NewLow(x.f)
  BY OlderMoves DEF New
<1>8. \A t \in NewLow(x.f) : \A b : ~Writes(t, b)'
  <2>1. ASSUME NEW t \in NewLow(x.f), NEW b PROVE ~Writes(t, b)'
    <3>1. t \in New(x.f, FALSE)
      BY <2>1 DEF New
    <3>2. \A c : Writes(t, c)' <=> dc5.op.kind = "store" /\ c \in BytesIn(dc5.op, Half(FALSE))
      BY <3>1, NewMoves
    <3> QED  BY <1>1, <3>2
  <2> QED  BY <2>1
<1>9. ASSUME NEW b \in BytesOf(i)' PROVE FindsNext(b, older'[i], want'[i][b])
  <2>1. b \in BytesIn(dc5.op, Half(high)) /\ b \in Bytes /\ want'[i][b] = arch[b]
    BY <1>1, <1>3, <1>4, <1>9 DEF BytesIn
  <2>2. FindsNext(b, rest, arch[b])
    <3> DEFINE S == DOMAIN older
               v == arch[b]
    <3>1. Finds(b, S, mem, v) /\ S \subseteq DOMAIN older /\ (\A w \in Performed(x) : Writes(w, b) => w \in S)
      BY <2>1, SlaveMoves, BusFirst DEF DataInv
    <3>2. \A j \in S : ~Merged(x.f, j, b)
      BY <1>6 DEF Merged
    <3> HIDE DEF S, v
    <3>3. FindsNext(b, S \ Performed(x), v)
      BY <2>1, <3>1, <3>2, FindsMoves
    <3> QED  BY <3>3 DEF S, v
  <2>3. FindsNext(b, older'[i], arch[b])
    <3> HIDE DEF rest
    <3> QED  BY <1>7, <1>8, <2>2 DEF FindsNext
  <2> QED  BY <2>1, <2>3
<1> QED  BY <1>5, <1>9

(* What the slave reads is what was to be read. *)
LEMMA AnswersKept ==
    ASSUME Types, TagsInv, CmdInv, OrderInv, ContentInv, DataInv, NEW x, Clock(x)
    PROVE  \A r \in rrsp' : r.data = want'[r.tag]
<1>1. CASE ~x.clk
  <2>1. ASSUME NEW r \in rrsp' PROVE r.data = want'[r.tag]
    <3>1. r \in rrsp
      BY <1>1, <2>1, SlaveMoves
    <3>2. r.data = want[r.tag] /\ r.tag \in Resp
      BY <3>1 DEF DataInv, CmdInv
    <3>3. r.tag \in Busy /\ ~buf_rst(r.tag)
      BY <3>2 DEF Resp, Busy, buf_rst
    <3> QED  BY <3>2, <3>3, WantMoves
  <2> QED  BY <2>1
<1>2. CASE x.clk
  <2>1. ASSUME NEW r \in rrsp' PROVE r.data = want'[r.tag]
    <3>1. PICK o \in x.reads : r.tag = o.tag /\ r.data = ReadOf(o)
      BY <1>2, <2>1, SlaveMoves
    <3>2. o \in outstanding /\ o.write = FALSE
      <4>1. x.reads \in AnswerInputs(x.clk, FALSE) /\ x.clk \in BOOLEAN
        BY DEF Clock
      <4>2. x.reads \subseteq outstanding /\ \A p \in x.reads : p.write = FALSE
        BY <4>1, AnswersAre
      <4> QED  BY <3>1, <4>2
    <3>3. PICK i : i = o.tag
      OBVIOUS
    <3>4. i \in InBus /\ o.bytes = buf[i].bytes /\ ~buf[i].write
      BY <3>2, <3>3 DEF InBus, CmdInv
    <3>5. i \in DOMAIN older /\ IsRead(i) /\ BytesOf(i) = o.bytes /\ older[i] \subseteq InBus
      BY <3>4, BusFirst
    <3>6. want'[i] = want[i] /\ want[i] = [b \in o.bytes |-> want[i][b]]
      BY <3>5, OldersAre DEF DataInv
    <3>7. ASSUME NEW b \in o.bytes PROVE want[i][b] = mem[b]
      <4>1. Finds(b, older[i], mem, want[i][b])
        BY <3>5, <3>7 DEF DataInv
      <4>2. ASSUME NEW j \in older[i], Writes(j, b) PROVE FALSE
        <5>1. j \in InBus /\ j # i
          BY <3>5, <4>2 DEF OrderInv
        <5>2. b \in buf[j].bytes
          <6>1. \A c : Writes(j, c) <=> buf[j].write /\ c \in buf[j].bytes
            BY <5>1, BusFirst
          <6> QED  BY <4>2, <6>1
        <5> QED  BY <3>4, <3>7, <5>1, <5>2, BusFirst
      <4> QED  BY <4>1, <4>2 DEF Finds
    <3>8. ReadOf(o) = want[i]
      BY <3>6, <3>7 DEF ReadOf
    <3> QED  BY <3>1, <3>3, <3>6, <3>8
  <2> QED  BY <2>1
<1> QED  BY <1>1, <1>2

LEMMA DoneKept ==
    ASSUME Types, TagsInv, CmdInv, OrderInv, DataInv, NEW x, Clock(x), NEW i \in Tag,
           buf'[i].state = "DONE", ~buf'[i].write
    PROVE  buf'[i].data = want'[i]
<1>1. IbufStep(x.f) /\ EntryStep(x.f, x.clk) /\ x.clk \in BOOLEAN
  BY DEF Clock, CoreSide
<1>2. i \notin Alloc(x.f)
  <2>1. i \in Alloc(x.f) => buf'[i].state = IF x.clk THEN "CMD" ELSE "WAIT"
    BY <1>1, StateMoves
  <2> QED  BY <2>1
<1>3. buf[i].state \in {"RESP", "DONE"} /\ buf'[i].write = buf[i].write
  <2>1. buf[i].state \in {"IDLE", "WAIT", "CMD", "RESP", "DONE"}
    BY DEF Types, EntryOf
  <2> QED  BY <1>1, <1>2, <2>1, StateMoves
<1>4. i \in Busy
  BY <1>3 DEF Busy
<1>5. CASE buf[i].state = "DONE"
  <2>1. buf'[i] = IF buf_rst(i) THEN IdleEntry ELSE buf[i]
    BY <1>1, <1>2, <1>5, EntryMoves
  <2>2. ~buf_rst(i) /\ buf'[i] = buf[i]
    BY <2>1, BlankIs
  <2>3. buf[i].data = want[i]
    BY <1>3, <1>5 DEF DataInv
  <2> QED  BY <1>4, <2>2, <2>3, WantMoves
<1>6. CASE buf[i].state = "RESP"
  <2>1. buf'[i] = IF x.clk /\ Answers(i) # {} THEN Answered(i) ELSE buf[i]
    BY <1>1, <1>2, <1>6, EntryMoves
  <2>2. Answers(i) # {} /\ buf'[i] = Answered(i)
    BY <1>6, <2>1
  <2>3. PICK r : r = CHOOSE a \in Answers(i) : TRUE
    OBVIOUS
  <2>4. r \in rrsp /\ r.tag = i
    BY <1>3, <2>2, <2>3 DEF Answers, CmdInv
  <2>5. buf'[i] = [buf[i] EXCEPT !.state = "DONE", !.error = r.err, !.data = r.data]
    BY <1>3, <2>2, <2>3 DEF Answered
  <2>6. buf'[i].data = r.data
    BY <2>5 DEF Types, EntryOf
  <2>7. r.data = want[i]
    BY <2>4 DEF DataInv
  <2>8. ~buf_rst(i)
    BY <1>6 DEF buf_rst
  <2> QED  BY <1>4, <2>6, <2>7, <2>8, WantMoves
<1> QED  BY <1>3, <1>5, <1>6

LEMMA DataKept ==
    ASSUME Types, TagsInv, CmdInv, OrderInv, ContentInv, DataInv, NEW x, Clock(x)
    PROVE  DataInv'
<1>1. \A b \in Bytes : FindsNext(b, DOMAIN older', arch'[b])
  BY ArchKept
<1>2. ASSUME NEW i \in DOMAIN older', IsRead(i)'
      PROVE  /\ want'[i] = [b \in BytesOf(i)' |-> want'[i][b]]
             /\ \A b \in BytesOf(i)' : FindsNext(b, older'[i], want'[i][b])
  <2>1. \/ i \in DOMAIN older \ Performed(x)
        \/ i \in New(x.f, TRUE)
        \/ i \in New(x.f, FALSE)
    <3>1. DOMAIN older' = (DOMAIN older \ Performed(x)) \cup NewLow(x.f) \cup NewHigh(x.f)
      BY OlderMoves
    <3>2. NewHigh(x.f) = New(x.f, TRUE) /\ NewLow(x.f) = New(x.f, FALSE)
      BY DEF New
    <3> QED  BY <3>1, <3>2
  <2>2. CASE i \in DOMAIN older \ Performed(x)
    BY <1>2, <2>2, RestWants
  <2>3. ASSUME NEW high \in BOOLEAN, i \in New(x.f, high)
        PROVE  /\ want'[i] = [b \in BytesOf(i)' |-> want'[i][b]]
               /\ \A b \in BytesOf(i)' : FindsNext(b, older'[i], want'[i][b])
    BY <1>2, <2>3, NewWants
  <2> QED  BY <2>1, <2>2, <2>3
<1>3. \A r \in rrsp' : r.data = want'[r.tag]
  BY AnswersKept
<1>4. \A i \in Tag : buf'[i].state = "DONE" /\ ~buf'[i].write => buf'[i].data = want'[i]
  BY DoneKept
<1>5. \A S, b, v : Finds(b, S, mem, v)' <=> FindsNext(b, S, v)
  BY DEF Finds, FindsNext
<1>6. \A b \in Bytes : (Finds(b, DOMAIN older, mem, arch[b]))'
  BY <1>1, <1>5
<1>7. \A i \in DOMAIN older' : IsRead(i)' =>
          /\ want'[i] = [b \in BytesOf(i)' |-> want'[i][b]]
          /\ \A b \in BytesOf(i)' : (Finds(b, older[i], mem, want[i][b]))'
  BY <1>2, <1>5
<1> QED  BY <1>3, <1>4, <1>6, <1>7 DEF DataInv

-----------------------------------------------------------------------------
(* Forwarding *)

(* A store in dc5 is performed, for the program, unless it is killed. *)
LEMMA Dc5Retires ==
    ASSUME Types, FreezeInv, PipeInv, NEW x, Clock(x), ~flush_dc5(x.f), NEW b \in Bytes
    PROVE  arch'[b] = StageFwd(b)
<1>1. GhostStep(x.f, Performed(x))
  BY DEF Clock
<1>2. arch'[b] = IF Takes(x.f) /\ dc5.op.kind = "store" /\ b \in dc5.op.bytes THEN dc5.op.val ELSE arch[b]
  BY <1>1 DEF GhostStep
<1>3. StageHit(dc5.op, dc5.valid, b) => Takes(x.f)
  <2>1. SUFFICES ASSUME StageHit(dc5.op, dc5.valid, b) PROVE Takes(x.f)
    OBVIOUS
  <2>2. External(dc5.op) /\ dc5.valid /\ dc5.op.kind = "store"
    BY <2>1 DEF StageHit, PipeInv, External
  <2>3. dc5.busreq
    BY <2>2 DEF PipeInv
  <2> QED  BY <2>2, <2>3 DEF Takes, lsu_commit_dc5
<1>4. Takes(x.f) /\ dc5.op.kind = "store" => dc5.valid
  <2>1. SUFFICES ASSUME Takes(x.f), dc5.op.kind = "store", ~dc5.valid PROVE FALSE
    BY DEF Types, StageOf
  <2>2. dc5.busreq /\ ld_freeze
    BY <2>1 DEF Takes, lsu_commit_dc5, lsu_freeze_dc3
  <2> QED  BY <2>1, <2>2 DEF FreezeInv, FreezingLoad
<1> QED  BY <1>2, <1>3, <1>4 DEF StageFwd, StageHit

(* The youngest of the stores that are not sent holds what the program sees. *)
LEMMA IbufForwards ==
    ASSUME Types, TagsInv, OrderInv, DataInv, NEW b \in Bytes, ibuf.valid, ibuf.write, b \in ibuf.bytes
    PROVE  arch[b] = ibuf.data[b]
<1>1. PICK i : i = ibuf.tag
  OBVIOUS
<1>2. i \in IbufTag /\ i \in DOMAIN older /\ older[i] = DOMAIN older \ {i} /\ Writes(i, b) /\ DataOf(i) = ibuf.data
  BY <1>1 DEF IbufTag, OrderInv, Writes, DataOf
<1>3. Finds(b, DOMAIN older, mem, arch[b])
  BY DEF DataInv
<1>4. PICK j \in DOMAIN older : /\ Writes(j, b) /\ arch[b] = DataOf(j)[b]
                                /\ \A k \in DOMAIN older \ {j} : Writes(k, b) => k \in older[j]
  BY <1>2, <1>3 DEF Finds
<1>5. j = i
  BY <1>2, <1>4 DEF OrderInv
<1> QED  BY <1>2, <1>4, <1>5

LEMMA EntryForwards ==
    ASSUME Types, TagsInv, CmdInv, OrderInv, DataInv, NEW b \in Bytes, ~(ibuf.valid /\ ibuf.write /\ b \in ibuf.bytes),
           NEW i \in YoungestHit(b)
    PROVE  arch[b] = buf[i].data[b]
<1>1. i \in Hits(b) /\ Hits(b) \ {i} \subseteq buf_age(i)
  BY DEF YoungestHit
<1>2. i \in Tag /\ i \in Busy /\ i \notin IbufTag
  BY <1>1 DEF Hits, Busy, TagsInv
<1>3. Writes(i, b) /\ DataOf(i) = buf[i].data
  BY <1>1, <1>2 DEF Hits, Writes, DataOf
<1>4. i \in Pending \/ (i \in InObuf /\ CmdSent(i))
  BY <1>1 DEF Hits, Pending, PendingCmd, CmdSent, InObuf
<1>5. i \in DOMAIN older
  BY <1>4 DEF OrderInv, Front
<1>6. Finds(b, DOMAIN older, mem, arch[b])
  BY DEF DataInv
<1>7. PICK j \in DOMAIN older : /\ Writes(j, b) /\ arch[b] = DataOf(j)[b]
                                /\ \A k \in DOMAIN older \ {j} : Writes(k, b) => k \in older[j]
  BY <1>3, <1>5, <1>6 DEF Finds
<1>8. CASE j # i
  <2>1. i \in older[j] /\ j \notin older[i]
    BY <1>3, <1>5, <1>7, <1>8 DEF OrderInv
  <2>2. j \notin IbufTag
    BY <1>7 DEF Writes, IbufTag
  <2>3. CASE j \in Hits(b)
    <3>1. j \in buf_age(i)
      BY <1>1, <1>8, <2>3
    <3> QED  BY <1>2, <2>1, <3>1 DEF OrderInv
  <2>4. CASE j \notin Hits(b)
    <3>1. j \in Pending \cup Front
      BY <1>7, <2>2 DEF OrderInv
    <3>2. j \in Front
      BY <1>7, <2>2, <2>4, <3>1 DEF Pending, PendingCmd, Hits, Writes
    <3>3. CASE i \in Pending
      BY <2>1, <3>2, <3>3 DEF OrderInv
    <3>4. CASE i \in InObuf
      BY <1>8, <2>1, <3>2, <3>4 DEF OrderInv, Front, InObuf
    <3> QED  BY <1>4, <3>3, <3>4
  <2> QED  BY <2>3, <2>4
<1> QED  BY <1>3, <1>7, <1>8

LEMMA ForwardedIs ==
    ASSUME Types, TagsInv, CmdInv, OrderInv, DataInv, NEW b \in Bytes, Covered(b)
    PROVE  Forwarded(b) = IF StageHit(dc3.op, Valid(dc3.op), b) THEN dc3.op.val ELSE StageFwd2(b)
<1>1. CASE StageHit(dc3.op, Valid(dc3.op), b) \/ StageHit(dc4.op, dc4.valid, b) \/ StageHit(dc5.op, dc5.valid, b)
  BY <1>1 DEF Forwarded, StageFwd2, StageFwd
<1>2. CASE ~(StageHit(dc3.op, Valid(dc3.op), b) \/ StageHit(dc4.op, dc4.valid, b) \/ StageHit(dc5.op, dc5.valid, b))
  <2>1. StageFwd2(b) = arch[b]
    BY <1>2 DEF StageFwd2, StageFwd
  <2>2. CASE ibuf.valid /\ ibuf.write /\ b \in ibuf.bytes
    <3>1. arch[b] = ibuf.data[b]
      BY <2>2, IbufForwards
    <3> QED  BY <1>2, <2>1, <2>2, <3>1 DEF Forwarded
  <2>3. CASE ~(ibuf.valid /\ ibuf.write /\ b \in ibuf.bytes)
    <3>1. YoungestHit(b) # {}
      BY <1>2, <2>3 DEF Covered
    <3>2. PICK i : i = CHOOSE k \in YoungestHit(b) : TRUE
      OBVIOUS
    <3>3. i \in YoungestHit(b)
      BY <3>1, <3>2
    <3>4. arch[b] = buf[i].data[b]
      BY <2>3, <3>3, EntryForwards
    <3>5. Forwarded(b) = buf[i].data[b]
      BY <1>2, <2>3, <3>2 DEF Forwarded
    <3> QED  BY <1>2, <2>1, <3>4, <3>5
  <2> QED  BY <2>2, <2>3
<1> QED  BY <1>1, <1>2

LEMMA FwdKept ==
    ASSUME Types, TagsInv, CmdInv, OrderInv, DataInv, FreezeInv, PipeInv, FwdInv, NEW x, Clock(x)
    PROVE  FwdInv'
<1>1. /\ PipeStep(x.f, x.op, x.nbfreeze, x.cancel) /\ x.f \in Flushes /\ setting \in Settings /\ setting' = setting
      /\ x.op \in Pkt /\ x.nbfreeze \in BOOLEAN /\ x.cancel \in BOOLEAN
  <2>1. x.nbfreeze \in BOOLEAN /\ x.cancel \in BOOLEAN
    BY SettingIs DEF Clock, NbFreezes, Cancels, Types
  <2> QED  BY <2>1 DEF Clock, CoreSide, Types
<1>2. x.f \in FlushLevel
  BY <1>1, FlushIs
<1>3. /\ flush_dc3(x.f) => flush_dc2_up(x.f)
      /\ flush_dc4(x.f) => flush_dc3(x.f)
      /\ flush_dc5(x.f) => flush_dc4(x.f)
      /\ x.f = "none" => ~flush_dc2_up(x.f)
  BY <1>2 DEF FlushLevel, flush_dc2_up, flush_dc3, flush_dc4, flush_dc5
<1>4. Ops' = Ops
  BY <1>1, Stays
<1>5. (dc5.fwd # None)' =>
          /\ dc5'.valid /\ External(dc5.op)' /\ dc5'.op.kind = "load"
          /\ dc5'.fwd = [b \in dc5'.op.bytes |-> arch'[b]]
  <2>1. SUFFICES ASSUME dc5'.fwd # None
                 PROVE  /\ dc5'.valid /\ External(dc5.op)' /\ dc5'.op.kind = "load"
                        /\ dc5'.fwd = [b \in dc5'.op.bytes |-> arch'[b]]
    OBVIOUS
  <2>2. dc5'.valid /\ dc4.valid /\ ~flush_dc4(x.f) /\ dc5'.op = dc4.op /\ dc5'.fwd = dc4.fwd
    BY <1>1, <2>1, StageMoves
  <2>3. External(dc4.op) /\ dc4.op.kind = "load" /\ dc4.fwd = [b \in dc4.op.bytes |-> StageFwd(b)]
    BY <2>1, <2>2 DEF FwdInv
  <2>4. dc4.op.bytes \subseteq Bytes
    BY <1>1, <2>3, OpIs DEF External
  <2>5. \A b \in dc4.op.bytes : arch'[b] = StageFwd(b)
    BY <1>3, <2>2, <2>4, Dc5Retires
  <2> QED  BY <1>4, <2>2, <2>3, <2>5 DEF External
<1>6. (dc4.fwd # None)' =>
          /\ dc4'.valid /\ External(dc4.op)' /\ dc4'.op.kind = "load"
          /\ dc4'.fwd = [b \in dc4'.op.bytes |-> StageFwd(b)']
  <2>1. SUFFICES ASSUME dc4'.fwd # None
                 PROVE  /\ dc4'.valid /\ External(dc4.op)' /\ dc4'.op.kind = "load"
                        /\ dc4'.fwd = [b \in dc4'.op.bytes |-> StageFwd(b)']
    OBVIOUS
  <2>2. dc4'.valid /\ ~flush_dc3(x.f) /\ dc4'.op = dc3.op /\ dc4'.fwd = dc3.fwd
    BY <1>1, <2>1, StageMoves
  <2>3. External(dc3.op) /\ dc3.op.kind = "load" /\ dc3.fwd = [b \in dc3.op.bytes |-> StageFwd2(b)]
    BY <2>1, <2>2 DEF FwdInv
  <2>4. dc3.op.bytes \subseteq Bytes
    BY <1>1, <2>3, OpIs DEF External
  <2>5. \A b \in dc3.op.bytes : arch'[b] = StageFwd(b)
    BY <1>3, <2>2, <2>4, Dc5Retires
  <2>6. dc5'.valid = dc4.valid /\ (dc5'.valid => dc5'.op = dc4.op)
    <3>1. dc5'.valid = (dc4.valid /\ ~flush_dc4(x.f)) /\ (dc5'.valid => dc5'.op = dc4.op)
      BY <1>1, StageMoves
    <3> QED  BY <1>3, <2>2, <3>1 DEF Types, StageOf
  <2>7. \A b \in dc3.op.bytes : StageFwd(b)' = StageFwd2(b)
    BY <2>5, <2>6 DEF StageFwd2, StageFwd, StageHit
  <2> QED  BY <1>4, <2>2, <2>3, <2>7 DEF External
<1>7. (dc3.fwd # None)' =>
          /\ External(dc3.op)' /\ dc3'.op.kind = "load" /\ ~dc3'.busreq
          /\ dc3'.fwd = [b \in dc3'.op.bytes |-> StageFwd2(b)']
  <2>1. SUFFICES ASSUME dc3'.fwd # None
                 PROVE  /\ External(dc3.op)' /\ dc3'.op.kind = "load" /\ ~dc3'.busreq
                        /\ dc3'.fwd = [b \in dc3'.op.bytes |-> StageFwd2(b)']
    OBVIOUS
  <2>2. ~lsu_freeze_dc3(x.f)
    <3>1. lsu_freeze_dc3(x.f) => dc3'.fwd = dc3.fwd /\ ld_freeze
      BY <1>1, Dc3Moves DEF lsu_freeze_dc3
    <3> QED  BY <2>1, <3>1 DEF FreezeInv
  <2>3. /\ Valid(dc2) /\ ~flush_dc2_up(x.f) /\ ld_full_hit_dc2(x.f) /\ dc3'.op = dc2
        /\ dc3'.fwd = [b \in dc2.bytes |-> Forwarded(b)]
        /\ dc3'.busreq = (lsu_busreq_dc2(x.f) /\ ~ld_full_hit_dc2(x.f))
    BY <1>1, <2>1, <2>2, Dc3Moves
  <2>4. dc2.kind = "load" /\ dc2.bytes # {} /\ ~dc3'.busreq /\ \A b \in dc2.bytes : Covered(b)
    BY <2>3 DEF ld_full_hit_dc2, lsu_busreq_dc2
  <2>5. dc2 \in Ops
    BY <1>1, <2>3, SlotsAre DEF Types
  <2>6. dc2.bytes \subseteq Bytes
    BY <1>1, <2>5, OpIs
  <2>7. /\ dc4'.valid <=> Valid(dc3.op)
        /\ dc4'.valid => dc4'.op = dc3.op
        /\ dc5'.valid <=> dc4.valid
        /\ dc5'.valid => dc5'.op = dc4.op
    BY <1>1, <1>3, <2>2, <2>3, StageMoves, ZenonT(60)
  <2>8. ASSUME NEW b \in dc2.bytes PROVE Forwarded(b) = StageFwd2(b)'
    <3>1. b \in Bytes /\ Covered(b)
      BY <2>4, <2>6, <2>8
    <3>2. Forwarded(b) = IF StageHit(dc3.op, Valid(dc3.op), b) THEN dc3.op.val ELSE StageFwd2(b)
      BY <3>1, ForwardedIs
    <3>3. arch'[b] = StageFwd(b)
      BY <1>3, <2>3, <3>1, Dc5Retires
    <3> QED  BY <2>7, <3>2, <3>3 DEF StageFwd2, StageFwd, StageHit
  <2>9. External(dc3.op)'
    BY <1>4, <2>3, <2>4, <2>5 DEF External
  <2> QED  BY <2>3, <2>4, <2>8, <2>9
<1> QED  BY <1>5, <1>6, <1>7 DEF FwdInv

-----------------------------------------------------------------------------
(* Returns *)

(* A load is freed with its answer only. *)
LEMMA ReadStays ==
    ASSUME Types, TagsInv, NEW f, NEW clk \in BOOLEAN, IbufStep(f), EntryStep(f, clk),
           NEW p \in Busy, ~buf[p].write
    PROVE  /\ p \in Tag /\ p \notin Alloc(f)
           /\ p \in Busy' <=> ~buf_rst(p)
           /\ p \in Busy' => /\ buf'[p].write = buf[p].write /\ buf'[p].dual = buf[p].dual
                             /\ buf'[p].dualhi = buf[p].dualhi /\ buf'[p].dualtag = buf[p].dualtag
                             /\ buf'[p].nb = buf[p].nb /\ buf'[p].bytes = buf[p].bytes
<1>1. p \in Tag /\ p \notin Alloc(f) /\ EntryOf(buf[p])
  BY AllocIs DEF Busy, Types
<1>2. buf[p].state \in {"WAIT", "CMD", "RESP", "DONE"}
  BY <1>1 DEF Busy, EntryOf
<1>3. buf[p].state = "RESP" => buf'[p].state # "IDLE"
  <2>1. SUFFICES ASSUME buf[p].state = "RESP" PROVE buf'[p].state # "IDLE"
    OBVIOUS
  <2>2. buf'[p] = IF clk /\ Answers(p) # {} THEN Answered(p) ELSE buf[p]
    BY <1>1, <2>1, EntryMoves
  <2>3. Answered(p).state = "DONE"
    <3>1. PICK r : r = CHOOSE a \in Answers(p) : TRUE
      OBVIOUS
    <3>2. Answered(p) = [buf[p] EXCEPT !.state = "DONE", !.error = r.err, !.data = r.data]
      BY <3>1 DEF Answered
    <3> QED  BY <1>1, <3>2 DEF EntryOf
  <2> QED  BY <2>1, <2>2, <2>3
<1>4. p \in Busy' <=> ~buf_rst(p)
  <2>1. p \in Busy' <=> buf'[p].state # "IDLE"
    BY <1>1 DEF Busy
  <2>2. buf_rst(p) => buf[p].state = "DONE"
    BY DEF buf_rst
  <2> QED  BY <1>1, <1>2, <1>3, <2>1, <2>2, StateMoves
<1>5. p \in Busy' => buf'[p].state # "IDLE"
  BY DEF Busy
<1>6. p \in Busy' => /\ buf'[p].write = buf[p].write /\ buf'[p].dual = buf[p].dual
                     /\ buf'[p].dualhi = buf[p].dualhi /\ buf'[p].dualtag = buf[p].dualtag
                     /\ buf'[p].nb = buf[p].nb /\ buf'[p].bytes = buf[p].bytes
  BY <1>1, <1>5, StateMoves
<1> QED  BY <1>1, <1>4, <1>6

(* An entry that is answered was so before or is answered now. *)
LEMMA DoneMoves ==
    ASSUME Types, TagsInv, CmdInv, NEW x, Clock(x), NEW i \in Tag, buf'[i].state = "DONE"
    PROVE  /\ i \in Busy /\ i \notin Alloc(x.f)
           /\ \/ buf[i].state = "DONE" /\ ~buf_rst(i)
              \/ /\ x.clk /\ buf[i].state = "RESP"
                 /\ IF buf[i].write THEN \E r \in brsp : r.tag = i ELSE \E r \in rrsp : r.tag = i
           /\ buf'[i].write = buf[i].write /\ buf'[i].dual = buf[i].dual
           /\ buf'[i].dualhi = buf[i].dualhi /\ buf'[i].dualtag = buf[i].dualtag
           /\ buf'[i].nb = buf[i].nb /\ buf'[i].bytes = buf[i].bytes
<1>1. IbufStep(x.f) /\ EntryStep(x.f, x.clk) /\ x.clk \in BOOLEAN
  BY DEF Clock, CoreSide
<1>2. i \notin Alloc(x.f)
  <2>1. i \in Alloc(x.f) => buf'[i].state = IF x.clk THEN "CMD" ELSE "WAIT"
    BY <1>1, StateMoves
  <2> QED  BY <2>1
<1>3. buf[i].state \in {"IDLE", "WAIT", "CMD", "RESP", "DONE"}
  BY DEF Types, EntryOf
<1>4. \/ buf[i].state = "DONE" /\ ~buf_rst(i)
      \/ x.clk /\ buf[i].state = "RESP" /\ Answers(i) # {}
  BY <1>1, <1>2, <1>3, StateMoves
<1>5. Answers(i) # {} => IF buf[i].write THEN \E r \in brsp : r.tag = i ELSE \E r \in rrsp : r.tag = i
  BY DEF Answers, CmdInv
<1>6. /\ buf'[i].write = buf[i].write /\ buf'[i].dual = buf[i].dual
      /\ buf'[i].dualhi = buf[i].dualhi /\ buf'[i].dualtag = buf[i].dualtag
      /\ buf'[i].nb = buf[i].nb /\ buf'[i].bytes = buf[i].bytes
  BY <1>1, <1>2, StateMoves
<1> QED  BY <1>2, <1>4, <1>5, <1>6 DEF Busy

(* An answer frees the entry at once. *)
LEMMA RstIs ==
    ASSUME ReturnInv
    PROVE  \A i \in Tag : buf_rst(i) <=> Complete(i)
  BY DEF ReturnInv, buf_rst, Complete

(* The other half of an entry that holds a load of two double words. *)
LEMMA OtherHalf ==
    ASSUME Types, TagsInv, ReturnInv, NEW i \in Busy, ~buf[i].write, buf[i].dual, buf[buf[i].dualtag].state = "DONE"
    PROVE  LET p == buf[i].dualtag
           IN  /\ p \in Busy /\ p \in Tag /\ buf[p].dual /\ ~buf[p].write /\ buf[p].dualtag = i
               /\ buf[p].nb = buf[i].nb /\ buf[p].dualhi # buf[i].dualhi
<1>1. PICK p : p = buf[i].dualtag
  OBVIOUS
<1>2. EntryOf(buf[i])
  BY DEF Types, Busy
<1>3. p \in Tag /\ p \in Busy
  BY <1>1, <1>2 DEF EntryOf, Busy
<1>4. p \notin IbufTag
  BY <1>3 DEF TagsInv
<1>5. HalfOf(buf[i].dualtag, i, buf[i].nb, buf[i].dualhi)
  BY DEF ReturnInv
<1>6. buf[p].dual /\ ~buf[p].write /\ buf[p].dualtag = i /\ buf[p].nb = buf[i].nb /\ buf[p].dualhi # buf[i].dualhi
  BY <1>1, <1>4, <1>5 DEF HalfOf
<1> QED  BY <1>1, <1>3, <1>6

LEMMA CompleteKept ==
    ASSUME Types, TagsInv, CmdInv, ReturnInv, NEW x, Clock(x)
    PROVE  /\ \A i \in Tag : Complete(i)' => x.clk
           /\ \A i, j \in Tag : Complete(i)' /\ Complete(j)' /\ ~buf'[i].write /\ ~buf'[j].write =>
                i = j \/ (buf'[i].dual /\ buf'[i].dualtag = j)
           /\ \A i, j \in Tag : Complete(i)' /\ Complete(j)' /\ buf'[i].write /\ buf'[j].write => i = j
<1> DEFINE Read(n) == x.clk /\ buf[n].state = "RESP" /\ \E r \in rrsp : r.tag = n
<1>1. ASSUME NEW i \in Tag, Complete(i)'
      PROVE  /\ buf'[i].write => x.clk /\ \E r \in brsp : r.tag = i
             /\ ~buf'[i].write => \E n \in Busy : /\ Read(n)
                                                  /\ n = i \/ (/\ buf'[i].dual /\ buf'[i].dualtag = n
                                                               /\ buf'[n].dual /\ buf'[n].dualtag = i)
             /\ ~buf'[i].write /\ ~Read(i) => buf'[i].dual
  <2>1. buf'[i].state = "DONE" /\ (buf'[i].write \/ ~buf'[i].dual \/ buf'[buf'[i].dualtag].state = "DONE")
    BY <1>1 DEF Complete
  <2>2. /\ i \in Busy
        /\ \/ buf[i].state = "DONE" /\ ~buf_rst(i)
           \/ /\ x.clk /\ buf[i].state = "RESP"
              /\ IF buf[i].write THEN \E r \in brsp : r.tag = i ELSE \E r \in rrsp : r.tag = i
        /\ buf'[i].write = buf[i].write /\ buf'[i].dual = buf[i].dual /\ buf'[i].dualtag = buf[i].dualtag
    BY <2>1, DoneMoves
  <2>3. CASE x.clk /\ buf[i].state = "RESP"
    BY <2>2, <2>3
  <2>4. CASE buf[i].state = "DONE" /\ ~buf_rst(i)
    <3>1. ~Complete(i)
      BY <2>4, RstIs
    <3>2. ~buf[i].write /\ buf[i].dual /\ buf[buf[i].dualtag].state # "DONE"
      BY <2>4, <3>1 DEF Complete
    <3>3. PICK n : n = buf[i].dualtag
      OBVIOUS
    <3>4. n \in Tag /\ buf'[n].state = "DONE"
      <4>1. EntryOf(buf[i])
        BY DEF Types
      <4> QED  BY <2>1, <2>2, <3>2, <3>3, <4>1 DEF EntryOf
    <3>5. /\ n \in Busy
          /\ x.clk /\ buf[n].state = "RESP"
          /\ IF buf[n].write THEN \E r \in brsp : r.tag = n ELSE \E r \in rrsp : r.tag = n
          /\ buf'[n].dual = buf[n].dual /\ buf'[n].dualtag = buf[n].dualtag
      BY <3>2, <3>3, <3>4, DoneMoves
    <3>6. HalfOf(n, i, buf[i].nb, buf[i].dualhi) /\ n \notin IbufTag
      BY <2>2, <3>2, <3>3, <3>5 DEF ReturnInv, TagsInv
    <3>7. ~buf[n].write /\ buf[n].dual /\ buf[n].dualtag = i
      BY <3>6 DEF HalfOf
    <3>8. Read(n)
      BY <3>5, <3>7
    <3> QED  BY <2>2, <3>2, <3>3, <3>5, <3>7, <3>8
  <2> QED  BY <2>2, <2>3, <2>4
<1>2. \A n, m : Read(n) /\ Read(m) => n = m
  BY DEF CmdInv
<1>3. ASSUME NEW i \in Tag, Complete(i)' PROVE x.clk
  BY <1>1, <1>3
<1>4. ASSUME NEW i \in Tag, NEW j \in Tag, Complete(i)', Complete(j)', ~buf'[i].write, ~buf'[j].write
      PROVE  i = j \/ (buf'[i].dual /\ buf'[i].dualtag = j)
  <2>1. PICK n \in Busy : Read(n) /\ (n = i \/ (/\ buf'[i].dual /\ buf'[i].dualtag = n
                                                /\ buf'[n].dual /\ buf'[n].dualtag = i))
    BY <1>1, <1>4
  <2>2. PICK m \in Busy : Read(m) /\ (m = j \/ (/\ buf'[j].dual /\ buf'[j].dualtag = m
                                                /\ buf'[m].dual /\ buf'[m].dualtag = j))
    BY <1>1, <1>4
  <2>3. n = m
    BY <1>2, <2>1, <2>2
  <2> HIDE DEF Read
  <2> QED  BY <2>1, <2>2, <2>3
<1>5. ASSUME NEW i \in Tag, NEW j \in Tag, Complete(i)', Complete(j)', buf'[i].write, buf'[j].write
      PROVE  i = j
  <2>1. (\E r \in brsp : r.tag = i) /\ (\E r \in brsp : r.tag = j)
    BY <1>1, <1>5
  <2> QED  BY <2>1 DEF CmdInv
<1> QED  BY <1>3, <1>4, <1>5

(* What the access in dc5 and the one in ibuf leave in an entry. *)
LEMMA NewEntryIs ==
    ASSUME Types, TagsInv, NEW f, NEW clk \in BOOLEAN, IbufStep(f), EntryStep(f, clk), NEW high \in BOOLEAN,
           NEW t, t \in IF high THEN HighAlloc(f) ELSE LowAlloc(f)
    PROVE  /\ dc5.busreq /\ t \in Tag /\ t \in Busy' /\ (high => Dual(dc5.op))
           /\ t = IF high THEN dc5.p1 ELSE dc5.p0
           /\ buf'[t].write <=> dc5.op.kind = "store"
           /\ buf'[t].dual = Dual(dc5.op) /\ buf'[t].dualhi = high /\ buf'[t].nb = dc5.nb
           /\ Dual(dc5.op) => buf'[t].dualtag = IF high THEN dc5.p0 ELSE dc5.p1
<1>1. dc5.busreq /\ t \in Tag /\ buf'[t] = FromDc5(f, clk, high)
  BY IntoEntry
<1>2. LET e == FromDc5(f, clk, high)
      IN  /\ e.state = (IF clk THEN "CMD" ELSE "WAIT")
          /\ e.write <=> dc5.op.kind = "store"
          /\ e.dual = Dual(dc5.op) /\ e.dualhi = high
          /\ e.dualtag = (IF ~Dual(dc5.op) THEN 0 ELSE IF high THEN dc5.p0 ELSE dc5.p1)
          /\ e.nb = dc5.nb /\ e.dw = Half(high) /\ e.error = FALSE
          /\ e.bytes = BytesIn(dc5.op, Half(high))
          /\ e.write => e.data = StoreData(dc5.op, Half(high))
          /\ EntryOf(e)
  BY <1>1, FromDc5Is
<1>3. t \in Busy'
  BY <1>1, <1>2 DEF Busy
<1>4. (high => Dual(dc5.op)) /\ t = IF high THEN dc5.p1 ELSE dc5.p0
  BY DEF HighAlloc, LowAlloc
<1> QED  BY <1>1, <1>2, <1>3, <1>4

LEMMA DrainedIs ==
    ASSUME Types, TagsInv, NEW f, NEW clk \in BOOLEAN, IbufStep(f), EntryStep(f, clk), NEW t \in Drained(f)
    PROVE  /\ t \in Tag /\ t \in IbufTag /\ t = ibuf.tag /\ t \in Busy'
           /\ buf'[t].write = ibuf.write /\ buf'[t].dual = ibuf.dual /\ buf'[t].dualhi = ibuf.dual
           /\ buf'[t].nb = ibuf.nb /\ buf'[t].dualtag = ibuf.dualtag
           /\ ~ibuf_merge_en(f) => buf'[t].bytes = ibuf.bytes
<1>1. t \in IbufTag /\ t = ibuf.tag /\ t \in Tag
  BY DEF Drained, ibuf_drain_vld, IbufTag, Types, IbufOf
<1>2. buf'[t] = FromIbuf(f, clk)
  BY <1>1, DrainMoves
<1>3. LET e == FromIbuf(f, clk)
      IN  /\ e.state = (IF clk THEN "CMD" ELSE "WAIT") /\ e.write = ibuf.write
          /\ e.dual = ibuf.dual /\ e.dualhi = ibuf.dual /\ e.dualtag = ibuf.dualtag /\ e.nb = ibuf.nb
          /\ e.bytes = ibuf.bytes \cup (IF DrainMerges(f) THEN BytesIn(dc5.op, Lo(dc5.op)) ELSE {})
  BY FromIbufIs, ZenonT(60)
<1>4. ~ibuf_merge_en(f) => ~DrainMerges(f)
  BY DEF DrainMerges
<1>5. t \in Busy'
  BY <1>1, <1>2, <1>3 DEF Busy
<1> QED  BY <1>1, <1>2, <1>3, <1>4, <1>5

(* A load in ibuf stays there or is drained. *)
LEMMA IbufStays ==
    ASSUME Types, TagsInv, NEW f, IbufStep(f), NEW p \in IbufTag, ~ibuf.write
    PROVE  \/ p \in Drained(f)
           \/ /\ p \in IbufTag' /\ Waits(f)
              /\ ibuf'.write = ibuf.write /\ ibuf'.dual = ibuf.dual /\ ibuf'.dualtag = ibuf.dualtag
              /\ ibuf'.nb = ibuf.nb /\ ibuf'.bytes = ibuf.bytes
<1>1. Waits(f) \/ Bypasses(f) \/ Enters(f) \/ Merges(f) \/ MergesLow(f)
  BY SixCases
<1>2. ~ibuf_merge_en(f)
  BY DEF ibuf_merge_en
<1>3. CASE Waits(f) /\ p \notin Drained(f)
  <2>1. IbufTag' # {} /\ p \in IbufTag'
    BY <1>3 DEF Waits
  <2>2. ibuf' = [ibuf EXCEPT !.timer = IF @ < TIMER_MAX THEN @ + 1 ELSE @]
    BY <1>3, <2>1 DEF Waits
  <2>3. IbufOf(ibuf)
    BY DEF Types
  <2> QED  BY <1>3, <2>1, <2>2, <2>3 DEF IbufOf
<1> QED  BY <1>1, <1>2, <1>3 DEF Bypasses, Enters, Merges, MergesLow

LEMMA HalfStays ==
    ASSUME Types, TagsInv, NEW f, NEW clk \in BOOLEAN, IbufStep(f), EntryStep(f, clk),
           NEW p, NEW i, NEW nb, NEW hi, HalfOf(p, i, nb, hi), buf_rst(p) => buf[i].state # "DONE"
    PROVE  HalfOf(p, i, nb, hi)'
<1>1. CASE p \in IbufTag /\ ibuf.dual /\ ~ibuf.write /\ ibuf.dualtag = i /\ ibuf.nb = nb /\ hi = FALSE
  <2>1. CASE p \in Drained(f)
    <3>1. /\ p \in Busy' /\ buf'[p].write = ibuf.write /\ buf'[p].dual = ibuf.dual /\ buf'[p].dualhi = ibuf.dual
          /\ buf'[p].nb = ibuf.nb /\ buf'[p].dualtag = ibuf.dualtag
      BY <2>1, DrainedIs
    <3>2. buf'[p].dualhi # hi
      BY <1>1, <3>1
    <3> QED  BY <1>1, <3>1, <3>2 DEF HalfOf
  <2>2. CASE p \notin Drained(f)
    BY <1>1, <2>2, IbufStays DEF HalfOf
  <2> QED  BY <2>1, <2>2
<1>2. CASE p \in Busy /\ buf[p].dual /\ ~buf[p].write /\ buf[p].dualtag = i /\ buf[p].nb = nb /\ buf[p].dualhi # hi
  <2>1. ~buf_rst(p)
    BY <1>2 DEF buf_rst
  <2>2. /\ p \in Busy'
        /\ buf'[p].write = buf[p].write /\ buf'[p].dual = buf[p].dual
        /\ buf'[p].dualhi = buf[p].dualhi /\ buf'[p].dualtag = buf[p].dualtag /\ buf'[p].nb = buf[p].nb
    BY <1>2, <2>1, ReadStays
  <2> QED  BY <1>2, <2>2 DEF HalfOf
<1> QED  BY <1>1, <1>2 DEF HalfOf

(* The halves of a load that comes from dc5 know each other. *)
LEMMA NewHalves ==
    ASSUME Types, TagsInv, NEW f, NEW clk \in BOOLEAN, IbufStep(f), EntryStep(f, clk),
           Takes(f), Dual(dc5.op), dc5.op.kind # "store", NEW a, NEW b, a = dc5.p0, b = dc5.p1, NEW nb, nb = dc5.nb
    PROVE  /\ HalfOf(b, a, nb, FALSE)'
           /\ HalfOf(a, b, nb, TRUE)'
           /\ a \in LowAlloc(f) /\ (b \in HighAlloc(f) \/ IbufTag' = {b})
<1>1. Waits(f) \/ Bypasses(f) \/ Enters(f) \/ Merges(f) \/ MergesLow(f)
  BY SixCases
<1>2. ~ibuf_merge_en(f)
  BY DEF ibuf_merge_en
<1>3. Bypasses(f) \/ Enters(f)
  BY <1>1, <1>2 DEF Waits, Merges, MergesLow
<1>4. a \in LowAlloc(f)
  BY <1>3 DEF Bypasses, Enters, Low
<1>5. /\ a \in Busy' /\ ~buf'[a].write /\ buf'[a].dual /\ buf'[a].dualhi = FALSE /\ buf'[a].nb = nb
      /\ buf'[a].dualtag = b
  <2>1. /\ a \in Busy'
        /\ buf'[a].write <=> dc5.op.kind = "store"
        /\ buf'[a].dual = Dual(dc5.op) /\ buf'[a].dualhi = FALSE /\ buf'[a].nb = dc5.nb
        /\ Dual(dc5.op) => buf'[a].dualtag = dc5.p1
    BY <1>4, NewEntryIs
  <2> QED  BY <2>1
<1>6. HalfOf(a, b, nb, TRUE)'
  BY <1>5 DEF HalfOf
<1>7. CASE Bypasses(f)
  <2>1. b \in HighAlloc(f)
    BY <1>7 DEF Bypasses
  <2>2. /\ b \in Busy'
        /\ buf'[b].write <=> dc5.op.kind = "store"
        /\ buf'[b].dual = Dual(dc5.op) /\ buf'[b].dualhi = TRUE /\ buf'[b].nb = dc5.nb
        /\ Dual(dc5.op) => buf'[b].dualtag = dc5.p0
    BY <2>1, NewEntryIs
  <2>3. HalfOf(b, a, nb, FALSE)'
    BY <2>2 DEF HalfOf
  <2> QED  BY <1>4, <1>6, <2>1, <2>3
<1>8. CASE Enters(f)
  <2>1. IbufTag' = {b} /\ ibuf' = IbufIn(f)
    BY <1>8 DEF Enters, Last
  <2>2. dc5.busreq
    BY DEF Takes
  <2>3. LET e == IbufIn(f)
        IN  /\ e.dualtag = (IF Dual(dc5.op) THEN dc5.p0 ELSE 0)
            /\ e.dual = Dual(dc5.op) /\ e.nb = dc5.nb /\ e.write = (dc5.op.kind = "store")
    BY <2>2, IbufInIs
  <2>4. HalfOf(b, a, nb, FALSE)'
    BY <2>1, <2>3 DEF HalfOf
  <2> QED  BY <1>4, <1>6, <2>1, <2>4
<1> QED  BY <1>3, <1>7, <1>8

LEMMA ReturnKept ==
    ASSUME Types, TagsInv, CmdInv, PipeInv, ReturnInv, NEW x, Clock(x)
    PROVE  ReturnInv'
<1>1. /\ IbufStep(x.f) /\ EntryStep(x.f, x.clk) /\ x.clk \in BOOLEAN /\ clk_q' = x.clk
  BY DEF Clock, CoreSide
<1>2. Waits(x.f) \/ Bypasses(x.f) \/ Enters(x.f) \/ Merges(x.f) \/ MergesLow(x.f)
  BY <1>1, SixCases
<1>3. dc5.nb => dc5.op.kind # "store"
  BY DEF PipeInv
<1>4. ASSUME NEW i \in Busy'
      PROVE  i \in Tag /\ \/ i \in Drained(x.f) \/ i \in LowAlloc(x.f) \/ i \in HighAlloc(x.f)
                          \/ /\ i \in Busy /\ i \notin Alloc(x.f)
                             /\ buf'[i].write = buf[i].write /\ buf'[i].dual = buf[i].dual
                             /\ buf'[i].dualhi = buf[i].dualhi /\ buf'[i].dualtag = buf[i].dualtag
                             /\ buf'[i].nb = buf[i].nb
  <2>1. i \in Tag /\ buf'[i].state # "IDLE"
    BY <1>4 DEF Busy
  <2>2. i \notin Alloc(x.f) => /\ buf[i].state # "IDLE"
                               /\ buf'[i].write = buf[i].write /\ buf'[i].dual = buf[i].dual
                               /\ buf'[i].dualhi = buf[i].dualhi /\ buf'[i].dualtag = buf[i].dualtag
                               /\ buf'[i].nb = buf[i].nb
    BY <1>1, <2>1, StateMoves
  <2> QED  BY <2>1, <2>2 DEF Busy, Alloc
<1>5. ASSUME NEW i \in LowAlloc(x.f)
      PROVE  /\ Takes(x.f) /\ i = dc5.p0
             /\ buf'[i].write <=> dc5.op.kind = "store"
             /\ buf'[i].dual = Dual(dc5.op) /\ buf'[i].dualhi = FALSE /\ buf'[i].nb = dc5.nb
             /\ Dual(dc5.op) => buf'[i].dualtag = dc5.p1
  <2>1. Takes(x.f)
    BY <1>5 DEF LowAlloc
  <2>2. /\ i = dc5.p0
        /\ buf'[i].write <=> dc5.op.kind = "store"
        /\ buf'[i].dual = Dual(dc5.op) /\ buf'[i].dualhi = FALSE /\ buf'[i].nb = dc5.nb
        /\ Dual(dc5.op) => buf'[i].dualtag = dc5.p1
    BY <1>1, <1>5, NewEntryIs, ZenonT(60)
  <2> QED  BY <2>1, <2>2
<1>6. ASSUME NEW i \in HighAlloc(x.f)
      PROVE  /\ Takes(x.f) /\ i = dc5.p1 /\ Dual(dc5.op)
             /\ buf'[i].write <=> dc5.op.kind = "store"
             /\ buf'[i].dual = Dual(dc5.op) /\ buf'[i].dualhi = TRUE /\ buf'[i].nb = dc5.nb
             /\ buf'[i].dualtag = dc5.p0
  <2>1. Takes(x.f)
    BY <1>6 DEF HighAlloc
  <2>2. /\ i = dc5.p1 /\ Dual(dc5.op)
        /\ buf'[i].write <=> dc5.op.kind = "store"
        /\ buf'[i].dual = Dual(dc5.op) /\ buf'[i].dualhi = TRUE /\ buf'[i].nb = dc5.nb
        /\ Dual(dc5.op) => buf'[i].dualtag = dc5.p0
    BY <1>1, <1>6, NewEntryIs, ZenonT(60)
  <2> QED  BY <2>1, <2>2
<1>7. ASSUME NEW i \in Drained(x.f)
      PROVE  /\ i \in IbufTag
             /\ buf'[i].write = ibuf.write /\ buf'[i].dual = ibuf.dual /\ buf'[i].dualhi = ibuf.dual
             /\ buf'[i].nb = ibuf.nb /\ buf'[i].dualtag = ibuf.dualtag
  BY <1>1, <1>7, DrainedIs
<1>8. \A i \in Busy' : buf'[i].nb => ~buf'[i].write
  BY <1>3, <1>4, <1>5, <1>6, <1>7 DEF ReturnInv
<1>9. \A i \in Busy' : ~buf'[i].dual => ~buf'[i].dualhi
  <2>1. Dual(dc5.op) = TRUE \/ Dual(dc5.op) = FALSE
    BY DEF Dual
  <2> QED  BY <1>4, <1>5, <1>6, <1>7, <2>1, ZenonT(60) DEF ReturnInv
<1>10. \/ ibuf' = NoIbuf \/ (ibuf'.nb = ibuf.nb /\ ibuf'.write = ibuf.write)
       \/ (ibuf'.nb = dc5.nb /\ Takes(x.f) /\ (ibuf'.write <=> dc5.op.kind = "store") /\ ibuf' = IbufIn(x.f))
  <2>1. CASE Waits(x.f)
    BY <2>1 DEF Waits, Types, IbufOf
  <2>2. CASE Takes(x.f) /\ ibuf' = IbufIn(x.f)
    <3>1. dc5.busreq
      BY <2>2 DEF Takes
    <3>2. IbufIn(x.f).nb = dc5.nb /\ IbufIn(x.f).write = (dc5.op.kind = "store")
      BY <3>1, IbufInIs
    <3> QED  BY <2>2, <3>2
  <2> QED  BY <1>2, <2>1, <2>2 DEF Bypasses, Enters, Merges, MergesLow
<1>11. ibuf'.nb => ~ibuf'.write
  <2>1. (ibuf.nb => ~ibuf.write) /\ ~NoIbuf.nb
    BY DEF ReturnInv, NoIbuf
  <2> QED  BY <1>3, <1>10, <2>1
<1>12. ASSUME NEW i \in Busy', ~buf'[i].write, buf'[i].dual
       PROVE  HalfOf(buf[i].dualtag, i, buf[i].nb, buf[i].dualhi)'
  <2>0. PICK p, nb, hi : p = buf'[i].dualtag /\ nb = buf'[i].nb /\ hi = buf'[i].dualhi
    OBVIOUS
  <2>1. SUFFICES HalfOf(p, i, nb, hi)'
    BY <2>0 DEF HalfOf
  <2>2. CASE i \in Drained(x.f)
    <3>1. i \in IbufTag /\ ~ibuf.write /\ ibuf.dual /\ p = ibuf.dualtag /\ nb = ibuf.nb /\ hi = TRUE
      BY <1>7, <1>12, <2>0, <2>2
    <3>2. HalfOf(p, i, nb, hi)
      BY <3>1 DEF ReturnInv
    <3>3. buf[i].state # "DONE"
      BY <1>4, <3>1 DEF TagsInv, Busy
    <3> QED  BY <1>1, <3>2, <3>3, HalfStays
  <2>3. CASE i \in LowAlloc(x.f)
    <3>1. Takes(x.f) /\ Dual(dc5.op) /\ dc5.op.kind # "store" /\ i = dc5.p0 /\ p = dc5.p1 /\ nb = dc5.nb /\ hi = FALSE
      BY <1>5, <1>12, <2>0, <2>3
    <3> QED  BY <1>1, <3>1, NewHalves
  <2>4. CASE i \in HighAlloc(x.f)
    <3>1. Takes(x.f) /\ Dual(dc5.op) /\ dc5.op.kind # "store" /\ i = dc5.p1 /\ p = dc5.p0 /\ nb = dc5.nb /\ hi = TRUE
      BY <1>6, <1>12, <2>0, <2>4
    <3> QED  BY <1>1, <3>1, NewHalves
  <2>5. CASE /\ i \in Busy /\ i \notin Alloc(x.f)
             /\ buf'[i].write = buf[i].write /\ buf'[i].dual = buf[i].dual
             /\ buf'[i].dualhi = buf[i].dualhi /\ buf'[i].dualtag = buf[i].dualtag
             /\ buf'[i].nb = buf[i].nb
    <3>1. ~buf[i].write /\ buf[i].dual /\ p = buf[i].dualtag /\ nb = buf[i].nb /\ hi = buf[i].dualhi
      BY <1>12, <2>0, <2>5
    <3>2. HalfOf(p, i, nb, hi)
      BY <2>5, <3>1 DEF ReturnInv
    <3>3. ~buf_rst(i)
      BY <1>1, <1>12, <2>5, <3>1, ReadStays
    <3>4. buf_rst(p) => buf[i].state # "DONE"
      BY <3>1, <3>3 DEF buf_rst
    <3> QED  BY <1>1, <3>2, <3>4, HalfStays
  <2> QED  BY <1>4, <2>2, <2>3, <2>4, <2>5
<1>13. ASSUME NEW i \in IbufTag', ~ibuf'.write, ibuf'.dual
       PROVE  HalfOf(ibuf.dualtag, i, ibuf.nb, TRUE)'
  <2>0. PICK p, nb : p = ibuf'.dualtag /\ nb = ibuf'.nb
    OBVIOUS
  <2>1. SUFFICES HalfOf(p, i, nb, TRUE)'
    BY <2>0 DEF HalfOf
  <2>2. CASE Waits(x.f)
    <3>1. i \in IbufTag /\ i \notin Drained(x.f)
      BY <1>13, <2>2 DEF Waits
    <3>2. ~ibuf.write
      BY <1>13, <2>2 DEF Waits, Types, IbufOf
    <3>3. ibuf'.dual = ibuf.dual /\ ibuf'.dualtag = ibuf.dualtag /\ ibuf'.nb = ibuf.nb
      BY <1>1, <3>1, <3>2, IbufStays
    <3>4. HalfOf(p, i, nb, TRUE)
      BY <1>13, <2>0, <3>1, <3>2, <3>3 DEF ReturnInv
    <3>5. buf[i].state # "DONE"
      BY <3>1 DEF TagsInv, Busy, IbufTag, Types, IbufOf
    <3> QED  BY <1>1, <3>4, <3>5, HalfStays
  <2>3. CASE Enters(x.f) \/ Merges(x.f) \/ MergesLow(x.f)
    <3>1. Takes(x.f) /\ ibuf' = IbufIn(x.f) /\ dc5.busreq
      BY <2>3 DEF Enters, Merges, MergesLow, Takes
    <3>2. /\ ibuf'.dualtag = (IF Dual(dc5.op) THEN dc5.p0 ELSE 0)
          /\ ibuf'.dual = Dual(dc5.op) /\ ibuf'.nb = dc5.nb /\ ibuf'.write = (dc5.op.kind = "store")
      BY <3>1, IbufInIs
    <3>3. Dual(dc5.op) /\ dc5.op.kind # "store" /\ p = dc5.p0 /\ nb = dc5.nb
      BY <1>13, <2>0, <3>2
    <3>4. i = dc5.p1
      <4>1. IbufTag' = {Last}
        BY <2>3, <3>3 DEF Enters, Merges, MergesLow, Last
      <4> QED  BY <1>13, <3>3, <4>1 DEF Last
    <3> QED  BY <1>1, <3>1, <3>3, <3>4, NewHalves
  <2> QED  BY <1>2, <1>13, <2>2, <2>3 DEF Bypasses
<1>14. \A i \in Tag : Complete(i)' => clk_q'
  BY <1>1, CompleteKept
<1>15. \A i, j \in Tag : Complete(i)' /\ Complete(j)' /\ ~buf'[i].write /\ ~buf'[j].write =>
          i = j \/ (buf'[i].dual /\ buf'[i].dualtag = j)
  BY CompleteKept
<1>16. \A i, j \in Tag : Complete(i)' /\ Complete(j)' /\ buf'[i].write /\ buf'[j].write => i = j
  BY CompleteKept
<1> QED  BY <1>8, <1>9, <1>11, <1>12, <1>13, <1>14, <1>15, <1>16 DEF ReturnInv

-----------------------------------------------------------------------------
(* One load returns. *)
LEMMA AtMostOne ==
    ASSUME NEW S, \A a, b \in S : a = b
    PROVE  IsFiniteSet(S) /\ Cardinality(S) <= 1
<1>1. CASE S = {}
  BY <1>1, FS_EmptySet
<1>2. CASE S # {}
  <2>1. PICK a \in S : TRUE
    BY <1>2
  <2>2. S = {a}
    BY <2>1
  <2>3. IsFiniteSet({a}) /\ Cardinality({a}) = 1
    BY FS_Singleton
  <2> QED  BY <2>2, <2>3
<1> QED  BY <1>1, <1>2

LEMMA OneReturns ==
    ASSUME Types, TagsInv, ReturnInv
    PROVE  OneLoadReturns
<1>1. \A high : \A i \in Returning(high) :
          /\ i \in Tag /\ i \in Busy /\ Complete(i) /\ ~buf[i].write /\ buf[i].nb /\ buf[i].dualhi = high
          /\ buf[i].state = "DONE" /\ clk_q
  <2>1. ASSUME NEW high, NEW i \in Returning(high)
        PROVE  /\ i \in Tag /\ i \in Busy /\ Complete(i) /\ ~buf[i].write /\ buf[i].nb /\ buf[i].dualhi = high
               /\ buf[i].state = "DONE" /\ clk_q
    <3>1. i \in Tag /\ buf_rst(i) /\ buf[i].nb /\ buf[i].dualhi = high
      BY <2>1 DEF Returning
    <3>2. i \in Busy /\ buf[i].state = "DONE" /\ clk_q
      BY <3>1 DEF buf_rst, Busy
    <3> QED  BY <3>1, <3>2, RstIs DEF ReturnInv
  <2> QED  BY <2>1
<1>2. ASSUME NEW high \in BOOLEAN, NEW i \in Returning(high), buf[i].dual
      PROVE  LET p == buf[i].dualtag
             IN  p \in Returning(~high) /\ buf[p].dual /\ buf[p].dualtag = i
  <2>1. PICK p : p = buf[i].dualtag
    OBVIOUS
  <2>2. i \in Busy /\ ~buf[i].write /\ buf[p].state = "DONE" /\ buf[i].state = "DONE" /\ clk_q /\ buf[i].nb
        /\ buf[i].dualhi = high
    BY <1>1, <1>2, <2>1 DEF Complete
  <2>3. /\ p \in Busy /\ p \in Tag /\ buf[p].dual /\ ~buf[p].write /\ buf[p].dualtag = i
        /\ buf[p].nb = buf[i].nb /\ buf[p].dualhi # buf[i].dualhi
    BY <1>2, <2>1, <2>2, OtherHalf
  <2>4. buf_rst(p)
    BY <2>2, <2>3 DEF buf_rst
  <2>5. buf[p].dualhi = ~high
    <3>1. EntryOf(buf[p])
      BY <2>3 DEF Types
    <3> QED  BY <2>2, <2>3, <3>1 DEF EntryOf
  <2> QED  BY <2>1, <2>2, <2>3, <2>4, <2>5 DEF Returning
<1>3. ASSUME NEW i \in Returning(FALSE), NEW j \in Returning(FALSE) PROVE i = j
  <2>0. i \in Tag /\ j \in Tag /\ Complete(i) /\ Complete(j) /\ ~buf[i].write /\ ~buf[j].write
    BY <1>1
  <2>1. i = j \/ (buf[i].dual /\ buf[i].dualtag = j)
    BY <2>0 DEF ReturnInv
  <2>2. buf[i].dual /\ buf[i].dualtag = j => FALSE
    <3>1. SUFFICES ASSUME buf[i].dual, buf[i].dualtag = j PROVE FALSE
      OBVIOUS
    <3>2. j \in Returning(~FALSE)
      BY <1>2, <3>1
    <3> QED  BY <1>1, <3>2
  <2> QED  BY <2>1, <2>2
<1>4. ASSUME NEW i \in Returning(FALSE)
      PROVE  Returning(TRUE) = IF buf[i].dual THEN {buf[i].dualtag} ELSE {}
  <2>1. ASSUME NEW k \in Returning(TRUE) PROVE buf[i].dual /\ k = buf[i].dualtag
    <3>1. i = k \/ (buf[i].dual /\ buf[i].dualtag = k)
      BY <1>1, ZenonT(60) DEF ReturnInv
    <3> QED  BY <1>1, <3>1
  <2>2. buf[i].dual => buf[i].dualtag \in Returning(TRUE)
    <3>1. buf[i].dual => buf[i].dualtag \in Returning(~FALSE)
      BY <1>2
    <3> QED  BY <3>1
  <2> QED  BY <2>1, <2>2
<1>5. ASSUME NEW k \in Returning(TRUE) PROVE Returning(FALSE) # {}
  <2>1. buf[k].dual
    BY <1>1 DEF ReturnInv
  <2>2. buf[k].dualtag \in Returning(~TRUE)
    BY <1>2, <2>1
  <2> QED  BY <2>2
<1>6. Returning(FALSE) # {} => lsu_nonblock_load_data_valid # lsu_nonblock_load_data_error
  <2>1. SUFFICES ASSUME Returning(FALSE) # {} PROVE lsu_nonblock_load_data_valid <=> ~lsu_nonblock_load_data_error
    BY DEF lsu_nonblock_load_data_valid, lsu_nonblock_load_data_error
  <2>2. PICK i : Returning(FALSE) = {i}
    BY <1>3, <2>1
  <2>3. Returning(TRUE) = IF buf[i].dual THEN {buf[i].dualtag} ELSE {}
    BY <1>4, <2>2
  <2>4. lsu_nonblock_load_data_valid <=> ~buf[i].error /\ (buf[i].dual => ~buf[buf[i].dualtag].error)
    BY <2>2, <2>3 DEF lsu_nonblock_load_data_valid
  <2>5. lsu_nonblock_load_data_error <=> buf[i].error \/ (buf[i].dual /\ buf[buf[i].dualtag].error)
    BY <2>2, <2>3 DEF lsu_nonblock_load_data_error
  <2> QED  BY <2>4, <2>5
<1>7. Cardinality({i \in Tag : buf_rst(i) /\ buf[i].write}) <= 1
  <2>1. ASSUME NEW i \in Tag, NEW j \in Tag, buf_rst(i), buf[i].write, buf_rst(j), buf[j].write PROVE i = j
    BY <2>1, RstIs DEF ReturnInv
  <2> DEFINE S == {i \in Tag : buf_rst(i) /\ buf[i].write}
  <2>2. \A i, j \in S : i = j
    BY <2>1
  <2> HIDE DEF S
  <2>3. Cardinality(S) <= 1
    BY <2>2, AtMostOne
  <2> QED  BY <2>3 DEF S
<1>8. Cardinality(Returning(FALSE)) <= 1
  BY <1>3, AtMostOne
<1> QED  BY <1>4, <1>5, <1>6, <1>7, <1>8 DEF OneLoadReturns

-----------------------------------------------------------------------------
(* The load that froze the pipe *)

(* While nothing comes from dc5, a load in the buffers stays. *)
LEMMA HeldMoves ==
    ASSUME Types, TagsInv, NEW x, Clock(x), Waits(x.f), NEW t, NEW B, InBuffers(t, B), ~buf_rst(t)
    PROVE  /\ InBuffers(t, B)' /\ want'[t] = want[t]
           /\ t \in Busy => t \in Busy' /\ buf'[t].dual = buf[t].dual /\ buf'[t].dualtag = buf[t].dualtag
           /\ t \in IbufTag /\ t \in Busy' => buf'[t].dual = ibuf.dual
           /\ t \in IbufTag' => t \in IbufTag /\ ibuf'.dual = ibuf.dual
<1>1. /\ IbufStep(x.f) /\ EntryStep(x.f, x.clk) /\ x.clk \in BOOLEAN
  BY DEF Clock, CoreSide
<1>2. IbufTag' \subseteq IbufTag /\ Busy \cap IbufTag = {} /\ ~ibuf_merge_en(x.f)
  BY DEF Waits, TagsInv
<1>3. want'[t] = want[t]
  BY WantMoves DEF InBuffers
<1>4. CASE t \in IbufTag /\ ~ibuf.write /\ ibuf.bytes = B
  <2>1. CASE t \in Drained(x.f)
    <3>1. /\ t \in Busy' /\ buf'[t].write = ibuf.write /\ buf'[t].dual = ibuf.dual
          /\ ~ibuf_merge_en(x.f) => buf'[t].bytes = ibuf.bytes
      BY <1>1, <2>1, DrainedIs
    <3>2. t \notin IbufTag'
      BY <2>1 DEF Waits
    <3> QED  BY <1>2, <1>3, <1>4, <3>1, <3>2 DEF InBuffers
  <2>2. CASE t \notin Drained(x.f)
    <3>1. /\ t \in IbufTag'
          /\ ibuf'.write = ibuf.write /\ ibuf'.dual = ibuf.dual /\ ibuf'.bytes = ibuf.bytes
      BY <1>1, <1>4, <2>2, IbufStays
    <3>2. t \notin Busy'
      <4>1. t \notin Busy /\ t \notin Alloc(x.f) /\ t \in Tag
        BY <1>2, <1>4, <2>2 DEF Alloc, Waits, IbufTag, Types, IbufOf
      <4> QED  BY <1>1, <4>1, StateMoves DEF Busy
    <3> QED  BY <1>2, <1>3, <1>4, <3>1, <3>2 DEF InBuffers
  <2> QED  BY <2>1, <2>2
<1>5. CASE t \in Busy /\ ~buf[t].write /\ buf[t].bytes = B
  <2>1. /\ t \in Busy'
        /\ buf'[t].write = buf[t].write /\ buf'[t].dual = buf[t].dual
        /\ buf'[t].dualtag = buf[t].dualtag /\ buf'[t].bytes = buf[t].bytes
    BY <1>1, <1>5, ReadStays
  <2> QED  BY <1>2, <1>3, <1>5, <2>1 DEF InBuffers
<1> QED  BY <1>4, <1>5 DEF InBuffers

LEMMA HeldStays ==
    ASSUME Types, TagsInv, ReturnInv, NEW x, Clock(x), Waits(x.f), LoadIsHeld, ~buf_rst(FreezePtr),
           FreezePtr' = FreezePtr, dc3'.op = dc3.op, arch' = arch
    PROVE  LoadIsHeld'
<1>1. PICK t, lo, hi : t = FreezePtr /\ lo = BytesIn(dc3.op, Lo(dc3.op)) /\ hi = BytesIn(dc3.op, Hi(dc3.op))
  OBVIOUS
<1>2. /\ Dual(dc3.op)' <=> Dual(dc3.op)
      /\ BytesIn(dc3.op, Lo(dc3.op))' = lo /\ BytesIn(dc3.op, Hi(dc3.op))' = hi /\ FreezePtr' = t
  BY <1>1 DEF Dual, DwsOf, BytesIn, Lo, Hi
<1>3. CASE Dual(dc3.op)
  <2>1. PICK p : p = buf[t].dualtag
    OBVIOUS
  <2>2. /\ t \in Busy /\ buf[t].dual /\ InBuffers(t, lo) /\ InBuffers(p, hi)
        /\ want[t] = [b \in lo |-> arch[b]] /\ want[p] = [b \in hi |-> arch[b]]
    BY <1>1, <1>3, <2>1 DEF LoadIsHeld
  <2>3. ~buf[t].write
    BY <2>2 DEF InBuffers, TagsInv
  <2>4. ~buf_rst(p)
    <3>1. SUFFICES ASSUME buf_rst(p) PROVE FALSE
      OBVIOUS
    <3>2. buf[p].state = "DONE" /\ clk_q
      BY <3>1 DEF buf_rst
    <3>3. ~buf[p].write /\ buf[p].dual /\ buf[p].dualtag = t
      BY <2>1, <2>2, <2>3, <3>2, OtherHalf
    <3>4. buf[t].state = "DONE"
      BY <3>1, <3>3 DEF buf_rst
    <3> QED  BY <1>1, <2>1, <3>2, <3>4 DEF buf_rst
  <2>5. /\ InBuffers(t, lo)' /\ want'[t] = want[t]
        /\ t \in Busy' /\ buf'[t].dual = buf[t].dual /\ buf'[t].dualtag = buf[t].dualtag
    BY <1>1, <2>2, HeldMoves
  <2>6. InBuffers(p, hi)' /\ want'[p] = want[p]
    BY <2>2, <2>4, HeldMoves
  <2>7. /\ buf'[t].dualtag = p /\ buf'[t].dual
        /\ want'[t] = [b \in lo |-> arch'[b]] /\ want'[p] = [b \in hi |-> arch'[b]]
    BY <2>1, <2>2, <2>5, <2>6
  <2> QED  BY <1>2, <1>3, <2>5, <2>6, <2>7 DEF LoadIsHeld, InBuffers
<1>4. CASE ~Dual(dc3.op)
  <2>0. PICK B : B = dc3.op.bytes
    OBVIOUS
  <2>1. /\ InBuffers(t, B) /\ (t \in Busy => ~buf[t].dual) /\ (t \in IbufTag => ~ibuf.dual)
        /\ want[t] = [b \in B |-> arch[b]]
    BY <1>1, <1>4, <2>0 DEF LoadIsHeld
  <2>2. /\ InBuffers(t, B)' /\ want'[t] = want[t]
        /\ t \in Busy => t \in Busy' /\ buf'[t].dual = buf[t].dual /\ buf'[t].dualtag = buf[t].dualtag
        /\ t \in IbufTag /\ t \in Busy' => buf'[t].dual = ibuf.dual
        /\ t \in IbufTag' => t \in IbufTag /\ ibuf'.dual = ibuf.dual
    BY <1>1, <2>1, HeldMoves
  <2>3. t \in Busy \/ t \in IbufTag
    BY <2>1 DEF InBuffers
  <2>4. (t \in Busy' => ~buf'[t].dual) /\ (t \in IbufTag' => ~ibuf'.dual)
        /\ want'[t] = [b \in B |-> arch'[b]] /\ dc3'.op.bytes = B
    BY <2>0, <2>1, <2>2, <2>3
  <2> QED  BY <1>2, <1>4, <2>2, <2>4 DEF LoadIsHeld, InBuffers
<1> QED  BY <1>3, <1>4

(* The load enters the buffers. *)
LEMMA HeldEnters ==
    ASSUME Types, TagsInv, CmdInv, OrderInv, NEW x, Clock(x), Takes(x.f), External(dc5.op), dc5.op.kind = "load",
           dc3'.op = dc5.op, FreezePtr' = dc5.p0, arch' = arch
    PROVE  LoadIsHeld'
<1>1. /\ IbufStep(x.f) /\ EntryStep(x.f, x.clk) /\ x.clk \in BOOLEAN /\ setting \in Settings
  BY DEF Clock, CoreSide, Types
<1>2. Types' /\ TagsInv' /\ OrderInv' /\ CmdInv'
  BY TypesKept, TagsKept, OrderKept, CmdKept
<1>3. PICK a, p, lo, hi : a = dc5.p0 /\ p = dc5.p1 /\ lo = BytesIn(dc5.op, Lo(dc5.op)) /\ hi = BytesIn(dc5.op, Hi(dc5.op))
  OBVIOUS
<1>4. /\ Dual(dc3.op)' <=> Dual(dc5.op)
      /\ BytesIn(dc3.op, Lo(dc3.op))' = lo /\ BytesIn(dc3.op, Hi(dc3.op))' = hi /\ FreezePtr' = a
  BY <1>3 DEF Dual, DwsOf, BytesIn, Lo, Hi
<1>5. ~ibuf_merge_en(x.f)
  BY DEF ibuf_merge_en
<1>6. \A high \in BOOLEAN : \A t \in New(x.f, high) :
          /\ want'[t] = [b \in BytesIn(dc5.op, Half(high)) |-> arch'[b]]
          /\ IsRead(t)' /\ BytesOf(t)' = BytesIn(dc5.op, Half(high))
          /\ t \in Busy' \/ t \in IbufTag'
  <2>1. ASSUME NEW high \in BOOLEAN, NEW t \in New(x.f, high)
        PROVE  /\ want'[t] = [b \in BytesIn(dc5.op, Half(high)) |-> arch'[b]]
               /\ IsRead(t)' /\ BytesOf(t)' = BytesIn(dc5.op, Half(high))
               /\ t \in Busy' \/ t \in IbufTag'
    <3>1. want'[t] = [b \in BytesIn(dc5.op, Half(high)) |-> arch[b]]
      BY <2>1, WantMoves
    <3>2. (IsRead(t)' <=> dc5.op.kind # "store") /\ BytesOf(t)' = BytesIn(dc5.op, Half(high))
      BY <2>1, NewMoves
    <3>3. t \in NewLow(x.f) \cup NewHigh(x.f)
      BY <2>1 DEF New
    <3>4. t \in DOMAIN older'
      <4>1. DOMAIN older' = (DOMAIN older \ Performed(x)) \cup NewLow(x.f) \cup NewHigh(x.f)
        BY OlderMoves, SMTT(30)
      <4> QED  BY <3>3, <4>1
    <3>5. t \in Busy' \/ t \in IbufTag'
      <4>1. /\ DOMAIN older' = Pending' \cup IbufTag' \cup Front'
            /\ InObuf' \subseteq Busy' /\ InBus' \subseteq Busy' /\ Pending' \subseteq Busy'
        BY <1>2 DEF OrderInv, CmdInv, InObuf, InBus, Busy, Types, ObufOf, Pending, PendingCmd, Resp
      <4> QED  BY <3>4, <4>1 DEF Front
    <3> QED  BY <3>1, <3>2, <3>5
  <2> QED  BY <2>1
<1>7. \A t, B : IsRead(t)' /\ BytesOf(t)' = B /\ (t \in Busy' \/ t \in IbufTag') => InBuffers(t, B)'
  BY DEF IsRead, BytesOf, InBuffers
<1>8. a \in New(x.f, FALSE) /\ (Dual(dc5.op) => p \in New(x.f, TRUE)) /\ Half(FALSE) = Lo(dc5.op) /\ Half(TRUE) = Hi(dc5.op)
  BY <1>3, <1>5 DEF New, NewLow, NewHigh, Half
<1>9. InBuffers(a, lo)' /\ want'[a] = [b \in lo |-> arch'[b]]
  BY <1>3, <1>6, <1>7, <1>8
<1>10. CASE Dual(dc5.op)
  <2>1. InBuffers(p, hi)' /\ want'[p] = [b \in hi |-> arch'[b]]
    BY <1>3, <1>6, <1>7, <1>8, <1>10
  <2>2. PICK nb : nb = dc5.nb
    OBVIOUS
  <2>3. HalfOf(a, p, nb, TRUE)'
    BY <1>1, <1>3, <1>10, <2>2, NewHalves
  <2>4. a \in Busy' /\ buf'[a].dual /\ buf'[a].dualtag = p
    BY <2>3 DEF HalfOf
  <2> QED  BY <1>4, <1>9, <1>10, <2>1, <2>4 DEF LoadIsHeld, InBuffers
<1>11. CASE ~Dual(dc5.op)
  <2>1. lo = dc5.op.bytes
    <3>1. DwsOf(dc5.op) = {Lo(dc5.op), Hi(dc5.op)} /\ Lo(dc5.op) = Hi(dc5.op)
      BY <1>1, <1>11, OpIs DEF External
    <3> QED  BY <1>3, <3>1 DEF BytesIn, DwsOf
  <2>2. a \in Busy' => ~buf'[a].dual
    <3>1. SUFFICES ASSUME a \in Busy' PROVE ~buf'[a].dual
      OBVIOUS
    <3>2. a \notin IbufTag'
      BY <1>2, <3>1 DEF TagsInv
    <3>3. a \in LowAlloc(x.f)
      <4>1. Waits(x.f) \/ Bypasses(x.f) \/ Enters(x.f) \/ Merges(x.f) \/ MergesLow(x.f)
        BY <1>1, SixCases
      <4>2. Enters(x.f) => IbufTag' = {a}
        BY <1>3, <1>11 DEF Enters, Last
      <4> QED  BY <1>3, <1>5, <3>2, <4>1, <4>2 DEF Waits, Bypasses, Merges, MergesLow
    <3>4. buf'[a].dual = Dual(dc5.op)
      BY <1>1, <3>3, NewEntryIs
    <3> QED  BY <1>11, <3>4
  <2>3. a \in IbufTag' => ~ibuf'.dual
    <3>1. SUFFICES ASSUME a \in IbufTag' PROVE ~ibuf'.dual
      OBVIOUS
    <3>2. a \notin IbufTag /\ dc5.busreq
      BY <1>3 DEF TagsInv, Reserved, Takes
    <3>3. ibuf' = IbufIn(x.f)
      <4>1. Waits(x.f) \/ Bypasses(x.f) \/ Enters(x.f) \/ Merges(x.f) \/ MergesLow(x.f)
        BY <1>1, SixCases
      <4> QED  BY <3>1, <4>1 DEF Waits, Bypasses, Enters, Merges, MergesLow
    <3>4. IbufIn(x.f).dual = Dual(dc5.op)
      BY <3>2, IbufInIs
    <3> QED  BY <1>11, <3>3, <3>4
  <2> QED  BY <1>4, <1>9, <1>11, <2>1, <2>2, <2>3 DEF LoadIsHeld, InBuffers
<1> QED  BY <1>10, <1>11

LEMMA HeldKept ==
    ASSUME Types, TagsInv, CmdInv, OrderInv, FreezeInv, HeldInv, ReturnInv, NEW x, Clock(x)
    PROVE  HeldInv'
<1> SUFFICES ASSUME ld_freeze', ~dc3'.busreq, Idle(dc4)', Idle(dc5)' PROVE LoadIsHeld'
  BY DEF HeldInv
<1>1. /\ PipeStep(x.f, x.op, x.nbfreeze, x.cancel) /\ x.f \in Flushes /\ setting \in Settings
      /\ x.op \in Pkt /\ x.nbfreeze \in BOOLEAN /\ x.cancel \in BOOLEAN
      /\ IbufStep(x.f) /\ GhostStep(x.f, Performed(x))
  <2>1. x.nbfreeze \in BOOLEAN /\ x.cancel \in BOOLEAN
    BY SettingIs DEF Clock, NbFreezes, Cancels, Types
  <2> QED  BY <2>1 DEF Clock, CoreSide, Types
<1>2. FreezeStep(x.f, x.nbfreeze, x.cancel)
  BY <1>1 DEF PipeStep
<1>3. /\ x.f \in FlushLevel
      /\ lsu_freeze_dc3(x.f) <=> ld_freeze /\ x.f \notin {"lower", "kill"}
  BY <1>1, FlushIs
<1>4. /\ ld_freeze \/ ld_freeze_en(x.f, x.nbfreeze)
      /\ ~ld_freeze_rst(x.f, x.cancel)
      /\ FreezePtr' = IF FreezePtrEn THEN WrPtr0_dc3 ELSE FreezePtr
  BY <1>2 DEF FreezeStep
<1>5. ld_freeze
  <2>1. SUFFICES ASSUME ~ld_freeze PROVE FALSE
    BY DEF Types
  <2>2. /\ lsu_busreq_dc2(x.f) /\ ~ld_full_hit_dc2(x.f) /\ ~lsu_freeze_dc3(x.f)
    BY <1>4, <2>1 DEF ld_freeze_en
  <2>3. Valid(dc2) /\ ~flush_dc2_up(x.f)
    BY <2>2 DEF lsu_busreq_dc2
  <2>4. dc3'.busreq = (lsu_busreq_dc2(x.f) /\ ~ld_full_hit_dc2(x.f))
    BY <1>1, <2>2, <2>3, Dc3Moves
  <2> QED  BY <2>2, <2>4
<1>6. x.f \in {"none", "upper"} /\ lsu_freeze_dc3(x.f)
  BY <1>3, <1>4, <1>5 DEF ld_freeze_rst, flush_dc3, FlushLevel
<1>7. dc3'.op = dc3.op
  BY <1>1, <1>6, Dc3Moves
<1>8. /\ dc4'.busreq = (dc3.busreq /\ ~flush_dc4(x.f))
      /\ dc5'.valid = (dc4.valid /\ ~flush_dc4(x.f)) /\ dc5'.busreq = (dc4.busreq /\ ~flush_dc5(x.f))
  BY <1>1, StageMoves
<1>9. ~dc3.busreq /\ Idle(dc4)
  BY <1>6, <1>8 DEF Idle, flush_dc4, flush_dc5
<1>10. FreezePtr' = FreezePtr /\ ~buf_rst(FreezePtr)
  BY <1>4, <1>5, <1>9 DEF FreezePtrEn, ld_freeze_rst
<1>11. /\ External(dc3.op) /\ dc3.op.kind = "load"
       /\ FreezingLoad(dc5) \/ Idle(dc5)
  BY <1>5, <1>9 DEF FreezeInv, Idle, FreezingLoad
<1>12. CASE FreezingLoad(dc5)
  <2>1. Takes(x.f) /\ dc5.op = dc3.op /\ dc5.p0 = FreezePtr
    BY <1>6, <1>12 DEF FreezingLoad, Takes
  <2>2. arch' = arch
    BY <1>1, <1>11, <2>1 DEF GhostStep
  <2> QED  BY <1>7, <1>10, <1>11, <2>1, <2>2, HeldEnters
<1>13. CASE Idle(dc5)
  <2>1. ~Takes(x.f)
    BY <1>13 DEF Idle, Takes
  <2>2. Waits(x.f)
    <3>1. Waits(x.f) \/ Bypasses(x.f) \/ Enters(x.f) \/ Merges(x.f) \/ MergesLow(x.f)
      BY <1>1, SixCases
    <3> QED  BY <2>1, <3>1 DEF Bypasses, Enters, Merges, MergesLow
  <2>3. arch' = arch
    BY <1>1, <2>1 DEF GhostStep
  <2>4. LoadIsHeld
    BY <1>5, <1>9, <1>13 DEF HeldInv
  <2> QED  BY <1>7, <1>10, <2>2, <2>3, <2>4, HeldStays
<1> QED  BY <1>11, <1>12, <1>13

LEMMA FreezeEndsAnswered ==
    ASSUME Types, TagsInv, FreezeInv, HeldInv
    PROVE  FreezeEndsWithItsLoad
<1>0. ASSUME NEW f \in Flushes, lsu_freeze_dc3(f), flush_dc3(f)
      PROVE  dc3.busreq
  <2>1. f = "e3" /\ ld_freeze /\ dc3.busreq \in BOOLEAN
    BY <1>0 DEF lsu_freeze_dc3, flush_dc3, flush_dc4, Types, Dc3Of
  <2> QED  BY <1>0, <2>1, FlushIs DEF Types
<1> SUFFICES ASSUME NEW f \in Flushes, lsu_freeze_dc3(f), ld_freeze_rst(f, FALSE), ~flush_dc3(f)
             PROVE  LET halves == IF buf[FreezePtr].dual THEN {FreezePtr, buf[FreezePtr].dualtag}
                                  ELSE {FreezePtr}
                    IN  /\ \A i \in halves : buf[i].state = "DONE" /\ ~buf[i].write
                        /\ UNION {buf[i].bytes : i \in halves} = dc3.op.bytes
                        /\ \A i \in halves : want[i] = [b \in buf[i].bytes |-> arch[b]]
  BY <1>0 DEF FreezeEndsWithItsLoad
<1>0a. ld_freeze
  BY DEF lsu_freeze_dc3
<1>1. PICK t : t = FreezePtr
  OBVIOUS
<1>2. buf_rst(t) /\ ~FreezePtrEn
  BY <1>1 DEF ld_freeze_rst
<1>3. External(dc3.op) /\ dc3.op.kind = "load" /\ ~dc3.busreq
  BY <1>0a, <1>2 DEF FreezeInv, FreezePtrEn
<1>4. t \in Tag /\ buf[t].state = "DONE" /\ clk_q /\ t \in Busy
      /\ (buf[t].write \/ ~buf[t].dual \/ buf[buf[t].dualtag].state = "DONE")
  BY <1>1, <1>2 DEF buf_rst, Types, Busy
<1>5. ~FreezingLoad(dc4) /\ ~FreezingLoad(dc5)
  BY <1>1, <1>4 DEF FreezingLoad, Reserved, TagsInv
<1>6. LoadIsHeld
  BY <1>0a, <1>3, <1>5 DEF FreezeInv, HeldInv
<1>7. DwsOf(dc3.op) = {Lo(dc3.op), Hi(dc3.op)}
  BY <1>3, OpIs DEF External, Types
<1>8. \A p, B : p \in Busy /\ InBuffers(p, B) => ~buf[p].write /\ buf[p].bytes = B
  BY DEF InBuffers, TagsInv
<1>9. CASE Dual(dc3.op)
  <2>0. PICK p, lo, hi : p = buf[t].dualtag /\ lo = BytesIn(dc3.op, Lo(dc3.op)) /\ hi = BytesIn(dc3.op, Hi(dc3.op))
    OBVIOUS
  <2>1. /\ buf[t].dual /\ InBuffers(t, lo) /\ InBuffers(p, hi)
        /\ want[t] = [b \in lo |-> arch[b]] /\ want[p] = [b \in hi |-> arch[b]]
    BY <1>1, <1>6, <1>9, <2>0 DEF LoadIsHeld
  <2>2. ~buf[t].write /\ buf[t].bytes = lo
    BY <1>4, <1>8, <2>1
  <2>3. buf[p].state = "DONE" /\ p \in Busy
    <3>1. EntryOf(buf[t])
      BY <1>4 DEF Types
    <3> QED  BY <1>4, <2>0, <2>1, <2>2, <3>1 DEF EntryOf, Busy
  <2>4. ~buf[p].write /\ buf[p].bytes = hi
    BY <1>8, <2>1, <2>3
  <2>5. lo \cup hi = dc3.op.bytes
    BY <1>7, <2>0 DEF BytesIn, DwsOf
  <2>6. UNION {buf[i].bytes : i \in {t, p}} = dc3.op.bytes
    BY <2>2, <2>4, <2>5
  <2> QED  BY <1>1, <1>4, <2>0, <2>1, <2>2, <2>3, <2>4, <2>6
<1>10. CASE ~Dual(dc3.op)
  <2>0. PICK B : B = dc3.op.bytes
    OBVIOUS
  <2>1. InBuffers(t, B) /\ ~buf[t].dual /\ want[t] = [b \in B |-> arch[b]]
    BY <1>1, <1>4, <1>6, <1>10, <2>0 DEF LoadIsHeld
  <2>2. ~buf[t].write /\ buf[t].bytes = B
    BY <1>4, <1>8, <2>1
  <2>3. UNION {buf[i].bytes : i \in {t}} = B
    BY <2>2
  <2> QED  BY <1>1, <1>4, <2>0, <2>1, <2>2, <2>3
<1> QED  BY <1>9, <1>10

-----------------------------------------------------------------------------
(* The inductive invariant *)
BusIInv ==
    /\ Types /\ TagsInv /\ FreezeInv /\ HeldInv /\ PipeInv /\ CmdInv /\ OrderInv /\ ContentInv
    /\ DataInv /\ FwdInv /\ ReturnInv

LEMMA InitBlank ==
    ASSUME Init
    PROVE  /\ dc1 = NoOp /\ dc2 = NoOp /\ dc3 = NoDc3 /\ dc4 = NoStage /\ dc5 = NoStage /\ ~ld_freeze
           /\ ibuf = NoIbuf /\ IbufTag = {} /\ Busy = {} /\ Pending = {} /\ Resp = {} /\ InObuf = {} /\ InBus = {}
           /\ InRsp = {} /\ Front = {} /\ obuf = NoObuf /\ outstanding = {} /\ rrsp = {} /\ brsp = {}
           /\ \A i \in Tag : buf[i] = IdleEntry /\ ageQ[i] = {} /\ buf_age(i) = {}
           /\ Reserved(dc4) = {} /\ Reserved(dc5) = {} /\ DOMAIN older = {} /\ setting \in Settings
<1>1. /\ \A i \in Tag : buf[i] = IdleEntry /\ ageQ[i] = {}
      /\ ibuf = NoIbuf /\ obuf = NoObuf /\ dc4 = NoStage /\ dc5 = NoStage
      /\ outstanding = {} /\ rrsp = {} /\ brsp = {} /\ DOMAIN older = {}
  BY DEF Init
<1>2. \A i \in Tag : buf[i].state = "IDLE"
  BY <1>1, BlankIs
<1>3. IbufTag = {} /\ InObuf = {} /\ InBus = {} /\ InRsp = {} /\ Reserved(dc4) = {} /\ Reserved(dc5) = {}
  BY <1>1, BlankIs DEF IbufTag, InObuf, InBus, InRsp, Reserved
<1>4. Busy = {} /\ Pending = {} /\ Resp = {}
  BY <1>2 DEF Busy, Pending, PendingCmd, Resp
<1>5. \A i \in Tag : buf_age(i) = {}
  BY <1>1 DEF buf_age
<1> QED  BY <1>1, <1>3, <1>4, <1>5 DEF Init, Front

LEMMA InitTypes ==
    ASSUME Init
    PROVE  Types
<1>1. setting \in Settings /\ dc1 \in Pkt /\ dc2 \in Pkt /\ Dc3Of(dc3) /\ StageOf(dc4) /\ StageOf(dc5)
      /\ ~dc3.busreq /\ ~dc4.busreq /\ ~dc5.busreq
  BY InitBlank, BlankIs
<1>2. ld_freeze \in BOOLEAN /\ FreezePtr \in Tag /\ clk_q \in BOOLEAN
  BY TagIs DEF Init
<1>3. IbufOf(ibuf) /\ ibuf.timer <= TIMER_MAX /\ ObufOf(obuf) /\ obuf_timer \in 0 .. TIMER_MAX
  <2>1. ibuf = NoIbuf /\ obuf = NoObuf /\ obuf_timer = 0 /\ TIMER_MAX \in Nat
    BY SettingIs DEF Init
  <2> QED  BY <2>1, BlankIs
<1>4. buf = [i \in Tag |-> buf[i]] /\ \A i \in Tag : EntryOf(buf[i])
  BY BlankIs DEF Init
<1>5. ageQ \in [Tag -> SUBSET Tag] /\ want = [t \in Tag |-> want[t]]
  BY DEF Init
<1>6. \A r \in rrsp \cup brsp : r.err \in BOOLEAN
  BY InitBlank
<1>7. arch \in [Bytes -> Values] /\ mem = [b \in Bytes |-> mem[b]]
  BY BusAssumption DEF Init
<1> QED  BY <1>1, <1>2, <1>3, <1>4, <1>5, <1>6, <1>7 DEF Types

LEMMA InitHolds ==
    ASSUME Init
    PROVE  BusIInv
<1>1. Types
  BY InitTypes
<1>2. TagsInv
  <2>1. Slots(dc1) = 0 /\ BusSlots(dc2.bytes # {}, dc2) = 0 /\ BusSlots(dc3.busreq, dc3.op) = 0
    BY InitBlank, NoOpIs, BlankIs DEF BusSlots
  <2>2. Held = {} /\ Cardinality(Held) = 0
    <3>1. Held = {}
      BY InitBlank DEF Held
    <3> QED  BY <3>1, FS_EmptySet
  <2>3. ~dc4.busreq /\ ~dc5.busreq
    BY InitBlank, BlankIs
  <2> QED  BY <2>1, <2>2, <2>3, InitBlank, TagIs DEF TagsInv
<1>3. FreezeInv /\ HeldInv
  BY InitBlank DEF Init, FreezeInv, HeldInv, FlushRegister
<1>4. PipeInv
  <2>1. dc3.op = NoOp /\ ~dc4.valid /\ ~dc5.valid /\ ~dc4.busreq /\ ~dc5.busreq /\ ~dc4.nb /\ ~dc5.nb /\ ~dc3.cancelled
    BY InitBlank, BlankIs DEF NoStage, NoDc3
  <2> QED  BY <2>1, NoOpIs DEF PipeInv, External
<1>5. CmdInv
  <2>1. ~obuf.valid
    BY InitBlank, BlankIs
  <2> QED  BY <2>1, InitBlank DEF CmdInv, OneAccessPerDoubleWord
<1>6. OrderInv
  <2>1. ~obuf.valid /\ older = [t \in {} |-> {}]
    BY InitBlank, BlankIs DEF Init
  <2>2. older = [i \in DOMAIN older |-> older[i]]
    BY <2>1
  <2> QED  BY <2>1, <2>2, InitBlank DEF OrderInv
<1>7. ContentInv
  <2>1. ~ibuf.write /\ \A i \in Tag : ~buf[i].write
    BY InitBlank DEF NoIbuf, IdleEntry
  <2>2. mem \in [Bytes -> Values]
    BY BusAssumption DEF Init
  <2> QED  BY <2>1, <2>2, InitBlank DEF ContentInv
<1>8. DataInv
  <2>1. \A i \in Tag : buf[i].state = "IDLE"
    BY InitBlank, BlankIs
  <2>2. arch = mem
    BY DEF Init
  <2>3. \A b \in Bytes : Finds(b, DOMAIN older, mem, arch[b])
    BY <2>2, InitBlank DEF Finds
  <2> QED  BY <2>1, <2>3, InitBlank DEF DataInv
<1>9. FwdInv
  BY InitBlank DEF FwdInv, NoDc3, NoStage
<1>10. ReturnInv
  <2>1. \A i \in Tag : buf[i].state = "IDLE"
    BY InitBlank, BlankIs
  <2>2. ~ibuf.nb
    BY InitBlank DEF NoIbuf
  <2> QED  BY <2>1, <2>2, InitBlank DEF ReturnInv, Complete
<1> QED  BY <1>1, <1>2, <1>3, <1>4, <1>5, <1>6, <1>7, <1>8, <1>9, <1>10 DEF BusIInv

LEMMA ClockKeeps ==
    ASSUME BusIInv, NEW x, Clock(x)
    PROVE  BusIInv'
<1>1. Types' /\ TagsInv'
  BY TypesKept, TagsKept DEF BusIInv
<1>2. FreezeInv' /\ PipeInv'
  BY PipeKept DEF BusIInv
<1>3. CmdInv' /\ OrderInv' /\ ContentInv'
  BY CmdKept, OrderKept, ContentKept DEF BusIInv
<1>4. DataInv'
  BY DataKept DEF BusIInv
<1>5. FwdInv'
  BY FwdKept DEF BusIInv
<1>6. ReturnInv'
  BY ReturnKept DEF BusIInv
<1>7. HeldInv'
  BY HeldKept DEF BusIInv
<1> QED  BY <1>1, <1>2, <1>3, <1>4, <1>5, <1>6, <1>7 DEF BusIInv

LEMMA StutterKeeps ==
    ASSUME BusIInv, UNCHANGED vars
    PROVE  BusIInv'
<1>0. /\ dc1' = dc1 /\ dc2' = dc2 /\ dc3' = dc3 /\ dc4' = dc4 /\ dc5' = dc5 /\ ld_freeze' = ld_freeze
      /\ FreezePtr' = FreezePtr /\ flush_e3' = flush_e3 /\ clk_q' = clk_q /\ ibuf' = ibuf /\ buf' = buf /\ ageQ' = ageQ /\ obuf' = obuf
      /\ obuf_timer' = obuf_timer /\ outstanding' = outstanding /\ rrsp' = rrsp /\ brsp' = brsp /\ mem' = mem
      /\ arch' = arch /\ want' = want /\ older' = older /\ setting' = setting
  BY DEF vars, pipeVars, bufVars, busVars, ghosts
<1>1. /\ TIMER_MAX' = TIMER_MAX /\ Ops' = Ops /\ Pkt' = Pkt /\ PostedDisable' = PostedDisable
      /\ IbufTag' = IbufTag /\ Reserved(dc4)' = Reserved(dc4) /\ Reserved(dc5)' = Reserved(dc5)
      /\ \A i : CmdSent(i)' <=> CmdSent(i)
      /\ Busy' = Busy /\ Resp' = Resp /\ InObuf' = InObuf /\ InBus' = InBus /\ InRsp' = InRsp
  BY <1>0 DEF TIMER_MAX, Ops, Pkt, PostedDisable, IbufTag, Reserved, CmdSent, Busy, Resp, InObuf, InBus, InRsp
<1>2. Pending' = Pending /\ Front' = Front /\ Held' = Held /\ \A i : buf_age(i)' = buf_age(i)
  BY <1>0, <1>1 DEF Pending, PendingCmd, Front, Held, buf_age
<1>3. Types' /\ ContentInv'
  BY <1>0, <1>1 DEF BusIInv, Types, ContentInv, Dc3Of, StageOf, IbufOf, EntryOf, ObufOf, External
<1>4. TagsInv'
  <2>1. /\ Slots(dc1)' = Slots(dc1) /\ BusSlots(dc2.bytes # {}, dc2)' = BusSlots(dc2.bytes # {}, dc2)
        /\ BusSlots(dc3.busreq, dc3.op)' = BusSlots(dc3.busreq, dc3.op)
    BY <1>0 DEF Slots, BusSlots
  <2> QED  BY <1>0, <1>1, <1>2, <2>1 DEF BusIInv, TagsInv
<1>5. FreezeInv' /\ PipeInv'
  BY <1>0, <1>1 DEF BusIInv, FreezeInv, PipeInv, FreezingLoad, Idle, External
<1>6. HeldInv'
  <2>1. \A t, B : InBuffers(t, B)' <=> InBuffers(t, B)
    BY <1>0, <1>1 DEF InBuffers
  <2> QED  BY <1>0, <1>1, <2>1 DEF BusIInv, HeldInv, LoadIsHeld, Idle, InBuffers
<1>7. CmdInv'
  BY <1>0, <1>1 DEF BusIInv, CmdInv, OneAccessPerDoubleWord, SideEffect, SideEffectDws
<1>8. OrderInv'
  BY <1>0, <1>1, <1>2 DEF BusIInv, OrderInv
<1>9. DataInv'
  <2>1. \A b, j : Writes(j, b)' <=> Writes(j, b)
    BY <1>0, <1>1 DEF Writes
  <2>2. \A j : DataOf(j)' = DataOf(j) /\ BytesOf(j)' = BytesOf(j) /\ (IsRead(j)' <=> IsRead(j))
    BY <1>0, <1>1 DEF DataOf, BytesOf, IsRead
  <2>3. \A b \in Bytes : Finds(b, DOMAIN older, mem, arch[b])'
    BY <1>0, <2>1, <2>2 DEF BusIInv, DataInv, Finds
  <2>4. ASSUME NEW i \in DOMAIN older, IsRead(i)
        PROVE  /\ want'[i] = [b \in BytesOf(i)' |-> want'[i][b]]
               /\ \A b \in BytesOf(i)' : Finds(b, older[i], mem, want[i][b])'
    <3>1. /\ want[i] = [b \in BytesOf(i) |-> want[i][b]]
          /\ \A b \in BytesOf(i) : Finds(b, older[i], mem, want[i][b])
      BY <2>4 DEF BusIInv, DataInv
    <3>2. \A b \in BytesOf(i)' : Finds(b, older[i], mem, want[i][b])'
      BY <1>0, <2>1, <2>2, <3>1 DEF Finds
    <3>3. want'[i] = [b \in BytesOf(i)' |-> want'[i][b]]
      <4>1. BytesOf(i)' = BytesOf(i)
        BY <2>2
      <4> QED  BY <1>0, <3>1, <4>1
    <3> QED  BY <3>2, <3>3
  <2>5. /\ \A r \in rrsp' : r.data = want'[r.tag]
        /\ \A i \in Tag : buf'[i].state = "DONE" /\ ~buf'[i].write => buf'[i].data = want'[i]
    BY <1>0 DEF BusIInv, DataInv
  <2>6. \A i \in DOMAIN older' : IsRead(i)' =>
          /\ want'[i] = [b \in BytesOf(i)' |-> want'[i][b]]
          /\ \A b \in BytesOf(i)' : Finds(b, older[i], mem, want[i][b])'
    BY <1>0, <2>2, <2>4
  <2> QED  BY <2>3, <2>5, <2>6 DEF DataInv
<1>10. FwdInv'
  BY <1>0, <1>1 DEF BusIInv, FwdInv, External, StageFwd, StageFwd2, StageHit
<1>11. ReturnInv'
  BY <1>0, <1>1 DEF BusIInv, ReturnInv, HalfOf, Complete
<1> QED  BY <1>3, <1>4, <1>5, <1>6, <1>7, <1>8, <1>9, <1>10, <1>11 DEF BusIInv

(* The invariant holds at every clock: how tags, entries, commands, ages and   *)
(* data belong together.                                                       *)
THEOREM BusSound == Spec => []BusIInv
<1>1. Init => BusIInv
  BY InitHolds
<1>2. BusIInv /\ [Next]_vars => BusIInv'
  <2>1. ASSUME BusIInv, Next PROVE BusIInv'
    <3>1. setting \in Settings
      BY <2>1 DEF BusIInv, Types
    <3>2. PICK x : Clock(x)
      BY <2>1, <3>1, NextIsClock
    <3> QED  BY <2>1, <3>2, ClockKeeps
  <2> QED  BY <2>1, StutterKeeps
<1> QED  BY <1>1, <1>2, PTL DEF Spec

-----------------------------------------------------------------------------
(* What follows from the invariant *)
LEMMA TypesFollow ==
    ASSUME BusIInv
    PROVE  BusTypeOK
<1>1. {dc1, dc2, dc3.op, dc4.op, dc5.op} \subseteq Pkt
  BY DEF BusIInv, Types, Dc3Of, StageOf
<1>2. {dc4.p0, dc4.p1, dc5.p0, dc5.p1, FreezePtr, ibuf.tag, ibuf.dualtag, obuf.tag} \subseteq Tag
  BY DEF BusIInv, Types, StageOf, IbufOf, ObufOf
<1>3. ASSUME NEW i \in Tag
      PROVE  /\ buf[i].state \in {"IDLE", "WAIT", "CMD", "RESP", "DONE"} /\ ageQ[i] \subseteq Tag \ {i}
             /\ buf[i].bytes \subseteq {buf[i].dw} \X Byte
             /\ buf[i].write => DOMAIN buf[i].data = buf[i].bytes
  <2>1. EntryOf(buf[i]) /\ ageQ[i] \subseteq Tag /\ i \notin ageQ[i]
    BY DEF BusIInv, Types, ContentInv
  <2>2. buf[i].write => buf[i].data \in [buf[i].bytes -> Values]
    BY DEF BusIInv, ContentInv
  <2>3. buf[i].write => DOMAIN buf[i].data = buf[i].bytes
    BY <2>2
  <2> QED  BY <2>1, <2>3 DEF EntryOf
<1>4. ibuf.write => DOMAIN ibuf.data = ibuf.bytes
  BY DEF BusIInv, ContentInv
<1>5. ibuf.timer \in 0 .. TIMER_MAX /\ obuf_timer \in 0 .. TIMER_MAX
  <2>1. TIMER_MAX \in Nat /\ ibuf.timer \in Nat /\ ibuf.timer <= TIMER_MAX
    BY SettingIs DEF BusIInv, Types, IbufOf
  <2> QED  BY <2>1 DEF BusIInv, Types
<1>6. Cardinality(rrsp) <= 1
  BY AtMostOne DEF BusIInv, CmdInv
<1>7. Cardinality(brsp) <= 1
  BY AtMostOne DEF BusIInv, CmdInv
<1>8. InBus \cup InRsp \subseteq Tag
  BY CmdUnique DEF BusIInv
<1>9. mem \in [Bytes -> Values] /\ arch \in [Bytes -> Values]
  BY DEF BusIInv, Types, ContentInv
<1>10. flush_e3 \in FlushRegister
  BY DEF BusIInv, FreezeInv
<1> QED  BY <1>1, <1>2, <1>3, <1>4, <1>5, <1>6, <1>7, <1>8, <1>9, <1>10 DEF BusTypeOK

LEMMA DisjointCount ==
    ASSUME NEW A, NEW B, IsFiniteSet(A), IsFiniteSet(B), A \cap B = {}
    PROVE  IsFiniteSet(A \cup B) /\ Cardinality(A \cup B) = Cardinality(A) + Cardinality(B)
<1>1. IsFiniteSet(A \cup B) /\ Cardinality(A \cup B) = Cardinality(A) + Cardinality(B) - Cardinality(A \cap B)
  BY FS_Union
<1>2. Cardinality(A \cap B) = 0
  BY FS_EmptySet
<1>3. Cardinality(A) \in Nat /\ Cardinality(B) \in Nat
  BY FS_CardinalityType
<1> QED  BY <1>1, <1>2, <1>3

LEMMA TagsFollow ==
    ASSUME BusIInv
    PROVE  TagsAreOwnedOnce
<1> DEFINE busy == {i \in Tag : buf[i].state # "IDLE"}
           A == Reserved(dc4)
           B == Reserved(dc5)
<1>1. Types /\ TagsInv /\ busy = Busy /\ setting \in Settings
  BY DEF BusIInv, Types, Busy
<1>2. \A s \in {dc4, dc5} : s.busreq \in BOOLEAN /\ s.op \in Pkt /\ (s.busreq => External(s.op))
  BY <1>1 DEF Types, StageOf
<1>3. \A s \in {dc4, dc5} : s.busreq => Slots(s.op) = IF Dual(s.op) THEN 2 ELSE 1
  BY <1>1, <1>2, OpIs DEF External
<1>4. \A s \in {dc4, dc5} : s.busreq /\ Dual(s.op) => s.p0 # s.p1
  BY <1>1 DEF TagsInv
<1>5. ASSUME NEW s \in {dc4, dc5}
      PROVE  IsFiniteSet(Reserved(s)) /\ Cardinality(Reserved(s)) = BusSlots(s.busreq, s.op)
  <2>1. CASE s.busreq
    BY <1>2, <1>3, <1>4, <2>1, ReservedCount
  <2>2. CASE ~s.busreq
    BY <2>2, FS_EmptySet DEF Reserved, BusSlots
  <2> QED  BY <2>1, <2>2
<1>6. IsFiniteSet(busy) /\ IsFiniteSet(IbufTag) /\ IsFiniteSet(A) /\ IsFiniteSet(B)
  <2>1. busy \subseteq Tag /\ IbufTag \subseteq Tag
    BY <1>1, HeldIs
  <2> QED  BY <1>5, <2>1, TagIs, FS_Subset
<1>7. busy \cap IbufTag = {} /\ (busy \cup IbufTag) \cap A = {} /\ (busy \cup IbufTag \cup A) \cap B = {}
  BY <1>1 DEF TagsInv
<1> HIDE DEF busy, A, B
<1>8. IsFiniteSet(busy \cup IbufTag) /\ Cardinality(busy \cup IbufTag) = Cardinality(busy) + Cardinality(IbufTag)
  BY <1>6, <1>7, DisjointCount
<1>9. IsFiniteSet(busy \cup IbufTag \cup A)
      /\ Cardinality(busy \cup IbufTag \cup A) = Cardinality(busy \cup IbufTag) + Cardinality(A)
  BY <1>6, <1>7, <1>8, DisjointCount
<1>10. Cardinality(busy \cup IbufTag \cup A \cup B) = Cardinality(busy \cup IbufTag \cup A) + Cardinality(B)
  BY <1>6, <1>7, <1>9, DisjointCount
<1>11. Cardinality(busy \cup IbufTag \cup A \cup B)
         = Cardinality(busy) + Cardinality(IbufTag) + Cardinality(A) + Cardinality(B)
  BY <1>8, <1>9, <1>10
<1>12. dc3.busreq => Cardinality(FreeTags) >= Slots(dc3.op)
  BY <1>1, PtrsAreFree
<1> QED  BY <1>5, <1>11, <1>12 DEF TagsAreOwnedOnce, busy, A, B

LEMMA AgeFollows ==
    ASSUME BusIInv
    PROVE  AgeIsProgramOrder
<1>1. Types /\ CmdInv /\ OrderInv
  BY DEF BusIInv
<1>2. DOMAIN older = Unsent \cup InObuf \cup InBus
  <2>1. \A i \in Tag : buf[i].state \in {"WAIT", "CMD"} => i \in Pending \/ i \in InObuf
    BY <1>1, CmdUnique DEF Pending, PendingCmd
  <2>2. Pending \cup IbufTag \subseteq Unsent
    BY DEF Pending, PendingCmd, Unsent
  <2>3. DOMAIN older = Pending \cup IbufTag \cup InObuf \cup InBus
    BY <1>1 DEF OrderInv, Front
  <2> QED  BY <2>1, <2>2, <2>3 DEF Unsent
<1>3. \A i \in Pending : i \in Tag /\ buf_age(i) = older[i] \cap Pending
  BY <1>1 DEF OrderInv, Pending, PendingCmd
<1>4. Cardinality(CmdPtr0Dec) <= 1
  <2>1. ASSUME NEW i \in CmdPtr0Dec, NEW j \in CmdPtr0Dec, i # j PROVE FALSE
    <3>1. i \in Pending /\ j \in Pending /\ buf_age(i) = {} /\ buf_age(j) = {}
      BY DEF CmdPtr0Dec, Pending
    <3>2. i \notin older[j] /\ j \notin older[i]
      BY <1>3, <3>1
    <3>3. i \in DOMAIN older /\ j \in DOMAIN older
      BY <1>1, <3>1 DEF OrderInv
    <3> QED  BY <1>1, <2>1, <3>2, <3>3 DEF OrderInv
  <2> QED  BY <2>1, AtMostOne
<1> QED  BY <1>1, <1>2, <1>3, <1>4 DEF OrderInv, AgeIsProgramOrder

LEMMA BusInvFollows ==
    ASSUME BusIInv
    PROVE  BusInv
<1>1. OneAccessPerDoubleWord
  BY DEF BusIInv, CmdInv
<1> QED  BY <1>1, TypesFollow, TagsFollow, AgeFollows DEF BusInv

(* The answer in a response register is one entry's. *)
LEMMA ResponseCount ==
    ASSUME NEW S, \A r, s \in S : r = s
    PROVE  /\ IsFiniteSet({r.tag : r \in S})
           /\ Cardinality({r.tag : r \in S}) = Cardinality(S)
<1>1. CASE S = {}
  BY <1>1, FS_EmptySet
<1>2. CASE S # {}
  <2>1. PICK a \in S : S = {a}
    BY <1>2
  <2>2. {r.tag : r \in S} = {a.tag}
    BY <2>1
  <2>3. IsFiniteSet({a.tag}) /\ Cardinality({a.tag}) = 1
    BY FS_Singleton
  <2>4. Cardinality({a}) = 1
    BY FS_Singleton
  <2> QED  BY <2>1, <2>2, <2>3, <2>4
<1> QED  BY <1>1, <1>2

LEMMA CommandsFollow ==
    ASSUME BusIInv
    PROVE  CommandsConserved
<1> DEFINE waiting == {i \in Tag : CmdSent(i)}
           R == {r.tag : r \in rrsp}
           B == {r.tag : r \in brsp}
<1>1. Types /\ CmdInv
  BY DEF BusIInv
<1>2. Resp \cup waiting = InObuf \cup InBus \cup InRsp
  <2>1. InObuf \subseteq Tag /\ Resp \subseteq InObuf \cup InBus \cup InRsp
    BY <1>1 DEF InObuf, Types, ObufOf, CmdInv
  <2> QED  BY <1>1, <2>1, CmdUnique
<1>3. IsFiniteSet(InObuf) /\ IsFiniteSet(InBus) /\ Cardinality(outstanding) = Cardinality(InBus)
  <2>1. InBus \subseteq Tag /\ InObuf \subseteq Tag
    BY <1>1, CmdUnique DEF InObuf, Types, ObufOf
  <2>2. IsFiniteSet(InBus) /\ IsFiniteSet(InObuf)
    BY <2>1, TagIs, FS_Subset
  <2> DEFINE f == [i \in InBus |-> CHOOSE o \in outstanding : o.tag = i]
  <2>3. \A i \in InBus : f[i] \in outstanding /\ f[i].tag = i
    BY DEF InBus
  <2>4. \A o \in outstanding : o.tag \in InBus /\ f[o.tag] = o
    <3>1. \A o \in outstanding : o.tag \in InBus
      BY DEF InBus
    <3> QED  BY <1>1, <2>3, <3>1, CmdUnique
  <2> HIDE DEF f
  <2>5. f \in Bijection(InBus, outstanding)
    <3>1. f \in [InBus -> outstanding]
      BY <2>3 DEF f
    <3> QED  BY <2>3, <2>4, <3>1 DEF Bijection, Injection, Surjection, IsInjective
  <2>6. ExistsBijection(InBus, outstanding)
    BY <2>5 DEF ExistsBijection
  <2> QED  BY <2>2, <2>6, FS_Bijection
<1>4. IsFiniteSet(R) /\ Cardinality(R) = Cardinality(rrsp) /\ IsFiniteSet(B) /\ Cardinality(B) = Cardinality(brsp)
  BY <1>1, ResponseCount DEF CmdInv
<1>5. InRsp = R \cup B /\ R \cap B = {}
  BY <1>1 DEF InRsp, CmdInv
<1>6. InObuf \cap InBus = {} /\ (InObuf \cup InBus) \cap R = {} /\ (InObuf \cup InBus \cup R) \cap B = {}
  BY <1>1, <1>5 DEF CmdInv
<1> HIDE DEF R, B, waiting
<1>7. IsFiniteSet(InObuf \cup InBus) /\ Cardinality(InObuf \cup InBus) = Cardinality(InObuf) + Cardinality(InBus)
  BY <1>3, <1>6, DisjointCount
<1>8. IsFiniteSet(InObuf \cup InBus \cup R)
      /\ Cardinality(InObuf \cup InBus \cup R) = Cardinality(InObuf \cup InBus) + Cardinality(R)
  BY <1>4, <1>6, <1>7, DisjointCount
<1>9. Cardinality(InObuf \cup InBus \cup R \cup B) = Cardinality(InObuf \cup InBus \cup R) + Cardinality(B)
  BY <1>4, <1>6, <1>8, DisjointCount
<1>10. Resp \cup waiting = InObuf \cup InBus \cup R \cup B
  BY <1>2, <1>5
<1>11. Cardinality(InObuf) + Cardinality(outstanding) + Cardinality(rrsp) + Cardinality(brsp)
        = Cardinality(Resp \cup waiting)
  BY <1>3, <1>4, <1>7, <1>8, <1>9, <1>10
<1> QED  BY <1>2, <1>11 DEF CommandsConserved, Resp, waiting

LEMMA LoadsFollow ==
    ASSUME BusIInv
    PROVE  LoadsSeeProgramOrder
  BY DEF BusIInv, DataInv, FwdInv, LoadsSeeProgramOrder

LEMMA SideEffectsFollow ==
    ASSUME BusIInv
    PROVE  SideEffectsOrdered
<1> SUFFICES ASSUME PostedDisable, obuf.valid, NEW o \in outstanding PROVE ~SideEffect(o.dw)
  BY DEF SideEffectsOrdered
<1>1. CmdInv
  BY DEF BusIInv
<1>2. o.tag \in Resp /\ o.dw = buf[o.tag].dw
  BY <1>1 DEF CmdInv
<1>3. o.tag # obuf.tag
  BY <1>1 DEF CmdInv, InObuf, InBus
<1> QED  BY <1>1, <1>2, <1>3 DEF CmdInv

LEMMA EmptyFollows ==
    ASSUME BusIInv
    PROVE  EmptyMeansQuiet
<1> SUFFICES ASSUME lsu_bus_buffer_empty_any
             PROVE  outstanding = {} /\ rrsp = {} /\ brsp = {} /\ mem = arch
  BY DEF EmptyMeansQuiet
<1>1. \A i \in Tag : buf[i].state = "IDLE"
  BY DEF lsu_bus_buffer_empty_any
<1>2. ~ibuf.valid /\ ~obuf.valid
  BY DEF lsu_bus_buffer_empty_any
<1>3. Resp = {} /\ Pending = {} /\ IbufTag = {} /\ InObuf = {}
  BY <1>1, <1>2 DEF Resp, Pending, PendingCmd, IbufTag, InObuf
<1>4. outstanding = {} /\ rrsp = {} /\ brsp = {}
  BY <1>3 DEF BusIInv, CmdInv
<1>5. InBus = {}
  BY <1>4 DEF InBus
<1>6. DOMAIN older = {}
  BY <1>3, <1>5 DEF BusIInv, OrderInv, Front
<1>7. \A b \in Bytes : arch[b] = mem[b]
  BY <1>6 DEF BusIInv, DataInv, Finds
<1>8. mem = [b \in Bytes |-> mem[b]] /\ arch \in [Bytes -> Values]
  BY DEF BusIInv, Types
<1>9. mem = arch
  BY <1>7, <1>8
<1> QED  BY <1>4, <1>9

-----------------------------------------------------------------------------
(* The theorems *)

(* The records of the pipe, the buffers and the port keep their form, a tag is *)
(* held by one access and there is always one to take, the age vectors are the *)
(* program order of what is not sent, and the slave has one access to a double *)
(* word at a time.                                                             *)
THEOREM BusBuffersAreSound == Spec => []BusInv
<1>1. BusIInv => BusInv
  BY BusInvFollows
<1> QED  BY <1>1, BusSound, PTL

(* Each entry in RESP has its command in obuf, with the slave or in a response *)
(* register, in one of them, and nothing else is there.                        *)
THEOREM NoCommandIsLost == Spec => []CommandsConserved
<1>1. BusIInv => CommandsConserved
  BY CommandsFollow
<1> QED  BY <1>1, BusSound, PTL

(* A load returns, byte by byte, what the last store before it in program      *)
(* order wrote: from the bus, in whatever order the slave answers, or from the *)
(* stores in the pipe, in ibuf and in the entries.                             *)
THEOREM LoadsAreInProgramOrder == Spec => []LoadsSeeProgramOrder
<1>1. BusIInv => LoadsSeeProgramOrder
  BY LoadsFollow
<1> QED  BY <1>1, BusSound, PTL

(* At most one non-blocking load returns in a clock, with both its halves,     *)
(* valid or in error, and at most one store reports an error.                  *)
THEOREM OneLoadAtATime == Spec => []OneLoadReturns
<1>1. BusIInv => OneLoadReturns
  BY OneReturns DEF BusIInv
<1> QED  BY <1>1, BusSound, PTL

(* A freeze that no flush from writeback ends, ends with the answer to its     *)
(* load, when all its bytes are there, those of the memory after all older     *)
(* stores, or with the mispredict of the branch in front of the load in its    *)
(* pair, before the load has left dc3 and so before anything can answer it.    *)
THEOREM FreezeIsAnswered == Spec => []FreezeEndsWithItsLoad
<1>1. BusIInv => FreezeEndsWithItsLoad
  BY FreezeEndsAnswered DEF BusIInv
<1> QED  BY <1>1, BusSound, PTL

(* While side effects are not posted, nothing is in obuf behind an access with *)
(* side effects that the slave has not answered.                               *)
THEOREM SideEffectsAreOrdered == Spec => []SideEffectsOrdered
<1>1. BusIInv => SideEffectsOrdered
  BY SideEffectsFollow
<1> QED  BY <1>1, BusSound, PTL

(* When the buffers say that they are empty, the slave holds nothing and the   *)
(* memory has every store that left the pipe.                                  *)
THEOREM EmptyIsQuiet == Spec => []EmptyMeansQuiet
<1>1. BusIInv => EmptyMeansQuiet
  BY EmptyFollows
<1> QED  BY <1>1, BusSound, PTL
=============================================================================
