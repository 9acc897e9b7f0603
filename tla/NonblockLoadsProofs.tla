-------------------------- MODULE NonblockLoadsProofs --------------------------
(***************************************************************************)
(* Proofs about NonblockLoads for any number of tags and entries, any      *)
(* registers and instructions, and every choice of flushes.                *)
(*                                                                         *)
(* The invariant NonblockInv says where a load may be: in a stage without  *)
(* a tag (Pipe), in dc4 or dc5 with a tag that nb4 or nb5 names (Owners)   *)
(* and an entry of the cam for its register (Cams), or with the bus, when  *)
(* its register waits for it (Pends).  All of them together leave a tag    *)
(* and an entry for the next one (Room), and a load that another           *)
(* instruction has taken as a producer is known to the registers that stop *)
(* it in dc3 (Readers).                                                    *)
(***************************************************************************)
EXTENDS NonblockLoads, FiniteSetTheorems, WellFoundedInduction, TLAPS

InstrType == [kind : Loads \cup {"none", "op"}, rd : Regs \cup {0}, rs : Regs \cup {0},
              nb : BOOLEAN, tag : Tag \cup {NoTag}, read : BOOLEAN]
CamType == [valid : BOOLEAN, wb : BOOLEAN, tag : Tag \cup {NoTag}, rd : Regs \cup {0}]

Types ==
    /\ ld_freeze \in BOOLEAN /\ flush_e3 \in FlushRegister
    /\ busreq \in BOOLEAN /\ nbfreeze \in BOOLEAN
    /\ depE1 \in BOOLEAN /\ sameE1 \in BOOLEAN /\ sameE2 \in BOOLEAN
    /\ nb4 \in SUBSET Tag /\ nb5 \in SUBSET Tag /\ busy \in SUBSET Tag
    /\ cam \in [Index -> CamType]
    /\ pend \in [Regs -> [tags : SUBSET Tag, read : BOOLEAN]]

Instr(x) ==
    /\ x \in InstrType
    /\ x.kind \in {"none", "fload"} => x.rd = 0
    /\ x.nb => x.kind = "load"
Shape(p) ==
    /\ Instr(p.i0) /\ Instr(p.i1)
    /\ ~(p.i0.kind \in Loads /\ p.i1.kind \in Loads)
Early(p) == Shape(p) /\ ~p.i0.nb /\ ~p.i1.nb
Pipe == Early(e1) /\ Early(e2) /\ Early(e3) /\ Shape(e4) /\ Shape(wb)

One(p) == IF HasLoad(p) THEN 1 ELSE 0
Quiet == ~HasLoad(e1) /\ ~HasLoad(e2) /\ ~HasLoad(e3) /\ ~HasLoad(e4) /\ ~HasLoad(wb)

(* Tags have one owner: dc4, dc5 or the bus.  A flush from writeback takes *)
(* a load in dc4 away but not its tag in nb5, and leaves the pipe empty.   *)
Owners ==
    /\ nb4 \cap nb5 = {} /\ nb4 \cap busy = {} /\ nb5 \cap busy = {}
    /\ \A s \in Slot : e4[s].nb => nb4 = {e4[s].tag}
    /\ \A s \in Slot : wb[s].nb => nb5 = {wb[s].tag}
    /\ nb4 # {} => \E s \in Slot : e4[s].nb
    /\ nb5 # {} => (\E s \in Slot : wb[s].nb) \/ Quiet

(* Decode counts the loads in the pipe and with the bus to one less than   *)
(* the tags.                                                               *)
Room == Cardinality(busy) + One(e1) + One(e2) + One(e3) + One(e4) + One(wb) <= NBLOAD_SIZE - 1

Holds(n, x) == cam[n].valid /\ cam[n].tag = x.tag /\ cam[n].rd = x.rd

(* The entries: one per tag, of a load without its data, that knows whether *)
(* the load has left writeback.                                            *)
Cams ==
    /\ \A m, n \in Index : cam[m].valid /\ cam[n].valid /\ cam[m].tag = cam[n].tag => m = n
    /\ \A n \in Index : cam[n].valid => /\ cam[n].tag \in nb4 \cup nb5 \cup busy
                                        /\ cam[n].wb <=> cam[n].tag \in busy
    /\ \A s \in Slot : e4[s].nb => \E n \in Index : Holds(n, e4[s])
    /\ \A s \in Slot : wb[s].nb => \E n \in Index : Holds(n, wb[s])

(* A register waits exactly for the load of an entry that left writeback.  *)
Pends ==
    /\ \A r \in Regs : pend[r].tags # {} =>
          /\ ~pend[r].read
          /\ \E n \in Index : /\ cam[n].valid /\ cam[n].wb /\ cam[n].rd = r
                              /\ pend[r].tags = {cam[n].tag}
    /\ \A n \in Index : cam[n].valid /\ cam[n].wb /\ cam[n].rd \in Regs =>
          pend[cam[n].rd].tags = {cam[n].tag}

(* A load that was taken as a producer is known by depE1, sameE1 or sameE2 *)
(* until dc3, where it may go on without its data only if none has.        *)
Readers ==
    /\ \A s \in Slot : e1[s].kind \in Loads /\ e1[s].read => sameE1
    /\ \A s \in Slot : e2[s].kind \in Loads /\ e2[s].read => depE1 \/ sameE2
    /\ busreq /\ ~nbfreeze =>
          \A s \in Slot : e3[s].kind \in Loads => ~e3[s].read /\ e3[s].kind = "load"
    /\ \A s \in Slot : e4[s].nb => ~e4[s].read
    /\ \A s \in Slot : wb[s].nb => ~wb[s].read

NonblockInv == Types /\ Pipe /\ Owners /\ Room /\ Cams /\ Pends /\ Readers

-----------------------------------------------------------------------------
(* A clock with its inputs. *)
Step(f, pair, ext, done, ret, tag) ==
    /\ f \in FlushInputs /\ ext \in BOOLEAN /\ done \in BOOLEAN /\ ret \in ReturnInputs
    /\ pair \in Pairs /\ MayDecode(pair, f) /\ tag \in TagInputs(f)
    /\ Clock(f, pair, ext, done, ret, tag)

LEMMA Constants ==
    /\ NBLOAD_SIZE \in Nat /\ NBLOAD_SIZE >= 2
    /\ IsFiniteSet(Tag) /\ Cardinality(Tag) = NBLOAD_SIZE /\ NoTag \notin Tag
    /\ 0 \notin Regs
    /\ \A i \in Instrs : /\ i.kind \in Loads \cup {"op"} /\ i.rs \in Regs \cup {0}
                         /\ i.rd \in Regs \cup {0} /\ (i.kind = "fload" => i.rd = 0)
  BY NonblockAssumption

LEMMA NoInstrIs == Instr(NoInstr) /\ NoInstr.kind \notin Loads /\ ~NoInstr.nb /\ NoInstr.rs = 0
                   /\ ~NoInstr.read
  BY Constants DEF Instr, InstrType, NoInstr, Loads

LEMMA PairIs ==
  ASSUME NEW f, NEW pair \in Pairs, MayDecode(pair, f)
  PROVE  /\ Early(pair) /\ ~pair.i0.read /\ ~pair.i1.read
         /\ pair.i0.kind = "none" => pair.i0.rs = 0
         /\ pair.i1.kind = "none" => pair.i1.rs = 0
         /\ pair = [i0 |-> pair.i0, i1 |-> pair.i1]
  <1>1. PICK a \in {Fresh(i) : i \in Instrs} \cup {NoInstr}, b \in {Fresh(i) : i \in Instrs} \cup {NoInstr} :
            pair = [i0 |-> a, i1 |-> b]
    BY DEF Pairs
  <1>2. ASSUME NEW x \in {Fresh(i) : i \in Instrs} \cup {NoInstr}
        PROVE  Instr(x) /\ ~x.nb /\ ~x.read /\ (x.kind = "none" => x.rs = 0)
    <2>1. CASE x = NoInstr
      BY <2>1, NoInstrIs
    <2>2. CASE x \in {Fresh(i) : i \in Instrs}
      <3>1. PICK i \in Instrs : x = Fresh(i)
        BY <2>2
      <3>2. x = [kind |-> i.kind, rd |-> i.rd, rs |-> i.rs, nb |-> FALSE, tag |-> NoTag, read |-> FALSE]
        BY <3>1 DEF Fresh
      <3>3. x \in InstrType
        BY <3>2, Constants DEF InstrType
      <3>4. x.kind = i.kind /\ x.rd = i.rd /\ x.rs = i.rs /\ ~x.nb /\ ~x.read
        BY <3>2
      <3> QED
        BY <3>3, <3>4, Constants DEF Instr, Loads
    <2> QED
      BY <1>2, <2>1, <2>2
  <1>3. pair.i0 = a /\ pair.i1 = b
    BY <1>1
  <1>4. ~(pair.i0.kind \in Loads /\ pair.i1.kind \in Loads)
    BY NoInstrIs DEF MayDecode, NoPair
  <1> QED
    BY <1>1, <1>2, <1>3, <1>4 DEF Early, Shape

-----------------------------------------------------------------------------
(* How the pipe moves *)

(* y is x one stage on, read also if b.                                    *)
Carried(x, y, b) ==
    /\ Instr(y) /\ y.kind = x.kind /\ y.rd = x.rd /\ y.nb = x.nb /\ y.tag = x.tag
    /\ y.read <=> x.read \/ b
Moved(x, y, b) == y = NoInstr \/ Carried(x, y, b)

LEMMA ReadMark ==
  ASSUME NEW x, Instr(x), NEW b \in BOOLEAN
  PROVE  Carried(x, [x EXCEPT !.read = @ \/ b], b)
  <1> DEFINE y == [x EXCEPT !.read = @ \/ b]
  <1>1. x \in InstrType
    BY DEF Instr
  <1>2. x.read \in BOOLEAN
    BY <1>1 DEF InstrType
  <1>3. (x.read \/ b) \in BOOLEAN
    OBVIOUS
  <1>4. /\ y \in InstrType
        /\ y.kind = x.kind /\ y.rd = x.rd /\ y.nb = x.nb /\ y.tag = x.tag
        /\ y.read = (x.read \/ b)
    BY <1>1, <1>3 DEF InstrType
  <1> QED
    BY <1>4 DEF Carried, Instr

LEMMA MarkedIs ==
  ASSUME NEW n \in 1 .. 5, NEW pair, NEW s \in Slot, Instr(stages[n][s])
  PROVE  Carried(stages[n][s], Marked(n, pair)[s], TakenBy(pair, <<n, s>>))
  <1>1. TakenBy(pair, <<n, s>>) \in BOOLEAN
    BY DEF TakenBy
  <1>2. Marked(n, pair)[s] = [stages[n][s] EXCEPT !.read = @ \/ TakenBy(pair, <<n, s>>)]
    BY DEF Marked
  <1> QED
    BY <1>1, <1>2, ReadMark

LEMMA StagesAre ==
    /\ stages[1] = e1 /\ stages[2] = e2 /\ stages[3] = e3 /\ stages[4] = e4 /\ stages[5] = wb
  BY DEF stages

LEMMA SlotsAre ==
  ASSUME NEW p, Shape(p)
  PROVE  \A s \in Slot : Instr(p[s])
  BY DEF Shape, Slot

LEMMA DropIs ==
  ASSUME NEW p, NEW all \in BOOLEAN, NEW i1 \in BOOLEAN, NEW s \in Slot
  PROVE  /\ Drop(p, all, i1)[s] = NoInstr \/ Drop(p, all, i1)[s] = p[s]
         /\ all => Drop(p, all, i1)[s] = NoInstr
         /\ ~all /\ ~i1 => Drop(p, all, i1)[s] = p[s]
  BY DEF Drop, Slot

LEMMA FlushIs ==
  ASSUME NEW f \in FlushInputs
  PROVE  /\ flush_final_e3(f) \in BOOLEAN /\ flush_lower_wb(f) \in BOOLEAN
         /\ i0_flush_final_e3(f) \in BOOLEAN
         /\ flush_lower_wb(f) => ~freeze(f)
         /\ f = "none" => ~flush_final_e3(f) /\ ~flush_lower_wb(f) /\ ~i0_flush_final_e3(f)
         /\ lsu_nonblock_load_valid_dc3(f) =>
               /\ ~flush_lower_wb(f) /\ ~i0_flush_final_e3(f) /\ ~freeze(f)
               /\ busreq /\ ~nbfreeze /\ HasLoad(e3)
  BY DEF FlushInputs, Mispredicts, flush_final_e3, flush_lower_wb, i0_flush_final_e3, freeze,
         lsu_nonblock_load_valid_dc3, flush_dc3

(* The stages before e4: they stand, or each takes the stage before it.    *)
LEMMA UpperMoves ==
  ASSUME Pipe, NEW f, NEW pair, NEW ext, NEW done, NEW ret, NEW tag,
         Step(f, pair, ext, done, ret, tag), NEW s \in Slot
  PROVE  /\ freeze(f) => e1' = e1 /\ e2' = e2 /\ e3' = e3 /\ e4' = NoPair
         /\ ~freeze(f) => /\ e1' = MarkedNew(pair)
                          /\ Moved(e1[s], e2'[s], TakenBy(pair, <<1, s>>))
                          /\ Moved(e2[s], e3'[s], TakenBy(pair, <<2, s>>))
         /\ Moved(e4[s], wb'[s], TakenBy(pair, <<4, s>>))
         /\ flush_lower_wb(f) \/ (flush_final_e3(f) /\ ~freeze(f)) =>
               e2'[s] = NoInstr /\ e3'[s] = NoInstr
         /\ flush_lower_wb(f) => e4'[s] = NoInstr /\ wb'[s] = NoInstr
         /\ flush_lower_wb(f) \/ wb'[s] = Marked(4, pair)[s]
  <1>1. PipeStep(f, pair, tag) /\ f \in FlushInputs
    BY DEF Step, Clock
  <1>2. Instr(e1[s]) /\ Instr(e2[s]) /\ Instr(e4[s])
    BY SlotsAre DEF Pipe, Early
  <1>3. Carried(e1[s], Marked(1, pair)[s], TakenBy(pair, <<1, s>>))
    BY <1>2, StagesAre, MarkedIs
  <1>4. Carried(e2[s], Marked(2, pair)[s], TakenBy(pair, <<2, s>>))
    BY <1>2, StagesAre, MarkedIs
  <1>5. Carried(e4[s], Marked(4, pair)[s], TakenBy(pair, <<4, s>>))
    BY <1>2, StagesAre, MarkedIs
  <1>6. wb' = Drop(Marked(4, pair), flush_lower_wb(f), FALSE)
    BY <1>1 DEF PipeStep
  <1>7. ~freeze(f) => /\ e1' = MarkedNew(pair)
                      /\ e2' = Drop(Marked(1, pair), flush_final_e3(f) \/ flush_lower_wb(f), FALSE)
                      /\ e3' = Drop(Marked(2, pair), flush_final_e3(f) \/ flush_lower_wb(f), FALSE)
                      /\ e4' = Drop(WithTag(Marked(3, pair), f, tag), flush_lower_wb(f), i0_flush_final_e3(f))
    BY <1>1 DEF PipeStep
  <1>8. freeze(f) => e1' = e1 /\ e2' = e2 /\ e3' = e3 /\ e4' = NoPair
    BY <1>1 DEF PipeStep
  <1>9. flush_lower_wb(f) => ~freeze(f)
    BY DEF freeze
  <1>11. flush_lower_wb(f) => e4'[s] = NoInstr
    BY <1>1, <1>7, <1>9 DEF Drop, Slot
  <1>12. flush_lower_wb(f) \/ (flush_final_e3(f) /\ ~freeze(f)) =>
             e2'[s] = NoInstr /\ e3'[s] = NoInstr
    BY <1>7, <1>9 DEF Drop, Slot
  <1>13. ~freeze(f) => /\ Moved(e1[s], e2'[s], TakenBy(pair, <<1, s>>))
                       /\ Moved(e2[s], e3'[s], TakenBy(pair, <<2, s>>))
    BY <1>3, <1>4, <1>7 DEF Moved, Drop, Slot
  <1>14. /\ Moved(e4[s], wb'[s], TakenBy(pair, <<4, s>>))
         /\ flush_lower_wb(f) => wb'[s] = NoInstr
         /\ flush_lower_wb(f) \/ wb'[s] = Marked(4, pair)[s]
    BY <1>1, <1>5, <1>6, FlushIs, DropIs DEF Moved
  <1> QED
    BY <1>7, <1>8, <1>11, <1>12, <1>13, <1>14

(* A load that leaves dc3 without its data takes its tag with it.          *)
Tagged(x, y, b, t) ==
    /\ Instr(y) /\ y.kind = x.kind /\ y.rd = x.rd /\ y.nb /\ y.tag = t
    /\ y.read <=> x.read \/ b

LEMMA TagIs ==
  ASSUME NEW f, NEW tag \in TagInputs(f)
  PROVE  /\ tag \in Tag \cup {NoTag}
         /\ lsu_nonblock_load_valid_dc3(f) /\ FreeTags # {} => tag \in FreeTags
  BY DEF TagInputs, FreeTags

LEMMA FourMoves ==
  ASSUME Pipe, Readers, NEW f, NEW pair, NEW ext, NEW done, NEW ret, NEW tag,
         Step(f, pair, ext, done, ret, tag), NEW s \in Slot
  PROVE  /\ lsu_nonblock_load_valid_dc3(f) /\ e3[s].kind \in Loads =>
               Tagged(e3[s], e4'[s], TakenBy(pair, <<3, s>>), tag)
         /\ ~lsu_nonblock_load_valid_dc3(f) \/ e3[s].kind \notin Loads =>
               Moved(e3[s], e4'[s], TakenBy(pair, <<3, s>>))
  <1>1. PipeStep(f, pair, tag) /\ f \in FlushInputs /\ tag \in TagInputs(f)
    BY DEF Step, Clock
  <1>2. Instr(e3[s])
    BY SlotsAre DEF Pipe, Early
  <1>3. Carried(e3[s], Marked(3, pair)[s], TakenBy(pair, <<3, s>>))
    BY <1>2, StagesAre, MarkedIs
  <1>4. ~freeze(f) => e4' = Drop(WithTag(Marked(3, pair), f, tag), flush_lower_wb(f), i0_flush_final_e3(f))
    BY <1>1 DEF PipeStep
  <1>5. freeze(f) => e4' = NoPair
    BY <1>1 DEF PipeStep
  <1>6. NoPair[s] = NoInstr
    BY DEF NoPair, Slot
  <1>7. CASE ~lsu_nonblock_load_valid_dc3(f)
    <2>1. CASE freeze(f)
      BY <1>5, <1>6, <1>7, <2>1 DEF Moved
    <2>2. CASE ~freeze(f)
      <3>1. WithTag(Marked(3, pair), f, tag) = Marked(3, pair)
        BY <1>7 DEF WithTag
      <3> QED
        BY <1>3, <1>4, <1>7, <2>2, <3>1 DEF Moved, Drop, Slot
    <2> QED
      BY <2>1, <2>2
  <1>8. CASE lsu_nonblock_load_valid_dc3(f)
    <2>1. ~flush_lower_wb(f) /\ ~i0_flush_final_e3(f) /\ ~freeze(f) /\ busreq /\ ~nbfreeze
      BY <1>1, <1>8, FlushIs
    <2>2. e4'[s] = WithTag(Marked(3, pair), f, tag)[s]
      BY <1>4, <2>1 DEF Drop, Slot
    <2> DEFINE m == Marked(3, pair)[s]
    <2>3. WithTag(Marked(3, pair), f, tag)[s]
            = IF m.kind \in Loads THEN [m EXCEPT !.nb = TRUE, !.tag = tag] ELSE m
      BY <1>8 DEF WithTag
    <2>4. Instr(m) /\ m.kind = e3[s].kind /\ m.rd = e3[s].rd
          /\ (m.read <=> e3[s].read \/ TakenBy(pair, <<3, s>>))
      BY <1>3 DEF Carried
    <2> HIDE DEF m
    <2>5. CASE m.kind \notin Loads
      BY <1>3, <2>2, <2>3, <2>4, <2>5 DEF Moved, m
    <2>6. CASE m.kind \in Loads
      <3> DEFINE y == [m EXCEPT !.nb = TRUE, !.tag = tag]
      <3>1. e4'[s] = y
        BY <2>2, <2>3, <2>6
      <3>2. m \in InstrType /\ tag \in Tag \cup {NoTag}
        BY <1>1, <2>4, TagIs DEF Instr
      <3>3. /\ y \in InstrType /\ y.kind = m.kind /\ y.rd = m.rd /\ y.read = m.read
            /\ y.nb = TRUE /\ y.tag = tag
        BY <3>2 DEF InstrType
      <3>4. m.kind = "load"
        BY <2>1, <2>4, <2>6 DEF Readers
      <3> HIDE DEF y
      <3>5. Instr(y)
        BY <3>3, <3>4 DEF Instr
      <3> QED
        BY <1>8, <2>4, <2>6, <3>1, <3>3, <3>5 DEF Tagged
    <2> QED
      BY <2>5, <2>6
  <1> QED
    BY <1>7, <1>8

LEMMA NewIs ==
  ASSUME NEW f, NEW pair \in Pairs, MayDecode(pair, f)
  PROVE  /\ Early(MarkedNew(pair))
         /\ MarkedNew(pair).i0.kind = pair.i0.kind /\ MarkedNew(pair).i1.kind = pair.i1.kind
         /\ ~MarkedNew(pair).i1.read
         /\ MarkedNew(pair).i0.read => pair.i1.rs # 0 /\ pair.i1.rs = pair.i0.rd
  <1> DEFINE b == (pair.i1.rs # 0 /\ pair.i1.rs = pair.i0.rd)
             x == pair.i0
             y == [x EXCEPT !.read = b]
  <1>1. Early(pair) /\ ~pair.i1.read /\ pair = [i0 |-> pair.i0, i1 |-> pair.i1]
    BY PairIs
  <1>2. MarkedNew(pair) = [pair EXCEPT !.i0 = y]
    BY <1>1 DEF MarkedNew
  <1>3. MarkedNew(pair).i0 = y /\ MarkedNew(pair).i1 = pair.i1
    <2> HIDE DEF y
    <2> QED  BY <1>1, <1>2
  <1>4. x \in InstrType /\ b \in BOOLEAN
    BY <1>1 DEF Early, Shape, Instr
  <1>5. /\ y \in InstrType /\ y.kind = x.kind /\ y.rd = x.rd /\ y.nb = x.nb /\ y.read = b
    <2> HIDE DEF b, x
    <2> QED  BY <1>4 DEF InstrType
  <1>6. Instr(x) /\ ~x.nb
    BY <1>1 DEF Early, Shape
  <1>7. Instr(y) /\ ~y.nb
    BY <1>5, <1>6 DEF Instr
  <1> HIDE DEF y
  <1> QED
    BY <1>1, <1>3, <1>5, <1>7 DEF Early, Shape

(* Loads come from loads of the stage before. *)
LEMMA PipeStays ==
  ASSUME Pipe, Readers, NEW f, NEW pair, NEW ext, NEW done, NEW ret, NEW tag,
         Step(f, pair, ext, done, ret, tag)
  PROVE  /\ Pipe'
         /\ \A s \in Slot : e4'[s].kind \in Loads => ~freeze(f) /\ e3[s].kind \in Loads
         /\ \A s \in Slot : wb'[s].kind \in Loads => e4[s].kind \in Loads
         /\ ~freeze(f) => \A s \in Slot : /\ e2'[s].kind \in Loads => e1[s].kind \in Loads
                                          /\ e3'[s].kind \in Loads => e2[s].kind \in Loads
                                          /\ e1'[s].kind = pair[s].kind
  <1>1. pair \in Pairs /\ MayDecode(pair, f)
    BY DEF Step
  <1>2. \A s \in Slot : Instr(e1[s]) /\ Instr(e2[s]) /\ Instr(e3[s]) /\ Instr(e4[s])
    BY SlotsAre DEF Pipe, Early
  <1>3. \A s \in Slot : Instr(e4'[s]) /\ (e4'[s].kind \in Loads => e3[s].kind \in Loads)
    BY <1>2, FourMoves, NoInstrIs DEF Tagged, Moved, Carried
  <1>4. freeze(f) => e4' = NoPair
    BY UpperMoves DEF Slot
  <1>5. \A s \in Slot : e4'[s].kind \in Loads => ~freeze(f)
    BY <1>4, NoInstrIs DEF NoPair, Slot
  <1>6. \A s \in Slot : Instr(wb'[s]) /\ (wb'[s].kind \in Loads => e4[s].kind \in Loads)
    BY <1>2, UpperMoves, NoInstrIs DEF Moved, Carried
  <1>7. ~freeze(f) => Early(e1') /\ \A s \in Slot : e1'[s].kind = pair[s].kind
    BY <1>1, NewIs, UpperMoves DEF Slot
  <1>8. ~freeze(f) => \A s \in Slot :
            /\ Instr(e2'[s]) /\ (e2'[s].kind \in Loads => e1[s].kind \in Loads) /\ ~e2'[s].nb
            /\ Instr(e3'[s]) /\ (e3'[s].kind \in Loads => e2[s].kind \in Loads) /\ ~e3'[s].nb
    BY <1>2, UpperMoves, NoInstrIs DEF Pipe, Early, Slot, Moved, Carried
  <1>9. Shape(e4') /\ Shape(wb')
    BY <1>3, <1>6 DEF Pipe, Early, Shape, Slot
  <1>10. Early(e1') /\ Early(e2') /\ Early(e3')
    <2>1. CASE freeze(f)
      BY <2>1, UpperMoves DEF Pipe, Slot
    <2>2. CASE ~freeze(f)
      BY <2>2, <1>7, <1>8 DEF Pipe, Early, Shape, Slot
    <2> QED
      BY <2>1, <2>2
  <1> QED
    BY <1>3, <1>5, <1>6, <1>7, <1>8, <1>9, <1>10 DEF Pipe

-----------------------------------------------------------------------------
(* Tags: how many are taken *)

LEMMA HasLoadIs ==
  ASSUME NEW p
  PROVE  HasLoad(p) <=> \E s \in Slot : p[s].kind \in Loads
  BY DEF HasLoad, LoadSlot

LEMMA OneIs == \A p : One(p) \in {0, 1} /\ (One(p) = 1 <=> HasLoad(p))
  BY DEF One

LEMMA TagsFinite ==
  ASSUME NEW T \in SUBSET Tag
  PROVE  IsFiniteSet(T) /\ Cardinality(T) \in Nat /\ Cardinality(T) <= NBLOAD_SIZE
  BY Constants, FS_Subset, FS_CardinalityType

LEMMA Disjoint ==
  ASSUME NEW S, NEW T, IsFiniteSet(S), IsFiniteSet(T), S \cap T = {}
  PROVE  IsFiniteSet(S \cup T) /\ Cardinality(S \cup T) = Cardinality(S) + Cardinality(T)
  <1>1. Cardinality(S \cap T) = 0
    BY FS_EmptySet
  <1>2. Cardinality(S) \in Nat /\ Cardinality(T) \in Nat
    BY FS_CardinalityType
  <1>3. /\ IsFiniteSet(S \cup T)
        /\ Cardinality(S \cup T) = Cardinality(S) + Cardinality(T) - Cardinality(S \cap T)
    BY FS_Union, Zenon
  <1> QED
    BY <1>1, <1>2, <1>3

LEMMA UnionAtMost ==
  ASSUME NEW S, NEW T, IsFiniteSet(S), IsFiniteSet(T)
  PROVE  /\ IsFiniteSet(S \cup T) /\ Cardinality(S \cup T) <= Cardinality(S) + Cardinality(T)
         /\ Cardinality(S) \in Nat /\ Cardinality(T) \in Nat /\ Cardinality(S \cup T) \in Nat
  <1>1. IsFiniteSet(S \cap T)
    BY FS_Subset
  <1>2. IsFiniteSet(S \cup T)
    BY FS_Union
  <1>3. Cardinality(S) \in Nat /\ Cardinality(T) \in Nat /\ Cardinality(S \cap T) \in Nat
        /\ Cardinality(S \cup T) \in Nat
    BY <1>1, <1>2, FS_CardinalityType
  <1>4. Cardinality(S \cup T) = Cardinality(S) + Cardinality(T) - Cardinality(S \cap T)
    BY FS_Union, Zenon
  <1> QED
    BY <1>2, <1>3, <1>4

InStage(n) == {p \in (1 .. 5) \X Slot : p[1] = n /\ stages[p[1]][p[2]].kind \in Loads}

LEMMA StageCount ==
  ASSUME NEW n \in 1 .. 5, Shape(stages[n])
  PROVE  IsFiniteSet(InStage(n)) /\ Cardinality(InStage(n)) = One(stages[n])
  <1>1. CASE HasLoad(stages[n])
    <2>1. PICK s \in Slot : stages[n][s].kind \in Loads
      BY <1>1, HasLoadIs
    <2>2. \A r \in Slot : stages[n][r].kind \in Loads => r = s
      BY <2>1 DEF Shape, Slot
    <2>3. InStage(n) = {<<n, s>>}
      <3>1. InStage(n) \subseteq {<<n, s>>}
        BY <2>2 DEF InStage
      <3>2. <<n, s>> \in InStage(n)
        BY <2>1 DEF InStage
      <3> QED
        BY <3>1, <3>2
    <2> QED
      BY <1>1, <2>3, FS_Singleton DEF One
  <1>2. CASE ~HasLoad(stages[n])
    <2>1. InStage(n) = {}
      BY <1>2, HasLoadIs DEF InStage
    <2> QED
      BY <1>2, <2>1, FS_EmptySet DEF One
  <1> QED
    BY <1>1, <1>2

LEMMA InPipeCount ==
  ASSUME Pipe
  PROVE  /\ IsFiniteSet(InPipe)
         /\ Cardinality(InPipe) = One(e1) + One(e2) + One(e3) + One(e4) + One(wb)
  <1>1. \A n \in 1 .. 5 : Shape(stages[n])
    BY StagesAre DEF Pipe, Early
  <1>2. \A n \in 1 .. 5 : IsFiniteSet(InStage(n)) /\ Cardinality(InStage(n)) = One(stages[n])
    BY <1>1, StageCount
  <1>3. \A m, n \in 1 .. 5 : m # n => InStage(m) \cap InStage(n) = {}
    BY DEF InStage
  <1> DEFINE A == InStage(1)
             B == A \cup InStage(2)
             C == B \cup InStage(3)
             D == C \cup InStage(4)
             E == D \cup InStage(5)
  <1>4. IsFiniteSet(B) /\ Cardinality(B) = One(e1) + One(e2)
    BY <1>2, <1>3, Disjoint, StagesAre
  <1>5. B \cap InStage(3) = {} /\ C \cap InStage(4) = {} /\ D \cap InStage(5) = {}
    BY <1>3
  <1> HIDE DEF B
  <1>6. IsFiniteSet(C) /\ Cardinality(C) = One(e1) + One(e2) + One(e3)
    BY <1>2, <1>4, <1>5, Disjoint, StagesAre
  <1> HIDE DEF C
  <1>7. IsFiniteSet(D) /\ Cardinality(D) = One(e1) + One(e2) + One(e3) + One(e4)
    BY <1>2, <1>5, <1>6, Disjoint, StagesAre
  <1> HIDE DEF D
  <1>8. IsFiniteSet(E) /\ Cardinality(E) = One(e1) + One(e2) + One(e3) + One(e4) + One(wb)
    BY <1>2, <1>5, <1>7, Disjoint, StagesAre
  <1>9. InPipe = E
    <2>1. InPipe \subseteq InStage(1) \cup InStage(2) \cup InStage(3) \cup InStage(4) \cup InStage(5)
      BY DEF InPipe, InStage
    <2>2. InStage(1) \cup InStage(2) \cup InStage(3) \cup InStage(4) \cup InStage(5) \subseteq InPipe
      BY DEF InPipe, InStage
    <2> QED
      BY <2>1, <2>2 DEF B, C, D
  <1> QED
    BY <1>8, <1>9

LEMMA ReturnIs ==
  ASSUME NEW ret \in ReturnInputs, Types
  PROVE  ret.tag \subseteq busy /\ (ret.tag = {} \/ \E t \in busy : ret.tag = {t})
  <1>1. CASE ret = [tag |-> {}, err |-> FALSE]
    BY <1>1
  <1>2. CASE ret \in [tag : {{t} : t \in busy}, err : BOOLEAN]
    BY <1>2
  <1> QED
    BY <1>1, <1>2 DEF ReturnInputs

(* The stages of InPipe are the stages of Room, and a load that leaves dc3 *)
(* finds a tag.                                                            *)
LEMMA TagLeft ==
  ASSUME Types, Pipe, Owners, Room, NEW f \in FlushInputs, lsu_nonblock_load_valid_dc3(f)
  PROVE  /\ FreeTags # {}
         /\ Cardinality(nb4 \cup nb5 \cup busy) < NBLOAD_SIZE
         /\ IsFiniteSet(nb4 \cup nb5 \cup busy)
  <1>1. HasLoad(e3)
    BY FlushIs
  <1>2. IsFiniteSet(nb4) /\ Cardinality(nb4) <= One(e4)
    <2>1. CASE nb4 = {}
      BY <2>1, FS_EmptySet, OneIs
    <2>2. CASE nb4 # {}
      <3>1. PICK s \in Slot : e4[s].nb /\ nb4 = {e4[s].tag}
        BY <2>2 DEF Owners
      <3>2. HasLoad(e4)
        <4>1. Instr(e4[s])
          BY SlotsAre DEF Pipe
        <4> QED
          BY <3>1, <4>1, HasLoadIs DEF Instr, Loads
      <3>3. IsFiniteSet(nb4) /\ Cardinality(nb4) = 1
        BY <3>1, FS_Singleton, Zenon
      <3>4. One(e4) = 1
        BY <3>2, OneIs
      <3> QED
        BY <3>3, <3>4
    <2> QED
      BY <2>1, <2>2
  <1>3. IsFiniteSet(nb5) /\ Cardinality(nb5) <= One(wb)
    <2>1. CASE nb5 = {}
      BY <2>1, FS_EmptySet, OneIs
    <2>2. CASE nb5 # {}
      <3>1. PICK s \in Slot : wb[s].nb /\ nb5 = {wb[s].tag}
        BY <1>1, <2>2 DEF Owners, Quiet
      <3>2. HasLoad(wb)
        <4>1. Instr(wb[s])
          BY SlotsAre DEF Pipe
        <4> QED
          BY <3>1, <4>1, HasLoadIs DEF Instr, Loads
      <3>3. IsFiniteSet(nb5) /\ Cardinality(nb5) = 1
        BY <3>1, FS_Singleton, Zenon
      <3>4. One(wb) = 1
        BY <3>2, OneIs
      <3> QED
        BY <3>3, <3>4
    <2> QED
      BY <2>1, <2>2
  <1>4. IsFiniteSet(busy) /\ Cardinality(busy) \in Nat
    BY TagsFinite DEF Types
  <1>5. /\ IsFiniteSet(nb4 \cup nb5) /\ Cardinality(nb4 \cup nb5) <= Cardinality(nb4) + Cardinality(nb5)
        /\ Cardinality(nb4) \in Nat /\ Cardinality(nb5) \in Nat /\ Cardinality(nb4 \cup nb5) \in Nat
    BY <1>2, <1>3, UnionAtMost
  <1> DEFINE U == nb4 \cup nb5
             V == U \cup busy
  <1>6. IsFiniteSet(V) /\ Cardinality(V) <= Cardinality(U) + Cardinality(busy) /\ Cardinality(V) \in Nat
    <2> HIDE DEF U
    <2> QED  BY <1>4, <1>5, UnionAtMost DEF U
  <1>7. One(e3) = 1
    BY <1>1, OneIs
  <1>8. Cardinality(V) < NBLOAD_SIZE
    <2> HIDE DEF V, U
    <2>1. Cardinality(U) <= Cardinality(nb4) + Cardinality(nb5) /\ Cardinality(U) \in Nat
      BY <1>5 DEF U
    <2> QED
      BY <1>2, <1>3, <1>4, <1>5, <1>6, <1>7, <2>1, OneIs, Constants DEF Room
  <1>9. FreeTags # {}
    <2> SUFFICES ASSUME FreeTags = {} PROVE FALSE
      OBVIOUS
    <2>1. Tag \in SUBSET V
      BY DEF FreeTags
    <2>2. Cardinality(Tag) <= Cardinality(V)
      <3> HIDE DEF V
      <3> QED  BY <1>6, <2>1, FS_Subset
    <2> QED
      BY <1>8, <1>6, <2>2, Constants
  <1> QED
    BY <1>6, <1>8, <1>9

LEMMA FlushedQuiet ==
  ASSUME Pipe, Readers, NEW f, NEW pair, NEW ext, NEW done, NEW ret, NEW tag,
         Step(f, pair, ext, done, ret, tag), flush_lower_wb(f)
  PROVE  Quiet'
  <1>1. pair = NoPair /\ ~freeze(f)
    BY FlushIs DEF Step, MayDecode
  <1>2. \A s \in Slot : pair[s] = NoInstr
    BY <1>1 DEF NoPair, Slot
  <1>3. \A s \in Slot : e2'[s] = NoInstr /\ e3'[s] = NoInstr /\ e4'[s] = NoInstr /\ wb'[s] = NoInstr
    BY UpperMoves
  <1>4. \A s \in Slot : e1'[s].kind = NoInstr.kind
    BY <1>1, <1>2, PipeStays
  <1> QED
    BY <1>3, <1>4, HasLoadIs, NoInstrIs DEF Quiet

LEMMA OwnersStay ==
  ASSUME Types, Pipe, Readers, Owners, Room,
         NEW f, NEW pair, NEW ext, NEW done, NEW ret, NEW tag,
         Step(f, pair, ext, done, ret, tag)
  PROVE  /\ Owners'
         /\ lsu_nonblock_load_valid_dc3(f) => tag \in FreeTags /\ nb4' = {tag}
         /\ ~lsu_nonblock_load_valid_dc3(f) => nb4' = {}
         /\ nb5' = nb4
         /\ busy' = (busy \cup (IF lsu_commit_dc5(f) THEN nb5 ELSE {})) \ ret.tag
  <1>1. /\ LsuStep(f, pair, ext, done, tag) /\ f \in FlushInputs /\ tag \in TagInputs(f)
        /\ busy' = (busy \cup (IF lsu_commit_dc5(f) THEN nb5 ELSE {})) \ ret.tag
    BY DEF Step, Clock
  <1>2. /\ lsu_nonblock_load_valid_dc3(f) => nb4' = {tag}
        /\ ~lsu_nonblock_load_valid_dc3(f) => nb4' = {}
        /\ nb5' = nb4
    BY <1>1 DEF LsuStep
  <1>3. lsu_nonblock_load_valid_dc3(f) => tag \in FreeTags
    BY <1>1, TagIs, TagLeft
  <1>4. busy' \subseteq busy \cup nb5
    BY <1>1
  <1>5. nb4' \cap nb5' = {} /\ nb4' \cap busy' = {} /\ nb5' \cap busy' = {}
    BY <1>2, <1>3, <1>4 DEF Owners, FreeTags
  <1>6. ASSUME NEW s \in Slot, e4'[s].nb
        PROVE  nb4' = {e4'[s].tag}
    <2>1. ~e3[s].nb
      BY DEF Pipe, Early, Slot
    <2>2. lsu_nonblock_load_valid_dc3(f) /\ e3[s].kind \in Loads
      <3>1. \/ Moved(e3[s], e4'[s], TakenBy(pair, <<3, s>>))
            \/ lsu_nonblock_load_valid_dc3(f) /\ e3[s].kind \in Loads
        BY FourMoves
      <3> QED
        BY <1>6, <2>1, <3>1, NoInstrIs DEF Moved, Carried
    <2>3. Tagged(e3[s], e4'[s], TakenBy(pair, <<3, s>>), tag)
      BY <2>2, FourMoves
    <2> QED
      BY <1>2, <2>2, <2>3 DEF Tagged
  <1>7. ASSUME NEW s \in Slot, wb'[s].nb
        PROVE  nb5' = {wb'[s].tag}
    <2>1. e4[s].nb /\ wb'[s].tag = e4[s].tag
      <3>1. Moved(e4[s], wb'[s], TakenBy(pair, <<4, s>>))
        BY UpperMoves
      <3> QED
        BY <1>7, <3>1, NoInstrIs DEF Moved, Carried
    <2> QED
      BY <1>2, <2>1 DEF Owners
  <1>8. ASSUME nb4' # {}
        PROVE  \E s \in Slot : e4'[s].nb
    <2>1. lsu_nonblock_load_valid_dc3(f)
      BY <1>2, <1>8
    <2>2. PICK s \in Slot : e3[s].kind \in Loads
      BY <1>1, <2>1, FlushIs, HasLoadIs
    <2> QED
      BY <2>1, <2>2, FourMoves DEF Tagged
  <1>9. ASSUME nb5' # {}
        PROVE  (\E s \in Slot : wb'[s].nb) \/ Quiet'
    <2>1. CASE flush_lower_wb(f)
      BY <2>1, FlushedQuiet
    <2>2. CASE ~flush_lower_wb(f)
      <3>1. PICK s \in Slot : e4[s].nb
        BY <1>2, <1>9 DEF Owners
      <3>2. wb'[s] = Marked(4, pair)[s]
        BY <2>2, UpperMoves
      <3>3. Carried(e4[s], wb'[s], TakenBy(pair, <<4, s>>))
        BY <3>2, StagesAre, SlotsAre, MarkedIs DEF Pipe
      <3> QED
        BY <3>1, <3>3 DEF Carried
    <2> QED
      BY <2>1, <2>2
  <1> QED
    BY <1>1, <1>2, <1>3, <1>5, <1>6, <1>7, <1>8, <1>9 DEF Owners

LEMMA RoomStays ==
  ASSUME Types, Pipe, Readers, Owners, Room,
         NEW f, NEW pair, NEW ext, NEW done, NEW ret, NEW tag,
         Step(f, pair, ext, done, ret, tag)
  PROVE  Room'
  <1>1. /\ pair \in Pairs /\ MayDecode(pair, f) /\ f \in FlushInputs /\ ret \in ReturnInputs
        /\ busy' = (busy \cup (IF lsu_commit_dc5(f) THEN nb5 ELSE {})) \ ret.tag
    BY DEF Step, Clock
  <1>2. Cardinality(busy) \in Nat /\ IsFiniteSet(busy) /\ IsFiniteSet(nb5)
    BY TagsFinite DEF Types
  <1>3. Cardinality(busy') <= Cardinality(busy) + One(wb) /\ Cardinality(busy') \in Nat
    <2>1. CASE lsu_commit_dc5(f) /\ nb5 # {}
      <3>1. HasLoad(wb)
        BY <2>1, HasLoadIs DEF lsu_commit_dc5, LoadSlot
      <3>2. PICK s \in Slot : wb[s].nb /\ nb5 = {wb[s].tag}
        BY <2>1, <3>1 DEF Owners, Quiet
      <3>3. Cardinality(nb5) = 1
        BY <3>2, FS_Singleton, Zenon
      <3>4. /\ IsFiniteSet(busy \cup nb5) /\ Cardinality(busy \cup nb5) <= Cardinality(busy) + 1
            /\ Cardinality(busy \cup nb5) \in Nat
        BY <1>2, <3>3, UnionAtMost
      <3>5. busy' \in SUBSET (busy \cup nb5)
        BY <1>1
      <3>6. /\ IsFiniteSet(busy') /\ Cardinality(busy') <= Cardinality(busy \cup nb5)
        BY <3>4, <3>5, FS_Subset
      <3>7. Cardinality(busy') \in Nat
        BY <3>6, FS_CardinalityType
      <3> QED
        BY <1>2, <3>1, <3>4, <3>6, <3>7, OneIs
    <2>2. CASE ~(lsu_commit_dc5(f) /\ nb5 # {})
      <3>1. busy' \in SUBSET busy
        BY <1>1, <2>2
      <3>2. IsFiniteSet(busy') /\ Cardinality(busy') <= Cardinality(busy)
        BY <1>2, <3>1, FS_Subset
      <3>3. Cardinality(busy') \in Nat
        BY <3>2, FS_CardinalityType
      <3> QED
        BY <1>2, <3>2, <3>3, OneIs
    <2> QED
      BY <2>1, <2>2
  <1>4. /\ HasLoad(wb') => HasLoad(e4)
        /\ HasLoad(e4') => ~freeze(f) /\ HasLoad(e3)
    BY PipeStays, HasLoadIs
  <1>5. CASE freeze(f)
    <2>1. e1' = e1 /\ e2' = e2 /\ e3' = e3
      BY <1>5, UpperMoves DEF Slot
    <2>2. One(wb') <= One(e4) /\ One(e4') = 0 /\ One(e1') = One(e1) /\ One(e2') = One(e2)
          /\ One(e3') = One(e3)
      BY <1>4, <1>5, <2>1, OneIs
    <2> QED
      BY <1>2, <1>3, <2>2, OneIs, Constants DEF Room
  <1>6. CASE ~freeze(f)
    <2>2. HasLoad(e2') => HasLoad(e1)
      BY <1>6, PipeStays, HasLoadIs
    <2>3. HasLoad(e3') => HasLoad(e2)
      BY <1>6, PipeStays, HasLoadIs
    <2>4. HasLoad(e1') => HasLoad(pair)
      BY <1>6, PipeStays, HasLoadIs
    <2>5. One(wb') <= One(e4) /\ One(e4') <= One(e3) /\ One(e3') <= One(e2) /\ One(e2') <= One(e1)
      BY <1>4, <2>2, <2>3, OneIs
    <2>6. CASE HasLoad(pair)
      <3>1. ~lsu_load_stall_any
        BY <1>1, <2>6, HasLoadIs, NoInstrIs DEF MayDecode, NoPair, Slot
      <3>2. One(e1) + One(e2) + One(e3) + One(e4) + One(wb) + Cardinality(busy) < NBLOAD_SIZE - 1
        BY <1>2, <3>1, InPipeCount, OneIs, Constants DEF lsu_load_stall_any
      <3> QED
        BY <1>2, <1>3, <2>5, <3>2, OneIs, Constants DEF Room
    <2>7. CASE ~HasLoad(pair)
      <3>1. One(e1') = 0
        BY <2>4, <2>7, OneIs
      <3> QED
        BY <1>2, <1>3, <2>5, <3>1, OneIs, Constants DEF Room
    <2> QED
      BY <2>6, <2>7
  <1> QED
    BY <1>5, <1>6

-----------------------------------------------------------------------------
(* Readers of a load *)

(* What takes a load as a producer was decoded in this clock, and did not  *)
(* stall.                                                                  *)
LEMMA TakenIs ==
  ASSUME NEW f, NEW pair \in Pairs, MayDecode(pair, f), NEW n \in 1 .. 5, NEW s \in Slot,
         TakenBy(pair, <<n, s>>)
  PROVE  \E r \in Slot : /\ pair[r].rs # 0 /\ pair[r].rs = stages[n][s].rd
                         /\ <<n, s>> \in Producer(pair[r])
                         /\ ~nonblock_load_stall(pair[r], f)
  <1>1. PICK r \in Slot : <<n, s>> \in Producer(pair[r])
    BY DEF TakenBy
  <1>2. pair[r].rs # 0 /\ stages[n][s].rd = pair[r].rs
    BY <1>1 DEF Producer, Writers
  <1>3. pair # NoPair
    BY <1>2, NoInstrIs DEF NoPair, Slot
  <1>4. pair[r].kind # "none"
    BY <1>2, PairIs DEF Slot
  <1> QED
    BY <1>1, <1>2, <1>3, <1>4 DEF MayDecode

LEMMA ReadersStay ==
  ASSUME Types, Pipe, Readers, Owners, Room, Cams,
         NEW f, NEW pair, NEW ext, NEW done, NEW ret, NEW tag,
         Step(f, pair, ext, done, ret, tag)
  PROVE  Readers'
  <1>1. /\ pair \in Pairs /\ MayDecode(pair, f) /\ f \in FlushInputs
        /\ LsuStep(f, pair, ext, done, tag) /\ DependStep(f, pair)
    BY DEF Step, Clock
  <1>2. ASSUME freeze(f)
        PROVE  /\ e1' = e1 /\ e2' = e2
               /\ sameE1' = sameE1 /\ depE1' = depE1 /\ sameE2' = sameE2
    BY <1>1, <1>2, UpperMoves DEF DependStep, depend, Slot
  <1>3. ASSUME NEW s \in Slot, e1'[s].kind \in Loads, e1'[s].read
        PROVE  sameE1'
    <2>1. CASE freeze(f)
      BY <1>2, <1>3, <2>1 DEF Readers
    <2>2. CASE ~freeze(f)
      <3>1. e1' = MarkedNew(pair) /\ (sameE1' <=> depend_load_same_cycle_d(pair))
        BY <1>1, <2>2, UpperMoves DEF DependStep
      <3>2. s = "i0" /\ pair.i1.rs # 0 /\ pair.i1.rs = pair.i0.rd /\ pair.i0.kind \in Loads
        BY <1>1, <1>3, <3>1, NewIs DEF Slot
      <3>3. pair.i0.kind = "load"
        BY <1>1, <3>2, PairIs DEF Early, Shape, Instr, Loads
      <3> QED
        BY <3>1, <3>2, <3>3 DEF depend_load_same_cycle_d
    <2> QED
      BY <2>1, <2>2
  <1>4. ASSUME NEW s \in Slot, e2'[s].kind \in Loads, e2'[s].read
        PROVE  depE1' \/ sameE2'
    <2>1. CASE freeze(f)
      BY <1>2, <1>4, <2>1 DEF Readers
    <2>2. CASE ~freeze(f)
      <3>1. Moved(e1[s], e2'[s], TakenBy(pair, <<1, s>>))
        BY <2>2, UpperMoves
      <3>2. e1[s].kind \in Loads /\ (e1[s].read \/ TakenBy(pair, <<1, s>>))
        BY <1>4, <3>1, NoInstrIs DEF Moved, Carried
      <3>3. (depE1' <=> depend_load_e1_d(pair)) /\ (sameE2' <=> sameE1)
        BY <1>1, <2>2 DEF DependStep
      <3>4. CASE e1[s].read
        BY <3>2, <3>3, <3>4 DEF Readers
      <3>5. CASE TakenBy(pair, <<1, s>>)
        <4>1. PICK r \in Slot : <<1, s>> \in Producer(pair[r])
          BY <3>5 DEF TakenBy
        <4>2. DependsOnLoad(pair[r], 1)
          BY <3>2, <4>1, StagesAre DEF DependsOnLoad
        <4> QED
          BY <3>3, <4>2 DEF depend_load_e1_d
      <3> QED
        BY <3>2, <3>4, <3>5
    <2> QED
      BY <2>1, <2>2
  <1>5. ASSUME busreq', ~nbfreeze', NEW s \in Slot, e3'[s].kind \in Loads
        PROVE  ~e3'[s].read /\ e3'[s].kind = "load"
    <2>1. ~freeze(f) /\ ~dec_nonblock_load_freeze_dc2(pair)
      BY <1>1, <1>5 DEF LsuStep
    <2>2. ~depend_load_e2_d(pair) /\ ~depE1 /\ ~sameE2 /\ ~load_float_e2
      BY <2>1 DEF dec_nonblock_load_freeze_dc2
    <2>3. Moved(e2[s], e3'[s], TakenBy(pair, <<2, s>>))
      BY <2>1, UpperMoves
    <2>4. /\ e2[s].kind \in Loads /\ e3'[s].kind = e2[s].kind
          /\ e3'[s].read <=> e2[s].read \/ TakenBy(pair, <<2, s>>)
      BY <1>5, <2>3, NoInstrIs DEF Moved, Carried
    <2>5. e3'[s].kind = "load"
      BY <2>2, <2>4 DEF load_float_e2, Loads
    <2>6. ~e2[s].read
      BY <2>2, <2>4 DEF Readers
    <2>7. ASSUME TakenBy(pair, <<2, s>>) PROVE FALSE
      <3>1. PICK r \in Slot : <<2, s>> \in Producer(pair[r])
        BY <2>7 DEF TakenBy
      <3>2. DependsOnLoad(pair[r], 2)
        BY <2>4, <3>1, StagesAre DEF DependsOnLoad
      <3> QED
        BY <2>2, <3>2 DEF depend_load_e2_d
    <2> QED
      BY <2>4, <2>5, <2>6, <2>7
  <1>6. ASSUME NEW s \in Slot, e4'[s].nb
        PROVE  ~e4'[s].read
    <2>1. ~e3[s].nb
      BY DEF Pipe, Early, Slot
    <2>2. lsu_nonblock_load_valid_dc3(f) /\ e3[s].kind \in Loads
      <3>1. \/ Moved(e3[s], e4'[s], TakenBy(pair, <<3, s>>))
            \/ lsu_nonblock_load_valid_dc3(f) /\ e3[s].kind \in Loads
        BY FourMoves
      <3> QED
        BY <1>6, <2>1, <3>1, NoInstrIs DEF Moved, Carried
    <2>3. Tagged(e3[s], e4'[s], TakenBy(pair, <<3, s>>), tag)
      BY <2>2, FourMoves
    <2>4. ~e3[s].read
      BY <1>1, <2>2, FlushIs DEF Readers
    <2>5. ASSUME TakenBy(pair, <<3, s>>) PROVE FALSE
      <3>1. PICK r \in Slot : /\ pair[r].rs # 0 /\ pair[r].rs = stages[3][s].rd
                              /\ ~nonblock_load_stall(pair[r], f)
        BY <1>1, <2>5, TakenIs
      <3>2. nonblock_load_rd = e3[s].rd
        BY <2>2 DEF nonblock_load_rd, Pipe, Early, Shape, Slot
      <3>3. nonblock_boundary_stall(pair[r], f)
        BY <2>2, <3>1, <3>2, StagesAre DEF nonblock_boundary_stall
      <3> QED
        BY <3>1, <3>3 DEF nonblock_load_stall
    <2> QED
      BY <2>3, <2>4, <2>5 DEF Tagged
  <1>7. ASSUME NEW s \in Slot, wb'[s].nb
        PROVE  ~wb'[s].read
    <2>1. Moved(e4[s], wb'[s], TakenBy(pair, <<4, s>>))
      BY UpperMoves
    <2>2. e4[s].nb /\ (wb'[s].read <=> e4[s].read \/ TakenBy(pair, <<4, s>>))
      BY <1>7, <2>1, NoInstrIs DEF Moved, Carried
    <2>3. ASSUME TakenBy(pair, <<4, s>>) PROVE FALSE
      <3>1. PICK r \in Slot : /\ pair[r].rs # 0 /\ pair[r].rs = stages[4][s].rd
                              /\ ~nonblock_load_stall(pair[r], f)
        BY <1>1, <2>3, TakenIs
      <3>2. PICK n \in Index : Holds(n, e4[s])
        BY <2>2 DEF Cams
      <3> QED
        BY <3>1, <3>2, StagesAre DEF nonblock_load_stall, Holds
    <2> QED
      BY <2>2, <2>3 DEF Readers
  <1> QED
    BY <1>3, <1>4, <1>5, <1>6, <1>7 DEF Readers

-----------------------------------------------------------------------------
(* Entries of the cam *)

LEMMA Least ==
  ASSUME NEW S \in SUBSET Nat, S # {}
  PROVE  \E n \in S : \A m \in S : n <= m
  <1>1. IsWellFoundedOn(OpToRel(<,Nat), Nat)
    BY NatLessThanWellFounded
  <1>2. PICK n \in S : \A m \in S : <<m, n>> \notin OpToRel(<, Nat)
    BY <1>1, WFMin
  <1>3. \A m \in S : m \in Nat /\ n \in Nat /\ ~(m < n)
    BY <1>2 DEF OpToRel
  <1> QED
    BY <1>3

LEMMA FirstInvalidIs ==
  ASSUME \E n \in Index : ~cam[n].valid
  PROVE  FirstInvalid \in Index /\ ~cam[FirstInvalid].valid
  <1> DEFINE S == {n \in Index : ~cam[n].valid}
  <1>1. S \in SUBSET Nat /\ S # {}
    BY Constants DEF Index
  <1>2. PICK n \in S : \A m \in S : n <= m
    BY <1>1, Least
  <1>3. /\ n \in Index /\ ~cam[n].valid
        /\ \A m \in Index : m < n => cam[m].valid
    BY <1>1, <1>2, Constants DEF Index
  <1> QED
    BY <1>3 DEF FirstInvalid

(* An entry is new, or it is one that stays.                               *)
New(n, f, tag) ==
    /\ lsu_nonblock_load_valid_dc3(f) /\ n = FirstInvalid /\ ~cam[n].valid
    /\ cam'[n].valid /\ cam'[n].tag = tag /\ cam'[n].rd = nonblock_load_rd /\ ~cam'[n].wb
Old(n, f, ret) ==
    /\ CamStays(f, ret, n)
    /\ cam'[n].valid /\ cam'[n].tag = cam[n].tag /\ cam'[n].rd = cam[n].rd
    /\ cam'[n].wb <=> cam[n].wb \/ cam[n].tag \in nb5

LEMMA RdIs ==
  ASSUME Pipe
  PROVE  /\ nonblock_load_rd \in Regs \cup {0}
         /\ \A s \in Slot : e3[s].kind \in Loads => nonblock_load_rd = e3[s].rd
  BY DEF nonblock_load_rd, Pipe, Early, Shape, Instr, InstrType, Slot

LEMMA CamMoves ==
  ASSUME Types, Pipe, NEW f, NEW pair, NEW ext, NEW done, NEW ret, NEW tag,
         Step(f, pair, ext, done, ret, tag)
  PROVE  /\ cam' \in [Index -> CamType]
         /\ \A n \in Index : cam'[n].valid => New(n, f, tag) \/ Old(n, f, ret)
         /\ \A n \in Index : CamStays(f, ret, n) => Old(n, f, ret)
         /\ lsu_nonblock_load_valid_dc3(f) /\ (\E n \in Index : ~cam[n].valid) =>
               FirstInvalid \in Index /\ New(FirstInvalid, f, tag)
  <1> DEFINE new == [valid |-> TRUE, wb |-> FALSE, tag |-> tag, rd |-> nonblock_load_rd]
             enters == lsu_nonblock_load_valid_dc3(f) /\ (\E m \in Index : ~cam[m].valid)
             old(n) == [cam[n] EXCEPT !.wb = @ \/ (nonblock_load_valid_wb /\ cam[n].tag \in nb5)]
  <1>1. CamStep(f, ret, tag) /\ tag \in Tag \cup {NoTag}
    BY TagIs DEF Step, Clock
  <1>2. cam' = [n \in Index |-> IF enters /\ n = FirstInvalid THEN new
                                ELSE IF CamStays(f, ret, n) THEN old(n) ELSE NoEntry]
    BY <1>1 DEF CamStep
  <1>3. new \in CamType
    BY <1>1, RdIs DEF CamType
  <1>4. ASSUME NEW n \in Index
        PROVE  /\ old(n) \in CamType
               /\ old(n).valid = cam[n].valid /\ old(n).tag = cam[n].tag /\ old(n).rd = cam[n].rd
               /\ old(n).wb <=> cam[n].wb \/ cam[n].tag \in nb5
    <2> DEFINE c == cam[n]
               b == (c.wb \/ (nonblock_load_valid_wb /\ c.tag \in nb5))
               y == [c EXCEPT !.wb = b]
    <2>1. c \in CamType /\ b \in BOOLEAN
      BY DEF Types
    <2>2. b <=> c.wb \/ c.tag \in nb5
      BY DEF nonblock_load_valid_wb
    <2>3. y \in CamType /\ y.valid = c.valid /\ y.tag = c.tag /\ y.rd = c.rd /\ y.wb = b
      <3> HIDE DEF c, b
      <3> QED  BY <2>1 DEF CamType
    <2>4. old(n) = y
      OBVIOUS
    <2> QED
      BY <2>2, <2>3, <2>4
  <1>5. NoEntry \in CamType /\ ~NoEntry.valid
    BY DEF NoEntry, CamType
  <1>6. enters => FirstInvalid \in Index /\ ~cam[FirstInvalid].valid
    BY FirstInvalidIs
  <1>7. \A n \in Index : CamStays(f, ret, n) => cam[n].valid
    BY DEF CamStays
  <1> HIDE DEF old, new, enters
  <1>8. cam' \in [Index -> CamType]
    BY <1>2, <1>3, <1>4, <1>5
  <1>9. enters => New(FirstInvalid, f, tag)
    BY <1>2, <1>6 DEF New, new, enters
  <1>10. ASSUME NEW n \in Index, CamStays(f, ret, n)
         PROVE  Old(n, f, ret)
    <2>1. ~(enters /\ n = FirstInvalid)
      BY <1>6, <1>7, <1>10
    <2>2. cam'[n] = old(n)
      BY <1>2, <1>10, <2>1
    <2> QED
      BY <1>4, <1>7, <1>10, <2>2 DEF Old
  <1>11. ASSUME NEW n \in Index, cam'[n].valid
         PROVE  New(n, f, tag) \/ Old(n, f, ret)
    <2>1. CASE enters /\ n = FirstInvalid
      BY <1>9, <2>1
    <2>2. CASE ~(enters /\ n = FirstInvalid)
      <3>1. CamStays(f, ret, n)
        BY <1>2, <1>5, <1>11, <2>2
      <3> QED
        BY <1>10, <3>1
    <2> QED
      BY <2>1, <2>2
  <1> QED
    BY <1>6, <1>8, <1>9, <1>10, <1>11 DEF enters

(* A load that leaves dc3 finds an entry: the valid ones hold different    *)
(* tags, of which one is left.                                             *)
LEMMA EntryLeft ==
  ASSUME Types, Pipe, Owners, Room, Cams, NEW f \in FlushInputs, lsu_nonblock_load_valid_dc3(f)
  PROVE  \E n \in Index : ~cam[n].valid
  <1> SUFFICES ASSUME \A n \in Index : cam[n].valid PROVE FALSE
    OBVIOUS
  <1> DEFINE V == nb4 \cup nb5 \cup busy
             g == [n \in Index |-> cam[n].tag]
  <1>1. IsFiniteSet(V) /\ Cardinality(V) < NBLOAD_SIZE
    BY TagLeft
  <1>2. Cardinality(V) \in Nat
    BY <1>1, FS_CardinalityType
  <1>3. IsFiniteSet(Index) /\ Cardinality(Index) = NBLOAD_SIZE
    BY Constants, FS_Interval DEF Index
  <1>4. g \in [Index -> V]
    BY DEF Cams
  <1>5. \E m, n \in Index : m # n /\ g[m] = g[n]
    <2> HIDE DEF g, V
    <2> QED  BY <1>1, <1>2, <1>3, <1>4, FS_PigeonHole, Constants
  <1> QED
    BY <1>5 DEF Cams

LEMMA CamsStay ==
  ASSUME Types, Pipe, Readers, Owners, Room, Cams,
         NEW f, NEW pair, NEW ext, NEW done, NEW ret, NEW tag,
         Step(f, pair, ext, done, ret, tag)
  PROVE  Cams'
  <1>1. f \in FlushInputs /\ ret.tag \subseteq busy
    BY ReturnIs DEF Step
  <1>2. /\ lsu_nonblock_load_valid_dc3(f) => tag \in FreeTags /\ nb4' = {tag}
        /\ ~lsu_nonblock_load_valid_dc3(f) => nb4' = {}
        /\ nb5' = nb4
        /\ busy' = (busy \cup (IF lsu_commit_dc5(f) THEN nb5 ELSE {})) \ ret.tag
    BY OwnersStay
  <1>3. ASSUME NEW n \in Index, cam'[n].valid
        PROVE  New(n, f, tag) \/ Old(n, f, ret)
    BY <1>3, CamMoves
  (* A tag that is given out is in no entry. *)
  <1>4. ASSUME NEW n \in Index, Old(n, f, ret), lsu_nonblock_load_valid_dc3(f)
        PROVE  cam[n].tag # tag
    <2>1. cam[n].tag \in nb4 \cup nb5 \cup busy
      BY <1>4 DEF Old, CamStays, Cams
    <2> QED
      BY <1>2, <1>4, <2>1 DEF FreeTags
  <1>5. ASSUME NEW m \in Index, NEW n \in Index, cam'[m].valid, cam'[n].valid,
               cam'[m].tag = cam'[n].tag
        PROVE  m = n
    <2>1. CASE New(m, f, tag) /\ New(n, f, tag)
      BY <2>1 DEF New
    <2>2. CASE Old(m, f, ret) /\ Old(n, f, ret)
      BY <1>5, <2>2 DEF Old, CamStays, Cams
    <2>3. CASE New(m, f, tag) /\ Old(n, f, ret)
      BY <1>4, <1>5, <2>3 DEF Old, New
    <2>4. CASE Old(m, f, ret) /\ New(n, f, tag)
      BY <1>4, <1>5, <2>4 DEF Old, New
    <2> QED
      BY <1>3, <1>5, <2>1, <2>2, <2>3, <2>4
  <1>6. ASSUME NEW n \in Index, cam'[n].valid
        PROVE  /\ cam'[n].tag \in nb4' \cup nb5' \cup busy'
               /\ cam'[n].wb <=> cam'[n].tag \in busy'
    <2>1. CASE New(n, f, tag)
      BY <1>2, <2>1 DEF New, FreeTags
    <2>2. CASE Old(n, f, ret)
      <3>1. /\ cam[n].valid /\ cam[n].tag \notin ret.tag
            /\ ~(cam_inv_reset(f) /\ cam[n].tag \in nb5)
            /\ cam'[n].tag = cam[n].tag /\ (cam'[n].wb <=> cam[n].wb \/ cam[n].tag \in nb5)
        BY <2>2 DEF Old, CamStays
      <3>2. cam[n].tag \in nb4 \cup nb5 \cup busy /\ (cam[n].wb <=> cam[n].tag \in busy)
        BY <3>1 DEF Cams
      <3>3. cam[n].tag \in nb5 => lsu_commit_dc5(f)
        BY <3>1 DEF cam_inv_reset, lsu_nonblock_load_inv_dc5
      <3>4. /\ cam[n].tag \in nb4 => cam[n].tag \notin nb5 /\ cam[n].tag \notin busy
            /\ cam[n].tag \in nb5 => cam[n].tag \notin nb4 /\ cam[n].tag \notin busy
        BY DEF Owners
      <3>5. CASE cam[n].tag \in nb4
        BY <1>2, <3>1, <3>2, <3>4, <3>5
      <3>6. CASE cam[n].tag \in nb5
        BY <1>2, <3>1, <3>2, <3>3, <3>6
      <3>7. CASE cam[n].tag \in busy
        BY <1>2, <3>1, <3>2, <3>7
      <3> QED
        BY <3>2, <3>5, <3>6, <3>7
    <2> QED
      BY <1>3, <1>6, <2>1, <2>2
  <1>7. ASSUME NEW s \in Slot, e4'[s].nb
        PROVE  \E n \in Index : Holds(n, e4[s])'
    <2>1. ~e3[s].nb
      BY DEF Pipe, Early, Slot
    <2>2. lsu_nonblock_load_valid_dc3(f) /\ e3[s].kind \in Loads
      <3>1. \/ Moved(e3[s], e4'[s], TakenBy(pair, <<3, s>>))
            \/ lsu_nonblock_load_valid_dc3(f) /\ e3[s].kind \in Loads
        BY FourMoves
      <3> QED
        BY <1>7, <2>1, <3>1, NoInstrIs DEF Moved, Carried
    <2>3. Tagged(e3[s], e4'[s], TakenBy(pair, <<3, s>>), tag)
      BY <2>2, FourMoves
    <2>4. \E n \in Index : ~cam[n].valid
      BY <1>1, <2>2, EntryLeft
    <2>5. PICK n \in Index : New(n, f, tag)
      BY <2>2, <2>4, CamMoves
    <2>6. nonblock_load_rd = e3[s].rd
      BY <2>2, RdIs
    <2>7. Holds(n, e4[s])'
      BY <2>3, <2>5, <2>6 DEF New, Holds, Tagged
    <2> QED
      BY <2>7
  <1>8. ASSUME NEW s \in Slot, wb'[s].nb
        PROVE  \E n \in Index : Holds(n, wb[s])'
    <2>1. Moved(e4[s], wb'[s], TakenBy(pair, <<4, s>>))
      BY UpperMoves
    <2>2. e4[s].nb /\ wb'[s].tag = e4[s].tag /\ wb'[s].rd = e4[s].rd
      BY <1>8, <2>1, NoInstrIs DEF Moved, Carried
    <2>3. PICK n \in Index : Holds(n, e4[s])
      BY <2>2 DEF Cams
    <2>4. cam[n].tag \in nb4
      BY <2>2, <2>3 DEF Holds, Owners
    <2>5. cam[n].tag \notin nb5 /\ cam[n].tag \notin busy /\ ~cam[n].wb
      BY <2>3, <2>4 DEF Holds, Owners, Cams
    <2>6. CamStays(f, ret, n)
      BY <1>1, <2>3, <2>5 DEF CamStays, Holds
    <2>7. Old(n, f, ret)
      BY <2>6, CamMoves
    <2>8. Holds(n, wb[s])'
      BY <2>2, <2>3, <2>7 DEF Old, Holds
    <2> QED
      BY <2>8
  <1> QED
    BY <1>5, <1>6, <1>7, <1>8 DEF Cams

-----------------------------------------------------------------------------
(* Registers that wait *)

(* The slot of wb that writes r last. *)
Last(f, r) == {s \in Slot : /\ wb[s].rd = r /\ ~kill_writeb_wb(f, s)
                            /\ s = "i0" => wb.i1.rd # r \/ kill_writeb_wb(f, "i1")}
Reads(pair, r) == \E s \in Slot : pair[s].rs = r /\ Producer(pair[s]) = {}

LEMMA LastIs ==
  ASSUME NEW f, NEW r \in Regs
  PROVE  /\ \A s, t \in Last(f, r) : s = t
         /\ Writes(f, r) <=> Last(f, r) # {}
  <1>1. r # 0
    BY Constants
  <1>2. \A s, t \in Last(f, r) : s = t
    BY DEF Last, Slot
  <1>3. ASSUME NEW s \in Last(f, r)
        PROVE  Writes(f, r)
    <2>1. s \in Slot /\ wb[s].rd = r /\ wen_wb(f, s)
      BY <1>1, <1>3 DEF Last, wen_wb, SameDest
    <2> QED
      BY <2>1 DEF Writes
  <1>4. ASSUME Writes(f, r)
        PROVE  Last(f, r) # {}
    <2>1. PICK s \in Slot : wen_wb(f, s) /\ wb[s].rd = r
      BY <1>4 DEF Writes
    <2>2. ~kill_writeb_wb(f, s)
      BY <2>1 DEF wen_wb
    <2>3. CASE s = "i1"
      BY <2>1, <2>2, <2>3 DEF Last
    <2>4. CASE s = "i0" /\ wb.i1.rd = r /\ ~kill_writeb_wb(f, "i1")
      <3>1. "i1" \in Last(f, r)
        BY <2>4 DEF Last, Slot
      <3> QED
        BY <3>1
    <2>5. CASE s = "i0" /\ (wb.i1.rd # r \/ kill_writeb_wb(f, "i1"))
      BY <2>1, <2>2, <2>5 DEF Last
    <2> QED
      BY <2>3, <2>4, <2>5 DEF Slot
  <1> QED
    BY <1>2, <1>3, <1>4

LEMMA PendMoves ==
  ASSUME Types, NEW f, NEW pair, NEW ret, PendStep(f, pair, ret), NEW r \in Regs
  PROVE  /\ \A s \in Last(f, r) : wb[s].nb =>
               /\ pend'[r].tags = {wb[s].tag}
               /\ pend'[r].read <=> wb[s].read \/ TakenBy(pair, <<5, s>>)
         /\ (\A s \in Last(f, r) : ~wb[s].nb) /\ (Last(f, r) # {} \/ pend[r].tags \subseteq ret.tag) =>
               pend'[r] = Ready
         /\ Last(f, r) = {} /\ ~(pend[r].tags \subseteq ret.tag) =>
               /\ pend'[r].tags = pend[r].tags
               /\ pend'[r].read <=> pend[r].read \/ Reads(pair, r)
  <1> DEFINE L == Last(f, r)
             new == [tags |-> {wb[s].tag : s \in L},
                     read |-> \E s \in L : wb[s].read \/ TakenBy(pair, <<5, s>>)]
             b == Reads(pair, r)
             p == pend[r]
  <1>1. pend'[r] = IF \E s \in L : wb[s].nb THEN new
                   ELSE IF L # {} \/ p.tags \subseteq ret.tag THEN Ready
                   ELSE [p EXCEPT !.read = @ \/ b]
    BY DEF PendStep, Last, Reads
  <1>2. ASSUME NEW s \in L, wb[s].nb
        PROVE  /\ pend'[r].tags = {wb[s].tag}
               /\ pend'[r].read <=> wb[s].read \/ TakenBy(pair, <<5, s>>)
    <2>1. \A t \in L : t = s
      BY LastIs
    <2>2. pend'[r] = new
      BY <1>1, <1>2
    <2>3. new.tags = {wb[s].tag}
      BY <2>1
    <2>4. new.read <=> wb[s].read \/ TakenBy(pair, <<5, s>>)
      BY <2>1
    <2> HIDE DEF new
    <2> QED
      BY <2>2, <2>3, <2>4
  <1>3. ASSUME \A s \in L : ~wb[s].nb, L # {} \/ pend[r].tags \subseteq ret.tag
        PROVE  pend'[r] = Ready
    BY <1>1, <1>3
  <1>4. ASSUME L = {}, ~(p.tags \subseteq ret.tag)
        PROVE  p'.tags = p.tags /\ (p'.read <=> p.read \/ b)
    <2>1. p \in [tags : SUBSET Tag, read : BOOLEAN]
      BY DEF Types
    <2> DEFINE c == (p.read \/ b)
               y == [p EXCEPT !.read = c]
    <2>2. c \in BOOLEAN
      OBVIOUS
    <2>3. y.tags = p.tags /\ y.read = c
      <3> HIDE DEF c, p
      <3> QED  BY <2>1
    <2>4. pend'[r] = y
      BY <1>1, <1>4
    <2> HIDE DEF y
    <2> QED
      BY <2>3, <2>4
  <1> QED
    BY <1>2, <1>3, <1>4

(* The entry of a load in wb that writes its register is of pend next.     *)
LEMMA EntryLands ==
  ASSUME Types, Pipe, Readers, Owners, Room, Cams,
         NEW f, NEW pair, NEW ext, NEW done, NEW ret, NEW tag,
         Step(f, pair, ext, done, ret, tag),
         NEW r \in Regs, NEW s \in Last(f, r), wb[s].nb
  PROVE  \E n \in Index : /\ cam[n].valid /\ cam[n].rd = r
                          /\ cam'[n].valid /\ cam'[n].wb /\ cam'[n].rd = r
                          /\ cam'[n].tag = wb[s].tag
  <1>1. s \in Slot /\ wb[s].rd = r /\ ~kill_writeb_wb(f, s)
        /\ (s = "i0" => wb.i1.rd # r \/ kill_writeb_wb(f, "i1"))
    BY DEF Last
  <1>2. wb[s].kind \in Loads
    BY <1>1, SlotsAre DEF Pipe, Instr, Loads
  <1>3. PICK n \in Index : Holds(n, wb[s])
    BY <1>1 DEF Cams
  <1>4. cam[n].tag \in nb5
    BY <1>1, <1>3 DEF Holds, Owners
  <1>5. ~cam[n].wb /\ cam[n].tag \notin busy
    BY <1>3, <1>4 DEF Holds, Owners, Cams
  <1>6. cam[n].tag \notin ret.tag
    BY <1>5, ReturnIs DEF Step
  <1>7. ~lsu_nonblock_load_inv_dc5(f)
    BY <1>1, <1>2 DEF lsu_nonblock_load_inv_dc5, lsu_commit_dc5, LoadSlot
  <1>8. ~cam_reset_same_dest_wb(f)
    <2>1. CASE s = "i0"
      BY <1>1, <2>1 DEF cam_reset_same_dest_wb, SameDest
    <2>2. CASE s = "i1"
      BY <1>2, <2>2 DEF cam_reset_same_dest_wb, Pipe, Shape
    <2> QED
      BY <1>1, <2>1, <2>2 DEF Slot
  <1>9. CamStays(f, ret, n)
    BY <1>3, <1>5, <1>6, <1>7, <1>8 DEF CamStays, Holds, cam_inv_reset
  <1>10. Old(n, f, ret)
    BY <1>9, CamMoves
  <1> QED
    BY <1>1, <1>3, <1>4, <1>10 DEF Old, Holds

LEMMA PendsStay ==
  ASSUME Types, Pipe, Readers, Owners, Room, Cams, Pends,
         NEW f, NEW pair, NEW ext, NEW done, NEW ret, NEW tag,
         Step(f, pair, ext, done, ret, tag)
  PROVE  Pends'
  <1>1. /\ pair \in Pairs /\ MayDecode(pair, f) /\ f \in FlushInputs /\ ret \in ReturnInputs
        /\ PendStep(f, pair, ret)
    BY DEF Step, Clock
  <1>2. ASSUME NEW r \in Regs, pend'[r].tags # {}
        PROVE  /\ ~pend'[r].read
               /\ \E n \in Index : /\ cam'[n].valid /\ cam'[n].wb /\ cam'[n].rd = r
                                   /\ pend'[r].tags = {cam'[n].tag}
    <2>1. CASE \E s \in Last(f, r) : wb[s].nb
      <3>1. PICK s \in Last(f, r) : wb[s].nb
        BY <2>1
      <3>2. /\ pend'[r].tags = {wb[s].tag}
            /\ pend'[r].read <=> wb[s].read \/ TakenBy(pair, <<5, s>>)
        BY <1>1, <3>1, PendMoves
      <3>3. PICK n \in Index : /\ cam[n].valid /\ cam[n].rd = r
                               /\ cam'[n].valid /\ cam'[n].wb /\ cam'[n].rd = r
                               /\ cam'[n].tag = wb[s].tag
        BY <3>1, EntryLands
      <3>4. s \in Slot /\ wb[s].rd = r
        BY DEF Last
      <3>5. ~wb[s].read
        BY <3>1, <3>4 DEF Readers
      <3>6. ASSUME TakenBy(pair, <<5, s>>) PROVE FALSE
        <4>1. PICK q \in Slot : /\ pair[q].rs # 0 /\ pair[q].rs = stages[5][s].rd
                                /\ ~nonblock_load_stall(pair[q], f)
          BY <1>1, <3>4, <3>6, TakenIs
        <4> QED
          BY <3>3, <3>4, <4>1, StagesAre DEF nonblock_load_stall
      <3> QED
        BY <3>2, <3>3, <3>5, <3>6
    <2>2. CASE \A s \in Last(f, r) : ~wb[s].nb
      <3>1. Last(f, r) = {} /\ ~(pend[r].tags \subseteq ret.tag)
        BY <1>1, <1>2, <2>2, PendMoves DEF Ready
      <3>2. /\ pend'[r].tags = pend[r].tags
            /\ pend'[r].read <=> pend[r].read \/ Reads(pair, r)
        BY <1>1, <3>1, PendMoves
      <3>3. PICK n \in Index : /\ cam[n].valid /\ cam[n].wb /\ cam[n].rd = r
                               /\ pend[r].tags = {cam[n].tag}
        BY <1>2, <3>2 DEF Pends
      <3>4. cam[n].tag \notin nb5 /\ cam[n].tag \notin ret.tag
        BY <3>1, <3>3 DEF Cams, Owners
      <3>5. CamStays(f, ret, n)
        BY <3>1, <3>3, <3>4, LastIs DEF CamStays
      <3>6. Old(n, f, ret)
        BY <3>5, CamMoves
      <3>7. ASSUME Reads(pair, r) PROVE FALSE
        <4>1. PICK q \in Slot : pair[q].rs = r
          BY <3>7 DEF Reads
        <4>2. r # 0
          BY Constants
        <4>3. pair # NoPair /\ pair[q].kind # "none"
          BY <1>1, <4>1, <4>2, PairIs, NoInstrIs DEF NoPair, Slot
        <4>4. ~nonblock_load_stall(pair[q], f)
          BY <1>1, <4>3 DEF MayDecode
        <4> QED
          BY <3>3, <4>1, <4>2, <4>4 DEF nonblock_load_stall
      <3>8. ~pend[r].read
        BY <1>2, <3>2 DEF Pends
      <3> QED
        BY <3>2, <3>3, <3>6, <3>7, <3>8 DEF Old
    <2> QED
      BY <2>1, <2>2
  <1>3. ASSUME NEW n \in Index, cam'[n].valid, cam'[n].wb, cam'[n].rd \in Regs
        PROVE  pend'[cam'[n].rd].tags = {cam'[n].tag}
    <2> DEFINE r == cam[n].rd
    <2>1. Old(n, f, ret)
      BY <1>3, CamMoves DEF New
    <2>2. r \in Regs /\ cam'[n].rd = r /\ cam'[n].tag = cam[n].tag
      BY <1>3, <2>1 DEF Old
    <2>3. /\ cam[n].valid /\ cam[n].tag \notin ret.tag
          /\ ~(cam_inv_reset(f) /\ cam[n].tag \in nb5)
          /\ ~(cam[n].wb /\ Writes(f, r))
      BY <2>1 DEF Old, CamStays
    <2>4. CASE cam[n].wb
      <3>1. Last(f, r) = {}
        BY <2>2, <2>3, <2>4, LastIs
      <3>2. pend[r].tags = {cam[n].tag}
        BY <2>2, <2>3, <2>4 DEF Pends
      <3>3. ~(pend[r].tags \subseteq ret.tag)
        BY <2>3, <3>2
      <3>4. pend'[r].tags = pend[r].tags
        BY <1>1, <2>2, <3>1, <3>3, PendMoves
      <3> QED
        BY <2>2, <3>2, <3>4
    <2>5. CASE cam[n].tag \in nb5
      <3>1. ~cam_inv_reset(f)
        BY <2>3, <2>5
      <3>2. PICK s \in Slot : wb[s].kind \in Loads /\ ~kill_writeb_wb(f, s)
        BY <2>5, <3>1 DEF cam_inv_reset, lsu_nonblock_load_inv_dc5, lsu_commit_dc5, LoadSlot
      <3>3. HasLoad(wb)
        BY <3>2, HasLoadIs
      <3>4. PICK q \in Slot : wb[q].nb
        BY <2>5, <3>3 DEF Owners, Quiet
      <3>5. wb[q].kind \in Loads
        BY <3>4, SlotsAre DEF Pipe, Instr, Loads
      <3>6. q = s
        BY <3>2, <3>5 DEF Pipe, Shape, Slot
      <3>7. PICK m \in Index : Holds(m, wb[s])
        BY <3>4, <3>6 DEF Cams
      <3>8. cam[n].tag = wb[s].tag
        BY <2>5, <3>4, <3>6 DEF Owners
      <3>9. wb[s].rd = r
        BY <2>3, <3>7, <3>8 DEF Holds, Cams
      <3>10. s = "i0" => wb.i1.rd # r \/ kill_writeb_wb(f, "i1")
        <4>1. ~cam_reset_same_dest_wb(f)
          BY <3>1 DEF cam_inv_reset
        <4>2. r # 0
          BY <2>2, Constants
        <4> QED
          BY <2>5, <3>2, <3>9, <4>1, <4>2 DEF cam_reset_same_dest_wb, SameDest, nonblock_load_valid_wb
      <3>11. s \in Last(f, r)
        BY <3>2, <3>9, <3>10 DEF Last
      <3>12. pend'[r].tags = {wb[s].tag}
        BY <1>1, <2>2, <3>4, <3>6, <3>11, PendMoves
      <3> QED
        BY <2>2, <3>8, <3>12
    <2> QED
      BY <1>3, <2>1, <2>4, <2>5 DEF Old
  <1> QED
    BY <1>2, <1>3 DEF Pends

LEMMA TypesStay ==
  ASSUME Types, Pipe, Readers, Owners, Room,
         NEW f, NEW pair, NEW ext, NEW done, NEW ret, NEW tag,
         Step(f, pair, ext, done, ret, tag)
  PROVE  Types'
  <1>1. /\ LsuStep(f, pair, ext, done, tag) /\ DependStep(f, pair) /\ PendStep(f, pair, ret)
        /\ ext \in BOOLEAN /\ done \in BOOLEAN
    BY DEF Step, Clock
  <1>2. busreq' \in BOOLEAN
    BY <1>1, Zenon DEF LsuStep, HasLoad
  <1>3. nbfreeze' \in BOOLEAN
    <2>1. nbfreeze \in BOOLEAN
      BY DEF Types
    <2> QED
      BY <1>1, <2>1 DEF LsuStep
  <1>4. ld_freeze' \in BOOLEAN /\ flush_e3' \in FlushRegister
    <2>1. f \in FlushRegister \cup {"lower", "kill_i1", "kill_i0"}
      BY DEF Step, Types, FlushInputs, Mispredicts, FlushRegister
    <2>2. freeze(f) => f \notin {"lower", "kill_i1", "kill_i0"}
      BY DEF freeze, flush_lower_wb
    <2> QED
      BY <1>1, <2>1, <2>2 DEF LsuStep, FlushRegisterNext, FlushRegister
  <1>5. depE1' \in BOOLEAN /\ sameE1' \in BOOLEAN /\ sameE2' \in BOOLEAN
    BY <1>1 DEF DependStep, depend, Types, depend_load_e1_d, depend_load_same_cycle_d
  <1>6. nb4' \in SUBSET Tag /\ nb5' \in SUBSET Tag /\ busy' \in SUBSET Tag
    BY OwnersStay DEF FreeTags, Types
  <1>7. cam' \in [Index -> CamType]
    BY CamMoves
  <1>8. pend' \in [Regs -> [tags : SUBSET Tag, read : BOOLEAN]]
    <2> DEFINE T == [tags : SUBSET Tag, read : BOOLEAN]
    <2>1. pend' = [r \in Regs |-> pend'[r]]
      BY <1>1 DEF PendStep
    <2>2. ASSUME NEW r \in Regs
          PROVE  pend'[r] \in T
      <3>1. pend'[r] = IF \E s \in Last(f, r) : wb[s].nb
                       THEN [tags |-> {wb[s].tag : s \in Last(f, r)},
                             read |-> \E s \in Last(f, r) : wb[s].read \/ TakenBy(pair, <<5, s>>)]
                       ELSE IF Last(f, r) # {} \/ pend[r].tags \subseteq ret.tag THEN Ready
                       ELSE [pend[r] EXCEPT !.read = @ \/ Reads(pair, r)]
        BY <1>1 DEF PendStep, Last, Reads
      <3>2. CASE \E s \in Last(f, r) : wb[s].nb
        <4>1. PICK s \in Last(f, r) : wb[s].nb
          BY <3>2
        <4>2. {wb[t].tag : t \in Last(f, r)} = nb5
          BY <4>1, LastIs DEF Owners, Last
        <4>3. {wb[t].tag : t \in Last(f, r)} \in SUBSET Tag
          BY <4>2 DEF Types
        <4> QED
          BY <3>1, <3>2, <4>3
      <3>3. CASE ~(\E s \in Last(f, r) : wb[s].nb) /\ (Last(f, r) # {} \/ pend[r].tags \subseteq ret.tag)
        BY <3>1, <3>3 DEF Ready
      <3>4. CASE ~(\E s \in Last(f, r) : wb[s].nb) /\ ~(Last(f, r) # {} \/ pend[r].tags \subseteq ret.tag)
        <4> DEFINE p == pend[r]
                   c == (p.read \/ Reads(pair, r))
                   y == [p EXCEPT !.read = c]
        <4>1. p \in T /\ c \in BOOLEAN
          BY DEF Types
        <4>2. y \in T
          <5> HIDE DEF c, p
          <5> QED  BY <4>1
        <4>3. pend'[r] = y
          BY <3>1, <3>4
        <4> QED
          BY <4>2, <4>3
      <3> QED
        BY <3>2, <3>3, <3>4
    <2> HIDE DEF T
    <2> QED
      BY <2>1, <2>2 DEF T
  <1> QED
    BY <1>2, <1>3, <1>4, <1>5, <1>6, <1>7, <1>8 DEF Types

-----------------------------------------------------------------------------
LEMMA NonblockInit == Init => NonblockInv
  <1> SUFFICES ASSUME Init PROVE NonblockInv
    OBVIOUS
  <1>1. \A s \in Slot : NoPair[s] = NoInstr
    BY DEF NoPair, Slot
  <1>2. NoPair.i0 = NoInstr /\ NoPair.i1 = NoInstr
    BY DEF NoPair
  <1>3. Types
    BY DEF Init, Types, CamType, NoEntry, Ready, FlushRegister
  <1>4. Pipe
    BY <1>2, NoInstrIs DEF Init, Pipe, Early, Shape
  <1>5. Owners
    BY <1>1, NoInstrIs DEF Init, Owners
  <1>6. ~HasLoad(NoPair)
    BY <1>1, NoInstrIs, HasLoadIs
  <1>7. One(NoPair) = 0
    BY <1>6 DEF One
  <1>8. Room
    BY <1>7, FS_EmptySet, Constants DEF Init, Room
  <1>9. Cams
    BY <1>1, NoInstrIs DEF Init, Cams, NoEntry
  <1>10. Pends
    BY DEF Init, Pends, NoEntry, Ready
  <1>11. Readers
    BY <1>1, NoInstrIs DEF Init, Readers
  <1> QED
    BY <1>3, <1>4, <1>5, <1>8, <1>9, <1>10, <1>11 DEF NonblockInv

LEMMA NonblockStep == NonblockInv /\ [Next]_vars => NonblockInv'
  <1> SUFFICES ASSUME NonblockInv, [Next]_vars PROVE NonblockInv'
    OBVIOUS
  <1>1. CASE Next
    <2>1. PICK f \in FlushInputs, ext \in External, done \in DoneInputs, ret \in ReturnInputs :
              \E pair \in {p \in Pairs : MayDecode(p, f)}, tag \in TagInputs(f) :
                  Clock(f, pair, ext, done, ret, tag)
      BY <1>1 DEF Next
    <2>2. PICK pair \in {p \in Pairs : MayDecode(p, f)}, tag \in TagInputs(f) :
              Clock(f, pair, ext, done, ret, tag)
      BY <2>1
    <2>3. Step(f, pair, ext, done, ret, tag)
      BY <2>2, NonblockAssumption DEF Step, DoneInputs
    <2> QED
      BY <2>3, TypesStay, PipeStays, OwnersStay, RoomStays, CamsStay, PendsStay, ReadersStay
         DEF NonblockInv
  <1>2. CASE UNCHANGED vars
    BY <1>2 DEF vars, stages, depend, NonblockInv, Types, Pipe, Owners, Quiet, Room, Cams, Holds,
                Pends, Readers
  <1> QED
    BY <1>1, <1>2

(* The inductive invariant holds in every state, at any number of tags.    *)
THEOREM NonblockSound == Spec => []NonblockInv
  BY NonblockInit, NonblockStep, PTL DEF Spec

-----------------------------------------------------------------------------
(* What it says *)

LEMMA TagsAndCamHolds ==
  ASSUME NonblockInv
  PROVE  TagsAndCam
  <1> USE DEF NonblockInv
  <1>1. ASSUME NEW n \in 1 .. 5, NEW s \in Slot
        PROVE  /\ stages[n][s].kind \in Loads \cup {"none", "op"} /\ stages[n][s].rd \in Regs \cup {0}
               /\ stages[n][s].nb => n \in {4, 5} /\ stages[n][s].tag \in nb4 \cup nb5
    <2>1. Instr(stages[n][s]) /\ (stages[n][s].nb => n \in {4, 5})
      BY StagesAre DEF Pipe, Early, Shape, Slot
    <2>2. stages[n][s].nb => stages[n][s].tag \in nb4 \cup nb5
      BY <2>1, StagesAre DEF Owners
    <2> QED
      BY <2>1, <2>2 DEF Instr, InstrType
  <1>2. Cardinality(nb4) + Cardinality(nb5) + Cardinality(busy) = Cardinality(nb4 \cup nb5 \cup busy)
    <2>1. IsFiniteSet(nb4) /\ IsFiniteSet(nb5) /\ IsFiniteSet(busy)
      BY TagsFinite DEF Types
    <2>2. /\ IsFiniteSet(nb4 \cup nb5)
          /\ Cardinality(nb4 \cup nb5) = Cardinality(nb4) + Cardinality(nb5)
      BY <2>1, Disjoint DEF Owners
    <2>3. (nb4 \cup nb5) \cap busy = {}
      BY DEF Owners
    <2>4. Cardinality((nb4 \cup nb5) \cup busy) = Cardinality(nb4 \cup nb5) + Cardinality(busy)
      BY <2>1, <2>2, <2>3, Disjoint
    <2> QED
      BY <2>2, <2>4
  <1>3. nb4 \subseteq Tag /\ nb5 \subseteq Tag /\ busy \subseteq Tag
    BY DEF Types
  <1>4. ASSUME NEW n \in Index, cam[n].valid
        PROVE  cam[n].rd \in Regs \cup {0} /\ cam[n].tag \in Tag
    <2>1. cam[n] \in CamType
      BY DEF Types
    <2>2. cam[n].tag \in nb4 \cup nb5 \cup busy
      BY <1>4 DEF Cams
    <2> QED
      BY <1>3, <2>1, <2>2 DEF CamType
  <1>5. NonblockTypeOK
    BY <1>1, <1>2, <1>3, <1>4 DEF NonblockTypeOK, Types
  <1>6. \A f \in FlushInputs : lsu_nonblock_load_valid_dc3(f) =>
            FreeTags # {} /\ \E n \in Index : ~cam[n].valid
    BY TagLeft, EntryLeft
  <1>7. ASSUME NEW r \in Regs, pend[r].tags # {}
        PROVE  \E n \in Index : cam[n].valid /\ cam[n].wb /\ cam[n].tag \in pend[r].tags /\ cam[n].rd = r
    BY <1>7 DEF Pends
  <1>8. CamIsCurrent
    BY <1>6, <1>7 DEF CamIsCurrent, Cams
  <1> QED
    BY <1>5, <1>8 DEF TagsAndCam

LEMMA NoReaderHolds ==
  ASSUME NonblockInv
  PROVE  NoReaderOfPendingLoad
  BY SlotsAre DEF NonblockInv, NoReaderOfPendingLoad, Readers, Pends, Pipe, Instr

LEMMA ReturnsHold ==
  ASSUME NonblockInv
  PROVE  ReturnsAreExact
  <1> SUFFICES ASSUME NEW t \in busy, NEW f \in FlushInputs, NEW r \in Regs
               PROVE  dec_nonblock_load_wen(f, t) /\ r \in dec_nonblock_load_waddr(t)
                          <=> pend[r].tags = {t} /\ ~Writes(f, r)
    BY DEF ReturnsAreExact
  <1>1. ASSUME dec_nonblock_load_wen(f, t), r \in dec_nonblock_load_waddr(t)
        PROVE  pend[r].tags = {t} /\ ~Writes(f, r)
    <2>1. PICK n \in Index : cam[n].valid /\ cam[n].tag = t /\ cam[n].rd = r
      BY <1>1 DEF dec_nonblock_load_waddr, nonblock_load_write
    <2>2. cam[n].wb
      BY <2>1 DEF NonblockInv, Cams
    <2>3. ~Writes(f, r)
      BY <1>1 DEF dec_nonblock_load_wen, nonblock_load_cancel
    <2> QED
      BY <2>1, <2>2, <2>3 DEF NonblockInv, Pends
  <1>2. ASSUME pend[r].tags = {t}, ~Writes(f, r)
        PROVE  dec_nonblock_load_wen(f, t) /\ r \in dec_nonblock_load_waddr(t)
    <2>1. PICK n \in Index : cam[n].valid /\ cam[n].rd = r /\ pend[r].tags = {cam[n].tag}
      BY <1>2 DEF NonblockInv, Pends
    <2>2. cam[n].tag = t
      BY <1>2, <2>1
    <2>3. nonblock_load_write(t) = {n}
      <3>1. n \in nonblock_load_write(t)
        BY <2>1, <2>2 DEF nonblock_load_write
      <3>2. \A m \in nonblock_load_write(t) : m = n
        BY <2>1, <2>2 DEF nonblock_load_write, NonblockInv, Cams
      <3> QED
        BY <3>1, <3>2
    <2>4. dec_nonblock_load_waddr(t) = {r}
      BY <2>1, <2>3 DEF dec_nonblock_load_waddr
    <2> QED
      BY <1>2, <2>3, <2>4 DEF dec_nonblock_load_wen, nonblock_load_cancel
  <1> QED
    BY <1>1, <1>2

LEMMA PortsExclude == OneWriterPerRegister
  <1>1. ASSUME NEW f \in FlushInputs, dec_wen_wb(f, "i0"), dec_wen_wb(f, "i1"), wb.i0.rd = wb.i1.rd
        PROVE  FALSE
    BY <1>1 DEF dec_wen_wb, wen_wb, SameDest
  <1>2. ASSUME NEW f \in FlushInputs, NEW t \in busy, NEW s \in Slot,
               dec_wen_wb(f, s), dec_nonblock_load_wen(f, t)
        PROVE  wb[s].rd \notin dec_nonblock_load_waddr(t)
    <2>1. Writes(f, wb[s].rd)
      BY <1>2 DEF dec_wen_wb, Writes
    <2> QED
      BY <1>2, <2>1 DEF dec_nonblock_load_wen, nonblock_load_cancel
  <1> QED
    BY <1>1, <1>2 DEF OneWriterPerRegister

(* At any number of tags, a tag has one owner in the pipe and the buffer,  *)
(* an entry of the cam belongs to a load that has not returned, and a load *)
(* that leaves dc3 finds a tag and an entry (dec_decode_ctl.sv:1170-1250). *)
THEOREM CamIsSound == Spec => []TagsAndCam
  BY NonblockSound, TagsAndCamHolds, PTL

(* No instruction ever takes its source from a load whose data has not     *)
(* come, for any instructions: the stall at decode, the cam and the load   *)
(* that blocks the pipe leave no clock between them                        *)
(* (dec_decode_ctl.sv:1272-1337).                                          *)
THEOREM PendingLoadIsNotRead == Spec => []NoReaderOfPendingLoad
  BY NonblockSound, NoReaderHolds, PTL

(* A load that returns writes a register exactly when it is the last       *)
(* instruction in program order that wrote it                              *)
(* (dec_decode_ctl.sv:1254-1278).                                          *)
THEOREM LoadsReturnExactly == Spec => []ReturnsAreExact
  BY NonblockSound, ReturnsHold, PTL

(* No port of the register file writes a register with another: the two    *)
(* slots at writeback and the return of loads                              *)
(* (dec_decode_ctl.sv:2778-2788).                                          *)
THEOREM PortsAreExclusive == Spec => []OneWriterPerRegister
  BY PortsExclude, PTL
=============================================================================
