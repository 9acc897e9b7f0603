--------------------------- MODULE DccmPipeProofs ---------------------------
(***************************************************************************)
(* The pipe with addresses and data implements the control model, so what  *)
(* StoreBufferProofs shows of the control holds of it for every memory,    *)
(* every set of operations and every depth; and it implements the coherent *)
(* memory.  One lemma per part of DataInv says that a clock keeps it; what *)
(* they share: an entry that leaves at the head goes unnoticed (Advance,   *)
(* Carried), entries written on top are seen first (Extend, WrittenSeen),  *)
(* and a flush takes only what lies on top of everything that commits.     *)
(***************************************************************************)
EXTENDS DccmOrder, StoreBufferProofs, WellFoundedInduction

USE DepthAssumption

(* The bank conflict that the addresses give is one that StoreBuffer       *)
(* allows.                                                                 *)
LEMMA ConflictAllowed == BankConflict \in Conflicts
<1>1. CASE BankConflict
  BY <1>1 DEF BankConflict, Conflicts, lsu_dccm_rden, InDccm
<1>2. CASE ~BankConflict
  <2>1. BankConflict = FALSE
    BY <1>2 DEF BankConflict
  <2> QED  BY <2>1 DEF Conflicts
<1> QED  BY <1>1, <1>2

(* So is the set of halves in error that the memory gives. *)
LEMMA EccAllowed ==
    ASSUME NEW err, EccOf(dc3, err) # {}
    PROVE  EccOf(dc3, err) \in EccInputs
<1>1. EccOf(dc3, err) \subseteq {"lo", "hi"} /\ ("hi" \in EccOf(dc3, err) => dc3.dual)
  BY DEF EccOf
<1>2. CASE dc3.dual
  BY <1>1, <1>2 DEF EccInputs
<1>3. CASE ~dc3.dual
  <2>1. EccOf(dc3, err) = {"lo"}
    BY <1>1, <1>3
  <2> QED  BY <1>3, <2>1 DEF EccInputs
<1> QED  BY <1>2, <1>3

(* Every step of the pipe with data is a step of the control model. *)
LEMMA StepRefines == DccmNext => Next
<1> SUFFICES ASSUME NEW f \in Flushes, NEW bus \in BusInputs, NEW flip \in Flips,
                    NEW op \in {o \in Pkt : MayIssue(o, f)},
                    \/ StoreData(f, op, bus, flip)
                    \/ LoadWithError(f, op, bus, flip)
                    \/ NoEntryWritten(f, op, bus, flip)
             PROVE  Next
  BY DEF DccmNext, DccmCycle, Pkt
<1>1. Dc3Step(f, BankConflict, op, bus, FALSE)
  <2>1. CASE StoreData(f, op, bus, flip)
    BY <2>1 DEF StoreData, Dc3Step
  <2>2. CASE LoadWithError(f, op, bus, flip)
    BY <2>2, EccAllowed DEF LoadWithError, Dc3Step
  <2>3. CASE NoEntryWritten(f, op, bus, flip)
    BY <2>3 DEF NoEntryWritten, Dc3Step
  <2> QED  BY <2>1, <2>2, <2>3
<1>2. FALSE \in StallInputs
  BY DEF StallInputs
<1> QED  BY <1>1, <1>2, ConflictAllowed DEF Next

(* A behaviour of the pipe with data is one of the control alone, since    *)
(* its actions are built from those of StoreBuffer, with the conflict and  *)
(* the ECC outcome among the inputs taken there: what is proved of the     *)
(* control carries over.                                                   *)
LEMMA ControlCarriesOver == DccmSpec => Spec
<1>1. DccmInit => Init
  BY DEF DccmInit
<1>2. [DccmNext]_<<vars, dataVars>> => [Next]_vars
  BY StepRefines
<1> QED  BY <1>1, <1>2, PTL DEF DccmSpec, Spec

(* Hence its store buffer never overflows, skips or loses an entry.        *)
THEOREM DccmBufferSound == DccmSpec => []BufferInv
  BY ControlCarriesOver, BufferSound, PTL

-----------------------------------------------------------------------------
(* The ring as an order. *)

LEMMA DistanceIs ==
    ASSUME NEW r \in Ptr, NEW i \in Ptr
    PROVE  /\ Distance(r, i) \in 0 .. DEPTH - 1
           /\ Distance(r, i) = 0 <=> i = r
           /\ i # r => Distance(Plus1(r), i) = Distance(r, i) - 1
           /\ \A j \in Ptr : Distance(r, i) = Distance(r, j) => i = j
<1>1. r \in Int /\ i \in Int /\ 0 <= r /\ 0 <= i /\ r < DEPTH /\ i < DEPTH
  BY DEF Ptr
<1>2. \A j \in Ptr : Distance(r, i) = Distance(r, j) => i = j
  BY <1>1 DEF Ptr, Distance
<1> QED  BY <1>1, <1>2 DEF Distance, Plus1

(* A set of entries that is not empty has a youngest one. *)
LEMMA TopIs ==
    ASSUME NEW r \in Ptr, NEW S \in SUBSET Ptr, S # {}
    PROVE  Top(r, S) \in S /\ \A j \in S : Distance(r, j) <= Distance(r, Top(r, S))
<1> DEFINE D == {DEPTH - Distance(r, i) : i \in S}
<1>1. \A i \in S : Distance(r, i) \in 0 .. DEPTH - 1
  BY DistanceIs
<1>2. D \subseteq Nat /\ D # {}
  BY <1>1
<1>3. IsWellFoundedOn(OpToRel(<, Nat), Nat)
  BY NatLessThanWellFounded
<1> HIDE DEF D
<1>4. PICK n \in D : \A m \in D : <<m, n>> \notin OpToRel(<, Nat)
  BY <1>2, <1>3, WFMin
<1>5. n \in Nat /\ \A m \in D : m \in Nat /\ n <= m
  <2>1. \A m \in D : m \in Nat /\ ~(m < n)
    BY <1>2, <1>4 DEF OpToRel
  <2> QED  BY <1>2, <2>1
<1>6. PICK i \in S : n = DEPTH - Distance(r, i)
  BY <1>4 DEF D
<1>7. \A j \in S : DEPTH - Distance(r, j) \in D
  BY DEF D
<1>8. \A j \in S : Distance(r, j) <= Distance(r, i)
  BY <1>1, <1>5, <1>6, <1>7
<1> QED  BY <1>8 DEF Top

(* Popping the head does not change the order of the others.               *)
LEMMA OrderKept ==
    ASSUME NEW r \in Ptr, NEW R, R \subseteq {r}, NEW i \in Ptr \ R, NEW j \in Ptr \ R,
           NEW r2, r2 = IF R = {} THEN r ELSE Plus1(r)
    PROVE  /\ r2 \in Ptr
           /\ Before(r2, i, j) <=> Before(r, i, j)
           /\ Distance(r2, i) <= Distance(r2, j) <=> Distance(r, i) <= Distance(r, j)
<1>1. CASE R = {}
  BY <1>1 DEF Before
<1>2. CASE R # {}
  <2>1. i # r /\ j # r /\ r2 = Plus1(r)
    BY <1>2
  <2>2. /\ Distance(r2, i) = Distance(r, i) - 1 /\ Distance(r2, j) = Distance(r, j) - 1
        /\ Distance(r, i) \in 0 .. DEPTH - 1 /\ Distance(r, j) \in 0 .. DEPTH - 1
    BY <2>1, DistanceIs
  <2>3. r2 \in Ptr
    BY <2>1 DEF Plus1, Ptr
  <2> QED  BY <2>2, <2>3 DEF Before
<1> QED  BY <1>1, <1>2

-----------------------------------------------------------------------------
(* What a reader of some of the entries sees.                              *)
LEMMA ViewTop ==
    ASSUME NEW r \in Ptr, NEW S \in SUBSET Ptr, NEW e, NEW m, NEW b,
           NEW i \in Hits(S, e, b),
           \A j \in Hits(S, e, b) : Distance(r, j) <= Distance(r, i)
    PROVE  View(S, e, m, r, b) = e[i].data[b[2]]
<1> DEFINE H == Hits(S, e, b)
<1>1. H \in SUBSET Ptr /\ i \in H /\ H # {}
  BY DEF Hits
<1> HIDE DEF H
<1>2. Top(r, H) \in H /\ \A j \in H : Distance(r, j) <= Distance(r, Top(r, H))
  BY <1>1, TopIs
<1>3. /\ Distance(r, i) <= Distance(r, Top(r, H)) /\ Distance(r, Top(r, H)) <= Distance(r, i)
      /\ Distance(r, i) \in Int /\ Distance(r, Top(r, H)) \in Int
      /\ i \in Ptr /\ Top(r, H) \in Ptr
  <2>1. Distance(r, Top(r, H)) <= Distance(r, i)
    BY <1>2 DEF H
  <2>2. Distance(r, i) \in 0 .. DEPTH - 1 /\ Distance(r, Top(r, H)) \in 0 .. DEPTH - 1
    BY <1>1, <1>2, DistanceIs
  <2> QED  BY <1>1, <1>2, <2>1, <2>2
<1>4. Top(r, H) = i
  <2>1. Distance(r, i) = Distance(r, Top(r, H))
    BY <1>3
  <2> QED  BY <1>3, <2>1, DistanceIs
<1> QED  BY <1>1, <1>4 DEF View, H

LEMMA ViewCases ==
    ASSUME NEW r \in Ptr, NEW S \in SUBSET Ptr, NEW e, NEW m, NEW b
    PROVE  \/ Hits(S, e, b) = {} /\ View(S, e, m, r, b) = m[b]
           \/ \E i \in Hits(S, e, b) :
                 /\ \A j \in Hits(S, e, b) : Distance(r, j) <= Distance(r, i)
                 /\ View(S, e, m, r, b) = e[i].data[b[2]]
<1>1. Hits(S, e, b) \in SUBSET Ptr
  BY DEF Hits
<1>2. CASE Hits(S, e, b) = {}
  BY <1>2 DEF View
<1>3. CASE Hits(S, e, b) # {}
  BY <1>1, <1>3, TopIs DEF View
<1> QED  BY <1>2, <1>3

Holds(W, e, b, v) == \E i \in Hits(W, e, b) : v = e[i].data[b[2]]

(* Younger entries on top: where one of them holds the byte it is seen,    *)
(* elsewhere nothing changes.                                              *)
LEMMA Extend ==
    ASSUME NEW r \in Ptr, NEW S \in SUBSET Ptr, NEW W \in SUBSET Ptr,
           \A i \in S, j \in W : Before(r, i, j), NEW e, NEW m, NEW b
    PROVE  /\ Hits(W, e, b) = {} => View(S \cup W, e, m, r, b) = View(S, e, m, r, b)
           /\ Hits(W, e, b) # {} => Holds(W, e, b, View(S \cup W, e, m, r, b))
<1>1. Hits(S \cup W, e, b) = Hits(S, e, b) \cup Hits(W, e, b)
  BY DEF Hits
<1>2. ASSUME Hits(W, e, b) = {}
      PROVE  View(S \cup W, e, m, r, b) = View(S, e, m, r, b)
  <2>1. Hits(S \cup W, e, b) = Hits(S, e, b)
    BY <1>1, <1>2
  <2> QED  BY <2>1 DEF View
<1>3. ASSUME Hits(W, e, b) # {}
      PROVE  Holds(W, e, b, View(S \cup W, e, m, r, b))
  <2> DEFINE H == Hits(W, e, b)
  <2>1. H \in SUBSET Ptr /\ H # {} /\ Hits(S, e, b) \subseteq S /\ H \subseteq W
    BY <1>3 DEF Hits
  <2>2. PICK i \in H : \A j \in H : Distance(r, j) <= Distance(r, i)
    <3> HIDE DEF H
    <3> QED  BY <2>1, TopIs
  <2>3. \A j \in Hits(S, e, b) : Distance(r, j) <= Distance(r, i)
    <3> SUFFICES ASSUME NEW j \in Hits(S, e, b) PROVE Distance(r, j) <= Distance(r, i)
      OBVIOUS
    <3>1. Before(r, j, i) /\ i \in Ptr /\ j \in Ptr
      BY <2>1, <2>2
    <3>2. Distance(r, i) \in 0 .. DEPTH - 1 /\ Distance(r, j) \in 0 .. DEPTH - 1
      BY <3>1, DistanceIs
    <3> QED  BY <3>1, <3>2 DEF Before
  <2>4. i \in Hits(S \cup W, e, b)
    BY <1>1, <2>2
  <2>5. \A j \in Hits(S \cup W, e, b) : Distance(r, j) <= Distance(r, i)
    BY <1>1, <2>2, <2>3
  <2> DEFINE T == S \cup W
  <2>6. T \in SUBSET Ptr
    OBVIOUS
  <2> HIDE DEF T
  <2>7. View(T, e, m, r, b) = e[i].data[b[2]]
    <3>1. i \in Hits(T, e, b) /\ \A j \in Hits(T, e, b) : Distance(r, j) <= Distance(r, i)
      BY <2>4, <2>5 DEF T
    <3> QED  BY <2>6, <3>1, ViewTop
  <2> QED  BY <2>2, <2>7 DEF T, Holds
<1> QED  BY <1>2, <1>3

(* One clock at the head.  "R" is what leaves: nothing, an entry that is   *)
(* not in "S" (flushed), or the head entry as it is written to the memory  *)
(* with all its bytes, those it does not hold being what the memory has.   *)
Moved(S, R, r, r2, e, e2, m, m2) ==
    /\ R \subseteq {r} /\ r2 = IF R = {} THEN r ELSE Plus1(r)
    /\ \A i \in S \ R : e2[i] = e[i]
    /\ \/ R \cap S = {} /\ m2 = m
       \/ /\ R = {r} /\ r \in S
          /\ \A b \in Bytes : m2[b] = IF b[1] = e[r].word THEN e[r].data[b[2]] ELSE m[b]
          /\ \A c \in Byte : c \notin e[r].byteen => e[r].data[c] = m[<<e[r].word, c>>]

(* Whatever leaves, a reader notices nothing. *)
LEMMA Advance ==
    ASSUME NEW r \in Ptr, NEW S \in SUBSET Ptr, NEW R, NEW r2, NEW e, NEW e2, NEW m, NEW m2,
           Moved(S, R, r, r2, e, e2, m, m2), NEW b \in Bytes
    PROVE  View(S \ R, e2, m2, r2, b) = View(S, e, m, r, b)
<1> DEFINE T == S \ R
<1>1. /\ T \in SUBSET Ptr /\ R \subseteq {r} /\ r2 = IF R = {} THEN r ELSE Plus1(r)
      /\ \A i \in T : e2[i] = e[i] /\ i \in Ptr \ R
  BY DEF Moved
<1>2. Hits(T, e2, b) = Hits(S, e, b) \ R
  BY <1>1 DEF Hits
<1>3. \A i, j \in T : Distance(r2, i) <= Distance(r2, j) <=> Distance(r, i) <= Distance(r, j)
  BY <1>1, OrderKept
<1>4. r2 \in Ptr
  BY <1>1 DEF Plus1, Ptr
<1>5. b[1] \in Word /\ b[2] \in Byte /\ b = <<b[1], b[2]>>
  BY DEF Bytes
<1>6. ASSUME NEW i \in Hits(S, e, b), i \notin R,
             \A j \in Hits(S, e, b) : Distance(r, j) <= Distance(r, i)
      PROVE  View(T, e2, m2, r2, b) = e[i].data[b[2]]
  <2>1. i \in Hits(T, e2, b) /\ Hits(T, e2, b) \subseteq T
    BY <1>2, <1>6 DEF Hits
  <2>2. \A j \in Hits(T, e2, b) : Distance(r2, j) <= Distance(r2, i)
    BY <1>2, <1>3, <1>6, <2>1
  <2> HIDE DEF T
  <2>3. View(T, e2, m2, r2, b) = e2[i].data[b[2]]
    BY <1>1, <1>4, <2>1, <2>2, ViewTop
  <2> QED  BY <1>1, <2>1, <2>3
<1>7. CASE R \cap S = {} /\ m2 = m
  <2>1. Hits(T, e2, b) = Hits(S, e, b)
    BY <1>2, <1>7 DEF Hits
  <2>2. CASE Hits(S, e, b) = {}
    BY <1>7, <2>1, <2>2 DEF View
  <2>3. CASE Hits(S, e, b) # {}
    <3>1. PICK i \in Hits(S, e, b) :
             /\ \A j \in Hits(S, e, b) : Distance(r, j) <= Distance(r, i)
             /\ View(S, e, m, r, b) = e[i].data[b[2]]
      BY <2>3, ViewCases
    <3>2. i \notin R
      BY <1>7, <3>1 DEF Hits
    <3> QED  BY <1>6, <3>1, <3>2
  <2> QED  BY <2>2, <2>3
<1>8. CASE /\ R = {r} /\ r \in S
           /\ \A x \in Bytes : m2[x] = IF x[1] = e[r].word THEN e[r].data[x[2]] ELSE m[x]
           /\ \A c \in Byte : c \notin e[r].byteen => e[r].data[c] = m[<<e[r].word, c>>]
  <2>1. CASE Hits(S, e, b) \ R # {}
    <3>1. PICK i \in Hits(S, e, b) :
             /\ \A j \in Hits(S, e, b) : Distance(r, j) <= Distance(r, i)
             /\ View(S, e, m, r, b) = e[i].data[b[2]]
      BY <2>1, ViewCases
    <3>2. i \notin R
      <4>1. PICK j \in Hits(S, e, b) : j # r
        BY <1>8, <2>1
      <4>2. j \in Ptr
        BY <4>1 DEF Hits
      <4>3. Distance(r, j) \in 0 .. DEPTH - 1 /\ Distance(r, j) # 0 /\ Distance(r, r) = 0
        BY <4>1, <4>2, DistanceIs
      <4>4. Distance(r, j) <= Distance(r, i)
        BY <3>1, <4>1
      <4>5. i # r
        BY <4>3, <4>4
      <4> QED  BY <1>8, <4>5
    <3> QED  BY <1>6, <3>1, <3>2
  <2>2. CASE Hits(S, e, b) \ R = {}
    <3>1. View(T, e2, m2, r2, b) = m2[b]
      BY <1>2, <2>2 DEF View
    <3>2. CASE r \in Hits(S, e, b)
      <4>1. Hits(S, e, b) = {r}
        BY <1>8, <2>2, <3>2
      <4>2. View(S, e, m, r, b) = e[r].data[b[2]]
        <5>1. \A j \in Hits(S, e, b) : Distance(r, j) <= Distance(r, r)
          BY <4>1, DistanceIs
        <5> QED  BY <3>2, <5>1, ViewTop
      <4>3. b[1] = e[r].word
        BY <3>2 DEF Hits
      <4> QED  BY <1>8, <3>1, <4>2, <4>3
    <3>3. CASE r \notin Hits(S, e, b)
      <4>1. Hits(S, e, b) = {}
        BY <1>8, <2>2, <3>3
      <4>2. View(S, e, m, r, b) = m[b]
        BY <4>1 DEF View
      <4>3. e[r].word # b[1] \/ b[2] \notin e[r].byteen
        BY <1>8, <3>3 DEF Hits
      <4>4. m2[b] = m[b]
        <5>1. CASE e[r].word # b[1]
          BY <1>8, <5>1
        <5>2. CASE e[r].word = b[1] /\ b[2] \notin e[r].byteen
          <6>1. e[r].data[b[2]] = m[<<e[r].word, b[2]>>]
            BY <1>5, <1>8, <5>2
          <6>2. m2[b] = e[r].data[b[2]]
            BY <1>8, <5>2
          <6> QED  BY <1>5, <5>2, <6>1, <6>2
        <5> QED  BY <4>3, <5>1, <5>2
      <4> QED  BY <3>1, <4>2, <4>4
    <3> QED  BY <3>2, <3>3
  <2> QED  BY <2>1, <2>2
<1> QED  BY <1>7, <1>8 DEF Moved

-----------------------------------------------------------------------------
(* One clock, with what the three kinds of clock have in common. *)
Fresh(reqvld, dual) == IF reqvld THEN Entries(WrPtr, dual) ELSE {}

Requested(f, dual, first) ==
    /\ Dc3Live(f) /\ dc3.kind \in {"load", "store"}
    /\ stbuf_numvld_any + Size(dual) <= DEPTH
    /\ first = LowWord(dc3) \/ first = HighWord(dc3)
    /\ dual => dc3.dual /\ first = LowWord(dc3)
    /\ dc3.kind = "store" => first = LowWord(dc3) /\ dual = dc3.dual

DataCycle(f, op, bus, flip, reqvld, dual, first) ==
    /\ f \in FlushLevel /\ op \in Pkt /\ MayIssue(op, f) /\ bus \in BOOLEAN
    /\ reqvld \in BOOLEAN /\ dual \in BOOLEAN
    /\ Buffer(f, BankConflict, Fresh(reqvld, dual))
    /\ Pipe(f, op, reqvld, dual, bus)
    /\ EntryStep(reqvld, dual, first) /\ MemoryStep(f, BankConflict, flip)
    /\ PipeData(f, reqvld, dual) /\ ResultStep(f)
    /\ reqvld => Requested(f, dual, first)
    /\ store_stbuf_reqvld_dc3(f) => reqvld

LEMMA DccmNextCases ==
    ASSUME BufferInv, DccmNext
    PROVE  \E f, op, bus, flip, reqvld, dual, first :
              DataCycle(f, op, bus, flip, reqvld, dual, first)
<1>a. PICK f \in Flushes, bus \in BusInputs, flip \in Flips :
           \E op \in {o \in Pkt : MayIssue(o, f)} :
              \/ StoreData(f, op, bus, flip)
              \/ LoadWithError(f, op, bus, flip)
              \/ NoEntryWritten(f, op, bus, flip)
  BY Zenon DEF DccmNext, DccmCycle, Pkt
<1>1. PICK op \in {o \in Pkt : MayIssue(o, f)} :
           \/ StoreData(f, op, bus, flip)
           \/ LoadWithError(f, op, bus, flip)
           \/ NoEntryWritten(f, op, bus, flip)
  BY <1>a, Zenon
<1>2. f \in FlushLevel /\ bus \in BOOLEAN /\ op \in Pkt /\ MayIssue(op, f)
  BY <1>1 DEF BufferInv, TypeOK, Flushes, BusInputs, FlushLevel, FlushRegister
<1>3. dc3.dual \in BOOLEAN /\ StoreHasRoom /\ stbuf_numvld_any \in Nat
  BY PktShape, Occupancy DEF BufferInv, TypeOK, stbuf_numvld_any
<1>4. ASSUME NEW dual \in BOOLEAN, NEW first, Requested(f, dual, first),
             Write(f, BankConflict, op, dual, bus, FALSE),
             DataStep(f, BankConflict, flip, first)
      PROVE  DataCycle(f, op, bus, flip, TRUE, dual, first)
  <2>1. Pipe(f, op, TRUE, dual, bus) /\ Buffer(f, BankConflict, Entries(WrPtr, dual))
    BY <1>4 DEF Write
  <2>2. dc4'.reqvld = TRUE /\ dc4'.dual = dual
    BY <2>1 DEF Pipe
  <2>3. /\ EntryStep(TRUE, dual, first) /\ MemoryStep(f, BankConflict, flip)
        /\ PipeData(f, TRUE, dual) /\ ResultStep(f)
    BY <1>4, <2>2 DEF DataStep
  <2> QED  BY <1>2, <1>4, <2>1, <2>3 DEF DataCycle, Fresh
<1>5. ASSUME NEW first, NoWrite(f, BankConflict, op, bus, FALSE),
             ~store_stbuf_reqvld_dc3(f), DataStep(f, BankConflict, flip, first)
      PROVE  DataCycle(f, op, bus, flip, FALSE, FALSE, first)
  <2>1. Pipe(f, op, FALSE, FALSE, bus) /\ Buffer(f, BankConflict, {})
    BY <1>5 DEF NoWrite
  <2>2. dc4'.reqvld = FALSE /\ dc4'.dual = FALSE
    BY <2>1 DEF Pipe
  <2>3. /\ EntryStep(FALSE, FALSE, first) /\ MemoryStep(f, BankConflict, flip)
        /\ PipeData(f, FALSE, FALSE) /\ ResultStep(f)
    BY <1>5, <2>2 DEF DataStep
  <2> QED  BY <1>2, <1>5, <2>1, <2>3 DEF DataCycle, Fresh
<1>6. CASE StoreData(f, op, bus, flip)
  <2>1. /\ store_stbuf_reqvld_dc3(f)
        /\ Write(f, BankConflict, op, dc3.dual, bus, FALSE)
        /\ DataStep(f, BankConflict, flip, LowWord(dc3))
    BY <1>6 DEF StoreData, StoreRequest, DmaStoreRequest
  <2>2. Dc3Live(f) /\ dc3.kind = "store"
    BY <2>1 DEF store_stbuf_reqvld_dc3
  <2>3. stbuf_numvld_any + Size(dc3.dual) <= DEPTH
    BY <1>3, <2>2 DEF StoreHasRoom, Slots, Size, Dc3Live
  <2>4. Requested(f, dc3.dual, LowWord(dc3))
    BY <1>3, <2>2, <2>3 DEF Requested
  <2> QED  BY <1>3, <1>4, <2>1, <2>4
<1>7. CASE LoadWithError(f, op, bus, flip)
  <2> DEFINE ecc == EccOf(dc3, rd3.err)
             first == IF ecc = {"hi"} THEN HighWord(dc3) ELSE LowWord(dc3)
             dual == ecc = {"hi", "lo"}
  <2>1. /\ Dc3Live(f) /\ dc3.kind = "load" /\ ecc # {}
        /\ \/ LoadRepair(f, BankConflict, op, bus, FALSE, ecc)
           \/ RepairRefused(f, BankConflict, op, bus, FALSE, ecc)
        /\ DataStep(f, BankConflict, flip, first)
    BY <1>7 DEF LoadWithError, load_stbuf_reqvld_dc3
  <2>2. ecc \in EccInputs
    BY <2>1, EccAllowed
  <2> HIDE DEF ecc
  <2>3. dual \in BOOLEAN /\ (dual => dc3.dual /\ first = LowWord(dc3))
    <3>1. {"hi", "lo"} # {"lo"} /\ {"hi", "lo"} # {"hi"}
      OBVIOUS
    <3>2. dual => first = LowWord(dc3)
      BY <3>1
    <3>3. ~dc3.dual => ecc = {"lo"}
      BY <2>2 DEF EccInputs
    <3> QED  BY <3>1, <3>2, <3>3
  <2>4. CASE LoadRepair(f, BankConflict, op, bus, FALSE, ecc)
    <3>1. RepairRoom(ecc) /\ Write(f, BankConflict, op, dual, bus, FALSE)
      BY <2>4 DEF LoadRepair
    <3>2. stbuf_numvld_any + Size(dual) <= DEPTH
      BY <1>3, <3>1 DEF RepairRoom, stbuf_twoavl_any, stbuf_oneavl_any, Size
    <3>3. first = LowWord(dc3) \/ first = HighWord(dc3)
      OBVIOUS
    <3> HIDE DEF first, dual
    <3>4. Requested(f, dual, first)
      BY <2>1, <2>3, <3>2, <3>3 DEF Requested
    <3> QED  BY <1>4, <2>1, <2>3, <3>1, <3>4
  <2>5. CASE RepairRefused(f, BankConflict, op, bus, FALSE, ecc)
    <3>1. NoWrite(f, BankConflict, op, bus, FALSE) /\ ~store_stbuf_reqvld_dc3(f)
      BY <2>1, <2>5 DEF RepairRefused, store_stbuf_reqvld_dc3
    <3> HIDE DEF first
    <3> QED  BY <1>5, <2>1, <3>1
  <2> QED  BY <2>1, <2>4, <2>5
<1>8. CASE NoEntryWritten(f, op, bus, flip)
  <2>1. /\ ~store_stbuf_reqvld_dc3(f) /\ NoWrite(f, BankConflict, op, bus, FALSE)
        /\ DataStep(f, BankConflict, flip, 0)
    BY <1>8 DEF NoEntryWritten, NoRequest
  <2> QED  BY <1>5, <2>1
<1> QED  BY <1>1, <1>6, <1>7, <1>8

(* What moves into dc4 and dc5. *)
LEMMA Moves ==
    ASSUME TypeOK, NEW f, NEW op, NEW bus, NEW reqvld, NEW dual,
           Pipe(f, op, reqvld, dual, bus)
    PROVE  /\ Entries5' = Entries4
           /\ Entries4' = IF dc3.dma THEN {} ELSE Fresh(reqvld, dual)
           /\ dc4'.valid = (~lsu_freeze_dc3(f) /\ Valid(Kill(dc3, flush_dc3(f))))
           /\ dc4'.dma = dc3.dma /\ dc4'.reqvld = reqvld
           /\ dc5'.valid = (dc4.valid /\ (flush_dc4(f) => dc4.dma))
           /\ dc5'.dma = dc4.dma /\ dc5'.reqvld = dc4.reqvld
<1>1. dc4 \in Staged /\ dc5' = [dc4 EXCEPT !.valid = dc4.valid /\ (flush_dc4(f) => dc4.dma)]
  BY DEF TypeOK, Pipe
<1>2. /\ dc5'.valid = (dc4.valid /\ (flush_dc4(f) => dc4.dma))
      /\ dc5'.reqvld = dc4.reqvld /\ dc5'.dma = dc4.dma
      /\ dc5'.dual = dc4.dual /\ dc5'.ptr = dc4.ptr
  BY <1>1 DEF Staged
<1>3. /\ dc4'.valid = (~lsu_freeze_dc3(f) /\ Valid(Kill(dc3, flush_dc3(f))))
      /\ dc4'.reqvld = reqvld /\ dc4'.dma = dc3.dma /\ dc4'.dual = dual
      /\ dc4'.ptr = IF reqvld THEN WrPtr ELSE 0
  BY DEF Pipe
<1> QED  BY <1>2, <1>3 DEF Entries4, Entries5, PendingEntries, Fresh

LEMMA EntriesAre ==
    ASSUME TypeOK
    PROVE  /\ Entries4 # {} <=> dc4.reqvld /\ ~dc4.dma
           /\ Entries5 # {} <=> dc5.reqvld /\ ~dc5.dma
           /\ Entries4 \in SUBSET Ptr /\ Entries5 \in SUBSET Ptr
<1>1. dc4 \in Staged /\ dc5 \in Staged
  BY DEF TypeOK
<1>2. /\ dc4.ptr \in Ptr /\ dc4.dual \in BOOLEAN /\ dc5.ptr \in Ptr /\ dc5.dual \in BOOLEAN
      /\ dc4.dma \in BOOLEAN /\ dc4.reqvld \in BOOLEAN
      /\ dc5.dma \in BOOLEAN /\ dc5.reqvld \in BOOLEAN
  BY <1>1 DEF Staged
<1>3. Entries(dc4.ptr, dc4.dual) # {} /\ Entries(dc5.ptr, dc5.dual) # {}
  BY DEF Entries
<1>4. Entries(dc4.ptr, dc4.dual) \in SUBSET Ptr /\ Entries(dc5.ptr, dc5.dual) \in SUBSET Ptr
  BY <1>2, EntriesInPtr
<1> QED  BY <1>2, <1>3, <1>4 DEF Entries4, Entries5, PendingEntries

(* What dc3 needs for a request: an operation of the DCCM that is live.    *)
LEMMA RequestIs ==
    ASSUME TypeOK, NEW f, NEW dual, NEW first, Requested(f, dual, first)
    PROVE  /\ Valid(dc3) /\ InDccm(dc3) /\ dc3 \in Ops /\ ~lsu_freeze_dc3(f)
           /\ flush_dc3(f) => dc3.dma
<1>1. Valid(dc3) /\ dc3.dccm /\ ~lsu_freeze_dc3(f) /\ (flush_dc3(f) => dc3.dma)
  BY DEF Requested, Dc3Live
<1>2. dc3 \in Ops
  BY <1>1 DEF TypeOK, Pkt, NoOp, Valid
<1> QED  BY <1>1, <1>2 DEF InDccm

LEMMA FlowStep ==
    ASSUME BufferInv, PipeInv, FlowInv, NEW f, NEW op, NEW bus, NEW flip,
           NEW reqvld, NEW dual, NEW first,
           DataCycle(f, op, bus, flip, reqvld, dual, first)
    PROVE  FlowInv'
<1>1. TypeOK /\ Pipe(f, op, reqvld, dual, bus) /\ f \in FlushLevel
  BY DEF BufferInv, DataCycle
<1>2. /\ Entries5' = Entries4
      /\ Entries4' = IF dc3.dma THEN {} ELSE Fresh(reqvld, dual)
      /\ dc4'.valid = (~lsu_freeze_dc3(f) /\ Valid(Kill(dc3, flush_dc3(f))))
      /\ dc4'.dma = dc3.dma /\ dc4'.reqvld = reqvld
      /\ dc5'.valid = (dc4.valid /\ (flush_dc4(f) => dc4.dma))
      /\ dc5'.dma = dc4.dma /\ dc5'.reqvld = dc4.reqvld
  BY <1>1, Moves
<1>3. reqvld => /\ Valid(dc3) /\ ~lsu_freeze_dc3(f) /\ (flush_dc3(f) => dc3.dma)
  BY <1>1, RequestIs DEF DataCycle
<1>4. /\ Entries4 # {} <=> dc4.reqvld /\ ~dc4.dma
      /\ Entries5 # {} <=> dc5.reqvld /\ ~dc5.dma
  BY <1>1, EntriesAre
<1>5. WriterLives'
  BY <1>2, <1>3 DEF WriterLives, Kill, Valid
<1>6. /\ dc1 \in Pkt /\ dc2 \in Pkt /\ dc3 \in Pkt
      /\ dc1.dma \in BOOLEAN /\ dc2.dma \in BOOLEAN /\ dc3.dma \in BOOLEAN
  BY <1>1, PktShape DEF TypeOK
<1>7. CASE lsu_freeze_dc3(f)
  <2>1. dc3' = dc3 /\ IsCore(dc3) /\ ~flush_dc4(f)
    BY <1>1, <1>7 DEF Pipe, lsu_freeze_dc3, PipeInv, FreezeHasOwner
  <2>2. DmaAlone'
    BY <2>1 DEF DmaAlone, IsCore
  <2>3. dc5'.valid <=> dc4.valid
    BY <1>2, <2>1
  <2>4. FlushEmpties'
    BY <1>2, <1>4, <2>3 DEF FlushEmpties, FlowInv, WriterLives
  <2> QED  BY <1>5, <2>2, <2>4 DEF FlowInv
<1>8. CASE ~lsu_freeze_dc3(f)
  <2>1. dc2' = Kill(dc1, flush_dc2_up(f)) /\ dc3' = Kill(dc2, flush_dc2_up(f))
    BY <1>1, <1>8 DEF Pipe
  <2>2. DmaAlone'
    <3> SUFFICES ASSUME Valid(dc3'), dc3'.dma
                 PROVE  Quiet(dc4)' /\ Quiet(dc5)'
      BY DEF DmaAlone
    <3>1. Valid(dc2) /\ dc2.dma
      BY <2>1 DEF Kill, NoOp, Valid
    <3>2. ~IsCore(dc3) /\ Quiet(dc4)
      BY <3>1 DEF PipeInv, DmaFollowsNoCoreOp, Quiet
    <3>3. reqvld => Valid(dc3)
      BY <1>3
    <3> QED  BY <1>1, <3>2, <3>3, QuietMoves DEF DataCycle
  <2>3. FlushEmpties'
    <3> SUFFICES ASSUME Entries4 # {}, ~dc5'.valid
                 PROVE  ~Valid(dc2') /\ ~Valid(dc3') /\ ~dc4'.valid
      BY <1>2 DEF FlushEmpties
    <3>1. dc4.valid /\ ~dc4.dma /\ flush_dc4(f) /\ ~Quiet(dc4)
      BY <1>2, <1>4 DEF FlowInv, WriterLives, Quiet
    <3>2. flush_dc2_up(f) /\ flush_dc3(f)
      BY <3>1 DEF flush_dc2_up, flush_dc3, flush_dc4
    <3>3. ~dc1.dma
      BY <3>1 DEF PipeInv, DmaStartsAlone
    <3>4. ~(Valid(dc2) /\ dc2.dma) /\ ~(Valid(dc3) /\ dc3.dma)
      BY <3>1 DEF PipeInv, DmaFollowsNoCoreOp, FlowInv, DmaAlone, Quiet
    <3> QED  BY <1>2, <2>1, <3>2, <3>3, <3>4 DEF Kill, NoOp, Valid
  <2> QED  BY <1>5, <2>2, <2>3 DEF FlowInv
<1> QED  BY <1>7, <1>8

(* The entries of a request are free and younger than all valid ones. *)
LEMMA FreshIs ==
    ASSUME BufferInv, NEW dual \in BOOLEAN, stbuf_numvld_any + Size(dual) <= DEPTH
    PROVE  /\ Entries(WrPtr, dual) \in SUBSET Ptr
           /\ \A i \in data_vld, j \in Entries(WrPtr, dual) : Before(RdPtr, i, j)
           /\ dual => Before(RdPtr, WrPtr, Plus1(WrPtr))
<1> DEFINE n == stbuf_numvld_any
<1>1. /\ WrPtr \in Ptr /\ RdPtr \in Ptr /\ n \in Nat /\ data_vld \in SUBSET Ptr
      /\ data_vld = Segment(RdPtr, n) /\ WrPtr = Wrap(RdPtr + n)
  BY Occupancy DEF BufferInv, TypeOK, RingIsSegment, stbuf_numvld_any
<1>2. n + Size(dual) <= DEPTH
  OBVIOUS
<1> HIDE DEF n
<1>3. \A i \in data_vld : Distance(RdPtr, i) < n
  BY <1>1 DEF Segment
<1>4. Distance(RdPtr, WrPtr) = n
  BY <1>1, <1>2 DEF Size, Distance, Wrap, Ptr
<1>5. dual => Distance(RdPtr, Plus1(WrPtr)) = n + 1
  BY <1>1, <1>2 DEF Size, Distance, Wrap, Ptr, Plus1
<1>6. \A i \in data_vld : Distance(RdPtr, i) \in Int
  BY <1>1, DistanceIs
<1> QED  BY <1>1, <1>3, <1>4, <1>5, <1>6, EntriesInPtr DEF Entries, Before

-----------------------------------------------------------------------------
(* One clock of the live entries: "R" leaves at the head, "W" is written,  *)
(* "K" is what no flush removes.                                           *)
Kept(f) == drain_vld \cup (IF lsu_commit_dc5(f) THEN Entries5 ELSE {})
                     \cup (IF dc4.valid /\ (flush_dc4(f) => dc4.dma) THEN Entries4 ELSE {})

HeadWritten ==
    /\ \A b \in Bytes : dccm'[b] = IF b[1] = ent[RdPtr].word
                                   THEN ent[RdPtr].data[b[2]] ELSE dccm[b]
    /\ \A c \in Byte : c \notin ent[RdPtr].byteen =>
          ent[RdPtr].data[c] = dccm[<<ent[RdPtr].word, c>>]

Clock(R, W, K) ==
    /\ RdPtr \in Ptr /\ R \subseteq {RdPtr}
    /\ RdPtr' = IF R = {} THEN RdPtr ELSE Plus1(RdPtr)
    /\ Live \in SUBSET Ptr /\ W \in SUBSET Ptr /\ K \subseteq Live
    /\ W \cap (Live \cup R) = {}
    /\ Live' = (K \cup W) \ R
    /\ W # {} => K = Live
    /\ \A i \in K, j \in Live \ K : Before(RdPtr, i, j)
    /\ \A i \in Live, j \in W : Before(RdPtr, i, j)
    /\ \A i \in Live \ R : ent'[i] = ent[i]
    /\ \/ R \cap Live = {} /\ dccm' = dccm
       \/ R = {RdPtr} /\ RdPtr \in drain_vld /\ HeadWritten

(* The sets alone. *)
LEMMA SetsStep ==
    ASSUME BufferInv, FlowInv, NEW f, NEW op, NEW bus, NEW flip,
           NEW reqvld, NEW dual, NEW first, NEW R, NEW W,
           DataCycle(f, op, bus, flip, reqvld, dual, first),
           R = stbuf_reset(f, BankConflict), W = Fresh(reqvld, dual)
    PROVE  /\ RdPtr \in Ptr /\ R \subseteq {RdPtr} /\ R \subseteq drain_vld \cup flush_vld
           /\ RdPtr' = IF R = {} THEN RdPtr ELSE Plus1(RdPtr)
           /\ Live \in SUBSET Ptr /\ Live \subseteq data_vld /\ W \in SUBSET Ptr
           /\ W \cap data_vld = {}
           /\ R \cap (Entries4 \cup Entries5) = {} /\ R \subseteq data_vld
           /\ drain_vld' = (drain_vld \cup (IF lsu_commit_dc5(f) THEN Entries5 ELSE {})
                                      \cup (IF dc3.dma THEN W ELSE {})) \ R
           /\ data_vld' = (data_vld \cup W) \ R
           /\ Entries5' = Entries4 /\ Entries4' = IF dc3.dma THEN {} ELSE W
           /\ Live' = (Kept(f) \cup W) \ R
           /\ \A i \in data_vld, j \in W : Before(RdPtr, i, j)
<1>1. /\ TypeOK /\ Pipe(f, op, reqvld, dual, bus) /\ Buffer(f, BankConflict, W)
      /\ reqvld \in BOOLEAN /\ dual \in BOOLEAN
  BY DEF BufferInv, DataCycle
<1>2. /\ Entries5' = Entries4 /\ Entries4' = IF dc3.dma THEN {} ELSE W
      /\ dc5'.valid = (dc4.valid /\ (flush_dc4(f) => dc4.dma))
  BY <1>1, Moves
<1>3. stbuf_drain_or_flush_en = Entries5
  BY DEF stbuf_drain_or_flush_en, Entries5, PendingEntries
<1>4. /\ data_vld' = (data_vld \cup W) \ R
      /\ drain_vld' = (drain_vld \cup (IF lsu_commit_dc5(f) THEN Entries5 ELSE {})
                                 \cup (IF dc3.dma THEN W ELSE {})) \ R
      /\ RdPtr' = IF R = {} THEN RdPtr ELSE Plus1(RdPtr)
  BY <1>1, <1>3 DEF Buffer
<1>5. R \subseteq drain_vld \cup flush_vld /\ R \subseteq data_vld /\ R \subseteq {RdPtr}
  <2>1. R \subseteq {RdPtr}
    BY DEF stbuf_reset
  <2> QED  BY <2>1, ResetIsMarked DEF BufferInv
<1>6. /\ drain_vld \cup flush_vld \subseteq data_vld
      /\ data_vld \ (drain_vld \cup flush_vld) = Entries4 \cup Entries5
      /\ data_vld \in SUBSET Ptr /\ RdPtr \in Ptr
  BY DEF BufferInv, MarksAreSound, NoOrphanEntry, TypeOK, Entries4, Entries5
<1>7. R \cap (Entries4 \cup Entries5) = {}
  BY <1>5, <1>6
<1>8. Live \in SUBSET Ptr /\ Live \subseteq data_vld
  BY <1>6 DEF Live
<1>9. /\ W \in SUBSET Ptr /\ W \cap data_vld = {}
      /\ \A i \in data_vld, j \in W : Before(RdPtr, i, j)
  <2>1. CASE reqvld
    <3>1. stbuf_numvld_any + Size(dual) <= DEPTH
      BY <2>1 DEF DataCycle, Requested
    <3>2. /\ W \in SUBSET Ptr /\ \A i \in data_vld, j \in W : Before(RdPtr, i, j)
      BY <1>1, <2>1, <3>1, FreshIs DEF Fresh
    <3>3. W \cap data_vld = {}
      <4> SUFFICES ASSUME NEW i \in W, i \in data_vld PROVE FALSE
        OBVIOUS
      <4>1. Before(RdPtr, i, i) /\ i \in Ptr
        BY <3>2
      <4>2. Distance(RdPtr, i) \in 0 .. DEPTH - 1
        BY <1>6, <4>1, DistanceIs
      <4> QED  BY <4>1, <4>2 DEF Before
    <3> QED  BY <3>2, <3>3
  <2>2. CASE ~reqvld
    BY <2>2 DEF Fresh
  <2> QED  BY <2>1, <2>2
<1>10. Live' = (Kept(f) \cup W) \ R
  <2>1. Live' = drain_vld' \cup Entries4' \cup (IF dc5'.valid THEN Entries5' ELSE {})
    BY DEF Live
  <2>2. R \cap W = {} /\ R \cap Entries4 = {} /\ R \cap Entries5 = {}
    BY <1>5, <1>7, <1>9
  <2> QED  BY <1>2, <1>4, <2>1, <2>2 DEF Kept
<1> QED  BY <1>2, <1>4, <1>5, <1>6, <1>7, <1>8, <1>9, <1>10

(* A flush leaves an initial part of the live entries, and all of them     *)
(* when dc3 writes.                                                        *)
LEMMA KeptIs ==
    ASSUME BufferInv, FlowInv, AgeOrder, NEW f, NEW op, NEW bus, NEW flip,
           NEW reqvld, NEW dual, NEW first,
           DataCycle(f, op, bus, flip, reqvld, dual, first)
    PROVE  /\ Kept(f) \subseteq Live
           /\ \A i \in Kept(f), j \in Live \ Kept(f) : Before(RdPtr, i, j)
           /\ ~flush_dc4(f) \/ (Entries4 = {} /\ Entries5 = {}) => Kept(f) = Live
           /\ reqvld => Kept(f) = Live
<1>1. TypeOK /\ f \in FlushLevel
  BY DEF BufferInv, DataCycle
<1>2. /\ Entries4 # {} <=> dc4.reqvld /\ ~dc4.dma
      /\ Entries5 # {} <=> dc5.reqvld /\ ~dc5.dma
  BY <1>1, EntriesAre
<1>3. Entries4 # {} => dc4.valid /\ ~dc4.dma
  BY <1>2 DEF FlowInv, WriterLives
<1>4. flush_dc5(f) => flush_dc4(f)
  BY DEF flush_dc4, flush_dc5
<1>5. lsu_commit_dc5(f) <=> dc5.valid /\ ~flush_dc5(f) /\ ~dc5.dma
  BY DEF lsu_commit_dc5
<1>6. Kept(f) \subseteq Live
  BY <1>5 DEF Kept, Live
<1>7. ASSUME ~flush_dc4(f) \/ (Entries4 = {} /\ Entries5 = {})
      PROVE  Kept(f) = Live
  <2>1. IF lsu_commit_dc5(f) THEN TRUE ELSE Entries5 = {} \/ ~dc5.valid
    BY <1>2, <1>4, <1>5, <1>7
  <2> QED  BY <1>3, <1>5, <1>7, <2>1 DEF Kept, Live
<1>8. ASSUME reqvld PROVE Kept(f) = Live
  <2>1. Valid(dc3) /\ (flush_dc3(f) => dc3.dma)
    BY <1>1, <1>8, RequestIs DEF DataCycle
  <2>2. flush_dc4(f) => flush_dc3(f)
    BY DEF flush_dc3, flush_dc4
  <2>3. CASE flush_dc4(f)
    <3>1. Entries4 = {} /\ Entries5 = {}
      BY <2>1, <2>2, <2>3 DEF FlowInv, DmaAlone, Quiet, Entries4, Entries5
    <3> QED  BY <1>7, <3>1
  <2> QED  BY <1>7, <2>3
<1>9. ASSUME NEW i \in Kept(f), NEW j \in Live \ Kept(f)
      PROVE  Before(RdPtr, i, j)
  <2>1. flush_dc4(f)
    BY <1>7, <1>9
  <2>2. CASE Entries4 = {}
    <3>1. j \in Entries5 /\ ~lsu_commit_dc5(f)
      BY <1>9, <2>2 DEF Kept, Live
    <3>2. i \in drain_vld
      BY <1>9, <2>2, <3>1 DEF Kept
    <3> QED  BY <3>1, <3>2 DEF AgeOrder
  <2>3. CASE Entries4 # {}
    <3>1. ~(dc4.valid /\ (flush_dc4(f) => dc4.dma))
      BY <1>3, <2>1, <2>3
    <3>2. CASE lsu_commit_dc5(f)
      <4>1. i \in drain_vld \cup Entries5 /\ j \in Entries4
        BY <1>9, <3>1, <3>2 DEF Kept, Live
      <4> QED  BY <4>1 DEF AgeOrder
    <3>3. CASE ~lsu_commit_dc5(f)
      <4>1. i \in drain_vld /\ j \in Entries4 \cup Entries5
        BY <1>9, <3>1, <3>3 DEF Kept, Live
      <4> QED  BY <4>1 DEF AgeOrder
    <3> QED  BY <3>2, <3>3
  <2> QED  BY <2>2, <2>3
<1> QED  BY <1>6, <1>7, <1>8, <1>9

LEMMA ClockIs ==
    ASSUME BufferInv, FlowInv, AgeOrder, FilledUp, NEW f, NEW op, NEW bus, NEW flip,
           NEW reqvld, NEW dual, NEW first, NEW R, NEW W, NEW K,
           DataCycle(f, op, bus, flip, reqvld, dual, first),
           R = stbuf_reset(f, BankConflict), W = Fresh(reqvld, dual), K = Kept(f)
    PROVE  Clock(R, W, K)
<1>1. /\ RdPtr \in Ptr /\ R \subseteq {RdPtr} /\ R \subseteq drain_vld \cup flush_vld
      /\ RdPtr' = IF R = {} THEN RdPtr ELSE Plus1(RdPtr)
      /\ Live \in SUBSET Ptr /\ Live \subseteq data_vld /\ W \in SUBSET Ptr
      /\ W \cap data_vld = {}
      /\ R \cap (Entries4 \cup Entries5) = {} /\ R \subseteq data_vld
      /\ data_vld' = (data_vld \cup W) \ R
      /\ Live' = (K \cup W) \ R
      /\ \A i \in data_vld, j \in W : Before(RdPtr, i, j)
  BY SetsStep
<1>2. /\ K \subseteq Live
      /\ \A i \in K, j \in Live \ K : Before(RdPtr, i, j)
      /\ W # {} => K = Live
  BY KeptIs DEF Fresh
<1>3. \A i \in Live \ R : ent'[i] = ent[i]
  <2> SUFFICES ASSUME NEW i \in Live \ R PROVE ent'[i] = ent[i]
    OBVIOUS
  <2>1. i \in Ptr /\ i \in data_vld' /\ i \notin W
    BY <1>1
  <2>2. reqvld => WrPtr \in W /\ (dual => Plus1(WrPtr) \in W)
    BY DEF Fresh, Entries
  <2>3. EntryStep(reqvld, dual, first)
    BY DEF DataCycle
  <2> QED  BY <2>1, <2>2, <2>3 DEF EntryStep
<1>4. \/ R \cap Live = {} /\ dccm' = dccm
      \/ R = {RdPtr} /\ RdPtr \in drain_vld /\ HeadWritten
  <2>1. MemoryStep(f, BankConflict, flip)
    BY DEF DataCycle
  <2>2. CASE lsu_stbuf_commit_any(f, BankConflict)
    <3>1. RdPtr \in drain_vld /\ R = {RdPtr} /\ RdPtr \in Live
      BY <2>2 DEF lsu_stbuf_commit_any, stbuf_reqvld_any, stbuf_reset, Live
    <3>2. \A b \in Bytes : dccm'[b] = IF b[1] = ent[RdPtr].word
                                      THEN ent[RdPtr].data[b[2]] ELSE dccm[b]
      BY <2>1, <2>2 DEF MemoryStep
    <3>3. Below(RdPtr) = {}
      <4> SUFFICES ASSUME NEW j \in Live PROVE ~Before(RdPtr, j, RdPtr)
        BY DEF Below
      <4>1. Distance(RdPtr, j) \in 0 .. DEPTH - 1 /\ Distance(RdPtr, RdPtr) = 0
        BY <1>1, DistanceIs
      <4> QED  BY <4>1 DEF Before
    <3>4. \A c \in Byte : Seen({}, <<ent[RdPtr].word, c>>) = dccm[<<ent[RdPtr].word, c>>]
      BY DEF Seen, View, Hits
    <3>5. HeadWritten
      BY <3>1, <3>2, <3>3, <3>4 DEF FilledUp, HeadWritten
    <3> QED  BY <3>1, <3>5
  <2>3. CASE ~lsu_stbuf_commit_any(f, BankConflict)
    <3>1. dccm' = dccm
      BY <2>1, <2>3 DEF MemoryStep
    <3>2. R \subseteq flush_vld
      BY <2>3 DEF stbuf_reset, stbuf_reqvld_flushed_any
    <3>3. R \cap Live = {}
      BY <1>1, <3>2 DEF Live, BufferInv, MarksAreSound
    <3> QED  BY <3>1, <3>3
  <2> QED  BY <2>2, <2>3
<1>5. W \cap (Live \cup R) = {} /\ \A i \in Live, j \in W : Before(RdPtr, i, j)
  BY <1>1
<1> QED  BY <1>1, <1>2, <1>3, <1>4, <1>5 DEF Clock

(* Readers of live entries notice nothing of a clock ... *)
LEMMA Carried ==
    ASSUME NEW R, NEW W, NEW K, Clock(R, W, K),
           NEW S \in SUBSET Live, R \cap Live \subseteq S, NEW b \in Bytes
    PROVE  View(S \ R, ent', dccm', RdPtr', b) = Seen(S, b)
<1>1. /\ RdPtr \in Ptr /\ S \in SUBSET Ptr /\ R \subseteq {RdPtr}
      /\ RdPtr' = IF R = {} THEN RdPtr ELSE Plus1(RdPtr)
      /\ \A i \in S \ R : ent'[i] = ent[i]
  BY DEF Clock
<1>2. CASE R \cap Live = {} /\ dccm' = dccm
  <2>1. Moved(S, R, RdPtr, RdPtr', ent, ent', dccm, dccm')
    BY <1>1, <1>2 DEF Moved
  <2> QED  BY <1>1, <2>1, Advance DEF Seen
<1>3. CASE R = {RdPtr} /\ RdPtr \in drain_vld /\ HeadWritten
  <2>1. RdPtr \in S
    BY <1>3 DEF Live
  <2>2. Moved(S, R, RdPtr, RdPtr', ent, ent', dccm, dccm')
    BY <1>1, <1>3, <2>1 DEF Moved, HeadWritten
  <2> QED  BY <1>1, <2>2, Advance DEF Seen
<1> QED  BY <1>2, <1>3 DEF Clock

(* ... and the others keep their order.                                    *)
LEMMA OrderStays ==
    ASSUME NEW R, NEW W, NEW K, Clock(R, W, K)
    PROVE  /\ RdPtr' \in Ptr
           /\ \A i \in Ptr \ R, j \in Ptr \ R :
                 Before(RdPtr', i, j) <=> Before(RdPtr, i, j)
<1>1. /\ RdPtr \in Ptr /\ R \subseteq {RdPtr}
      /\ RdPtr' = IF R = {} THEN RdPtr ELSE Plus1(RdPtr)
  BY DEF Clock
<1>2. RdPtr' \in Ptr
  BY <1>1 DEF Plus1, Ptr
<1> QED  BY <1>1, <1>2, OrderKept

LEMMA BeforeIsOrder ==
    ASSUME NEW r \in Ptr, NEW i \in Ptr, NEW j \in Ptr
    PROVE  /\ ~(Before(r, i, j) /\ Before(r, j, i)) /\ ~Before(r, i, i)
           /\ i # j => Before(r, i, j) \/ Before(r, j, i)
           /\ j # r => Before(r, r, j)
<1>1. /\ Distance(r, i) \in 0 .. DEPTH - 1 /\ Distance(r, j) \in 0 .. DEPTH - 1
      /\ Distance(r, r) = 0 /\ (j # r => Distance(r, j) # 0)
      /\ Distance(r, i) = Distance(r, j) => i = j
  BY DistanceIs
<1> QED  BY <1>1 DEF Before

-----------------------------------------------------------------------------
(* What dc3 writes *)

LEMMA WordsAre ==
    ASSUME NEW op \in Ops, op.dccm
    PROVE  /\ WordsOf(op) = {LowWord(op), HighWord(op)} /\ WordsOf(op) \subseteq Word
           /\ op.dual => LowWord(op) # HighWord(op)
           /\ ~op.dual => LowWord(op) = HighWord(op)
           /\ op.bytes \subseteq WordsOf(op) \X Byte /\ op.bytes \subseteq Bytes
           /\ WordsOf(op) \X Byte \subseteq Bytes
<1>1. op.bytes \subseteq Bytes
  BY DccmAssumption
<1>2. PICK w \in Word : WordsOf(op) = {w} \cup (IF op.dual THEN {w + 1} ELSE {})
  BY DccmAssumption
<1>3. w \in Int
  BY <1>2, DccmAssumption DEF Word
<1>4. CASE op.dual
  <2>1. WordsOf(op) = {w, w + 1}
    BY <1>2, <1>4
  <2>2. LowWord(op) = w
    BY <1>3, <2>1 DEF LowWord
  <2>3. HighWord(op) = w + 1
    BY <1>3, <2>1 DEF HighWord
  <2>4. WordsOf(op) = {LowWord(op), HighWord(op)} /\ LowWord(op) # HighWord(op)
    BY <1>3, <2>1, <2>2, <2>3
  <2>5. WordsOf(op) \subseteq Word
    BY <1>1 DEF WordsOf, Bytes
  <2> QED  BY <1>1, <1>4, <2>4, <2>5 DEF WordsOf, Bytes
<1>5. CASE ~op.dual
  <2>1. WordsOf(op) = {w}
    BY <1>2, <1>5
  <2>2. LowWord(op) = w
    BY <1>3, <2>1 DEF LowWord
  <2>3. HighWord(op) = w
    BY <1>3, <2>1 DEF HighWord
  <2>4. WordsOf(op) = {LowWord(op), HighWord(op)} /\ LowWord(op) = HighWord(op)
    BY <2>1, <2>2, <2>3
  <2>5. WordsOf(op) \subseteq Word
    BY <1>1 DEF WordsOf, Bytes
  <2> QED  BY <1>1, <1>5, <2>4, <2>5 DEF WordsOf, Bytes
<1> QED
  <2>1. op.dual \in BOOLEAN
    BY OpsAssumption DEF WellFormed
  <2> QED  BY <1>4, <1>5, <2>1

(* The merge of a store takes its bytes, and for the rest, like a load,    *)
(* what program order gives it.                                            *)
LEMMA MergedByte ==
    ASSUME Read3, InDccm(dc3), dc3 \in Ops, NEW b \in WordsOf(dc3) \X Byte
    PROVE  store_ecc_datafn_dc3(b) = IF dc3.kind = "store" /\ b \in dc3.bytes
                                     THEN dc3.val ELSE Seen(Live, b)
<1>1. CASE dc3.kind = "store" /\ b \in dc3.bytes
  BY <1>1 DEF store_ecc_datafn_dc3
<1>2. CASE ~(dc3.kind = "store" /\ b \in dc3.bytes)
  <2>1. lsu_dccm_rden(dc3)
    BY <1>2 DEF lsu_dccm_rden, FullWord
  <2>2. Known3(b) = Seen(Live, b)
    BY <2>1 DEF Read3
  <2>3. store_ecc_datafn_dc3(b) = Known3(b)
    BY <1>2 DEF store_ecc_datafn_dc3, Known3
  <2> QED  BY <1>2, <2>2, <2>3
<1> QED  BY <1>1, <1>2

(* The entries written: each of another double word of the operation; a    *)
(* store has one for each of its own.                                      *)
Written(W) ==
    /\ Valid(dc3) /\ InDccm(dc3) /\ dc3 \in Ops /\ dc3.kind \in {"load", "store"}
    /\ \A i \in W :
          /\ ent'[i].word \in WordsOf(dc3)
          /\ \A c \in Byte :
                /\ c \in ent'[i].byteen <=> <<ent'[i].word, c>> \in dc3.bytes
                /\ ent'[i].data[c] = store_ecc_datafn_dc3(<<ent'[i].word, c>>)
    /\ \A i, j \in W : ent'[i].word = ent'[j].word => i = j
    /\ dc3.kind = "store" => \A w \in WordsOf(dc3) : \E i \in W : ent'[i].word = w

LEMMA WrittenIs ==
    ASSUME BufferInv, NEW f, NEW op, NEW bus, NEW flip,
           NEW reqvld, NEW dual, NEW first, NEW W,
           DataCycle(f, op, bus, flip, reqvld, dual, first),
           W = Fresh(reqvld, dual), W \in SUBSET Ptr, W \subseteq data_vld', reqvld
    PROVE  Written(W)
<1>1. /\ TypeOK /\ dual \in BOOLEAN /\ Requested(f, dual, first)
      /\ W = Entries(WrPtr, dual) /\ EntryStep(reqvld, dual, first)
  BY DEF BufferInv, DataCycle, Fresh
<1>2. Valid(dc3) /\ InDccm(dc3) /\ dc3 \in Ops /\ dc3.dccm
  BY <1>1, RequestIs DEF InDccm
<1>3. /\ dc3.kind \in {"load", "store"}
      /\ first = LowWord(dc3) \/ first = HighWord(dc3)
      /\ dual => dc3.dual /\ first = LowWord(dc3)
      /\ dc3.kind = "store" => first = LowWord(dc3) /\ dual = dc3.dual
  BY <1>1 DEF Requested
<1>4. /\ WordsOf(dc3) = {LowWord(dc3), HighWord(dc3)}
      /\ dc3.dual => LowWord(dc3) # HighWord(dc3)
      /\ ~dc3.dual => LowWord(dc3) = HighWord(dc3)
  BY <1>2, WordsAre
<1>5. WrPtr \in W /\ (dual => Plus1(WrPtr) \in W) /\ \A i \in W : i = WrPtr \/ (dual /\ i = Plus1(WrPtr))
  BY <1>1 DEF Entries
<1>6. dual => Plus1(WrPtr) # WrPtr
  BY <1>1 DEF Plus1, TypeOK, Ptr
<1>7. /\ ent'[WrPtr] = EntryFor(first)
      /\ dual => ent'[Plus1(WrPtr)] = EntryFor(HighWord(dc3))
  BY <1>1, <1>5, <1>6 DEF EntryStep
<1>8. \A w : /\ EntryFor(w).word = w
             /\ \A c \in Byte : /\ c \in EntryFor(w).byteen <=> <<w, c>> \in dc3.bytes
                                /\ EntryFor(w).data[c] = store_ecc_datafn_dc3(<<w, c>>)
  BY DEF EntryFor
<1>9. \A i \in W : /\ ent'[i] = EntryFor(ent'[i].word)
                   /\ ent'[i].word = IF i = WrPtr THEN first ELSE HighWord(dc3)
  BY <1>5, <1>6, <1>7, <1>8
<1>10. \A i \in W :
          /\ ent'[i].word \in WordsOf(dc3)
          /\ \A c \in Byte :
                /\ c \in ent'[i].byteen <=> <<ent'[i].word, c>> \in dc3.bytes
                /\ ent'[i].data[c] = store_ecc_datafn_dc3(<<ent'[i].word, c>>)
  <2> SUFFICES ASSUME NEW i \in W
               PROVE  /\ ent'[i].word \in WordsOf(dc3)
                      /\ \A c \in Byte :
                            /\ c \in ent'[i].byteen <=> <<ent'[i].word, c>> \in dc3.bytes
                            /\ ent'[i].data[c] = store_ecc_datafn_dc3(<<ent'[i].word, c>>)
    OBVIOUS
  <2>1. ent'[i].word \in WordsOf(dc3)
    BY <1>3, <1>4, <1>9
  <2> DEFINE w == ent'[i].word
  <2>2. ent'[i] = EntryFor(w)
    BY <1>9
  <2> HIDE DEF w
  <2>3. \A c \in Byte : /\ c \in ent'[i].byteen <=> <<w, c>> \in dc3.bytes
                        /\ ent'[i].data[c] = store_ecc_datafn_dc3(<<w, c>>)
    BY <1>8, <2>2
  <2> QED  BY <2>1, <2>3 DEF w
<1>11. \A i, j \in W : ent'[i].word = ent'[j].word => i = j
  <2> SUFFICES ASSUME NEW i \in W, NEW j \in W, ent'[i].word = ent'[j].word, i # j
               PROVE  FALSE
    OBVIOUS
  <2>1. dual /\ (i = WrPtr \/ j = WrPtr)
    BY <1>5
  <2>2. first = HighWord(dc3)
    <3>1. CASE i = WrPtr
      <4>1. ent'[i].word = first /\ ent'[j].word = HighWord(dc3)
        BY <1>9, <2>1, <3>1
      <4> QED  BY <4>1
    <3>2. CASE j = WrPtr
      <4>1. ent'[j].word = first /\ ent'[i].word = HighWord(dc3)
        BY <1>9, <2>1, <3>2
      <4> QED  BY <4>1
    <3> QED  BY <2>1, <3>1, <3>2
  <2> QED  BY <1>3, <1>4, <2>1, <2>2
<1>12. dc3.kind = "store" => \A w \in WordsOf(dc3) : \E i \in W : ent'[i].word = w
  <2> SUFFICES ASSUME dc3.kind = "store", NEW w \in WordsOf(dc3)
               PROVE  \E i \in W : ent'[i].word = w
    OBVIOUS
  <2>1. first = LowWord(dc3) /\ dual = dc3.dual
    BY <1>3
  <2>2. CASE w = LowWord(dc3)
    BY <1>5, <1>9, <2>1, <2>2
  <2>3. CASE w # LowWord(dc3)
    <3>1. w = HighWord(dc3) /\ dual
      BY <1>1, <1>4, <2>1, <2>3
    <3> QED  BY <1>5, <1>6, <1>9, <3>1
  <2> QED  BY <2>2, <2>3
<1> QED  BY <1>2, <1>3, <1>10, <1>11, <1>12 DEF Written

-----------------------------------------------------------------------------
(* One clock keeps each part of the invariant. *)

LEMMA AgeOrderStep ==
    ASSUME BufferInv, FlowInv, AgeOrder, NEW f, NEW op, NEW bus, NEW flip,
           NEW reqvld, NEW dual, NEW first, NEW R, NEW W, NEW K, Clock(R, W, K),
           DataCycle(f, op, bus, flip, reqvld, dual, first),
           R = stbuf_reset(f, BankConflict), W = Fresh(reqvld, dual)
    PROVE  AgeOrder'
<1>1. /\ W \cap data_vld = {} /\ W \in SUBSET Ptr
      /\ R \cap (Entries4 \cup Entries5) = {} /\ R \subseteq data_vld
      /\ drain_vld' = (drain_vld \cup (IF lsu_commit_dc5(f) THEN Entries5 ELSE {})
                                 \cup (IF dc3.dma THEN W ELSE {})) \ R
      /\ Entries5' = Entries4 /\ Entries4' = IF dc3.dma THEN {} ELSE W
      /\ \A i \in data_vld, j \in W : Before(RdPtr, i, j)
  BY SetsStep
<1>2. \A i \in Ptr \ R, j \in Ptr \ R : Before(RdPtr', i, j) <=> Before(RdPtr, i, j)
  BY OrderStays
<1>3. /\ drain_vld \subseteq data_vld /\ Entries4 \subseteq data_vld
      /\ Entries5 \subseteq data_vld /\ data_vld \in SUBSET Ptr
  BY DEF BufferInv, TypeOK, MarksAreSound, NoOrphanEntry, Entries4, Entries5
<1>4. W # {} /\ dc3.dma => Entries4 = {}
  <2> SUFFICES ASSUME W # {}, dc3.dma PROVE Entries4 = {}
    OBVIOUS
  <2>1. Requested(f, dual, first)
    BY DEF DataCycle, Fresh
  <2> QED  BY <2>1 DEF Requested, Dc3Live, FlowInv, DmaAlone, Quiet, Entries4
<1>5. W \cap R = {} /\ Entries4 \cap R = {}
  BY <1>1
<1>6. ASSUME NEW i \in drain_vld', NEW j \in Entries4' \cup Entries5'
      PROVE  Before(RdPtr', i, j)
  <2>1. j \in Ptr \ R /\ i \in Ptr \ R
    BY <1>1, <1>3, <1>5
  <2>2. i \in drain_vld \cup Entries5
    BY <1>1, <1>4
  <2>3. CASE j \in Entries4
    BY <1>2, <2>1, <2>2, <2>3 DEF AgeOrder
  <2>4. CASE j \in W
    BY <1>1, <1>2, <1>3, <2>1, <2>2, <2>4
  <2> QED  BY <1>1, <2>3, <2>4
<1>7. ASSUME NEW i \in Entries5', NEW j \in Entries4'
      PROVE  Before(RdPtr', i, j)
  <2>1. j \in Ptr \ R /\ i \in Ptr \ R /\ i \in data_vld /\ j \in W
    BY <1>1, <1>3, <1>5
  <2> QED  BY <1>1, <1>2, <2>1
<1> QED  BY <1>6, <1>7 DEF AgeOrder

LEMMA FilledUpStep ==
    ASSUME BufferInv, FilledUp, Read3, NEW R, NEW W, NEW K, Clock(R, W, K),
           W # {} => Written(W)
    PROVE  FilledUp'
<1>1. /\ RdPtr \in Ptr /\ Live \in SUBSET Ptr /\ W \in SUBSET Ptr /\ K \subseteq Live
      /\ R \subseteq {RdPtr} /\ W \cap (Live \cup R) = {}
      /\ Live' = (K \cup W) \ R /\ (W # {} => K = Live)
      /\ \A i \in K, j \in Live \ K : Before(RdPtr, i, j)
      /\ \A i \in Live, j \in W : Before(RdPtr, i, j)
      /\ \A i \in Live \ R : ent'[i] = ent[i]
  BY DEF Clock
<1>2. /\ RdPtr' \in Ptr
      /\ \A i \in Ptr \ R, j \in Ptr \ R : Before(RdPtr', i, j) <=> Before(RdPtr, i, j)
  BY OrderStays
<1>3. Live' \in SUBSET Ptr /\ Live' \cap R = {}
  BY <1>1
<1>4. ASSUME NEW i \in K \ R
      PROVE  /\ ent'[i].word \in Word
             /\ \A c \in Byte : c \notin ent'[i].byteen =>
                   ent'[i].data[c] = Seen(Below(i), <<ent[i].word, c>>)'
  <2>1. i \in Live /\ ent'[i] = ent[i] /\ i \in Ptr
    BY <1>1
  <2>2. Below(i)' = Below(i) \ R
    <3>1. \A j \in Live' : Before(RdPtr', j, i) <=> Before(RdPtr, j, i)
      BY <1>2, <1>3, <2>1
    <3>2. \A j \in Live : Before(RdPtr, j, i) => j \in K
      BY <1>1, <2>1, BeforeIsOrder
    <3>3. \A j \in W : ~Before(RdPtr, j, i)
      BY <1>1, <2>1, BeforeIsOrder
    <3>4. Below(i)' = {j \in Live' : Before(RdPtr', j, i)}
      BY DEF Below
    <3> QED  BY <1>1, <3>1, <3>2, <3>3, <3>4 DEF Below
  <2>3. R \cap Live \subseteq Below(i)
    BY <1>1, <2>1, BeforeIsOrder DEF Below
  <2>4. ASSUME NEW c \in Byte, c \notin ent[i].byteen
        PROVE  ent[i].data[c] = Seen(Below(i), <<ent[i].word, c>>)'
    <3>1. ent[i].word \in Word /\ ent[i].data[c] = Seen(Below(i), <<ent[i].word, c>>)
      BY <2>1, <2>4 DEF FilledUp
    <3>2. <<ent[i].word, c>> \in Bytes /\ Below(i) \in SUBSET Live
      BY <3>1 DEF Bytes, Below
    <3>3. View(Below(i) \ R, ent', dccm', RdPtr', <<ent[i].word, c>>)
            = Seen(Below(i), <<ent[i].word, c>>)
      <4> DEFINE b == <<ent[i].word, c>>
                 S == Below(i)
      <4>1. b \in Bytes /\ S \in SUBSET Live /\ R \cap Live \subseteq S
        BY <2>3, <3>2
      <4> HIDE DEF b, S
      <4>2. View(S \ R, ent', dccm', RdPtr', b) = Seen(S, b)
        BY <4>1, Carried
      <4> QED  BY <4>2 DEF b, S
    <3>4. Seen(Below(i), <<ent[i].word, c>>)'
            = View(Below(i)', ent', dccm', RdPtr', <<ent'[i].word, c>>)
      BY DEF Seen
    <3> QED  BY <2>1, <2>2, <3>1, <3>3, <3>4
  <2>5. ent[i].word \in Word
    BY <2>1 DEF FilledUp
  <2> QED  BY <2>1, <2>4, <2>5
<1>5. ASSUME NEW i \in W
      PROVE  /\ ent'[i].word \in Word
             /\ \A c \in Byte : c \notin ent'[i].byteen =>
                   ent'[i].data[c] = Seen(Below(i), <<ent[i].word, c>>)'
  <2>1. Written(W) /\ K = Live /\ i \in Ptr \ R
    BY <1>1
  <2>2. /\ InDccm(dc3) /\ dc3 \in Ops /\ dc3.dccm /\ ent'[i].word \in WordsOf(dc3)
        /\ \A j \in W : ent'[i].word = ent'[j].word => i = j
    BY <2>1 DEF Written, InDccm
  <2>3. WordsOf(dc3) \subseteq Word /\ WordsOf(dc3) \X Byte \subseteq Bytes
    BY <2>2, WordsAre
  <2> DEFINE W1 == {j \in W : Before(RdPtr', j, i)}
             S == Live \ R
  <2>4. Below(i)' = S \cup W1
    <3>1. Below(i)' = {j \in Live' : Before(RdPtr', j, i)}
      BY DEF Below
    <3>2. \A j \in S : Before(RdPtr', j, i)
      BY <1>1, <1>2, <2>1
    <3>3. Live' = S \cup W
      BY <1>1, <2>1
    <3> QED  BY <3>1, <3>2, <3>3
  <2>5. /\ S \in SUBSET Ptr /\ W1 \in SUBSET Ptr /\ i \notin W1 /\ W1 \subseteq W
        /\ \A x \in S, y \in W1 : Before(RdPtr', x, y)
    BY <1>1, <1>2, <2>1, BeforeIsOrder
  <2> HIDE DEF W1
  <2>6. ASSUME NEW c \in Byte, c \notin ent'[i].byteen
        PROVE  ent'[i].data[c] = Seen(Below(i), <<ent[i].word, c>>)'
    <3> DEFINE b == <<ent'[i].word, c>>
    <3>1. b \in WordsOf(dc3) \X Byte /\ b \in Bytes /\ b[1] = ent'[i].word
      BY <2>2, <2>3
    <3>2. b \notin dc3.bytes /\ ent'[i].data[c] = store_ecc_datafn_dc3(b)
      BY <2>1, <2>6 DEF Written
    <3> HIDE DEF b
    <3>3. ent'[i].data[c] = Seen(Live, b)
      BY <2>2, <3>1, <3>2, MergedByte
    <3>4. View(S, ent', dccm', RdPtr', b) = Seen(Live, b)
      BY <3>1, Carried
    <3>5. Hits(W1, ent', b) = {}
      BY <2>2, <2>5, <3>1 DEF Hits
    <3> HIDE DEF S
    <3>6. View(S \cup W1, ent', dccm', RdPtr', b) = View(S, ent', dccm', RdPtr', b)
      BY <1>2, <2>5, <3>5, Extend
    <3>7. Seen(Below(i), <<ent[i].word, c>>)' = View(Below(i)', ent', dccm', RdPtr', b)
      BY DEF Seen, b
    <3> QED  BY <2>4, <3>3, <3>4, <3>6, <3>7
  <2> QED  BY <2>2, <2>3, <2>6
<1>6. \A i \in Live' : i \in K \ R \/ i \in W
  BY <1>1
<1> QED  BY <1>4, <1>5, <1>6 DEF FilledUp

LEMMA Read2Step ==
    ASSUME BufferInv, Read2, NEW f, NEW op, NEW bus, NEW flip,
           NEW reqvld, NEW dual, NEW first,
           DataCycle(f, op, bus, flip, reqvld, dual, first)
    PROVE  Read2'
<1>1. /\ TypeOK /\ Pipe(f, op, reqvld, dual, bus)
      /\ MemoryStep(f, BankConflict, flip) /\ PipeData(f, reqvld, dual)
  BY DEF BufferInv, DataCycle
<1>2. CASE lsu_freeze_dc3(f)
  <2>1. dc2' = dc2 /\ rd2' = rd2
    BY <1>1, <1>2 DEF Pipe, PipeData
  <2>2. dccm' = dccm
    BY <1>1, <1>2 DEF MemoryStep, lsu_stbuf_commit_any
  <2> QED  BY <2>1, <2>2 DEF Read2, lsu_dccm_rden, InDccm, FullWord, Valid, WordsOf
<1>3. CASE ~lsu_freeze_dc3(f)
  <2>1. dc2' = Kill(dc1, flush_dc2_up(f))
    BY <1>1, <1>3 DEF Pipe
  <2>2. CASE flush_dc2_up(f) /\ ~dc1.dma
    BY <2>1, <2>2 DEF Kill, Read2, lsu_dccm_rden, InDccm, Valid, NoOp
  <2>3. CASE ~(flush_dc2_up(f) /\ ~dc1.dma)
    <3>1. dc2' = dc1 /\ rd2' = ReadMemory(dc1)
      BY <1>1, <1>3, <2>1, <2>3 DEF Kill, PipeData
    <3> SUFFICES ASSUME lsu_dccm_rden(dc1), NEW b \in WordsOf(dc1) \X Byte
                 PROVE  rd2'.data[b] = dccm'[b]
      BY <3>1 DEF Read2, lsu_dccm_rden, InDccm, FullWord, Valid, WordsOf
    <3>2. rd2'.data[b] = dccm[b]
      BY <3>1 DEF ReadMemory
    <3>3. dc1 \in Ops /\ dc1.dccm
      BY <1>1 DEF TypeOK, Pkt, lsu_dccm_rden, InDccm, Valid, NoOp
    <3>4. b \in Bytes /\ b[1] \in WordsOf(dc1)
      BY <3>3, WordsAre
    <3>5. CASE lsu_stbuf_commit_any(f, BankConflict)
      <4>1. Bank(ent[RdPtr].word) \notin {Bank(w) : w \in WordsOf(dc1)}
        BY <3>5 DEF lsu_stbuf_commit_any, BankConflict
      <4>2. b[1] # ent[RdPtr].word
        BY <3>4, <4>1
      <4> QED  BY <1>1, <3>2, <3>4, <3>5, <4>2 DEF MemoryStep
    <3>6. CASE ~lsu_stbuf_commit_any(f, BankConflict)
      BY <1>1, <3>2, <3>6 DEF MemoryStep
    <3> QED  BY <3>5, <3>6
  <2> QED  BY <2>2, <2>3
<1> QED  BY <1>2, <1>3

(* The youngest entry by distance from the write pointer, as the code has  *)
(* it, is the youngest by distance from the head.                          *)
LEMMA YoungestIs ==
    ASSUME BufferInv, NEW S \in SUBSET data_vld, S # {}
    PROVE  Youngest(S) \in S /\ \A j \in S : Distance(RdPtr, j) <= Distance(RdPtr, Youngest(S))
<1> DEFINE n == stbuf_numvld_any
<1>1. /\ WrPtr \in Ptr /\ RdPtr \in Ptr /\ n \in 0 .. DEPTH /\ data_vld \in SUBSET Ptr
      /\ data_vld = Segment(RdPtr, n) /\ WrPtr = Wrap(RdPtr + n)
  BY Occupancy DEF BufferInv, TypeOK, RingIsSegment, stbuf_numvld_any
<1> HIDE DEF n
<1>2. ASSUME NEW i \in S
      PROVE  /\ Distance(WrPtr, i) = Distance(RdPtr, i) + DEPTH - n
             /\ Distance(RdPtr, i) \in Int
  <2>1. i \in Ptr /\ Distance(RdPtr, i) < n
    BY <1>1 DEF Segment
  <2>2. WrPtr = IF RdPtr + n < DEPTH THEN RdPtr + n ELSE RdPtr + n - DEPTH
    BY <1>1 DEF Wrap
  <2>3. /\ RdPtr \in Int /\ 0 <= RdPtr /\ RdPtr < DEPTH /\ i \in Int /\ 0 <= i /\ i < DEPTH
        /\ n \in Int /\ 0 <= n /\ n <= DEPTH
    BY <1>1, <2>1 DEF Ptr
  <2> QED  BY <2>1, <2>2, <2>3 DEF Distance
<1>3. Top(WrPtr, S) \in S /\ \A j \in S : Distance(WrPtr, j) <= Distance(WrPtr, Top(WrPtr, S))
  BY <1>1, TopIs
<1>4. Youngest(S) = Top(WrPtr, S)
  BY DEF Youngest, Top
<1>5. \A j \in S : Distance(RdPtr, j) <= Distance(RdPtr, Youngest(S))
  BY <1>1, <1>2, <1>3, <1>4
<1> QED  BY <1>3, <1>4, <1>5

(* What the store buffer forwards: the live entries that hold the byte. *)
LEMMA ForwardSees ==
    ASSUME BufferInv, PipeInv, FlowInv, AgeOrder, Read2, NEW f, NEW op, NEW bus, NEW flip,
           NEW reqvld, NEW dual, NEW first,
           DataCycle(f, op, bus, flip, reqvld, dual, first),
           lsu_dccm_rden(dc2), ~(flush_dc2_up(f) /\ ~dc2.dma),
           NEW b \in WordsOf(dc2) \X Byte
    PROVE  /\ Kept(f) = Live
           /\ Seen(Live, b) = IF stbuf_ldmatch(dc2, b) = {} THEN rd2.data[b]
                              ELSE ent[Youngest(stbuf_ldmatch(dc2, b))].data[b[2]]
<1>1. Valid(dc2) /\ TypeOK
  BY DEF lsu_dccm_rden, InDccm, BufferInv
<1>2. /\ drain_vld \cup flush_vld \subseteq data_vld /\ drain_vld \cap flush_vld = {}
      /\ data_vld \ (drain_vld \cup flush_vld) = Entries4 \cup Entries5
      /\ data_vld \in SUBSET Ptr /\ RdPtr \in Ptr
  BY DEF BufferInv, MarksAreSound, NoOrphanEntry, TypeOK, Entries4, Entries5
<1>3. Live = drain_vld \cup Entries4 \cup Entries5
  BY <1>1 DEF FlowInv, FlushEmpties, Live
<1>4. Kept(f) = Live /\ stbuf_ldmatch(dc2, b) = Hits(Live, ent, b)
  <2>1. CASE dc2.dma
    <3>1. Entries4 = {} /\ Entries5 = {}
      BY <1>1, <2>1 DEF PipeInv, DmaFollowsNoCoreOp, Entries4, Entries5
    <3>2. Kept(f) = Live
      BY <3>1, KeptIs
    <3> QED  BY <1>2, <1>3, <2>1, <3>1, <3>2 DEF stbuf_ldmatch, Hits
  <2>2. CASE ~dc2.dma
    <3>1. ~flush_dc4(f)
      BY <2>2 DEF flush_dc2_up, flush_dc4
    <3>2. Kept(f) = Live
      BY <3>1, KeptIs
    <3> QED  BY <1>2, <1>3, <2>2, <3>2 DEF stbuf_ldmatch, Hits
  <2> QED  BY <2>1, <2>2
<1> DEFINE H == Hits(Live, ent, b)
<1>5. Live \in SUBSET Ptr /\ H \in SUBSET data_vld
  BY <1>2, <1>3 DEF Hits
<1>6. CASE H = {}
  BY <1>4, <1>6 DEF Read2, Seen, View
<1>7. CASE H # {}
  <2> HIDE DEF H
  <2>1. Youngest(H) \in H /\ \A j \in H : Distance(RdPtr, j) <= Distance(RdPtr, Youngest(H))
    BY <1>5, <1>7, YoungestIs
  <2>2. View(Live, ent, dccm, RdPtr, b) = ent[Youngest(H)].data[b[2]]
    BY <1>2, <1>5, <2>1, ViewTop DEF H
  <2> QED  BY <1>4, <1>7, <2>2 DEF H, Seen
<1> QED  BY <1>4, <1>6, <1>7

(* The entries written over the others. *)
LEMMA WrittenSeen ==
    ASSUME Read3, NEW R, NEW W, NEW K, Clock(R, W, K), W # {} => Written(W),
           NEW S \in SUBSET Live, S = Live, NEW b \in Bytes
    PROVE  \/ /\ Hits(W, ent', b) = {}
              /\ View((S \ R) \cup W, ent', dccm', RdPtr', b) = Seen(Live, b)
           \/ /\ Hits(W, ent', b) # {} /\ W # {}
              /\ b \in dc3.bytes /\ b \in WordsOf(dc3) \X Byte
              /\ View((S \ R) \cup W, ent', dccm', RdPtr', b) = store_ecc_datafn_dc3(b)
<1> DEFINE T == S \ R
<1>1. /\ T \in SUBSET Ptr /\ W \in SUBSET Ptr /\ W \cap R = {} /\ RdPtr' \in Ptr
      /\ \A i \in T, j \in W : Before(RdPtr', i, j)
  <2>1. /\ S \in SUBSET Ptr /\ W \in SUBSET Ptr /\ W \cap (Live \cup R) = {}
        /\ \A i \in Live, j \in W : Before(RdPtr, i, j)
    BY DEF Clock
  <2>2. /\ RdPtr' \in Ptr
        /\ \A i \in Ptr \ R, j \in Ptr \ R : Before(RdPtr', i, j) <=> Before(RdPtr, i, j)
    BY OrderStays
  <2> QED  BY <2>1, <2>2
<1>2. View(T, ent', dccm', RdPtr', b) = Seen(Live, b)
  BY Carried
<1>3. b[1] \in Word /\ b[2] \in Byte /\ b = <<b[1], b[2]>>
  BY DEF Bytes
<1> HIDE DEF T
<1>a. /\ Hits(W, ent', b) = {} => View(T \cup W, ent', dccm', RdPtr', b)
                                     = View(T, ent', dccm', RdPtr', b)
      /\ Hits(W, ent', b) # {} => Holds(W, ent', b, View(T \cup W, ent', dccm', RdPtr', b))
  BY <1>1, Extend
<1>4. CASE Hits(W, ent', b) = {}
  <2>1. View(T \cup W, ent', dccm', RdPtr', b) = View(T, ent', dccm', RdPtr', b)
    BY <1>4, <1>a
  <2> QED  BY <1>2, <1>4, <2>1 DEF T
<1>5. CASE Hits(W, ent', b) # {}
  <2> DEFINE seen == View(T \cup W, ent', dccm', RdPtr', b)
  <2>a. Holds(W, ent', b, seen)
    BY <1>5, <1>a
  <2> HIDE DEF seen
  <2>b. PICK i \in Hits(W, ent', b) : seen = ent'[i].data[b[2]]
    BY <2>a DEF Holds
  <2>1. i \in Hits(W, ent', b) /\ View(T \cup W, ent', dccm', RdPtr', b) = ent'[i].data[b[2]]
    BY <2>b DEF seen
  <2>2. i \in W /\ ent'[i].word = b[1] /\ b[2] \in ent'[i].byteen
    BY <2>1 DEF Hits
  <2>3. /\ b \in dc3.bytes /\ ent'[i].data[b[2]] = store_ecc_datafn_dc3(b)
        /\ b[1] \in WordsOf(dc3)
    BY <1>3, <2>2 DEF Written
  <2> QED  BY <1>3, <1>5, <2>1, <2>2, <2>3 DEF T
<1> QED  BY <1>4, <1>5

LEMMA Read3Step ==
    ASSUME BufferInv, PipeInv, FlowInv, AgeOrder, Read2, Read3,
           NEW f, NEW op, NEW bus, NEW flip,
           NEW reqvld, NEW dual, NEW first, NEW R, NEW W, NEW K, Clock(R, W, K),
           DataCycle(f, op, bus, flip, reqvld, dual, first),
           W = Fresh(reqvld, dual), K = Kept(f), W # {} => Written(W)
    PROVE  Read3'
<1>1. /\ TypeOK /\ Pipe(f, op, reqvld, dual, bus) /\ PipeData(f, reqvld, dual)
  BY DEF BufferInv, DataCycle
<1>2. CASE lsu_freeze_dc3(f)
  <2>1. dc3' = dc3 /\ ~dc3.dccm
    BY <1>1, <1>2 DEF Pipe, lsu_freeze_dc3, PipeInv, FreezeHasOwner
  <2> QED  BY <2>1 DEF Read3, lsu_dccm_rden, InDccm
<1>3. CASE ~lsu_freeze_dc3(f)
  <2>1. dc3' = Kill(dc2, flush_dc2_up(f))
    BY <1>1, <1>3 DEF Pipe
  <2>2. CASE flush_dc2_up(f) /\ ~dc2.dma
    BY <2>1, <2>2 DEF Kill, Read3, lsu_dccm_rden, InDccm, Valid, NoOp
  <2>3. CASE ~(flush_dc2_up(f) /\ ~dc2.dma)
    <3>1. dc3' = dc2 /\ rd3' = rd2 /\ fwd3' = Forward(dc2, reqvld, dual)
      BY <1>1, <1>3, <2>1, <2>3 DEF Kill, PipeData
    <3> SUFFICES ASSUME lsu_dccm_rden(dc2), NEW b \in WordsOf(dc2) \X Byte
                 PROVE  Known3(b)' = Seen(Live, b)'
      <4>1. lsu_dccm_rden(dc3)' <=> lsu_dccm_rden(dc2)
        BY <3>1 DEF lsu_dccm_rden, InDccm, FullWord, Valid, WordsOf
      <4>2. WordsOf(dc3)' = WordsOf(dc2)
        BY <3>1 DEF WordsOf
      <4> QED  BY <4>1, <4>2 DEF Read3
    <3> DEFINE jit == JitBytes(dc2, reqvld, dual)
               H == stbuf_ldmatch(dc2, b)
    <3>2. /\ Valid(dc2) /\ InDccm(dc2) /\ dc2 \in Ops /\ dc2.dccm
      BY <1>1 DEF TypeOK, Pkt, lsu_dccm_rden, InDccm, Valid, NoOp
    <3>3. b \in Bytes /\ b[1] \in WordsOf(dc2)
      BY <3>2, WordsAre
    <3>4. /\ K = Live
          /\ Seen(Live, b) = IF H = {} THEN rd2.data[b] ELSE ent[Youngest(H)].data[b[2]]
      BY <2>3, ForwardSees
    <3>5. Known3(b)' = IF b \in jit THEN store_ecc_datafn_dc3(b) ELSE Seen(Live, b)
      <4>1. Known3(b)' = IF b \in DOMAIN fwd3' THEN fwd3'[b] ELSE rd2.data[b]
        BY <3>1 DEF Known3
      <4>2. CASE b \in jit
        <5>1. b \in DOMAIN fwd3' /\ fwd3'[b] = store_ecc_datafn_dc3(b)
          BY <3>1, <4>2 DEF Forward
        <5> QED  BY <4>1, <4>2, <5>1
      <4>3. CASE b \notin jit /\ H # {}
        <5>1. b \in DOMAIN fwd3' /\ fwd3'[b] = ent[Youngest(H)].data[b[2]]
          BY <3>1, <3>2, <4>3 DEF Forward
        <5> QED  BY <3>4, <4>1, <4>3, <5>1
      <4>4. CASE b \notin jit /\ H = {}
        <5>1. b \notin DOMAIN fwd3'
          BY <3>1, <3>2, <4>4 DEF Forward
        <5> QED  BY <3>4, <4>1, <4>4, <5>1
      <4> QED  BY <4>2, <4>3, <4>4
    <3>6. Seen(Live, b)' = View((Live \ R) \cup W, ent', dccm', RdPtr', b)
      <4>1. Live' = (Live \ R) \cup W
        BY <3>4 DEF Clock
      <4> QED  BY <4>1 DEF Seen
    <3>7. b \in jit => reqvld /\ W # {} /\ b \in dc3.bytes
      BY DEF JitBytes, Fresh, Entries
    <3>8. CASE /\ Hits(W, ent', b) = {}
               /\ View((Live \ R) \cup W, ent', dccm', RdPtr', b) = Seen(Live, b)
      <4>1. ASSUME b \in jit PROVE store_ecc_datafn_dc3(b) = Seen(Live, b)
        <5>1. Written(W) /\ b \in dc3.bytes /\ InDccm(dc3) /\ dc3 \in Ops /\ dc3.dccm
          BY <3>7, <4>1 DEF Written, InDccm
        <5>2. b \in WordsOf(dc3) \X Byte
          BY <5>1, WordsAre
        <5>3. dc3.kind # "store"
          <6> SUFFICES ASSUME dc3.kind = "store" PROVE FALSE
            OBVIOUS
          <6>1. PICK i \in W : ent'[i].word = b[1]
            BY <5>1, <5>2 DEF Written
          <6>2. b[2] \in Byte /\ <<ent'[i].word, b[2]>> = b
            BY <5>2, <6>1
          <6>3. b[2] \in ent'[i].byteen
            BY <5>1, <6>2 DEF Written
          <6> QED  BY <3>8, <6>1, <6>3 DEF Hits
        <5> QED  BY <5>1, <5>2, <5>3, MergedByte
      <4> QED  BY <3>5, <3>6, <3>8, <4>1
    <3>9. CASE /\ W # {} /\ b \in dc3.bytes /\ b \in WordsOf(dc3) \X Byte
               /\ View((Live \ R) \cup W, ent', dccm', RdPtr', b) = store_ecc_datafn_dc3(b)
      <4>1. ASSUME b \notin jit PROVE store_ecc_datafn_dc3(b) = Seen(Live, b)
        <5>1. Written(W) /\ Valid(dc3) /\ InDccm(dc3) /\ dc3 \in Ops /\ dc3.dccm
          BY <3>9 DEF Written, InDccm
        <5>2. reqvld /\ Requested(f, dual, first)
          BY <3>9 DEF Fresh, DataCycle
        <5>3. ~(dc2.dma /\ ~dc3.dma)
          BY <3>2, <5>1 DEF PipeInv, DmaFollowsNoCoreOp, IsCore
        <5>4. b[1] # LowWord(dc3) /\ ~dual
          BY <3>2, <3>3, <3>9, <4>1, <5>2, <5>3 DEF JitBytes
        <5>5. dc3.dual
          <6>1. /\ WordsOf(dc3) = {LowWord(dc3), HighWord(dc3)}
                /\ ~dc3.dual => LowWord(dc3) = HighWord(dc3)
            BY <5>1, WordsAre
          <6> QED  BY <3>9, <5>4, <6>1
        <5>6. dc3.kind # "store"
          BY <5>2, <5>4, <5>5 DEF Requested
        <5> QED  BY <3>9, <5>1, <5>6, MergedByte
      <4> QED  BY <3>5, <3>6, <3>9, <4>1
    <3> QED
      <4>1. Live \in SUBSET Live
        OBVIOUS
      <4> QED  BY <3>3, <3>8, <3>9, <4>1, WrittenSeen
  <2> QED  BY <2>2, <2>3
<1> QED  BY <1>2, <1>3

(* When dc3 passes on a core operation, no flush reaches what is in front  *)
(* of it: everything live moves on, committed or owned by the new dc5.     *)
LEMMA Staged4Step ==
    ASSUME BufferInv, FlowInv, Read3,
           NEW f, NEW op, NEW bus, NEW flip,
           NEW reqvld, NEW dual, NEW first, NEW R, NEW W, NEW K, Clock(R, W, K),
           DataCycle(f, op, bus, flip, reqvld, dual, first),
           R = stbuf_reset(f, BankConflict), W = Fresh(reqvld, dual), W # {} => Written(W)
    PROVE  Staged4'
<1>1. /\ TypeOK /\ Pipe(f, op, reqvld, dual, bus) /\ PipeData(f, reqvld, dual)
      /\ f \in FlushLevel
  BY DEF BufferInv, DataCycle
<1>2. /\ dc4'.valid = (~lsu_freeze_dc3(f) /\ Valid(Kill(dc3, flush_dc3(f))))
      /\ dc4'.dma = dc3.dma
  BY <1>1, Moves
<1> SUFFICES ASSUME dc4'.valid, ~dc3.dma
             PROVE  \/ op4' = Nothing /\ Entries4' = {}
                    \/ /\ op4'.op \in Ops /\ op4'.op.dccm
                       /\ \/ LoadStaged(op4, Entries4, drain_vld \cup Entries5)'
                          \/ StoreStaged(op4, Entries4)'
  BY <1>2 DEF Staged4
<1>3. Valid(dc3) /\ ~flush_dc3(f) /\ ~lsu_freeze_dc3(f)
  BY <1>2 DEF Kill, NoOp, Valid
<1>4. /\ drain_vld' = (drain_vld \cup (IF lsu_commit_dc5(f) THEN Entries5 ELSE {})) \ R
      /\ Entries5' = Entries4 /\ Entries4' = W /\ R \cap (Entries4 \cup Entries5) = {}
  <2>1. /\ drain_vld' = (drain_vld \cup (IF lsu_commit_dc5(f) THEN Entries5 ELSE {})
                                   \cup (IF dc3.dma THEN W ELSE {})) \ R
        /\ Entries5' = Entries4 /\ Entries4' = IF dc3.dma THEN {} ELSE W
        /\ R \cap (Entries4 \cup Entries5) = {}
    BY SetsStep
  <2> QED  BY <2>1
<1>5. Entries5 # {} => dc5.valid /\ lsu_commit_dc5(f)
  <2>1. Entries5 # {} => ~dc5.dma /\ dc5.valid
    BY <1>1, <1>3, EntriesAre DEF FlowInv, FlushEmpties
  <2> QED  BY <1>3, <2>1 DEF lsu_commit_dc5, flush_dc3, flush_dc5
<1>6. (drain_vld \cup Entries5)' = Live \ R
  BY <1>4, <1>5 DEF Live
<1>7. \A b \in Bytes : Seen(drain_vld \cup Entries5, b)' = Seen(Live, b)
  <2> SUFFICES ASSUME NEW b \in Bytes
               PROVE  Seen(drain_vld \cup Entries5, b)' = Seen(Live, b)
    OBVIOUS
  <2>1. View(Live \ R, ent', dccm', RdPtr', b) = Seen(Live, b)
    BY Carried
  <2>2. Seen(drain_vld \cup Entries5, b)'
          = View((drain_vld \cup Entries5)', ent', dccm', RdPtr', b)
    BY DEF Seen
  <2> QED  BY <1>6, <2>1, <2>2
<1>8. CASE ~InDccm(dc3)
  <2>1. op4' = Nothing
    BY <1>1, <1>8 DEF PipeData
  <2>2. W = {}
    BY <1>8 DEF Written
  <2> QED  BY <1>4, <2>1, <2>2
<1>9. CASE InDccm(dc3)
  <2>1. dc3 \in Ops /\ dc3.dccm
    BY <1>1, <1>9 DEF TypeOK, Pkt, InDccm, Valid, NoOp
  <2>2. op4' = [op |-> dc3, data |-> IF dc3.kind = "load" THEN LoadData ELSE None]
    BY <1>1, <1>9 DEF PipeData
  <2>3. op4'.op = dc3
    BY <2>2
  <2>4. dc3.bytes \subseteq WordsOf(dc3) \X Byte /\ WordsOf(dc3) \X Byte \subseteq Bytes
    BY <2>1, WordsAre
  <2>5. CASE dc3.kind = "load"
    <3>1. \A b \in WordsOf(dc3) \X Byte : Known3(b) = Seen(Live, b)
      BY <1>9, <2>5 DEF Read3, lsu_dccm_rden
    <3>2. op4'.data = [b \in dc3.bytes |-> Known3(b)]
      BY <2>2, <2>5 DEF LoadData, Known3
    <3>3. op4'.data = [b \in dc3.bytes |-> Seen(drain_vld \cup Entries5, b)']
      BY <1>7, <2>4, <3>1, <3>2
    <3>4. ASSUME NEW i \in W, NEW c \in Byte, c \in ent'[i].byteen
          PROVE  ent'[i].data[c] = Seen(drain_vld \cup Entries5, <<ent[i].word, c>>)'
      <4>1. Written(W)
        OBVIOUS
      <4> DEFINE b == <<ent'[i].word, c>>
      <4>2. ent'[i].data[c] = store_ecc_datafn_dc3(b) /\ b \in WordsOf(dc3) \X Byte
        BY <4>1 DEF Written
      <4>3. b \in Bytes
        BY <2>4, <4>2
      <4> HIDE DEF b
      <4>4. store_ecc_datafn_dc3(b) = Seen(Live, b)
        BY <1>9, <2>1, <2>5, <4>2, MergedByte
      <4>5. Seen(drain_vld \cup Entries5, <<ent[i].word, c>>)'
              = View((drain_vld \cup Entries5)', ent', dccm', RdPtr', b)
        BY DEF Seen, b
      <4>6. View((drain_vld \cup Entries5)', ent', dccm', RdPtr', b) = Seen(Live, b)
        BY <1>6, <4>3, Carried
      <4> QED  BY <4>2, <4>4, <4>5, <4>6
    <3>5. LoadStaged(op4, Entries4, drain_vld \cup Entries5)'
      BY <1>4, <2>3, <2>5, <3>3, <3>4 DEF LoadStaged
    <3> QED  BY <2>1, <2>3, <3>5
  <2>6. CASE dc3.kind = "store"
    <3>1. reqvld
      BY <1>3, <2>1, <2>6 DEF DataCycle, store_stbuf_reqvld_dc3, Dc3Live
    <3>2. W # {} /\ Written(W)
      BY <3>1 DEF Fresh, Entries
    <3>3. ASSUME NEW i \in W, NEW c \in Byte, c \in ent'[i].byteen
          PROVE  /\ <<ent'[i].word, c>> \in dc3.bytes
                 /\ ent'[i].data[c] = dc3.val
      <4>1. /\ <<ent'[i].word, c>> \in dc3.bytes
            /\ ent'[i].data[c] = store_ecc_datafn_dc3(<<ent'[i].word, c>>)
        BY <3>2, <3>3 DEF Written
      <4> QED  BY <2>6, <4>1 DEF store_ecc_datafn_dc3
    <3>4. ASSUME NEW b \in dc3.bytes PROVE Hits(W, ent', b) # {}
      <4>1. b[1] \in WordsOf(dc3) /\ b[2] \in Byte /\ b = <<b[1], b[2]>>
        BY <2>4
      <4>2. PICK i \in W : ent'[i].word = b[1]
        BY <2>6, <3>2, <4>1 DEF Written
      <4>3. b[2] \in ent'[i].byteen
        <5>1. b[2] \in ent'[i].byteen <=> <<ent'[i].word, b[2]>> \in dc3.bytes
          BY <3>2, <4>1 DEF Written
        <5> QED  BY <4>1, <4>2, <5>1
      <4> QED  BY <4>2, <4>3 DEF Hits
    <3>5. StoreStaged(op4, Entries4)'
      <4>1. \A b \in dc3.bytes : Hits(Entries4', ent', b) # {}
        BY <1>4, <3>4
      <4> QED  BY <1>4, <2>3, <2>6, <3>3, <4>1 DEF StoreStaged, Hits
    <3> QED  BY <2>1, <2>3, <3>5
  <2> QED
    <3>1. dc3.kind \in {"load", "store"}
      BY <2>1, OpsAssumption DEF WellFormed, Kinds
    <3> QED  BY <2>5, <2>6, <3>1
<1> QED  BY <1>8, <1>9

(* From dc4 to dc5 an operation keeps its entries, and what it lies over   *)
(* becomes committed.                                                      *)
LEMMA Staged5Step ==
    ASSUME BufferInv, FlowInv, FilledUp, Staged4,
           NEW f, NEW op, NEW bus, NEW flip,
           NEW reqvld, NEW dual, NEW first, NEW R, NEW W, NEW K, Clock(R, W, K),
           DataCycle(f, op, bus, flip, reqvld, dual, first),
           R = stbuf_reset(f, BankConflict), W = Fresh(reqvld, dual), W # {} => Written(W)
    PROVE  Staged5'
<1>1. /\ TypeOK /\ Pipe(f, op, reqvld, dual, bus) /\ PipeData(f, reqvld, dual)
      /\ f \in FlushLevel
  BY DEF BufferInv, DataCycle
<1>2. /\ dc5'.valid = (dc4.valid /\ (flush_dc4(f) => dc4.dma)) /\ dc5'.dma = dc4.dma
  BY <1>1, Moves
<1> SUFFICES ASSUME dc5'.valid, ~dc4.dma
             PROVE  \/ op5' = Nothing /\ Entries5' = {}
                    \/ /\ op5'.op \in Ops /\ op5'.op.dccm
                       /\ LoadStaged(op5, Entries5, drain_vld)' \/ StoreStaged(op5, Entries5)'
  BY <1>2 DEF Staged5
<1>3. dc4.valid /\ ~flush_dc4(f)
  BY <1>2
<1>4. op5' = op4
  BY <1>1 DEF PipeData
<1>5. W # {} => ~dc3.dma
  BY <1>3 DEF Written, FlowInv, DmaAlone, Quiet
<1>6. /\ drain_vld' = (drain_vld \cup (IF lsu_commit_dc5(f) THEN Entries5 ELSE {})) \ R
      /\ Entries5' = Entries4 /\ R \cap (Entries4 \cup Entries5) = {}
  <2>1. /\ drain_vld' = (drain_vld \cup (IF lsu_commit_dc5(f) THEN Entries5 ELSE {})
                                   \cup (IF dc3.dma THEN W ELSE {})) \ R
        /\ Entries5' = Entries4
        /\ R \cap (Entries4 \cup Entries5) = {}
    BY SetsStep
  <2> QED  BY <1>5, <2>1
<1>7. Entries5 # {} => dc5.valid /\ lsu_commit_dc5(f)
  <2>1. Entries5 # {} => ~dc5.dma /\ dc5.valid
    BY <1>1, <1>3, EntriesAre DEF FlowInv, FlushEmpties
  <2> QED  BY <1>3, <2>1 DEF lsu_commit_dc5, flush_dc4, flush_dc5
<1> DEFINE S == drain_vld \cup Entries5
<1>8. /\ drain_vld' = S \ R /\ S \in SUBSET Live /\ R \cap Live \subseteq S
      /\ Entries4 \subseteq Live
  BY <1>6, <1>7 DEF Live
<1> HIDE DEF S
<1>9. \A i \in Entries4 : ent'[i] = ent[i] /\ ent[i].word \in Word
  BY <1>6, <1>8 DEF Clock, FilledUp
<1>10. ASSUME NEW b \in Bytes
       PROVE  View(drain_vld', ent', dccm', RdPtr', b) = Seen(S, b)
  <2>1. View(S \ R, ent', dccm', RdPtr', b) = Seen(S, b)
    BY <1>8, Carried
  <2> QED  BY <1>8, <2>1
<1>11. CASE op4 = Nothing /\ Entries4 = {}
  BY <1>4, <1>6, <1>11
<1>12. CASE op4.op \in Ops /\ op4.op.dccm /\ LoadStaged(op4, Entries4, S)
  <2>1. op4.op.bytes \subseteq Bytes
    BY <1>12, WordsAre
  <2>2. op5'.data = [b \in op4.op.bytes |-> View(drain_vld', ent', dccm', RdPtr', b)]
    BY <1>4, <1>10, <1>12, <2>1 DEF LoadStaged
  <2>3. op5'.data = [b \in op5'.op.bytes |-> Seen(drain_vld, b)']
    BY <1>4, <2>2 DEF Seen
  <2>4. ASSUME NEW i \in Entries4, NEW c \in Byte, c \in ent'[i].byteen
        PROVE  ent'[i].data[c] = Seen(drain_vld, <<ent[i].word, c>>)'
    <3>1. ent[i].data[c] = Seen(S, <<ent[i].word, c>>)
      BY <1>9, <1>12, <2>4 DEF LoadStaged
    <3>2. <<ent[i].word, c>> \in Bytes
      BY <1>9 DEF Bytes
    <3>3. Seen(drain_vld, <<ent[i].word, c>>)'
            = View(drain_vld', ent', dccm', RdPtr', <<ent'[i].word, c>>)
      BY DEF Seen
    <3> QED  BY <1>9, <1>10, <3>1, <3>2, <3>3
  <2>5. op5'.op.kind = "load"
    BY <1>4, <1>12 DEF LoadStaged
  <2>6. LoadStaged(op5, Entries5, drain_vld)'
    BY <1>6, <2>3, <2>4, <2>5 DEF LoadStaged
  <2> QED  BY <1>4, <1>12, <2>6
<1>13. CASE op4.op \in Ops /\ op4.op.dccm /\ StoreStaged(op4, Entries4)
  <2>1. \A b : Hits(Entries4, ent', b) = Hits(Entries4, ent, b)
    BY <1>9 DEF Hits
  <2>2. \A b \in op4.op.bytes : Hits(Entries4, ent', b) # {}
    BY <1>13, <2>1 DEF StoreStaged
  <2>3. \A i \in Entries4 : \A c \in Byte : c \in ent'[i].byteen =>
              /\ <<ent'[i].word, c>> \in op4.op.bytes
              /\ ent'[i].data[c] = op4.op.val
    BY <1>9, <1>13 DEF StoreStaged
  <2>4. op4.op.kind = "store"
    BY <1>13 DEF StoreStaged
  <2>5. StoreStaged(op5, Entries5)'
    BY <1>4, <1>6, <2>2, <2>3, <2>4 DEF StoreStaged, Hits
  <2> QED  BY <1>4, <1>13, <2>5
<1> QED  BY <1>3, <1>11, <1>12, <1>13 DEF Staged4, S

(* One clock keeps the invariant. *)
LEMMA DataStepInv ==
    ASSUME BufferInv, PipeInv, DataInv, NEW f, NEW op, NEW bus, NEW flip,
           NEW reqvld, NEW dual, NEW first, NEW R, NEW W, NEW K,
           DataCycle(f, op, bus, flip, reqvld, dual, first),
           R = stbuf_reset(f, BankConflict), W = Fresh(reqvld, dual), K = Kept(f)
    PROVE  DataInv' /\ Clock(R, W, K) /\ (W # {} => Written(W))
<1>1. /\ FlowInv /\ AgeOrder /\ FilledUp /\ Read2 /\ Read3 /\ Staged4 /\ Staged5
  BY DEF DataInv
<1>2. Clock(R, W, K)
  BY <1>1, ClockIs
<1>3. W # {} => Written(W)
  <2>1. W \in SUBSET Ptr /\ W \subseteq data_vld'
    <3>1. /\ W \in SUBSET Ptr /\ W \cap data_vld = {} /\ R \subseteq data_vld
          /\ data_vld' = (data_vld \cup W) \ R
      BY <1>1, SetsStep
    <3> QED  BY <3>1
  <2>2. W # {} => reqvld
    BY DEF Fresh
  <2> QED  BY <2>1, <2>2, WrittenIs
<1>4. FlowInv'
  BY <1>1, FlowStep
<1>5. AgeOrder'
  BY <1>1, <1>2, AgeOrderStep
<1>6. FilledUp'
  BY <1>1, <1>2, <1>3, FilledUpStep
<1>7. Read2'
  BY <1>1, Read2Step
<1>8. Read3'
  BY <1>1, <1>2, <1>3, Read3Step
<1>9. Staged4'
  BY <1>1, <1>2, <1>3, Staged4Step
<1>10. Staged5'
  BY <1>1, <1>2, <1>3, Staged5Step
<1> QED  BY <1>2, <1>3, <1>4, <1>5, <1>6, <1>7, <1>8, <1>9, <1>10 DEF DataInv

-----------------------------------------------------------------------------
(* The memory a program sees, word by word, is what a reader of the        *)
(* committed entries sees byte by byte: the bytes that an entry fills up   *)
(* are those of the older ones.                                            *)
LEMMA VisibleIs ==
    ASSUME BufferInv, AgeOrder, FilledUp, NEW b \in Bytes
    PROVE  VisibleMemory[b] = Seen(drain_vld, b)
<1> DEFINE C == Committed(b[1])
<1>1. /\ RdPtr \in Ptr /\ drain_vld \subseteq data_vld /\ drain_vld \in SUBSET Ptr
      /\ b[1] \in Word /\ b[2] \in Byte /\ b = <<b[1], b[2]>>
  BY DEF BufferInv, TypeOK, MarksAreSound, Bytes
<1>2. VisibleMemory[b] = IF C = {} THEN dccm[b] ELSE ent[Youngest(C)].data[b[2]]
  BY DEF VisibleMemory
<1>3. C \in SUBSET data_vld /\ C \subseteq drain_vld /\ Hits(drain_vld, ent, b) \subseteq C
  BY <1>1 DEF Committed, Hits
<1>4. CASE C = {}
  <2>1. Hits(drain_vld, ent, b) = {}
    BY <1>3, <1>4
  <2> QED  BY <1>2, <1>4, <2>1 DEF Seen, View
<1>5. CASE C # {}
  <2> DEFINE y == Youngest(C)
  <2>1. y \in C /\ \A j \in C : Distance(RdPtr, j) <= Distance(RdPtr, y)
    <3> HIDE DEF C
    <3> QED  BY <1>3, <1>5, YoungestIs
  <2>2. y \in drain_vld /\ y \in Live /\ y \in Ptr /\ ent[y].word = b[1]
    BY <1>1, <1>3, <2>1 DEF Committed, Live
  <2> HIDE DEF C, y
  <2>3. CASE b[2] \in ent[y].byteen
    <3>1. y \in Hits(drain_vld, ent, b)
      BY <2>2, <2>3 DEF Hits
    <3>2. View(drain_vld, ent, dccm, RdPtr, b) = ent[y].data[b[2]]
      BY <1>1, <1>3, <2>1, <3>1, ViewTop
    <3> QED  BY <1>2, <1>5, <3>2 DEF Seen, y
  <2>4. CASE b[2] \notin ent[y].byteen
    <3>1. ent[y].data[b[2]] = Seen(Below(y), b)
      <4>1. ent[y].data[b[2]] = Seen(Below(y), <<ent[y].word, b[2]>>)
        BY <1>1, <2>2, <2>4 DEF FilledUp
      <4> QED  BY <1>1, <2>2, <4>1
    <3>2. Hits(Below(y), ent, b) = Hits(drain_vld, ent, b)
      <4>1. ASSUME NEW j \in Live, Before(RdPtr, j, y) PROVE j \in drain_vld
        <5>1. CASE j \in Entries4 \cup Entries5
          <6>1. Before(RdPtr, y, j) /\ j \in Ptr
            BY <2>2, <5>1 DEF AgeOrder, BufferInv, NoOrphanEntry, TypeOK, Entries4, Entries5
          <6> QED  BY <1>1, <2>2, <4>1, <6>1, BeforeIsOrder
        <5> QED  BY <4>1, <5>1 DEF Live
      <4>2. ASSUME NEW j \in Hits(drain_vld, ent, b) PROVE j \in Live /\ Before(RdPtr, j, y)
        <5>1. j \in C /\ j \in Live /\ j \in Ptr /\ j # y
          BY <1>1, <1>3, <2>4, <4>2 DEF Hits, Live
        <5>2. Distance(RdPtr, j) <= Distance(RdPtr, y)
          BY <2>1, <5>1
        <5>3. ~Before(RdPtr, y, j)
          <6>1. Distance(RdPtr, j) \in 0 .. DEPTH - 1 /\ Distance(RdPtr, y) \in 0 .. DEPTH - 1
            BY <1>1, <2>2, <5>1, DistanceIs
          <6> QED  BY <5>2, <6>1 DEF Before
        <5> QED  BY <1>1, <2>2, <5>1, <5>3, BeforeIsOrder
      <4>3. \A j \in Hits(Below(y), ent, b) : j \in Hits(drain_vld, ent, b)
        BY <4>1 DEF Hits, Below
      <4>4. \A j \in Hits(drain_vld, ent, b) : j \in Hits(Below(y), ent, b)
        BY <4>2 DEF Hits, Below
      <4> QED  BY <4>3, <4>4
    <3> QED  BY <1>2, <1>5, <3>1, <3>2 DEF Seen, View, y
  <2> QED  BY <2>3, <2>4
<1> QED  BY <1>4, <1>5

(* A core operation that commits in dc5 takes effect at once. *)
LEMMA CoreCommits ==
    ASSUME BufferInv, DataInv, NEW f, NEW op, NEW bus, NEW flip,
           NEW reqvld, NEW dual, NEW first, NEW R, NEW W, NEW K,
           DataCycle(f, op, bus, flip, reqvld, dual, first),
           R = stbuf_reset(f, BankConflict), W = Fresh(reqvld, dual),
           Clock(R, W, K), W # {} => Written(W), lsu_commit_dc5(f),
           NEW mem, NEW mem2,
           \A b \in Bytes : mem[b] = Seen(drain_vld, b) /\ mem2[b] = Seen(drain_vld, b)'
    PROVE  \/ op5 = Nothing /\ result' = None /\ \A b \in Bytes : mem2[b] = mem[b]
           \/ /\ op5.op \in Ops /\ op5.op.dccm /\ op5.op.kind = "load"
              /\ result' = [b \in op5.op.bytes |-> mem[b]]
              /\ \A b \in Bytes : mem2[b] = mem[b]
           \/ /\ op5.op \in Ops /\ op5.op.dccm /\ op5.op.kind = "store" /\ result' = None
              /\ \A b \in Bytes : mem2[b] = IF b \in op5.op.bytes THEN op5.op.val ELSE mem[b]
<1>1. /\ FlowInv /\ AgeOrder /\ FilledUp /\ Staged5 /\ TypeOK /\ ResultStep(f)
  BY DEF BufferInv, DataInv, DataCycle
<1>2. dc5.valid /\ ~dc5.dma
  BY DEF lsu_commit_dc5
<1>3. ~(Valid(dc3) /\ dc3.dma)
  BY <1>1, <1>2 DEF FlowInv, DmaAlone, Quiet
<1>4. result' = IF op5.op.kind = "load" THEN op5.data ELSE None
  BY <1>1, <1>3 DEF ResultStep, InDccm
<1>5. drain_vld' = (drain_vld \cup Entries5) \ R /\ R \cap (Entries4 \cup Entries5) = {}
  <2>1. /\ drain_vld' = (drain_vld \cup Entries5 \cup (IF dc3.dma THEN W ELSE {})) \ R
        /\ R \cap (Entries4 \cup Entries5) = {}
    BY <1>1, SetsStep
  <2>2. W # {} => ~dc3.dma
    BY <1>3 DEF Written
  <2> QED  BY <2>1, <2>2
<1> DEFINE S == drain_vld \cup Entries5
<1>6. S \in SUBSET Live /\ R \cap Live \subseteq S /\ drain_vld' = S \ R
  BY <1>2, <1>5 DEF Live
<1>7. /\ RdPtr \in Ptr /\ drain_vld \in SUBSET Ptr /\ Entries5 \in SUBSET Ptr
      /\ \A i \in drain_vld, j \in Entries5 : Before(RdPtr, i, j)
  BY <1>1, EntriesAre DEF TypeOK, AgeOrder
<1>8. ASSUME NEW b \in Bytes
      PROVE  /\ Hits(Entries5, ent, b) = {} => mem2[b] = mem[b]
             /\ Hits(Entries5, ent, b) # {} => Holds(Entries5, ent, b, mem2[b])
  <2>1. /\ Hits(Entries5, ent, b) = {} => View(S, ent, dccm, RdPtr, b)
                                          = View(drain_vld, ent, dccm, RdPtr, b)
        /\ Hits(Entries5, ent, b) # {} => Holds(Entries5, ent, b, View(S, ent, dccm, RdPtr, b))
    BY <1>7, Extend
  <2> HIDE DEF S
  <2>2. View(S \ R, ent', dccm', RdPtr', b) = Seen(S, b)
    BY <1>6, Carried
  <2>3. mem2[b] = View(S, ent, dccm, RdPtr, b)
    BY <1>6, <2>2 DEF Seen
  <2> QED  BY <2>1, <2>3 DEF Seen
<1>9. ASSUME NEW b \in Bytes, NEW i \in Hits(Entries5, ent, b)
      PROVE  /\ i \in Entries5 /\ b[2] \in Byte /\ b[2] \in ent[i].byteen
             /\ b = <<ent[i].word, b[2]>>
  BY DEF Hits, Bytes
<1>10. CASE op5 = Nothing /\ Entries5 = {}
  <2>1. \A b \in Bytes : Hits(Entries5, ent, b) = {}
    BY <1>10 DEF Hits
  <2>2. op5.op.kind # "load"
    BY <1>10 DEF Nothing, NoOp
  <2> QED  BY <1>4, <1>8, <1>10, <2>1, <2>2
<1>11. CASE op5.op \in Ops /\ op5.op.dccm /\ LoadStaged(op5, Entries5, drain_vld)
  <2>1. op5.op.kind = "load" /\ op5.data = [b \in op5.op.bytes |-> Seen(drain_vld, b)]
    BY <1>11 DEF LoadStaged
  <2>2. op5.op.bytes \subseteq Bytes
    BY <1>11, WordsAre
  <2>3. result' = [b \in op5.op.bytes |-> mem[b]]
    BY <1>4, <2>1, <2>2
  <2>4. ASSUME NEW b \in Bytes PROVE mem2[b] = mem[b]
    <3>1. CASE Hits(Entries5, ent, b) # {}
      <4>1. PICK i \in Hits(Entries5, ent, b) : mem2[b] = ent[i].data[b[2]]
        BY <1>8, <3>1 DEF Holds
      <4>2. ent[i].data[b[2]] = Seen(drain_vld, <<ent[i].word, b[2]>>)
        BY <1>9, <1>11 DEF LoadStaged
      <4> QED  BY <1>9, <4>1, <4>2
    <3> QED  BY <1>8, <3>1
  <2> QED  BY <1>11, <2>1, <2>3, <2>4
<1>12. CASE op5.op \in Ops /\ op5.op.dccm /\ StoreStaged(op5, Entries5)
  <2>1. op5.op.kind = "store" /\ result' = None
    BY <1>4, <1>12 DEF StoreStaged
  <2>2. ASSUME NEW b \in Bytes
        PROVE  mem2[b] = IF b \in op5.op.bytes THEN op5.op.val ELSE mem[b]
    <3>1. CASE Hits(Entries5, ent, b) # {}
      <4>1. PICK i \in Hits(Entries5, ent, b) : mem2[b] = ent[i].data[b[2]]
        BY <1>8, <3>1 DEF Holds
      <4>2. <<ent[i].word, b[2]>> \in op5.op.bytes /\ ent[i].data[b[2]] = op5.op.val
        BY <1>9, <1>12 DEF StoreStaged
      <4> QED  BY <1>9, <4>1, <4>2
    <3>2. CASE Hits(Entries5, ent, b) = {}
      <4>1. b \notin op5.op.bytes
        BY <1>12, <3>2 DEF StoreStaged
      <4> QED  BY <1>8, <3>2, <4>1
    <3> QED  BY <3>1, <3>2
  <2> QED  BY <1>12, <2>1, <2>2
<1> QED  BY <1>1, <1>2, <1>10, <1>11, <1>12 DEF Staged5

(* An operation of the DMA takes effect from dc3. *)
LEMMA DmaCommits ==
    ASSUME BufferInv, PipeInv, DataInv, NEW f, NEW op, NEW bus, NEW flip,
           NEW reqvld, NEW dual, NEW first, NEW R, NEW W, NEW K,
           DataCycle(f, op, bus, flip, reqvld, dual, first),
           R = stbuf_reset(f, BankConflict), W = Fresh(reqvld, dual),
           Clock(R, W, K), W # {} => Written(W), Valid(dc3), dc3.dma,
           NEW mem, NEW mem2,
           \A b \in Bytes : mem[b] = Seen(drain_vld, b) /\ mem2[b] = Seen(drain_vld, b)'
    PROVE  /\ dc3 \in Ops /\ dc3.dccm
           /\ \/ /\ dc3.kind = "load" /\ result' = [b \in dc3.bytes |-> mem[b]]
                 /\ \A b \in Bytes : mem2[b] = mem[b]
              \/ /\ dc3.kind = "store" /\ result' = None
                 /\ \A b \in Bytes : mem2[b] = IF b \in dc3.bytes THEN dc3.val ELSE mem[b]
<1>1. /\ FlowInv /\ AgeOrder /\ Read3 /\ TypeOK /\ ResultStep(f)
  BY DEF BufferInv, DataInv, DataCycle
<1>2. dc3 \in Ops /\ dc3.dccm /\ dc3.kind \in {"load", "store"} /\ InDccm(dc3)
  <2>1. dc3 \in Ops
    BY <1>1 DEF TypeOK, Pkt, NoOp, Valid
  <2> QED  BY <2>1, OpsAssumption DEF WellFormed, Kinds, InDccm
<1>3. /\ Entries4 = {} /\ Entries5 = {} /\ ~lsu_commit_dc5(f)
  BY <1>1 DEF FlowInv, DmaAlone, Quiet, Entries4, Entries5, lsu_commit_dc5
<1>4. Live = drain_vld
  BY <1>3 DEF Live
<1>5. drain_vld' = (drain_vld \cup W) \ R /\ W \cap R = {}
  <2>1. /\ drain_vld' = (drain_vld \cup (IF lsu_commit_dc5(f) THEN Entries5 ELSE {})
                                   \cup (IF dc3.dma THEN W ELSE {})) \ R
    BY <1>1, SetsStep
  <2> QED  BY <1>3, <2>1 DEF Clock
<1>6. drain_vld' = (Live \ R) \cup W
  BY <1>4, <1>5
<1>7. ASSUME NEW b \in Bytes
      PROVE  \/ Hits(W, ent', b) = {} /\ mem2[b] = mem[b]
             \/ /\ Hits(W, ent', b) # {} /\ W # {}
                /\ b \in dc3.bytes /\ b \in WordsOf(dc3) \X Byte
                /\ mem2[b] = store_ecc_datafn_dc3(b)
  <2>1. Live \in SUBSET Live
    OBVIOUS
  <2>2. \/ /\ Hits(W, ent', b) = {}
           /\ View((Live \ R) \cup W, ent', dccm', RdPtr', b) = Seen(Live, b)
        \/ /\ Hits(W, ent', b) # {} /\ W # {}
           /\ b \in dc3.bytes /\ b \in WordsOf(dc3) \X Byte
           /\ View((Live \ R) \cup W, ent', dccm', RdPtr', b) = store_ecc_datafn_dc3(b)
    BY <1>1, <2>1, WrittenSeen
  <2>3. mem2[b] = View((Live \ R) \cup W, ent', dccm', RdPtr', b)
    BY <1>6 DEF Seen
  <2>4. mem[b] = Seen(Live, b)
    BY <1>4
  <2> QED  BY <2>2, <2>3, <2>4
<1>8. dc3.bytes \subseteq WordsOf(dc3) \X Byte /\ WordsOf(dc3) \X Byte \subseteq Bytes
  BY <1>2, WordsAre
<1>9. CASE dc3.kind = "load"
  <2>1. \A b \in WordsOf(dc3) \X Byte : Known3(b) = Seen(Live, b)
    BY <1>1, <1>2, <1>9 DEF Read3, lsu_dccm_rden
  <2>2. result' = [b \in dc3.bytes |-> Known3(b)]
    BY <1>1, <1>2, <1>3, <1>9 DEF ResultStep, LoadData, Known3
  <2>3. result' = [b \in dc3.bytes |-> mem[b]]
    BY <1>4, <1>8, <2>1, <2>2
  <2>4. ASSUME NEW b \in Bytes PROVE mem2[b] = mem[b]
    <3>1. CASE b \in WordsOf(dc3) \X Byte /\ mem2[b] = store_ecc_datafn_dc3(b)
      <4>1. store_ecc_datafn_dc3(b) = Seen(Live, b)
        BY <1>1, <1>2, <1>9, <3>1, MergedByte
      <4> QED  BY <1>4, <3>1, <4>1
    <3> QED  BY <1>7, <3>1
  <2> QED  BY <1>2, <1>9, <2>3, <2>4
<1>10. CASE dc3.kind = "store"
  <2>1. reqvld
    <3>1. ~ld_freeze
      BY DEF PipeInv, FreezeHasOwner, IsCore
    <3> QED  BY <1>2, <1>10, <3>1 DEF DataCycle, store_stbuf_reqvld_dc3, Dc3Live, lsu_freeze_dc3
  <2>2. W # {} /\ Written(W)
    BY <2>1 DEF Fresh, Entries
  <2>3. result' = None
    BY <1>1, <1>3, <1>10 DEF ResultStep
  <2>4. ASSUME NEW b \in Bytes
        PROVE  mem2[b] = IF b \in dc3.bytes THEN dc3.val ELSE mem[b]
    <3>1. CASE Hits(W, ent', b) # {}
      <4>1. b \in dc3.bytes /\ mem2[b] = store_ecc_datafn_dc3(b)
        BY <1>7, <3>1
      <4> QED  BY <1>10, <4>1 DEF store_ecc_datafn_dc3
    <3>2. CASE Hits(W, ent', b) = {}
      <4>1. b \notin dc3.bytes
        <5> SUFFICES ASSUME b \in dc3.bytes PROVE FALSE
          OBVIOUS
        <5>1. b[1] \in WordsOf(dc3) /\ b[2] \in Byte /\ b = <<b[1], b[2]>>
          BY <1>8
        <5>2. PICK i \in W : ent'[i].word = b[1]
          BY <1>10, <2>2, <5>1 DEF Written
        <5>3. b[2] \in ent'[i].byteen
          <6>1. b[2] \in ent'[i].byteen <=> <<ent'[i].word, b[2]>> \in dc3.bytes
            BY <2>2, <5>1 DEF Written
          <6> QED  BY <5>1, <5>2, <6>1
        <5> QED  BY <3>2, <5>2, <5>3 DEF Hits
      <4> QED  BY <1>7, <3>2, <4>1
    <3> QED  BY <3>1, <3>2
  <2> QED  BY <1>2, <1>10, <2>3, <2>4
<1> QED  BY <1>2, <1>9, <1>10

(* Otherwise nothing changes, whatever is flushed, written or drained.     *)
LEMMA NothingCommits ==
    ASSUME BufferInv, DataInv, NEW f, NEW op, NEW bus, NEW flip,
           NEW reqvld, NEW dual, NEW first, NEW R, NEW W, NEW K,
           DataCycle(f, op, bus, flip, reqvld, dual, first),
           R = stbuf_reset(f, BankConflict), W = Fresh(reqvld, dual),
           Clock(R, W, K), W # {} => Written(W),
           ~lsu_commit_dc5(f), ~(Valid(dc3) /\ dc3.dma)
    PROVE  result' = None /\ \A b \in Bytes : Seen(drain_vld, b)' = Seen(drain_vld, b)
<1>1. FlowInv /\ ResultStep(f)
  BY DEF DataInv, DataCycle
<1>2. result' = None
  BY <1>1 DEF ResultStep, InDccm
<1>3. drain_vld' = drain_vld \ R /\ R \cap (Entries4 \cup Entries5) = {}
  <2>1. /\ drain_vld' = (drain_vld \cup (IF lsu_commit_dc5(f) THEN Entries5 ELSE {})
                                   \cup (IF dc3.dma THEN W ELSE {})) \ R
        /\ R \cap (Entries4 \cup Entries5) = {}
    BY <1>1, SetsStep
  <2>2. W # {} => ~dc3.dma
    BY DEF Written
  <2> QED  BY <2>1, <2>2
<1>4. drain_vld \in SUBSET Live /\ R \cap Live \subseteq drain_vld
  BY <1>3 DEF Live
<1>5. \A b \in Bytes : View(drain_vld \ R, ent', dccm', RdPtr', b) = Seen(drain_vld, b)
  BY <1>4, Carried
<1> QED  BY <1>2, <1>3, <1>5 DEF Seen

-----------------------------------------------------------------------------
(* The pipe is a coherent memory. *)

LEMMA DccmPipeSound == DccmSpec => []PipeInv
  BY ControlCarriesOver, PipeSound, PTL

LEMMA DataInit == DccmInit => DataInv
<1> SUFFICES ASSUME DccmInit PROVE DataInv
  OBVIOUS
<1>1. /\ drain_vld = {} /\ dc2 = NoOp /\ dc3 = NoOp
      /\ dc4.valid = FALSE /\ dc5.valid = FALSE /\ dc4.reqvld = FALSE /\ dc5.reqvld = FALSE
  BY DEF DccmInit, Init, NoStage
<1>2. Entries4 = {} /\ Entries5 = {} /\ Live = {}
  BY <1>1 DEF Entries4, Entries5, PendingEntries, Live
<1>3. ~Valid(dc2) /\ ~Valid(dc3) /\ ~lsu_dccm_rden(dc2) /\ ~lsu_dccm_rden(dc3)
  BY <1>1 DEF NoOp, Valid, lsu_dccm_rden, InDccm
<1>4. FlowInv
  BY <1>1, <1>2, <1>3 DEF FlowInv, DmaAlone, FlushEmpties, WriterLives
<1>5. AgeOrder /\ FilledUp
  BY <1>1, <1>2 DEF AgeOrder, FilledUp
<1>6. Read2 /\ Read3 /\ Staged4 /\ Staged5
  BY <1>1, <1>3 DEF Read2, Read3, Staged4, Staged5
<1> QED  BY <1>4, <1>5, <1>6 DEF DataInv

LEMMA MemoryInit == DccmInit => CM!Init
<1> SUFFICES ASSUME DccmInit PROVE CM!Init
  OBVIOUS
<1>1. \A w : Committed(w) = {}
  BY DEF DccmInit, Init, Committed
<1>2. \A b \in Bytes : dccm[b] \in Values
  BY DccmAssumption DEF DccmInit
<1>3. VisibleMemory \in [Bytes -> Values]
  BY <1>1, <1>2 DEF VisibleMemory
<1> QED  BY <1>3 DEF DccmInit, CM!Init, CM!None, None

(* "VisibleIs" for the memory after a step. *)
VisibleIsSeen ==
    BufferInv /\ AgeOrder /\ FilledUp
        => \A b \in Bytes : VisibleMemory[b] = Seen(drain_vld, b)
LEMMA VisibleHolds == VisibleIsSeen
  BY VisibleIs DEF VisibleIsSeen
LEMMA VisibleNext == VisibleIsSeen'
  BY VisibleHolds, PTL

(* Each clock is one step of the coherent memory: the core operation that  *)
(* commits in dc5, or the DMA operation in dc3, or nothing.                *)
LEMMA MemoryStepIs ==
    ASSUME BufferInv, PipeInv, DataInv, BufferInv', DccmNext
    PROVE  DataInv' /\ CM!Next
<1>1. PICK f, op, bus, flip, reqvld, dual, first :
           DataCycle(f, op, bus, flip, reqvld, dual, first)
  BY DccmNextCases
<1> DEFINE R == stbuf_reset(f, BankConflict)
           W == Fresh(reqvld, dual)
           K == Kept(f)
           mem == VisibleMemory
           mem2 == VisibleMemory'
<1>2. R = stbuf_reset(f, BankConflict) /\ W = Fresh(reqvld, dual) /\ K = Kept(f)
  OBVIOUS
<1>3. /\ mem = [b \in Bytes |-> mem[b]]
      /\ mem2 = [b \in Bytes |-> mem2[b]]
  BY DEF VisibleMemory
<1> HIDE DEF R, W, K
<1>4. DataInv' /\ Clock(R, W, K) /\ (W # {} => Written(W))
  BY <1>1, <1>2, DataStepInv
<1>5. \A b \in Bytes : mem[b] = Seen(drain_vld, b) /\ mem2[b] = Seen(drain_vld, b)'
  BY <1>4, VisibleHolds, VisibleNext DEF VisibleIsSeen, DataInv
<1> HIDE DEF mem, mem2
<1>6. (\A b \in Bytes : mem2[b] = mem[b]) => mem2 = mem
  BY <1>3, Zenon
<1>7. ASSUME NEW o \in Ops, o.dccm,
             \/ /\ o.kind = "load" /\ result' = [b \in o.bytes |-> mem[b]]
                /\ \A b \in Bytes : mem2[b] = mem[b]
             \/ /\ o.kind = "store" /\ result' = None
                /\ \A b \in Bytes : mem2[b] = IF b \in o.bytes THEN o.val ELSE mem[b]
      PROVE  CM!Next
  <2>1. o \in {x \in Ops : x.dccm}
    BY <1>7
  <2>2. CASE /\ o.kind = "load" /\ result' = [b \in o.bytes |-> mem[b]]
             /\ \A b \in Bytes : mem2[b] = mem[b]
    <3>1. CM!Load(o)
      BY <1>6, <2>2 DEF CM!Load, mem, mem2
    <3> QED  BY <2>1, <3>1 DEF CM!Next
  <2>3. CASE /\ o.kind = "store" /\ result' = None
             /\ \A b \in Bytes : mem2[b] = IF b \in o.bytes THEN o.val ELSE mem[b]
    <3>1. mem2 = [b \in Bytes |-> IF b \in o.bytes THEN o.val ELSE mem[b]]
      BY <1>3, <2>3
    <3>2. CM!Store(o)
      BY <2>3, <3>1 DEF CM!Store, CM!None, None, mem, mem2
    <3> QED  BY <2>1, <3>2 DEF CM!Next
  <2> QED  BY <1>7, <2>2, <2>3
<1>8. ASSUME result' = None, \A b \in Bytes : mem2[b] = mem[b] PROVE CM!Next
  BY <1>6, <1>8 DEF CM!Next, CM!Quiet, CM!None, None, mem, mem2
<1>9. CASE lsu_commit_dc5(f)
  <2>1. \/ op5 = Nothing /\ result' = None /\ \A b \in Bytes : mem2[b] = mem[b]
        \/ /\ op5.op \in Ops /\ op5.op.dccm /\ op5.op.kind = "load"
           /\ result' = [b \in op5.op.bytes |-> mem[b]]
           /\ \A b \in Bytes : mem2[b] = mem[b]
        \/ /\ op5.op \in Ops /\ op5.op.dccm /\ op5.op.kind = "store" /\ result' = None
           /\ \A b \in Bytes : mem2[b] = IF b \in op5.op.bytes THEN op5.op.val ELSE mem[b]
    BY <1>1, <1>2, <1>4, <1>5, <1>9, CoreCommits
  <2> QED  BY <1>4, <1>7, <1>8, <2>1
<1>10. CASE ~lsu_commit_dc5(f) /\ Valid(dc3) /\ dc3.dma
  <2>1. /\ dc3 \in Ops /\ dc3.dccm
        /\ \/ /\ dc3.kind = "load" /\ result' = [b \in dc3.bytes |-> mem[b]]
              /\ \A b \in Bytes : mem2[b] = mem[b]
           \/ /\ dc3.kind = "store" /\ result' = None
              /\ \A b \in Bytes : mem2[b] = IF b \in dc3.bytes THEN dc3.val ELSE mem[b]
    BY <1>1, <1>2, <1>4, <1>5, <1>10, DmaCommits
  <2> QED  BY <1>4, <1>7, <2>1
<1>11. CASE ~lsu_commit_dc5(f) /\ ~(Valid(dc3) /\ dc3.dma)
  <2>1. result' = None /\ \A b \in Bytes : Seen(drain_vld, b)' = Seen(drain_vld, b)
    BY <1>1, <1>2, <1>4, <1>11, NothingCommits
  <2>2. \A b \in Bytes : mem2[b] = mem[b]
    BY <1>5, <2>1
  <2> QED  BY <1>4, <1>8, <2>1, <2>2
<1> QED  BY <1>9, <1>10, <1>11

(* A step that changes nothing keeps the invariant and the memory.         *)
LEMMA DataStutters ==
    ASSUME DataInv, UNCHANGED <<vars, dataVars>>
    PROVE  DataInv' /\ UNCHANGED <<VisibleMemory, result>>
<1>1. /\ drain_vld' = drain_vld /\ RdPtr' = RdPtr /\ WrPtr' = WrPtr
      /\ dc2' = dc2 /\ dc3' = dc3 /\ dc4' = dc4 /\ dc5' = dc5
      /\ ent' = ent /\ dccm' = dccm /\ rd2' = rd2 /\ rd3' = rd3 /\ fwd3' = fwd3
      /\ op4' = op4 /\ op5' = op5 /\ result' = result
  BY DEF vars, bufVars, pipeVars, dataVars
<1>2. Entries4' = Entries4 /\ Entries5' = Entries5
  BY <1>1 DEF Entries4, Entries5
<1>3. Live' = Live
  BY <1>1, <1>2 DEF Live
<1>4. (\A b : Seen(drain_vld, b)' = Seen(drain_vld, b)) /\ (\A b : Seen(Live, b)' = Seen(Live, b))
  BY <1>1, <1>3 DEF Seen
<1>5. FlowInv' /\ AgeOrder'
  BY <1>1, <1>2 DEF DataInv, FlowInv, DmaAlone, FlushEmpties, WriterLives, Quiet, AgeOrder
<1>6. FilledUp'
  BY <1>1, <1>3 DEF DataInv, FilledUp, Seen, Below
<1>7. Read2' /\ Read3'
  BY <1>1, <1>3 DEF DataInv, Read2, Read3, Known3, Seen
<1>8. Staged4'
  BY <1>1, <1>2 DEF DataInv, Staged4, LoadStaged, StoreStaged, Seen
<1>9. Staged5'
  BY <1>1, <1>2 DEF DataInv, Staged5, LoadStaged, StoreStaged, Seen
<1>10. VisibleMemory' = VisibleMemory
  <2>1. \A w : Committed(w)' = Committed(w)
    BY <1>1 DEF Committed
  <2>2. \A S : Youngest(S)' = Youngest(S)
    BY <1>1 DEF Youngest
  <2> QED  BY <1>1, <2>1, <2>2 DEF VisibleMemory
<1> QED  BY <1>1, <1>5, <1>6, <1>7, <1>8, <1>9, <1>10 DEF DataInv

(* Entries hold the operations' bytes in program order, filled up with     *)
(* what the older entries and the memory have, and what the pipe has read  *)
(* or forwarded is what program order gives it, whatever drains or is      *)
(* flushed meanwhile: the invariant behind "DccmIsCoherent".               *)
THEOREM DataSound == DccmSpec => []DataInv
<1>1. ASSUME BufferInv, PipeInv, BufferInv', DataInv, [DccmNext]_<<vars, dataVars>>
      PROVE  DataInv'
  BY <1>1, MemoryStepIs, DataStutters
<1> QED  BY <1>1, DataInit, DccmBufferSound, DccmPipeSound, PTL DEF DccmSpec

(* The DCCM behind the pipe, the store buffer and the read-modify-write of *)
(* stores is one memory (lsu_stbuf.sv, lsu_dccm_ctl.sv, lsu_ecc.sv): each  *)
(* store changes its bytes and nothing else at the moment it commits, each *)
(* load returns what the memory holds at that moment, and nothing flushed, *)
(* drained or repaired is seen by a program.                               *)
THEOREM DccmIsCoherent == DccmSpec => Coherent
<1>1. ASSUME BufferInv, PipeInv, BufferInv', DataInv, [DccmNext]_<<vars, dataVars>>
      PROVE  [CM!Next]_<<VisibleMemory, result>>
  BY <1>1, MemoryStepIs, DataStutters
<1> QED  BY <1>1, MemoryInit, DataSound, DccmBufferSound, DccmPipeSound, PTL
         DEF DccmSpec, Coherent, CM!Spec
=============================================================================
