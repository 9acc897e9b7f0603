----------------------------- MODULE DccmOrder -----------------------------
(***************************************************************************)
(* Program order in the DCCM pipe: how the entries of the store buffer lie *)
(* over the memory, and the inductive invariant of the data that makes the *)
(* pipe a coherent memory (DccmPipeProofs).                                *)
(***************************************************************************)
EXTENDS DccmPipe

(* The ring as an order: entry i is older than entry j when the head       *)
(* pointer reaches it first.                                               *)
Before(r, i, j) == Distance(r, i) < Distance(r, j)
Top(r, S) == CHOOSE i \in S : \A j \in S : Distance(r, j) <= Distance(r, i)

(* What byte "b" reads as when the entries of "S" lie over the memory: the *)
(* youngest entry that holds it, or the memory.  Entries, memory and head  *)
(* are parameters, so that one lemma speaks of two states.                 *)
Hits(S, e, b) == {i \in S : e[i].word = b[1] /\ b[2] \in e[i].byteen}
View(S, e, m, r, b) ==
    IF Hits(S, e, b) = {} THEN m[b] ELSE e[Top(r, Hits(S, e, b))].data[b[2]]

-----------------------------------------------------------------------------
(* The inductive invariant *)

Entries4 == PendingEntries(dc4)
Entries5 == PendingEntries(dc5)

(* The entries that are committed or may still be: not flushed, and not of *)
(* an operation that a flush removed on its way to dc5.                    *)
Live == drain_vld \cup Entries4 \cup (IF dc5.valid THEN Entries5 ELSE {})
Below(i) == {j \in Live : Before(RdPtr, j, i)}
Seen(S, b) == View(S, ent, dccm, RdPtr, b)

(* An operation of the DMA in dc3 has no core operation in front of it.    *)
DmaAlone == Valid(dc3) /\ dc3.dma => Quiet(dc4) /\ Quiet(dc5)

(* The flush that removed an operation with entries between dc4 and dc5    *)
(* also removed what was behind it.                                        *)
FlushEmpties ==
    Entries5 # {} /\ ~dc5.valid => ~Valid(dc2) /\ ~Valid(dc3) /\ ~dc4.valid
WriterLives == dc4.reqvld => dc4.valid

(* Ring order is program order. *)
AgeOrder ==
    /\ \A i \in drain_vld, j \in Entries4 \cup Entries5 : Before(RdPtr, i, j)
    /\ \A i \in Entries5, j \in Entries4 : Before(RdPtr, i, j)

(* The bytes an entry fills up for its double word, not written by its     *)
(* operation, are what the older entries and the memory have.              *)
FilledUp ==
    \A i \in Live :
        /\ ent[i].word \in Word
        /\ \A c \in Byte : c \notin ent[i].byteen =>
              ent[i].data[c] = Seen(Below(i), <<ent[i].word, c>>)

(* What was read from the memory for dc2 is what the memory has; what dc3  *)
(* knows, forwarded or read, is what program order gives it.               *)
Read2 == lsu_dccm_rden(dc2) => \A b \in WordsOf(dc2) \X Byte : rd2.data[b] = dccm[b]
Known3(b) == IF b \in DOMAIN fwd3 THEN fwd3[b] ELSE rd3.data[b]
Read3 == lsu_dccm_rden(dc3) => \A b \in WordsOf(dc3) \X Byte : Known3(b) = Seen(Live, b)

(* A core operation in dc4 or dc5, with its entries "P" over the older     *)
(* ones "S": a load has the bytes it sees there, and its repairs change    *)
(* nothing; a store has its bytes, and no others, in its entries.          *)
LoadStaged(x, P, S) ==
    /\ x.op.kind = "load"
    /\ x.data = [b \in x.op.bytes |-> Seen(S, b)]
    /\ \A i \in P : \A c \in Byte : c \in ent[i].byteen =>
          ent[i].data[c] = Seen(S, <<ent[i].word, c>>)
StoreStaged(x, P) ==
    /\ x.op.kind = "store"
    /\ \A i \in P : \A c \in Byte : c \in ent[i].byteen =>
          /\ <<ent[i].word, c>> \in x.op.bytes
          /\ ent[i].data[c] = x.op.val
    /\ \A b \in x.op.bytes : Hits(P, ent, b) # {}
Staged4 == dc4.valid /\ ~dc4.dma =>
    \/ op4 = Nothing /\ Entries4 = {}
    \/ /\ op4.op \in Ops /\ op4.op.dccm
       /\ LoadStaged(op4, Entries4, drain_vld \cup Entries5) \/ StoreStaged(op4, Entries4)
Staged5 == dc5.valid /\ ~dc5.dma =>
    \/ op5 = Nothing /\ Entries5 = {}
    \/ /\ op5.op \in Ops /\ op5.op.dccm
       /\ LoadStaged(op5, Entries5, drain_vld) \/ StoreStaged(op5, Entries5)

FlowInv == DmaAlone /\ FlushEmpties /\ WriterLives

(* Entries lie in the ring in program order, with the bytes of their       *)
(* operations over those of the older entries and the memory, and whatever *)
(* the pipe has read, forwarded or merged on the way is what program order *)
(* gives, although entries drain, flush and fill up behind its back.       *)
DataInv == FlowInv /\ AgeOrder /\ FilledUp /\ Read2 /\ Read3 /\ Staged4 /\ Staged5
=============================================================================
