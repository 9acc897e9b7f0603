--------------------------- MODULE MtShares ---------------------------
(* What the kernels of testbench/riscv-tests/mt get right, stated of their *)
(* code alone: how the steps are shared out among the harts and between    *)
(* which barriers they fall.                                               *)
EXTENDS MtMatmul

Work(h) == DOMAIN prog(h).steps
(* The number of barriers a hart has passed when it starts a step.         *)
Epoch(h, i) == Cardinality({j \in prog(h).sync : j < i})

(* Every hart calls barrier(ncores) equally often, last of all in          *)
(* thread_entry.                                                           *)
BarriersAgree ==
  /\ \A h \in Harts :
       /\ Work(h) = 1..Len(prog(h).steps) /\ Len(prog(h).steps) \in Nat
       /\ Len(prog(h).steps) \in prog(h).sync /\ prog(h).sync \subseteq Work(h)
  /\ \A g, h \in Harts : Cardinality(prog(g).sync) = Cardinality(prog(h).sync)

(* No step adds to a cell outside of results_data.                         *)
InBounds == \A h \in Harts : \A i \in Work(h) : DOMAIN prog(h).steps[i].sums \subseteq Cells

(* Steps of different harts between the same two barriers do not meet.     *)
EpochsApart ==
  \A g, h \in Harts : g # h => \A i \in Work(g) : \A j \in Work(h) :
    Epoch(g, i) # Epoch(h, j) \/ Apart(g, prog(g).steps[i], h, prog(h).steps[j])

(* Each product is added to its cell by one step of one hart, and a step   *)
(* that overwrites a cell is alone in doing so.                            *)
Adds(h, i, x) == x \in DOMAIN prog(h).steps[i].sums
Adders(x) == {a \in UNION {{h} \X Work(h) : h \in Harts} : Adds(a[1], a[2], x)}
Products(a, x) == prog(a[1]).steps[a[2]].sums[x]
ProductsOnce ==
  \A x \in Cells : LET adders == Adders(x) IN
    /\ UNION {Products(a, x) : a \in adders} = Product[x]
    /\ \A a, b \in adders : a # b =>
         ~prog(a[1]).over /\ Disjoint(Products(a, x), Products(b, x))

(* What a step reads of a copy of B, the hart has copied before or another *)
(* hart before their last barrier.                                         *)
CopiesFirst ==
  \A h \in Harts : \A i \in Work(h) : \A b \in Reads(h, prog(h).steps[i]) :
    \E g \in Harts : owner(g) = owner(h) /\ \E j \in Work(g) :
      /\ b \in prog(g).steps[j].copies
      /\ (g = h /\ j < i) \/ Epoch(g, j) < Epoch(h, i)

Disciplined == BarriersAgree /\ InBounds /\ EpochsApart /\ ProductsOnce /\ CopiesFirst

(* The kernel shares its work out so that no lock is needed on the dataset *)
(* it is linked with: between two barriers the harts' steps are apart and  *)
(* inside the arrays, each product is added once, and a copy is complete   *)
(* before it is read.                                                      *)
SharesAreDisciplined == (\A h \in Harts : step[h] = 1 /\ pc[h] = "load") => Disciplined
=============================================================================
