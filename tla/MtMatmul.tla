---------------------------- MODULE MtMatmul ----------------------------
(* The multi-hart matrix multiply program: every hart runs the kernel,     *)
(* meets the others at a barrier and verifies the result                   *)
(* (benchmarks/mt-matmul/mt-matmul.c).  A cell of C is the set of products *)
(* added to it; a step loads its cells and stores the sums in two moments, *)
(* as the harts share the cells without locks.                             *)
EXTENDS SenseBarrier, MtKernels

CONSTANT Kernels          \* the kernels to run, one per behaviour
ASSUME MatmulAssumption == Harts = 0..(Cardinality(Harts) - 1)

VARIABLES
  step, pc,               \* the step of each hart and where it is in it
  seen,                   \* the sums a hart has worked out for its step
  copied,                 \* the cells of B that the scratch copies hold
  C,                      \* results_data: for each cell, the products in it
  kernel                  \* the kernel linked in: the program of each hart
matmulVars == <<kernel, C, copied, step, pc, seen>>
vars == <<barrierVars, matmulVars>>

n == Cardinality(Harts)
(* mt-matmul/dataset.h, with which every kernel is linked                  *)
DIM_SIZE == 16
L == DIM_SIZE
Cells == 0..(L * L - 1)   \* ARRAY_SIZE
Nowhere == L * L          \* a place of a copy that nobody fills
(* What each cell should hold: the pairs of a cell of A and a cell of B.   *)
Product == [x \in Cells |-> {<<(x \div L) * L + k, k * L + (x % L)>> : k \in 0..(L - 1)}]
Wrong == {<<-1, -1>>}     \* a sum that no further product can put right

(* A step of kernel k with its loops unrolled on the flat arrays: the      *)
(* products it adds to each cell and the cells of B it copies.  Products a *)
(* loop covers twice are wrong.  A copy of B is transposed.                *)
Unrolled(k, s) ==
  LET Stride(m) == IF k.stride[m] = lda THEN DIM_SIZE ELSE k.stride[m]
      rows == Covers(s.rows)  ks == Covers(s.ks)  cols == Covers(s.cols)
      InB(p, c) == IF k.from = "B" THEN p * Stride("B") + c + s.shift.B
                   ELSE IF c + p \div L < L THEN (p % L) * L + c + p \div L ELSE Nowhere
      Cell(r, c) == r * Stride("C") + c
      Added(x) == UNION {{<<r * Stride("A") + p + s.shift.A, InB(p, x - Cell(r, 0))>> :
                            p \in ks} : r \in {r \in rows : x - Cell(r, 0) \in cols}}
      once == \A loop \in {s.rows, s.ks, s.cols} : CoversOnce(loop)
  IN  IF s.copy THEN [sums |-> <<>>, copies |-> {p * L + c : p \in ks, c \in cols}]
      ELSE [sums |-> [x \in {Cell(r, c) : r \in rows, c \in cols} |->
                        IF once THEN Added(x) ELSE Wrong],
            copies |-> {}]
(* The kernels as hart c of n runs them on matrices of that dimension.     *)
Kernel(c) ==
  [ad |-> ad(c, n, L), ae |-> ae(c, n, L), af |-> af(c, n, L),
   ag |-> ag(c, n, L), ai |-> ai(c, n, L), ak |-> ak(c, n, L),
   al |-> al(c, n, L), am |-> am(c, n, L), an |-> an(c, n, L),
   ap |-> ap(c, n, L), aq |-> aq(c, n, L), ar |-> ar(c, n, L),
   at |-> at(c, n, L), av |-> av(c, n, L), ay |-> ay(c, n, L),
   az |-> az(c, n, L), bb |-> bb(c, n, L), bc |-> bc(c, n, L),
   bf |-> bf(c, n, L), bh |-> bh(c, n, L), bj |-> bj(c, n, L),
   bk |-> bk(c, n, L), bm |-> bm(c, n, L), bo |-> bo(c, n, L),
   br |-> br(c, n, L), bs |-> bs(c, n, L), ce |-> ce(c, n, L),
   cf |-> cf(c, n, L), cg |-> cg(c, n, L), ci |-> ci(c, n, L),
   ck |-> ck(c, n, L), cl |-> cl(c, n, L), cm |-> cm(c, n, L),
   cs |-> cs(c, n, L), cv |-> cv(c, n, L), cy |-> cy(c, n, L),
   dc |-> dc(c, n, L), df |-> df(c, n, L), dm |-> dm(c, n, L),
   do |-> do(c, n, L), dr |-> dr(c, n, L), ds |-> ds(c, n, L),
   du |-> du(c, n, L), dv |-> dv(c, n, L)]
(* What thread_entry runs: the kernel unrolled on the dataset and, after   *)
(* an idle step, the barrier.                                              *)
Linked(k) ==
  LET steps == Append(k.steps, Idle)
  IN  [over |-> k.over, into |-> k.into, from |-> k.from, sync |-> k.sync \union {Len(steps)},
       steps |-> [s \in 1..Len(steps) |-> Unrolled(k, steps[s])]]
(* Each kernel linked with the dataset: the program of every hart.         *)
Program ==
  LET kernels == [i \in 1..n |-> Kernel(i - 1)]
  IN  [k \in DOMAIN Kernel(0) |-> [i \in 1..n |-> Linked(kernels[i][k])]]

prog(h) == kernel[h + 1]
current(h) == prog(h).steps[step[h]]
owner(h) == IF prog(h).into = "shared" THEN -1 ELSE h

MatmulInit ==
  /\ kernel \in {Program[k] : k \in Kernels}
  /\ C = [x \in Cells |-> {}]
  /\ copied = [o \in Harts \union {-1} |-> {}]
  /\ step = [h \in Harts |-> 1]
  /\ pc = [h \in Harts |-> "load"]
  /\ seen = [h \in Harts |-> <<>>]
Init == BarrierInit /\ MatmulInit

Sum(cell, products) ==
  IF cell \intersect products # {} THEN Wrong ELSE cell \union products
(* The products of a step for cell x, without those whose cell of B is not *)
(* in the copy yet: the scratch arrays are static and start with zeros.    *)
Formed(h, x) ==
  LET products == current(h).sums[x]
  IN  IF prog(h).from = "B" THEN products
      ELSE {p \in products : p \in Wrong \/ p[2] \in copied[owner(h)]}

Load(h) ==
  /\ pc[h] = "load"
  /\ seen' = [seen EXCEPT ![h] =
                [x \in DOMAIN current(h).sums \intersect Cells |->
                   IF prog(h).over THEN Formed(h, x) ELSE Sum(C[x], Formed(h, x))]]
  /\ pc' = [pc EXCEPT ![h] = "store"]
  /\ UNCHANGED <<barrierVars, kernel, C, copied, step>>

Store(h) ==
  /\ pc[h] = "store"
  /\ C' = [x \in Cells |-> IF x \in DOMAIN seen[h] THEN seen[h][x] ELSE C[x]]
  /\ copied' = [copied EXCEPT ![owner(h)] = @ \union current(h).copies]
  /\ seen' = [seen EXCEPT ![h] = <<>>]
  /\ IF step[h] \in prog(h).sync
     THEN pc' = [pc EXCEPT ![h] = "barrier"] /\ UNCHANGED step
     ELSE pc' = [pc EXCEPT ![h] = "load"] /\ step' = [step EXCEPT ![h] = @ + 1]
  /\ UNCHANGED <<barrierVars, kernel>>

Wait(h) ==
  /\ pc[h] = "barrier"
  /\ Arrive(h)
  /\ pc' = [pc EXCEPT ![h] = "inside"]
  /\ UNCHANGED <<kernel, C, copied, step, seen>>
InBarrier(h) == ClearCount(h) /\ UNCHANGED matmulVars
Proceed(h) ==
  /\ Return(h)
  /\ IF step[h] = Len(prog(h).steps)
     THEN pc' = [pc EXCEPT ![h] = "verify"] /\ UNCHANGED step
     ELSE pc' = [pc EXCEPT ![h] = "load"] /\ step' = [step EXCEPT ![h] = @ + 1]
  /\ UNCHANGED <<kernel, C, copied, seen>>
(* int res = verify(...); exit(res)                                        *)
Verify(h) ==
  /\ pc[h] = "verify"
  /\ pc' = [pc EXCEPT ![h] = "done"]
  /\ UNCHANGED <<barrierVars, kernel, C, copied, step, seen>>

HartNext(h) ==
  Load(h) \/ Store(h) \/ Wait(h) \/ InBarrier(h) \/ Proceed(h) \/ Verify(h)
Next == \E h \in Harts : HartNext(h)
Spec == Init /\ [][Next]_vars
(* Each hart is a core that keeps executing.                               *)
FairSpec == Spec /\ \A h \in Harts : WF_vars(HartNext(h))
-----------------------------------------------------------------------------
(* The result a hart verifies is the product: every cell holds each of its *)
(* L products exactly once, whichever way the harts' loads and stores were *)
(* interleaved (verify in mt-matmul.c finds no difference).                *)
ProductExact == \A h \in Harts : pc[h] = "verify" => C = Product

(* Two steps of different harts that may be under way together: they do   *)
(* not update one cell of C, nor does one write the part of a shared copy  *)
(* of B that the other writes or reads.                                    *)
Disjoint(a, b) == a \intersect b = {}
Reads(h, s) ==
  IF prog(h).from = "B" THEN {}
  ELSE UNION {{p[2] : p \in s.sums[x]} : x \in DOMAIN s.sums}
Apart(g, a, h, b) ==
  /\ Disjoint(DOMAIN a.sums, DOMAIN b.sums)
  /\ owner(g) = owner(h) =>
       Disjoint(a.copies, b.copies) /\ Disjoint(a.copies, Reads(h, b))

(* No hart's pending store meets another's access: two harts never update  *)
(* one cell of C at once, nor is a shared copy of B written where another  *)
(* hart writes or reads it (the kernels take no locks).                    *)
RaceFree ==
  \A g, h \in Harts : (g # h /\ pc[g] = "store" /\ pc[h] = "store") =>
    Apart(g, current(g), h, current(h))

(* Every hart gets through all the barriers of its kernel and exits.       *)
AllExit == <>(\A h \in Harts : pc[h] = "done")
=============================================================================
