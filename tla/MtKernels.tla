--------------------------- MODULE MtKernels ---------------------------
(* The matrix multiply kernels of testbench/riscv-tests/mt.  A kernel is   *)
(* the program of one hart c of n on matrices of dimension L = lda: a      *)
(* sequence of steps, each the copies it makes of B and the multiply-adds  *)
(* it performs, and the steps that barrier(ncores) follows.  The loops of  *)
(* a step become ranges of rows, products and columns; an unrolled body    *)
(* keeps its width, since a stride that differs from it is an error.       *)
(* Ranges and strides that the source writes as 32 are 32 here whatever L  *)
(* is: the arrays are flat, so a kernel written for 32 columns touches     *)
(* other cells, or none, of smaller ones.                                  *)
EXTENDS Integers, Sequences, FiniteSets

(* for (i = from; i < to; i += by) with a body unrolled `width` times      *)
Steps(from, to, by) == {i \in from..(to - 1) : (i - from) % by = 0}
Loop(from, to, by, width) == [at |-> Steps(from, to, by), width |-> width]
Each(S) == [at |-> S, width |-> 1]
All(L) == Each(0..(L - 1))
Covers(r) == UNION {i..(i + r.width - 1) : i \in r.at}
CoversOnce(r) == Cardinality(Covers(r)) = Cardinality(r.at) * r.width

(* A step adds C[row,col] += A[row,k] * B[k,col] over a block, or copies   *)
(* B[k,col] to scratch memory.  shift: what is added to the index in A and *)
(* in B when the source reads from another place than its row.             *)
Block(rows, ks, cols) ==
  [rows |-> rows, ks |-> ks, cols |-> cols, copy |-> FALSE, shift |-> [A |-> 0, B |-> 0]]
Copy(ks, cols) == [Block(Each({}), Each(ks), Each(cols)) EXCEPT !.copy = TRUE]
Shifted(a, b, block) == [block EXCEPT !.shift = [A |-> a, B |-> b]]
Idle == Block(Each({}), Each({}), Each({}))

(* over: the sums overwrite C; into: the array the copies go to, the       *)
(* hart's own or one shared by all; from: where the products come from, B  *)
(* or a copy; sync: the steps a barrier follows; stride: how far apart the *)
(* rows of A, B and C are in the flat arrays.                              *)
lda == 0                  \* the stride that is the parameter lda
AddTo(steps) ==
  [over |-> FALSE, into |-> "own", from |-> "B", steps |-> steps, sync |-> {},
   stride |-> [A |-> lda, B |-> lda, C |-> lda]]
Overwrite(steps) == [AddTo(steps) EXCEPT !.over = TRUE]
From(copy, kernel) == [kernel EXCEPT !.into = copy, !.from = copy]
Sync(steps, kernel) == [kernel EXCEPT !.sync = steps]
SyncEach(kernel) == Sync(DOMAIN kernel.steps, kernel)
Strides(a, b, c, kernel) == [kernel EXCEPT !.stride = [A |-> a, B |-> b, C |-> c]]
By32(kernel) == Strides(32, 32, 32, kernel)

(* if (coreid == 0) {first}  if (coreid == 1 || ncores == 1) {second}      *)
ByHart(c, n, first, second) ==
  (IF c = 0 THEN first ELSE <<>>) \o (IF c = 1 \/ n = 1 THEN second ELSE <<>>)
(* if (coreid == 1 || ncores == 1) {second}  if (coreid == 0) {first}      *)
SecondFirst(c, n, second, first) ==
  (IF c = 1 \/ n = 1 THEN second ELSE <<>>) \o (IF c = 0 THEN first ELSE <<>>)
OwnAndNext(c, n, L) == (c * (L \div n))..((c + 1) * (L \div n))  \* fault: <= for <
(* the rows, columns or products of hart c when L are cut in n shares      *)
Own(c, n, L) == (c * (L \div n))..((c + 1) * (L \div n) - 1)
OwnLoop(c, n, L, by) == Loop(c * (L \div n), (c + 1) * (L \div n), by, by)
One(rows, ks, cols) == <<Block(rows, ks, cols)>>

-----------------------------------------------------------------------------
(* Kernels that add their share without meeting other harts.               *)

bs(c, n, L) ==
  AddTo(One(Each(UNION {{j, j + n, j + 2 * n, j + 3 * n} : j \in Steps(c, L, 4 * n)}),
            All(L), All(L)))
do(c, n, L) == By32(Overwrite(One(Each(Own(c, n, 32)), All(32), All(32))))
ap(c, n, L) == AddTo(One(Each(Own(c, n, L)), All(L), All(L)))
aq(c, n, L) ==
  AddTo(One(All(L), All(L), Each(UNION {{i, i + n} : i \in Steps(c, L, 2 * n)})))
ds(c, n, L) == AddTo(One(Loop(4 * c, L, 4 * n, 4), Loop(0, L, 2, 2), All(L)))
bb(c, n, L) == Overwrite(One(OwnLoop(c, n, L, 4), All(L), Loop(0, L, 2, 2)))
ar(c, n, L) == AddTo(One(Each({j \in Own(c, n, L) : j < L}), All(L), All(L)))

(* Tiles of 16 rows, dealt to the harts in turn.                           *)
Tiles(c, n, L, by) ==
  UNION {{j \in Steps(jj, jj + 16, by) : j < L} : jj \in Steps(16 * c, L, 16 * n)}
ck(c, n, L) ==
  LET tiles == {(16 * c + 16 * t) % L : t \in 0..(L - 1)}
  IN  AddTo(One([at |-> Tiles(c, n, L, 4), width |-> 4], Loop(0, L, 8, 8),
                [at |-> UNION {{i \in Steps(ii, ii + 16, 2) : i < L} : ii \in tiles},
                 width |-> 2]))
ak(c, n, L) ==
  AddTo(One(Each(Tiles(c, n, L, 1)), Loop(0, L, 4, 4),
            [at |-> UNION {{i \in Steps(ii, ii + 16, 8) : i < L} : ii \in Steps(0, L, 16)},
             width |-> 8]))

(* Two rows summed in temp_mat and stored when complete.                   *)
RowPairs(c, n, rows, L, cols) ==
  Overwrite(One(Loop((c * rows) \div n, (rows * (1 + c)) \div n, 2, 2),
                Loop(0, L, 4, 4), Loop(0, cols, 4, 4)))
am(c, n, L) == By32(RowPairs(c, n, 32, L, 32))
du(c, n, L) == By32(RowPairs(c, n, 32, L, 32))
af(c, n, L) == Strides(32, lda, 32, RowPairs(c, n, L, L, L))

(* Four rows by four columns; the last hart runs to the end.               *)
FourByFour(c, n, L) ==
  LET space == L \div n
      to == IF c = n - 1 THEN (L \div 4) * 4 ELSE ((space * c + space) \div 4) * 4
  IN  One(Loop(space * c, to, 4, 4), All(L), Loop(0, (L \div 4) * 4, 4, 4))
bm(c, n, L) == AddTo(FourByFour(c, n, L))
(* Every hart copies its part of B to one static array first; only the     *)
(* last hart reads the copy.                                               *)
dm(c, n, L) ==
  LET share == L \div n
      copied == IF c = n - 1 THEN 0..(share - 1) ELSE share..(L - 1)
      kernel == AddTo(<<Copy(copied, 0..(L - 1))>> \o FourByFour(c, n, L))
  IN  [Sync({1}, From("shared", kernel)) EXCEPT !.from = IF c = n - 1 THEN @ ELSE "B"]

(* B transposed on the stack of each hart, 32 rows of 32 laid out lda      *)
(* apart: when lda is 16 a row and the next column of the row 16 before it *)
(* share their places and the later row stays, all but in column 0.        *)
at(c, n, L) ==
  LET work(cols, shift) ==
        Shifted(0, shift, Block(All(L), Loop(0, L, 16, 16), [at |-> cols, width |-> 1]))
      cols == Covers(Loop((c * L) \div n, ((c + 1) * L) \div n, 8, 8))
  IN  AddTo(<<work(cols \intersect {0}, 0),
              work(cols \ {0}, IF L = 16 THEN 16 * L - 1 ELSE 0)>>)

-----------------------------------------------------------------------------
(* Kernels written for two harts; further harts have nothing to do.        *)

(* Halves of 16 rows.                                                      *)
SixteenRows(from) == One(Each(from..(from + 15)), Loop(0, 32, 16, 16), Loop(0, 32, 8, 8))
bk(c, n, L) == By32(AddTo(ByHart(c, n, SixteenRows(0), SixteenRows(16))))
dv(c, n, L) == By32(AddTo(SecondFirst(c, n, SixteenRows(0), SixteenRows(16))))
HalfRows(c, n, L) ==
  LET half(rows) == One(Each(rows), Loop(0, L, 2, 2), Loop(0, L, 8, 8))
  IN  AddTo(ByHart(c, n, half(0..(L \div 2 - 1)), half((L \div 2)..(L - 1))))
bh(c, n, L) == HalfRows(c, n, L)
bj(c, n, L) == HalfRows(c, n, L)
(* The first row of each pair is at A + j * lda, the second 32 further on. *)
bo(c, n, L) ==
  LET block(rows, cols) == Block(Each(rows), Loop(0, 32, 8, 8), Each(cols))
      columns(from, cols) ==
        <<block(Steps(from, from + 16, 2), cols),
          Shifted(32 - L, 0, block(Steps(from + 1, from + 16, 2), cols))>>
      half(from) == columns(from, 0..15) \o columns(from, 16..31)
  IN  Strides(lda, 32, lda, Overwrite(ByHart(c, n, half(0), half(16))))

HalfColumns(cols) == One(All(32), All(32), Each(cols))
al(c, n, L) == AddTo(ByHart(c, n, HalfColumns(0..15), HalfColumns(16..31)))
bf(c, n, L) == Overwrite(ByHart(c, n, HalfColumns(0..15), HalfColumns(16..31)))
clFirst == HalfColumns(0..15)
clSecond ==
  One(Each(16..31), All(32), Each(16..31)) \o One(Each(0..15), All(32), Each(16..31))
cl(c, n, L) == AddTo(ByHart(c, n, clFirst, clSecond))
dfFirst ==
  One(Each(0..15), All(32), Each(0..15)) \o One(Each(16..31), All(32), Each(0..15))
dfSecond ==
  One(Each(16..31), All(32), Each(16..31)) \o One(Each(0..15), All(32), Each(16..31))
df(c, n, L) == AddTo(ByHart(c, n, dfFirst, dfSecond))

avUpper == One(Each(16..31), Loop(0, 32, 8, 8), Loop(0, 32, 8, 8))
avLower == One(Each(0..15), Loop(0, 32, 8, 8), Loop(0, 32, 8, 8))
av(c, n, L) == AddTo(SecondFirst(c, n, avUpper, avLower))
cvUpper == One(Each(16..31), Loop(0, 32, 8, 8), Loop(0, 32, 8, 8))
cvLower == One(Each(0..15), Loop(0, 32, 8, 8), Loop(0, 32, 8, 8))
cv(c, n, L) == AddTo(SecondFirst(c, n, cvUpper, cvLower))

(* Flat runs of eight cells of C, 512 cells for each of two harts.         *)
EightCells(c, n, L) ==
  LET end == (IF n = 1 THEN 2 ELSE c + 1) * 512
      starts == Steps(c * 512, end, 8)
  IN  By32(Overwrite(IF c > 1 THEN <<>> ELSE
        One(Each({j \div 32 : j \in starts}), Loop(0, L, 2, 2),
            [at |-> {j % 32 : j \in starts}, width |-> 8])))
ay(c, n, L) == EightCells(c, n, L)
az(c, n, L) == EightCells(c, n, L)
cy(c, n, L) == EightCells(c, n, L)   \* hart 1 from its own copies of A and B

(* Blocks of 16 products; anything but two harts on 32 by 32 is left to    *)
(* hart 0.                                                                 *)
Tuned(c, n, L, tuned) ==
  AddTo(IF n = 2 /\ L = 32 THEN tuned
        ELSE IF c > 0 THEN <<>> ELSE One(All(L), All(L), All(L)))
Blocked(c, ks) == One(Loop(16 * c, 16 * c + 16, 2, 2), Each(ks), Loop(0, 32, 8, 8))
bc(c, n, L) == Tuned(c, n, L, Blocked(c, 0..15) \o Blocked(c, 16..31))
dc(c, n, L) ==
  Tuned(c, n, L, IF c = 0 THEN Blocked(c, 0..15) \o Blocked(c, 16..31)
                 ELSE Blocked(c, 16..31) \o Blocked(c, 0..15))

(* Hart 0 goes down the rows with the first half of the products, hart 1   *)
(* goes up the rows with the second half, and nothing orders them.         *)
Meeting(c, n, rows) ==
  AddTo(ByHart(c, n,
    [p \in 1..(rows \div 2) |->
       Block(Each({2 * p - 2, 2 * p - 1}), Loop(0, 16, 4, 4), Loop(0, 32, 4, 4))],
    [p \in 1..16 |->
       Block(Each({33 - 2 * p, 32 - 2 * p}), Loop(16, 32, 4, 4), Loop(0, 32, 4, 4))]))
cm(c, n, L) == Strides(lda, 32, lda, Meeting(c, n, L))
cf(c, n, L) == By32(Meeting(c, n, 32))

-----------------------------------------------------------------------------
(* Kernels whose harts meet at barrier(ncores) as they go.                 *)

cs(c, n, L) ==
  LET rounds == Cardinality(Steps(c, L, 2 * n))
      j(p) == c + 2 * n * ((p - 1) \div L)
  IN  SyncEach(Overwrite([p \in 1..(rounds * L) |->
        Block(Each({j(p), j(p) + n}), All(L), Each({(p - 1) % L}))]))
ad(c, n, L) ==
  LET j(p) == c * (L \div n) + (p - 1) \div 16
      k(p) == 2 * ((p - 1) % 16)
  IN  By32(SyncEach(AddTo([p \in 1..(16 * (L \div n)) |->
        Block(Each({j(p)}), Each({k(p), k(p) + 1}), Loop(0, 32, 4, 4))])))
an(c, n, L) ==
  LET j(p) == c * (L \div n) + (p - 1) \div L
  IN  SyncEach(AddTo([p \in 1..(L * (L \div n)) |->
        Block(Each({j(p)}), Each({(p - 1) % L}), All(L))]))
(* Two columns and four products of every row between two barriers.        *)
ColumnPairs(c, n, L) ==
  LET i(p) == 2 * ((p - 1) \div (L \div 4))
      k(p) == 4 * ((p - 1) % (L \div 4))
  IN  SyncEach(AddTo([p \in 1..((L \div 2) * (L \div 4)) |->
        Block(OwnLoop(c, n, L, 4), Each(k(p)..(k(p) + 3)), Each({i(p), i(p) + 1}))]))
cg(c, n, L) == ColumnPairs(c, n, L)
ag(c, n, L) == ColumnPairs(c, n, L)
(* One barrier, before any work.                                           *)
ci(c, n, L) ==
  Sync({1}, Overwrite(<<Idle>> \o One(Each(Own(c, n, L)), All(L), Loop(0, L, 4, 4))))
ai(c, n, L) ==
  Sync({1}, Overwrite(<<Idle>> \o One(Each(Own(c, n, L)), All(L), Loop(0, L, 4, 4))))

(* B is transposed into one static array, a row between two barriers.      *)
TransposeShort(c, n, L) ==  \* fault: the last row is not copied
  [k \in 1..(L - 1) |-> Copy({k - 1}, Own(c, n, L))]
Transpose(c, n, L) == [k \in 1..L |-> Copy({k - 1}, Own(c, n, L))]
aeWork(c, n, L) ==
  LET j(p) == c * (L \div n) + ((p - 1) % (L \div n))
      i(p) == 4 * ((p - 1) \div (L \div n))
  IN  [p \in 1..((L \div 4) * (L \div n)) |->
         Block(Each({j(p)}), Loop(0, L, 8, 8), Each(i(p)..(i(p) + 3)))]
aeEarly(c, n, L) ==       \* fault: no barrier(ncores) after the last row is copied
  LET steps == Transpose(c, n, L) \o aeWork(c, n, L)
  IN  From("shared", Sync(DOMAIN steps \ {L}, Overwrite(steps)))
ae(c, n, L) ==
  From("shared", SyncEach(Overwrite(Transpose(c, n, L) \o aeWork(c, n, L))))
ce(c, n, L) ==
  LET work == [x \in 1..n |->
                 Block(Each(Own(c, n, L)), Loop(0, L, 8, 8), OwnLoop(x - 1, n, 32, 8))]
  IN  From("shared", Sync(1..L, AddTo(Transpose(c, n, L) \o work)))
(* B is transposed into an array of the hart's own, two rows between two   *)
(* barriers, and used in blocks of 32 rows, 16 columns and 32 products.    *)
OwnTranspose(c, n, L, by) ==
  LET from == c * (L \div n)
      pair(q) == 2 * (q - 1)
      copy == [q \in 1..(L \div 2) |->
                 Copy({pair(q), pair(q) + 1}, Covers(OwnLoop(c, n, L, 2)))]
      squares == Cardinality(Steps(0, L, 32))
      blocks == Cardinality(Steps(from, from + L \div n, 16))
      (* the loops j2, i2, j, k2 and i, the last one the fastest           *)
      i == 16 \div by
      k2 == i * squares
      j == k2 * 16
      i2 == j * blocks
      count(q, below, loop) == (q % loop) \div below
      block(q) ==
        LET row == 32 * (q \div i2) + 2 * count(q, k2, j)
            product == 32 * count(q, i, k2)
            col == from + 16 * count(q, j, i2) + by * count(q, 1, i)
        IN  Block(Each({row, row + 1}), Loop(product, product + 32, 4, 4),
                  Each(col..(col + by - 1)))
      work == [p \in 1..(i2 * squares) |-> block(p - 1)]
  IN  From("own", SyncEach(AddTo(copy \o work)))
br(c, n, L) == OwnTranspose(c, n, L, 4)
dr(c, n, L) == OwnTranspose(c, n, L, 8)
=============================================================================
