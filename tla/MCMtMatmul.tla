--------------------------- MODULE MCMtMatmul ---------------------------
(* Two harts, as the Makefile of testbench/riscv-tests/mt runs (spike -p2). *)
EXTENDS MtShares

TwoHarts == {0, 1}
(* The kernels whose result is the product on the 16 x 16 dataset.         *)
Sound ==
  {"ae", "ag", "ai", "ak", "an", "ap", "aq", "ar", "bb", "bc", "bh", "bj", "bm", "bs",
   "cg", "ci", "ck", "cs", "dc", "dm", "ds"}
Racing == {"ce"}
=============================================================================
