--------------------------- MODULE MCTinyMalloc ---------------------------
(* A small heap for TLC: fourteen words below the gap to the stack. *)
EXTENDS TinyMalloc

(* The smallest block, one just above it, and two that need words of their *)
(* own; alignments that are none, that of every block, and larger ones.    *)
SmallSizes == {0, 9, 24}
SmallAligns == {0, 8, 12, 32}
=============================================================================
