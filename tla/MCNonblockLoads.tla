--------------------------- MODULE MCNonblockLoads ---------------------------
(* Small instances of NonblockLoads. *)
EXTENDS NonblockLoads, TLC

I(kind, rd, rs) == [kind |-> kind, rd |-> rd, rs |-> rs]

(* Loads of two registers, an instruction that writes the one and reads    *)
(* the other, and a floating-point load.                                   *)
AllInstrs == {I("load", 1, 0), I("load", 2, 0), I("op", 1, 2), I("fload", 0, 0), I("load", 0, 1)}

(* Tags are only compared with each other. *)
TagSymmetry == Permutations(Tag)
=============================================================================
