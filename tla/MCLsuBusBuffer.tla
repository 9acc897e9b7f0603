--------------------------- MODULE MCLsuBusBuffer ---------------------------
(* Instances of LsuBusBuffer for TLC: the sets of operations. *)
EXTENDS LsuBusBuffer

Op(kind, bytes, val) == [kind |-> kind, bytes |-> bytes, val |-> val]

(* One double word of two bytes: stores that merge, overlap or replace,    *)
(* loads that are covered in full or in part.                              *)
MergeOps == {Op("store", {<<0, 0>>}, 1), Op("store", {<<0, 0>>, <<0, 1>>}, 0),
             Op("load", {<<0, 0>>, <<0, 1>>}, 0)}

(* A store and a load over it, on a bus whose clock is slower. *)
SlowOps == {Op("store", {<<0, 0>>}, 1), Op("load", {<<0, 0>>, <<0, 1>>}, 0)}

(* Two double words of one byte: accesses to both, whose loads may freeze  *)
(* the pipe.                                                               *)
SplitOps == {Op("store", {<<0, 0>>, <<1, 0>>}, 1), Op("load", {<<0, 0>>, <<1, 0>>}, 0)}

(* Accesses with side effects (double word 1) among others. *)
SideOps == {Op("store", {<<0, 0>>}, 1), Op("store", {<<1, 0>>}, 1), Op("load", {<<1, 0>>}, 0)}

(* Stores and loads of one byte, whatever its value. *)
LiveOps == {Op("store", {<<0, 0>>}, 0), Op("load", {<<0, 0>>}, 0)}

-----------------------------------------------------------------------------
Calm == [ops |-> LiveOps, side |-> {}, coalescing |-> TRUE, posted |-> FALSE,
         nodma |-> FALSE, nbfreeze |-> {FALSE}, clocks |-> {TRUE},
         levels |-> {"none"}, errors |-> {FALSE}, timer |-> 1]

Merging == [Calm EXCEPT !.ops = MergeOps]
Apart   == [Merging EXCEPT !.coalescing = FALSE, !.timer = 0]
Slow    == [Calm EXCEPT !.ops = SlowOps, !.clocks = BOOLEAN]
Sides   == [Calm EXCEPT !.ops = SideOps, !.side = {1}, !.posted = TRUE, !.nodma = TRUE,
                        !.timer = 0]
Split   == [Calm EXCEPT !.ops = SplitOps, !.coalescing = FALSE, !.nbfreeze = BOOLEAN,
                        !.errors = BOOLEAN, !.timer = 0,
                        !.levels = {"none", "upper", "e3", "lower", "kill"}]

SafetySettings == {Merging, Apart, Slow, Split, Sides}
LiveSettings   == {[Calm EXCEPT !.nbfreeze = BOOLEAN]}
=============================================================================
