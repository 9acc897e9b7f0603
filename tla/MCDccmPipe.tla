----------------------------- MODULE MCDccmPipe -----------------------------
(* Small instances of DccmPipe: a few double words of two bytes. *)
EXTENDS DccmOrder

Acc(kind, dma, bytes, val) ==
    [kind |-> kind, dma |-> dma, dccm |-> TRUE, bytes |-> bytes, val |-> val,
     dual |-> Cardinality({b[1] : b \in bytes}) = 2]

External == [kind |-> "load", dma |-> FALSE, dccm |-> FALSE, dual |-> FALSE,
             bytes |-> {}, val |-> 0]

(* A byte store, a misaligned store and the misaligned load over both,     *)
(* whose reads meet the drains in one bank or in two.                      *)
ForwardOps == {Acc("store", FALSE, {<<0, 0>>}, 1),
               Acc("store", FALSE, {<<0, 1>>, <<1, 0>>}, 2),
               Acc("load", FALSE, {<<0, 1>>, <<1, 0>>}, 0)}

(* Core and DMA on the same double word, with an overlap, and a load that  *)
(* freezes the pipe.                                                       *)
DmaOps == {Acc("store", FALSE, {<<0, 0>>, <<0, 1>>}, 1),
           Acc("store", TRUE, {<<0, 1>>}, 2),
           Acc("load", TRUE, {<<0, 0>>, <<0, 1>>}, 0), External}

(* Loads and stores that meet flipped bits. *)
EccOps == {Acc("store", FALSE, {<<0, 1>>}, 1),
           Acc("load", FALSE, {<<0, 1>>, <<1, 0>>}, 0)}

(* One behaviour stays with one of these sets of operations: all of them   *)
(* together are out of reach.  Bits flip only in the third.                *)
VARIABLE issued
Scenarios == {ForwardOps, DmaOps, EccOps}
AllOps == UNION Scenarios
ScenarioNext ==
    /\ DccmCycle(issued, IF issued = EccOps THEN Flips ELSE {{}})
    /\ UNCHANGED issued
ScenarioInit == DccmInit /\ issued \in Scenarios
ScenarioSpec == ScenarioInit /\ [][ScenarioNext]_<<vars, dataVars, issued>>
=============================================================================
