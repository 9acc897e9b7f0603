--------------------------- MODULE MCStoreBuffer ---------------------------
(* Small instances of StoreBuffer. *)
EXTENDS StoreBuffer

Core(kind, dual, dccm) ==
    [kind |-> kind, dma |-> FALSE, dual |-> dual, dccm |-> dccm]
Dma(kind) == [kind |-> kind, dma |-> TRUE, dual |-> FALSE, dccm |-> TRUE]

(* Single and dual DCCM stores, dual DCCM loads, an external load, and DMA *)
(* accesses of both kinds.                                                 *)
AllOps == {Core("load", TRUE, TRUE), Core("store", FALSE, TRUE),
           Core("store", TRUE, TRUE), Core("load", FALSE, FALSE),
           Dma("load"), Dma("store")}

=============================================================================
