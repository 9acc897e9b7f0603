----------------------------- MODULE MCTestVm -----------------------------
(* Settings of the supervisor for TLC. *)
EXTENDS TestVm

Setting(bits, touched, hardware) ==
    [bits |-> bits, touched |-> touched, hardware |-> hardware]

(* Two pages and three frames, so that all are used up, with every access, *)
(* also of a test that jumps to page 0 or runs off its pages; and the real *)
(* number of pages, of which a test uses the last.                         *)
SmallAndReal ==
    {Setting(2, 0 .. 3, hardware) : hardware \in BOOLEAN} \cup {Setting(6, {62}, FALSE)}
=============================================================================
