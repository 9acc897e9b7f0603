------------------------------- MODULE MCDmaCtrl -------------------------------
(* Small instances of DmaCtrl. *)
EXTENDS DmaCtrl

C(write, at, addr, bad) == [write |-> write, at |-> at, addr |-> addr, bad |-> bad]

(* A write, and a read of each memory; of the debugger a write and a read  *)
(* in error.                                                               *)
AxiCommands == {C(TRUE, "dccm", 1, FALSE), C(FALSE, "dccm", 2, FALSE), C(FALSE, "iccm", 3, FALSE)}
DebugCommands == {C(TRUE, "iccm", 5, FALSE), C(FALSE, "pic", 6, TRUE)}

(* A write, a read and a misaligned write. *)
WithError == {C(TRUE, "dccm", 1, FALSE), C(FALSE, "dccm", 2, FALSE), C(TRUE, "iccm", 3, TRUE)}
None == {}
=============================================================================
