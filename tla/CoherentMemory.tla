--------------------------- MODULE CoherentMemory ---------------------------
(***************************************************************************)
(* What the load/store unit promises about the DCCM: one memory, on which  *)
(* every committed operation takes effect at once.  A store changes its    *)
(* bytes and nothing else; a load returns the bytes the memory holds.      *)
(* Nothing of a flushed operation is ever visible.                         *)
(***************************************************************************)
CONSTANTS
    Bytes,      \* the bytes of the memory
    Values,     \* what a byte can hold
    Accesses    \* records [kind, bytes, val]

VARIABLES
    mem,        \* Bytes -> Values
    result      \* the bytes the last committed load returned

None == <<>>

Init == mem \in [Bytes -> Values] /\ result = None

Store(op) ==
    /\ op.kind = "store"
    /\ mem' = [b \in Bytes |-> IF b \in op.bytes THEN op.val ELSE mem[b]]
    /\ result' = None

Load(op) ==
    /\ op.kind = "load"
    /\ result' = [b \in op.bytes |-> mem[b]]
    /\ UNCHANGED mem

(* Nothing commits. *)
Quiet == result' = None /\ UNCHANGED mem

Next == (\E op \in Accesses : Store(op) \/ Load(op)) \/ Quiet

Spec == Init /\ [][Next]_<<mem, result>>
=============================================================================
