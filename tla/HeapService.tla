--------------------------- MODULE HeapService ---------------------------
(* What an allocator promises to the program that calls it: each chunk has *)
(* the bytes and the alignment asked for and none of another chunk's, and  *)
(* keeps its data until it is given back, also when it is resized and so   *)
(* moved.                                                                  *)
EXTENDS Integers

CONSTANTS Arena,     \* the addresses chunks may lie at
          Lengths    \* what can be asked for
VARIABLE chunks      \* [at, len, align, held]: "held" bytes have their data

End(c) == c.at + c.len
Apart(c, d) == c.at # d.at /\ (End(c) <= d.at \/ End(d) <= c.at)
Placed(c, others) ==
    /\ c.at \in Arena /\ (c.len > 0 => End(c) - 1 \in Arena) /\ c.at % c.align = 0
    /\ \A d \in others : Apart(c, d)

Init == chunks = {}

(* "c" is new among the chunks. *)
Allocate(c) ==
    /\ c.len \in Lengths /\ c.held = c.len
    /\ Placed(c, chunks) /\ chunks' = chunks \cup {c}

Release(c) == chunks' = chunks \ {c}

(* "c" becomes "d", with as much of its data as fits. *)
Resize(c, d) ==
    /\ d.len \in Lengths /\ d.held = (IF c.held < d.len THEN c.held ELSE d.len)
    /\ Placed(d, chunks \ {c}) /\ chunks' = (chunks \ {c}) \cup {d}

StartOver == chunks' = {}

Next ==
    \/ \E c \in chunks' : Allocate(c)
    \/ \E c \in chunks : Release(c) \/ \E d \in chunks' : Resize(c, d)
    \/ StartOver

Spec == Init /\ [][Next]_chunks
=============================================================================
