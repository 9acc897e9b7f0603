------------------------------ MODULE DmaService ------------------------------
(***************************************************************************)
(* What the DMA controller promises: commands are performed in the order   *)
(* in which it accepted them, each exactly once, and each is answered in   *)
(* that order with its own result.  In one clock it may take a command,    *)
(* give one to a memory, receive data and answer.                          *)
(***************************************************************************)
EXTENDS Integers, Sequences

CONSTANTS
    Commands,               \* what a master or the debugger may ask for
    Results(_, _),          \* the results command "c" (of the debugger: "d") may have
    DoneAtOnce(_, _)        \* it has its result when it is given to a memory

VARIABLE queue

(* An item is [cmd, dbg, state, res]: "dbg" says that the debugger asked,  *)
(* "state" is "waiting", "issued" or "complete".                           *)
NoResult == <<"none", 0>>

First(n) == queue[n].state = "waiting" /\ \A m \in 1 .. n - 1 : queue[m].state # "waiting"

Completes(a, b) == b.state = "complete" /\ b.res \in Results(a.cmd, a.dbg)

(* Item n of the queue becomes b. *)
Advances(n, b) ==
    LET a == queue[n]
    IN  /\ b.cmd = a.cmd /\ b.dbg = a.dbg
        /\ \/ b = a
           \/ First(n) /\ b = [a EXCEPT !.state = "issued"]
           \/ First(n) /\ DoneAtOnce(a.cmd, a.dbg) /\ Completes(a, b)
           \/ a.state = "issued" /\ Completes(a, b)

(* The debugger does not wait for what has its result at once. *)
Answerable(a) ==
    a.state = "complete" \/ (a.state = "waiting" /\ a.dbg /\ DoneAtOnce(a.cmd, a.dbg))

Init == queue = <<>>

Next ==
    \E answers, accepts \in {0, 1} :
        /\ answers = 1 => queue # <<>> /\ Answerable(Head(queue))
        /\ Len(queue') = Len(queue) - answers + accepts
        /\ \A n \in answers + 1 .. Len(queue) : Advances(n, queue'[n - answers])
        /\ accepts = 1 => LET new == queue'[Len(queue')]
                          IN  new.cmd \in Commands /\ new.state = "waiting" /\ new.res = NoResult

Spec == Init /\ [][Next]_queue
=============================================================================
