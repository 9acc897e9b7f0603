--------------------------- MODULE Rendezvous ---------------------------
(* What a barrier promises: nobody leaves it for the n-th time before      *)
(* everybody has entered it for the n-th time.                             *)
EXTENDS Naturals

CONSTANT Harts
VARIABLES entered, left

Init == entered = [h \in Harts |-> 0] /\ left = [h \in Harts |-> 0]

Enter(h) ==
  /\ entered[h] = left[h]
  /\ entered' = [entered EXCEPT ![h] = @ + 1]
  /\ UNCHANGED left

Leave(h) ==
  /\ entered[h] = left[h] + 1
  /\ \A g \in Harts : entered[g] > left[h]
  /\ left' = [left EXCEPT ![h] = @ + 1]
  /\ UNCHANGED entered

Next == \E h \in Harts : Enter(h) \/ Leave(h)
Spec == Init /\ [][Next]_<<entered, left>>
=============================================================================
