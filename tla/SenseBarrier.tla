-------------------------- MODULE SenseBarrier --------------------------
(* The sense-reversing barrier of benchmarks/common/util.h on which the    *)
(* harts of a multi-hart program meet.  A hart flips its thread-local      *)
(* sense and adds itself to the count in one atomic access; the last one   *)
(* clears the count and then lets the others go.                           *)
EXTENDS Integers, FiniteSets

CONSTANT Harts            \* the ncores harts that call barrier(ncores)
ASSUME HartsAssumption == IsFiniteSet(Harts) /\ Harts # {}

VARIABLES
  count, sense,           \* the static variables of barrier
  threadsense,            \* its thread-local variable
  phase,                  \* where each hart is: "out", "spin", "clear", "release"
  entered, left,          \* how often each hart has called barrier and returned
  rounds                  \* how often sense was written
barrierVars == <<count, sense, threadsense, phase, entered, left, rounds>>

BarrierInit ==
  /\ count = 0 /\ sense = FALSE /\ rounds = 0
  /\ threadsense = [h \in Harts |-> FALSE]
  /\ phase = [h \in Harts |-> "out"]
  /\ entered = [h \in Harts |-> 0] /\ left = [h \in Harts |-> 0]

IsLast == count = Cardinality(Harts) - 1

ArriveSameSense(h) ==     \* fault: the thread-local sense is not flipped
  /\ phase[h] = "out"
  /\ entered' = [entered EXCEPT ![h] = @ + 1]
  /\ count' = count + 1
  /\ phase' = [phase EXCEPT ![h] = IF IsLast THEN "clear" ELSE "spin"]
  /\ UNCHANGED <<sense, threadsense, left, rounds>>

(* threadsense = !threadsense; __sync_fetch_and_add(&count, 1)             *)
Arrive(h) ==
  /\ phase[h] = "out"
  /\ threadsense' = [threadsense EXCEPT ![h] = ~@]
  /\ entered' = [entered EXCEPT ![h] = @ + 1]
  /\ count' = count + 1
  /\ phase' = [phase EXCEPT ![h] = IF IsLast THEN "clear" ELSE "spin"]
  /\ UNCHANGED <<sense, left, rounds>>

KeepCount(h) ==           \* fault: the count is not cleared
  /\ phase[h] = "clear"
  /\ phase' = [phase EXCEPT ![h] = "release"]
  /\ UNCHANGED <<count, sense, threadsense, entered, left, rounds>>

ClearCount(h) ==
  /\ phase[h] = "clear"
  /\ count' = 0
  /\ phase' = [phase EXCEPT ![h] = "release"]
  /\ UNCHANGED <<sense, threadsense, entered, left, rounds>>

Release(h) ==
  /\ phase[h] = "release"
  /\ sense' = threadsense[h]
  /\ rounds' = rounds + 1
  /\ phase' = [phase EXCEPT ![h] = "out"]
  /\ left' = [left EXCEPT ![h] = @ + 1]
  /\ UNCHANGED <<count, threadsense, entered>>

(* while (sense != threadsense) ends                                       *)
SpinEnds(h) ==
  /\ phase[h] = "spin"
  /\ sense = threadsense[h]
  /\ phase' = [phase EXCEPT ![h] = "out"]
  /\ left' = [left EXCEPT ![h] = @ + 1]
  /\ UNCHANGED <<count, sense, threadsense, entered, rounds>>

Return(h) == Release(h) \/ SpinEnds(h)
BarrierNext == \E h \in Harts : Arrive(h) \/ ClearCount(h) \/ Return(h)
BarrierSpec == BarrierInit /\ [][BarrierNext]_barrierVars

(* The barrier is a rendezvous: no hart returns from its n-th call before  *)
(* every hart has made its n-th call, whatever the harts do in between.    *)
Gathering == INSTANCE Rendezvous
HartsMeet == Gathering!Spec
=============================================================================
