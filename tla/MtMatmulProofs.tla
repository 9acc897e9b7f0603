------------------------ MODULE MtMatmulProofs ------------------------
(* The barrier of util.h is a rendezvous, and a kernel that is disciplined *)
(* computes the exact product, however its harts are interleaved and       *)
(* however many they are.                                                  *)
EXTENDS MtShares, FiniteSetTheorems, TLAPS

-----------------------------------------------------------------------------
(* The barrier, whatever the harts do outside it.                          *)

Odd(i) == i % 2 = 1
Waiting == {h \in Harts : entered[h] = rounds + 1}
Closing(h) == phase[h] \in {"clear", "release"}

BarrierTypeOK ==
  /\ count \in Nat /\ rounds \in Nat /\ sense \in BOOLEAN
  /\ threadsense \in [Harts -> BOOLEAN]
  /\ phase \in [Harts -> {"out", "spin", "clear", "release"}]
  /\ entered \in [Harts -> Nat] /\ left \in [Harts -> Nat]

(* A hart outside has returned from every round; one inside waits for the  *)
(* round to end, or has yet to notice that it has ended.                   *)
HartSound(h) ==
  /\ phase[h] = "out" => left[h] = rounds /\ entered[h] = rounds
  /\ phase[h] = "spin" => entered[h] = left[h] + 1 /\ entered[h] \in {rounds, rounds + 1}
  /\ Closing(h) => entered[h] = left[h] + 1 /\ entered[h] = rounds + 1
  /\ threadsense[h] = Odd(entered[h])

(* The count is the number of harts that wait, until the last one clears   *)
(* it; it is the last one because all the others wait.                     *)
BarrierInv ==
  /\ BarrierTypeOK
  /\ \A h \in Harts : HartSound(h)
  /\ sense = Odd(rounds)
  /\ \A g, h \in Harts : Closing(g) /\ Closing(h) => g = h
  /\ (\A h \in Harts : phase[h] # "release") => count = Cardinality(Waiting)
  /\ \A h \in Harts : phase[h] = "release" => count = 0
  /\ \A h \in Harts : Closing(h) => Waiting = Harts
  /\ (\A h \in Harts : ~Closing(h)) => Waiting # Harts

USE HartsAssumption

LEMMA WaitingFinite ==
  /\ IsFiniteSet(Waiting) /\ Cardinality(Waiting) \in Nat
  /\ Cardinality(Waiting) = Cardinality(Harts) <=> Waiting = Harts
  /\ Cardinality(Harts) \in Nat
  <1>1. Waiting \subseteq Harts
    BY DEF Waiting
  <1>2. IsFiniteSet(Waiting) /\ Cardinality(Waiting) <= Cardinality(Harts)
        /\ (Cardinality(Waiting) = Cardinality(Harts) => Waiting = Harts)
    BY <1>1, FS_Subset
  <1> QED
    BY <1>2, FS_CardinalityType

LEMMA OddFlips ==
  /\ ~Odd(0)
  /\ \A i \in Nat : Odd(i) \in BOOLEAN /\ Odd(i + 1) = ~Odd(i)
  BY SMT DEF Odd

LEMMA InitSound == BarrierInit => BarrierInv
  <1> SUFFICES ASSUME BarrierInit PROVE BarrierInv
    OBVIOUS
  <1>1. Waiting = {}
    BY DEF BarrierInit, Waiting
  <1>2. Cardinality({}) = 0
    BY FS_EmptySet
  <1>3. BarrierTypeOK
    BY DEF BarrierInit, BarrierTypeOK
  <1>4. \A h \in Harts : HartSound(h) /\ ~Closing(h)
    BY OddFlips DEF BarrierInit, HartSound, Closing
  <1>5. sense = Odd(rounds)
    BY OddFlips DEF BarrierInit
  <1> QED
    BY <1>1, <1>2, <1>3, <1>4, <1>5 DEF BarrierInit, BarrierInv

LEMMA ArriveSound ==
  ASSUME BarrierInv, NEW h \in Harts, Arrive(h)
  PROVE  BarrierInv'
  <1>1. BarrierTypeOK'
    BY DEF BarrierInv, BarrierTypeOK, Arrive
  <1>2. left[h] = rounds /\ entered[h] = rounds /\ rounds' = rounds /\ entered'[h] = rounds + 1
    BY DEF BarrierInv, BarrierTypeOK, HartSound, Arrive
  <1>3. h \notin Waiting /\ Waiting' = Waiting \union {h}
    BY <1>2 DEF Waiting, Arrive, BarrierInv, BarrierTypeOK
  <1>4. Waiting # Harts /\ \A g \in Harts : ~Closing(g)
    BY <1>3 DEF BarrierInv
  <1>5. count = Cardinality(Waiting)
    BY <1>4 DEF BarrierInv, Closing
  <1>6. Cardinality(Waiting') = Cardinality(Waiting) + 1
    BY <1>3, WaitingFinite, FS_AddElement
  <1>7. count' = Cardinality(Waiting')
    BY <1>5, <1>6 DEF Arrive
  <1>8. IsLast <=> Waiting' = Harts
    <2>1. Waiting' \subseteq Harts
      BY DEF Waiting
    <2>2. Cardinality(Waiting') = Cardinality(Harts) <=> Waiting' = Harts
      BY <2>1, FS_Subset
    <2> QED
      BY <2>2, <1>5, <1>6, WaitingFinite DEF IsLast
  <1>9. \A g \in Harts : HartSound(g)'
    <2> SUFFICES ASSUME NEW g \in Harts PROVE HartSound(g)'
      OBVIOUS
    <2>1. CASE g # h
      BY <2>1 DEF BarrierInv, BarrierTypeOK, HartSound, Closing, Arrive
    <2>2. CASE g = h
      <3>1. threadsense'[h] = Odd(entered'[h])
        <4>1. threadsense'[h] = ~threadsense[h] /\ threadsense[h] = Odd(entered[h])
          BY DEF BarrierInv, BarrierTypeOK, HartSound, Arrive
        <4> QED
          BY <4>1, <1>2, OddFlips DEF BarrierInv, BarrierTypeOK
      <3>2. phase'[h] \in {"clear", "spin"} /\ left'[h] = rounds
        BY <1>2 DEF BarrierInv, BarrierTypeOK, Arrive
      <3> QED
        BY <2>2, <3>1, <3>2, <1>2 DEF HartSound, Closing
    <2> QED
      BY <2>1, <2>2
  <1>10. \A g \in Harts : Closing(g)' <=> g = h /\ IsLast
    BY <1>4 DEF Closing, Arrive, BarrierInv, BarrierTypeOK
  <1>11. \A g \in Harts : phase'[g] # "release"
    BY <1>4 DEF Closing, Arrive, BarrierInv, BarrierTypeOK
  <1>12. sense' = Odd(rounds)'
    BY DEF BarrierInv, Arrive, Odd
  <1> QED
    BY <1>1, <1>7, <1>8, <1>9, <1>10, <1>11, <1>12 DEF BarrierInv

LEMMA ClearCountSound ==
  ASSUME BarrierInv, NEW h \in Harts, ClearCount(h)
  PROVE  BarrierInv'
  <1>1. BarrierTypeOK'
    BY DEF BarrierInv, BarrierTypeOK, ClearCount
  <1>2. Waiting' = Waiting
    BY DEF Waiting, ClearCount
  <1>3. \A g \in Harts : Closing(g)' = Closing(g) /\ (phase'[g] = "release" => g = h)
    BY DEF Closing, ClearCount, BarrierInv, BarrierTypeOK
  <1>4. \A g \in Harts : HartSound(g)'
    BY DEF BarrierInv, BarrierTypeOK, HartSound, Closing, ClearCount
  <1>5. count' = 0 /\ phase'[h] = "release" /\ sense' = Odd(rounds)'
    BY DEF BarrierInv, BarrierTypeOK, ClearCount, Odd
  <1> QED
    BY <1>1, <1>2, <1>3, <1>4, <1>5 DEF BarrierInv

LEMMA ReleaseSound ==
  ASSUME BarrierInv, NEW h \in Harts, Release(h)
  PROVE  BarrierInv'
  <1>1. BarrierTypeOK'
    BY DEF BarrierInv, BarrierTypeOK, Release
  <1>2. Waiting = Harts /\ count = 0 /\ rounds' = rounds + 1 /\ Closing(h)
    BY DEF BarrierInv, BarrierTypeOK, Release, Closing
  <1>3. \A g \in Harts : entered[g] = rounds + 1 /\ (g # h => phase[g] = "spin")
    <2>1. \A g \in Harts : entered[g] = rounds + 1
      BY <1>2 DEF Waiting
    <2> QED
      BY <2>1, <1>2 DEF BarrierInv, BarrierTypeOK, HartSound, Closing
  <1>4. Waiting' = {}
    BY <1>2, <1>3 DEF Waiting, Release, BarrierInv, BarrierTypeOK
  <1>5. \A g \in Harts : HartSound(g)' /\ ~Closing(g)'
    BY <1>2, <1>3 DEF BarrierInv, BarrierTypeOK, HartSound, Closing, Release
  <1>6. sense' = Odd(rounds)'
    <2>1. sense' = threadsense[h] /\ threadsense[h] = Odd(rounds + 1)
      BY <1>3 DEF BarrierInv, HartSound, Release
    <2> QED
      BY <2>1, <1>2 DEF Odd
  <1>7. count' = Cardinality(Waiting')
    BY <1>2, <1>4, FS_EmptySet DEF Release
  <1>8. \A g \in Harts : phase'[g] # "release"
    BY <1>5 DEF Closing
  <1> QED
    BY <1>1, <1>4, <1>5, <1>6, <1>7, <1>8 DEF BarrierInv

LEMMA SpinEndsSound ==
  ASSUME BarrierInv, NEW h \in Harts, SpinEnds(h)
  PROVE  BarrierInv' /\ entered[h] = rounds /\ left[h] + 1 = rounds
  <1>1. BarrierTypeOK'
    BY DEF BarrierInv, BarrierTypeOK, SpinEnds
  <1>2. entered[h] = rounds /\ left[h] + 1 = rounds
    <2>1. entered[h] \in {rounds, rounds + 1} /\ entered[h] = left[h] + 1
      BY DEF BarrierInv, HartSound, SpinEnds
    <2>2. Odd(rounds) = Odd(entered[h])
      BY DEF BarrierInv, HartSound, SpinEnds
    <2>3. Odd(rounds + 1) = ~Odd(rounds) /\ Odd(rounds) \in BOOLEAN
      BY OddFlips DEF BarrierInv, BarrierTypeOK
    <2> QED
      BY <2>1, <2>2, <2>3
  <1>3. Waiting' = Waiting
    BY DEF Waiting, SpinEnds
  <1>4. \A g \in Harts : HartSound(g)' /\ Closing(g)' = Closing(g)
    BY <1>2 DEF BarrierInv, BarrierTypeOK, HartSound, Closing, SpinEnds
  <1>5. \A g \in Harts : phase'[g] = "release" <=> phase[g] = "release"
    BY DEF SpinEnds, BarrierInv, BarrierTypeOK
  <1>6. sense' = Odd(rounds)' /\ count' = count
    BY DEF BarrierInv, SpinEnds, Odd
  <1> QED
    BY <1>1, <1>2, <1>3, <1>4, <1>5, <1>6 DEF BarrierInv

LEMMA StutterSound == BarrierInv /\ UNCHANGED barrierVars => BarrierInv'
  BY DEF BarrierInv, BarrierTypeOK, HartSound, Closing, Waiting, Odd, barrierVars

(* The count, the senses and the phases of the harts agree at every step.  *)
THEOREM BarrierSound == BarrierSpec => []BarrierInv
  <1>1. BarrierInv /\ [BarrierNext]_barrierVars => BarrierInv'
    BY ArriveSound, ClearCountSound, ReleaseSound, SpinEndsSound, StutterSound
       DEF BarrierNext, Return
  <1> QED
    BY <1>1, InitSound, PTL DEF BarrierSpec

(* No hart returns from its n-th call before every hart has made it: the   *)
(* barrier implements the rendezvous.                                      *)
THEOREM BarrierIsRendezvous == BarrierSpec => HartsMeet
  <1>1. BarrierInit => Gathering!Init
    BY DEF BarrierInit, Gathering!Init
  <1>2. ASSUME BarrierInv, [BarrierNext]_barrierVars
        PROVE  [Gathering!Next]_<<entered, left>>
    <2>1. CASE UNCHANGED barrierVars
      BY <2>1 DEF barrierVars
    <2>2. ASSUME NEW h \in Harts, Arrive(h) PROVE Gathering!Next
      <3>1. entered[h] = left[h]
        BY <2>2, <1>2 DEF BarrierInv, HartSound, Arrive
      <3> QED
        BY <3>1, <2>2 DEF Gathering!Next, Gathering!Enter, Arrive
    <2>3. ASSUME NEW h \in Harts, ClearCount(h) PROVE UNCHANGED <<entered, left>>
      BY <2>3 DEF ClearCount
    <2>4. ASSUME NEW h \in Harts, Release(h) PROVE Gathering!Next
      <3>1. Waiting = Harts /\ entered[h] = left[h] + 1
        BY <2>4, <1>2 DEF BarrierInv, HartSound, Closing, Release
      <3>2. \A g \in Harts : entered[g] > left[h]
        BY <3>1, <1>2 DEF Waiting, BarrierInv, BarrierTypeOK
      <3> QED
        BY <3>1, <3>2, <2>4 DEF Gathering!Next, Gathering!Leave, Release
    <2>5. ASSUME NEW h \in Harts, SpinEnds(h) PROVE Gathering!Next
      <3>1. entered[h] = rounds /\ left[h] + 1 = rounds
        BY <2>5, <1>2, SpinEndsSound
      <3>2. \A g \in Harts : entered[g] \in {rounds, rounds + 1}
        BY <1>2 DEF BarrierInv, BarrierTypeOK, HartSound, Closing
      <3>3. \A g \in Harts : entered[g] > left[h]
        BY <3>1, <3>2, <1>2 DEF BarrierInv, BarrierTypeOK
      <3> QED
        BY <3>1, <3>3, <2>5 DEF Gathering!Next, Gathering!Leave, SpinEnds
    <2> QED
      BY <1>2, <2>1, <2>2, <2>3, <2>4, <2>5 DEF BarrierNext, Return
  <1> QED
    BY <1>1, <1>2, BarrierSound, PTL DEF BarrierSpec, HartsMeet, Gathering!Spec

HIDE HartsAssumption

-----------------------------------------------------------------------------
(* The kernels.                                                            *)

(* The harts are where the barriers they have passed put them.             *)
HartInv(h) ==
  /\ step[h] \in Work(h)
  /\ pc[h] \in {"load", "store", "barrier", "inside", "verify", "done"}
  /\ phase[h] = "out" <=> pc[h] # "inside"
  /\ pc[h] \notin {"verify", "done"} => left[h] = Epoch(h, step[h])
  /\ pc[h] \notin {"load", "store"} => step[h] \in prog(h).sync
  /\ pc[h] \in {"verify", "done"} =>
       step[h] = Len(prog(h).steps) /\ left[h] = Cardinality(prog(h).sync)
HartsInv ==
  /\ step = [h \in Harts |-> step[h]] /\ pc = [h \in Harts |-> pc[h]]
  /\ seen = [h \in Harts |-> seen[h]]
  /\ \A h \in Harts : HartInv(h)

(* The steps a hart has stored, what they leave in the cells of C and in   *)
(* the copies of B, and what a hart that is about to store has worked out. *)
Done(h) == {i \in Work(h) : i < step[h] \/ (i = step[h] /\ pc[h] \notin {"load", "store"})}
Held(x) ==
  UNION {UNION {prog(h).steps[i].sums[x] : i \in {j \in Done(h) : Adds(h, j, x)}} : h \in Harts}
CellsInv == C = [x \in Cells |-> Held(x)]
Kept(o) ==
  UNION {UNION {prog(h).steps[i].copies : i \in {j \in Done(h) : owner(h) = o}} : h \in Harts}
CopiesInv == copied = [o \in Harts \union {-1} |-> Kept(o)]
Result(h, x) ==
  IF prog(h).over THEN current(h).sums[x] ELSE Sum(C[x], current(h).sums[x])
SeenInv ==
  \A h \in Harts : pc[h] = "store" =>
    seen[h] = [x \in DOMAIN current(h).sums \intersect Cells |-> Result(h, x)]

MatmulInv == HartsInv /\ CellsInv /\ CopiesInv /\ SeenInv

-----------------------------------------------------------------------------
(* The epochs of the steps of a hart.                                      *)

LEMMA SyncFinite ==
  ASSUME BarriersAgree, NEW h \in Harts
  PROVE  /\ Len(prog(h).steps) \in Nat /\ Work(h) = 1..Len(prog(h).steps)
         /\ Len(prog(h).steps) \in prog(h).sync /\ prog(h).sync \subseteq Work(h)
         /\ IsFiniteSet(prog(h).sync) /\ Cardinality(prog(h).sync) \in Nat
  <1>1. /\ Len(prog(h).steps) \in Nat /\ Work(h) = 1..Len(prog(h).steps)
        /\ Len(prog(h).steps) \in prog(h).sync /\ prog(h).sync \subseteq Work(h)
    BY DEF BarriersAgree
  <1>2. IsFiniteSet(1..Len(prog(h).steps))
    BY <1>1, FS_Interval
  <1>3. IsFiniteSet(prog(h).sync)
    BY <1>1, <1>2, FS_Subset
  <1> QED
    BY <1>1, <1>3, FS_CardinalityType

LEMMA EpochType ==
  ASSUME BarriersAgree, NEW h \in Harts, NEW i \in Int
  PROVE  IsFiniteSet({j \in prog(h).sync : j < i}) /\ Epoch(h, i) \in Nat
  <1>1. {j \in prog(h).sync : j < i} \subseteq prog(h).sync
    OBVIOUS
  <1>2. IsFiniteSet({j \in prog(h).sync : j < i})
    BY <1>1, SyncFinite, FS_Subset
  <1> QED
    BY <1>2, FS_CardinalityType DEF Epoch

LEMMA EpochNext ==
  ASSUME BarriersAgree, NEW h \in Harts, NEW i \in Work(h)
  PROVE  /\ i \in Int
         /\ Epoch(h, i + 1) = IF i \in prog(h).sync THEN Epoch(h, i) + 1 ELSE Epoch(h, i)
  <1> DEFINE S == {j \in prog(h).sync : j < i}
             T == {j \in prog(h).sync : j < i + 1}
  <1>1. i \in Int /\ prog(h).sync \subseteq Int
    BY SyncFinite
  <1>2. IsFiniteSet(S) /\ i \notin S
    BY <1>1, EpochType
  <1>3. CASE i \in prog(h).sync
    <2>1. T = S \union {i}
      BY <1>1, <1>3
    <2>2. Cardinality(S \union {i}) = Cardinality(S) + 1
      BY <1>2, FS_AddElement
    <2> QED
      BY <1>1, <1>3, <2>1, <2>2 DEF Epoch
  <1>4. CASE i \notin prog(h).sync
    <2>1. T = S
      BY <1>1, <1>4
    <2> QED
      BY <1>1, <1>4, <2>1 DEF Epoch
  <1> QED
    BY <1>3, <1>4

LEMMA EpochGrows ==
  ASSUME BarriersAgree, NEW h \in Harts, NEW i \in Int, NEW j \in Int, i <= j
  PROVE  Epoch(h, i) <= Epoch(h, j)
  <1> DEFINE S == {k \in prog(h).sync : k < i}
             T == {k \in prog(h).sync : k < j}
  <1>1. S \subseteq T
    BY SyncFinite
  <1>2. IsFiniteSet(T)
    BY EpochType
  <1>3. Cardinality(S) <= Cardinality(T)
    BY <1>1, <1>2, FS_Subset
  <1> QED
    BY <1>3 DEF Epoch

LEMMA LastEpoch ==
  ASSUME BarriersAgree, NEW h \in Harts
  PROVE  Epoch(h, Len(prog(h).steps)) + 1 = Cardinality(prog(h).sync)
  <1> DEFINE m == Len(prog(h).steps)
  <1>1. m \in Work(h) /\ m \in prog(h).sync
    BY SyncFinite
  <1>2. Epoch(h, m + 1) = Epoch(h, m) + 1
    BY <1>1, EpochNext
  <1>3. {j \in prog(h).sync : j < m + 1} = prog(h).sync
    BY SyncFinite
  <1> QED
    BY <1>2, <1>3 DEF Epoch

-----------------------------------------------------------------------------
(* A hart that has entered the barrier of an epoch has done its steps.     *)
LEMMA EpochDone ==
  ASSUME BarriersAgree, BarrierInv, HartsInv, NEW h \in Harts, NEW i \in Work(h),
         entered[h] > Epoch(h, i)
  PROVE  i \in Done(h)
  <1>1. HartInv(h) /\ HartSound(h) /\ entered[h] \in Nat /\ left[h] \in Nat
    BY DEF HartsInv, BarrierInv, BarrierTypeOK
  <1>2. i \in Int /\ step[h] \in Int /\ step[h] \in Work(h)
    BY <1>1, SyncFinite DEF HartInv
  <1>3. /\ Epoch(h, i) \in Nat /\ Epoch(h, step[h]) \in Nat
        /\ Epoch(h, step[h] + 1) \in Nat
    <2>1. step[h] + 1 \in Int
      BY <1>2
    <2>2. Epoch(h, step[h]) \in Nat /\ Epoch(h, i) \in Nat
      BY <1>2, EpochType
    <2>3. Epoch(h, step[h] + 1) \in Nat
      BY <2>1, EpochType
    <2> QED
      BY <2>2, <2>3
  <1>4. CASE pc[h] \in {"load", "store", "barrier"}
    <2>1. entered[h] = Epoch(h, step[h])
      BY <1>1, <1>4 DEF HartInv, HartSound
    <2>2. ~(step[h] <= i)
      BY <2>1, <1>2, <1>3, EpochGrows
    <2> QED
      BY <2>2, <1>2 DEF Done
  <1>5. CASE pc[h] = "inside"
    <2>1. entered[h] = Epoch(h, step[h]) + 1
      BY <1>1, <1>5 DEF HartInv, HartSound, Closing, BarrierInv, BarrierTypeOK
    <2>2. Epoch(h, step[h] + 1) = Epoch(h, step[h]) + 1
      BY <1>1, <1>2, <1>5, EpochNext DEF HartInv
    <2>3. ~(step[h] + 1 <= i)
      BY <2>1, <2>2, <1>2, <1>3, EpochGrows
    <2> QED
      BY <2>3, <1>2, <1>5 DEF Done
  <1>6. CASE pc[h] \in {"verify", "done"}
    BY <1>1, <1>2, <1>6, SyncFinite DEF HartInv, Done
  <1> QED
    BY <1>1, <1>4, <1>5, <1>6 DEF HartInv

(* Harts outside the barrier have returned from as many rounds.            *)
LEMMA OutsideInRound ==
  ASSUME BarrierInv, HartsInv, NEW h \in Harts, pc[h] # "inside"
  PROVE  /\ left[h] = rounds /\ rounds \in Nat
         /\ \A g \in Harts : entered[g] \in Nat /\ entered[g] >= rounds
  <1>1. phase[h] = "out" /\ HartSound(h)
    BY DEF HartsInv, HartInv, BarrierInv
  <1>2. left[h] = rounds
    BY <1>1 DEF HartSound
  <1>3. ASSUME NEW g \in Harts PROVE entered[g] \in Nat /\ entered[g] >= rounds
    <2>1. HartSound(g) /\ rounds \in Nat /\ entered[g] \in Nat
          /\ phase[g] \in {"out", "spin", "clear", "release"}
      BY DEF BarrierInv, BarrierTypeOK
    <2> QED
      BY <2>1 DEF HartSound, Closing
  <1> QED
    BY <1>2, <1>3 DEF BarrierInv, BarrierTypeOK

(* Two harts that are about to store are in one epoch.                     *)
LEMMA StoresApart ==
  ASSUME Disciplined, BarrierInv, HartsInv, NEW g \in Harts, NEW h \in Harts, g # h,
         pc[g] = "store", pc[h] = "store"
  PROVE  Apart(g, current(g), h, current(h))
  <1>1. Epoch(g, step[g]) = Epoch(h, step[h])
    <2>1. left[g] = rounds /\ left[h] = rounds
      BY OutsideInRound
    <2> QED
      BY <2>1 DEF HartsInv, HartInv
  <1>2. step[g] \in Work(g) /\ step[h] \in Work(h)
    BY DEF HartsInv, HartInv
  <1>3. Apart(g, prog(g).steps[step[g]], h, prog(h).steps[step[h]]) \/ Epoch(g, step[g]) # Epoch(h, step[h])
    BY <1>2 DEF Disciplined, EpochsApart
  <1> QED
    BY <1>1, <1>3 DEF current
-----------------------------------------------------------------------------
(* Membership in the unions.                                               *)

LEMMA HeldIs ==
  ASSUME NEW x, NEW k
  PROVE  k \in Held(x) <=>
           \E h \in Harts : \E i \in Done(h) : Adds(h, i, x) /\ k \in prog(h).steps[i].sums[x]
  BY DEF Held

LEMMA KeptIs ==
  ASSUME NEW o, NEW k
  PROVE  k \in Kept(o) <=>
           \E h \in Harts : \E i \in Done(h) : owner(h) = o /\ k \in prog(h).steps[i].copies
  BY DEF Kept

LEMMA AddersAre ==
  ASSUME NEW x, NEW h \in Harts, NEW i \in Work(h), Adds(h, i, x)
  PROVE  <<h, i>> \in Adders(x) /\ Products(<<h, i>>, x) = prog(h).steps[i].sums[x]
         /\ <<h, i>>[1] = h
  BY DEF Adders, Products

(* A cell has one step for each product; one that overwrites it is alone.  *)
LEMMA OneAdder ==
  ASSUME ProductsOnce, NEW x \in Cells,
         NEW g \in Harts, NEW i \in Work(g), Adds(g, i, x),
         NEW h \in Harts, NEW j \in Work(h), Adds(h, j, x),
         g # h \/ i # j
  PROVE  ~prog(g).over /\ Disjoint(prog(g).steps[i].sums[x], prog(h).steps[j].sums[x])
  <1> DEFINE a == <<g, i>>
             b == <<h, j>>
  <1>1. a \in Adders(x) /\ Products(a, x) = prog(g).steps[i].sums[x] /\ a[1] = g
    BY AddersAre
  <1>2. b \in Adders(x) /\ Products(b, x) = prog(h).steps[j].sums[x]
    BY AddersAre
  <1>3. a # b
    OBVIOUS
  <1> HIDE DEF a, b
  <1>4. ~prog(a[1]).over /\ Disjoint(Products(a, x), Products(b, x))
    BY <1>1, <1>2, <1>3 DEF ProductsOnce
  <1> QED
    BY <1>1, <1>2, <1>4

LEMMA AllAdders ==
  ASSUME ProductsOnce, NEW x \in Cells, NEW k
  PROVE  k \in Product[x] <=>
           \E h \in Harts : \E i \in Work(h) : Adds(h, i, x) /\ k \in prog(h).steps[i].sums[x]
  <1>1. UNION {Products(a, x) : a \in Adders(x)} = Product[x]
    BY DEF ProductsOnce
  <1>2. ASSUME NEW h \in Harts, NEW i \in Work(h), Adds(h, i, x), k \in prog(h).steps[i].sums[x]
        PROVE  k \in Product[x]
    <2>1. <<h, i>> \in Adders(x) /\ k \in Products(<<h, i>>, x)
      BY <1>2, AddersAre
    <2> QED
      BY <1>1, <2>1
  <1>3. ASSUME k \in Product[x]
        PROVE  \E h \in Harts : \E i \in Work(h) : Adds(h, i, x) /\ k \in prog(h).steps[i].sums[x]
    <2>1. PICK a \in Adders(x) : k \in Products(a, x)
      BY <1>1, <1>3
    <2>2. PICK h \in Harts : a \in {h} \X Work(h)
      BY DEF Adders
    <2>3. a[1] = h /\ a[2] \in Work(h) /\ Adds(a[1], a[2], x)
      BY <2>2 DEF Adders
    <2> QED
      BY <2>1, <2>3 DEF Products
  <1> QED
    BY <1>2, <1>3

-----------------------------------------------------------------------------
(* What the steps of a hart preserve.                                      *)

LEMMA KernelStays ==
  ASSUME kernel' = kernel
  PROVE  /\ \A h : prog(h)' = prog(h) /\ owner(h)' = owner(h) /\ Work(h)' = Work(h)
         /\ \A h, i : Epoch(h, i)' = Epoch(h, i)
         /\ \A h, i, x : Adds(h, i, x)' <=> Adds(h, i, x)
         /\ Disciplined' <=> Disciplined
  BY DEF prog, owner, Work, Epoch, Adds, Disciplined, BarriersAgree, InBounds, EpochsApart,
         ProductsOnce, CopiesFirst, Adders, Products, Apart, Reads, Disjoint

LEMMA InitSoundMatmul ==
  ASSUME Init, Disciplined
  PROVE  MatmulInv
  <1>1. HartsInv
    <2>1. ASSUME NEW h \in Harts PROVE HartInv(h)
      <3>1. step[h] = 1 /\ pc[h] = "load" /\ phase[h] = "out" /\ left[h] = 0
        BY DEF Init, MatmulInit, BarrierInit
      <3>2. Len(prog(h).steps) \in Nat /\ Work(h) = 1..Len(prog(h).steps)
            /\ Len(prog(h).steps) \in Work(h) /\ prog(h).sync \subseteq Work(h)
        BY SyncFinite DEF Disciplined
      <3>3. {j \in prog(h).sync : j < 1} = {}
        BY <3>2
      <3>4. Epoch(h, 1) = 0
        BY <3>3, FS_EmptySet DEF Epoch
      <3> QED
        BY <3>1, <3>2, <3>4 DEF HartInv
    <2> QED
      BY <2>1 DEF HartsInv, Init, MatmulInit
  <1>2. \A h \in Harts : Done(h) = {}
    <2>1. \A h \in Harts : step[h] = 1 /\ pc[h] = "load"
      BY DEF Init, MatmulInit
    <2>2. \A h \in Harts : Work(h) = 1..Len(prog(h).steps) /\ Len(prog(h).steps) \in Nat
      BY DEF Disciplined, BarriersAgree
    <2> QED
      BY <2>1, <2>2 DEF Done
  <1>3. \A x : Held(x) = {} /\ Kept(x) = {}
    BY <1>2 DEF Held, Kept
  <1>4. CellsInv /\ CopiesInv
    BY <1>3 DEF CellsInv, CopiesInv, Init, MatmulInit
  <1>5. SeenInv
    BY DEF SeenInv, Init, MatmulInit
  <1> QED
    BY <1>1, <1>4, <1>5 DEF MatmulInv

(* An action that stores nothing leaves the cells and the copies alone.    *)
LEMMA NothingStored ==
  ASSUME Disciplined, CellsInv, CopiesInv, kernel' = kernel, C' = C, copied' = copied,
         \A h \in Harts : Done(h)' = Done(h)
  PROVE  CellsInv' /\ CopiesInv'
  <1>1. ASSUME NEW x PROVE Held(x)' = Held(x)
    BY KernelStays DEF Held
  <1>2. ASSUME NEW o PROVE Kept(o)' = Kept(o)
    BY KernelStays DEF Kept
  <1>3. CellsInv'
    BY <1>1, KernelStays DEF CellsInv
  <1>4. CopiesInv'
    BY <1>2, KernelStays DEF CopiesInv
  <1> QED
    BY <1>3, <1>4

(* What a step reads of a copy of B is there, and its products are formed. *)
LEMMA CopiesAreThere ==
  ASSUME Disciplined, BarrierInv, MatmulInv, NEW h \in Harts, pc[h] = "load",
         NEW b \in Reads(h, current(h))
  PROVE  b \in copied[owner(h)]
  <1> DEFINE i == step[h]
  <1>1. HartInv(h) /\ i \in Work(h) /\ i \in Int /\ left[h] = Epoch(h, i)
    BY SyncFinite DEF MatmulInv, HartsInv, HartInv, Disciplined
  <1>2. PICK g \in Harts : owner(g) = owner(h) /\ \E j \in Work(g) :
          /\ b \in prog(g).steps[j].copies
          /\ (g = h /\ j < i) \/ Epoch(g, j) < Epoch(h, i)
    BY <1>1 DEF Disciplined, CopiesFirst, current
  <1>3. PICK j \in Work(g) :
          /\ b \in prog(g).steps[j].copies
          /\ (g = h /\ j < i) \/ Epoch(g, j) < Epoch(h, i)
    BY <1>2
  <1>4. j \in Done(g)
    <2>1. CASE g = h /\ j < i
      BY <2>1 DEF Done
    <2>2. CASE Epoch(g, j) < Epoch(h, i)
      <3>1. left[h] = rounds /\ rounds \in Nat /\ entered[g] \in Nat /\ entered[g] >= rounds
        BY OutsideInRound DEF MatmulInv
      <3>2. j \in Int
        BY SyncFinite DEF Disciplined
      <3>3. Epoch(g, j) \in Nat
        BY <3>2, EpochType DEF Disciplined
      <3>4. entered[g] > Epoch(g, j)
        BY <1>1, <2>2, <3>1, <3>3
      <3> QED
        BY <3>4, EpochDone DEF MatmulInv, Disciplined
    <2> QED
      BY <1>3, <2>1, <2>2
  <1>5. b \in Kept(owner(h))
    BY <1>2, <1>3, <1>4, KeptIs
  <1>6. owner(h) \in Harts \union {-1}
    BY DEF owner
  <1> QED
    BY <1>5, <1>6 DEF MatmulInv, CopiesInv

LEMMA AllFormed ==
  ASSUME Disciplined, BarrierInv, MatmulInv, NEW h \in Harts, pc[h] = "load",
         NEW x \in DOMAIN current(h).sums
  PROVE  Formed(h, x) = current(h).sums[x]
  <1>1. CASE prog(h).from = "B"
    BY <1>1 DEF Formed
  <1>2. CASE prog(h).from # "B"
    <2>1. \A p \in current(h).sums[x] : p[2] \in Reads(h, current(h))
      BY <1>2 DEF Reads
    <2>2. \A p \in current(h).sums[x] : p[2] \in copied[owner(h)]
      BY <2>1, CopiesAreThere
    <2> QED
      BY <1>2, <2>2 DEF Formed
  <1> QED
    BY <1>1, <1>2

(* What Done is after an action of a hart.                                 *)
LEMMA DoneMoves ==
  ASSUME HartsInv, Disciplined, kernel' = kernel, NEW h \in Harts,
         \A g \in Harts : g # h => step'[g] = step[g] /\ pc'[g] = pc[g]
  PROVE  /\ \A g \in Harts : g # h => Done(g)' = Done(g)
         /\ step'[h] = step[h] /\ (pc'[h] \in {"load", "store"} <=> pc[h] \in {"load", "store"}) =>
              Done(h)' = Done(h)
         /\ step'[h] = step[h] + 1 /\ pc[h] \notin {"load", "store"} /\ pc'[h] = "load" =>
              Done(h)' = Done(h)
  <1>1. \A g \in Harts : Work(g)' = Work(g)
    BY KernelStays
  <1>2. \A g \in Harts : g # h => Done(g)' = Done(g)
    BY <1>1 DEF Done
  <1>3. step'[h] = step[h] /\ (pc'[h] \in {"load", "store"} <=> pc[h] \in {"load", "store"}) =>
              Done(h)' = Done(h)
    BY <1>1 DEF Done
  <1>4. step[h] \in Work(h) /\ step[h] \in Int /\ \A i \in Work(h) : i \in Int
    BY SyncFinite DEF HartsInv, HartInv, Disciplined
  <1>5. step'[h] = step[h] + 1 /\ pc[h] \notin {"load", "store"} /\ pc'[h] = "load" =>
              Done(h)' = Done(h)
    BY <1>1, <1>4 DEF Done
  <1> QED
    BY <1>2, <1>3, <1>5

LEMMA DoneGrows ==
  ASSUME HartsInv, Disciplined, kernel' = kernel, NEW h \in Harts, pc[h] = "store",
         \/ step'[h] = step[h] + 1 /\ pc'[h] = "load"
         \/ step'[h] = step[h] /\ pc'[h] = "barrier"
  PROVE  Done(h)' = Done(h) \union {step[h]}
  <1>1. Work(h)' = Work(h)
    BY KernelStays
  <1>2. step[h] \in Work(h) /\ step[h] \in Int /\ \A i \in Work(h) : i \in Int
    BY SyncFinite DEF HartsInv, HartInv, Disciplined
  <1> QED
    BY <1>1, <1>2 DEF Done

(* An action of one hart leaves the others where they are.                 *)
LEMMA OtherHart ==
  ASSUME HartsInv, kernel' = kernel, NEW g \in Harts, step'[g] = step[g], pc'[g] = pc[g],
         left'[g] = left[g], phase'[g] = phase[g]
  PROVE  HartInv(g)'
  BY KernelStays DEF HartsInv, HartInv

LEMMA LoadSound ==
  ASSUME Disciplined, BarrierInv, MatmulInv, NEW h \in Harts, Load(h)
  PROVE  MatmulInv'
  <1>1. /\ kernel' = kernel /\ C' = C /\ copied' = copied /\ step' = step
        /\ left' = left /\ phase' = phase /\ pc[h] = "load"
        /\ pc' = [pc EXCEPT ![h] = "store"]
    BY DEF Load, barrierVars
  <1>2. \A g \in Harts : pc'[g] = IF g = h THEN "store" ELSE pc[g]
    BY <1>1 DEF MatmulInv, HartsInv
  <1>3. HartsInv'
    <2>1. ASSUME NEW g \in Harts, g # h PROVE HartInv(g)'
      BY <2>1, <1>1, <1>2, OtherHart DEF MatmulInv
    <2>2. HartInv(h)'
      BY <1>1, <1>2, KernelStays DEF MatmulInv, HartsInv, HartInv
    <2>3. seen' = [g \in Harts |-> seen'[g]] /\ pc' = [g \in Harts |-> pc'[g]]
      BY DEF MatmulInv, HartsInv, Load
    <2> QED
      BY <2>1, <2>2, <2>3, <1>1 DEF HartsInv, MatmulInv
  <1>4. \A g \in Harts : Done(g)' = Done(g)
    BY <1>1, <1>2, DoneMoves DEF MatmulInv
  <1>5. CellsInv' /\ CopiesInv'
    BY <1>1, <1>4, NothingStored DEF MatmulInv
  <1>6. SeenInv'
    <2> SUFFICES ASSUME NEW g \in Harts, pc'[g] = "store"
                 PROVE  seen'[g] = [x \in DOMAIN current(g).sums \intersect Cells |-> Result(g, x)]
      <3>1. \A g \in Harts : current(g)' = current(g)
        BY <1>1, KernelStays DEF current
      <3>2. \A g \in Harts : \A x : Result(g, x)' = Result(g, x)
        BY <1>1, <3>1, KernelStays DEF Result, Sum, Wrong
      <3> QED
        BY <3>1, <3>2 DEF SeenInv
    <2>2. CASE g # h
      <3>1. seen'[g] = seen[g] /\ pc'[g] = pc[g]
        BY <2>2, <1>2 DEF Load, MatmulInv, HartsInv
      <3> QED
        BY <3>1 DEF MatmulInv, SeenInv
    <2>3. CASE g = h
      <3>1. seen'[h] = [x \in DOMAIN current(h).sums \intersect Cells |->
                          IF prog(h).over THEN Formed(h, x) ELSE Sum(C[x], Formed(h, x))]
        BY DEF Load, MatmulInv, HartsInv
      <3>2. \A x \in DOMAIN current(h).sums : Formed(h, x) = current(h).sums[x]
        BY <1>1, AllFormed
      <3> QED
        BY <2>3, <3>1, <3>2 DEF Result
    <2> QED
      BY <2>2, <2>3
  <1> QED
    BY <1>3, <1>5, <1>6 DEF MatmulInv
LEMMA StoreMovesHart ==
  ASSUME Disciplined, BarrierInv, MatmulInv, NEW h \in Harts, Store(h)
  PROVE  /\ HartsInv'
         /\ Done(h)' = Done(h) \union {step[h]}
         /\ \A g \in Harts : g # h => Done(g)' = Done(g) /\ pc'[g] = pc[g] /\ seen'[g] = seen[g]
                                       /\ current(g)' = current(g)
         /\ pc'[h] # "store"
  <1>1. /\ kernel' = kernel /\ left' = left /\ phase' = phase /\ pc[h] = "store"
        /\ \/ /\ step[h] \in prog(h).sync
              /\ pc' = [pc EXCEPT ![h] = "barrier"] /\ step' = step
           \/ /\ step[h] \notin prog(h).sync
              /\ pc' = [pc EXCEPT ![h] = "load"] /\ step' = [step EXCEPT ![h] = @ + 1]
    BY DEF Store, barrierVars
  <1>2. /\ \A g \in Harts : g # h => step'[g] = step[g] /\ pc'[g] = pc[g]
        /\ \/ step[h] \in prog(h).sync /\ pc'[h] = "barrier" /\ step'[h] = step[h]
           \/ step[h] \notin prog(h).sync /\ pc'[h] = "load" /\ step'[h] = step[h] + 1
        /\ step' = [g \in Harts |-> step'[g]] /\ pc' = [g \in Harts |-> pc'[g]]
    BY <1>1 DEF MatmulInv, HartsInv
  <1>3. /\ \A g \in Harts : g # h => seen'[g] = seen[g]
        /\ seen' = [g \in Harts |-> seen'[g]]
    BY DEF Store, MatmulInv, HartsInv
  <1>4. ASSUME NEW g \in Harts, g # h PROVE HartInv(g)'
    BY <1>1, <1>2, <1>4, OtherHart DEF MatmulInv
  <1>5. HartInv(h)'
    <2>1. HartInv(h) /\ step[h] \in Work(h) /\ left[h] = Epoch(h, step[h]) /\ phase[h] = "out"
      BY <1>1 DEF MatmulInv, HartsInv, HartInv
    <2>2. /\ Len(prog(h).steps) \in Nat /\ Work(h) = 1..Len(prog(h).steps)
          /\ Len(prog(h).steps) \in prog(h).sync
      BY SyncFinite DEF Disciplined
    <2>3. CASE step[h] \in prog(h).sync
      BY <1>1, <1>2, <2>1, <2>3, KernelStays DEF HartInv
    <2>4. CASE step[h] \notin prog(h).sync
      <3>1. step'[h] = step[h] + 1 /\ pc'[h] = "load" /\ step[h] + 1 \in Work(h)
        BY <1>2, <2>1, <2>2, <2>4
      <3>2. Epoch(h, step[h] + 1) = Epoch(h, step[h])
        BY <2>1, <2>4, EpochNext DEF Disciplined
      <3>3. Epoch(h, step[h])' = Epoch(h, step[h] + 1)
        BY <1>1, <3>1 DEF Epoch, prog
      <3>4. Work(h)' = Work(h)
        BY <1>1, KernelStays
      <3> QED
        BY <1>1, <2>1, <3>1, <3>2, <3>3, <3>4 DEF HartInv
    <2> QED
      BY <2>3, <2>4
  <1>6. HartsInv'
    BY <1>2, <1>3, <1>4, <1>5 DEF HartsInv
  <1>7. Done(h)' = Done(h) \union {step[h]} /\ \A g \in Harts : g # h => Done(g)' = Done(g)
    <2>1. HartsInv /\ kernel' = kernel /\ \A g \in Harts : g # h => step'[g] = step[g] /\ pc'[g] = pc[g]
      BY <1>1, <1>2 DEF MatmulInv
    <2>2. pc[h] = "store" /\ (\/ step'[h] = step[h] + 1 /\ pc'[h] = "load"
                              \/ step'[h] = step[h] /\ pc'[h] = "barrier")
      BY <1>1, <1>2
    <2>3. Done(h)' = Done(h) \union {step[h]}
      BY <2>1, <2>2, DoneGrows
    <2>4. \A g \in Harts : g # h => Done(g)' = Done(g)
      BY <2>1, DoneMoves
    <2> QED
      BY <2>3, <2>4
  <1>8. \A g \in Harts : g # h => current(g)' = current(g)
    BY <1>1, <1>2, KernelStays DEF current
  <1> QED
    BY <1>2, <1>3, <1>6, <1>7, <1>8
(* The sum a hart stores is what its cell holds of the steps done.         *)
LEMMA CellStored ==
  ASSUME Disciplined, MatmulInv, NEW h \in Harts, pc[h] = "store",
         Done(h)' = Done(h) \union {step[h]}, kernel' = kernel,
         \A g \in Harts : g # h => Done(g)' = Done(g),
         NEW x \in Cells, x \in DOMAIN current(h).sums
  PROVE  Result(h, x) = Held(x)'
  <1> DEFINE i == step[h]
             sum == current(h).sums[x]
  <1>1. i \in Work(h) /\ i \notin Done(h) /\ Adds(h, i, x) /\ sum = prog(h).steps[i].sums[x]
    <2>1. i \in Work(h)
      BY DEF MatmulInv, HartsInv, HartInv
    <2>2. i \in Int
      BY <2>1, SyncFinite DEF Disciplined
    <2> QED
      BY <2>1, <2>2 DEF Done, Adds, current
  <1> HIDE DEF sum
  <1>2. \A k : k \in Held(x)' <=> k \in Held(x) \/ k \in sum
    <2>1. Held(x)' = UNION {UNION {prog(g).steps[j].sums[x] : j \in {m \in Done(g)' : Adds(g, m, x)}} : g \in Harts}
      BY KernelStays DEF Held
    <2>2. \A g \in Harts : g # h => Done(g)' = Done(g)
      OBVIOUS
    <2>3. ASSUME NEW k, k \in Held(x)' PROVE k \in Held(x) \/ k \in sum
      <3>1. PICK g \in Harts : \E j \in Done(g)' : Adds(g, j, x) /\ k \in prog(g).steps[j].sums[x]
        BY <2>1, <2>3
      <3>2. PICK j \in Done(g)' : Adds(g, j, x) /\ k \in prog(g).steps[j].sums[x]
        BY <3>1
      <3>3. CASE j \in Done(g)
        BY <3>2, <3>3, HeldIs
      <3>4. CASE j \notin Done(g)
        <4>1. g = h /\ j = i
          BY <3>2, <3>4, <2>2
        <4> QED
          BY <4>1, <3>2, <1>1
      <3> QED
        BY <3>3, <3>4
    <2>4. ASSUME NEW k, k \in Held(x) PROVE k \in Held(x)'
      <3>1. PICK g \in Harts : \E j \in Done(g) : Adds(g, j, x) /\ k \in prog(g).steps[j].sums[x]
        BY <2>4, HeldIs
      <3>2. PICK j \in Done(g) : Adds(g, j, x) /\ k \in prog(g).steps[j].sums[x]
        BY <3>1
      <3>3. j \in Done(g)'
        BY <2>2
      <3> QED
        BY <2>1, <3>2, <3>3
    <2>5. ASSUME NEW k, k \in sum PROVE k \in Held(x)'
      <3>1. i \in Done(h)'
        OBVIOUS
      <3> QED
        BY <2>1, <2>5, <3>1, <1>1
    <2> QED
      BY <2>3, <2>4, <2>5
  <1>3. ASSUME NEW k \in Held(x) PROVE ~prog(h).over /\ k \notin sum
    <2>1. PICK g \in Harts : \E j \in Done(g) : Adds(g, j, x) /\ k \in prog(g).steps[j].sums[x]
      BY <1>3, HeldIs
    <2>2. PICK j \in Done(g) : Adds(g, j, x) /\ k \in prog(g).steps[j].sums[x]
      BY <2>1
    <2>3. j \in Work(g) /\ (h # g \/ i # j)
      BY <1>1 DEF Done
    <2>4. ~prog(h).over /\ Disjoint(prog(h).steps[i].sums[x], prog(g).steps[j].sums[x])
      BY <1>1, <2>2, <2>3, OneAdder DEF Disciplined
    <2> QED
      BY <1>1, <2>2, <2>4 DEF Disjoint
  <1>4. CASE prog(h).over
    <2>1. Held(x)' = sum
      BY <1>2, <1>3, <1>4
    <2> QED
      BY <1>4, <2>1 DEF Result, sum
  <1>5. CASE ~prog(h).over
    <2>1. C[x] = Held(x)
      BY DEF MatmulInv, CellsInv
    <2>2. Sum(Held(x), sum) = Held(x) \union sum
      BY <1>3 DEF Sum
    <2>3. Held(x)' = Held(x) \union sum
      BY <1>2
    <2> QED
      BY <1>5, <2>1, <2>2, <2>3 DEF Result, sum
  <1> QED
    BY <1>4, <1>5
LEMMA HeldStays ==
  ASSUME NEW h \in Harts, Done(h)' = Done(h) \union {step[h]}, kernel' = kernel,
         \A g \in Harts : g # h => Done(g)' = Done(g), NEW x, ~Adds(h, step[h], x)
  PROVE  Held(x)' = Held(x)
  <1> DEFINE Added(g, S) == UNION {prog(g).steps[j].sums[x] : j \in S}
  <1>1. Held(x)' = UNION {Added(g, {m \in Done(g)' : Adds(g, m, x)}) : g \in Harts}
    BY KernelStays DEF Held
  <1>2. Held(x) = UNION {Added(g, {m \in Done(g) : Adds(g, m, x)}) : g \in Harts}
    BY DEF Held
  <1>3. ASSUME NEW g \in Harts
        PROVE  {m \in Done(g)' : Adds(g, m, x)} = {m \in Done(g) : Adds(g, m, x)}
    BY <1>3
  <1>4. ASSUME NEW g \in Harts
        PROVE  Added(g, {m \in Done(g)' : Adds(g, m, x)}) = Added(g, {m \in Done(g) : Adds(g, m, x)})
    BY <1>3
  <1> DEFINE After(g) == Added(g, {m \in Done(g)' : Adds(g, m, x)})
             Before(g) == Added(g, {m \in Done(g) : Adds(g, m, x)})
  <1>5. \A g \in Harts : After(g) = Before(g)
    BY <1>4
  <1>6. Held(x)' = UNION {After(g) : g \in Harts} /\ Held(x) = UNION {Before(g) : g \in Harts}
    BY <1>1, <1>2
  <1> HIDE DEF After, Before
  <1> QED
    BY <1>5, <1>6

LEMMA KeptMoves ==
  ASSUME NEW h \in Harts, Done(h)' = Done(h) \union {step[h]}, kernel' = kernel,
         \A g \in Harts : g # h => Done(g)' = Done(g), NEW o
  PROVE  Kept(o)' = IF owner(h) = o THEN Kept(o) \union current(h).copies ELSE Kept(o)
  <1> DEFINE Mine(g) == owner(g) = o
  <1>1. Kept(o)' = UNION {UNION {prog(g).steps[j].copies : j \in {m \in Done(g)' : Mine(g)}} : g \in Harts}
    BY KernelStays DEF Kept
  <1>2. Kept(o) = UNION {UNION {prog(g).steps[j].copies : j \in {m \in Done(g) : Mine(g)}} : g \in Harts}
    BY DEF Kept
  <1>3. current(h).copies = prog(h).steps[step[h]].copies
    BY DEF current
  <1> HIDE DEF Mine
  <1>4. CASE Mine(h)
    <2>1. ASSUME NEW k PROVE k \in Kept(o)' <=> k \in Kept(o) \/ k \in current(h).copies
      <3>1. ASSUME k \in Kept(o)' PROVE k \in Kept(o) \/ k \in current(h).copies
        <4>1. PICK g \in Harts : \E j \in Done(g)' : Mine(g) /\ k \in prog(g).steps[j].copies
          BY <1>1, <3>1
        <4>2. PICK j \in Done(g)' : Mine(g) /\ k \in prog(g).steps[j].copies
          BY <4>1
        <4>3. j \in Done(g) \/ (g = h /\ j = step[h])
          OBVIOUS
        <4> QED
          BY <1>2, <1>3, <4>2, <4>3
      <3>2. ASSUME k \in Kept(o) PROVE k \in Kept(o)'
        <4>1. PICK g \in Harts : \E j \in Done(g) : Mine(g) /\ k \in prog(g).steps[j].copies
          BY <1>2, <3>2
        <4>2. PICK j \in Done(g) : Mine(g) /\ k \in prog(g).steps[j].copies
          BY <4>1
        <4>3. j \in Done(g)'
          OBVIOUS
        <4> QED
          BY <1>1, <4>2, <4>3
      <3>3. ASSUME k \in current(h).copies PROVE k \in Kept(o)'
        BY <1>1, <1>3, <1>4, <3>3
      <3> QED
        BY <3>1, <3>2, <3>3
    <2>2. Kept(o)' = Kept(o) \union current(h).copies
      BY <2>1
    <2> QED
      BY <1>4, <2>2 DEF Mine
  <1>5. CASE ~Mine(h)
    <2>1. ASSUME NEW g \in Harts
          PROVE  {m \in Done(g)' : Mine(g)} = {m \in Done(g) : Mine(g)}
      BY <2>1, <1>5
    <2>2. Kept(o)' = Kept(o)
      BY <1>1, <1>2, <2>1
    <2> QED
      BY <1>5, <2>2 DEF Mine
  <1> QED
    BY <1>4, <1>5

LEMMA StoreSound ==
  ASSUME Disciplined, BarrierInv, MatmulInv, NEW h \in Harts, Store(h)
  PROVE  MatmulInv'
  <1>1. /\ HartsInv'
        /\ Done(h)' = Done(h) \union {step[h]}
        /\ \A g \in Harts : g # h => Done(g)' = Done(g) /\ pc'[g] = pc[g] /\ seen'[g] = seen[g]
                                      /\ current(g)' = current(g)
        /\ pc'[h] # "store"
    BY StoreMovesHart
  <1>2. kernel' = kernel /\ pc[h] = "store"
    BY DEF Store
  <1>3. \A x \in Cells : C[x] = Held(x)
    BY DEF MatmulInv, CellsInv
  <1>4. ASSUME NEW x \in Cells, x \notin DOMAIN current(h).sums
        PROVE  Held(x)' = Held(x) /\ C'[x] = C[x]
    <2>1. ~Adds(h, step[h], x)
      BY <1>4 DEF Adds, current
    <2>2. Held(x)' = Held(x)
      BY <1>1, <1>2, <2>1, HeldStays
    <2>3. seen[h] = [z \in DOMAIN current(h).sums \intersect Cells |-> Result(h, z)]
      BY <1>2 DEF MatmulInv, SeenInv
    <2>4. C' = [z \in Cells |-> IF z \in DOMAIN seen[h] THEN seen[h][z] ELSE C[z]]
      BY DEF Store
    <2> QED
      BY <1>4, <2>2, <2>3, <2>4
  <1>5. CellsInv'
    <2>1. C' = [x \in Cells |-> IF x \in DOMAIN seen[h] THEN seen[h][x] ELSE C[x]]
      BY DEF Store
    <2>2. ASSUME NEW x \in Cells PROVE C'[x] = Held(x)'
      <3>1. CASE x \notin DOMAIN current(h).sums
        BY <1>3, <1>4, <3>1
      <3>2. CASE x \in DOMAIN current(h).sums
        <4>1. Result(h, x) = Held(x)'
          BY <1>1, <1>2, <3>2, CellStored
        <4>2. seen[h] = [z \in DOMAIN current(h).sums \intersect Cells |-> Result(h, z)]
          BY <1>2 DEF MatmulInv, SeenInv
        <4>3. C'[x] = Result(h, x)
          BY <2>1, <3>2, <4>2
        <4> QED
          BY <4>1, <4>3
      <3> QED
        BY <3>1, <3>2
    <2> QED
      BY <2>1, <2>2 DEF CellsInv
  <1>6. CopiesInv'
    <2> DEFINE q == owner(h)
               new == current(h).copies
    <2>1. \A o : Kept(o)' = IF q = o THEN Kept(o) \union new ELSE Kept(o)
      BY <1>1, <1>2, KeptMoves
    <2>2. copied' = [copied EXCEPT ![q] = @ \union new]
      BY DEF Store
    <2>3. copied = [o \in Harts \union {-1} |-> Kept(o)]
      BY DEF MatmulInv, CopiesInv
    <2> HIDE DEF q, new
    <2>4. copied' = [o \in Harts \union {-1} |-> IF q = o THEN Kept(o) \union new ELSE Kept(o)]
      BY <2>2, <2>3
    <2> QED
      BY <2>1, <2>4 DEF CopiesInv
  <1>7. SeenInv'
    <2> SUFFICES ASSUME NEW g \in Harts, pc'[g] = "store"
                 PROVE  seen'[g] = [x \in DOMAIN current(g)'.sums \intersect Cells |-> Result(g, x)']
      BY DEF SeenInv
    <2>1. g # h /\ pc[g] = "store" /\ current(g)' = current(g) /\ seen'[g] = seen[g]
          /\ prog(g)' = prog(g)
      BY <1>1, <1>2, KernelStays
    <2>2. seen[g] = [x \in DOMAIN current(g).sums \intersect Cells |-> Result(g, x)]
      BY <2>1 DEF MatmulInv, SeenInv
    <2>3. ASSUME NEW x \in DOMAIN current(g).sums \intersect Cells PROVE Result(g, x)' = Result(g, x)
      <3>1. Apart(g, current(g), h, current(h))
        BY <1>2, <2>1, StoresApart DEF MatmulInv
      <3>2. x \notin DOMAIN current(h).sums
        BY <2>3, <3>1 DEF Apart, Disjoint
      <3>3. C'[x] = C[x]
        BY <1>4, <3>2
      <3> QED
        BY <2>1, <3>3 DEF Result, Sum, Wrong
    <2> QED
      BY <2>1, <2>2, <2>3
  <1> QED
    BY <1>1, <1>5, <1>6, <1>7 DEF MatmulInv
(* The actions at the barrier and after it move no data.                   *)
LEMMA NothingMoved ==
  ASSUME Disciplined, MatmulInv, HartsInv', kernel' = kernel, C' = C, copied' = copied, seen' = seen,
         \A g \in Harts : Done(g)' = Done(g),
         \A g \in Harts : pc'[g] = "store" => pc[g] = "store" /\ step'[g] = step[g]
  PROVE  MatmulInv'
  <1>1. CellsInv' /\ CopiesInv'
    BY NothingStored DEF MatmulInv
  <1>2. SeenInv'
    <2> SUFFICES ASSUME NEW g \in Harts, pc'[g] = "store"
                 PROVE  seen'[g] = [x \in DOMAIN current(g)'.sums \intersect Cells |-> Result(g, x)']
      BY DEF SeenInv
    <2>1. pc[g] = "store" /\ current(g)' = current(g) /\ prog(g)' = prog(g)
      BY KernelStays DEF current
    <2>2. \A x : Result(g, x)' = Result(g, x)
      BY <2>1 DEF Result, Sum, Wrong
    <2> QED
      BY <2>1, <2>2 DEF MatmulInv, SeenInv
  <1> QED
    BY <1>1, <1>2 DEF MatmulInv

LEMMA WaitSound ==
  ASSUME Disciplined, BarrierInv, MatmulInv, NEW h \in Harts, Wait(h)
  PROVE  MatmulInv'
  <1>1. /\ kernel' = kernel /\ C' = C /\ copied' = copied /\ seen' = seen /\ step' = step /\ left' = left
        /\ pc[h] = "barrier" /\ pc' = [pc EXCEPT ![h] = "inside"]
        /\ \A g \in Harts : g # h => phase'[g] = phase[g]
        /\ phase'[h] # "out"
    BY DEF Wait, Arrive, BarrierInv, BarrierTypeOK
  <1>2. \A g \in Harts : pc'[g] = IF g = h THEN "inside" ELSE pc[g]
    BY <1>1 DEF MatmulInv, HartsInv
  <1>3. HartsInv'
    <2>1. ASSUME NEW g \in Harts, g # h PROVE HartInv(g)'
      BY <2>1, <1>1, <1>2, OtherHart DEF MatmulInv
    <2>2. HartInv(h)'
      BY <1>1, <1>2, KernelStays DEF MatmulInv, HartsInv, HartInv
    <2>3. pc' = [g \in Harts |-> pc'[g]]
      BY <1>1 DEF MatmulInv, HartsInv
    <2> QED
      BY <2>1, <2>2, <2>3, <1>1 DEF HartsInv, MatmulInv
  <1>4. \A g \in Harts : Done(g)' = Done(g)
    BY <1>1, <1>2, DoneMoves DEF MatmulInv
  <1> QED
    BY <1>1, <1>2, <1>3, <1>4, NothingMoved

LEMMA InBarrierSound ==
  ASSUME Disciplined, BarrierInv, MatmulInv, NEW h \in Harts, InBarrier(h)
  PROVE  MatmulInv'
  <1>1. /\ kernel' = kernel /\ C' = C /\ copied' = copied /\ seen' = seen /\ step' = step /\ left' = left
        /\ pc' = pc /\ \A g \in Harts : phase'[g] = "out" <=> phase[g] = "out"
    BY DEF InBarrier, ClearCount, BarrierInv, BarrierTypeOK, matmulVars
  <1>2. HartsInv'
    BY <1>1, KernelStays DEF MatmulInv, HartsInv, HartInv
  <1>3. \A g \in Harts : Done(g)' = Done(g)
    BY <1>1, KernelStays DEF Done
  <1> QED
    BY <1>1, <1>2, <1>3, NothingMoved

LEMMA ProceedSound ==
  ASSUME Disciplined, BarrierInv, MatmulInv, NEW h \in Harts, Proceed(h)
  PROVE  MatmulInv'
  <1>1. /\ kernel' = kernel /\ C' = C /\ copied' = copied /\ seen' = seen
        /\ \/ /\ step[h] = Len(prog(h).steps)
              /\ pc' = [pc EXCEPT ![h] = "verify"] /\ step' = step
           \/ /\ step[h] # Len(prog(h).steps)
              /\ pc' = [pc EXCEPT ![h] = "load"] /\ step' = [step EXCEPT ![h] = @ + 1]
    BY DEF Proceed
  <1>2. /\ phase[h] # "out" /\ phase'[h] = "out" /\ left'[h] = left[h] + 1
        /\ \A g \in Harts : g # h => phase'[g] = phase[g] /\ left'[g] = left[g]
    BY DEF Proceed, Return, Release, SpinEnds, BarrierInv, BarrierTypeOK
  <1>3. /\ HartInv(h) /\ pc[h] = "inside" /\ step[h] \in Work(h) /\ step[h] \in prog(h).sync
        /\ left[h] = Epoch(h, step[h])
    BY <1>2 DEF MatmulInv, HartsInv, HartInv
  <1>4. /\ \A g \in Harts : g # h => step'[g] = step[g] /\ pc'[g] = pc[g]
        /\ \/ step[h] = Len(prog(h).steps) /\ pc'[h] = "verify" /\ step'[h] = step[h]
           \/ step[h] # Len(prog(h).steps) /\ pc'[h] = "load" /\ step'[h] = step[h] + 1
        /\ step' = [g \in Harts |-> step'[g]] /\ pc' = [g \in Harts |-> pc'[g]]
    BY <1>1 DEF MatmulInv, HartsInv
  <1>5. HartInv(h)'
    <2>1. prog(h)' = prog(h) /\ Work(h)' = Work(h)
      BY <1>1, KernelStays
    <2>2. CASE step[h] = Len(prog(h).steps)
      <3>1. left'[h] = Cardinality(prog(h).sync)
        BY <1>2, <1>3, <2>2, LastEpoch DEF Disciplined
      <3> QED
        BY <1>2, <1>3, <1>4, <2>1, <2>2, <3>1 DEF HartInv
    <2>3. CASE step[h] # Len(prog(h).steps)
      <3>1. pc'[h] = "load" /\ step'[h] = step[h] + 1 /\ step[h] + 1 \in Work(h)
        BY <1>3, <1>4, <2>3, SyncFinite DEF Disciplined
      <3>2. Epoch(h, step[h] + 1) = Epoch(h, step[h]) + 1
        BY <1>3, EpochNext DEF Disciplined
      <3>3. Epoch(h, step[h])' = Epoch(h, step[h] + 1)
        BY <1>1, <3>1 DEF Epoch, prog
      <3> QED
        BY <1>2, <1>3, <2>1, <3>1, <3>2, <3>3 DEF HartInv
    <2> QED
      BY <2>2, <2>3
  <1>6. HartsInv'
    <2>1. ASSUME NEW g \in Harts, g # h PROVE HartInv(g)'
      BY <2>1, <1>1, <1>2, <1>4, OtherHart DEF MatmulInv
    <2> QED
      BY <2>1, <1>1, <1>4, <1>5 DEF HartsInv, MatmulInv
  <1>7. \A g \in Harts : Done(g)' = Done(g)
    <2>1. HartsInv /\ \A g \in Harts : g # h => step'[g] = step[g] /\ pc'[g] = pc[g]
      BY <1>4 DEF MatmulInv
    <2>2. \A g \in Harts : g # h => Done(g)' = Done(g)
      BY <1>1, <2>1, DoneMoves
    <2>3. CASE step'[h] = step[h] /\ pc'[h] = "verify"
      <3>1. pc'[h] \in {"load", "store"} <=> pc[h] \in {"load", "store"}
        BY <1>3, <2>3
      <3>2. Done(h)' = Done(h)
        BY <1>1, <2>1, <2>3, <3>1, DoneMoves
      <3> QED
        BY <2>2, <3>2
    <2>4. CASE step'[h] = step[h] + 1 /\ pc'[h] = "load"
      <3>1. pc[h] \notin {"load", "store"}
        BY <1>3
      <3>2. Done(h)' = Done(h)
        BY <1>1, <2>1, <2>4, <3>1, DoneMoves
      <3> QED
        BY <2>2, <3>2
    <2> QED
      BY <1>4, <2>3, <2>4
  <1>8. \A g \in Harts : pc'[g] = "store" => pc[g] = "store" /\ step'[g] = step[g]
    BY <1>4
  <1> QED
    BY <1>1, <1>6, <1>7, <1>8, NothingMoved

LEMMA VerifySound ==
  ASSUME Disciplined, BarrierInv, MatmulInv, NEW h \in Harts, Verify(h)
  PROVE  MatmulInv'
  <1>1. /\ kernel' = kernel /\ C' = C /\ copied' = copied /\ seen' = seen /\ step' = step
        /\ left' = left /\ phase' = phase
        /\ pc[h] = "verify" /\ pc' = [pc EXCEPT ![h] = "done"]
    BY DEF Verify, barrierVars
  <1>2. \A g \in Harts : pc'[g] = IF g = h THEN "done" ELSE pc[g]
    BY <1>1 DEF MatmulInv, HartsInv
  <1>3. HartsInv'
    <2>1. ASSUME NEW g \in Harts, g # h PROVE HartInv(g)'
      BY <2>1, <1>1, <1>2, OtherHart DEF MatmulInv
    <2>2. HartInv(h)'
      BY <1>1, <1>2, KernelStays DEF MatmulInv, HartsInv, HartInv
    <2>3. pc' = [g \in Harts |-> pc'[g]]
      BY <1>1 DEF MatmulInv, HartsInv
    <2> QED
      BY <2>1, <2>2, <2>3, <1>1 DEF HartsInv, MatmulInv
  <1>4. \A g \in Harts : Done(g)' = Done(g)
    BY <1>1, <1>2, DoneMoves DEF MatmulInv
  <1> QED
    BY <1>1, <1>2, <1>3, <1>4, NothingMoved

LEMMA IdleSound ==
  ASSUME Disciplined, MatmulInv, UNCHANGED vars
  PROVE  MatmulInv'
  <1>1. /\ kernel' = kernel /\ C' = C /\ copied' = copied /\ seen' = seen /\ step' = step
        /\ left' = left /\ phase' = phase /\ pc' = pc
    BY DEF vars, barrierVars, matmulVars
  <1>2. HartsInv'
    BY <1>1, KernelStays DEF MatmulInv, HartsInv, HartInv
  <1>3. \A g \in Harts : Done(g)' = Done(g)
    BY <1>1, KernelStays DEF Done
  <1> QED
    BY <1>1, <1>2, <1>3, NothingMoved

-----------------------------------------------------------------------------
(* The harts meet at the barrier of util.h, whatever else they do.         *)
LEMMA MatmulMeets == Spec => BarrierSpec
  <1>1. Init => BarrierInit
    BY DEF Init
  <1>2. ASSUME [Next]_vars PROVE [BarrierNext]_barrierVars
    <2>1. CASE UNCHANGED vars
      BY <2>1 DEF vars
    <2>2. ASSUME NEW h \in Harts, HartNext(h) PROVE [BarrierNext]_barrierVars
      BY <2>2 DEF HartNext, Load, Store, Wait, InBarrier, Proceed, Verify, BarrierNext
    <2> QED
      BY <1>2, <2>1, <2>2 DEF Next
  <1> QED
    BY <1>1, <1>2, PTL DEF Spec, BarrierSpec

LEMMA StepSound ==
  ASSUME Disciplined, BarrierInv, MatmulInv, [Next]_vars
  PROVE  Disciplined' /\ MatmulInv'
  <1>1. Disciplined'
    <2>1. kernel' = kernel
      BY DEF Next, HartNext, Load, Store, Wait, InBarrier, Proceed, Verify, vars, matmulVars
    <2> QED
      BY <2>1, KernelStays
  <1>2. ASSUME UNCHANGED vars PROVE MatmulInv'
    BY <1>2, IdleSound
  <1>3. ASSUME NEW h \in Harts, HartNext(h) PROVE MatmulInv'
    BY <1>3, LoadSound, StoreSound, WaitSound, InBarrierSound, ProceedSound, VerifySound DEF HartNext
  <1>4. UNCHANGED vars \/ \E h \in Harts : HartNext(h)
    BY DEF Next
  <1>5. MatmulInv'
    BY <1>2, <1>3, <1>4
  <1> QED
    BY <1>1, <1>5

(* A kernel that is disciplined stays so, and every hart's steps leave in  *)
(* the matrix and the copies what the steps it has done add up to.         *)
THEOREM MatmulSound == Spec /\ Disciplined => [](Disciplined /\ BarrierInv /\ MatmulInv)
  <1>1. Spec => []BarrierInv
    BY MatmulMeets, BarrierSound, PTL
  <1>2. Init /\ Disciplined => MatmulInv
    BY InitSoundMatmul
  <1>3. Disciplined /\ BarrierInv /\ MatmulInv /\ [Next]_vars => Disciplined' /\ MatmulInv'
    BY StepSound
  <1> QED
    BY <1>1, <1>2, <1>3, PTL DEF Spec

(* A hart that verifies has seen every hart into the last barrier, and so  *)
(* with all its steps done.                                                *)
LEMMA VerifiedExact ==
  ASSUME Disciplined, BarrierInv, MatmulInv
  PROVE  ProductExact
  <1> SUFFICES ASSUME NEW h \in Harts, pc[h] = "verify"
               PROVE  C = Product
    BY DEF ProductExact
  <1>1. C = [x \in Cells |-> Held(x)]
    BY DEF MatmulInv, CellsInv
  <1>2. Product = [x \in Cells |-> Product[x]]
    BY DEF Product
  <1>3. left[h] = rounds /\ rounds \in Nat /\ left[h] = Cardinality(prog(h).sync)
        /\ \A g \in Harts : entered[g] \in Nat /\ entered[g] >= rounds
    <2>1. left[h] = rounds /\ rounds \in Nat /\ \A g \in Harts : entered[g] \in Nat /\ entered[g] >= rounds
      BY OutsideInRound DEF MatmulInv
    <2> QED
      BY <2>1 DEF MatmulInv, HartsInv, HartInv
  <1>4. ASSUME NEW g \in Harts, NEW j \in Work(g) PROVE j \in Done(g)
    <2> DEFINE m == Len(prog(g).steps)
    <2>1. m \in Int /\ j \in Int /\ j <= m
      BY <1>4, SyncFinite DEF Disciplined
    <2>2. Epoch(g, j) \in Nat /\ Epoch(g, m) \in Nat
      BY <2>1, EpochType DEF Disciplined
    <2>3. Epoch(g, j) <= Epoch(g, m)
      BY <2>1, EpochGrows DEF Disciplined
    <2>4. Epoch(g, m) + 1 = Cardinality(prog(g).sync)
      BY LastEpoch DEF Disciplined
    <2>5. Cardinality(prog(g).sync) = Cardinality(prog(h).sync)
      BY DEF Disciplined, BarriersAgree
    <2>6. entered[g] > Epoch(g, j)
      BY <1>3, <2>2, <2>3, <2>4, <2>5
    <2> QED
      BY <2>6, EpochDone DEF MatmulInv, Disciplined
  <1>5. ASSUME NEW x \in Cells, NEW k PROVE k \in Held(x) <=> k \in Product[x]
    <2>1. k \in Held(x) <=>
            \E g \in Harts : \E j \in Done(g) : Adds(g, j, x) /\ k \in prog(g).steps[j].sums[x]
      BY HeldIs
    <2>2. k \in Product[x] <=>
            \E g \in Harts : \E j \in Work(g) : Adds(g, j, x) /\ k \in prog(g).steps[j].sums[x]
      BY AllAdders DEF Disciplined
    <2>3. \A g \in Harts : Done(g) = Work(g)
      BY <1>4 DEF Done
    <2> QED
      BY <2>1, <2>2, <2>3
  <1>6. \A x \in Cells : Held(x) = Product[x]
    BY <1>5
  <1> QED
    BY <1>1, <1>2, <1>6

(* Whatever the number of harts and however their loads and stores are     *)
(* interleaved, a kernel whose work is shared out in a disciplined way     *)
(* leaves the exact product for every hart that verifies it.               *)
THEOREM ProductIsExact == Spec /\ Disciplined => []ProductExact
  BY MatmulSound, VerifiedExact, PTL

(* Its harts never have conflicting accesses under way: the barrier of     *)
(* util.h holds apart what the kernel puts in different epochs.            *)
THEOREM KernelsAreRaceFree == Spec /\ Disciplined => []RaceFree
  <1>1. Disciplined /\ BarrierInv /\ MatmulInv => RaceFree
    BY StoresApart DEF RaceFree, MatmulInv
  <1> QED
    BY <1>1, MatmulSound, PTL

(* The harts of a kernel meet at every barrier it calls, disciplined or    *)
(* not: nobody returns from its n-th call before all have made theirs.     *)
THEOREM MatmulHartsMeet == Spec => HartsMeet
  BY MatmulMeets, BarrierIsRendezvous, PTL
=============================================================================
