----------------------------- MODULE TestVmProofs -----------------------------
(***************************************************************************)
(* Proofs about TestVm for every setting whose LFSR has a full period and  *)
(* every behaviour of the test and of the hart's translations.             *)
(***************************************************************************)
EXTENDS TestVm, FiniteSetTheorems, TLAPS

-----------------------------------------------------------------------------
(* The inductive invariant; "n" stands for MAX_TEST_PAGES. *)
TestPages(n) == 1 .. n - 1
Frames(n) == n + 1 .. 2 * n
Nodes(n) == {Boot(i) : i \in 0 .. n - 1} \cup {User(p) : p \in TestPages(n)}
Ptes(n) == [V : BOOLEAN, ppn : 0 .. 2 * n, A : BOOLEAN, D : BOOLEAN]
VmTypes(n) ==
    /\ setting \in Settings /\ n = MAX_TEST_PAGES
    /\ user_llpt \in [0 .. n -> Ptes(n)]
    /\ DOMAIN tlb \subseteq 0 .. n
    /\ node \in [Nodes(n) -> [addr : 0 .. 2 * n, next : Nodes(n) \cup {NULL}]]
    /\ freelist_tail \in Nodes(n) \cup {NULL}
    /\ mem = [f \in 0 .. 2 * n |-> mem[f]]
    /\ seen = [p \in TestPages(n) |-> seen[p]]
    /\ inst.at \in 0 .. n /\ inst.page \in 0 .. n
    /\ evicting \in 0 .. n

(* The hart keeps what the table says, and the table says nothing of pages *)
(* that are not mapped.  Each mapped page has a frame of its own.          *)
Mapped(n) == {p \in TestPages(n) : user_llpt[p].V}
TableIsSound(n) ==
    /\ \A p \in DOMAIN tlb : tlb[p] = user_llpt[p]
    /\ \A p \in 0 .. n : user_llpt[p].V => p \in TestPages(n) /\ user_llpt[p].ppn \in Frames(n)
    /\ \A p \in 0 .. n : ~user_llpt[p].V => user_llpt[p] = NoPte
    /\ \A p, q \in Mapped(n) : user_llpt[p].ppn = user_llpt[q].ppn => p = q

(* Only the pages of the instruction that is tried lack their accessed     *)
(* bit, and none of the call that ends the test.                           *)
BitsAreSet(n) ==
    /\ \A p \in Mapped(n) : ~user_llpt[p].A =>
          evicting = 0 /\ inst # None /\ p \in {inst.at, inst.page}
    /\ inst.op = "ecall" => inst.page = inst.at
    /\ evicting # 0 => inst.op = "ecall" /\ inst.at \in Mapped(n)

(* A page is where it was linked until it is touched, then in its frame,   *)
(* and the two are the same until it is dirty.                             *)
PagesAreKept(n) ==
    /\ evicting = 0 => \A p \in TestPages(n) :
          mem[IF user_llpt[p].V THEN user_llpt[p].ppn ELSE p] = seen[p]
    /\ \A p \in Mapped(n) : ~user_llpt[p].D => mem[user_llpt[p].ppn] = mem[p]
    /\ \A p \in TestPages(n) :
          \/ node[User(p)].addr = user_llpt[p].ppn
          \/ evicting # 0 /\ node[User(p)].addr = 0

(* The first nodes of the array have given their frames to the pages that  *)
(* are mapped, as many as there are.                                       *)
Addr(i) == node[Boot(i)].addr
ListFrom(n, first) ==
    /\ freelist_head = Boot(first) /\ first = Cardinality(Mapped(n))
    /\ \A i \in first .. n - 1 : node[Boot(i)].next = IF i = n - 1 THEN NULL ELSE Boot(i + 1)
    /\ freelist_tail = IF first = n - 1 THEN NULL ELSE Boot(n - 1)
    /\ \A i, j \in 0 .. n - 1 : Addr(i) = Addr(j) => i = j
    /\ {Addr(i) : i \in 0 .. n - 1} = Frames(n)
    /\ {user_llpt[p].ppn : p \in Mapped(n)} = {Addr(i) : i \in 0 .. first - 1}
ListIsSound(n) == evicting = 0 => \E first \in 0 .. n - 1 : ListFrom(n, first)

VmInv(n) ==
    /\ VmTypes(n) /\ TableIsSound(n) /\ BitsAreSet(n) /\ PagesAreKept(n) /\ ListIsSound(n)
    /\ AssertionsHold

LEMMA Names ==
    /\ \A i, j : (Boot(i) = Boot(j) => i = j) /\ (User(i) = User(j) => i = j)
    /\ \A i, j : Boot(i) # User(j)
    /\ \A i : Boot(i) # NULL /\ User(i) # NULL
  BY DEF Boot, User, NULL

LEMMA Sizes ==
    ASSUME NEW n, VmTypes(n)
    PROVE  /\ n \in Nat /\ n >= 2 /\ setting.touched \subseteq 0 .. n /\ setting.hardware \in BOOLEAN
           /\ MAX_TEST_PAGES = n /\ Pages = TestPages(n) /\ TestPages(n) \subseteq 0 .. n
<1>1. setting \in Settings /\ n = MAX_TEST_PAGES
  BY DEF VmTypes
<1>2. n = Period(setting.bits)
  BY <1>1 DEF MAX_TEST_PAGES
<1>3. n \in Nat /\ n >= 2 /\ setting.touched \subseteq 0 .. n /\ setting.hardware \in BOOLEAN
  BY <1>1, <1>2, VmAssumption
<1> QED  BY <1>1, <1>3 DEF Pages, TestPages

LEMMA PteFields ==
    ASSUME NEW n, VmTypes(n), NEW p \in 0 .. n
    PROVE  /\ user_llpt[p].V \in BOOLEAN /\ user_llpt[p].A \in BOOLEAN /\ user_llpt[p].D \in BOOLEAN
           /\ user_llpt[p].ppn \in 0 .. 2 * n
           /\ user_llpt[p] = [V |-> user_llpt[p].V, ppn |-> user_llpt[p].ppn,
                              A |-> user_llpt[p].A, D |-> user_llpt[p].D]
<1>1. user_llpt[p] \in Ptes(n)
  BY DEF VmTypes
<1> QED  BY <1>1 DEF Ptes

(* The hart goes by the table, also where it keeps translations. *)
LEMMA TranslationIsCurrent ==
    ASSUME NEW n, VmTypes(n), TableIsSound(n), NEW p
    PROVE  Translation(p) = user_llpt[p]
  BY DEF TableIsSound, Translation

-----------------------------------------------------------------------------
(* What most actions leave alone. *)
LEMMA UntouchedList ==
    ASSUME NEW n, NEW first, ListFrom(n, first), UNCHANGED lists,
           Mapped(n)' = Mapped(n), \A p \in Mapped(n) : user_llpt'[p].ppn = user_llpt[p].ppn
    PROVE  ListFrom(n, first)'
<1>1. \A i : Addr(i)' = Addr(i) /\ node' = node
  BY DEF Addr, lists
<1>2. {user_llpt'[p].ppn : p \in Mapped(n)'} = {user_llpt[p].ppn : p \in Mapped(n)}
  OBVIOUS
<1> QED  BY <1>1, <1>2 DEF ListFrom, lists

LEMMA ListStays ==
    ASSUME NEW n, ListIsSound(n), UNCHANGED lists, evicting' = 0 => evicting = 0,
           Mapped(n)' = Mapped(n), \A p \in Mapped(n) : user_llpt'[p].ppn = user_llpt[p].ppn
    PROVE  ListIsSound(n)'
<1>1. ASSUME evicting = 0 PROVE \E first \in 0 .. n - 1 : ListFrom(n, first)'
  <2>1. PICK first \in 0 .. n - 1 : ListFrom(n, first)
    BY <1>1 DEF ListIsSound
  <2>2. ListFrom(n, first)'
    BY <2>1, UntouchedList
  <2> QED  BY <2>2
<1> QED  BY <1>1 DEF ListIsSound

LEMMA TranslationsStep ==
    ASSUME NEW n, VmInv(n), verdict = 0,
           UNCHANGED <<setting, user_llpt, lists, mem, seen, inst, evicting, verdict>>,
           \E p \in setting.touched :
              \/ tlb' = keep_page(tlb, p, user_llpt[p])
              \/ tlb' = [q \in DOMAIN tlb \ {p} |-> tlb[q]]
    PROVE  VmInv(n)'
<1>1. setting' = setting /\ user_llpt' = user_llpt /\ node' = node /\ mem' = mem /\ seen' = seen
      /\ freelist_head' = freelist_head /\ freelist_tail' = freelist_tail
      /\ inst' = inst /\ evicting' = evicting /\ verdict' = verdict
  BY DEF lists
<1>2. DOMAIN tlb' \subseteq 0 .. n /\ \A q \in DOMAIN tlb' : tlb'[q] = user_llpt[q]
  <2>1. PICK p \in setting.touched :
              \/ tlb' = keep_page(tlb, p, user_llpt[p])
              \/ tlb' = [q \in DOMAIN tlb \ {p} |-> tlb[q]]
    OBVIOUS
  <2>2. p \in 0 .. n /\ DOMAIN tlb \subseteq 0 .. n
    BY Sizes DEF VmInv, VmTypes
  <2> QED  BY <2>1, <2>2 DEF VmInv, TableIsSound, keep_page
<1>3. VmTypes(n)'
  BY <1>1, <1>2 DEF VmInv, VmTypes, MAX_TEST_PAGES
<1>4. TableIsSound(n)' /\ BitsAreSet(n)'
  BY <1>1, <1>2 DEF VmInv, TableIsSound, BitsAreSet, Mapped
<1>5. PagesAreKept(n)'
  BY <1>1 DEF VmInv, PagesAreKept, Mapped
<1>6. ListIsSound(n)'
  BY <1>1, ListStays DEF VmInv, Mapped, lists
<1>7. AssertionsHold'
  BY <1>1 DEF AssertionsHold
<1> QED  BY <1>3, <1>4, <1>5, <1>6, <1>7 DEF VmInv

LEMMA IssueStep ==
    ASSUME NEW n, VmInv(n), verdict = 0, NEW at \in setting.touched, NEW page \in setting.touched,
           NEW op \in {"load", "store", "ecall", "illegal"}, Issue(op, at, page)
    PROVE  VmInv(n)'
<1>1. setting' = setting /\ user_llpt' = user_llpt /\ tlb' = tlb /\ node' = node /\ mem' = mem
      /\ seen' = seen /\ freelist_head' = freelist_head /\ freelist_tail' = freelist_tail
      /\ evicting' = evicting /\ verdict' = verdict
  BY DEF Issue, lists, table
<1>2. inst = None
      /\ inst' = [op |-> op, at |-> at, page |-> IF op \in {"load", "store"} THEN page ELSE at]
  BY DEF Issue
<1>3. at \in 0 .. n /\ page \in 0 .. n
  BY Sizes DEF VmInv
<1>4. VmTypes(n)'
  BY <1>1, <1>2, <1>3 DEF VmInv, VmTypes, MAX_TEST_PAGES
<1>5. TableIsSound(n)'
  BY <1>1 DEF VmInv, TableIsSound, Mapped
<1>6. BitsAreSet(n)'
  <2>1. evicting = 0 /\ \A p \in Mapped(n) : user_llpt[p].A
    BY <1>2 DEF VmInv, BitsAreSet, None
  <2> QED  BY <1>1, <1>2, <2>1 DEF BitsAreSet, Mapped
<1>7. PagesAreKept(n)'
  BY <1>1 DEF VmInv, PagesAreKept, Mapped
<1>8. ListIsSound(n)'
  BY <1>1, ListStays DEF VmInv, Mapped, lists
<1>9. AssertionsHold'
  BY <1>1 DEF AssertionsHold
<1> QED  BY <1>4, <1>5, <1>6, <1>7, <1>8, <1>9 DEF VmInv

(* A test that ends, for whatever reason, changes only the verdict. *)
LEMMA TerminateStep ==
    ASSUME NEW n, VmInv(n), NEW code, Terminate(code),
           code = 3 => {inst.at, inst.page} \ Pages # {}
    PROVE  VmInv(n)'
<1>1. setting' = setting /\ user_llpt' = user_llpt /\ tlb' = tlb /\ node' = node /\ mem' = mem
      /\ seen' = seen /\ freelist_head' = freelist_head /\ freelist_tail' = freelist_tail
      /\ inst' = inst /\ evicting' = evicting /\ verdict' = code
  BY DEF Terminate, lists, table
<1>2. VmTypes(n)'
  BY <1>1 DEF VmInv, VmTypes, MAX_TEST_PAGES
<1>3. TableIsSound(n)' /\ BitsAreSet(n)'
  BY <1>1 DEF VmInv, TableIsSound, BitsAreSet, Mapped
<1>4. PagesAreKept(n)'
  BY <1>1 DEF VmInv, PagesAreKept, Mapped
<1>5. ListIsSound(n)'
  BY <1>1, ListStays DEF VmInv, Mapped, lists
<1>6. AssertionsHold'
  BY <1>1 DEF AssertionsHold, Pages, MAX_TEST_PAGES
<1> QED  BY <1>2, <1>3, <1>4, <1>5, <1>6 DEF VmInv
-----------------------------------------------------------------------------
(* An instruction that runs has its pages mapped, and leaves their bits    *)
(* set.                                                                    *)
LEMMA RunsOnMapped ==
    ASSUME NEW n, VmInv(n), Runs
    PROVE  /\ inst.at \in Mapped(n) /\ inst.page \in Mapped(n)
           /\ inst # None
<1>1. /\ inst # None /\ Succeeds(inst.at, FALSE) /\ Succeeds(inst.page, inst.op = "store")
  BY DEF Runs, FetchFails, DataFails
<1>2. Translation(inst.at) = user_llpt[inst.at] /\ Translation(inst.page) = user_llpt[inst.page]
  BY TranslationIsCurrent DEF VmInv
<1>3. user_llpt[inst.at].V /\ user_llpt[inst.page].V
  BY <1>1, <1>2 DEF Succeeds, Permits
<1> QED  BY <1>1, <1>3 DEF VmInv, VmTypes, TableIsSound, Mapped

LEMMA MarksStep ==
    ASSUME NEW n, VmInv(n), Runs, Marks
    PROVE  /\ user_llpt' \in [0 .. n -> Ptes(n)]
           /\ DOMAIN tlb' \subseteq 0 .. n
           /\ \A p \in DOMAIN tlb' : tlb'[p] = user_llpt'[p]
           /\ \A p \in 0 .. n : /\ user_llpt'[p].V = user_llpt[p].V
                                /\ user_llpt'[p].ppn = user_llpt[p].ppn
                                /\ user_llpt[p].A => user_llpt'[p].A
                                /\ user_llpt[p].D => user_llpt'[p].D
                                /\ ~user_llpt[p].V => user_llpt'[p] = user_llpt[p]
           /\ \A p \in {inst.at, inst.page} :
                 user_llpt'[p].A /\ (Stores(p) => user_llpt'[p].D)
<1> DEFINE marked == {p \in {inst.at, inst.page} : ~Permits(Translation(p), Stores(p))}
           Marked(p) == [user_llpt[p] EXCEPT !.A = TRUE, !.D = @ \/ Stores(p)]
<1>1. /\ user_llpt' = [p \in DOMAIN user_llpt |-> IF p \in marked THEN Marked(p) ELSE user_llpt[p]]
      /\ tlb' = [p \in DOMAIN tlb \ marked |-> tlb[p]]
  BY DEF Marks
<1>2. inst.at \in Mapped(n) /\ inst.page \in Mapped(n) /\ VmTypes(n) /\ TableIsSound(n)
  BY RunsOnMapped DEF VmInv
<1>3. inst.at \in 0 .. n /\ inst.page \in 0 .. n /\ user_llpt \in [0 .. n -> Ptes(n)]
  BY <1>2 DEF VmTypes
<1>4. ASSUME NEW p \in {inst.at, inst.page}
      PROVE  /\ Marked(p) \in Ptes(n)
             /\ Marked(p).V = user_llpt[p].V /\ Marked(p).ppn = user_llpt[p].ppn
             /\ Marked(p).A /\ (user_llpt[p].D => Marked(p).D) /\ (Stores(p) => Marked(p).D)
  <2> DEFINE dirty == user_llpt[p].D \/ Stores(p)
  <2>1. user_llpt[p] \in Ptes(n) /\ dirty \in BOOLEAN
    BY <1>3
  <2>2. Marked(p) = [user_llpt[p] EXCEPT !.A = TRUE, !.D = dirty]
    BY <2>1 DEF Ptes
  <2>3. dirty <=> user_llpt[p].D \/ Stores(p)
    OBVIOUS
  <2> HIDE DEF dirty, Marked
  <2>4. /\ Marked(p) \in Ptes(n) /\ Marked(p).V = user_llpt[p].V
        /\ Marked(p).ppn = user_llpt[p].ppn /\ Marked(p).A = TRUE /\ Marked(p).D = dirty
    BY <2>1, <2>2 DEF Ptes
  <2> QED  BY <2>3, <2>4
<1>5. \A p \in {inst.at, inst.page} : p \notin marked =>
         user_llpt[p].A /\ (Stores(p) => user_llpt[p].D)
  BY <1>2, TranslationIsCurrent DEF Permits
<1>6. marked \subseteq {inst.at, inst.page} /\ marked \subseteq Mapped(n)
  BY <1>2
<1> HIDE DEF marked, Marked
<1>7. \A p \in 0 .. n : user_llpt'[p] = IF p \in marked THEN Marked(p) ELSE user_llpt[p]
  BY <1>1, <1>3
<1>8. user_llpt' \in [0 .. n -> Ptes(n)]
  BY <1>1, <1>3, <1>4, <1>6
<1>9. \A p \in DOMAIN tlb' : p \in DOMAIN tlb /\ p \notin marked /\ tlb'[p] = tlb[p]
  BY <1>1
<1>10. DOMAIN tlb' \subseteq 0 .. n /\ \A p \in DOMAIN tlb' : tlb'[p] = user_llpt'[p]
  BY <1>2, <1>7, <1>9 DEF VmTypes, TableIsSound
<1>11. \A p \in {inst.at, inst.page} : user_llpt'[p].A /\ (Stores(p) => user_llpt'[p].D)
  BY <1>3, <1>4, <1>5, <1>7
<1>12. ASSUME NEW p \in 0 .. n
       PROVE  /\ user_llpt'[p].V = user_llpt[p].V
              /\ user_llpt'[p].ppn = user_llpt[p].ppn
              /\ user_llpt[p].A => user_llpt'[p].A
              /\ user_llpt[p].D => user_llpt'[p].D
              /\ ~user_llpt[p].V => user_llpt'[p] = user_llpt[p]
  <2>1. CASE p \in marked
    BY <1>4, <1>6, <1>7, <2>1 DEF Mapped
  <2>2. CASE p \notin marked
    BY <1>7, <2>2
  <2> QED  BY <2>1, <2>2
<1> QED  BY <1>8, <1>10, <1>11, <1>12

(* Load, store and call, the instructions that end by setting the bits. *)
LEMMA MarkingStep ==
    ASSUME NEW n, VmInv(n), verdict = 0, Runs, Marks,
           UNCHANGED <<setting, lists, verdict>>,
           \/ inst' = None /\ inst.op \in {"load", "store"} /\ evicting' = evicting
           \/ inst' = inst /\ inst.op = "ecall" /\ evicting' = 1,
           \/ mem' = mem /\ seen' = seen
           \/ \E version : LET written == [of |-> inst.page, version |-> version]
                           IN  /\ inst.op = "store" /\ evicting = 0
                               /\ mem' = [mem EXCEPT ![Translation(inst.page).ppn] = written]
                               /\ seen' = [seen EXCEPT ![inst.page] = written]
    PROVE  VmInv(n)'
<1>1. setting' = setting /\ node' = node /\ freelist_head' = freelist_head
      /\ freelist_tail' = freelist_tail /\ verdict' = 0
  BY DEF lists
<1>2. /\ VmTypes(n) /\ TableIsSound(n) /\ BitsAreSet(n) /\ PagesAreKept(n) /\ ListIsSound(n)
      /\ n \in Nat /\ n >= 2
  BY Sizes DEF VmInv
<1>3. inst.at \in Mapped(n) /\ inst.page \in Mapped(n) /\ inst # None
  BY RunsOnMapped
<1>4. /\ user_llpt' \in [0 .. n -> Ptes(n)]
      /\ DOMAIN tlb' \subseteq 0 .. n
      /\ \A p \in DOMAIN tlb' : tlb'[p] = user_llpt'[p]
      /\ \A p \in 0 .. n : /\ user_llpt'[p].V = user_llpt[p].V
                           /\ user_llpt'[p].ppn = user_llpt[p].ppn
                           /\ user_llpt[p].A => user_llpt'[p].A
                           /\ user_llpt[p].D => user_llpt'[p].D
                           /\ ~user_llpt[p].V => user_llpt'[p] = user_llpt[p]
      /\ \A p \in {inst.at, inst.page} :
            user_llpt'[p].A /\ (Stores(p) => user_llpt'[p].D)
  BY MarksStep
<1>5. TestPages(n) \subseteq 0 .. n /\ TestPages(n) \cap Frames(n) = {}
      /\ TestPages(n) \subseteq 0 .. 2 * n /\ Frames(n) \subseteq 0 .. 2 * n
  BY <1>2 DEF TestPages, Frames
<1>6. /\ Mapped(n)' = Mapped(n)
      /\ \A p \in TestPages(n) : user_llpt'[p].V = user_llpt[p].V /\ user_llpt'[p].ppn = user_llpt[p].ppn
  BY <1>4, <1>5 DEF Mapped
<1>7. /\ mem' = [f \in 0 .. 2 * n |-> mem'[f]] /\ seen' = [p \in TestPages(n) |-> seen'[p]]
  BY <1>2 DEF VmTypes
<1>8. VmTypes(n)'
  <2>1. (inst.at \in 0 .. n)' /\ (inst.page \in 0 .. n)' /\ (evicting \in 0 .. n)'
    BY <1>2 DEF VmTypes, None
  <2> QED  BY <1>1, <1>2, <1>4, <1>7, <2>1 DEF VmTypes, MAX_TEST_PAGES
<1>9. TableIsSound(n)'
  BY <1>2, <1>4, <1>6 DEF TableIsSound, Mapped
<1>10. \A p \in Mapped(n) : user_llpt'[p].A
  BY <1>2, <1>4, <1>5 DEF BitsAreSet, Mapped
<1>11. BitsAreSet(n)'
  <2>1. CASE inst' = None /\ inst.op \in {"load", "store"} /\ evicting' = evicting
    <3>1. evicting' = 0 /\ inst'.op = "none"
      BY <1>2, <2>1 DEF BitsAreSet, None
    <3> QED  BY <1>6, <1>10, <3>1 DEF BitsAreSet
  <2>2. CASE inst' = inst /\ inst.op = "ecall" /\ evicting' = 1
    BY <1>2, <1>3, <1>6, <1>10, <2>2 DEF BitsAreSet
  <2> QED  BY <2>1, <2>2
<1>12. PagesAreKept(n)'
  <2>1. \A p \in Mapped(n) : p \in TestPages(n) /\ user_llpt[p].V /\ user_llpt[p].ppn \in Frames(n)
    BY <1>2, <1>5 DEF TableIsSound, Mapped
  <2>2. /\ evicting' = 0 => \A p \in TestPages(n) :
              mem'[IF user_llpt[p].V THEN user_llpt[p].ppn ELSE p] = seen'[p]
        /\ \A p \in Mapped(n) : ~user_llpt'[p].D => mem'[user_llpt[p].ppn] = mem'[p]
    <3>1. CASE mem' = mem /\ seen' = seen
      <4>1. evicting' = 0 => evicting = 0
        OBVIOUS
      <4> QED  BY <1>2, <1>4, <1>5, <2>1, <3>1, <4>1 DEF PagesAreKept
    <3>2. ASSUME NEW version, inst.op = "store", evicting = 0,
                 mem' = [mem EXCEPT ![Translation(inst.page).ppn] = [of |-> inst.page, version |-> version]],
                 seen' = [seen EXCEPT ![inst.page] = [of |-> inst.page, version |-> version]]
          PROVE  /\ \A p \in TestPages(n) :
                      mem'[IF user_llpt[p].V THEN user_llpt[p].ppn ELSE p] = seen'[p]
                 /\ \A p \in Mapped(n) : ~user_llpt'[p].D => mem'[user_llpt[p].ppn] = mem'[p]
      <4> DEFINE w == [of |-> inst.page, version |-> version]
                 f == user_llpt[inst.page].ppn
      <4>1. Translation(inst.page).ppn = f /\ f \in Frames(n) /\ inst.page \in TestPages(n)
        BY <1>2, <1>3, <2>1, TranslationIsCurrent
      <4>2. /\ mem = [x \in 0 .. 2 * n |-> mem[x]] /\ seen = [p \in TestPages(n) |-> seen[p]]
        BY <1>2 DEF VmTypes
      <4>3. /\ \A x \in 0 .. 2 * n : mem'[x] = IF x = f THEN w ELSE mem[x]
            /\ \A p \in TestPages(n) : seen'[p] = IF p = inst.page THEN w ELSE seen[p]
        BY <3>2, <4>1, <4>2, <1>5
      <4>4. \A p \in Mapped(n) : user_llpt[p].ppn = f <=> p = inst.page
        BY <1>2, <1>3 DEF TableIsSound
      <4>5. user_llpt'[inst.page].D
        BY <1>4, <3>2 DEF Stores
      <4> HIDE DEF w, f
      <4>6. ASSUME NEW p \in TestPages(n)
            PROVE  mem'[IF user_llpt[p].V THEN user_llpt[p].ppn ELSE p] = seen'[p]
        <5>1. CASE user_llpt[p].V
          <6>1. p \in Mapped(n) /\ user_llpt[p].ppn \in 0 .. 2 * n
            BY <1>5, <2>1, <5>1 DEF Mapped
          <6>2. mem[user_llpt[p].ppn] = seen[p]
            BY <1>2, <3>2, <5>1 DEF PagesAreKept
          <6> QED  BY <4>3, <4>4, <5>1, <6>1, <6>2
        <5>2. CASE ~user_llpt[p].V
          <6>1. p # f /\ p # inst.page /\ p \in 0 .. 2 * n
            BY <1>3, <1>5, <4>1, <5>2 DEF Mapped
          <6>2. mem[p] = seen[p]
            BY <1>2, <3>2, <5>2 DEF PagesAreKept
          <6> QED  BY <4>3, <5>2, <6>1, <6>2
        <5> QED  BY <5>1, <5>2
      <4>7. ASSUME NEW p \in Mapped(n), ~user_llpt'[p].D
            PROVE  mem'[user_llpt[p].ppn] = mem'[p]
        <5>1. p # inst.page /\ p \in TestPages(n) /\ user_llpt[p].ppn \in Frames(n)
          BY <2>1, <4>5, <4>7
        <5>2. p # f /\ user_llpt[p].ppn # f /\ p \in 0 .. 2 * n /\ user_llpt[p].ppn \in 0 .. 2 * n
          BY <1>5, <4>1, <4>4, <5>1
        <5>3. mem[user_llpt[p].ppn] = mem[p]
          BY <1>2, <1>4, <1>5, <4>7, <5>1 DEF PagesAreKept
        <5> QED  BY <4>3, <5>2, <5>3
      <4> QED  BY <4>6, <4>7
    <3> QED  BY <3>1, <3>2
  <2>3. \A p \in TestPages(n) :
          \/ node'[User(p)].addr = user_llpt[p].ppn
          \/ evicting' # 0 /\ node'[User(p)].addr = 0
    <3>1. evicting' = 0 => evicting = 0
      OBVIOUS
    <3> QED  BY <1>1, <1>2, <3>1 DEF PagesAreKept
  <2> QED  BY <1>6, <2>1, <2>2, <2>3 DEF PagesAreKept
<1>13. ListIsSound(n)'
  <2>1. evicting' = 0 => evicting = 0
    OBVIOUS
  <2>2. \A p \in Mapped(n) : user_llpt'[p].ppn = user_llpt[p].ppn
    BY <1>6 DEF Mapped
  <2> QED  BY <1>2, <1>6, <2>1, <2>2, ListStays
<1>14. AssertionsHold'
  BY <1>1 DEF AssertionsHold
<1> QED  BY <1>8, <1>9, <1>11, <1>12, <1>13, <1>14 DEF VmInv
LEMMA LoadStep ==
    ASSUME NEW n, VmInv(n), verdict = 0, Load
    PROVE  VmInv(n)'
<1>1. /\ Runs /\ Marks /\ UNCHANGED <<setting, lists, verdict>>
      /\ inst.op = "load" /\ inst' = None /\ evicting' = evicting /\ mem' = mem /\ seen' = seen
  BY DEF Load
<1> QED  BY <1>1, MarkingStep

LEMMA StoreStep ==
    ASSUME NEW n, VmInv(n), verdict = 0, NEW version, Store(version)
    PROVE  VmInv(n)'
<1> DEFINE written == [of |-> inst.page, version |-> version]
<1>1. /\ Runs /\ Marks /\ UNCHANGED <<setting, lists, verdict>>
      /\ inst.op = "store" /\ inst' = None /\ evicting' = evicting
      /\ mem' = [mem EXCEPT ![Translation(inst.page).ppn] = written]
      /\ seen' = [seen EXCEPT ![inst.page] = written]
  BY DEF Store
<1>2. evicting = 0
  BY <1>1 DEF VmInv, BitsAreSet
<1> QED  BY <1>1, <1>2, MarkingStep

LEMMA EcallStep ==
    ASSUME NEW n, VmInv(n), verdict = 0, Ecall
    PROVE  VmInv(n)'
<1>1. /\ Runs /\ Marks /\ UNCHANGED <<setting, lists, verdict>>
      /\ inst.op = "ecall" /\ inst' = inst /\ evicting' = 1 /\ mem' = mem /\ seen' = seen
  BY DEF Ecall
<1> QED  BY <1>1, MarkingStep

-----------------------------------------------------------------------------
(* A fault is one of the test: the call that ends it has its page, with    *)
(* the bits set.                                                           *)
LEMMA FaultsAreOfTheTest ==
    ASSUME NEW n, VmInv(n), FetchFails \/ DataFails
    PROVE  evicting = 0
<1> SUFFICES ASSUME evicting # 0 PROVE FALSE
  OBVIOUS
<1>1. inst.op = "ecall" /\ inst.page = inst.at /\ inst.at \in Mapped(n) /\ user_llpt[inst.at].A
  BY DEF VmInv, BitsAreSet
<1>2. Translation(inst.at) = user_llpt[inst.at] /\ user_llpt[inst.at].V
  BY <1>1, TranslationIsCurrent DEF VmInv, Mapped
<1>3. Succeeds(inst.at, FALSE) /\ Succeeds(inst.page, inst.op = "store")
  BY <1>1, <1>2 DEF Succeeds, Permits
<1> QED  BY <1>3 DEF FetchFails, DataFails

LEMMA SetBitStep ==
    ASSUME NEW n, VmInv(n), verdict = 0, evicting = 0, inst # None,
           NEW p \in {inst.at, inst.page}, p \in Pages, NEW store, ~Succeeds(p, store),
           SetBit(p, store)
    PROVE  VmInv(n)'
<1>1. /\ VmTypes(n) /\ TableIsSound(n) /\ BitsAreSet(n) /\ PagesAreKept(n) /\ ListIsSound(n)
      /\ p \in TestPages(n) /\ p \in 0 .. n
  BY Sizes DEF VmInv
<1>2. user_llpt[p].V /\ Translation(p) = user_llpt[p]
  BY <1>1, TranslationIsCurrent DEF SetBit
<1>3. ~user_llpt[p].A \/ (~user_llpt[p].D /\ store)
  BY <1>2 DEF Succeeds, Permits
<1>4. /\ user_llpt' = [user_llpt EXCEPT ![p] = NextBit(@)]
      /\ tlb' = flush_page(tlb, p)
      /\ UNCHANGED <<setting, lists, mem, seen, inst, evicting, verdict>>
  BY <1>3 DEF SetBit
<1>5. setting' = setting /\ node' = node /\ mem' = mem /\ seen' = seen
      /\ freelist_head' = freelist_head /\ freelist_tail' = freelist_tail
      /\ inst' = inst /\ evicting' = evicting /\ verdict' = verdict
  BY <1>4 DEF lists
<1>6. user_llpt[p] \in Ptes(n) /\ user_llpt \in [0 .. n -> Ptes(n)]
  BY <1>1 DEF VmTypes
<1>7. /\ NextBit(user_llpt[p]) \in Ptes(n)
      /\ NextBit(user_llpt[p]).V = user_llpt[p].V /\ NextBit(user_llpt[p]).ppn = user_llpt[p].ppn
      /\ user_llpt[p].A => NextBit(user_llpt[p]).A
      /\ user_llpt[p].D => NextBit(user_llpt[p]).D
  BY <1>6 DEF Ptes, NextBit
<1>8. user_llpt' \in [0 .. n -> Ptes(n)]
      /\ \A q \in 0 .. n : user_llpt'[q] = IF q = p THEN NextBit(user_llpt[p]) ELSE user_llpt[q]
  BY <1>1, <1>4, <1>6, <1>7
<1>9. \A q \in DOMAIN tlb' : q # p /\ q \in DOMAIN tlb /\ tlb'[q] = tlb[q]
  BY <1>4 DEF flush_page
<1>10. TestPages(n) \subseteq 0 .. n
  BY <1>1, Sizes
<1>11. Mapped(n)' = Mapped(n) /\ \A q \in 0 .. n : user_llpt'[q].V = user_llpt[q].V
       /\ user_llpt'[q].ppn = user_llpt[q].ppn /\ (user_llpt[q].A => user_llpt'[q].A)
       /\ (user_llpt[q].D => user_llpt'[q].D)
  BY <1>7, <1>8, <1>10 DEF Mapped
<1>12. VmTypes(n)'
  BY <1>1, <1>5, <1>8, <1>9 DEF VmTypes, MAX_TEST_PAGES
<1>13. TableIsSound(n)'
  BY <1>1, <1>2, <1>8, <1>9, <1>10, <1>11 DEF TableIsSound, Mapped, VmTypes
<1>14. BitsAreSet(n)'
  BY <1>1, <1>5, <1>10, <1>11 DEF BitsAreSet, Mapped
<1>15. PagesAreKept(n)'
  BY <1>1, <1>5, <1>10, <1>11 DEF PagesAreKept, Mapped
<1>16. ListIsSound(n)'
  BY <1>1, <1>5, <1>10, <1>11, ListStays DEF Mapped, lists
<1>17. AssertionsHold'
  BY <1>5 DEF AssertionsHold
<1> QED  BY <1>12, <1>13, <1>14, <1>15, <1>16, <1>17 DEF VmInv

(* A page that is not mapped finds a free frame. *)
LEMMA AFrameIsFree ==
    ASSUME NEW n, VmInv(n), evicting = 0, NEW p \in TestPages(n), ~user_llpt[p].V
    PROVE  /\ node[User(p)].addr = 0
           /\ \E first \in 0 .. n - 2 :
                 /\ ListFrom(n, first)
                 /\ Cardinality(Mapped(n) \cup {p}) = first + 1
<1>1. n \in Nat /\ n >= 2 /\ TestPages(n) \subseteq 0 .. n /\ PagesAreKept(n)
  BY Sizes DEF VmInv
<1>2. user_llpt[p] = NoPte
  BY <1>1 DEF VmInv, TableIsSound
<1>3. node[User(p)].addr = 0
  BY <1>1, <1>2 DEF PagesAreKept, NoPte
<1>4. PICK first \in 0 .. n - 1 : ListFrom(n, first)
  BY DEF VmInv, ListIsSound
<1>5. IsFiniteSet(TestPages(n)) /\ Cardinality(TestPages(n)) = n - 1
  BY <1>1, FS_Interval DEF TestPages
<1>6. IsFiniteSet(Mapped(n)) /\ p \notin Mapped(n) /\ Mapped(n) \cup {p} \subseteq TestPages(n)
  BY <1>5, FS_Subset DEF Mapped
<1>7. Cardinality(Mapped(n) \cup {p}) = Cardinality(Mapped(n)) + 1
  BY <1>6, FS_AddElement
<1>8. Cardinality(Mapped(n) \cup {p}) <= n - 1
  BY <1>5, <1>6, FS_Subset
<1>9. Cardinality(Mapped(n)) = first
  BY <1>4 DEF ListFrom
<1>10. first \in 0 .. n - 2
  BY <1>1, <1>4, <1>7, <1>8, <1>9
<1> QED  BY <1>3, <1>4, <1>7, <1>9, <1>10

LEMMA MapPageStep ==
    ASSUME NEW n, VmInv(n), verdict = 0, evicting = 0, inst # None,
           NEW p \in {inst.at, inst.page}, p \in Pages, MapPage(p)
    PROVE  VmInv(n)'
<1>1. /\ VmTypes(n) /\ TableIsSound(n) /\ BitsAreSet(n) /\ PagesAreKept(n)
      /\ n \in Nat /\ n >= 2 /\ p \in TestPages(n) /\ p \in 0 .. n /\ Pages = TestPages(n)
  BY Sizes DEF VmInv
<1>2. ~user_llpt[p].V
  BY DEF MapPage
<1>3. node[User(p)].addr = 0
  BY <1>1, <1>2, AFrameIsFree
<1>4. PICK first \in 0 .. n - 2 : /\ ListFrom(n, first)
                                  /\ Cardinality(Mapped(n) \cup {p}) = first + 1
  BY <1>1, <1>2, AFrameIsFree
<1> DEFINE frame == Addr(first)
           new_pte == [V |-> TRUE, ppn |-> frame, A |-> FALSE, D |-> FALSE]
           copying == keep_page(tlb, p, [new_pte EXCEPT !.A = TRUE, !.D = TRUE])
<1>5. /\ freelist_head = Boot(first) /\ first \in 0 .. n - 1 /\ first # n - 1 /\ first + 1 \in 0 .. n - 1
      /\ freelist_tail = Boot(n - 1) /\ node[Boot(first)].next = Boot(first + 1)
  BY <1>1, <1>4 DEF ListFrom
<1>6. /\ freelist_head' = Boot(first + 1)
      /\ freelist_tail' = TailAfter(freelist_head')
      /\ node' = [node EXCEPT ![User(p)] = node[Boot(first)]]
      /\ mem' = [mem EXCEPT ![frame] = mem[p]]
      /\ user_llpt' = [user_llpt EXCEPT ![p] = new_pte]
      /\ tlb' = flush_page(copying, p)
      /\ UNCHANGED <<setting, seen, inst, evicting, verdict>>
  <2>1. freelist_head # NULL /\ user_mapping[p] = 0
    BY <1>1, <1>3, <1>5, Names DEF user_mapping
  <2>2. node[freelist_head].addr = frame
    BY <1>5 DEF Addr
  <2> QED  BY <1>5, <2>1, <2>2 DEF MapPage, CopyPage
<1>7. freelist_tail' = IF first + 1 = n - 1 THEN NULL ELSE Boot(n - 1)
  BY <1>5, <1>6, Names DEF TailAfter
<1>8. /\ frame \in Frames(n) /\ frame \in 0 .. 2 * n /\ frame \notin 0 .. n
      /\ \A q \in Mapped(n) : user_llpt[q].ppn # frame
  <2>1. frame \in {Addr(i) : i \in 0 .. n - 1}
    BY <1>5
  <2>2. frame \in Frames(n)
    BY <1>4, <2>1 DEF ListFrom
  <2>3. ASSUME NEW q \in Mapped(n) PROVE user_llpt[q].ppn # frame
    <3>1. user_llpt[q].ppn \in {Addr(i) : i \in 0 .. first - 1}
      BY <1>4 DEF ListFrom
    <3>2. PICK i \in 0 .. first - 1 : user_llpt[q].ppn = Addr(i)
      BY <3>1
    <3>3. i \in 0 .. n - 1 /\ i # first
      BY <1>1, <1>4
    <3> QED  BY <1>4, <1>5, <3>2, <3>3 DEF ListFrom
  <2> QED  BY <1>1, <2>2, <2>3 DEF Frames
<1> HIDE DEF frame
<1>9. new_pte \in Ptes(n) /\ new_pte.V /\ ~new_pte.A /\ ~new_pte.D /\ new_pte.ppn = frame
  BY <1>8 DEF Ptes
<1>10. /\ user_llpt \in [0 .. n -> Ptes(n)]
       /\ node \in [Nodes(n) -> [addr : 0 .. 2 * n, next : Nodes(n) \cup {NULL}]]
       /\ mem = [f \in 0 .. 2 * n |-> mem[f]]
  BY <1>1 DEF VmTypes
<1>11. Boot(first) \in Nodes(n) /\ User(p) \in Nodes(n) /\ Boot(first + 1) \in Nodes(n)
       /\ Boot(n - 1) \in Nodes(n)
  BY <1>1, <1>5 DEF Nodes
<1>12. \A q \in DOMAIN tlb' : q # p /\ q \in DOMAIN tlb /\ tlb'[q] = tlb[q]
  BY <1>6 DEF flush_page, keep_page
<1> HIDE DEF new_pte, copying
<1>13. \A q \in 0 .. n : user_llpt'[q] = IF q = p THEN new_pte ELSE user_llpt[q]
  BY <1>1, <1>6, <1>10
<1>14. \A f \in 0 .. 2 * n : mem'[f] = IF f = frame THEN mem[p] ELSE mem[f]
  BY <1>6, <1>10
<1>15. /\ \A i \in 0 .. n - 1 : node'[Boot(i)] = node[Boot(i)]
       /\ \A q \in TestPages(n) : node'[User(q)] = IF q = p THEN node[Boot(first)] ELSE node[User(q)]
  <2>1. \A x \in Nodes(n) : node'[x] = IF x = User(p) THEN node[Boot(first)] ELSE node[x]
    BY <1>6, <1>10, <1>11
  <2>2. /\ \A i \in 0 .. n - 1 : Boot(i) \in Nodes(n) /\ Boot(i) # User(p)
        /\ \A q \in TestPages(n) : User(q) \in Nodes(n) /\ (User(q) = User(p) => q = p)
    BY Names DEF Nodes
  <2> QED  BY <2>1, <2>2
<1>16. TestPages(n) \subseteq 0 .. n /\ TestPages(n) \subseteq 0 .. 2 * n
  BY <1>1 DEF TestPages
<1>17. Mapped(n)' = Mapped(n) \cup {p} /\ p \notin Mapped(n)
  BY <1>1, <1>2, <1>9, <1>13, <1>16 DEF Mapped
<1>18. \A q \in Mapped(n) : q # p /\ q \in TestPages(n) /\ user_llpt[q].V /\ user_llpt'[q] = user_llpt[q]
  BY <1>2, <1>13, <1>16 DEF Mapped
<1>19. VmTypes(n)'
  <2>1. setting' \in Settings /\ n = MAX_TEST_PAGES'
    BY <1>1, <1>6 DEF VmTypes, MAX_TEST_PAGES
  <2>2. user_llpt' \in [0 .. n -> Ptes(n)]
    BY <1>6, <1>9, <1>10
  <2>3. node' \in [Nodes(n) -> [addr : 0 .. 2 * n, next : Nodes(n) \cup {NULL}]]
    BY <1>6, <1>10, <1>11
  <2>4. freelist_tail' \in Nodes(n) \cup {NULL}
    BY <1>7, <1>11
  <2>5. mem' = [f \in 0 .. 2 * n |-> mem'[f]]
    BY <1>6, <1>10
  <2>6. DOMAIN tlb' \subseteq 0 .. n
    BY <1>1, <1>12 DEF VmTypes
  <2> QED  BY <1>1, <1>6, <2>1, <2>2, <2>3, <2>4, <2>5, <2>6 DEF VmTypes
<1>20. TableIsSound(n)'
  <2>1. \A q \in DOMAIN tlb' : tlb'[q] = user_llpt'[q]
    BY <1>1, <1>12, <1>13 DEF TableIsSound, VmTypes
  <2>2. \A q \in 0 .. n : user_llpt'[q].V => q \in TestPages(n) /\ user_llpt'[q].ppn \in Frames(n)
    BY <1>1, <1>8, <1>9, <1>13 DEF TableIsSound
  <2>3. \A q \in 0 .. n : ~user_llpt'[q].V => user_llpt'[q] = NoPte
    BY <1>1, <1>9, <1>13 DEF TableIsSound
  <2>4. \A q, r \in Mapped(n) \cup {p} : user_llpt'[q].ppn = user_llpt'[r].ppn => q = r
    BY <1>1, <1>8, <1>9, <1>13, <1>18 DEF TableIsSound
  <2> QED  BY <1>17, <2>1, <2>2, <2>3, <2>4 DEF TableIsSound
<1>21. BitsAreSet(n)'
  <2>1. \A q \in Mapped(n)' : ~user_llpt'[q].A => q \in {inst.at, inst.page}
    BY <1>1, <1>17, <1>18 DEF BitsAreSet
  <2> QED  BY <1>1, <1>6, <2>1 DEF BitsAreSet
<1>22. PagesAreKept(n)'
  <2>1. ASSUME NEW q \in TestPages(n)
        PROVE  mem'[IF user_llpt'[q].V THEN user_llpt'[q].ppn ELSE q] = seen[q]
    <3>1. CASE q = p
      <4>1. mem[p] = seen[p]
        BY <1>1, <1>2 DEF PagesAreKept
      <4> QED  BY <1>1, <1>8, <1>9, <1>13, <1>14, <3>1, <4>1
    <3>2. CASE q # p
      <4>1. user_llpt'[q] = user_llpt[q]
        BY <1>13, <1>16, <3>2
      <4>2. mem[IF user_llpt[q].V THEN user_llpt[q].ppn ELSE q] = seen[q]
        BY <1>1 DEF PagesAreKept
      <4>3. user_llpt[q].V => user_llpt[q].ppn # frame /\ user_llpt[q].ppn \in 0 .. 2 * n
        BY <1>1, <1>8, <1>16, PteFields DEF Mapped
      <4>4. q # frame /\ q \in 0 .. 2 * n
        BY <1>8, <1>16
      <4> QED  BY <1>14, <4>1, <4>2, <4>3, <4>4
    <3> QED  BY <3>1, <3>2
  <2>2. ASSUME NEW q \in Mapped(n)', ~user_llpt'[q].D
        PROVE  mem'[user_llpt'[q].ppn] = mem'[q]
    <3>1. CASE q = p
      BY <1>1, <1>8, <1>9, <1>13, <1>14, <1>16, <3>1
    <3>2. CASE q # p
      <4>1. q \in Mapped(n) /\ user_llpt'[q] = user_llpt[q] /\ q \in TestPages(n)
        BY <1>17, <1>18, <3>2
      <4>2. mem[user_llpt[q].ppn] = mem[q]
        BY <1>1, <2>2, <4>1 DEF PagesAreKept
      <4>3. user_llpt[q].ppn # frame /\ user_llpt[q].ppn \in 0 .. 2 * n
        BY <1>1, <1>8, <1>16, <4>1, PteFields
      <4>4. q # frame /\ q \in 0 .. 2 * n
        BY <1>8, <1>16, <4>1
      <4> QED  BY <1>14, <4>1, <4>2, <4>3, <4>4
    <3> QED  BY <3>1, <3>2
  <2>3. \A q \in TestPages(n) : node'[User(q)].addr = user_llpt'[q].ppn
    BY <1>1, <1>9, <1>13, <1>15, <1>16 DEF PagesAreKept, Addr, frame
  <2> QED  BY <1>6, <2>1, <2>2, <2>3 DEF PagesAreKept
<1>23. ListFrom(n, first + 1)'
  <2>1. \A i \in 0 .. n - 1 : Addr(i)' = Addr(i) /\ node'[Boot(i)].next = node[Boot(i)].next
    BY <1>15 DEF Addr
  <2>2. first + 1 = Cardinality(Mapped(n)')
    BY <1>4, <1>17
  <2>3. \A i \in first + 1 .. n - 1 : node'[Boot(i)].next = IF i = n - 1 THEN NULL ELSE Boot(i + 1)
    BY <1>4, <1>5, <2>1 DEF ListFrom
  <2>4. {Addr(i)' : i \in 0 .. n - 1} = Frames(n)
    BY <1>4, <2>1 DEF ListFrom
  <2>5. {user_llpt'[q].ppn : q \in Mapped(n)'} = {Addr(i)' : i \in 0 .. (first + 1) - 1}
    <3>1. {user_llpt'[q].ppn : q \in Mapped(n)'} = {user_llpt[q].ppn : q \in Mapped(n)} \cup {frame}
      BY <1>1, <1>9, <1>13, <1>17, <1>18
    <3>2. {Addr(i) : i \in 0 .. first} = {Addr(i) : i \in 0 .. first - 1} \cup {frame}
      <4>1. 0 .. first = 0 .. first - 1 \cup {first}
        BY <1>4
      <4> QED  BY <4>1 DEF frame
    <3>3. {Addr(i)' : i \in 0 .. first} = {Addr(i) : i \in 0 .. first}
      <4>1. \A i \in 0 .. first : Addr(i)' = Addr(i)
        BY <1>1, <1>4, <2>1
      <4> HIDE DEF Addr
      <4> QED  BY <4>1, Zenon
    <3>4. (first + 1) - 1 = first
      BY <1>4
    <3> QED  BY <1>4, <3>1, <3>2, <3>3, <3>4 DEF ListFrom
  <2> QED  BY <1>4, <1>6, <1>7, <2>1, <2>2, <2>3, <2>4, <2>5 DEF ListFrom
<1>24. ListIsSound(n)'
  BY <1>5, <1>23 DEF ListIsSound
<1>25. AssertionsHold'
  BY <1>6 DEF AssertionsHold
<1> QED  BY <1>19, <1>20, <1>21, <1>22, <1>24, <1>25 DEF VmInv

LEMMA FaultStep ==
    ASSUME NEW n, VmInv(n), verdict = 0, PageFault
    PROVE  VmInv(n)'
<1>1. ASSUME NEW p \in {inst.at, inst.page}, NEW store, ~Succeeds(p, store), inst # None,
             FetchFails \/ DataFails, handle_fault(p, store)
      PROVE  VmInv(n)'
  <2>1. evicting = 0
    BY <1>1, FaultsAreOfTheTest
  <2>2. CASE p \in Pages
    BY <1>1, <2>1, <2>2, SetBitStep, MapPageStep DEF handle_fault
  <2>3. CASE p \notin Pages
    <3>1. Terminate(3)
      BY <1>1, <2>3 DEF handle_fault, AssertionFails
    <3>2. {inst.at, inst.page} \ Pages # {}
      BY <1>1, <2>3
    <3> QED  BY <3>1, <3>2, TerminateStep
  <2> QED  BY <2>2, <2>3
<1>2. CASE FetchFails /\ handle_fault(inst.at, FALSE)
  BY <1>1, <1>2 DEF FetchFails
<1>3. CASE DataFails /\ handle_fault(inst.page, inst.op = "store")
  BY <1>1, <1>3 DEF DataFails
<1> QED  BY <1>2, <1>3 DEF PageFault

-----------------------------------------------------------------------------
(* Every page that has a frame has the bits evict asks for. *)
LEMMA EvictStep ==
    ASSUME NEW n, VmInv(n), verdict = 0, Evict
    PROVE  VmInv(n)'
<1> DEFINE p == evicting
           f == user_llpt[p].ppn
           freed == [node EXCEPT ![User(p)].addr = 0]
<1>1. /\ VmTypes(n) /\ TableIsSound(n) /\ BitsAreSet(n) /\ PagesAreKept(n)
      /\ n \in Nat /\ n >= 2 /\ p \in TestPages(n) /\ p \in 0 .. n /\ Pages = TestPages(n) /\ evict(p)
  BY Sizes DEF VmInv, Evict
<1>2. p # 0 /\ p + 1 # 0 /\ p + 1 \in 0 .. n
  BY <1>1 DEF TestPages
<1>3. node[User(p)].addr = f \/ node[User(p)].addr = 0
  BY <1>1 DEF PagesAreKept
<1>4. user_mapping[p] = node[User(p)].addr
  BY <1>1 DEF user_mapping
<1>5. /\ TestPages(n) \subseteq 0 .. n /\ TestPages(n) \subseteq 0 .. 2 * n
      /\ \A x \in Frames(n) : x \in 0 .. 2 * n /\ x \notin 0 .. n
      /\ User(p) \in Nodes(n)
  BY <1>1 DEF TestPages, Frames, Nodes
<1>6. /\ setting' = setting /\ user_llpt' = user_llpt /\ tlb' = tlb /\ seen' = seen /\ inst' = inst
      /\ evicting' = p + 1 /\ verdict' = verdict
      /\ \/ mem' = mem
         \/ p \in Mapped(n) /\ mem' = [mem EXCEPT ![f] = mem[p]]
      /\ \/ node' = node /\ freelist_tail' = freelist_tail
         \/ /\ freelist_tail' = User(p)
            /\ \/ node' = freed
               \/ freelist_tail # NULL /\ node' = [freed EXCEPT ![freelist_tail].next = User(p)]
  <2>1. CASE user_mapping[p] = 0
    BY <1>1, <2>1 DEF evict, table, lists
  <2>2. CASE user_mapping[p] # 0
    <3>1. f # 0 /\ node[User(p)].addr = f
      BY <1>3, <1>4, <2>2
    <3>2. user_llpt[p].V
      BY <1>1, <3>1 DEF TableIsSound, NoPte
    <3>3. p \in Mapped(n) /\ user_llpt[p].A
      BY <1>1, <1>2, <3>2 DEF Mapped, BitsAreSet
    <3>4. Translation(p) = user_llpt[p]
      BY <1>1, TranslationIsCurrent
    <3>5. mem[f] # mem[p] => user_llpt[p].D
      BY <1>1, <3>3 DEF PagesAreKept
    <3>6. EvictBody(p)
      BY <1>1, <2>2 DEF evict
    <3>7. /\ mem' = IF mem[f] # mem[p] THEN CopyPage(f, p) ELSE mem
          /\ freelist_tail' = User(p)
          /\ IF freelist_tail = NULL
             THEN freelist_head' = User(p) /\ node' = freed
             ELSE /\ node' = [freed EXCEPT ![freelist_tail].next = User(p)]
                  /\ UNCHANGED freelist_head
          /\ evicting' = p + 1
          /\ UNCHANGED <<setting, table, seen, inst, verdict>>
      BY <1>4, <3>1, <3>3, <3>4, <3>5, <3>6 DEF EvictBody
    <3> QED  BY <3>3, <3>7 DEF CopyPage, table
  <2> QED  BY <2>1, <2>2
<1>7. /\ node \in [Nodes(n) -> [addr : 0 .. 2 * n, next : Nodes(n) \cup {NULL}]]
      /\ mem = [x \in 0 .. 2 * n |-> mem[x]] /\ freelist_tail \in Nodes(n) \cup {NULL}
  BY <1>1 DEF VmTypes
<1>8. /\ freed \in [Nodes(n) -> [addr : 0 .. 2 * n, next : Nodes(n) \cup {NULL}]]
      /\ \A x \in Nodes(n) : freed[x].addr = IF x = User(p) THEN 0 ELSE node[x].addr
  BY <1>1, <1>5, <1>7
<1> HIDE DEF p, f, freed
<1>9. /\ node' \in [Nodes(n) -> [addr : 0 .. 2 * n, next : Nodes(n) \cup {NULL}]]
      /\ \A x \in Nodes(n) : node'[x].addr = node[x].addr \/ (x = User(p) /\ node'[x].addr = 0)
  <2>1. CASE node' = node
    BY <1>7, <2>1
  <2>2. CASE node' = freed
    BY <1>8, <2>2
  <2>3. CASE freelist_tail # NULL /\ node' = [freed EXCEPT ![freelist_tail].next = User(p)]
    <3>1. freelist_tail \in Nodes(n)
      BY <1>7, <2>3
    <3>2. node' \in [Nodes(n) -> [addr : 0 .. 2 * n, next : Nodes(n) \cup {NULL}]]
      BY <1>5, <1>8, <2>3, <3>1
    <3>3. \A x \in Nodes(n) : node'[x].addr = freed[x].addr
      BY <1>8, <2>3, <3>1
    <3> QED  BY <1>8, <3>2, <3>3
  <2> QED  BY <1>6, <2>1, <2>2, <2>3
<1>10. VmTypes(n)'
  <2>1. mem' = [x \in 0 .. 2 * n |-> mem'[x]] /\ freelist_tail' \in Nodes(n) \cup {NULL}
    BY <1>5, <1>6, <1>7
  <2> QED  BY <1>1, <1>2, <1>6, <1>9, <2>1 DEF VmTypes, MAX_TEST_PAGES
<1>11. TableIsSound(n)'
  BY <1>1, <1>6 DEF TableIsSound, Mapped
<1>12. BitsAreSet(n)'
  BY <1>1, <1>2, <1>6 DEF BitsAreSet, Mapped, p
<1>13. PagesAreKept(n)'
  <2>1. ASSUME NEW q \in Mapped(n), ~user_llpt[q].D
        PROVE  mem'[user_llpt[q].ppn] = mem'[q]
    <3>1. /\ mem[user_llpt[q].ppn] = mem[q] /\ q \in TestPages(n)
          /\ user_llpt[q].ppn \in Frames(n)
      BY <1>1, <1>5, <2>1 DEF PagesAreKept, TableIsSound, Mapped
    <3>2. CASE mem' = mem
      BY <3>1, <3>2
    <3>3. CASE p \in Mapped(n) /\ mem' = [mem EXCEPT ![f] = mem[p]]
      <4>1. f \in Frames(n) /\ p \in TestPages(n) /\ (q # p => user_llpt[q].ppn # f)
            /\ (q = p => user_llpt[q].ppn = f)
        BY <1>1, <1>5, <2>1, <3>3 DEF TableIsSound, Mapped, f
      <4>2. \A x \in 0 .. 2 * n : mem'[x] = IF x = f THEN mem[p] ELSE mem[x]
        BY <1>7, <3>3
      <4> QED  BY <1>5, <3>1, <4>1, <4>2
    <3> QED  BY <1>6, <3>2, <3>3
  <2>2. ASSUME NEW q \in TestPages(n)
        PROVE  node'[User(q)].addr = user_llpt[q].ppn \/ node'[User(q)].addr = 0
    <3>1. User(q) \in Nodes(n)
      BY DEF Nodes
    <3> QED  BY <1>1, <1>9, <3>1 DEF PagesAreKept
  <2> QED  BY <1>2, <1>6, <2>1, <2>2 DEF PagesAreKept, Mapped
<1>14. ListIsSound(n)'
  BY <1>2, <1>6 DEF ListIsSound
<1>15. AssertionsHold'
  BY <1>6 DEF AssertionsHold
<1> QED  BY <1>10, <1>11, <1>12, <1>13, <1>14, <1>15 DEF VmInv

-----------------------------------------------------------------------------
LEMMA BootIsSound ==
    ASSUME NEW n, n = MAX_TEST_PAGES, Init
    PROVE  VmInv(n)
<1>1. setting \in Settings /\ n = Period(setting.bits)
  BY DEF Init, MAX_TEST_PAGES
<1>2. n \in Nat /\ n >= 2 /\ Pages = TestPages(n)
  BY <1>1, VmAssumption DEF Pages, TestPages
<1>3. PICK random \in 0 .. n - 1 :
         node = [x \in Nodes(n) |->
                   IF x[1] = "user_mapping" THEN [addr |-> 0, next |-> NULL]
                   ELSE [addr |-> FrameOf(setting.bits, random)[x[2]],
                         next |-> IF x[2] = n - 1 THEN NULL ELSE Boot(x[2] + 1)]]
  BY <1>2 DEF Init, vm_boot, Nodes
<1> DEFINE frame == FrameOf(setting.bits, random)
<1>4. /\ {frame[i] : i \in 0 .. n - 1} = n + 1 .. 2 * n
      /\ \A i, j \in 0 .. n - 1 : frame[i] = frame[j] => i = j
  BY <1>1, <1>3, VmAssumption
<1> HIDE DEF frame
<1> DEFINE next(i) == IF i = n - 1 THEN NULL ELSE Boot(i + 1)
<1>5. /\ \A i \in 0 .. n - 1 : node[Boot(i)] = [addr |-> frame[i], next |-> next(i)]
      /\ \A p \in TestPages(n) : node[User(p)] = [addr |-> 0, next |-> NULL]
      /\ DOMAIN node = Nodes(n)
  <2>1. /\ \A i : Boot(i)[1] # "user_mapping" /\ Boot(i)[2] = i
        /\ \A p : User(p)[1] = "user_mapping"
    BY DEF Boot, User
  <2>2. /\ \A i \in 0 .. n - 1 : Boot(i) \in Nodes(n)
        /\ \A p \in TestPages(n) : User(p) \in Nodes(n)
    BY DEF Nodes
  <2> QED  BY <1>3, <2>1, <2>2 DEF frame
<1>6. \A i \in 0 .. n - 1 : next(i) = IF i = n - 1 THEN NULL ELSE Boot(i + 1)
  OBVIOUS
<1> HIDE DEF next
<1>7. ASSUME NEW i \in 0 .. n - 1
      PROVE  node[Boot(i)].addr = frame[i] /\ node[Boot(i)].next = next(i)
  <2>1. node[Boot(i)] = [addr |-> frame[i], next |-> next(i)]
    BY <1>5
  <2> QED  BY <2>1
<1>8. /\ user_llpt = [p \in 0 .. n |-> NoPte] /\ tlb = [p \in {} |-> NoPte]
      /\ freelist_head = Boot(0) /\ freelist_tail = Boot(n - 1)
      /\ mem = [x \in 0 .. 2 * n |-> Fresh(x)] /\ seen = [p \in TestPages(n) |-> Fresh(p)]
      /\ inst = None /\ evicting = 0 /\ verdict = 0
  BY <1>2 DEF Init, vm_boot
<1>9. VmTypes(n)
  <2>1. NoPte \in Ptes(n)
    BY <1>2 DEF NoPte, Ptes
  <2>2. node \in [Nodes(n) -> [addr : 0 .. 2 * n, next : Nodes(n) \cup {NULL}]]
    <3>1. ASSUME NEW x \in Nodes(n)
          PROVE  node[x] \in [addr : 0 .. 2 * n, next : Nodes(n) \cup {NULL}]
      <4>1. CASE \E i \in 0 .. n - 1 : x = Boot(i)
        <5>1. PICK i \in 0 .. n - 1 : x = Boot(i)
          BY <4>1
        <5>2. frame[i] \in 0 .. 2 * n
          BY <1>2, <1>4
        <5>3. i # n - 1 => i + 1 \in 0 .. n - 1
          BY <1>2
        <5>4. next(i) \in Nodes(n) \cup {NULL}
          BY <1>6, <5>3 DEF Nodes
        <5>5. node[x] = [addr |-> frame[i], next |-> next(i)]
          BY <1>5, <5>1
        <5> QED  BY <5>2, <5>4, <5>5
      <4>2. CASE \E p \in TestPages(n) : x = User(p)
        BY <1>2, <1>5, <4>2
      <4> QED  BY <4>1, <4>2 DEF Nodes
    <3>2. node = [x \in Nodes(n) |-> node[x]]
      BY <1>3
    <3> QED  BY <3>1, <3>2
  <2>3. Boot(n - 1) \in Nodes(n)
    BY <1>2 DEF Nodes
  <2>4. inst.at \in 0 .. n /\ inst.page \in 0 .. n /\ evicting \in 0 .. n
    BY <1>2, <1>8 DEF None
  <2> QED  BY <1>1, <1>8, <2>1, <2>2, <2>3, <2>4 DEF VmTypes
<1>10. Mapped(n) = {} /\ \A p \in 0 .. n : user_llpt[p] = NoPte /\ ~user_llpt[p].V
  BY <1>2, <1>8 DEF Mapped, NoPte, TestPages
<1>11. TableIsSound(n)
  BY <1>8, <1>10 DEF TableIsSound
<1>12. BitsAreSet(n)
  BY <1>8, <1>10 DEF BitsAreSet, None
<1>13. PagesAreKept(n)
  <2>1. TestPages(n) \subseteq 0 .. n /\ TestPages(n) \subseteq 0 .. 2 * n
    BY <1>2 DEF TestPages
  <2> QED  BY <1>5, <1>8, <1>10, <2>1 DEF PagesAreKept, NoPte
<1>14. ListFrom(n, 0)
  <2>1. \A i \in 0 .. n - 1 : Addr(i) = frame[i]
    BY <1>7 DEF Addr
  <2>2. {Addr(i) : i \in 0 .. n - 1} = Frames(n)
    BY <1>4, <2>1 DEF Frames
  <2>3. 0 = Cardinality(Mapped(n))
    BY <1>10, FS_EmptySet
  <2>4. {user_llpt[p].ppn : p \in Mapped(n)} = {Addr(i) : i \in 0 .. 0 - 1}
    BY <1>10
  <2>5. 0 # n - 1
    BY <1>2
  <2>6. \A i \in 0 .. n - 1 : node[Boot(i)].next = IF i = n - 1 THEN NULL ELSE Boot(i + 1)
    BY <1>6, <1>7
  <2>7. \A i, j \in 0 .. n - 1 : Addr(i) = Addr(j) => i = j
    BY <1>4, <2>1
  <2> QED  BY <1>8, <2>2, <2>3, <2>4, <2>5, <2>6, <2>7 DEF ListFrom
<1>15. ListIsSound(n)
  BY <1>2, <1>14 DEF ListIsSound
<1>16. AssertionsHold
  BY <1>8 DEF AssertionsHold
<1> QED  BY <1>9, <1>11, <1>12, <1>13, <1>15, <1>16 DEF VmInv

LEMMA NextStep ==
    ASSUME NEW n, VmInv(n), [Next]_vars
    PROVE  VmInv(n)'
<1>1. CASE UNCHANGED vars
  <2>1. Terminate(verdict)
    BY <1>1 DEF vars, Terminate, table, lists
  <2>2. verdict = 3 => {inst.at, inst.page} \ Pages # {}
    BY DEF VmInv, AssertionsHold
  <2> QED  BY <2>1, <2>2, TerminateStep
<1>2. ASSUME verdict = 0, Hart PROVE VmInv(n)'
  <2>1. CASE \E code \in {1, 5} : Finish(code)
    BY <2>1, TerminateStep DEF Finish
  <2>2. CASE wtf
    BY <2>2, TerminateStep DEF wtf
  <2>3. CASE \E v \in 1 .. VERSIONS : Store(v)
    BY <1>2, <2>3, StoreStep
  <2> QED  BY <1>2, <2>1, <2>2, <2>3, LoadStep, FaultStep, EcallStep, EvictStep DEF Hart
<1>3. ASSUME verdict = 0, Test PROVE VmInv(n)'
  BY <1>3, IssueStep DEF Test
<1>4. ASSUME verdict = 0, Translations PROVE VmInv(n)'
  <2>1. PICK p \in setting.touched : Walk(p) \/ Drop(p)
    BY <1>4 DEF Translations
  <2>2. /\ UNCHANGED <<setting, user_llpt, lists, mem, seen, inst, evicting, verdict>>
        /\ \/ tlb' = keep_page(tlb, p, user_llpt[p])
           \/ tlb' = [q \in DOMAIN tlb \ {p} |-> tlb[q]]
    BY <2>1 DEF Walk, Drop
  <2> QED  BY <1>4, <2>2, TranslationsStep
<1> QED  BY <1>1, <1>2, <1>3, <1>4 DEF Next

(* The supervisor never leaves its invariant. *)
VmIInv == \E n \in Nat : VmInv(n)
LEMMA VmInvHolds == Spec => []VmIInv
<1>1. ASSUME Init PROVE VmIInv
  <2>1. MAX_TEST_PAGES \in Nat
    BY <1>1, VmAssumption DEF Init, MAX_TEST_PAGES
  <2>2. PICK n \in Nat : n = MAX_TEST_PAGES
    BY <2>1
  <2> QED  BY <1>1, <2>2, BootIsSound DEF VmIInv
<1>2. ASSUME VmIInv, [Next]_vars PROVE VmIInv'
  <2>1. PICK n \in Nat : VmInv(n)
    BY <1>2 DEF VmIInv
  <2>2. VmInv(n)'
    BY <1>2, <2>1, NextStep
  <2> QED  BY <2>2 DEF VmIInv
<1> QED  BY <1>1, <1>2, PTL DEF Spec

-----------------------------------------------------------------------------
(* A test sees a flat memory: whatever the order of its accesses, the      *)
(* frames it is given, and the translations the hart keeps and drops, each *)
(* page of it holds what the test has written there.                       *)
THEOREM TestSeesFlatMemory == Spec => []TestSeesItsPages
<1>1. ASSUME VmIInv PROVE TestSeesItsPages
  <2>1. PICK n \in Nat : VmInv(n)
    BY <1>1 DEF VmIInv
  <2>2. Pages = TestPages(n) /\ TestPages(n) \subseteq 0 .. n
    BY <2>1, Sizes DEF VmInv
  <2> QED  BY <2>1, <2>2 DEF TestSeesItsPages, VmInv, PagesAreKept, TableIsSound
<1> QED  BY <1>1, VmInvHolds, PTL

(* No frame is lost or given away twice: at all times of a test those of   *)
(* the list and those of its pages are all there are, and the list is one  *)
(* that vm_boot linked, from freelist_head to freelist_tail.               *)
THEOREM FramesStayOwned == Spec => []FramesAreOwnedOnce
<1>1. ASSUME VmIInv PROVE FramesAreOwnedOnce
  <2>1. PICK n \in Nat : VmInv(n)
    BY <1>1 DEF VmIInv
  <2>2. /\ Pages = TestPages(n) /\ TestPages(n) \subseteq 0 .. n /\ MAX_TEST_PAGES = n /\ n >= 2
        /\ VmTypes(n) /\ TableIsSound(n) /\ PagesAreKept(n)
    BY <2>1, Sizes DEF VmInv
  <2> SUFFICES ASSUME evicting = 0 PROVE FramesAreOwnedOnce
    BY DEF FramesAreOwnedOnce
  <2>3. PICK first \in 0 .. n - 1 : ListFrom(n, first)
    BY <2>1 DEF VmInv, ListIsSound
  <2>4. \A p \in TestPages(n) : user_mapping[p] = user_llpt[p].ppn /\ node[User(p)].addr = user_llpt[p].ppn
    BY <2>2 DEF user_mapping, PagesAreKept
  <2>5. \A p \in TestPages(n) : /\ p \in Mapped(n) => user_llpt[p].ppn \in Frames(n)
                                /\ p \notin Mapped(n) => user_llpt[p].ppn = 0
    BY <2>2 DEF TableIsSound, Mapped, NoPte
  <2>6. \A x \in Frames(n) : x # 0
    BY DEF Frames
  <2> DEFINE free == first .. n - 1
             given == 0 .. first - 1
             frames == {Addr(i) : i \in free}
             owned == {user_mapping[p] : p \in TestPages(n)} \ {0}
  <2>7. owned = {user_llpt[p].ppn : p \in Mapped(n)}
    <3>1. owned = {user_llpt[p].ppn : p \in TestPages(n)} \ {0}
      BY <2>4
    <3> QED  BY <2>5, <2>6, <3>1 DEF Mapped
  <2>8. owned = {Addr(i) : i \in given}
    BY <2>3, <2>7 DEF ListFrom
  <2>9. /\ free \cup given = 0 .. n - 1 /\ free \cap given = {}
    BY <2>3
  <2>10. frames \cap owned = {}
    BY <2>3, <2>8, <2>9 DEF ListFrom
  <2>11. frames \cup owned = n + 1 .. 2 * n
    <3>1. frames \cup owned = {Addr(i) : i \in free \cup given}
      BY <2>8
    <3> HIDE DEF free, given
    <3> QED  BY <2>3, <2>9, <3>1 DEF ListFrom, Frames
  <2>12. \A p, q \in TestPages(n) : user_mapping[p] = user_mapping[q] /\ p # q => user_mapping[p] = 0
    BY <2>2, <2>4, <2>5, <2>6 DEF TableIsSound
  <2>13. \A i, j \in free : Addr(i) = Addr(j) => i = j
    BY <2>3, <2>9 DEF ListFrom
  <2>14. \A i \in free : node[Boot(i)].next = IF i = n - 1 THEN NULL ELSE Boot(i + 1)
    BY <2>3 DEF ListFrom
  <2>15. freelist_head = Boot(first) /\ freelist_tail = IF first = n - 1 THEN NULL ELSE Boot(n - 1)
    BY <2>3 DEF ListFrom
  <2> QED  BY <2>2, <2>3, <2>4, <2>10, <2>11, <2>12, <2>13, <2>14, <2>15
           DEF FramesAreOwnedOnce, Addr
<1> QED  BY <1>1, VmInvHolds, PTL

(* The assertions of the supervisor hold: no accessed or dirty bit is      *)
(* missing where one is needed, at the end neither, and no frame runs out, *)
(* unless the test leaves its pages.                                       *)
THEOREM AssertionsNeverFail == Spec => []AssertionsHold
<1>1. ASSUME VmIInv PROVE AssertionsHold
  BY <1>1 DEF VmIInv, VmInv
<1> QED  BY <1>1, VmInvHolds, PTL
=============================================================================
