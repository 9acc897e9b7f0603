------------------------------ MODULE TestVm ------------------------------
(***************************************************************************)
(* The supervisor under which the "v" variant of the ISA tests runs        *)
(* (testbench/riscv-tests/env/v/vm.c).  The pages of a test lie in memory  *)
(* at their own numbers; each one is given a frame of its own, in the      *)
(* order of an LFSR, when it is first touched, and its accessed and dirty  *)
(* bits are set by further faults.  At the end all pages are evicted.      *)
(* Pages and frames are numbered from DRAM_BASE.  The hart may keep and    *)
(* drop translations as it likes until sfence.vma, and either sets the     *)
(* bits itself or faults when they are clear.                              *)
(***************************************************************************)
EXTENDS Integers, FiniteSets

CONSTANTS
    Settings,    \* [bits: of the LFSR, touched: pages the test uses,
                 \*  hardware: the hart sets accessed and dirty itself]
    VERSIONS     \* what a test writes to a page is one of this many

VARIABLES
    setting,
    user_llpt,      \* page -> page table entry
    tlb,            \* page -> the entry the hart keeps, where it keeps one
    node,           \* freelist_nodes and user_mapping
    freelist_head, freelist_tail,
    mem,            \* page or frame -> content
    seen,           \* page -> what the test has in it
    inst,           \* the instruction of the test that is being tried
    evicting,       \* the page handle_trap evicts next, 0 before the end
    verdict         \* the code written to tohost, 0 while the test runs
table == <<user_llpt, tlb>>
lists == <<node, freelist_head, freelist_tail>>
vars == <<setting, user_llpt, tlb, node, freelist_head, freelist_tail,
          mem, seen, inst, evicting, verdict>>

Period(bits) == 2 ^ bits - 1    \* of the LFSR
LFSR_NEXT(bits, x) == ((x + x \div 2) % 2) * 2 ^ (bits - 1) + x \div 2
MAX_TEST_PAGES == Period(setting.bits)
Pages == 1 .. MAX_TEST_PAGES - 1

NULL == <<"null", 0>>
Boot(i) == <<"freelist_nodes", i>>
User(p) == <<"user_mapping", p>>
user_mapping == [p \in Pages |-> node[User(p)].addr]

NoPte == [V |-> FALSE, ppn |-> 0, A |-> FALSE, D |-> FALSE]
None == [op |-> "none", at |-> 0, page |-> 0]
Fresh(p) == [of |-> p, version |-> 0]

-----------------------------------------------------------------------------
(* vm_boot: no page is mapped, all frames are in the list. *)
FrameOf(bits, random) ==
    LET lfsr[k \in 0 .. Period(bits) - 1] ==
            IF k = 0 THEN 1 + (random % Period(bits)) ELSE LFSR_NEXT(bits, lfsr[k - 1])
    IN  [k \in 0 .. Period(bits) - 1 |-> Period(bits) + lfsr[k]]

(* Whatever the entropy, the LFSR comes by each frame once (with the       *)
(* source's six bits and its taps).                                        *)
ASSUME VmAssumption ==
    \A s \in Settings :
        /\ Period(s.bits) \in Nat /\ Period(s.bits) >= 2
        /\ s.touched \subseteq 0 .. Period(s.bits) /\ s.hardware \in BOOLEAN
        /\ \A random \in 0 .. Period(s.bits) - 1 :
              LET frame == FrameOf(s.bits, random)
              IN  /\ {frame[i] : i \in 0 .. Period(s.bits) - 1} = Period(s.bits) + 1 .. 2 * Period(s.bits)
                  /\ \A i, j \in 0 .. Period(s.bits) - 1 : frame[i] = frame[j] => i = j

vm_boot ==
    /\ user_llpt = [p \in 0 .. MAX_TEST_PAGES |-> NoPte]
    /\ tlb = [p \in {} |-> NoPte]
    /\ \E random \in 0 .. MAX_TEST_PAGES - 1 :
         node = [n \in {Boot(i) : i \in 0 .. MAX_TEST_PAGES - 1} \cup {User(p) : p \in Pages} |->
                   IF n[1] = "user_mapping" THEN [addr |-> 0, next |-> NULL]
                   ELSE [addr |-> FrameOf(setting.bits, random)[n[2]],
                         next |-> IF n[2] = MAX_TEST_PAGES - 1 THEN NULL ELSE Boot(n[2] + 1)]]
    /\ freelist_head = Boot(0)
    /\ freelist_tail = Boot(MAX_TEST_PAGES - 1)

Init ==
    /\ setting \in Settings
    /\ vm_boot
    /\ mem = [f \in 0 .. 2 * MAX_TEST_PAGES |-> Fresh(f)]
    /\ seen = [p \in Pages |-> Fresh(p)]
    /\ inst = None /\ evicting = 0 /\ verdict = 0

-----------------------------------------------------------------------------
(* The hart *)

FlushesNothing(t, p) == t  \* fault: sfence.vma left out
flush_page(t, p) == [q \in DOMAIN t \ {p} |-> t[q]]
keep_page(t, p, pte) == [q \in DOMAIN t \cup {p} |-> IF q = p THEN pte ELSE t[q]]

Translation(p) == IF p \in DOMAIN tlb THEN tlb[p] ELSE user_llpt[p]
Permits(pte, store) == pte.V /\ pte.A /\ (store => pte.D)
Succeeds(p, store) ==
    IF setting.hardware THEN Translation(p).V ELSE Permits(Translation(p), store)

Walk(p) ==  \* at any time, and also for a page that is not mapped
    /\ tlb' = keep_page(tlb, p, user_llpt[p])
    /\ UNCHANGED <<setting, user_llpt, lists, mem, seen, inst, evicting, verdict>>

Drop(p) ==
    /\ p \in DOMAIN tlb
    /\ tlb' = [q \in DOMAIN tlb \ {p} |-> tlb[q]]
    /\ UNCHANGED <<setting, user_llpt, lists, mem, seen, inst, evicting, verdict>>

(* The test is at its next instruction; a test gone wrong leaves its pages. *)
Issue(op, at, page) ==
    /\ inst = None
    /\ inst' = [op |-> op, at |-> at, page |-> IF op \in {"load", "store"} THEN page ELSE at]
    /\ UNCHANGED <<setting, table, lists, mem, seen, evicting, verdict>>

FetchFails == inst # None /\ ~Succeeds(inst.at, FALSE)
DataFails == inst # None /\ ~FetchFails /\ ~Succeeds(inst.page, inst.op = "store")
Runs == inst # None /\ ~FetchFails /\ ~DataFails

(* The bits an instruction needs are set where they are not, and so the    *)
(* hart keeps no older translation.                                        *)
Stores(p) == inst.op = "store" /\ p = inst.page
Marks ==
    LET marked == {p \in {inst.at, inst.page} : ~Permits(Translation(p), Stores(p))}
    IN  /\ user_llpt' = [p \in DOMAIN user_llpt |->
              IF p \in marked THEN [user_llpt[p] EXCEPT !.A = TRUE, !.D = @ \/ Stores(p)]
              ELSE user_llpt[p]]
        /\ tlb' = [p \in DOMAIN tlb \ marked |-> tlb[p]]

Load ==
    /\ Runs /\ inst.op = "load"
    /\ Marks /\ inst' = None
    /\ UNCHANGED <<setting, lists, mem, seen, evicting, verdict>>

Store(version) ==
    LET written == [of |-> inst.page, version |-> version]
    IN  /\ Runs /\ inst.op = "store"
        /\ Marks /\ inst' = None
        /\ mem' = [mem EXCEPT ![Translation(inst.page).ppn] = written]
        /\ seen' = [seen EXCEPT ![inst.page] = written]
        /\ UNCHANGED <<setting, lists, evicting, verdict>>

-----------------------------------------------------------------------------
(* handle_fault *)

Terminate(code) ==
    /\ verdict' = code
    /\ UNCHANGED <<setting, table, lists, mem, seen, inst, evicting>>
AssertionFails == Terminate(3)

(* The page is mapped: its accessed bit is set, or else its dirty bit. *)
SetsDirty(pte) == [pte EXCEPT !.D = TRUE]  \* fault: never the accessed bit
NextBit(pte) == IF ~pte.A THEN [pte EXCEPT !.A = TRUE] ELSE [pte EXCEPT !.D = TRUE]
SetBit(p, store) ==
    /\ user_llpt[p].V
    /\ IF ~user_llpt[p].A \/ (~user_llpt[p].D /\ store)
       THEN /\ user_llpt' = [user_llpt EXCEPT ![p] = NextBit(@)]
            /\ tlb' = flush_page(tlb, p)
            /\ UNCHANGED <<setting, lists, mem, seen, inst, evicting, verdict>>
       ELSE AssertionFails

(* The page gets the first free frame.  Copying its content leaves a       *)
(* translation in the hart that has both bits set.                         *)
TailKept(head) == freelist_tail  \* fault: the tail is never cleared
TailAfter(head) == IF head = freelist_tail THEN NULL ELSE freelist_tail
CopiesBack(frame, p) == [mem EXCEPT ![p] = mem[frame]]  \* fault: source and target swapped
CopyPage(frame, p) == [mem EXCEPT ![frame] = mem[p]]
MapPage(p) ==
    LET frame == node[freelist_head].addr
        new_pte == [V |-> TRUE, ppn |-> frame, A |-> FALSE, D |-> FALSE]
        copying == keep_page(tlb, p, [new_pte EXCEPT !.A = TRUE, !.D = TRUE])
    IN  /\ ~user_llpt[p].V
        /\ IF freelist_head # NULL /\ user_mapping[p] = 0
           THEN /\ freelist_head' = node[freelist_head].next
                /\ freelist_tail' = TailAfter(freelist_head')
                /\ node' = [node EXCEPT ![User(p)] = node[freelist_head]]
                /\ mem' = CopyPage(frame, p)
                /\ user_llpt' = [user_llpt EXCEPT ![p] = new_pte]
                /\ tlb' = flush_page(copying, p)
                /\ UNCHANGED <<setting, seen, inst, evicting, verdict>>
           ELSE AssertionFails

handle_fault(p, store) ==
    IF p \in Pages THEN SetBit(p, store) \/ MapPage(p) ELSE AssertionFails

PageFault ==
    \/ FetchFails /\ handle_fault(inst.at, FALSE)
    \/ DataFails /\ handle_fault(inst.page, inst.op = "store")

-----------------------------------------------------------------------------
(* The end of a test: handle_trap evicts all pages. *)

Ecall ==
    /\ Runs /\ inst.op = "ecall" /\ evicting = 0
    /\ Marks /\ evicting' = 1
    /\ UNCHANGED <<setting, lists, mem, seen, inst, verdict>>

(* A page that differs must be dirty; the frame becomes the last of the    *)
(* free ones.                                                              *)
EvictBody(p) ==
    LET frame == user_mapping[p]
        differs == mem[Translation(p).ppn] # mem[p]
        freed == [node EXCEPT ![User(p)].addr = 0]
    IN  IF user_llpt[p].A /\ (differs => user_llpt[p].D)
        THEN /\ mem' = IF differs THEN CopyPage(frame, p) ELSE mem
             /\ freelist_tail' = User(p)
             /\ IF freelist_tail = NULL
                THEN freelist_head' = User(p) /\ node' = freed
                ELSE /\ node' = [freed EXCEPT ![freelist_tail].next = User(p)]
                     /\ UNCHANGED freelist_head
             /\ evicting' = p + 1
             /\ UNCHANGED <<setting, table, seen, inst, verdict>>
        ELSE AssertionFails

evict(p) ==
    IF user_mapping[p] # 0 THEN EvictBody(p)
    ELSE /\ evicting' = p + 1
         /\ UNCHANGED <<setting, table, lists, mem, seen, inst, verdict>>

Evict == evicting \in Pages /\ evict(evicting)

(* RVTEST_PASS calls with 1, RVTEST_FAIL with an odd number. *)
Finish(code) == evicting = MAX_TEST_PAGES /\ Terminate(code)

(* medeleg keeps all other exceptions, an illegal instruction too, with    *)
(* the machine mode, whose vector is wtf.                                  *)
wtf == Runs /\ inst.op = "illegal" /\ Terminate(841)

-----------------------------------------------------------------------------
Hart ==
    \/ Load \/ \E v \in 1 .. VERSIONS : Store(v)
    \/ PageFault
    \/ Ecall \/ Evict \/ \E code \in {1, 5} : Finish(code)
    \/ wtf
Test ==
    \E at, page \in setting.touched, op \in {"load", "store", "ecall", "illegal"} :
        Issue(op, at, page)
Translations == evicting = 0 /\ \E p \in setting.touched : Walk(p) \/ Drop(p)

Next == verdict = 0 /\ (Hart \/ Test \/ Translations)

Spec == Init /\ [][Next]_vars

(* The hart tries an instruction again and again until it is done. *)
FairSpec == Spec /\ WF_vars(verdict = 0 /\ Hart)

-----------------------------------------------------------------------------
(* Properties *)

(* What the test has written is what it finds: a page that was not touched *)
(* is where it was linked, another one in its frame, and the hart keeps no *)
(* translation to anything else.                                           *)
TestSeesItsPages ==
    evicting = 0 =>
        \A p \in Pages :
            /\ mem[IF user_llpt[p].V THEN user_llpt[p].ppn ELSE p] = seen[p]
            /\ p \in DOMAIN tlb /\ tlb[p].V => tlb[p].ppn = user_llpt[p].ppn

(* Each frame is mapped once or free once, so that there is one for every  *)
(* page.  The free ones are linked in their order from freelist_head on,   *)
(* up to freelist_tail, which is cleared when only one is left.            *)
FramesAreOwnedOnce ==
    evicting = 0 =>
        \E first \in 0 .. MAX_TEST_PAGES - 1 :
            LET free == first .. MAX_TEST_PAGES - 1
                last == MAX_TEST_PAGES - 1
                frames == {node[Boot(i)].addr : i \in free}
                owned == {user_mapping[p] : p \in Pages} \ {0}
            IN  /\ freelist_head = Boot(first)
                /\ \A i \in free : node[Boot(i)].next = IF i = last THEN NULL ELSE Boot(i + 1)
                /\ freelist_tail = IF first = last THEN NULL ELSE Boot(last)
                /\ frames \cap owned = {}
                /\ frames \cup owned = MAX_TEST_PAGES + 1 .. 2 * MAX_TEST_PAGES
                /\ \A i, j \in free : node[Boot(i)].addr = node[Boot(j)].addr => i = j
                /\ \A p, q \in Pages :
                      user_mapping[p] = user_mapping[q] /\ p # q => user_mapping[p] = 0
                /\ \A p \in Pages : user_llpt[p].ppn = user_mapping[p]

(* An assertion fails only for a test that leaves its pages: in the        *)
(* accesses of a good one no bit is missing when it is needed and no frame *)
(* runs out.                                                               *)
AssertionsHold == verdict = 3 => {inst.at, inst.page} \ Pages # {}

(* Every instruction gets its pages and bits in the end, and every test    *)
(* that calls the supervisor is answered.                                  *)
InstructionsEnd == inst # None ~> (inst = None \/ verdict # 0)

(* "This region of memory will be captured at the end of the test to act   *)
(* as a signature": when a test has passed, the memory of its pages holds  *)
(* what it wrote.                                                          *)
SignatureIsCaptured == verdict = 1 => \A p \in Pages : mem[p] = seen[p]
=============================================================================
