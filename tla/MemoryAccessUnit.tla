-------------------------- MODULE MemoryAccessUnit --------------------------
(***************************************************************************)
(* Virtual memory: the page-table walks of cpu/MemoryAccessUnit.cpp, the   *)
(* fetch of Processor::Fetch and the memory accesses the executor makes    *)
(* after MemoryAccessUnit::CheckTrap has let them pass.                    *)
(*                                                                         *)
(* A page table has PartSize entries, so a page number is a number in base *)
(* PartSize: digit l is the VPN or PPN field of level l. A memory word is  *)
(* what a page-table entry is made of, flags and a page number; every word *)
(* of memory may be read as one. The CSR state is an input: between two    *)
(* cycles it becomes any of CsrStates (see Hart for how it moves).         *)
(***************************************************************************)
EXTENDS Csr, Sequences, FiniteSets

CONSTANTS
    PartSize,   \* entries of a page table: 2^10 in Sv32, 2^9 in Sv39, Sv48
    VpnCount,   \* virtual pages
    Ram,        \* the physical pages behind which there is memory
    Words,      \* what software stores
    CsrStates,  \* privilege level, status and satp while software runs
    CrossPage   \* whether software makes accesses that straddle two pages

Flags == {"V", "R", "W", "E", "U", "A", "D"}
Slots == 0 .. PartSize - 1      \* the words of a page
Types == {"Instruction", "Load", "Store"}

(* AddressTranslationMode: the number of levels of Sv32, Sv39 and Sv48.    *)
Bare          == 0
Unimplemented == 5              \* Sv57, Sv64 and the reserved encodings
Modes         == {Bare, 2, 3, 4, Unimplemented}

Word     == [flags : SUBSET Flags, ppn : Nat]
CsrState == [priv : Levels, status : SUBSET StatusWriteMask,
             satp : [mode : Modes, ppn : Nat]]

ASSUME SizeAssumption == PartSize \in Nat \ {0, 1} /\ VpnCount \in Nat \ {0}
ASSUME RamAssumption == Ram \subseteq Nat /\ Words \subseteq Word
ASSUME CsrAssumption == CsrStates \subseteq CsrState /\ CsrStates # {}
ASSUME CrossAssumption == CrossPage \in BOOLEAN

VARIABLES
    running,    \* no RafiEmuException has been thrown
    csr,        \* the CSR state that m_pCsr shows
    mem,        \* the contents of the RAM
    events,     \* m_Events: the accesses of the current cycle
    trap        \* the type of access the last page fault reports

vars == <<running, csr, mem, events, trap>>

NoTrap == "None"
Zero   == [flags |-> {}, ppn |-> 0]

Init ==
    /\ running = TRUE
    /\ csr \in CsrStates
    /\ mem = [w \in Ram \X Slots |-> Zero]
    /\ events = <<>>
    /\ trap = NoTrap

-----------------------------------------------------------------------------
(* Privilege level and translation mode of an access.                      *)

EffectivePrivilegeLevel(type) ==
    IF MPRV \in csr.status /\ type # "Instruction"
    THEN GetMPP(csr.status) ELSE csr.priv

TranslationMode(type) ==
    IF EffectivePrivilegeLevel(type) = Machine THEN Bare ELSE csr.satp.mode

-----------------------------------------------------------------------------
(* Page-table entries.                                                     *)

(* The pages an entry of level l maps: PartSize to the power of l.         *)
Powers  == LET p == PartSize IN <<1, p, p * p, p * p * p, p * p * p * p>>
Span(l) == Powers[l + 1]

(* The field of level l of a page number.                                  *)
Part(n, l) == (n \div Span(l)) % PartSize

(* CheckTrapForEntry passes.                                               *)
IsValid(e) == "V" \in e.flags /\ ("R" \in e.flags \/ "W" \notin e.flags)

IsLeafEntry(e) == "R" \in e.flags \/ "E" \in e.flags

(* CheckTrapForLeafEntry passes.                                           *)
Permits(e, type) ==
    LET level == EffectivePrivilegeLevel(type) IN
    /\ level = Supervisor /\ "U" \in e.flags => SUM \in csr.status
    /\ level = User => "U" \in e.flags
    /\ type = "Instruction" => "E" \in e.flags
    /\ type = "Load" =>
          "R" \in e.flags \/ (MXR \in csr.status /\ "E" \in e.flags)
    /\ type = "Store" => "W" \in e.flags

UpdateEntryClean(m, loc, type) ==   \* defect: a store does not mark the page
    [m EXCEPT ![loc].flags = @ \cup {"A"}]

UpdateEntryWide(m, loc, type) ==    \* defect: the mask takes in W
    [m EXCEPT ![loc].flags =
        @ \cup {"A", "W"} \cup IF type = "Store" THEN {"D"} ELSE {}]

(* UpdateEntry marks the leaf accessed, and dirty when it is written.      *)
UpdateEntry(m, loc, type) ==
    [m EXCEPT ![loc].flags =
        @ \cup {"A"} \cup IF type = "Store" THEN {"D"} ELSE {}]

-----------------------------------------------------------------------------
(* The walk. A result is the table of the next level, the leaf found, a    *)
(* page fault, or the exception of a bus that has no memory there.         *)

Result(kind, page, loc, level) ==
    [kind |-> kind, page |-> page, loc |-> loc, level |-> level]

Visit(m, type, table, i, l) ==
    LET e == m[<<table, i>>] IN
    IF table \notin Ram THEN Result("throw", 0, <<0, 0>>, l)
    ELSE IF ~IsValid(e) THEN Result("fault", 0, <<0, 0>>, l)
    ELSE IF l > 0 /\ ~IsLeafEntry(e) THEN Result("table", e.ppn, <<0, 0>>, l)
    ELSE Result(IF Permits(e, type) THEN "leaf" ELSE "fault",
                e.ppn, <<table, i>>, l)

(* One level down, if the levels above have led to a table.                *)
Descend(m, type, index, l, up) ==
    IF l < csr.satp.mode /\ up.kind = "table"
    THEN Visit(m, type, up.page, index[l], l) ELSE up

Walk(m, type, index) ==
    LET top == Result("table", csr.satp.ppn, <<0, 0>>, csr.satp.mode)
        w3  == Descend(m, type, index, 3, top)
        w2  == Descend(m, type, index, 2, w3)
        w1  == Descend(m, type, index, 1, w2)
    IN  Descend(m, type, index, 0, w1)

(* The fields of the virtual address that index the tables. The last level *)
(* of CheckTrapSv48 uses VPN1 again; Translate uses VPN0.                  *)
Index(vpn) == [l \in 0 .. 3 |-> Part(vpn, l)]

CheckIndex(vpn) ==
    [l \in 0 .. 3 |-> IF csr.satp.mode = 4 /\ l = 0 THEN Part(vpn, 1)
                      ELSE Part(vpn, l)]

CheckAccessAnySize(m, type, vpn) ==   \* defect: superpages need no alignment
    CASE TranslationMode(type) = Bare -> "leaf"
      [] TranslationMode(type) = Unimplemented -> "throw"
      [] OTHER -> Walk(m, type, CheckIndex(vpn)).kind

(* CheckTrap: whether an access faults. Superpages must be aligned.        *)
CheckAccess(m, type, vpn) ==
    CASE TranslationMode(type) = Bare -> "leaf"
      [] TranslationMode(type) = Unimplemented -> "throw"
      [] OTHER ->
         LET r == Walk(m, type, CheckIndex(vpn)) IN
         IF r.kind = "leaf" /\ r.page % Span(r.level) # 0
         THEN "fault" ELSE r.kind

(* The page a leaf of level l maps vpn to. The physical address is cut to  *)
(* the width of the virtual one.                                           *)
LeafPage(ppn, vpn, l) ==
    (ppn - (ppn % Span(l)) + (vpn % Span(l))) % Span(csr.satp.mode)

(* Translate: the page, and memory with the leaf's A and D bits updated.   *)
Translate(m, type, vpn) ==
    CASE TranslationMode(type) = Bare ->
            [kind |-> "leaf", page |-> vpn, mem |-> m]
      [] TranslationMode(type) = Unimplemented ->
            [kind |-> "throw", page |-> 0, mem |-> m]
      [] OTHER ->
         LET r == Walk(m, type, Index(vpn)) IN
         IF r.kind = "leaf"
         THEN [kind |-> "leaf", page |-> LeafPage(r.page, vpn, r.level),
               mem |-> UpdateEntry(m, r.loc, type)]
         ELSE [kind |-> r.kind, page |-> 0, mem |-> m]

(* LoadX and StoreX ignore the trap Translate returns: without one the     *)
(* physical address they use is uninitialized.                             *)
PagesUsed(tr) == IF tr.kind = "leaf" THEN {tr.page} ELSE Ram

-----------------------------------------------------------------------------
(* The accesses of the instructions.                                       *)

(* Where an instruction accesses memory: a word of a virtual page, or the  *)
(* last bytes of the page and the first of the next one.                   *)
Accesses == {a \in [vpn : 0 .. VpnCount - 1, slot : Slots, cross : BOOLEAN] :
                a.cross => CrossPage /\ a.slot = PartSize - 1}

MakeEvent(type, a, page) ==
    [type |-> type, vpn |-> a.vpn, slot |-> a.slot, cross |-> a.cross,
     page |-> page]

(* The words an access touches: the physical address is translated once.   *)
Target(e) == {<<e.page, e.slot>>} \cup
                 IF e.cross THEN {<<e.page + 1, 0>>} ELSE {}

InRam(e) == Target(e) \subseteq DOMAIN mem

StoreTo(m, e, w) == [loc \in DOMAIN m |-> IF loc \in Target(e) THEN w ELSE m[loc]]

Done(m, evs) ==
    /\ mem' = m
    /\ events' = evs
    /\ trap' = NoTrap
    /\ UNCHANGED <<running, csr>>

PageFault(type, m, evs) ==
    /\ mem' = m
    /\ events' = evs
    /\ trap' = type
    /\ UNCHANGED <<running, csr>>

(* The exception ends the emulation; nothing reads the events any more.    *)
Throw(m) ==
    /\ running' = FALSE
    /\ mem' = m
    /\ events' = <<>>
    /\ trap' = NoTrap
    /\ UNCHANGED csr

(* A cycle makes the accesses of one instruction.                          *)
Ready == running /\ events = <<>> /\ trap = NoTrap

(* A load, load-reserved included: the check, then the access. Translate   *)
(* reads the tables the check has read, so the bus throws in the check or  *)
(* for the access itself.                                                  *)
Load(a) ==
    LET check == CheckAccess(mem, "Load", a.vpn)
        tr    == Translate(mem, "Load", a.vpn)
    IN
    /\ Ready
    /\ \/ check = "fault" /\ PageFault("Load", mem, <<>>)
       \/ check = "throw" /\ Throw(mem)
       \/ /\ check = "leaf"
          /\ \E page \in PagesUsed(tr) :
                LET e == MakeEvent("Load", a, page) IN
                \/ InRam(e) /\ Done(tr.mem, <<e>>)
                \/ ~InRam(e) /\ Throw(tr.mem)

(* A store, and a store-conditional that succeeds.                         *)
Store(a) ==
    LET check == CheckAccess(mem, "Store", a.vpn)
        tr    == Translate(mem, "Store", a.vpn)
    IN
    /\ Ready
    /\ \/ check = "fault" /\ PageFault("Store", mem, <<>>)
       \/ check = "throw" /\ Throw(mem)
       \/ /\ check = "leaf"
          /\ \E page \in PagesUsed(tr) :
                LET e == MakeEvent("Store", a, page) IN
                \/ InRam(e) /\ \E w \in Words : Done(StoreTo(tr.mem, e, w), <<e>>)
                \/ ~InRam(e) /\ Throw(tr.mem)

AmoLateCheck(a) ==               \* defect: the store is checked after the load
    LET check == CheckAccess(mem, "Load", a.vpn)
        load  == Translate(mem, "Load", a.vpn)
        store == Translate(load.mem, "Store", a.vpn)
        e     == MakeEvent("Load", a, load.page)
        f     == MakeEvent("Store", a, store.page)
    IN
    /\ Ready
    /\ \/ check = "fault" /\ PageFault("Load", mem, <<>>)
       \/ /\ check = "leaf"
          /\ InRam(e)
          /\ \/ store.kind = "fault" /\ PageFault("Store", load.mem, <<e>>)
             \/ store.kind = "leaf" /\ \E w \in Words :
                    Done(StoreTo(store.mem, f, w), <<e, f>>)

(* An atomic memory operation: both accesses are checked before the first. *)
Amo(a) ==
    LET check == CheckAccess(mem, "Load", a.vpn)
        again == CheckAccess(mem, "Store", a.vpn)
        load  == Translate(mem, "Load", a.vpn)
        store == Translate(load.mem, "Store", a.vpn)
    IN
    /\ Ready
    /\ \/ check = "fault" /\ PageFault("Load", mem, <<>>)
       \/ check = "throw" /\ Throw(mem)
       \/ check = "leaf" /\ again = "fault" /\ PageFault("Store", mem, <<>>)
       \/ /\ check = "leaf" /\ again = "leaf"
          /\ \E p \in PagesUsed(load), q \in PagesUsed(store) :
                LET e == MakeEvent("Load", a, p)
                    f == MakeEvent("Store", a, q)
                IN  \/ InRam(e) /\ InRam(f) /\ \E w \in Words :
                           Done(StoreTo(store.mem, f, w), <<e, f>>)
                    \/ ~(InRam(e) /\ InRam(f))
                       /\ Throw(IF InRam(e) THEN store.mem ELSE load.mem)

(* Fetch: a word within a page, or only the lower half of an instruction   *)
(* at the end of one. There is no check before Translate.                  *)
Fetch(vpn, slot) ==
    LET tr == Translate(mem, "Instruction", vpn)
        e  == MakeEvent("Instruction",
                        [vpn |-> vpn, slot |-> slot, cross |-> FALSE], tr.page)
    IN
    /\ Ready
    /\ \/ tr.kind = "fault" /\ PageFault("Instruction", mem, <<>>)
       \/ tr.kind = "throw" /\ Throw(mem)
       \/ tr.kind = "leaf" /\ InRam(e) /\ Done(tr.mem, <<e>>)
       \/ tr.kind = "leaf" /\ ~InRam(e) /\ Throw(tr.mem)

NextPageUnbounded(vpn) == vpn + 1   \* defect: no wrap at the end of the space

NextPage(vpn) == (vpn + 1) % VpnCount

(* Fetch of a 4-byte instruction at the last two bytes of a page: the      *)
(* halves are translated and read one after the other.                     *)
FetchSplit(vpn) ==
    LET low  == Translate(mem, "Instruction", vpn)
        high == Translate(low.mem, "Instruction", NextPage(vpn))
        e    == MakeEvent("Instruction",
                    [vpn |-> vpn, slot |-> PartSize - 1, cross |-> FALSE],
                    low.page)
        f    == MakeEvent("Instruction",
                    [vpn |-> NextPage(vpn), slot |-> 0, cross |-> FALSE],
                    high.page)
    IN
    /\ Ready
    /\ low.kind = "leaf" /\ InRam(e)
    /\ \/ high.kind = "fault" /\ PageFault("Instruction", low.mem, <<e>>)
       \/ high.kind = "leaf" /\ InRam(f) /\ Done(high.mem, <<e, f>>)
       \/ /\ high.kind = "throw" \/ (high.kind = "leaf" /\ ~InRam(f))
          /\ Throw(high.mem)

(* The next cycle: ClearEvent, and since the last access the hart may have *)
(* changed level, status or satp.                                          *)
ClearEvent ==
    /\ running
    /\ csr' \in CsrStates
    /\ events' = <<>>
    /\ trap' = NoTrap
    /\ UNCHANGED <<running, mem>>

Next ==
    \/ \E a \in Accesses : Load(a) \/ Store(a) \/ Amo(a)
    \/ \E vpn \in 0 .. VpnCount - 1, slot \in Slots : Fetch(vpn, slot)
    \/ \E vpn \in 0 .. VpnCount - 1 : FetchSplit(vpn)
    \/ ClearEvent

Spec == Init /\ [][Next]_vars

-----------------------------------------------------------------------------
(* Properties.                                                             *)

TypeOK ==
    /\ running \in BOOLEAN
    /\ csr \in CsrStates
    /\ mem \in [Ram \X Slots -> Word]
    /\ \A i \in DOMAIN events :
          /\ events[i].type \in Types
          /\ events[i].vpn \in 0 .. VpnCount - 1
          /\ events[i].slot \in Slots
          /\ events[i].page \in Ram
    /\ Len(events) <= 2
    /\ trap \in Types \cup {NoTrap}

Pointer(e) == IsValid(e) /\ ~IsLeafEntry(e)

(* The types of access an entry grants the level that makes them.          *)
Granted(e) ==
    LET open(type) == CASE EffectivePrivilegeLevel(type) = User ->
                               "U" \in e.flags
                        [] EffectivePrivilegeLevel(type) = Supervisor ->
                               "U" \notin e.flags \/ SUM \in csr.status
                        [] OTHER -> TRUE
        needs  == [Instruction |-> {"E"}, Store |-> {"W"},
                   Load |-> IF MXR \in csr.status THEN {"R", "E"} ELSE {"R"}]
    IN  {type \in Types : open(type) /\ needs[type] \cap e.flags # {}}

(* The leaves of a virtual page, without walking: an entry of level l when *)
(* tables lead from satp through the fields of vpn to it.                  *)
LeavesOf(m, vpn, l) ==
    {loc \in Ram \X {Part(vpn, l)} :
        /\ IsValid(m[loc]) /\ IsLeafEntry(m[loc])
        /\ \E table \in [l .. csr.satp.mode - 1 -> Ram] :
              /\ table[csr.satp.mode - 1] = csr.satp.ppn
              /\ table[l] = loc[1]
              /\ \A k \in l + 1 .. csr.satp.mode - 1 :
                    LET e == m[<<table[k], Part(vpn, k)>>] IN
                    Pointer(e) /\ e.ppn = table[k - 1]}

(* The page of vpn under leaf e of level l: what is above level l of the   *)
(* leaf's page number, what is below it of vpn.                            *)
PageUnder(e, vpn, l) ==
    CHOOSE page \in 0 .. Span(csr.satp.mode) - 1 :
        /\ page % Span(l) = vpn % Span(l)
        /\ page \div Span(l) = (e.ppn \div Span(l)) % Span(csr.satp.mode - l)

(* What the tables say of a virtual page: the accesses they grant and the  *)
(* physical page these go to. Loads and stores may use a superpage only if *)
(* it is aligned.                                                          *)
Meaning(m, vpn) ==
    UNION {UNION {{<<type, PageUnder(m[loc], vpn, l)>> :
                      type \in {t \in Granted(m[loc]) :
                          t = "Instruction" \/ m[loc].ppn % Span(l) = 0}} :
                  loc \in LeavesOf(m, vpn, l)} :
           l \in 0 .. csr.satp.mode - 1}

Paged(type) == TranslationMode(type) \in {2, 3, 4}

(* The virtual and physical page of every byte an access touches.          *)
PagesOf(e) == {<<e.vpn, e.page>>} \cup
                  IF e.cross THEN {<<NextPage(e.vpn), e.page + 1>>} ELSE {}

(* Every access that reaches memory goes to the physical page to which the *)
(* tables map its virtual page with that permission at the effective level:*)
(* CheckTrap and Translate, two copies of the walk, agree, and no load or  *)
(* store uses an address Translate has not set.                            *)
AccessesMapped ==
    [][\A i \in DOMAIN events' :
          LET e == events'[i] IN
          Paged(e.type) =>
              \A vp \in PagesOf(e) :
                 <<e.type, vp[2]>> \in Meaning(mem, vp[1])]_vars

(* Pointers lead from satp through tables of the levels above l to one of  *)
(* level l, for some virtual page.                                         *)
Leads(m, table, l) ==
    /\ table[csr.satp.mode - 1] = csr.satp.ppn
    /\ \A k \in l + 1 .. csr.satp.mode - 1 : \E i \in Slots :
          LET e == m[<<table[k], i>>] IN Pointer(e) /\ e.ppn = table[k - 1]

(* The tables in memory that lead from satp to the leaves.                 *)
Tables(m) ==
    {t \in Ram : \E l \in 0 .. csr.satp.mode - 1 :
                 \E table \in [l .. csr.satp.mode - 1 -> Ram] :
                    Leads(m, table, l) /\ table[l] = t}

(* Software below the machine level whose mapping gives it no writable     *)
(* view of the tables never changes what any address means to it, whatever *)
(* it loads, stores and fetches; the A and D bits the accesses set in the  *)
(* tables do not count.                                                    *)
AddressSpaceStable ==
    [][/\ mem' # mem
       /\ csr' = csr
       /\ Paged("Store")
       /\ LET views == {"Store"} \X Tables(mem) IN
          \A vpn \in 0 .. VpnCount - 1 : views \cap Meaning(mem, vpn) = {}
       => \A vpn \in 0 .. VpnCount - 1 :
             Meaning(mem', vpn) = Meaning(mem, vpn)]_vars

(* A page that was used is marked so in its leaf: A by any access, D by a  *)
(* store, unless the instruction itself has overwritten the leaf. Software *)
(* that evicts pages relies on it (UpdateEntry).                           *)
UseIsMarked ==
    [][\A i \in DOMAIN events' :
          LET e == events'[i] IN
          Paged(e.type) =>
              \A l \in 0 .. csr.satp.mode - 1 :
              \A loc \in LeavesOf(mem, e.vpn, l) :
                 e.type \in Granted(mem[loc]) =>
                     \/ {"A"} \cup (IF e.type = "Store" THEN {"D"} ELSE {})
                            \subseteq mem'[loc].flags
                     \/ \E j \in DOMAIN events' :
                           /\ events'[j].type = "Store"
                           /\ loc \in Target(events'[j])]_vars

(* A page fault is precise: an instruction that faults on its data has     *)
(* left memory as it was, so it can be restarted; a fetch that faults on   *)
(* its second half has at most marked the page of the first one.           *)
FaultIsPrecise ==
    [][trap' # NoTrap =>
          /\ trap' # "Instruction" => mem' = mem /\ events' = <<>>
          /\ \A loc \in DOMAIN mem :
                /\ mem'[loc].flags \ {"A"} = mem[loc].flags \ {"A"}
                /\ mem'[loc].ppn = mem[loc].ppn]_vars
=============================================================================
