----------------------- MODULE MemoryAccessUnitProofs -----------------------
(***************************************************************************)
(* Proofs about MemoryAccessUnit, for every number of entries of a table,  *)
(* every memory, every set of words software stores and every set of CSR   *)
(* states it runs in.                                                      *)
(***************************************************************************)
EXTENDS MemoryAccessUnit, TLAPS

Memory == [Ram \X Slots -> Word]

(* What the accesses of an instruction set in a leaf.                      *)
Bits(type) == {"A"} \cup IF type = "Store" THEN {"D"} ELSE {}

(* Memory n is m with bits of set B added here and there.                  *)
OnlyMarked(m, n, B) ==
    \A loc \in Ram \X Slots :
        /\ n[loc].ppn = m[loc].ppn
        /\ m[loc].flags \subseteq n[loc].flags
        /\ n[loc].flags \subseteq m[loc].flags \cup B

-----------------------------------------------------------------------------
(* The effect of UpdateEntry.                                              *)

\* UpdateEntry adds A, and D for a store, to one word and to no other.
LEMMA EntryUpdated ==
    ASSUME NEW m \in Memory, NEW loc, NEW type \in Types
    PROVE  /\ UpdateEntry(m, loc, type) \in Memory
           /\ OnlyMarked(m, UpdateEntry(m, loc, type), Bits(type))
           /\ loc \in Ram \X Slots =>
                 Bits(type) \subseteq UpdateEntry(m, loc, type)[loc].flags
  <1> DEFINE D == Ram \X Slots
             n == UpdateEntry(m, loc, type)
  <1>1. Bits(type) \subseteq Flags
    BY DEF Bits, Flags
  <1>2. n = [m EXCEPT ![loc].flags = @ \cup Bits(type)]
    BY Zenon DEF UpdateEntry, Bits
  <1> HIDE DEF n
  <1>3. \A x \in D : /\ n[x] = IF x = loc
                               THEN [m[x] EXCEPT !.flags = @ \cup Bits(type)]
                               ELSE m[x]
                     /\ m[x] \in Word
    BY <1>2 DEF Memory
  <1>4. ASSUME NEW x \in D
        PROVE  /\ n[x] \in Word
               /\ n[x].ppn = m[x].ppn
               /\ n[x].flags = IF x = loc THEN m[x].flags \cup Bits(type)
                               ELSE m[x].flags
    <2>1. PICK f \in SUBSET Flags, p \in Nat : m[x] = [flags |-> f, ppn |-> p]
      BY <1>3 DEF Word
    <2>2. CASE x = loc
      <3>1. n[x] = [flags |-> f \cup Bits(type), ppn |-> p]
        BY <1>3, <2>1, <2>2
      <3>2. f \cup Bits(type) \in SUBSET Flags
        BY <1>1
      <3> QED BY <2>1, <2>2, <3>1, <3>2 DEF Word
    <2>3. CASE x # loc
      BY <1>3, <2>1, <2>3
    <2> QED BY <2>2, <2>3
  <1>5. n \in Memory
    BY <1>2, <1>4 DEF Memory
  <1>6. OnlyMarked(m, n, Bits(type))
    BY <1>4 DEF OnlyMarked
  <1>7. loc \in D => Bits(type) \subseteq n[loc].flags
    BY <1>4
  <1> QED BY <1>5, <1>6, <1>7 DEF n

\* What Translate leaves in memory, whatever it yields.
LEMMA Translated ==
    ASSUME NEW m \in Memory, NEW type \in Types, NEW vpn
    PROVE  /\ Translate(m, type, vpn).mem \in Memory
           /\ OnlyMarked(m, Translate(m, type, vpn).mem, Bits(type))
  <1>1. OnlyMarked(m, m, Bits(type))
    BY DEF OnlyMarked
  <1>2. \/ Translate(m, type, vpn).mem = m
        \/ \E loc : Translate(m, type, vpn).mem = UpdateEntry(m, loc, type)
    BY DEF Translate
  <1> QED BY <1>1, <1>2, EntryUpdated

\* A store writes words of the program's, an access that is in the RAM has a
\* page there.
LEMMA Stored ==
    ASSUME NEW m \in Memory, NEW e, NEW w \in Words
    PROVE  StoreTo(m, e, w) \in Memory
  BY RamAssumption DEF StoreTo, Memory

Event == [type : Types, vpn : 0 .. VpnCount - 1, slot : Slots, cross : BOOLEAN,
          page : Ram]

LEMMA EventMade ==
    ASSUME mem \in Memory, NEW type \in Types, NEW page,
           NEW a \in [vpn : 0 .. VpnCount - 1, slot : Slots, cross : BOOLEAN],
           InRam(MakeEvent(type, a, page))
    PROVE  MakeEvent(type, a, page) \in Event
  <1>1. <<page, a.slot>> \in DOMAIN mem
    BY DEF InRam, Target, MakeEvent
  <1>2. page \in Ram
    BY <1>1 DEF Memory
  <1> QED BY <1>2 DEF MakeEvent, Event

-----------------------------------------------------------------------------
(* Types.                                                                  *)

Lists == {<<>>} \cup {<<e>> : e \in Event} \cup {<<e, f>> : e \in Event, f \in Event}

(* How every access ends.                                                  *)
Outcome ==
    /\ csr' = csr
    /\ running' \in BOOLEAN
    /\ mem' \in Memory
    /\ events' \in Lists
    /\ trap' \in Types \cup {NoTrap}

LEMMA Ends ==
    ASSUME running \in BOOLEAN, NEW m \in Memory, NEW evs \in Lists
    PROVE  /\ \A type \in Types : PageFault(type, m, evs) => Outcome
           /\ Done(m, evs) => Outcome
           /\ Throw(m) => Outcome
  <1>1. \A type \in Types : PageFault(type, m, evs) => Outcome
    BY DEF PageFault, Outcome
  <1>2. <<>> \in Lists
    BY DEF Lists
  <1> QED BY <1>1, <1>2 DEF Done, Throw, Outcome

LEMMA LoadOutcome ==
    ASSUME TypeOK, NEW a \in Accesses, Load(a) PROVE Outcome
  <1> DEFINE tr == Translate(mem, "Load", a.vpn)
  <1>1. mem \in Memory /\ running \in BOOLEAN
    BY DEF TypeOK, Memory
  <1>2. tr.mem \in Memory
    BY <1>1, Translated DEF Types
  <1>3. a \in [vpn : 0 .. VpnCount - 1, slot : Slots, cross : BOOLEAN]
    BY DEF Accesses
  <1> HIDE DEF tr
  <1>4. CASE PageFault("Load", mem, <<>>)
    BY <1>1, <1>4, Ends DEF Lists, Types
  <1>5. CASE Throw(mem) \/ Throw(tr.mem)
    BY <1>1, <1>2, <1>5, Ends DEF Lists
  <1>6. ASSUME NEW page, InRam(MakeEvent("Load", a, page)),
               Done(tr.mem, <<MakeEvent("Load", a, page)>>)
        PROVE  Outcome
    <2>1. MakeEvent("Load", a, page) \in Event
      BY <1>1, <1>3, <1>6, EventMade DEF Types
    <2> QED BY <1>1, <1>2, <1>6, <2>1, Ends DEF Lists
  <1> QED BY <1>4, <1>5, <1>6 DEF Load, tr

LEMMA StoreOutcome ==
    ASSUME TypeOK, NEW a \in Accesses, Store(a) PROVE Outcome
  <1> DEFINE tr == Translate(mem, "Store", a.vpn)
  <1>1. mem \in Memory /\ running \in BOOLEAN
    BY DEF TypeOK, Memory
  <1>2. tr.mem \in Memory
    BY <1>1, Translated DEF Types
  <1>3. a \in [vpn : 0 .. VpnCount - 1, slot : Slots, cross : BOOLEAN]
    BY DEF Accesses
  <1> HIDE DEF tr
  <1>4. CASE PageFault("Store", mem, <<>>)
    BY <1>1, <1>4, Ends DEF Lists, Types
  <1>5. CASE Throw(mem) \/ Throw(tr.mem)
    BY <1>1, <1>2, <1>5, Ends DEF Lists
  <1>6. ASSUME NEW page, InRam(MakeEvent("Store", a, page)), NEW w \in Words,
               Done(StoreTo(tr.mem, MakeEvent("Store", a, page), w),
                    <<MakeEvent("Store", a, page)>>)
        PROVE  Outcome
    <2>1. MakeEvent("Store", a, page) \in Event
      BY <1>1, <1>3, <1>6, EventMade DEF Types
    <2>2. StoreTo(tr.mem, MakeEvent("Store", a, page), w) \in Memory
      BY <1>2, Stored
    <2> QED BY <1>1, <1>6, <2>1, <2>2, Ends DEF Lists
  <1> QED BY <1>4, <1>5, <1>6 DEF Store, tr

LEMMA AmoOutcome ==
    ASSUME TypeOK, NEW a \in Accesses, Amo(a) PROVE Outcome
  <1> DEFINE load  == Translate(mem, "Load", a.vpn)
             store == Translate(load.mem, "Store", a.vpn)
  <1>1. mem \in Memory /\ running \in BOOLEAN
    BY DEF TypeOK, Memory
  <1>2. load.mem \in Memory
    BY <1>1, Translated DEF Types
  <1> HIDE DEF load
  <1>3. store.mem \in Memory
    BY <1>2, Translated DEF Types
  <1>4. a \in [vpn : 0 .. VpnCount - 1, slot : Slots, cross : BOOLEAN]
    BY DEF Accesses
  <1> HIDE DEF store
  <1>5. CASE PageFault("Load", mem, <<>>) \/ PageFault("Store", mem, <<>>)
    BY <1>1, <1>5, Ends DEF Lists, Types
  <1>6. ASSUME NEW m \in Memory, Throw(m) PROVE Outcome
    BY <1>1, <1>6, Ends DEF Lists
  <1>7. ASSUME NEW p, InRam(MakeEvent("Load", a, p)),
               NEW q, InRam(MakeEvent("Store", a, q)), NEW w \in Words,
               Done(StoreTo(store.mem, MakeEvent("Store", a, q), w),
                    <<MakeEvent("Load", a, p), MakeEvent("Store", a, q)>>)
        PROVE  Outcome
    <2>1. /\ MakeEvent("Load", a, p) \in Event
          /\ MakeEvent("Store", a, q) \in Event
      BY <1>1, <1>4, <1>7, EventMade DEF Types
    <2>2. StoreTo(store.mem, MakeEvent("Store", a, q), w) \in Memory
      BY <1>3, Stored
    <2> QED BY <1>1, <1>7, <2>1, <2>2, Ends DEF Lists
  <1>8. \A x, y : (IF x THEN store.mem ELSE load.mem) \in Memory
    BY <1>2, <1>3
  <1> QED BY <1>1, <1>5, <1>6, <1>7, <1>8 DEF Amo, load, store

LEMMA NextPageType == \A vpn \in 0 .. VpnCount - 1 : NextPage(vpn) \in 0 .. VpnCount - 1
  BY SizeAssumption DEF NextPage

LEMMA FetchOutcome ==
    ASSUME TypeOK, NEW vpn \in 0 .. VpnCount - 1, NEW slot \in Slots, Fetch(vpn, slot)
    PROVE  Outcome
  <1> DEFINE tr == Translate(mem, "Instruction", vpn)
             at == [vpn |-> vpn, slot |-> slot, cross |-> FALSE]
             e  == MakeEvent("Instruction", at, tr.page)
  <1>1. mem \in Memory /\ running \in BOOLEAN
    BY DEF TypeOK, Memory
  <1>2. tr.mem \in Memory
    BY <1>1, Translated DEF Types
  <1>3. InRam(e) => e \in Event
    BY <1>1, EventMade DEF Types
  <1>4. \/ PageFault("Instruction", mem, <<>>)
        \/ Throw(mem) \/ Throw(tr.mem)
        \/ InRam(e) /\ Done(tr.mem, <<e>>)
    BY DEF Fetch
  <1> HIDE DEF tr, e
  <1>5. CASE PageFault("Instruction", mem, <<>>)
    BY <1>1, <1>5, Ends DEF Lists, Types
  <1>6. CASE Throw(mem) \/ Throw(tr.mem)
    BY <1>1, <1>2, <1>6, Ends DEF Lists
  <1>7. CASE InRam(e) /\ Done(tr.mem, <<e>>)
    BY <1>1, <1>2, <1>3, <1>7, Ends DEF Lists
  <1> QED BY <1>4, <1>5, <1>6, <1>7

LEMMA FetchSplitOutcome ==
    ASSUME TypeOK, NEW vpn \in 0 .. VpnCount - 1, FetchSplit(vpn)
    PROVE  Outcome
  <1> DEFINE low  == Translate(mem, "Instruction", vpn)
             high == Translate(low.mem, "Instruction", NextPage(vpn))
             at   == [vpn |-> vpn, slot |-> PartSize - 1, cross |-> FALSE]
             next == [vpn |-> NextPage(vpn), slot |-> 0, cross |-> FALSE]
             e    == MakeEvent("Instruction", at, low.page)
             f    == MakeEvent("Instruction", next, high.page)
  <1>1. mem \in Memory /\ running \in BOOLEAN
    BY DEF TypeOK, Memory
  <1>2. low.mem \in Memory
    BY <1>1, Translated DEF Types
  <1>3. high.mem \in Memory
    BY <1>2, Translated DEF Types
  <1>4. PartSize - 1 \in Slots /\ 0 \in Slots
    BY SizeAssumption DEF Slots
  <1>5. (InRam(e) => e \in Event) /\ (InRam(f) => f \in Event)
    BY <1>1, <1>4, NextPageType, EventMade DEF Types
  <1>6. InRam(e) /\ \/ PageFault("Instruction", low.mem, <<e>>)
                    \/ InRam(f) /\ Done(high.mem, <<e, f>>)
                    \/ Throw(high.mem)
    BY DEF FetchSplit
  <1> HIDE DEF low, high, e, f
  <1>7. CASE PageFault("Instruction", low.mem, <<e>>)
    BY <1>1, <1>2, <1>5, <1>6, <1>7, Ends DEF Lists, Types
  <1>8. CASE InRam(f) /\ Done(high.mem, <<e, f>>)
    BY <1>1, <1>3, <1>5, <1>6, <1>8, Ends DEF Lists
  <1>9. CASE Throw(high.mem)
    BY <1>1, <1>3, <1>9, Ends DEF Lists
  <1> QED BY <1>6, <1>7, <1>8, <1>9

LEMMA ListTypes ==
    ASSUME NEW evs \in Lists
    PROVE  /\ \A i \in DOMAIN evs : evs[i] \in Event
           /\ Len(evs) <= 2
  <1>1. CASE evs = <<>>
    BY <1>1
  <1>2. ASSUME NEW e \in Event, evs = <<e>>
        PROVE  (\A i \in DOMAIN evs : evs[i] \in Event) /\ Len(evs) <= 2
    BY <1>2
  <1>3. ASSUME NEW e \in Event, NEW f \in Event, evs = <<e, f>>
        PROVE  (\A i \in DOMAIN evs : evs[i] \in Event) /\ Len(evs) <= 2
    BY <1>3
  <1> QED BY <1>1, <1>2, <1>3, Ends DEF Lists

LEMMA NextOutcome ==
    ASSUME TypeOK, Next
    PROVE  Outcome \/ ClearEvent
  BY LoadOutcome, StoreOutcome, AmoOutcome, FetchOutcome, FetchSplitOutcome DEF Next

\* The tables stay tables and every access event names a page of the RAM.
THEOREM TypeCorrect == Spec => []TypeOK
  <1>1. Init => TypeOK
    BY DEF Init, TypeOK, Word, Zero, Flags
  <1>2. TypeOK /\ [Next]_vars => TypeOK'
    <2> SUFFICES ASSUME TypeOK, [Next]_vars PROVE TypeOK'
      OBVIOUS
    <2>1. CASE Outcome
      <3>1. (\A i \in DOMAIN events' : events'[i] \in Event) /\ Len(events') <= 2
        BY <2>1, ListTypes DEF Outcome
      <3> QED BY <2>1, <3>1 DEF Outcome, TypeOK, Event, Memory
    <2>2. CASE ClearEvent
      BY <2>2 DEF ClearEvent, TypeOK
    <2>3. CASE UNCHANGED vars
      BY <2>3 DEF vars, TypeOK
    <2> QED BY <2>1, <2>2, <2>3, NextOutcome
  <1> QED BY <1>1, <1>2, PTL DEF Spec

-----------------------------------------------------------------------------
(* Precise faults.                                                         *)

Precise ==
    trap' # NoTrap =>
        /\ trap' # "Instruction" => mem' = mem /\ events' = <<>>
        /\ \A loc \in DOMAIN mem :
              /\ mem'[loc].flags \ {"A"} = mem[loc].flags \ {"A"}
              /\ mem'[loc].ppn = mem[loc].ppn

LEMMA FaultSteps ==
    ASSUME NEW m, NEW evs
    PROVE  /\ Done(m, evs) \/ Throw(m) => Precise
           /\ \A type : PageFault(type, mem, <<>>) => Precise
  BY DEF Done, Throw, PageFault, Precise

\* Only the second half of a fetch faults after memory was marked.
THEOREM FaultsPrecise == Spec => FaultIsPrecise
  <1>1. TypeOK /\ [Next]_vars => [Precise]_vars
    <2> SUFFICES ASSUME TypeOK, Next PROVE Precise
      OBVIOUS
    <2>1. ASSUME NEW a \in Accesses, Load(a) \/ Store(a) \/ Amo(a) PROVE Precise
      BY <2>1, FaultSteps DEF Load, Store, Amo
    <2>2. ASSUME NEW vpn, NEW slot, Fetch(vpn, slot) PROVE Precise
      BY <2>2, FaultSteps DEF Fetch
    <2>3. ASSUME NEW vpn, FetchSplit(vpn) PROVE Precise
      <3> DEFINE low == Translate(mem, "Instruction", vpn)
      <3>1. OnlyMarked(mem, low.mem, {"A"})
        BY Translated DEF TypeOK, Memory, Types, Bits
      <3> HIDE DEF low
      <3>2. ASSUME NEW evs, PageFault("Instruction", low.mem, evs) PROVE Precise
        <4>1. \A loc \in Ram \X Slots :
                 /\ low.mem[loc].flags \ {"A"} = mem[loc].flags \ {"A"}
                 /\ low.mem[loc].ppn = mem[loc].ppn
          BY <3>1 DEF OnlyMarked
        <4> QED BY <3>2, <4>1 DEF PageFault, Precise, TypeOK
      <3> QED BY <2>3, <3>2, FaultSteps DEF FetchSplit, low
    <2>4. CASE ClearEvent
      BY <2>4 DEF ClearEvent, Precise
    <2> QED BY <2>1, <2>2, <2>3, <2>4 DEF Next
  <1> QED BY <1>1, TypeCorrect, PTL DEF Spec, FaultIsPrecise, Precise

-----------------------------------------------------------------------------
(* The walk.                                                               *)

LEMMA Division ==
    ASSUME NEW n \in Nat, NEW p \in Nat \ {0}
    PROVE  n \div p \in Nat /\ n % p \in 0 .. p - 1
  OBVIOUS

LEMMA SpanType == \A l \in 0 .. 4 : Span(l) \in Nat \ {0}
  <1>1. Span(0) = 1 /\ Span(1) = PartSize /\ Span(2) = PartSize * PartSize
        /\ Span(3) = PartSize * PartSize * PartSize
        /\ Span(4) = PartSize * PartSize * PartSize * PartSize
    BY DEF Span, Powers
  <1>2. \A x, y \in Nat \ {0} : x * y \in Nat \ {0}
    OBVIOUS
  <1> QED BY <1>1, <1>2, SizeAssumption

LEMMA PartType == \A n \in Nat, l \in 0 .. 3 : Part(n, l) \in Slots
  <1> TAKE n \in Nat, l \in 0 .. 3
  <1>1. Span(l) \in Nat \ {0} /\ PartSize \in Nat \ {0}
    BY SpanType, SizeAssumption
  <1>2. n \div Span(l) \in Nat
    BY <1>1, Division
  <1> QED BY <1>1, <1>2, Division DEF Part, Slots

Depth == csr.satp.mode

LEMMA CsrType == ASSUME csr \in CsrStates
                 PROVE  csr.satp.ppn \in Nat /\ Depth \in Modes
  BY CsrAssumption DEF CsrState, Depth

(* The walk as far as the levels above k have led.                         *)
Walked(m, type, index, k) ==
    LET top == Result("table", csr.satp.ppn, <<0, 0>>, csr.satp.mode)
        w3  == Descend(m, type, index, 3, top)
        w2  == Descend(m, type, index, 2, w3)
        w1  == Descend(m, type, index, 1, w2)
    IN  CASE k = 4 -> top
          [] k = 3 -> w3
          [] k = 2 -> w2
          [] k = 1 -> w1
          [] k = 0 -> Descend(m, type, index, 0, w1)

LEMMA WalkedSteps ==
    ASSUME NEW m, NEW type, NEW index
    PROVE  /\ Walked(m, type, index, 4)
                 = Result("table", csr.satp.ppn, <<0, 0>>, csr.satp.mode)
           /\ \A k \in 0 .. 3 : Walked(m, type, index, k)
                 = Descend(m, type, index, k, Walked(m, type, index, k + 1))
           /\ Walk(m, type, index) = Walked(m, type, index, 0)
  BY DEF Walked, Walk

(* Tables lead from satp through the fields of vpn to one of level l.      *)
Path(m, vpn, table, l) ==
    /\ table \in [l .. Depth - 1 -> Ram]
    /\ table[Depth - 1] = csr.satp.ppn
    /\ \A k \in l + 1 .. Depth - 1 :
          /\ Pointer(m[<<table[k], Part(vpn, k)>>])
          /\ m[<<table[k], Part(vpn, k)>>].ppn = table[k - 1]

LEMMA LeavesHavePaths ==
    ASSUME NEW m, NEW vpn, NEW l, NEW loc
    PROVE  loc \in LeavesOf(m, vpn, l) <=>
              /\ loc \in Ram \X {Part(vpn, l)}
              /\ IsValid(m[loc]) /\ IsLeafEntry(m[loc])
              /\ \E table : Path(m, vpn, table, l) /\ table[l] = loc[1]
  BY DEF LeavesOf, Path, Depth

\* Where tables lead to a leaf, the walk ends there.
LEMMA WalkFinds ==
    ASSUME csr \in CsrStates, Depth \in {2, 3, 4},
           NEW m, NEW type, NEW vpn \in Nat, NEW l \in 0 .. Depth - 1,
           NEW loc \in LeavesOf(m, vpn, l)
    PROVE  Walk(m, type, Index(vpn))
              = Result(IF Permits(m[loc], type) THEN "leaf" ELSE "fault",
                       m[loc].ppn, loc, l)
  <1> DEFINE W(k) == Walked(m, type, Index(vpn), k)
             top  == Result("table", csr.satp.ppn, <<0, 0>>, csr.satp.mode)
             at(k) == IF k < Depth THEN k - 1 ELSE Depth - 1
             end  == Result(IF Permits(m[loc], type) THEN "leaf" ELSE "fault",
                            m[loc].ppn, loc, l)
  <1>1. PICK table : Path(m, vpn, table, l) /\ table[l] = loc[1]
    BY LeavesHavePaths
  <1>2. /\ loc = <<table[l], Part(vpn, l)>> /\ loc[1] \in Ram
        /\ IsValid(m[loc]) /\ IsLeafEntry(m[loc])
    BY <1>1, LeavesHavePaths
  <1>3. /\ W(4) = top
        /\ \A k \in 0 .. 3 : W(k) = Descend(m, type, Index(vpn), k, W(k + 1))
        /\ Walk(m, type, Index(vpn)) = W(0)
    BY WalkedSteps
  <1>4. \A k \in 0 .. 3 : Index(vpn)[k] = Part(vpn, k)
    BY DEF Index
  <1> HIDE DEF W
  <1> DEFINE Good(k) == W(k).kind = "table" /\ W(k).page = table[at(k)]
  <1>5. Good(4)
    BY <1>1, <1>3 DEF Result, Path, Depth
  <1>6. ASSUME NEW k \in l + 1 .. 3, Good(k + 1) PROVE Good(k)
    <2>1. W(k) = Descend(m, type, Index(vpn), k, W(k + 1))
      BY <1>3
    <2>2. CASE k >= Depth
      BY <1>6, <2>1, <2>2 DEF Descend, Depth
    <2>3. CASE k < Depth
      <3>1. W(k + 1).page = table[k]
        BY <1>6, <2>3
      <3>2. W(k) = Visit(m, type, table[k], Part(vpn, k), k)
        BY <1>4, <1>6, <2>1, <2>3, <3>1 DEF Descend, Depth
      <3>3. /\ table[k] \in Ram /\ Pointer(m[<<table[k], Part(vpn, k)>>])
            /\ m[<<table[k], Part(vpn, k)>>].ppn = table[k - 1]
        BY <1>1, <2>3 DEF Path
      <3>4. W(k) = Result("table", table[k - 1], <<0, 0>>, k)
        BY <3>2, <3>3 DEF Visit, Pointer
      <3> QED BY <2>3, <3>4 DEF Result
    <2> QED BY <2>2, <2>3
  <1>7. Good(l + 1)
    <2> HIDE DEF Good
    <2>1. l \in {0, 1, 2, 3}
      OBVIOUS
    <2> QED BY <1>5, <1>6, <2>1
  <1>8. W(l) = end
    <2>1. W(l) = Descend(m, type, Index(vpn), l, W(l + 1))
      BY <1>3
    <2>2. W(l + 1).page = table[l]
      BY <1>7
    <2>3. W(l) = Visit(m, type, table[l], Part(vpn, l), l)
      BY <1>4, <1>7, <2>1, <2>2 DEF Descend, Depth
    <2> QED BY <1>2, <2>3 DEF Visit
  <1>9. end.kind # "table"
    BY DEF Result
  <1>10. ASSUME NEW k \in 0 .. 3, W(k + 1) = end PROVE W(k) = end
    BY <1>3, <1>9, <1>10 DEF Descend
  <1>11. W(0) = end
    <2> HIDE DEF end
    <2>1. l \in {0, 1, 2, 3}
      OBVIOUS
    <2> QED BY <1>8, <1>10, <2>1
  <1> QED BY <1>3, <1>11

-----------------------------------------------------------------------------
(* Marks mean nothing to a walk.                                           *)

LEMMA MarkedEntry ==
    ASSUME NEW e, NEW f, NEW type \in Types,
           f.ppn = e.ppn, e.flags \subseteq f.flags, f.flags \subseteq e.flags \cup {"A", "D"}
    PROVE  /\ IsValid(f) <=> IsValid(e)
           /\ IsLeafEntry(f) <=> IsLeafEntry(e)
           /\ Permits(f, type) <=> Permits(e, type)
           /\ Granted(f) = Granted(e)
  <1>1. \A x \in {"V", "R", "W", "E", "U"} : x \in f.flags <=> x \in e.flags
    OBVIOUS
  <1>2. IsValid(f) <=> IsValid(e)
    BY <1>1 DEF IsValid
  <1>3. IsLeafEntry(f) <=> IsLeafEntry(e)
    BY <1>1 DEF IsLeafEntry
  <1>4. Permits(f, type) <=> Permits(e, type)
    BY <1>1 DEF Permits
  <1>5. Granted(f) = Granted(e)
    <2>1. \A S \in SUBSET {"V", "R", "W", "E", "U"} :
             S \cap f.flags = S \cap e.flags
      BY <1>1
    <2> QED BY <1>1, <2>1 DEF Granted, Types
  <1> QED BY <1>2, <1>3, <1>4, <1>5

LEMMA MarkedLeaves ==
    ASSUME csr \in CsrStates, Depth \in {2, 3, 4},
           NEW m, NEW n, OnlyMarked(m, n, {"A", "D"}),
           NEW vpn \in Nat, NEW l \in 0 .. Depth - 1
    PROVE  LeavesOf(n, vpn, l) = LeavesOf(m, vpn, l)
  <1>1. \A loc \in Ram \X Slots : /\ IsValid(n[loc]) <=> IsValid(m[loc])
                                  /\ IsLeafEntry(n[loc]) <=> IsLeafEntry(m[loc])
                                  /\ n[loc].ppn = m[loc].ppn
    <2> TAKE loc \in Ram \X Slots
    <2>1. /\ n[loc].ppn = m[loc].ppn
          /\ m[loc].flags \subseteq n[loc].flags
          /\ n[loc].flags \subseteq m[loc].flags \cup {"A", "D"}
      BY DEF OnlyMarked
    <2>2. PICK type : type \in Types
      BY DEF Types
    <2> QED BY <2>1, <2>2, MarkedEntry
  <1>2. \A k \in 0 .. Depth - 1 : Part(vpn, k) \in Slots
    BY PartType
  <1>3. \A table : Path(n, vpn, table, l) <=> Path(m, vpn, table, l)
    <2> TAKE table
    <2>1. SUFFICES ASSUME table \in [l .. Depth - 1 -> Ram]
                   PROVE  \A k \in l + 1 .. Depth - 1 :
                             LET at == <<table[k], Part(vpn, k)>> IN
                             /\ Pointer(n[at]) <=> Pointer(m[at])
                             /\ n[at].ppn = m[at].ppn
      BY <2>1 DEF Path
    <2> QED BY <1>1, <1>2, <2>1 DEF Pointer
  <1>4. ASSUME NEW loc PROVE loc \in LeavesOf(n, vpn, l) <=> loc \in LeavesOf(m, vpn, l)
    <2>1. loc \in Ram \X {Part(vpn, l)} => loc \in Ram \X Slots
      BY <1>2
    <2> QED BY <1>1, <1>3, <2>1, LeavesHavePaths
  <1> QED BY <1>4

\* CheckTrapForLeafEntry and the table of what an entry grants agree.
LEMMA GrantedIsPermitted ==
    ASSUME csr \in CsrStates, NEW e, NEW type \in Types
    PROVE  type \in Granted(e) <=> Permits(e, type)
  <1> DEFINE level == EffectivePrivilegeLevel(type)
             needs == [Instruction |-> {"E"}, Store |-> {"W"},
                       Load |-> IF MXR \in csr.status THEN {"R", "E"} ELSE {"R"}]
  <1>1. type \in Granted(e) <=>
           /\ CASE level = User -> "U" \in e.flags
                [] level = Supervisor -> "U" \notin e.flags \/ SUM \in csr.status
                [] OTHER -> TRUE
           /\ needs[type] \cap e.flags # {}
    BY DEF Granted
  <1>2. needs[type] \cap e.flags # {} <=>
           /\ type = "Instruction" => "E" \in e.flags
           /\ type = "Load" => "R" \in e.flags \/ (MXR \in csr.status /\ "E" \in e.flags)
           /\ type = "Store" => "W" \in e.flags
    <2>1. CASE type = "Instruction"
      BY <2>1
    <2>2. CASE type = "Load"
      BY <2>2
    <2>3. CASE type = "Store"
      BY <2>3
    <2> QED BY <2>1, <2>2, <2>3 DEF Types
  <1> HIDE DEF needs
  <1> QED BY <1>1, <1>2 DEF Permits, User, Supervisor

LEMMA PagedDepth == ASSUME NEW type, Paged(type) PROVE Depth \in {2, 3, 4}
  BY DEF Paged, TranslationMode, Depth, Bare

\* Translate goes to the leaf the tables of memory m give, also when marks
\* were added since.
LEMMA TranslateFinds ==
    ASSUME csr \in CsrStates, NEW type \in Types, Paged(type),
           NEW m \in Memory, NEW n \in Memory, OnlyMarked(m, n, {"A", "D"}),
           NEW vpn \in Nat, NEW l \in 0 .. Depth - 1,
           NEW loc \in LeavesOf(m, vpn, l), type \in Granted(m[loc])
    PROVE  /\ loc \in Ram \X Slots
           /\ Translate(n, type, vpn).kind = "leaf"
           /\ Translate(n, type, vpn).page = LeafPage(m[loc].ppn, vpn, l)
           /\ Bits(type) \subseteq Translate(n, type, vpn).mem[loc].flags
  <1>1. Depth \in {2, 3, 4}
    BY PagedDepth
  <1>2. loc \in LeavesOf(n, vpn, l)
    BY <1>1, MarkedLeaves
  <1>3. loc \in Ram \X Slots
    BY <1>1, PartType, LeavesHavePaths
  <1>4. Permits(n[loc], type) /\ n[loc].ppn = m[loc].ppn
    BY <1>3, GrantedIsPermitted, MarkedEntry DEF OnlyMarked
  <1>5. Walk(n, type, Index(vpn)) = Result("leaf", m[loc].ppn, loc, l)
    BY <1>1, <1>2, <1>4, WalkFinds
  <1>6. TranslationMode(type) # Bare /\ TranslationMode(type) # Unimplemented
    BY DEF Paged, Bare, Unimplemented
  <1>7. Translate(n, type, vpn)
           = [kind |-> "leaf", page |-> LeafPage(m[loc].ppn, vpn, l),
              mem |-> UpdateEntry(n, loc, type)]
    BY <1>5, <1>6 DEF Translate, Result
  <1> QED BY <1>3, <1>7, EntryUpdated

LEMMA Kept ==
    ASSUME NEW m, NEW n, NEW B, OnlyMarked(m, n, B), NEW loc \in Ram \X Slots,
           NEW S, S \subseteq m[loc].flags
    PROVE  S \subseteq n[loc].flags
  BY DEF OnlyMarked

LEMMA OnlyMarkedTwice ==
    ASSUME NEW m, NEW n, NEW o, OnlyMarked(m, n, {"A", "D"}),
           NEW type \in Types, OnlyMarked(n, o, Bits(type))
    PROVE  OnlyMarked(m, o, {"A", "D"})
  <1>1. Bits(type) \subseteq {"A", "D"}
    BY DEF Bits
  <1> QED BY <1>1 DEF OnlyMarked

LEMMA MarksOf ==
    ASSUME NEW m, NEW n, NEW type \in Types, OnlyMarked(m, n, Bits(type))
    PROVE  OnlyMarked(m, n, {"A", "D"})
  <1>1. Bits(type) \subseteq {"A", "D"}
    BY DEF Bits
  <1> QED BY <1>1 DEF OnlyMarked

-----------------------------------------------------------------------------
(* Used pages are marked.                                                  *)

(* The leaf that maps the page an event used is marked in memory n.        *)
Marked(e, n) ==
    Paged(e.type) =>
        \A l \in 0 .. csr.satp.mode - 1 :
        \A loc \in LeavesOf(mem, e.vpn, l) :
           e.type \in Granted(mem[loc]) =>
               loc \in Ram \X Slots /\ Bits(e.type) \subseteq n[loc].flags

\* An access marks the leaf of its page, and later accesses keep the mark.
LEMMA AccessMarks ==
    ASSUME csr \in CsrStates, mem \in Memory, NEW type \in Types,
           NEW n \in Memory, OnlyMarked(mem, n, {"A", "D"}),
           NEW vpn \in Nat, NEW e, e.type = type, e.vpn = vpn
    PROVE  Marked(e, Translate(n, type, vpn).mem)
  <1>1. OnlyMarked(mem, mem, {"A", "D"})
    BY DEF OnlyMarked
  <1> QED BY <1>1, TranslateFinds DEF Marked, Depth

LEMMA MarkKept ==
    ASSUME NEW e, NEW n, NEW o, NEW B, OnlyMarked(n, o, B), Marked(e, n)
    PROVE  Marked(e, o)
  BY Kept DEF Marked

Used(e) ==
    Paged(e.type) =>
        \A l \in 0 .. csr.satp.mode - 1 :
        \A loc \in LeavesOf(mem, e.vpn, l) :
           e.type \in Granted(mem[loc]) =>
               \/ Bits(e.type) \subseteq mem'[loc].flags
               \/ \E j \in DOMAIN events' :
                     /\ events'[j].type = "Store"
                     /\ loc \in Target(events'[j])

LEMMA MarkedIsUsed ==
    ASSUME NEW e, Marked(e, mem') PROVE Used(e)
  BY DEF Marked, Used

LEMMA MarkedThenStored ==
    ASSUME NEW e, NEW n \in Memory, NEW f, NEW w, Marked(e, n), f.type = "Store",
           mem' = StoreTo(n, f, w),
           \E j \in DOMAIN events' : events'[j] = f
    PROVE  Used(e)
  <1>1. \A loc \in Ram \X Slots : loc \notin Target(f) => mem'[loc] = n[loc]
    BY DEF StoreTo, Memory
  <1> QED BY <1>1 DEF Marked, Used

AllUsed == \A i \in DOMAIN events' : Used(events'[i])

LEMMA NothingUsed ==
    ASSUME NEW m, NEW evs,
           \/ Throw(m)
           \/ \E type : PageFault(type, m, <<>>)
    PROVE  AllUsed
  <1>1. events' = <<>>
    BY DEF Throw, PageFault
  <1> QED BY <1>1 DEF AllUsed

LEMMA LoadUsed ==
    ASSUME TypeOK, NEW a \in Accesses, Load(a) PROVE AllUsed
  <1> DEFINE tr == Translate(mem, "Load", a.vpn)
  <1>1. mem \in Memory /\ csr \in CsrStates /\ OnlyMarked(mem, mem, {"A", "D"})
    BY DEF TypeOK, Memory, OnlyMarked
  <1>2. a.vpn \in Nat
    BY SizeAssumption DEF Accesses
  <1>3. ASSUME NEW page, Done(tr.mem, <<MakeEvent("Load", a, page)>>)
        PROVE  AllUsed
    <2> DEFINE e == MakeEvent("Load", a, page)
    <2>1. e.type = "Load" /\ e.vpn = a.vpn
      BY DEF MakeEvent
    <2> HIDE DEF e
    <2>2. Marked(e, tr.mem)
      BY <1>1, <1>2, <2>1, AccessMarks DEF Types
    <2>3. mem' = tr.mem /\ events' = <<e>>
      BY <1>3 DEF Done, e
    <2>4. Used(e)
      BY <2>2, <2>3, MarkedIsUsed
    <2> QED BY <2>3, <2>4 DEF AllUsed
  <1> HIDE DEF tr
  <1> QED BY <1>3, NothingUsed DEF Load, tr

LEMMA StoreUsed ==
    ASSUME TypeOK, NEW a \in Accesses, Store(a) PROVE AllUsed
  <1> DEFINE tr == Translate(mem, "Store", a.vpn)
  <1>1. mem \in Memory /\ csr \in CsrStates /\ OnlyMarked(mem, mem, {"A", "D"})
    BY DEF TypeOK, Memory, OnlyMarked
  <1>2. a.vpn \in Nat
    BY SizeAssumption DEF Accesses
  <1>3. ASSUME NEW page, NEW w \in Words,
               Done(StoreTo(tr.mem, MakeEvent("Store", a, page), w),
                    <<MakeEvent("Store", a, page)>>)
        PROVE  AllUsed
    <2> DEFINE e == MakeEvent("Store", a, page)
    <2>1. e.type = "Store" /\ e.vpn = a.vpn
      BY DEF MakeEvent
    <2> HIDE DEF e
    <2>2. Marked(e, tr.mem) /\ tr.mem \in Memory
      BY <1>1, <1>2, <2>1, AccessMarks, Translated DEF Types
    <2>3. mem' = StoreTo(tr.mem, e, w) /\ events' = <<e>>
      BY <1>3 DEF Done, e
    <2>4. \E j \in DOMAIN events' : events'[j] = e
      BY <2>3
    <2>5. Used(e)
      BY <2>1, <2>2, <2>3, <2>4, MarkedThenStored
    <2> QED BY <2>3, <2>5 DEF AllUsed
  <1> HIDE DEF tr
  <1> QED BY <1>3, NothingUsed DEF Store, tr

LEMMA AmoUsed ==
    ASSUME TypeOK, NEW a \in Accesses, Amo(a) PROVE AllUsed
  <1> DEFINE load  == Translate(mem, "Load", a.vpn)
             store == Translate(load.mem, "Store", a.vpn)
  <1>1. mem \in Memory /\ csr \in CsrStates /\ OnlyMarked(mem, mem, {"A", "D"})
    BY DEF TypeOK, Memory, OnlyMarked
  <1>2. a.vpn \in Nat
    BY SizeAssumption DEF Accesses
  <1>3. load.mem \in Memory /\ OnlyMarked(mem, load.mem, {"A", "D"})
    BY <1>1, Translated, MarksOf DEF Types
  <1>4. ASSUME NEW p, NEW q, NEW w \in Words,
               Done(StoreTo(store.mem, MakeEvent("Store", a, q), w),
                    <<MakeEvent("Load", a, p), MakeEvent("Store", a, q)>>)
        PROVE  AllUsed
    <2> DEFINE e == MakeEvent("Load", a, p)
               f == MakeEvent("Store", a, q)
    <2>1. e.type = "Load" /\ e.vpn = a.vpn /\ f.type = "Store" /\ f.vpn = a.vpn
      BY DEF MakeEvent
    <2> HIDE DEF e, f
    <2>2. Marked(e, load.mem)
      BY <1>1, <1>2, <2>1, AccessMarks DEF Types
    <2>3. store.mem \in Memory /\ OnlyMarked(load.mem, store.mem, Bits("Store"))
      BY <1>3, Translated DEF Types
    <2>4. Marked(e, store.mem)
      BY <2>2, <2>3, MarkKept
    <2>5. Marked(f, store.mem)
      BY <1>1, <1>2, <1>3, <2>1, AccessMarks DEF Types
    <2>6. mem' = StoreTo(store.mem, f, w) /\ events' = <<e, f>>
      BY <1>4 DEF Done, e, f
    <2>7. \E j \in DOMAIN events' : events'[j] = f
      <3>1. 2 \in DOMAIN events' /\ events'[2] = f
        BY <2>6
      <3> QED BY <3>1
    <2>8. Used(e) /\ Used(f)
      BY <2>1, <2>3, <2>4, <2>5, <2>6, <2>7, MarkedThenStored
    <2> QED BY <2>6, <2>8 DEF AllUsed
  <1> HIDE DEF load, store
  <1> QED BY <1>4, NothingUsed DEF Amo, load, store

LEMMA FetchUsed ==
    ASSUME TypeOK, NEW vpn \in 0 .. VpnCount - 1, NEW slot \in Slots, Fetch(vpn, slot)
    PROVE  AllUsed
  <1> DEFINE tr == Translate(mem, "Instruction", vpn)
             e  == MakeEvent("Instruction",
                       [vpn |-> vpn, slot |-> slot, cross |-> FALSE], tr.page)
  <1>1. mem \in Memory /\ csr \in CsrStates /\ OnlyMarked(mem, mem, {"A", "D"})
    BY DEF TypeOK, Memory, OnlyMarked
  <1>2. vpn \in Nat
    BY SizeAssumption
  <1>3. CASE Done(tr.mem, <<e>>)
    <2>1. e.type = "Instruction" /\ e.vpn = vpn
      BY DEF MakeEvent
    <2> HIDE DEF e
    <2>2. Marked(e, tr.mem)
      BY <1>1, <1>2, <2>1, AccessMarks DEF Types
    <2>3. mem' = tr.mem /\ events' = <<e>>
      BY <1>3 DEF Done
    <2>4. Used(e)
      BY <2>2, <2>3, MarkedIsUsed
    <2> QED BY <2>3, <2>4 DEF AllUsed
  <1>4. \/ PageFault("Instruction", mem, <<>>)
        \/ Throw(mem) \/ Throw(tr.mem)
        \/ Done(tr.mem, <<e>>)
    BY DEF Fetch
  <1> QED BY <1>3, <1>4, NothingUsed

LEMMA FetchSplitUsed ==
    ASSUME TypeOK, NEW vpn \in 0 .. VpnCount - 1, FetchSplit(vpn)
    PROVE  AllUsed
  <1> DEFINE low  == Translate(mem, "Instruction", vpn)
             high == Translate(low.mem, "Instruction", NextPage(vpn))
             at   == [vpn |-> vpn, slot |-> PartSize - 1, cross |-> FALSE]
             next == [vpn |-> NextPage(vpn), slot |-> 0, cross |-> FALSE]
             e    == MakeEvent("Instruction", at, low.page)
             f    == MakeEvent("Instruction", next, high.page)
  <1>1. mem \in Memory /\ csr \in CsrStates /\ OnlyMarked(mem, mem, {"A", "D"})
    BY DEF TypeOK, Memory, OnlyMarked
  <1>2. vpn \in Nat /\ NextPage(vpn) \in Nat
    BY SizeAssumption, NextPageType
  <1>3. /\ e.type = "Instruction" /\ e.vpn = vpn
        /\ f.type = "Instruction" /\ f.vpn = NextPage(vpn)
    BY DEF MakeEvent
  <1>4. low.mem \in Memory /\ OnlyMarked(mem, low.mem, {"A", "D"})
    BY <1>1, Translated, MarksOf DEF Types
  <1>5. OnlyMarked(low.mem, high.mem, Bits("Instruction"))
    BY <1>4, Translated DEF Types
  <1>6. \/ PageFault("Instruction", low.mem, <<e>>)
        \/ Done(high.mem, <<e, f>>)
        \/ Throw(high.mem)
    BY DEF FetchSplit
  <1>7. Marked(e, low.mem)
    <2> HIDE DEF e, f
    <2> QED BY <1>1, <1>2, <1>3, AccessMarks DEF Types
  <1>8. Marked(e, high.mem) /\ Marked(f, high.mem)
    <2> HIDE DEF e, f
    <2> QED BY <1>1, <1>2, <1>3, <1>4, <1>5, <1>7, AccessMarks, MarkKept DEF Types
  <1> HIDE DEF low, high, e, f
  <1>9. CASE PageFault("Instruction", low.mem, <<e>>)
    <2>1. mem' = low.mem /\ events' = <<e>>
      BY <1>9 DEF PageFault
    <2>2. Used(e)
      BY <1>7, <2>1, MarkedIsUsed
    <2> QED BY <2>1, <2>2 DEF AllUsed
  <1>10. CASE Done(high.mem, <<e, f>>)
    <2>1. mem' = high.mem /\ events' = <<e, f>>
      BY <1>10 DEF Done
    <2>2. Used(e) /\ Used(f)
      BY <1>8, <2>1, MarkedIsUsed
    <2> QED BY <2>1, <2>2 DEF AllUsed
  <1> QED BY <1>6, <1>9, <1>10, NothingUsed

\* Whatever an access used is marked in its leaf after the step, in every mode
\* that is implemented, but where the instruction overwrote the leaf itself.
THEOREM UsesMarked == Spec => UseIsMarked
  <1>1. TypeOK /\ [Next]_vars => [AllUsed]_vars
    <2> SUFFICES ASSUME TypeOK, Next PROVE AllUsed
      OBVIOUS
    <2>1. CASE ClearEvent
      <3>1. events' = <<>>
        BY <2>1 DEF ClearEvent
      <3> QED BY <3>1 DEF AllUsed
    <2> QED
      BY <2>1, LoadUsed, StoreUsed, AmoUsed, FetchUsed, FetchSplitUsed DEF Next
  <1>2. [AllUsed]_vars => [\A i \in DOMAIN events' :
          LET e == events'[i] IN
          Paged(e.type) =>
              \A l \in 0 .. csr.satp.mode - 1 :
              \A loc \in LeavesOf(mem, e.vpn, l) :
                 e.type \in Granted(mem[loc]) =>
                     \/ {"A"} \cup (IF e.type = "Store" THEN {"D"} ELSE {})
                            \subseteq mem'[loc].flags
                     \/ \E j \in DOMAIN events' :
                           /\ events'[j].type = "Store"
                           /\ loc \in Target(events'[j])]_vars
    BY DEF AllUsed, Used, Bits
  <1> QED BY <1>1, <1>2, TypeCorrect, PTL DEF Spec, UseIsMarked

-----------------------------------------------------------------------------
(* The page a leaf maps to.                                                *)

LEMMA Distributes == \A x, y, z \in Nat : x * (y + z) = x * y + x * z
  OBVIOUS

LEMMA Division2 ==
    ASSUME NEW n \in Nat, NEW p \in Nat \ {0}, NEW q \in Nat, q = n \div p
    PROVE  n = p * q + (n % p)
  OBVIOUS

LEMMA DivisionUnique ==
    ASSUME NEW p \in Nat, NEW q \in Nat, NEW r \in 0 .. p - 1,
           NEW s \in Nat, NEW t \in 0 .. p - 1, p * q + r = p * s + t
    PROVE  q = s /\ r = t
  OBVIOUS

LEMMA Combined ==
    ASSUME NEW p \in Nat \ {0}, NEW q \in Nat, NEW r \in 0 .. p - 1,
           NEW n, n = p * q + r
    PROVE  n \in Nat /\ n \div p = q /\ n % p = r
  <1>1. n \in Nat
    OBVIOUS
  <1>2. PICK s \in Nat, t \in 0 .. p - 1 : s = n \div p /\ t = n % p
    BY <1>1, Division
  <1>3. p * q + r = p * s + t
    BY <1>1, <1>2, Division2
  <1>4. q = s /\ r = t
    BY <1>3, DivisionUnique
  <1> QED BY <1>1, <1>2, <1>4

\* Cutting a page number to the address width cuts its upper field.
LEMMA CutUpper ==
    ASSUME NEW p \in Nat \ {0}, NEW w \in Nat \ {0}, NEW q \in Nat,
           NEW r \in 0 .. p - 1
    PROVE  /\ (p * q + r) % (p * w) = p * (q % w) + r
           /\ p * (q % w) + r \in 0 .. p * w - 1
  <1>1. PICK a \in Nat, c \in 0 .. w - 1 : a = q \div w /\ c = q % w
    BY Division
  <1>2. q = w * a + c
    BY <1>1, Division2
  <1>3. PICK v \in Nat \ {0} : v = p * w
    OBVIOUS
  <1>4. p * c + r \in 0 .. v - 1
    <2>1. p * c <= p * (w - 1)
      BY <1>1
    <2>2. p * (w - 1) = v - p
      BY <1>3
    <2>3. p * c \in Nat
      BY <1>1
    <2> QED BY <1>3, <2>1, <2>2, <2>3
  <1>5. p * q + r = v * a + (p * c + r)
    <2>1. p * (w * a + c) = p * (w * a) + p * c
      BY <1>1, Distributes
    <2>2. p * (w * a) = v * a
      BY <1>1, <1>3
    <2>3. p * c \in Nat /\ v * a \in Nat
      BY <1>1
    <2> QED BY <1>2, <2>1, <2>2, <2>3
  <1>6. PICK d \in 0 .. v - 1 : d = p * c + r
    BY <1>4
  <1>7. (v * a + d) % v = d
    <2>1. PICK n : n = v * a + d
      OBVIOUS
    <2>2. n % v = d
      BY <1>1, <2>1, Combined, Zenon
    <2> QED BY <2>1, <2>2
  <1> QED BY <1>1, <1>3, <1>5, <1>6, <1>7

LEMMA SpanSplits ==
    ASSUME NEW d \in {2, 3, 4}, NEW l \in 0 .. d - 1
    PROVE  Span(d) = Span(l) * Span(d - l)
  <1>1. Span(0) = 1 /\ Span(1) = PartSize /\ Span(2) = PartSize * PartSize
        /\ Span(3) = PartSize * PartSize * PartSize
        /\ Span(4) = PartSize * PartSize * PartSize * PartSize
    BY DEF Span, Powers
  <1>2. PartSize \in Nat
    BY SizeAssumption
  <1>3. \A x \in Nat : /\ x * x = 1 * (x * x) /\ x * x = x * x
                       /\ x * x * x = 1 * (x * x * x) /\ x * x * x = x * (x * x)
                       /\ x * x * x * x = 1 * (x * x * x * x)
                       /\ x * x * x * x = x * (x * x * x)
                       /\ x * x * x * x = (x * x) * (x * x)
    OBVIOUS
  <1>4. CASE d = 2
    BY <1>1, <1>2, <1>3, <1>4
  <1>5. CASE d = 3
    BY <1>1, <1>2, <1>3, <1>5
  <1>6. CASE d = 4
    BY <1>1, <1>2, <1>3, <1>6
  <1> QED BY <1>4, <1>5, <1>6

\* Translate's arithmetic yields the page with the leaf's upper fields and the
\* lower fields of the virtual page.
LEMMA LeafPageIs ==
    ASSUME Depth \in {2, 3, 4}, NEW e, e.ppn \in Nat, NEW vpn \in Nat,
           NEW l \in 0 .. Depth - 1
    PROVE  LeafPage(e.ppn, vpn, l) = PageUnder(e, vpn, l)
  <1>1. PICK p \in Nat \ {0}, w \in Nat \ {0} : p = Span(l) /\ w = Span(Depth - l)
    BY SpanType
  <1>2. Span(Depth) = p * w
    BY <1>1, SpanSplits
  <1>3. PICK q \in Nat, r \in 0 .. p - 1 : q = e.ppn \div p /\ r = vpn % p
    BY Division
  <1>4. e.ppn - (e.ppn % p) + r = p * q + r
    <2>1. e.ppn = p * q + (e.ppn % p) /\ (e.ppn % p) \in 0 .. p - 1
      BY <1>3, Division, Division2
    <2>2. p * q \in Nat
      OBVIOUS
    <2> QED BY <2>1, <2>2
  <1>5. PICK c \in 0 .. w - 1 : c = q % w
    BY Division
  <1>6. PICK page \in 0 .. p * w - 1 : page = p * c + r
    BY <1>3, <1>5, CutUpper
  <1>7. LeafPage(e.ppn, vpn, l) = page
    <2>1. LeafPage(e.ppn, vpn, l) = (e.ppn - (e.ppn % p) + (vpn % p)) % (p * w)
      BY <1>1, <1>2, Zenon DEF LeafPage, Depth
    <2>2. LeafPage(e.ppn, vpn, l) = (p * q + r) % (p * w)
      BY <1>3, <1>4, <2>1, Zenon
    <2>3. (p * q + r) % (p * w) = p * (q % w) + r
      BY <1>3, CutUpper
    <2> QED BY <1>5, <1>6, <2>2, <2>3, Zenon
  <1>8. page % p = r /\ page \div p = c
    BY <1>3, <1>5, <1>6, Combined
  <1>9. ASSUME NEW x \in 0 .. p * w - 1, x % p = r, x \div p = c
        PROVE  x = page
    <2>1. x \in Nat
      OBVIOUS
    <2>2. c \in Nat /\ c = x \div p
      BY <1>5, <1>9
    <2>3. x = p * c + (x % p)
      BY <2>1, <2>2, Division2, Zenon
    <2> QED BY <1>6, <1>9, <2>3, Zenon
  <1>10. PageUnder(e, vpn, l) =
            CHOOSE x \in 0 .. p * w - 1 : x % p = r /\ x \div p = c
    BY <1>1, <1>2, <1>3, <1>5 DEF PageUnder, Depth
  <1> QED BY <1>7, <1>8, <1>9, <1>10

-----------------------------------------------------------------------------
(* Accesses go where the tables say.                                       *)

\* Where the walk ends in a leaf, tables lead to it.
LEMMA WalkIsLed ==
    ASSUME csr \in CsrStates, Depth \in {2, 3, 4},
           NEW m \in Memory, NEW type \in Types, NEW vpn \in Nat,
           Walk(m, type, Index(vpn)).kind = "leaf"
    PROVE  \E l \in 0 .. Depth - 1 : \E loc \in LeavesOf(m, vpn, l) :
              /\ Permits(m[loc], type)
              /\ Walk(m, type, Index(vpn)) = Result("leaf", m[loc].ppn, loc, l)
  <1> DEFINE W(k) == Walked(m, type, Index(vpn), k)
             top  == Result("table", csr.satp.ppn, <<0, 0>>, csr.satp.mode)
             To(k, table) == IF k >= Depth THEN W(k).page = csr.satp.ppn
                             ELSE /\ Path(m, vpn, table, k)
                                  /\ LET at == <<table[k], Part(vpn, k)>> IN
                                     Pointer(m[at]) /\ m[at].ppn = W(k).page
             Led(k)  == W(k).kind = "table" /\ \E table : To(k, table)
             Leaf(k) == \E l \in 0 .. Depth - 1 : \E loc \in LeavesOf(m, vpn, l) :
                           /\ Permits(m[loc], type)
                           /\ W(k) = Result("leaf", m[loc].ppn, loc, l)
             Lost(k) == W(k).kind \in {"fault", "throw"}
             Good(k) == Led(k) \/ Leaf(k) \/ Lost(k)
  <1>1. /\ W(4) = top
        /\ \A k \in 0 .. 3 : W(k) = Descend(m, type, Index(vpn), k, W(k + 1))
        /\ Walk(m, type, Index(vpn)) = W(0)
    BY WalkedSteps
  <1>2. \A k \in 0 .. 3 : Index(vpn)[k] = Part(vpn, k)
    BY DEF Index
  <1> HIDE DEF W
  <1>3. Good(4)
    BY <1>1 DEF Result, Depth
  <1>4. ASSUME NEW k, Leaf(k) PROVE W(k).kind = "leaf"
    BY <1>4 DEF Result
  <1>5. ASSUME NEW k \in 0 .. 3, Good(k + 1) PROVE Good(k)
    <2>1. W(k) = Descend(m, type, Index(vpn), k, W(k + 1))
      BY <1>1
    <2>2. CASE W(k + 1).kind # "table"
      <3>1. W(k) = W(k + 1)
        BY <2>1, <2>2 DEF Descend
      <3> QED BY <1>5, <2>2, <3>1
    <2>3. CASE W(k + 1).kind = "table" /\ k >= Depth
      <3>1. W(k) = W(k + 1)
        BY <2>1, <2>3 DEF Descend, Depth
      <3>2. Led(k + 1)
        <4> HIDE DEF Led, Leaf
        <4> QED BY <1>5, <1>4, <2>3
      <3>3. PICK table : To(k + 1, table)
        BY <3>2
      <3>4. W(k + 1).page = csr.satp.ppn
        BY <2>3, <3>3
      <3> QED BY <2>3, <3>1, <3>4
    <2>4. CASE W(k + 1).kind = "table" /\ k < Depth
      <3> DEFINE t  == W(k + 1).page
                 at == <<t, Part(vpn, k)>>
      <3>1. W(k) = Visit(m, type, t, Part(vpn, k), k)
        BY <1>2, <2>1, <2>4 DEF Descend, Depth
      <3>2. Led(k + 1)
        <4> HIDE DEF Led, Leaf
        <4> QED BY <1>5, <1>4, <2>4
      <3>3. PICK table : To(k + 1, table)
        BY <3>2
      <3>4. CASE t \notin Ram \/ ~IsValid(m[at])
        BY <3>1, <3>4 DEF Visit, Result
      <3>5. CASE t \in Ram /\ IsValid(m[at])
        <4> DEFINE next == [j \in k .. Depth - 1 |-> IF j = k THEN t ELSE table[j]]
        <4>1. Path(m, vpn, next, k)
          <5>1. CASE k + 1 >= Depth
            <6>1. k = Depth - 1 /\ t = csr.satp.ppn
              BY <2>4, <3>3, <5>1
            <6> QED BY <3>5, <6>1 DEF Path
          <5>2. CASE k + 1 < Depth
            <6>1. /\ Path(m, vpn, table, k + 1)
                  /\ Pointer(m[<<table[k + 1], Part(vpn, k + 1)>>])
                  /\ m[<<table[k + 1], Part(vpn, k + 1)>>].ppn = t
              BY <3>3, <5>2
            <6>2. next \in [k .. Depth - 1 -> Ram]
              BY <3>5, <6>1 DEF Path
            <6>3. next[Depth - 1] = csr.satp.ppn
              BY <5>2, <6>1 DEF Path
            <6>4. ASSUME NEW j \in k + 1 .. Depth - 1
                  PROVE  /\ Pointer(m[<<next[j], Part(vpn, j)>>])
                         /\ m[<<next[j], Part(vpn, j)>>].ppn = next[j - 1]
              <7>1. CASE j = k + 1
                BY <5>2, <6>1, <7>1
              <7>2. CASE j # k + 1
                <8>1. j \in k + 2 .. Depth - 1 /\ next[j] = table[j] /\ next[j - 1] = table[j - 1]
                  BY <5>2, <7>2
                <8> QED BY <6>1, <8>1 DEF Path
              <7> QED BY <7>1, <7>2
            <6> QED BY <6>2, <6>3, <6>4 DEF Path
          <5> QED BY <5>1, <5>2
        <4>2. next[k] = t
          BY <2>4
        <4> HIDE DEF next
        <4>3. CASE k > 0 /\ ~IsLeafEntry(m[at])
          <5>1. W(k) = Result("table", m[at].ppn, <<0, 0>>, k)
            BY <3>1, <3>5, <4>3 DEF Visit
          <5>2. To(k, next)
            BY <2>4, <3>5, <4>1, <4>2, <4>3, <5>1 DEF Pointer, Result
          <5>3. W(k).kind = "table"
            BY <5>1 DEF Result
          <5>4. Led(k)
            <6> HIDE DEF To
            <6> QED BY <5>2, <5>3
          <5> QED BY <5>4
        <4>4. CASE IsLeafEntry(m[at])
          <5>1. W(k) = Result(IF Permits(m[at], type) THEN "leaf" ELSE "fault",
                              m[at].ppn, at, k)
            BY <3>1, <3>5, <4>4 DEF Visit
          <5>2. at \in LeavesOf(m, vpn, k)
            BY <3>5, <4>1, <4>2, <4>4, LeavesHavePaths
          <5>3. CASE Permits(m[at], type)
            <6>1. Leaf(k)
              BY <2>4, <5>1, <5>2, <5>3
            <6> QED BY <6>1
          <5>4. CASE ~Permits(m[at], type)
            BY <5>1, <5>4 DEF Result
          <5> QED BY <5>3, <5>4
        <4>5. CASE k = 0 /\ ~IsLeafEntry(m[at])
          <5>1. ~Permits(m[at], type)
            BY <3>5, <4>5 DEF Permits, IsValid, IsLeafEntry, Types
          <5>2. W(k) = Result("fault", m[at].ppn, at, k)
            BY <3>1, <3>5, <4>5, <5>1 DEF Visit
          <5>3. W(k).kind = "fault"
            BY <5>2 DEF Result
          <5> QED BY <5>3
        <4> QED BY <4>3, <4>4, <4>5
      <3> QED BY <3>4, <3>5
    <2> QED BY <2>2, <2>3, <2>4
  <1>6. Good(0)
    <2> HIDE DEF Good
    <2> QED BY <1>3, <1>5
  <1> QED BY <1>1, <1>6 DEF Result

\* What a leaf grants is part of the meaning of the tables.
LEMMA LeafMeans ==
    ASSUME csr \in CsrStates, Depth \in {2, 3, 4}, NEW m \in Memory,
           NEW type \in Types, NEW vpn \in Nat, NEW l \in 0 .. Depth - 1,
           NEW loc \in LeavesOf(m, vpn, l), type \in Granted(m[loc]),
           type = "Instruction" \/ m[loc].ppn % Span(l) = 0
    PROVE  <<type, LeafPage(m[loc].ppn, vpn, l)>> \in Meaning(m, vpn)
  <1>1. loc \in Ram \X Slots
    BY PartType, LeavesHavePaths
  <1>2. m[loc].ppn \in Nat
    BY <1>1 DEF Memory, Word
  <1>3. LeafPage(m[loc].ppn, vpn, l) = PageUnder(m[loc], vpn, l)
    BY <1>2, LeafPageIs
  <1> QED BY <1>3 DEF Meaning, Depth

\* Where Translate finds a page for a fetch, that is the page mapped.
LEMMA FetchMapped ==
    ASSUME csr \in CsrStates, Paged("Instruction"),
           NEW m \in Memory, NEW n \in Memory, OnlyMarked(m, n, {"A", "D"}),
           NEW vpn \in Nat, Translate(n, "Instruction", vpn).kind = "leaf"
    PROVE  <<"Instruction", Translate(n, "Instruction", vpn).page>>
              \in Meaning(m, vpn)
  <1> DEFINE type == "Instruction"
  <1>1. Depth \in {2, 3, 4} /\ type \in Types
    BY PagedDepth DEF Types
  <1>2. TranslationMode(type) # Bare /\ TranslationMode(type) # Unimplemented
    BY DEF Paged, Bare, Unimplemented
  <1>3. Walk(n, type, Index(vpn)).kind = "leaf"
    BY <1>2 DEF Translate
  <1>4. PICK l \in 0 .. Depth - 1 :
            \E loc \in LeavesOf(n, vpn, l) : Permits(n[loc], type)
    BY <1>1, <1>3, WalkIsLed
  <1>5. PICK loc \in LeavesOf(n, vpn, l) : Permits(n[loc], type)
    BY <1>4
  <1>6. loc \in LeavesOf(m, vpn, l)
    BY <1>1, MarkedLeaves
  <1>7. loc \in Ram \X Slots
    BY <1>1, <1>6, PartType, LeavesHavePaths
  <1>8. type \in Granted(m[loc])
    BY <1>1, <1>5, <1>7, GrantedIsPermitted, MarkedEntry DEF OnlyMarked
  <1>9. Translate(n, type, vpn).page = LeafPage(m[loc].ppn, vpn, l)
    BY <1>1, <1>6, <1>8, TranslateFinds
  <1> QED BY <1>1, <1>6, <1>8, <1>9, LeafMeans

\* An access that CheckTrap lets pass, in Sv32 and Sv39, is translated to the
\* page mapped, also when its own marks were added since.
LEMMA CheckMapped ==
    ASSUME csr \in CsrStates, NEW type \in Types, Paged(type), Depth # 4,
           NEW m \in Memory, NEW n \in Memory, OnlyMarked(m, n, {"A", "D"}),
           NEW vpn \in Nat, CheckAccess(m, type, vpn) = "leaf"
    PROVE  /\ Translate(n, type, vpn).kind = "leaf"
           /\ <<type, Translate(n, type, vpn).page>> \in Meaning(m, vpn)
  <1> DEFINE r == Walk(m, type, Index(vpn))
  <1>1. Depth \in {2, 3, 4}
    BY PagedDepth
  <1>2. TranslationMode(type) # Bare /\ TranslationMode(type) # Unimplemented
    BY DEF Paged, Bare, Unimplemented
  <1>3. CheckIndex(vpn) = Index(vpn)
    BY DEF CheckIndex, Index, Depth
  <1>4. r.kind = "leaf" /\ r.page % Span(r.level) = 0
    BY <1>2, <1>3 DEF CheckAccess
  <1>5. PICK l \in 0 .. Depth - 1 : \E loc \in LeavesOf(m, vpn, l) :
            /\ Permits(m[loc], type)
            /\ r = Result("leaf", m[loc].ppn, loc, l)
    BY <1>1, <1>4, WalkIsLed
  <1>6. PICK loc \in LeavesOf(m, vpn, l) :
            /\ Permits(m[loc], type)
            /\ r = Result("leaf", m[loc].ppn, loc, l)
    BY <1>5
  <1>7. m[loc].ppn % Span(l) = 0
    BY <1>4, <1>6 DEF Result
  <1>8. type \in Granted(m[loc])
    BY <1>6, GrantedIsPermitted
  <1>9. /\ Translate(n, type, vpn).kind = "leaf"
        /\ Translate(n, type, vpn).page = LeafPage(m[loc].ppn, vpn, l)
    BY <1>8, TranslateFinds
  <1> QED BY <1>1, <1>7, <1>8, <1>9, LeafMeans

(* Sv48 is left out: its check indexes another entry than its translation. *)
NoSv48 == \A s \in CsrStates : s.satp.mode # 4

Mapped(e) ==
    /\ ~e.cross
    /\ Paged(e.type) => <<e.type, e.page>> \in Meaning(mem, e.vpn)

AllMapped == \A i \in DOMAIN events' : Mapped(events'[i])

LEMMA CheckedIsMapped ==
    ASSUME TypeOK, NoSv48, ~CrossPage, NEW type \in Types, NEW a \in Accesses,
           NEW n \in Memory, OnlyMarked(mem, n, {"A", "D"}),
           CheckAccess(mem, type, a.vpn) = "leaf",
           NEW page \in PagesUsed(Translate(n, type, a.vpn))
    PROVE  Mapped(MakeEvent(type, a, page))
  <1>1. a.vpn \in Nat /\ ~a.cross
    BY SizeAssumption, CrossAssumption DEF Accesses
  <1>2. mem \in Memory /\ csr \in CsrStates
    BY DEF TypeOK, Memory
  <1>3. ASSUME Paged(type) PROVE <<type, page>> \in Meaning(mem, a.vpn)
    <2>1. Depth # 4
      BY <1>2 DEF NoSv48, Depth
    <2>2. /\ Translate(n, type, a.vpn).kind = "leaf"
          /\ <<type, Translate(n, type, a.vpn).page>> \in Meaning(mem, a.vpn)
      BY <1>1, <1>2, <1>3, <2>1, CheckMapped
    <2> QED BY <2>2 DEF PagesUsed
  <1> QED BY <1>1, <1>3 DEF MakeEvent, Mapped

LEMMA FetchedIsMapped ==
    ASSUME TypeOK, NEW a, a.vpn \in Nat, a.cross = FALSE,
           NEW n \in Memory, OnlyMarked(mem, n, {"A", "D"}),
           Translate(n, "Instruction", a.vpn).kind = "leaf"
    PROVE  Mapped(MakeEvent("Instruction", a, Translate(n, "Instruction", a.vpn).page))
  <1>1. mem \in Memory /\ csr \in CsrStates
    BY DEF TypeOK, Memory
  <1>2. Paged("Instruction") =>
            <<"Instruction", Translate(n, "Instruction", a.vpn).page>>
               \in Meaning(mem, a.vpn)
    BY <1>1, FetchMapped
  <1> QED BY <1>2 DEF MakeEvent, Mapped

LEMMA EventsMapped ==
    ASSUME NEW m
    PROVE  /\ Throw(m) => AllMapped
           /\ \A type : PageFault(type, m, <<>>) => AllMapped
           /\ \A e : Mapped(e) /\ events' = <<e>> => AllMapped
           /\ \A e, f : Mapped(e) /\ Mapped(f) /\ events' = <<e, f>> => AllMapped
  <1>1. events' = <<>> => AllMapped
    BY DEF AllMapped
  <1>2. ASSUME NEW e, Mapped(e), events' = <<e>> PROVE AllMapped
    BY <1>2 DEF AllMapped
  <1>3. ASSUME NEW e, NEW f, Mapped(e), Mapped(f), events' = <<e, f>> PROVE AllMapped
    BY <1>3 DEF AllMapped
  <1> QED BY <1>1, <1>2, <1>3 DEF Throw, PageFault

LEMMA LoadMapped ==
    ASSUME TypeOK, NoSv48, ~CrossPage, NEW a \in Accesses, Load(a)
    PROVE  AllMapped
  <1> DEFINE tr == Translate(mem, "Load", a.vpn)
  <1>1. mem \in Memory /\ OnlyMarked(mem, mem, {"A", "D"})
    BY DEF TypeOK, Memory, OnlyMarked
  <1>2. ASSUME CheckAccess(mem, "Load", a.vpn) = "leaf", NEW page \in PagesUsed(tr),
               Done(tr.mem, <<MakeEvent("Load", a, page)>>)
        PROVE  AllMapped
    <2>1. Mapped(MakeEvent("Load", a, page))
      BY <1>1, <1>2, CheckedIsMapped DEF Types
    <2>2. events' = <<MakeEvent("Load", a, page)>>
      BY <1>2 DEF Done
    <2> QED BY <2>1, <2>2, EventsMapped
  <1> HIDE DEF tr
  <1> QED BY <1>2, EventsMapped DEF Load, tr

LEMMA StoreMapped ==
    ASSUME TypeOK, NoSv48, ~CrossPage, NEW a \in Accesses, Store(a)
    PROVE  AllMapped
  <1> DEFINE tr == Translate(mem, "Store", a.vpn)
  <1>1. mem \in Memory /\ OnlyMarked(mem, mem, {"A", "D"})
    BY DEF TypeOK, Memory, OnlyMarked
  <1>2. ASSUME CheckAccess(mem, "Store", a.vpn) = "leaf", NEW page \in PagesUsed(tr),
               NEW m, Done(m, <<MakeEvent("Store", a, page)>>)
        PROVE  AllMapped
    <2>1. Mapped(MakeEvent("Store", a, page))
      BY <1>1, <1>2, CheckedIsMapped DEF Types
    <2>2. events' = <<MakeEvent("Store", a, page)>>
      BY <1>2 DEF Done
    <2> QED BY <2>1, <2>2, EventsMapped
  <1> HIDE DEF tr
  <1> QED BY <1>2, EventsMapped DEF Store, tr

LEMMA AmoMapped ==
    ASSUME TypeOK, NoSv48, ~CrossPage, NEW a \in Accesses, Amo(a)
    PROVE  AllMapped
  <1> DEFINE load  == Translate(mem, "Load", a.vpn)
             store == Translate(load.mem, "Store", a.vpn)
  <1>1. mem \in Memory /\ OnlyMarked(mem, mem, {"A", "D"})
    BY DEF TypeOK, Memory, OnlyMarked
  <1>2. load.mem \in Memory /\ OnlyMarked(mem, load.mem, {"A", "D"})
    BY <1>1, Translated, MarksOf DEF Types
  <1>3. ASSUME CheckAccess(mem, "Load", a.vpn) = "leaf", NEW p \in PagesUsed(load),
               CheckAccess(mem, "Store", a.vpn) = "leaf", NEW q \in PagesUsed(store),
               NEW m,
               Done(m, <<MakeEvent("Load", a, p), MakeEvent("Store", a, q)>>)
        PROVE  AllMapped
    <2>1. Mapped(MakeEvent("Load", a, p))
      BY <1>1, <1>3, CheckedIsMapped DEF Types
    <2>2. Mapped(MakeEvent("Store", a, q))
      BY <1>2, <1>3, CheckedIsMapped DEF Types
    <2>3. events' = <<MakeEvent("Load", a, p), MakeEvent("Store", a, q)>>
      BY <1>3 DEF Done
    <2> QED BY <2>1, <2>2, <2>3, EventsMapped
  <1> HIDE DEF load, store
  <1> QED BY <1>3, EventsMapped DEF Amo, load, store

LEMMA FetchesMapped ==
    ASSUME TypeOK, NEW vpn \in 0 .. VpnCount - 1, NEW slot, Fetch(vpn, slot)
    PROVE  AllMapped
  <1> DEFINE tr == Translate(mem, "Instruction", vpn)
             at == [vpn |-> vpn, slot |-> slot, cross |-> FALSE]
             e  == MakeEvent("Instruction", at, tr.page)
  <1>1. mem \in Memory /\ OnlyMarked(mem, mem, {"A", "D"})
    BY DEF TypeOK, Memory, OnlyMarked
  <1>2. at.vpn = vpn /\ at.cross = FALSE /\ vpn \in Nat
    BY SizeAssumption
  <1> HIDE DEF at
  <1>3. tr.kind = "leaf" => Mapped(e)
    BY <1>1, <1>2, FetchedIsMapped
  <1>4. \/ PageFault("Instruction", mem, <<>>)
        \/ Throw(mem) \/ Throw(tr.mem)
        \/ tr.kind = "leaf" /\ Done(tr.mem, <<e>>)
    BY DEF Fetch, at
  <1> HIDE DEF tr, e
  <1> QED BY <1>3, <1>4, EventsMapped DEF Done

LEMMA FetchSplitMapped ==
    ASSUME TypeOK, NEW vpn \in 0 .. VpnCount - 1, FetchSplit(vpn)
    PROVE  AllMapped
  <1> DEFINE low  == Translate(mem, "Instruction", vpn)
             high == Translate(low.mem, "Instruction", NextPage(vpn))
             at   == [vpn |-> vpn, slot |-> PartSize - 1, cross |-> FALSE]
             next == [vpn |-> NextPage(vpn), slot |-> 0, cross |-> FALSE]
             e    == MakeEvent("Instruction", at, low.page)
             f    == MakeEvent("Instruction", next, high.page)
  <1>1. mem \in Memory /\ OnlyMarked(mem, mem, {"A", "D"})
    BY DEF TypeOK, Memory, OnlyMarked
  <1>2. low.mem \in Memory /\ OnlyMarked(mem, low.mem, {"A", "D"})
    BY <1>1, Translated, MarksOf DEF Types
  <1>3. /\ at.vpn = vpn /\ at.cross = FALSE /\ vpn \in Nat
        /\ next.vpn = NextPage(vpn) /\ next.cross = FALSE /\ NextPage(vpn) \in Nat
    BY SizeAssumption, NextPageType
  <1>4. /\ low.kind = "leaf"
        /\ \/ PageFault("Instruction", low.mem, <<e>>)
           \/ high.kind = "leaf" /\ Done(high.mem, <<e, f>>)
           \/ Throw(high.mem)
    BY DEF FetchSplit
  <1> HIDE DEF at, next
  <1>5. Mapped(e)
    BY <1>1, <1>3, <1>4, FetchedIsMapped
  <1>6. high.kind = "leaf" => Mapped(f)
    BY <1>2, <1>3, FetchedIsMapped
  <1> HIDE DEF low, high, e, f
  <1> QED BY <1>4, <1>5, <1>6, EventsMapped DEF PageFault, Done

LEMMA PagesMapped ==
    ASSUME NEW e, Mapped(e), Paged(e.type), NEW vp \in PagesOf(e)
    PROVE  <<e.type, vp[2]>> \in Meaning(mem, vp[1])
  <1>1. vp = <<e.vpn, e.page>>
    BY DEF PagesOf, Mapped
  <1>2. vp[1] = e.vpn /\ vp[2] = e.page
    BY <1>1
  <1> QED BY <1>2 DEF Mapped

LEMMA NextMapped ==
    ASSUME TypeOK, NoSv48, ~CrossPage, Next PROVE AllMapped
  <1>1. CASE ClearEvent
    BY <1>1 DEF ClearEvent, AllMapped
  <1> QED
    BY <1>1, LoadMapped, StoreMapped, AmoMapped, FetchesMapped, FetchSplitMapped
       DEF Next

\* In Sv32 and Sv39, every access within a page goes to the physical page the
\* tables give its virtual page with that permission: CheckTrap and Translate
\* agree and no address is used that Translate has not set.
THEOREM AccessesAreMapped ==
    ASSUME NoSv48, ~CrossPage
    PROVE  Spec => AccessesMapped
  <1>1. TypeOK /\ [Next]_vars => [AllMapped]_vars
    BY NextMapped
  <1>2. [AllMapped]_vars => [\A i \in DOMAIN events' :
          LET e == events'[i] IN
          Paged(e.type) =>
              \A vp \in PagesOf(e) :
                 <<e.type, vp[2]>> \in Meaning(mem, vp[1])]_vars
    BY PagesMapped DEF AllMapped
  <1> QED BY <1>1, <1>2, TypeCorrect, PTL DEF Spec, AccessesMapped

-----------------------------------------------------------------------------
(* The address space is stable.                                            *)

(* Memories m and n have the same entries, but for marks, in the pages S.  *)
AgreesOn(m, n, S) ==
    \A loc \in Ram \X Slots : loc[1] \in S =>
        /\ n[loc].ppn = m[loc].ppn
        /\ m[loc].flags \subseteq n[loc].flags
        /\ n[loc].flags \subseteq m[loc].flags \cup {"A", "D"}

LEMMA AgreeingEntries ==
    ASSUME NEW m, NEW n, NEW S, AgreesOn(m, n, S), NEW loc \in Ram \X Slots,
           loc[1] \in S
    PROVE  /\ n[loc].ppn = m[loc].ppn
           /\ IsValid(n[loc]) <=> IsValid(m[loc])
           /\ IsLeafEntry(n[loc]) <=> IsLeafEntry(m[loc])
           /\ Pointer(n[loc]) <=> Pointer(m[loc])
           /\ Granted(n[loc]) = Granted(m[loc])
  <1>1. /\ n[loc].ppn = m[loc].ppn
        /\ m[loc].flags \subseteq n[loc].flags
        /\ n[loc].flags \subseteq m[loc].flags \cup {"A", "D"}
    BY DEF AgreesOn
  <1>2. "Load" \in Types
    BY DEF Types
  <1> QED BY <1>1, <1>2, MarkedEntry DEF Pointer

\* Every table a path passes is one of Tables.
LEMMA PathInTables ==
    ASSUME csr \in CsrStates, Depth \in {2, 3, 4}, NEW m, NEW vpn \in Nat,
           NEW l \in 0 .. Depth - 1, NEW table, Path(m, vpn, table, l),
           NEW k \in l .. Depth - 1
    PROVE  table[k] \in Tables(m) /\ table[k] \in Ram
  <1> DEFINE sub == [j \in k .. Depth - 1 |-> table[j]]
  <1>1. sub \in [k .. Depth - 1 -> Ram] /\ sub[Depth - 1] = csr.satp.ppn
    BY DEF Path
  <1>2. ASSUME NEW j \in k + 1 .. Depth - 1
        PROVE  \E i \in Slots : /\ Pointer(m[<<sub[j], i>>])
                                /\ m[<<sub[j], i>>].ppn = sub[j - 1]
    <2>1. j \in l + 1 .. Depth - 1 /\ sub[j] = table[j] /\ sub[j - 1] = table[j - 1]
      OBVIOUS
    <2>2. Part(vpn, j) \in Slots
      BY PartType
    <2> QED BY <2>1, <2>2 DEF Path
  <1>3. sub[k] = table[k]
    OBVIOUS
  <1> HIDE DEF sub
  <1>4. Leads(m, sub, k)
    BY <1>1, <1>2 DEF Leads, Depth
  <1>5. table[k] \in Ram
    BY DEF Path
  <1> QED BY <1>1, <1>3, <1>4, <1>5 DEF Tables, Depth

\* A path in a memory that agrees on the tables is a path in the other one.
LEMMA SamePaths ==
    ASSUME csr \in CsrStates, Depth \in {2, 3, 4}, NEW m, NEW n,
           AgreesOn(m, n, Tables(m)), NEW vpn \in Nat, NEW l \in 0 .. Depth - 1,
           NEW table
    PROVE  Path(n, vpn, table, l) <=> Path(m, vpn, table, l)
  <1>1. ASSUME Path(m, vpn, table, l) PROVE Path(n, vpn, table, l)
    <2>1. ASSUME NEW k \in l + 1 .. Depth - 1
          PROVE  /\ Pointer(n[<<table[k], Part(vpn, k)>>])
                 /\ n[<<table[k], Part(vpn, k)>>].ppn = table[k - 1]
      <3>1. table[k] \in Tables(m) /\ table[k] \in Ram
        BY <1>1, PathInTables
      <3>2. Part(vpn, k) \in Slots
        BY PartType
      <3>3. PICK loc \in Ram \X Slots : loc = <<table[k], Part(vpn, k)>>
        BY <3>1, <3>2
      <3>4. Pointer(m[loc]) /\ m[loc].ppn = table[k - 1] /\ loc[1] \in Tables(m)
        BY <1>1, <3>1, <3>3 DEF Path
      <3> QED BY <3>3, <3>4, AgreeingEntries
    <2> QED BY <1>1, <2>1 DEF Path
  <1>2. ASSUME Path(n, vpn, table, l) PROVE Path(m, vpn, table, l)
    <2> DEFINE sub(k) == [j \in k .. Depth - 1 |-> table[j]]
               Good(k) == l <= k /\ k < Depth => Path(m, vpn, sub(k), k)
    <2>1. /\ table \in [l .. Depth - 1 -> Ram] /\ table[Depth - 1] = csr.satp.ppn
          /\ \A k \in l + 1 .. Depth - 1 :
                /\ Pointer(n[<<table[k], Part(vpn, k)>>])
                /\ n[<<table[k], Part(vpn, k)>>].ppn = table[k - 1]
      BY <1>2 DEF Path
    <2>2. Path(m, vpn, sub(Depth - 1), Depth - 1)
      BY <2>1 DEF Path
    <2>3. ASSUME NEW k \in l .. Depth - 2, Path(m, vpn, sub(k + 1), k + 1)
          PROVE  Path(m, vpn, sub(k), k)
      <3>1. k + 1 \in 0 .. Depth - 1 /\ k + 1 \in k + 1 .. Depth - 1
        OBVIOUS
      <3>2. PICK t : t = sub(k + 1)
        OBVIOUS
      <3>3. t[k + 1] \in Tables(m) /\ t[k + 1] \in Ram
        BY <2>3, <3>1, <3>2, PathInTables
      <3>4. t[k + 1] = table[k + 1]
        BY <3>2
      <3>5. Part(vpn, k + 1) \in Slots
        BY PartType
      <3>6. PICK loc \in Ram \X Slots : loc = <<table[k + 1], Part(vpn, k + 1)>>
        BY <3>3, <3>4, <3>5
      <3>7. Pointer(n[loc]) /\ n[loc].ppn = table[k] /\ loc[1] \in Tables(m)
        BY <2>1, <3>3, <3>4, <3>6
      <3>8. Pointer(m[loc]) /\ m[loc].ppn = table[k]
        BY <3>7, AgreeingEntries
      <3>9. ASSUME NEW j \in k + 1 .. Depth - 1
            PROVE  /\ Pointer(m[<<table[j], Part(vpn, j)>>])
                   /\ m[<<table[j], Part(vpn, j)>>].ppn = table[j - 1]
        <4>1. CASE j = k + 1
          BY <3>6, <3>8, <4>1
        <4>2. CASE j # k + 1
          <5>1. j \in (k + 1) + 1 .. Depth - 1
            BY <4>2
          <5>2. t[j] = table[j] /\ t[j - 1] = table[j - 1]
            BY <3>2, <5>1
          <5>3. Path(m, vpn, t, k + 1)
            BY <2>3, <3>2
          <5>4. /\ Pointer(m[<<t[j], Part(vpn, j)>>])
                /\ m[<<t[j], Part(vpn, j)>>].ppn = t[j - 1]
            BY <5>1, <5>3 DEF Path
          <5> QED BY <5>2, <5>4
        <4> QED BY <4>1, <4>2
      <3> QED BY <2>1, <3>9 DEF Path
    <2>4. sub(l) = table
      BY <2>1
    <2>5. Path(m, vpn, sub(l), l)
      <3> DEFINE P(k) == Path(m, vpn, sub(k), k)
      <3>1. P(Depth - 1) /\ \A k \in l .. Depth - 2 : P(k + 1) => P(k)
        BY <2>2, <2>3
      <3> HIDE DEF P
      <3>2. P(l)
        BY <3>1
      <3> QED BY <3>2 DEF P
    <2> QED BY <2>4, <2>5
  <1> QED BY <1>1, <1>2

LEMMA InMeaning ==
    ASSUME NEW m, NEW vpn, NEW x
    PROVE  x \in Meaning(m, vpn) <=>
              \E l \in 0 .. Depth - 1 : \E loc \in LeavesOf(m, vpn, l) :
                 \E type \in Granted(m[loc]) :
                    /\ type = "Instruction" \/ m[loc].ppn % Span(l) = 0
                    /\ x = <<type, PageUnder(m[loc], vpn, l)>>
  BY DEF Meaning, Depth

\* What the tables say depends on the tables, their marks apart, alone.
LEMMA SameMeaning ==
    ASSUME csr \in CsrStates, Depth \in {2, 3, 4}, NEW m, NEW n,
           AgreesOn(m, n, Tables(m)), NEW vpn \in Nat
    PROVE  Meaning(n, vpn) = Meaning(m, vpn)
  <1>1. ASSUME NEW l \in 0 .. Depth - 1, NEW loc,
               \E table : Path(m, vpn, table, l) /\ table[l] = loc[1],
               loc \in Ram \X {Part(vpn, l)}
        PROVE  /\ n[loc].ppn = m[loc].ppn
               /\ IsValid(n[loc]) <=> IsValid(m[loc])
               /\ IsLeafEntry(n[loc]) <=> IsLeafEntry(m[loc])
               /\ Granted(n[loc]) = Granted(m[loc])
               /\ PageUnder(n[loc], vpn, l) = PageUnder(m[loc], vpn, l)
    <2>1. PICK table : Path(m, vpn, table, l) /\ table[l] = loc[1]
      BY <1>1
    <2>2. loc[1] \in Tables(m)
      <3>1. l \in l .. Depth - 1
        OBVIOUS
      <3> QED BY <2>1, <3>1, PathInTables
    <2>3. loc \in Ram \X Slots
      BY <1>1, PartType
    <2>4. n[loc].ppn = m[loc].ppn
      BY <2>2, <2>3, AgreeingEntries
    <2>5. PageUnder(n[loc], vpn, l) = PageUnder(m[loc], vpn, l)
      BY <2>4 DEF PageUnder
    <2> QED BY <2>2, <2>3, <2>4, <2>5, AgreeingEntries
  <1>2. ASSUME NEW l \in 0 .. Depth - 1, NEW loc
        PROVE  /\ loc \in LeavesOf(n, vpn, l) <=> loc \in LeavesOf(m, vpn, l)
               /\ loc \in LeavesOf(m, vpn, l) =>
                     /\ n[loc].ppn = m[loc].ppn
                     /\ Granted(n[loc]) = Granted(m[loc])
                     /\ PageUnder(n[loc], vpn, l) = PageUnder(m[loc], vpn, l)
    <2>1. (\E table : Path(n, vpn, table, l) /\ table[l] = loc[1]) <=>
             (\E table : Path(m, vpn, table, l) /\ table[l] = loc[1])
      BY SamePaths
    <2>2. loc \in LeavesOf(m, vpn, l) <=>
             /\ loc \in Ram \X {Part(vpn, l)}
             /\ IsValid(m[loc]) /\ IsLeafEntry(m[loc])
             /\ \E table : Path(m, vpn, table, l) /\ table[l] = loc[1]
      BY LeavesHavePaths
    <2>3. loc \in LeavesOf(n, vpn, l) <=>
             /\ loc \in Ram \X {Part(vpn, l)}
             /\ IsValid(n[loc]) /\ IsLeafEntry(n[loc])
             /\ \E table : Path(n, vpn, table, l) /\ table[l] = loc[1]
      BY LeavesHavePaths
    <2> QED BY <1>1, <2>1, <2>2, <2>3
  <1>3. ASSUME NEW x PROVE x \in Meaning(n, vpn) <=> x \in Meaning(m, vpn)
    <2>1. ASSUME NEW l \in 0 .. Depth - 1
          PROVE  (\E loc \in LeavesOf(n, vpn, l) : \E type \in Granted(n[loc]) :
                     /\ type = "Instruction" \/ n[loc].ppn % Span(l) = 0
                     /\ x = <<type, PageUnder(n[loc], vpn, l)>>) <=>
                 (\E loc \in LeavesOf(m, vpn, l) : \E type \in Granted(m[loc]) :
                     /\ type = "Instruction" \/ m[loc].ppn % Span(l) = 0
                     /\ x = <<type, PageUnder(m[loc], vpn, l)>>)
      BY <1>2
    <2> QED BY <2>1, InMeaning
  <1> QED BY <1>3

-----------------------------------------------------------------------------

(* What a step does to memory: it adds marks, or marks and one store to a  *)
(* page the tables let the program write.                                  *)
Untouched ==
    \/ OnlyMarked(mem, mem', {"A", "D"})
    \/ \E n \in Memory, vpn \in 0 .. VpnCount - 1 : \E e, w :
          /\ OnlyMarked(mem, n, {"A", "D"})
          /\ mem' = StoreTo(n, e, w)
          /\ ~e.cross
          /\ Paged("Store") => <<"Store", e.page>> \in Meaning(mem, vpn)

LEMMA StoreReaches ==
    ASSUME TypeOK, NoSv48, ~CrossPage, NEW a \in Accesses,
           NEW n \in Memory, OnlyMarked(mem, n, {"A", "D"}),
           NEW o \in Memory, OnlyMarked(mem, o, {"A", "D"}),
           CheckAccess(mem, "Store", a.vpn) = "leaf",
           NEW page \in PagesUsed(Translate(n, "Store", a.vpn)),
           NEW w, mem' = StoreTo(o, MakeEvent("Store", a, page), w)
    PROVE  Untouched
  <1> DEFINE e == MakeEvent("Store", a, page)
  <1>1. Mapped(e)
    BY CheckedIsMapped DEF Types
  <1>2. e.type = "Store" /\ e.vpn = a.vpn /\ a.vpn \in 0 .. VpnCount - 1
    BY DEF MakeEvent, Accesses
  <1> HIDE DEF e
  <1>3. ~e.cross /\ (Paged("Store") => <<"Store", e.page>> \in Meaning(mem, a.vpn))
    BY <1>1, <1>2 DEF Mapped
  <1>4. mem' = StoreTo(o, e, w)
    BY DEF e
  <1> QED BY <1>2, <1>3, <1>4 DEF Untouched

LEMMA NextUntouched ==
    ASSUME TypeOK, NoSv48, ~CrossPage, Next, csr' = csr
    PROVE  Untouched
  <1>1. mem \in Memory /\ OnlyMarked(mem, mem, {"A", "D"})
    BY DEF TypeOK, Memory, OnlyMarked
  <1>2. ASSUME NEW m, OnlyMarked(mem, m, {"A", "D"}), NEW evs, NEW type,
               Done(m, evs) \/ PageFault(type, m, evs) \/ Throw(m)
        PROVE  Untouched
    BY <1>2 DEF Done, PageFault, Throw, Untouched
  <1>3. ASSUME NEW type \in Types, NEW vpn
        PROVE  /\ Translate(mem, type, vpn).mem \in Memory
               /\ OnlyMarked(mem, Translate(mem, type, vpn).mem, {"A", "D"})
    BY <1>1, Translated, MarksOf
  <1>4. ASSUME NEW type \in Types, NEW vpn, NEW m \in Memory,
               OnlyMarked(mem, m, {"A", "D"})
        PROVE  /\ Translate(m, type, vpn).mem \in Memory
               /\ OnlyMarked(mem, Translate(m, type, vpn).mem, {"A", "D"})
    BY <1>4, Translated, OnlyMarkedTwice
  <1>5. ASSUME NEW a \in Accesses, Load(a) PROVE Untouched
    <2>1. PICK m : m = Translate(mem, "Load", a.vpn).mem
      OBVIOUS
    <2>2. OnlyMarked(mem, m, {"A", "D"})
      BY <1>3, <2>1 DEF Types
    <2> QED BY <1>1, <1>2, <1>5, <2>1, <2>2 DEF Load
  <1>6. ASSUME NEW a \in Accesses, Store(a) PROVE Untouched
    <2> DEFINE tr == Translate(mem, "Store", a.vpn)
    <2>1. tr.mem \in Memory /\ OnlyMarked(mem, tr.mem, {"A", "D"})
      BY <1>3 DEF Types
    <2>2. ASSUME CheckAccess(mem, "Store", a.vpn) = "leaf", NEW page \in PagesUsed(tr),
                 NEW w, NEW evs, Done(StoreTo(tr.mem, MakeEvent("Store", a, page), w), evs)
          PROVE  Untouched
      BY <1>1, <2>1, <2>2, StoreReaches DEF Done
    <2> HIDE DEF tr
    <2> QED BY <1>1, <1>2, <1>6, <2>1, <2>2 DEF Store, tr
  <1>7. ASSUME NEW a \in Accesses, Amo(a) PROVE Untouched
    <2> DEFINE load  == Translate(mem, "Load", a.vpn)
               store == Translate(load.mem, "Store", a.vpn)
    <2>1. load.mem \in Memory /\ OnlyMarked(mem, load.mem, {"A", "D"})
      BY <1>3 DEF Types
    <2>2. store.mem \in Memory /\ OnlyMarked(mem, store.mem, {"A", "D"})
      BY <1>4, <2>1 DEF Types
    <2>3. ASSUME CheckAccess(mem, "Store", a.vpn) = "leaf", NEW q \in PagesUsed(store),
                 NEW w, NEW evs, Done(StoreTo(store.mem, MakeEvent("Store", a, q), w), evs)
          PROVE  Untouched
      BY <2>1, <2>2, <2>3, StoreReaches DEF Done
    <2>4. \A x : OnlyMarked(mem, IF x THEN store.mem ELSE load.mem, {"A", "D"})
      BY <2>1, <2>2
    <2> HIDE DEF load, store
    <2> QED BY <1>1, <1>2, <1>7, <2>3, <2>4 DEF Amo, load, store
  <1>8. ASSUME NEW vpn, NEW slot, Fetch(vpn, slot) PROVE Untouched
    <2>1. PICK m : m = Translate(mem, "Instruction", vpn).mem
      OBVIOUS
    <2>2. OnlyMarked(mem, m, {"A", "D"})
      BY <1>3, <2>1 DEF Types
    <2> QED BY <1>1, <1>2, <1>8, <2>1, <2>2 DEF Fetch
  <1>9. ASSUME NEW vpn, FetchSplit(vpn) PROVE Untouched
    <2> DEFINE low  == Translate(mem, "Instruction", vpn)
               high == Translate(low.mem, "Instruction", NextPage(vpn))
    <2>1. low.mem \in Memory /\ OnlyMarked(mem, low.mem, {"A", "D"})
      BY <1>3 DEF Types
    <2>2. OnlyMarked(mem, high.mem, {"A", "D"})
      BY <1>4, <2>1 DEF Types
    <2> HIDE DEF low, high
    <2> QED BY <1>2, <1>9, <2>1, <2>2 DEF FetchSplit, low, high
  <1>10. CASE ClearEvent
    BY <1>1, <1>10 DEF ClearEvent, Untouched
  <1> QED BY <1>5, <1>6, <1>7, <1>8, <1>9, <1>10 DEF Next

(* What the property asks of a step.                                       *)
Stable ==
    /\ mem' # mem
    /\ csr' = csr
    /\ Paged("Store")
    /\ LET views == {"Store"} \X Tables(mem) IN
       \A vpn \in 0 .. VpnCount - 1 : views \cap Meaning(mem, vpn) = {}
    => \A vpn \in 0 .. VpnCount - 1 : Meaning(mem', vpn) = Meaning(mem, vpn)

LEMMA NextStable ==
    ASSUME TypeOK, NoSv48, ~CrossPage, Next PROVE Stable
  <1> SUFFICES ASSUME csr' = csr, Paged("Store"),
                      \A vpn \in 0 .. VpnCount - 1 :
                         ({"Store"} \X Tables(mem)) \cap Meaning(mem, vpn) = {},
                      NEW vpn \in 0 .. VpnCount - 1
               PROVE  Meaning(mem', vpn) = Meaning(mem, vpn)
    BY DEF Stable
  <1>1. csr \in CsrStates /\ Depth \in {2, 3, 4} /\ vpn \in Nat /\ mem \in Memory
    BY PagedDepth, SizeAssumption DEF TypeOK, Memory
  <1>2. AgreesOn(mem, mem', Tables(mem))
    <2>1. CASE OnlyMarked(mem, mem', {"A", "D"})
      BY <2>1 DEF OnlyMarked, AgreesOn
    <2>2. ASSUME NEW n \in Memory, NEW e, NEW w, NEW v \in 0 .. VpnCount - 1,
                 OnlyMarked(mem, n, {"A", "D"}), mem' = StoreTo(n, e, w), ~e.cross,
                 <<"Store", e.page>> \in Meaning(mem, v)
          PROVE  AgreesOn(mem, mem', Tables(mem))
      <3>1. e.page \notin Tables(mem)
        BY <2>2
      <3>2. Target(e) = {<<e.page, e.slot>>}
        BY <2>2 DEF Target
      <3>3. ASSUME NEW loc \in Ram \X Slots, loc[1] \in Tables(mem)
            PROVE  mem'[loc] = n[loc]
        <4>1. loc \notin Target(e)
          BY <3>1, <3>2, <3>3
        <4> QED BY <2>2, <4>1 DEF StoreTo, Memory
      <3> QED BY <2>2, <3>3 DEF OnlyMarked, AgreesOn
    <2> QED BY <2>1, <2>2, NextUntouched DEF Untouched
  <1> QED BY <1>1, <1>2, SameMeaning

\* In Sv32 and Sv39, software whose mapping gives it no writable view of the
\* tables never changes what an address means to it.
THEOREM AddressSpaceIsStable ==
    ASSUME NoSv48, ~CrossPage
    PROVE  Spec => AddressSpaceStable
  <1>1. TypeOK /\ [Next]_vars => [Stable]_vars
    BY NextStable
  <1> QED BY <1>1, TypeCorrect, PTL DEF Spec, AddressSpaceStable, Stable
=============================================================================
