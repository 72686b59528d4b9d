------------------------- MODULE ReservationProofs -------------------------
(* The reservation properties for every memory, every set of threads and   *)
(* every depth of nesting, on both register widths.                        *)
EXTENDS Reservation, TLAPS

(* A live reservation is the newest load-reserved; if the running          *)
(* activation has one of its own, it is that one, and what it saw is       *)
(* intact up to RV64I stores; a constrained sequence keeps it alive.       *)
LiveReservation ==
    reserved =>
        /\ pair = address
        /\ linked[Running] # None =>
               /\ linked[Running] = address
               /\ \A w \in Words :
                      seen[Running][w] \notin {None, memory[w]} => w \in plain

ConstrainedLive == constrained => reserved

PlainOnlyWide == xlen = 32 => plain = {}

IInv == TypeOK /\ LiveReservation /\ ConstrainedLive /\ PlainOnlyWide

-----------------------------------------------------------------------------
(* Init establishes the type invariant.                                    *)
LEMMA InitTyped == Init => TypeOK
  <1> SUFFICES ASSUME Init PROVE TypeOK
    OBVIOUS
  <1>1. linked \in [Activations -> Words \cup {None}]
    BY DEF Init
  <1>2. seen \in [Activations -> [Words -> Values \cup {None}]]
    BY DEF Init
  <1>3. 0 \in Words /\ 0 \in 0 .. MaxNesting
    BY WordsAssumption, NestingAssumption DEF Words
  <1>4. QED
    BY <1>1, <1>2, <1>3 DEF Init, TypeOK, NoSc

(* A store of n words keeps memory well-typed.                             *)
LEMMA WrittenTyped ==
    ASSUME TypeOK, NEW a \in Words, NEW n \in Nat, NEW v \in Values,
           Written(a, n, v)
    PROVE  memory' \in [Words -> Values]
  BY DEF TypeOK, Written

(* The running activation is one of the activations.                       *)
LEMMA RunningTyped ==
    TypeOK => Running \in Activations
  BY NestingAssumption DEF TypeOK, Running, Activations

(* Forgetting a link keeps the links well-typed.                           *)
LEMMA UnlinkTyped ==
    ASSUME TypeOK, NEW c, Unlink(c)
    PROVE  /\ linked' \in [Activations -> Words \cup {None}]
           /\ seen' \in [Activations -> [Words -> Values \cup {None}]]
  BY DEF TypeOK, Unlink

(* Type correctness is inductive.                                          *)
LEMMA StepTyped == TypeOK /\ [Next]_vars => TypeOK'
  <1> SUFFICES ASSUME TypeOK, [Next]_vars PROVE TypeOK'
    OBVIOUS
  <1> USE WordsAssumption, NestingAssumption
  <1>1. ASSUME NEW set \in Sets, NEW kind \in Kinds, Compute(set, kind)
        PROVE  TypeOK'
    BY <1>1 DEF TypeOK, Compute, CancelUnlessKept, Cancel, manager, NoSc
  <1>2. ASSUME NEW set \in Sets, NEW a \in Words, NEW n \in {1, 2},
               NEW v \in Values, Store(set, a, n, v)
        PROVE  TypeOK'
    <2>1. memory' \in [Words -> Values]
      BY <1>2, WrittenTyped DEF Store
    <2>2. plain' \subseteq Words
      BY <1>2 DEF Store, Mapped, TypeOK
    <2>3. QED
      BY <1>2, <2>1, <2>2
         DEF TypeOK, Store, CancelUnlessKept, Cancel, manager, NoSc
  <1>3. ASSUME NEW a \in Words, NEW n \in Sizes, NEW v \in Values,
               Amo(a, n, v)
        PROVE  TypeOK'
    <2>1. memory' \in [Words -> Values]
      BY <1>3, WrittenTyped DEF Amo, Sizes
    <2>2. QED
      BY <1>3, <2>1 DEF TypeOK, Amo, Cancel, NoSc
  <1>4. ASSUME NEW a \in Words, NEW n \in Sizes, LoadReserved(a, n)
        PROVE  TypeOK'
    <2>1. /\ linked' \in [Activations -> Words \cup {None}]
          /\ seen' \in [Activations -> [Words -> Values \cup {None}]]
      BY <1>4 DEF TypeOK, LoadReserved
    <2>2. QED
      BY <1>4, <2>1 DEF TypeOK, LoadReserved, Reserve, NoSc
  <1>5. ASSUME NEW a \in Words, NEW n \in Sizes, NEW v \in Values,
               StoreConditional(a, n, v)
        PROVE  TypeOK'
    <2>1. memory' \in [Words -> Values]
      BY <1>5, WrittenTyped DEF StoreConditional, Sizes, TypeOK
    <2>2. sc' \in [addr : Words \cup {None}, rd : {0, 1}]
      BY <1>5 DEF StoreConditional
    <2>3. QED
      BY <1>5, <2>1, <2>2, UnlinkTyped DEF TypeOK, StoreConditional, Cancel
  <1>6. ASSUME Fence PROVE TypeOK'
    BY <1>6 DEF TypeOK, Fence, Cancel, NoSc
  <1>7. ASSUME Trap \/ Ecall PROVE TypeOK'
    <2>1. Enter
      BY <1>7 DEF Trap, Ecall
    <2>2. /\ linked' \in [Activations -> Words \cup {None}]
          /\ seen' \in [Activations -> [Words -> Values \cup {None}]]
      BY <2>1, UnlinkTyped DEF Enter
    <2>3. depth' \in 0 .. MaxNesting
      BY <2>1 DEF TypeOK, Enter
    <2>4. reserved' \in BOOLEAN /\ address' \in Words
      BY <1>7 DEF TypeOK, Trap, Ecall, Cancel, manager
    <2>5. QED
      BY <2>1, <2>2, <2>3, <2>4 DEF TypeOK, Enter, NoSc
  <1>8. ASSUME Return PROVE TypeOK'
    <2>1. /\ linked' \in [Activations -> Words \cup {None}]
          /\ seen' \in [Activations -> [Words -> Values \cup {None}]]
      BY <1>8, UnlinkTyped DEF Return
    <2>2. depth' \in 0 .. MaxNesting
      BY <1>8 DEF TypeOK, Return
    <2>3. thread' \in Threads
      BY <1>8 DEF TypeOK, Return
    <2>4. QED
      BY <1>8, <2>1, <2>2, <2>3 DEF TypeOK, Return, Cancel, NoSc
  <1>9. ASSUME UNCHANGED vars PROVE TypeOK'
    BY <1>9 DEF TypeOK, vars
  <1>10. QED
    BY <1>1, <1>2, <1>3, <1>4, <1>5, <1>6, <1>7, <1>8, <1>9 DEF Next

-----------------------------------------------------------------------------
(* Init establishes the inductive invariant.                               *)
LEMMA InitLive == Init => IInv
  BY InitTyped
     DEF Init, IInv, LiveReservation, ConstrainedLive, PlainOnlyWide

(* Every step preserves it. Steps that cancel leave nothing to show; what  *)
(* remains is keeping, reserving, storing under RV64I and entering a trap. *)
LEMMA StepLive == IInv /\ [Next]_vars => IInv'
  <1> SUFFICES ASSUME IInv, [Next]_vars PROVE IInv'
    OBVIOUS
  <1> USE DEF IInv
  <1>0. TypeOK'
    BY StepTyped
  <1>1. ASSUME NEW set \in Sets, NEW kind \in Kinds, Compute(set, kind)
        PROVE  IInv'
    <2>1. Running' = Running
      BY <1>1 DEF Compute, Running
    <2>2. ConstrainedLive'
      BY <1>1
         DEF TypeOK, ConstrainedLive, Compute, CancelUnlessKept, Keeps, KeptByRV32I,
             KeptByRV64I, manager
    <2>3. QED
      BY <1>0, <1>1, <2>1, <2>2
         DEF Compute, CancelUnlessKept, Cancel, manager, LiveReservation,
             PlainOnlyWide
  <1>2. ASSUME NEW set \in Sets, NEW a \in Words, NEW n \in {1, 2},
               NEW v \in Values, Store(set, a, n, v)
        PROVE  IInv'
    <2>1. Running' = Running
      BY <1>2 DEF Store, Running
    <2>2. CASE Keeps(set, "store")
      <3>1. set = "I" /\ xlen = 64
        BY <2>2 DEF Keeps, KeptByRV32I, KeptByRV64C
      <3>2. \A w \in Words : memory'[w] = memory[w] \/ w \in plain'
        BY <1>2, <3>1 DEF Store, Written
      <3>3. QED
        BY <1>0, <1>2, <2>1, <2>2, <3>1, <3>2
           DEF Store, CancelUnlessKept, manager, LiveReservation,
               ConstrainedLive, PlainOnlyWide
    <2>3. CASE ~Keeps(set, "store")
      BY <1>0, <1>2, <2>3
         DEF Store, CancelUnlessKept, Cancel, LiveReservation,
             ConstrainedLive, PlainOnlyWide
    <2>4. QED
      BY <2>2, <2>3
  <1>3. ASSUME NEW a \in Words, NEW n \in Sizes, NEW v \in Values,
               Amo(a, n, v)
        PROVE  IInv'
    BY <1>0, <1>3
       DEF Amo, Cancel, LiveReservation, ConstrainedLive, PlainOnlyWide
  <1>4. ASSUME NEW a \in Words, NEW n \in Sizes, LoadReserved(a, n)
        PROVE  IInv'
    <2>1. Running' = Running /\ Running \in Activations
      BY <1>4, RunningTyped DEF LoadReserved, Running
    <2>2. linked'[Running] = a
      BY <1>4, <2>1 DEF LoadReserved, TypeOK
    <2>3. \A w \in Words : seen'[Running][w] \in {None, memory[w]}
      BY <1>4, <2>1 DEF LoadReserved, TypeOK
    <2>4. QED
      BY <1>0, <1>4, <2>1, <2>2, <2>3
         DEF LoadReserved, Reserve, LiveReservation, ConstrainedLive,
             PlainOnlyWide
  <1>5. ASSUME NEW a \in Words, NEW n \in Sizes, NEW v \in Values,
               StoreConditional(a, n, v)
        PROVE  IInv'
    BY <1>0, <1>5
       DEF StoreConditional, Cancel, LiveReservation, ConstrainedLive,
           PlainOnlyWide
  <1>6. ASSUME Fence PROVE IInv'
    BY <1>0, <1>6
       DEF Fence, Cancel, LiveReservation, ConstrainedLive, PlainOnlyWide
  <1>7. ASSUME Enter, UNCHANGED manager \/ Cancel PROVE IInv'
    <2>1. Running' = <<thread, depth + 1>> /\ Running' \in Activations
      BY <1>7, NestingAssumption DEF Enter, Running, Activations, TypeOK
    <2>2. linked'[Running'] = None
      BY <1>7, <2>1 DEF Enter, Unlink, TypeOK
    <2>3. QED
      BY <1>0, <1>7, <2>2
         DEF Enter, Cancel, manager, LiveReservation, ConstrainedLive,
             PlainOnlyWide
  <1>8. ASSUME Return PROVE IInv'
    BY <1>0, <1>8
       DEF Return, Cancel, LiveReservation, ConstrainedLive, PlainOnlyWide
  <1>9. ASSUME UNCHANGED vars PROVE IInv'
    BY <1>0, <1>9
       DEF vars, Running, LiveReservation, ConstrainedLive, PlainOnlyWide
  <1>10. QED
    BY <1>1, <1>2, <1>3, <1>4, <1>5, <1>6, <1>7, <1>8, <1>9
       DEF Next, Trap, Ecall

(* The inductive invariant holds in every reachable state.                 *)
THEOREM ReservationInvariant == Spec => []IInv
  BY InitLive, StepLive, PTL DEF Spec

-----------------------------------------------------------------------------
(* Only a store-conditional that finds the reservation succeeds.           *)
LEMMA SuccessIsReserved ==
    ASSUME Next, Succeeds
    PROVE  reserved /\ address = sc'.addr
  <1> USE DEF Succeeds, NoSc
  <1>1. \A set \in Sets, kind \in Kinds : ~Compute(set, kind)
    BY DEF Compute
  <1>2. \A set \in Sets, a \in Words, n \in {1, 2}, v \in Values :
            ~Store(set, a, n, v)
    BY DEF Store
  <1>3. \A a \in Words, n \in Sizes, v \in Values : ~Amo(a, n, v)
    BY DEF Amo
  <1>4. \A a \in Words, n \in Sizes : ~LoadReserved(a, n)
    BY DEF LoadReserved
  <1>5. ~Fence /\ ~Trap /\ ~Ecall /\ ~Return
    BY DEF Fence, Trap, Ecall, Enter, Return
  <1>6. PICK a \in Words, n \in Sizes, v \in Values : StoreConditional(a, n, v)
    BY <1>1, <1>2, <1>3, <1>4, <1>5 DEF Next
  <1>7. QED
    BY <1>6 DEF StoreConditional

(* One load-reserved admits at most one success, at its own address.       *)
THEOREM Paired == Spec => ScPaired
  <1>1. ASSUME IInv, [Next]_vars PROVE [Succeeds => pair = sc'.addr]_vars
    BY <1>1, SuccessIsReserved DEF IInv, LiveReservation
  <1>2. QED
    BY <1>1, ReservationInvariant, PTL DEF Spec, ScPaired

(* An activation's own load-reserved is not outlived by a change of what   *)
(* it saw, except by RV64I stores.                                         *)
THEOREM Sound == Spec => ScSound
  <1>1. ASSUME IInv, [Next]_vars
        PROVE  [Succeeds /\ linked[Running] # None =>
                    /\ linked[Running] = sc'.addr
                    /\ \A w \in Words :
                           seen[Running][w] \notin {None, memory[w]} =>
                               xlen = 64 /\ w \in plain]_vars
    BY <1>1, SuccessIsReserved
       DEF TypeOK, IInv, LiveReservation, PlainOnlyWide
  <1>2. QED
    BY <1>1, ReservationInvariant, PTL DEF Spec, ScSound

(* The constrained loop never fails.                                       *)
THEOREM Progress == Spec => ScProgress
  <1>1. ASSUME IInv, Next, constrained, sc'.addr = pair PROVE sc'.rd = 0
    <2>1. reserved /\ pair = address /\ pair # None
      BY <1>1 DEF IInv, ConstrainedLive, LiveReservation, TypeOK, Words, None
    <2>2. sc' = NoSc \/ \E a \in Words, n \in Sizes, v \in Values :
                            StoreConditional(a, n, v)
      BY <1>1 DEF Next, Compute, Store, Amo, LoadReserved, Fence, Trap, Ecall,
                  Enter, Return
    <2>3. QED
      BY <1>1, <2>1, <2>2 DEF StoreConditional, NoSc
  <1>2. ASSUME IInv, [Next]_vars
        PROVE  [constrained /\ sc'.addr = pair => sc'.rd = 0]_vars
    BY <1>1, <1>2
  <1>3. QED
    BY <1>2, ReservationInvariant, PTL DEF Spec, ScProgress
=============================================================================
