---------------------------- MODULE Reservation ----------------------------
(* The reservation of load-reserved and store-conditional: AtomicManager,  *)
(* and which instructions of Executor cancel it. Threads share the hart;   *)
(* traps, nested up to MaxNesting, stack handlers on the running one, and  *)
(* a return to depth 0 resumes any thread. Memory is a row of words under  *)
(* one address mapping; an access covers one word or two.                  *)
EXTENDS Integers

CONSTANTS
    WordCount,      \* words of memory
    Values,         \* what a word holds
    Threads,
    MaxNesting      \* bound: handlers stacked on a thread

ASSUME WordsAssumption == WordCount \in Nat \ {0}
ASSUME ValuesAssumption == Values # {} /\ Values \subseteq Nat
ASSUME ThreadsAssumption == Threads # {}
ASSUME NestingAssumption == MaxNesting \in Nat

VARIABLES
    xlen,           \* the register width the emulator was started with
    reserved,       \* AtomicManager::m_Reserved
    address,        \* AtomicManager::m_Address
    memory,
    thread,         \* the thread that runs or was interrupted
    depth,          \* handlers stacked on it
    sc,             \* address and result of the store-conditional just run
    \* History, read by the properties only. For each activation: its last
    \* load-reserved, if no store-conditional of its own followed, and what
    \* that loaded.
    linked, seen,
    pair,           \* the newest load-reserved, no store-conditional since
    plain,          \* words RV64I stores have written since then
    constrained     \* nothing but plain computing since then

manager == <<reserved, address>>
history == <<linked, seen, pair, plain, constrained>>
vars == <<xlen, reserved, address, memory, thread, depth, sc, linked, seen,
          pair, plain, constrained>>

Words == 0 .. WordCount - 1
None == -1                      \* no word, no value
Activations == Threads \X (0 .. MaxNesting)
Running == <<thread, depth>>
NoSc == [addr |-> None, rd |-> 0]

(* Words an access of n words at a touches; the whole span is mapped.      *)
Span(a, n) == a .. a + n - 1
Sizes == IF xlen = 64 THEN {1, 2} ELSE {1}
Mapped(a, n) == Span(a, n) \subseteq Words

(* Instruction sets, the kinds of instruction a set has, and the kinds     *)
(* whose handlers leave the reservation alone. "near" is a branch not      *)
(* taken or taken forward, "back" one taken backward; "jump" is jal, jalr. *)
Sets == {"I", "M", "FD", "C"}
Kinds == {"alu", "near", "back", "jump", "load", "store", "csr"}

Has(set) ==
    CASE set = "I"  -> Kinds
      [] set = "M"  -> {"alu"}
      [] set = "FD" -> {"alu", "load", "store"}
      [] OTHER      -> Kinds \ {"jump", "csr"}

KeptByStraight == {"alu", "jump", "load", "store"}  \* defect: no branch
KeptByRV32I == {"alu", "near", "jump", "csr"}
KeptByRV64I == {"alu", "near", "jump", "load", "store"}
KeptByRV64C == {"alu", "near"}

Keeps(set, kind) ==
    \/ set = "I" /\ xlen = 32 /\ kind \in KeptByRV32I
    \/ set = "I" /\ xlen = 64 /\ kind \in KeptByRV64I
    \/ set = "C" /\ xlen = 64 /\ kind \in KeptByRV64C

Reserve(a) == reserved' = TRUE /\ address' = a

Cancel == reserved' = FALSE /\ UNCHANGED address

CancelUnlessKept(set, kind) ==
    IF Keeps(set, kind) THEN UNCHANGED manager ELSE Cancel

(* History: activation c has no load-reserved of its own pending.          *)
Unlink(c) ==
    /\ linked' = [linked EXCEPT ![c] = None]
    /\ seen' = [seen EXCEPT ![c] = [w \in Words |-> None]]

Written(a, n, v) ==
    memory' = [w \in Words |-> IF w \in Span(a, n) THEN v ELSE memory[w]]

-----------------------------------------------------------------------------
Init ==
    /\ xlen \in {32, 64}
    /\ reserved = FALSE
    /\ address = 0
    /\ memory \in [Words -> Values]
    /\ thread \in Threads
    /\ depth = 0
    /\ sc = NoSc
    /\ linked = [c \in Activations |-> None]
    /\ seen = [c \in Activations |-> [w \in Words |-> None]]
    /\ pair = None
    /\ plain = {}
    /\ constrained = FALSE

(* Anything but a store, a load-reserved or a store-conditional. The       *)
(* sequences the architecture promises to succeed are made of base         *)
(* instructions that compute or go forward.                                *)
Compute(set, kind) ==
    /\ kind \in Has(set) \ {"store"}
    /\ CancelUnlessKept(set, kind)
    /\ sc' = NoSc
    /\ constrained' = (constrained /\ set = "I" /\ kind \in {"alu", "near"})
    /\ UNCHANGED <<xlen, memory, thread, depth, linked, seen, pair, plain>>

(* FSD stores two words whatever the register width.                       *)
Store(set, a, n, v) ==
    /\ "store" \in Has(set)
    /\ n \in Sizes \/ set # "I"
    /\ Mapped(a, n)
    /\ Written(a, n, v)
    /\ CancelUnlessKept(set, "store")
    /\ sc' = NoSc
    /\ plain' = IF set = "I" /\ xlen = 64 THEN plain \cup Span(a, n) ELSE plain
    /\ constrained' = FALSE
    /\ UNCHANGED <<xlen, thread, depth, linked, seen, pair>>

(* Atomic memory operations cancel first, then load and store.             *)
Amo(a, n, v) ==
    /\ Mapped(a, n)
    /\ Cancel
    /\ Written(a, n, v)
    /\ sc' = NoSc
    /\ constrained' = FALSE
    /\ UNCHANGED <<xlen, thread, depth, linked, seen, pair, plain>>

LoadReserved(a, n) ==
    /\ Mapped(a, n)
    /\ Reserve(a)
    /\ sc' = NoSc
    /\ linked' = [linked EXCEPT ![Running] = a]
    /\ seen' = [seen EXCEPT ![Running] =
           [w \in Words |-> IF w \in Span(a, n) THEN memory[w] ELSE None]]
    /\ pair' = a
    /\ plain' = {}
    /\ constrained' = TRUE
    /\ UNCHANGED <<xlen, memory, thread, depth>>

StoreConditionalKeeps(a, n, v) ==   \* defect: a success keeps the reservation
    /\ Mapped(a, n)
    /\ IF reserved /\ address = a
       THEN /\ Written(a, n, v) /\ sc' = [addr |-> a, rd |-> 0]
            /\ UNCHANGED manager
       ELSE UNCHANGED memory /\ sc' = [addr |-> a, rd |-> 1] /\ Cancel
    /\ Unlink(Running)
    /\ pair' = None
    /\ plain' = {}
    /\ constrained' = FALSE
    /\ UNCHANGED <<xlen, thread, depth>>

(* The address is compared, not the size; the reservation is gone in       *)
(* either case.                                                            *)
StoreConditional(a, n, v) ==
    /\ Mapped(a, n)
    /\ IF reserved /\ address = a
       THEN Written(a, n, v) /\ sc' = [addr |-> a, rd |-> 0]
       ELSE UNCHANGED memory /\ sc' = [addr |-> a, rd |-> 1]
    /\ Cancel
    /\ Unlink(Running)
    /\ pair' = None
    /\ plain' = {}
    /\ constrained' = FALSE
    /\ UNCHANGED <<xlen, thread, depth>>

(* fence, fence.i, sfence.vma and wfi.                                     *)
Fence ==
    /\ Cancel
    /\ sc' = NoSc
    /\ constrained' = FALSE
    /\ UNCHANGED <<xlen, memory, thread, depth, linked, seen, pair, plain>>

Enter ==
    /\ depth < MaxNesting
    /\ depth' = depth + 1
    /\ Unlink(<<thread, depth + 1>>)
    /\ sc' = NoSc
    /\ constrained' = FALSE
    /\ UNCHANGED <<xlen, memory, thread, pair, plain>>

(* Interrupts, and faults found before execution, leave the reservation.   *)
Trap == Enter /\ UNCHANGED manager

(* ecall and ebreak execute, cancel, and trap afterwards.                  *)
Ecall == Enter /\ Cancel

ReturnKeeps ==                      \* defect: xret without Cancel
    /\ depth > 0
    /\ UNCHANGED manager
    /\ depth' = depth - 1
    /\ IF depth = 1 THEN thread' \in Threads ELSE UNCHANGED thread
    /\ Unlink(Running)
    /\ sc' = NoSc
    /\ constrained' = FALSE
    /\ UNCHANGED <<xlen, memory, pair, plain>>

(* mret, sret and uret.                                                    *)
Return ==
    /\ depth > 0
    /\ Cancel
    /\ depth' = depth - 1
    /\ IF depth = 1 THEN thread' \in Threads ELSE UNCHANGED thread
    /\ Unlink(Running)
    /\ sc' = NoSc
    /\ constrained' = FALSE
    /\ UNCHANGED <<xlen, memory, pair, plain>>

Next ==
    \/ \E set \in Sets, kind \in Kinds : Compute(set, kind)
    \/ \E set \in Sets, a \in Words, n \in {1, 2}, v \in Values :
           Store(set, a, n, v)
    \/ \E a \in Words, n \in Sizes, v \in Values : Amo(a, n, v)
    \/ \E a \in Words, n \in Sizes : LoadReserved(a, n)
    \/ \E a \in Words, n \in Sizes, v \in Values : StoreConditional(a, n, v)
    \/ Fence
    \/ Trap
    \/ Ecall
    \/ Return

Spec == Init /\ [][Next]_vars

-----------------------------------------------------------------------------
(* Every variable stays in its range.                                      *)
TypeOK ==
    /\ xlen \in {32, 64}
    /\ reserved \in BOOLEAN
    /\ address \in Words
    /\ memory \in [Words -> Values]
    /\ thread \in Threads
    /\ depth \in 0 .. MaxNesting
    /\ sc \in [addr : Words \cup {None}, rd : {0, 1}]
    /\ linked \in [Activations -> Words \cup {None}]
    /\ seen \in [Activations -> [Words -> Values \cup {None}]]
    /\ pair \in Words \cup {None}
    /\ plain \subseteq Words
    /\ constrained \in BOOLEAN

(* A step stored conditionally.                                            *)
Succeeds == sc'.addr # None /\ sc'.rd = 0

(* Executor::ProcessRV32A_Store and its 64-bit forms: a store-conditional  *)
(* succeeds only at the address of the newest load-reserved of the hart,   *)
(* and only if no store-conditional has run since: one load-reserved       *)
(* admits at most one success.                                             *)
ScPaired == [][Succeeds => pair = sc'.addr]_vars

(* Cancellation in traps' returns, stores and atomics: when an activation  *)
(* that has loaded reserved itself succeeds, it is at the address it       *)
(* loaded, and every word it saw is unchanged, whatever handlers or other  *)
(* threads ran in between. Only stores of RV64I, which do not cancel, are  *)
(* overlooked.                                                             *)
ScSound ==
    [][Succeeds /\ linked[Running] # None =>
           /\ linked[Running] = sc'.addr
           /\ \A w \in Words :
                  seen[Running][w] \notin {None, memory[w]} =>
                      xlen = 64 /\ w \in plain]_vars

(* Forward progress of the constrained loop: a store-conditional to the    *)
(* newest load-reserved, with nothing but base instructions that compute   *)
(* or branch forward in between, never fails.                              *)
ScProgress ==
    [][constrained /\ sc'.addr = pair => sc'.rd = 0]_vars
=============================================================================
