------------------------------- MODULE Hart -------------------------------
(***************************************************************************)
(* The privileged architecture of the hart: one step is one call of        *)
(* Processor::ProcessCycle (cpu/Processor.cpp), which refreshes the        *)
(* pending interrupts (cpu/InterruptController.cpp), then either enters an *)
(* interrupt handler (cpu/TrapProcessor.cpp) or fetches and executes one   *)
(* instruction (cpu/Executor.cpp).                                         *)
(*                                                                         *)
(* The timer source is an input of the cycle: t says whether it requests   *)
(* an interrupt. Instructions that touch neither the privilege state nor   *)
(* the trap registers are one action, Ordinary. Scratch, cause and trap    *)
(* value registers are written and never read back by the emulator and are *)
(* left out; the cause of the last trap is in event.                       *)
(***************************************************************************)
EXTENDS Csr

CONSTANTS
    AddressSpace,   \* number of addresses; program counters wrap around it
    InitialPc,      \* the program counter after reset
    JumpTargets,    \* addresses that jumps and branches lead to
    SoftwareCsrs,   \* the CSRs that software accesses
    StatusValues,   \* what software writes to xstatus, as sets of bits
    MaskValues,     \* what software writes to xie and xip
    DelegValues,    \* what software writes to the delegation registers
    TvecValues,     \* what software writes to xtvec
    EpcValues       \* what software writes to xepc

Address == 0 .. AddressSpace - 1
Tvec    == [base : Address, mode : 0 .. 3]

ASSUME AddressSpaceAssumption == AddressSpace \in Nat \ {0}
ASSUME PcAssumption ==
    /\ InitialPc \in Address
    /\ JumpTargets \subseteq Address
    /\ EpcValues \subseteq Address
ASSUME ValuesAssumption ==
    /\ \A v \in StatusValues : v \subseteq 0 .. 63
    /\ \A v \in MaskValues : v \subseteq 0 .. 63
    /\ \A v \in DelegValues : v \subseteq 0 .. 31
    /\ TvecValues \subseteq Tvec
    /\ SoftwareCsrs \subseteq CsrNames

VARIABLES
    running,    \* no RafiEmuException has left ProcessCycle
    priv,       \* m_PrivilegeLevel
    pc,         \* m_ProgramCounter
    status,     \* m_Status
    ie,         \* m_InterruptEnable
    ip,         \* m_InterruptPending
    deleg,      \* medeleg, mideleg, sedeleg, sideleg
    tvec,       \* the trap vector register of each level
    epc,        \* the exception program counter of each level
    event       \* m_TrapEvent

regs == <<ie, deleg, tvec>>
vars == <<running, priv, pc, status, ie, ip, deleg, tvec, epc, event>>

NoEvent == [type |-> "None", from |-> User, to |-> User, cause |-> 0]
Event   == [type : {"None", "Interrupt", "Exception", "Return"},
            from : PrivLevels, to : PrivLevels, cause : 0 .. 15]

TypeOK ==
    /\ running \in BOOLEAN
    /\ priv \in PrivLevels
    /\ pc \in Address
    /\ status \in SUBSET StatusWriteMask
    /\ ie \in SUBSET Interrupts
    /\ ip \in SUBSET Interrupts
    /\ deleg \in [DelegCsrs -> SUBSET (0 .. 31)]
    /\ tvec \in [Levels -> Tvec]
    /\ epc \in [Levels -> Address]
    /\ event \in Event

Init ==
    /\ running = TRUE
    /\ priv = Machine
    /\ pc = InitialPc
    /\ status = {}
    /\ ie = {}
    /\ ip = {}
    /\ deleg = [c \in DelegCsrs |-> {}]
    /\ tvec = [l \in Levels |-> [base |-> 0, mode |-> 0]]
    /\ epc = [l \in Levels |-> 0]
    /\ event = NoEvent

-----------------------------------------------------------------------------
(* InterruptController.                                                    *)

(* The pending bit, of the three for one source, that UpdateCsr sets: the  *)
(* delegation registers are shifted and compared with 0, so any delegated  *)
(* code at or above the tested one counts.                                 *)
PendingBit(mbit, sbit, ubit) ==
    IF \A b \in deleg["mideleg"] : b < mbit THEN mbit
    ELSE IF \A b \in deleg["sideleg"] : b < sbit THEN sbit
    ELSE ubit

(* UpdateCsr: timer and external bits follow the timer source; both groups *)
(* are recomputed from the same source.                                    *)
UpdateCsr(t) ==
    (ip \ (TimerBits \cup ExternalBits))
        \cup IF t THEN {PendingBit(MTI, STI, UTI), PendingBit(MEI, SEI, UEI)}
                  ELSE {}

(* The global enable bit that gates every interrupt at level l.            *)
EnableBit(l) ==
    CASE l = Machine -> MIE [] l = Supervisor -> SIE [] OTHER -> UIE

(* Position of an interrupt in the fixed order Update tries them in.       *)
Rank(i) ==
    CASE i = MEI -> 1 [] i = MTI -> 2 [] i = MSI -> 3
      [] i = SEI -> 4 [] i = STI -> 5 [] i = SSI -> 6
      [] i = UEI -> 7 [] i = UTI -> 8 [] OTHER   -> 9

IsRequested(pd) == EnableBit(priv) \in status /\ ie \cap pd # {}

InterruptType(pd) ==
    CHOOSE i \in ie \cap pd : \A j \in ie \cap pd : Rank(i) <= Rank(j)

-----------------------------------------------------------------------------
(* TrapProcessor.                                                          *)

(* The level a trap is delegated to; the current level plays no part.      *)
Delegated(code, m, s) ==
    IF code \notin deleg[m] THEN Machine
    ELSE IF code \notin deleg[s] THEN Supervisor
    ELSE User

SaveContextEnabled(v, p, l) ==      \* defect: the enable bit is not cleared
    CASE l = Machine    -> SetMPP(SetBit(v, MPIE, MIE \in v), p)
      [] l = Supervisor -> SetSPP(SetBit(v, SPIE, SIE \in v), p)
      [] OTHER          -> SetBit(v, UPIE, UIE \in v)

SaveContextNoPie(v, p, l) ==        \* defect: the enable bit is not saved
    CASE l = Machine    -> SetMPP(SetBit(v, MIE, FALSE), p)
      [] l = Supervisor -> SetSPP(SetBit(v, SIE, FALSE), p)
      [] OTHER          -> SetBit(v, UIE, FALSE)

(* A trap from level p into level l: the enable bit moves to its           *)
(* previous-enable bit and p is recorded, in the value v of the status CSR *)
(* of level l, which is then written back.                                 *)
SaveContext(v, p, l) ==
    CASE l = Machine ->
             SetMPP(SetBit(SetBit(v, MPIE, MIE \in v), MIE, FALSE), p)
      [] l = Supervisor ->
             SetSPP(SetBit(SetBit(v, SPIE, SIE \in v), SIE, FALSE), p)
      [] OTHER ->
             SetBit(SetBit(v, UPIE, UIE \in v), UIE, FALSE)

TrapStatus(p, l) ==
    WriteStatus(status, SaveContext(ReadStatus(status, l), p, l), l)

(* Where a trap enters the handler of level l.                             *)
TrapPc(l, interrupt, code) ==
    IF interrupt /\ tvec[l].mode = 1
    THEN (tvec[l].base + 4 * code) % AddressSpace
    ELSE tvec[l].base

(* ProcessTrapEnter. The level is changed before the event is filled in,   *)
(* so the event names the new level twice.                                 *)
ProcessTrapEnter(interrupt, code, l) ==
    /\ priv' = l
    /\ status' = TrapStatus(priv, l)
    /\ epc' = [epc EXCEPT ![l] = pc]
    /\ pc' = TrapPc(l, interrupt, code)
    /\ event' = [type |-> IF interrupt THEN "Interrupt" ELSE "Exception",
                 from |-> l, to |-> l, cause |-> code]
    /\ UNCHANGED <<running, regs>>

ProcessException(code) ==
    ProcessTrapEnter(FALSE, code, Delegated(code, "medeleg", "sedeleg"))

ProcessInterrupt(code) ==
    ProcessTrapEnter(TRUE, code, Delegated(code, "mideleg", "sideleg"))

ReturnStatusMasked(l) ==            \* defect: the enable bit is not restored
    LET v == ReadStatus(status, l) IN
    IF l = Machine
    THEN WriteStatus(status, SetMPP(v, User), l)
    ELSE WriteStatus(status, SetSPP(v, User), l)

(* ProcessTrapReturn. The previous-enable bit keeps its value, and an sret *)
(* writes sstatus as a whole.                                              *)
ReturnStatus(l) ==
    LET v == ReadStatus(status, l) IN
    IF l = Machine
    THEN WriteStatus(status, SetMPP(SetBit(v, MIE, MPIE \in v), User), l)
    ELSE WriteStatus(status, SetSPP(SetBit(v, SIE, SPIE \in v), User), l)

ProcessTrapReturn(l) ==
    /\ priv' = IF l = Machine THEN GetMPP(status) ELSE GetSPP(status)
    /\ status' = ReturnStatus(l)
    /\ pc' = epc[l]
    /\ event' = [type |-> "Return", from |-> priv, to |-> priv', cause |-> 0]
    /\ UNCHANGED <<running, regs, epc>>

-----------------------------------------------------------------------------
(* The cycle.                                                              *)

AdvanceFar(n) == pc + n             \* defect: no wrap at the end of the space

Advance(n) == (pc + n) % AddressSpace

(* An instruction is executed: no interrupt is requested.                  *)
Execute(t) ==
    /\ running
    /\ priv \in Levels
    /\ ~IsRequested(UpdateCsr(t))
    /\ ip' = UpdateCsr(t)

(* An instruction that leaves the privilege state alone.                   *)
Retire(n) ==
    /\ pc' = Advance(n)
    /\ event' = NoEvent
    /\ UNCHANGED <<running, priv, regs, status, epc>>

Interrupt(t) ==
    /\ running
    /\ priv \in Levels
    /\ IsRequested(UpdateCsr(t))
    /\ ip' = UpdateCsr(t)
    /\ ProcessInterrupt(InterruptType(UpdateCsr(t)))

(* Update throws at the reserved level: the exception leaves the cycle.    *)
ReservedLevel(t) ==
    /\ running
    /\ priv = Reserved
    /\ ip' = UpdateCsr(t)
    /\ running' = FALSE
    /\ event' = NoEvent
    /\ UNCHANGED <<priv, pc, status, regs, epc>>

(* A failed translation, in the fetch or in the check before a load, store *)
(* or atomic, and an instruction the decoder does not know.                *)
Fault(t, code) ==
    /\ Execute(t)
    /\ code \in {IllegalInstruction, InstructionPageFault, LoadPageFault,
                 StorePageFault}
    /\ ProcessException(code)

Ecall(t)  == Execute(t) /\ ProcessException(EcallFrom(priv))
Ebreak(t) == Execute(t) /\ ProcessException(Breakpoint)

Mret(t) ==
    /\ Execute(t)
    /\ \/ priv \in {User, Supervisor} /\ ProcessException(IllegalInstruction)
       \/ priv = Machine /\ ProcessTrapReturn(Machine)

SretUnchecked(t) ==                 \* defect: sret is legal at every level
    Execute(t) /\ ProcessTrapReturn(Supervisor)

Sret(t) ==
    LET illegal == priv = User \/ (priv = Supervisor /\ TSR \in status) IN
    /\ Execute(t)
    /\ \/ illegal /\ ProcessException(IllegalInstruction)
       \/ ~illegal /\ ProcessTrapReturn(Supervisor)

(* uret passes the check and ends in the default branch of                 *)
(* ProcessTrapReturn, which throws after the program counter has moved.    *)
Uret(t) ==
    /\ Execute(t)
    /\ running' = FALSE
    /\ pc' = Advance(4)
    /\ event' = NoEvent
    /\ UNCHANGED <<priv, status, regs, epc>>

(* wfi does not wait.                                                      *)
Wfi(t) ==
    LET illegal == priv = User \/ (priv = Supervisor /\ TW \in status) IN
    /\ Execute(t)
    /\ \/ illegal /\ ProcessException(IllegalInstruction)
       \/ ~illegal /\ Retire(4)

SfenceVma(t) ==
    LET illegal == priv = User \/ (priv = Supervisor /\ TVM \in status) IN
    /\ Execute(t)
    /\ \/ illegal /\ ProcessException(IllegalInstruction)
       \/ ~illegal /\ Retire(4)

(* A floating-point instruction: illegal while FS is off, marks FS dirty.  *)
FpOp(t) ==
    /\ Execute(t)
    /\ \/ status \cap FS = {} /\ ProcessException(IllegalInstruction)
       \/ /\ status \cap FS # {}
          /\ status' = status \cup FS
          /\ pc' = Advance(4)
          /\ event' = NoEvent
          /\ UNCHANGED <<running, priv, regs, epc>>

(* Everything else: arithmetic, memory accesses, jumps and branches.       *)
Ordinary(t) ==
    /\ Execute(t)
    /\ pc' \in {Advance(2), Advance(4)} \cup JumpTargets
    /\ event' = NoEvent
    /\ UNCHANGED <<running, priv, regs, status, epc>>

(* A store to the msip register of the CLINT, which writes xip directly.   *)
StoreMsip(t, set) ==
    /\ running
    /\ priv \in Levels
    /\ ~IsRequested(UpdateCsr(t))
    /\ ip' = SetBit(UpdateCsr(t), MSI, set)
    /\ Retire(4)

-----------------------------------------------------------------------------
(* CSR instructions. Whatever the operation and its operand, the CSR is    *)
(* written: csrrs and csrrc with rs1 = x0 write the view they read back.   *)

ReadCsr(c, pd) ==
    CASE c \in StatusCsrs  -> ReadStatus(status, CsrLevel(c))
      [] c \in EnableCsrs  -> ie \cap InterruptMask(CsrLevel(c))
      [] c \in PendingCsrs -> pd \cap InterruptMask(CsrLevel(c))
      [] OTHER             -> deleg[c]

CsrOperands(c) ==
    CASE c \in StatusCsrs -> StatusValues
      [] c \in EnableCsrs \cup PendingCsrs -> MaskValues
      [] OTHER -> DelegValues

(* csrrw, csrrs and csrrc: what is written to a CSR of value old.          *)
Written(old, v) == {v, old \cup v, old \ v, old}

WriteBits(c, v, pd) ==
    /\ status' = IF c \in StatusCsrs
                 THEN WriteStatus(status, v, CsrLevel(c)) ELSE status
    /\ ie' = IF c \in EnableCsrs THEN WriteEnable(ie, v, CsrLevel(c)) ELSE ie
    /\ ip' = IF c \in PendingCsrs THEN WritePending(pd, v, CsrLevel(c)) ELSE pd
    /\ deleg' = IF c \in DelegCsrs THEN [deleg EXCEPT ![c] = v] ELSE deleg
    /\ UNCHANGED <<tvec, epc>>

WriteTvec(c, v, pd) ==
    /\ ip' = pd
    /\ tvec' = [tvec EXCEPT ![CsrLevel(c)] = v]
    /\ UNCHANGED <<status, ie, deleg, epc>>

WriteEpc(c, v, pd) ==
    /\ ip' = pd
    /\ epc' = [epc EXCEPT ![CsrLevel(c)] = v]
    /\ UNCHANGED <<status, ie, deleg, tvec>>

(* satp steers address translation only.                                   *)
WriteSatp(pd) ==
    /\ ip' = pd
    /\ UNCHANGED <<status, ie, deleg, tvec, epc>>

CsrIllegal(t, c) ==
    /\ Execute(t)
    /\ CheckTrap(c, priv, status)
    /\ ProcessException(IllegalInstruction)

CsrOp(t, c) ==
    LET pd == UpdateCsr(t) IN
    /\ running
    /\ priv \in Levels
    /\ ~IsRequested(pd)
    /\ ~CheckTrap(c, priv, status)
    /\ \/ /\ c \in BitCsrs
          /\ \E v \in CsrOperands(c) :
                \E w \in Written(ReadCsr(c, pd), v) : WriteBits(c, w, pd)
       \/ c \in TvecCsrs /\ \E v \in TvecValues : WriteTvec(c, v, pd)
       \/ c \in EpcCsrs /\ \E v \in EpcValues : WriteEpc(c, v, pd)
       \/ c = "satp" /\ WriteSatp(pd)
    /\ pc' = Advance(4)
    /\ event' = NoEvent
    /\ UNCHANGED <<running, priv>>

-----------------------------------------------------------------------------
Cycle(t) ==
    \/ Interrupt(t) \/ ReservedLevel(t)
    \/ \E code \in Exceptions : Fault(t, code)
    \/ Ecall(t) \/ Ebreak(t)
    \/ Mret(t) \/ Sret(t) \/ Uret(t)
    \/ Wfi(t) \/ SfenceVma(t) \/ FpOp(t) \/ Ordinary(t)
    \/ \E set \in BOOLEAN : StoreMsip(t, set)
    \/ \E c \in SoftwareCsrs : CsrIllegal(t, c) \/ CsrOp(t, c)

Next == \E t \in BOOLEAN : Cycle(t)

Spec == Init /\ [][Next]_vars

-----------------------------------------------------------------------------
(* Properties.                                                             *)

IsTrapEntry(e) == e.type \in {"Interrupt", "Exception"}

(* The addresses at which the vector register of level l lets traps enter. *)
HandlerEntries(l) ==
    {tvec[l].base} \cup
        {(tvec[l].base + 4 * code) % AddressSpace :
            code \in {i \in Interrupts : tvec[l].mode = 1}}

(* Control reaches a higher level only through a trap, and only at an      *)
(* address that level itself installed in its vector register: no sret,    *)
(* mret or CSR instruction raises the privilege level (ProcessTrapEnter,   *)
(* ProcessTrapReturn and the checks of PreCheckTrap_Priv).                 *)
PrivilegeRisesThroughVector ==
    [][priv' > priv => /\ IsTrapEntry(event')
                       /\ pc' \in HandlerEntries(priv')]_vars

(* While the hart stays below machine level, the machine's delegation and  *)
(* trap registers and its interrupt enables keep their values, whatever    *)
(* software does with the S and U views (Csr::CheckTrap, xie_t masks).     *)
MachineStateProtected ==
    [][priv # Machine /\ priv' # Machine =>
          /\ deleg'["medeleg"] = deleg["medeleg"]
          /\ deleg'["mideleg"] = deleg["mideleg"]
          /\ tvec'[Machine] = tvec[Machine]
          /\ epc'[Machine] = epc[Machine]
          /\ ie' \cap {MSI, MTI, MEI} = ie \cap {MSI, MTI, MEI}]_vars

(* Below machine level the machine-only fields of xstatus (MPP, MPIE, MIE, *)
(* MPRV, TVM, TW, TSR) are never set, by a trap, a return or a CSR write;  *)
(* they may be cleared, because every write of sstatus or ustatus goes     *)
(* through Csr::WriteStatus with the whole write mask.                     *)
MachineFieldsNeverSetBelow ==
    [][priv # Machine /\ priv' # Machine =>
          status' \cap StatusMachineFields \subseteq status]_vars

(* The first cycle of a trap handler is never taken by another interrupt:  *)
(* the entry leaves the enable bit of the level it enters clear, so the    *)
(* handler can save epc and status (ProcessTrapEnter, Update).             *)
HandlerStartsMasked ==
    [][IsTrapEntry(event) => event'.type # "Interrupt"]_vars

(* The timer is pending at no more than one level, however software writes *)
(* xip and moves the delegation between cycles (UpdateCsr, xip WriteMask). *)
OneTimerPending ==
    \A i, j \in ip \cap TimerBits : i = j

(* The level whose permissions a load or store has                         *)
(* (MemoryAccessUnit::GetEffectivePrivilegeLevel).                         *)
DataLevel == IF MPRV \in status THEN GetMPP(status) ELSE priv

(* Loads and stores never have more privilege than the level of the code   *)
(* that makes them. MPRV survives mret, and nothing asks the current level *)
(* before MPP is used instead of it, so this rests on every way down from  *)
(* machine level clearing MPP (ProcessTrapReturn, Csr::WriteStatus).       *)
DataLevelBounded == DataLevel <= priv

(* No external interrupt is ever taken: the only external source, the      *)
(* PLIC, never requests one, and the source behind t is there for the      *)
(* timer interrupt (Clint::IsInterruptRequested).                          *)
ExternalNeverTaken ==
    [][event'.type = "Interrupt" => event'.cause \notin ExternalBits]_vars
=============================================================================
