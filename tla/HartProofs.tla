---------------------------- MODULE HartProofs ----------------------------
(* Theorems about Hart and about the trap frames of HartFrames, for every  *)
(* value of their constants.                                               *)
EXTENDS HartFrames, TLAPS

-----------------------------------------------------------------------------
(* Helpers.                                                                *)

(* Every address computed modulo the address space is an address.          *)
LEMMA WrapType ==
    ASSUME NEW a \in Nat
    PROVE  a % AddressSpace \in Address
  BY AddressSpaceAssumption DEF Address

(* Program counters stay addresses when they advance or enter a handler.   *)
LEMMA PcType ==
    ASSUME TypeOK
    PROVE  /\ \A n \in Nat : Advance(n) \in Address
           /\ \A l \in Levels, b \in BOOLEAN, code \in Nat :
                 TrapPc(l, b, code) \in Address
  <1>1. ASSUME NEW n \in Nat
        PROVE  Advance(n) \in Address
    <2>1. pc + n \in Nat
      BY AddressSpaceAssumption DEF TypeOK, Address
    <2> QED  BY <2>1, WrapType DEF Advance
  <1>2. ASSUME NEW l \in Levels, NEW b \in BOOLEAN, NEW code \in Nat
        PROVE  TrapPc(l, b, code) \in Address
    <2>1. tvec[l] \in Tvec
      BY DEF TypeOK
    <2>2. tvec[l].base \in Address /\ tvec[l].base + 4 * code \in Nat
      BY <2>1, AddressSpaceAssumption DEF Tvec, Address
    <2> QED  BY <2>2, WrapType DEF TrapPc
  <1> QED  BY <1>1, <1>2

(* What is stored in the status register is writable.                      *)
LEMMA StatusType ==
    ASSUME NEW st \in SUBSET StatusWriteMask, NEW v, NEW l
    PROVE  WriteStatus(st, v, l) \in SUBSET StatusWriteMask
  BY DEF WriteStatus

LEMMA PendingType ==
    ASSUME TypeOK, NEW t
    PROVE  UpdateCsr(t) \in SUBSET Interrupts
  BY DEF TypeOK, UpdateCsr, PendingBit, Interrupts, TimerBits, ExternalBits,
         MTI, STI, UTI, MEI, SEI, UEI

(* Some requested interrupt comes first in the order Update tries them in, *)
(* and that is the one whose type is reported.                             *)
LEMMA HighestPriority ==
    ASSUME NEW pd \in SUBSET Interrupts, ie \cap pd # {}
    PROVE  /\ InterruptType(pd) \in ie \cap pd
           /\ \A j \in ie \cap pd : Rank(InterruptType(pd)) <= Rank(j)
  <1> DEFINE S == ie \cap pd
  <1>1. \A i \in S : i \in {MEI, MTI, MSI, SEI, STI, SSI, UEI, UTI, USI}
    BY DEF Interrupts, TimerBits, ExternalBits, SoftwareBits
  <1>2. \E i \in S : \A j \in S : Rank(i) <= Rank(j)
    BY <1>1 DEF Rank, USI, SSI, MSI, UTI, STI, MTI, UEI, SEI, MEI
  <1> QED  BY <1>2 DEF InterruptType

(* A trap, delegated anywhere, preserves the types.                        *)
LEMMA TrapEnterType ==
    ASSUME TypeOK, NEW interrupt \in BOOLEAN, NEW code \in 0 .. 15,
           NEW l \in Levels, ip' \in SUBSET Interrupts,
           ProcessTrapEnter(interrupt, code, l)
    PROVE  TypeOK'
  <1>1. l \in PrivLevels
    BY DEF Levels, PrivLevels, User, Supervisor, Machine
  <1>2. status' \in SUBSET StatusWriteMask
    BY StatusType DEF ProcessTrapEnter, TrapStatus, TypeOK
  <1>3. pc' \in Address
    BY PcType DEF ProcessTrapEnter
  <1>4. epc' \in [Levels -> Address]
    BY DEF ProcessTrapEnter, TypeOK
  <1>5. event' \in Event
    BY <1>1 DEF ProcessTrapEnter, Event
  <1> QED
    BY <1>1, <1>2, <1>3, <1>4, <1>5 DEF ProcessTrapEnter, TypeOK, regs

LEMMA DelegatedType ==
    ASSUME NEW code, NEW m, NEW s
    PROVE  Delegated(code, m, s) \in Levels
  BY DEF Delegated, Levels

LEMMA ExceptionType ==
    ASSUME TypeOK, NEW code \in 0 .. 15, ip' \in SUBSET Interrupts,
           ProcessException(code)
    PROVE  TypeOK'
  BY TrapEnterType, DelegatedType DEF ProcessException

LEMMA ReturnType ==
    ASSUME TypeOK, NEW l \in Levels, ip' \in SUBSET Interrupts,
           ProcessTrapReturn(l)
    PROVE  TypeOK'
  <1>1. GetMPP(status) \in PrivLevels /\ GetSPP(status) \in PrivLevels
    BY DEF GetMPP, GetSPP, PrivLevels, User, Machine
  <1>2. status' \in SUBSET StatusWriteMask
    BY StatusType DEF ProcessTrapReturn, ReturnStatus, TypeOK
  <1>3. priv' \in PrivLevels
    BY <1>1 DEF ProcessTrapReturn
  <1>4. event' \in Event
    BY <1>3 DEF ProcessTrapReturn, Event, TypeOK
  <1> QED
    BY <1>2, <1>3, <1>4 DEF ProcessTrapReturn, TypeOK, regs

LEMMA RetireType ==
    ASSUME TypeOK, NEW n \in Nat, ip' \in SUBSET Interrupts, Retire(n)
    PROVE  TypeOK'
  <1>1. NoEvent \in Event
    BY DEF NoEvent, Event, PrivLevels, User, Machine
  <1> QED
    BY <1>1, PcType DEF Retire, TypeOK, regs

(* The values software writes to a CSR are of the type of the register.    *)
LEMMA CsrOpType ==
    ASSUME TypeOK, NEW t, NEW c \in CsrNames, CsrOp(t, c)
    PROVE  TypeOK'
  <1> DEFINE pd == UpdateCsr(t)
  <1>1. pd \in SUBSET Interrupts
    BY PendingType
  <1>2. /\ NoEvent \in Event
        /\ Advance(4) \in Address
    BY PcType DEF NoEvent, Event, PrivLevels, User, Machine
  <1>3. /\ running' \in BOOLEAN /\ priv' \in PrivLevels
        /\ pc' \in Address /\ event' \in Event
    BY <1>2 DEF CsrOp, TypeOK
  <1> HIDE DEF pd
  <1>4. CASE \E v \in CsrOperands(c) :
               \E w \in Written(ReadCsr(c, pd), v) : WriteBits(c, w, pd)
    <2> PICK v \in CsrOperands(c) :
              \E w \in Written(ReadCsr(c, pd), v) : WriteBits(c, w, pd)
      BY <1>4
    <2> PICK w \in Written(ReadCsr(c, pd), v) : WriteBits(c, w, pd)
      OBVIOUS
    <2>1. status' \in SUBSET StatusWriteMask
      BY StatusType DEF WriteBits, TypeOK
    <2>2. \A l : InterruptMask(l) \subseteq Interrupts
      BY DEF InterruptMask, Interrupts, TimerBits, ExternalBits, SoftwareBits,
             USI, SSI, MSI, UTI, STI, MTI, UEI, SEI, MEI
    <2>3. ie' \in SUBSET Interrupts /\ ip' \in SUBSET Interrupts
      BY <1>1, <2>2 DEF WriteBits, WriteEnable, WritePending, SetWithMask, TypeOK
    <2>4. ASSUME c \in DelegCsrs PROVE w \subseteq 0 .. 31
      <3>1. CsrOperands(c) = DelegValues /\ ReadCsr(c, pd) = deleg[c]
        BY <2>4 DEF CsrOperands, ReadCsr, DelegCsrs, StatusCsrs, EnableCsrs,
                    PendingCsrs
      <3> QED  BY <2>4, <3>1, ValuesAssumption DEF Written, TypeOK
    <2>5. deleg' \in [DelegCsrs -> SUBSET (0 .. 31)]
      BY <2>4 DEF WriteBits, TypeOK
    <2> QED
      BY <1>3, <2>1, <2>3, <2>5 DEF WriteBits, TypeOK
  <1>5. CASE c \in TvecCsrs /\ \E v \in TvecValues : WriteTvec(c, v, pd)
    BY <1>1, <1>3, <1>5, ValuesAssumption DEF WriteTvec, TypeOK
  <1>6. CASE c \in EpcCsrs /\ \E v \in EpcValues : WriteEpc(c, v, pd)
    BY <1>1, <1>3, <1>6, PcAssumption DEF WriteEpc, TypeOK
  <1>7. CASE c = "satp" /\ WriteSatp(pd)
    BY <1>1, <1>3, <1>7 DEF WriteSatp, TypeOK
  <1> QED
    BY <1>4, <1>5, <1>6, <1>7 DEF CsrOp, pd

-----------------------------------------------------------------------------
LEMMA InitType == Init => TypeOK
  BY PcAssumption, AddressSpaceAssumption
     DEF Init, TypeOK, Address, Tvec, Levels, PrivLevels, NoEvent, Event, User,
         Supervisor, Machine

LEMMA NextType == TypeOK /\ [Next]_vars => TypeOK'
  <1> SUFFICES ASSUME TypeOK, [Next]_vars
               PROVE  TypeOK'
    OBVIOUS
  <1>1. CASE UNCHANGED vars
    BY <1>1 DEF vars, TypeOK
  <1>2. CASE Next
    <2> PICK t \in BOOLEAN : Cycle(t)
      BY <1>2 DEF Next
    <2>1. UpdateCsr(t) \in SUBSET Interrupts
      BY PendingType
    <2>2. ASSUME Execute(t) PROVE ip' \in SUBSET Interrupts
      BY <2>1, <2>2 DEF Execute
    <2>3. NoEvent \in Event /\ Advance(2) \in Address /\ Advance(4) \in Address
      BY PcType DEF NoEvent, Event, PrivLevels, User, Machine
    <2>4. \A code \in Exceptions \cup Interrupts : code \in 0 .. 15
      BY DEF Exceptions, Interrupts, TimerBits, ExternalBits, SoftwareBits,
             USI, SSI, MSI, UTI, STI, MTI, UEI, SEI, MEI, IllegalInstruction,
             Breakpoint, InstructionPageFault, LoadPageFault, StorePageFault,
             EcallFrom, Levels, User, Supervisor, Machine
    <2>5. IllegalInstruction \in 0 .. 15 /\ Breakpoint \in 0 .. 15
      BY DEF IllegalInstruction, Breakpoint
    <2>6. CASE Interrupt(t)
      <3> DEFINE pd == UpdateCsr(t)
      <3>1. ie \cap pd # {}
        BY <2>6 DEF Interrupt, IsRequested
      <3>2. InterruptType(pd) \in 0 .. 15
        BY <2>1, <2>4, <3>1, HighestPriority
      <3> QED
        BY <2>1, <2>6, <3>2, TrapEnterType, DelegatedType
           DEF Interrupt, ProcessInterrupt
    <2>7. CASE ReservedLevel(t)
      BY <2>1, <2>3, <2>7 DEF ReservedLevel, TypeOK, regs
    <2>8. CASE \E code \in Exceptions : Fault(t, code)
      BY <2>2, <2>4, <2>8, ExceptionType DEF Fault
    <2>9. CASE Ecall(t)
      <3>1. EcallFrom(priv) \in 0 .. 15
        BY <2>9 DEF Ecall, Execute, EcallFrom, Levels, User, Supervisor, Machine
      <3> QED  BY <2>2, <2>9, <3>1, ExceptionType DEF Ecall
    <2>10. CASE Ebreak(t)
      BY <2>2, <2>5, <2>10, ExceptionType DEF Ebreak
    <2>11. CASE Mret(t)
      BY <2>2, <2>5, <2>11, ExceptionType, ReturnType DEF Mret, Levels
    <2>12. CASE Sret(t)
      BY <2>2, <2>5, <2>12, ExceptionType, ReturnType DEF Sret, Levels
    <2>13. CASE Uret(t)
      BY <2>2, <2>3, <2>13 DEF Uret, TypeOK, regs
    <2>14. CASE Wfi(t)
      BY <2>2, <2>5, <2>14, ExceptionType, RetireType DEF Wfi
    <2>15. CASE SfenceVma(t)
      BY <2>2, <2>5, <2>15, ExceptionType, RetireType DEF SfenceVma
    <2>16. CASE FpOp(t)
      <3>1. CASE ProcessException(IllegalInstruction)
        BY <2>2, <2>5, <2>16, <3>1, ExceptionType DEF FpOp
      <3>2. CASE status' = status \cup FS /\ pc' = Advance(4) /\ event' = NoEvent
                 /\ UNCHANGED <<running, priv, regs, epc>>
        BY <2>2, <2>3, <2>16, <3>2 DEF FpOp, TypeOK, regs, StatusWriteMask
      <3> QED  BY <2>16, <3>1, <3>2 DEF FpOp
    <2>17. CASE Ordinary(t)
      BY <2>2, <2>3, <2>17, PcAssumption DEF Ordinary, TypeOK, regs
    <2>18. CASE \E set \in BOOLEAN : StoreMsip(t, set)
      <3> PICK set \in BOOLEAN : StoreMsip(t, set)
        BY <2>18
      <3>1. ip' \in SUBSET Interrupts
        BY <2>1 DEF StoreMsip, SetBit, Interrupts, SoftwareBits
      <3> QED  BY <3>1, RetireType DEF StoreMsip
    <2>19. CASE \E c \in SoftwareCsrs : CsrIllegal(t, c)
      BY <2>2, <2>5, <2>19, ExceptionType DEF CsrIllegal
    <2>20. CASE \E c \in SoftwareCsrs : CsrOp(t, c)
      BY <2>20, ValuesAssumption, CsrOpType
    <2> QED
      BY <2>6, <2>7, <2>8, <2>9, <2>10, <2>11, <2>12, <2>13, <2>14, <2>15,
         <2>16, <2>17, <2>18, <2>19, <2>20 DEF Cycle
  <1> QED  BY <1>1, <1>2

(* In every state of every execution the registers hold values of their    *)
(* types: no operation stores a bit that the register does not have.       *)
THEOREM TypeCorrect == Spec => []TypeOK
  BY InitType, NextType, PTL DEF Spec

-----------------------------------------------------------------------------
(* The shape of a step, for the action properties.                         *)

TrapStep ==
    \E interrupt \in BOOLEAN, code \in 0 .. 15, l \in Levels :
        /\ interrupt => code \in Interrupts /\ EnableBit(priv) \in status
        /\ ProcessTrapEnter(interrupt, code, l)

ReturnStep ==
    \E l \in {Supervisor, Machine} : priv \in {l, Machine} /\ ProcessTrapReturn(l)

CsrStep == \E t \in BOOLEAN, c \in CsrNames : CsrOp(t, c)

QuietStep ==
    /\ event' = NoEvent
    /\ status' \in {status, status \cup FS}
    /\ UNCHANGED <<priv, regs, epc>>

(* Exceptions are trap steps, whatever the level they are delegated to.    *)
LEMMA ExceptionStep ==
    ASSUME NEW code \in 0 .. 15, ProcessException(code)
    PROVE  TrapStep
  <1> DEFINE l == Delegated(code, "medeleg", "sedeleg")
  <1>1. l \in Levels
    BY DelegatedType
  <1>2. ProcessTrapEnter(FALSE, code, l)
    BY DEF ProcessException
  <1> HIDE DEF l
  <1> QED  BY <1>1, <1>2 DEF TrapStep

LEMMA StepShape ==
    ASSUME TypeOK, Next
    PROVE  TrapStep \/ ReturnStep \/ CsrStep \/ QuietStep
  <1> PICK t \in BOOLEAN : Cycle(t)
    BY DEF Next
  <1>1. IllegalInstruction \in 0 .. 15 /\ Breakpoint \in 0 .. 15
    BY DEF IllegalInstruction, Breakpoint
  <1>2. CASE Interrupt(t)
    <2> DEFINE pd == UpdateCsr(t)
               i  == InterruptType(pd)
               l  == Delegated(i, "mideleg", "sideleg")
    <2>1. i \in ie \cap pd
      BY <1>2, PendingType, HighestPriority DEF Interrupt, IsRequested
    <2>2. l \in Levels
      BY DelegatedType
    <2>3. EnableBit(priv) \in status /\ ProcessTrapEnter(TRUE, i, l)
      BY <1>2 DEF Interrupt, IsRequested, ProcessInterrupt
    <2> HIDE DEF pd, i, l
    <2>4. i \in Interrupts
      BY <2>1 DEF TypeOK
    <2>5. i \in 0 .. 15
      BY <2>4 DEF Interrupts, TimerBits, ExternalBits, SoftwareBits,
                  USI, SSI, MSI, UTI, STI, MTI, UEI, SEI, MEI
    <2> QED  BY <2>2, <2>3, <2>4, <2>5 DEF TrapStep
  <1>3. CASE ReservedLevel(t)
    BY <1>3 DEF ReservedLevel, QuietStep
  <1>4. CASE \E code \in Exceptions : Fault(t, code)
    <2> PICK code \in Exceptions : Fault(t, code)
      BY <1>4
    <2>1. code \in 0 .. 15 /\ ProcessException(code)
      BY DEF Fault, IllegalInstruction, InstructionPageFault, LoadPageFault,
             StorePageFault
    <2> QED  BY <2>1, ExceptionStep
  <1>5. CASE Ecall(t)
    <2>1. EcallFrom(priv) \in 0 .. 15
      BY <1>5 DEF Ecall, Execute, EcallFrom, Levels, User, Supervisor, Machine
    <2> QED  BY <1>5, <2>1, ExceptionStep DEF Ecall
  <1>6. CASE Ebreak(t)
    BY <1>1, <1>6, ExceptionStep DEF Ebreak
  <1>7. CASE Mret(t)
    BY <1>1, <1>7, ExceptionStep DEF Mret, ReturnStep
  <1>8. CASE Sret(t)
    <2>1. CASE ProcessException(IllegalInstruction)
      BY <1>1, <2>1, ExceptionStep
    <2>2. CASE ~(priv = User \/ (priv = Supervisor /\ TSR \in status))
               /\ ProcessTrapReturn(Supervisor)
      BY <1>8, <2>2 DEF Sret, Execute, Levels, ReturnStep
    <2> QED  BY <1>8, <2>1, <2>2 DEF Sret
  <1>9. CASE Uret(t)
    BY <1>9 DEF Uret, QuietStep
  <1>10. CASE Wfi(t)
    BY <1>1, <1>10, ExceptionStep DEF Wfi, Retire, QuietStep
  <1>11. CASE SfenceVma(t)
    BY <1>1, <1>11, ExceptionStep DEF SfenceVma, Retire, QuietStep
  <1>12. CASE FpOp(t)
    BY <1>1, <1>12, ExceptionStep DEF FpOp, QuietStep
  <1>13. CASE Ordinary(t)
    BY <1>13 DEF Ordinary, QuietStep
  <1>14. CASE \E set \in BOOLEAN : StoreMsip(t, set)
    BY <1>14 DEF StoreMsip, Retire, QuietStep
  <1>15. CASE \E c \in SoftwareCsrs : CsrIllegal(t, c)
    BY <1>1, <1>15, ExceptionStep DEF CsrIllegal
  <1>16. CASE \E c \in SoftwareCsrs : CsrOp(t, c)
    BY <1>16, ValuesAssumption DEF CsrStep
  <1> QED
    BY <1>2, <1>3, <1>4, <1>5, <1>6, <1>7, <1>8, <1>9, <1>10, <1>11, <1>12,
       <1>13, <1>14, <1>15, <1>16 DEF Cycle

-----------------------------------------------------------------------------
(* Privilege rises only through the vector of the level that is reached.   *)

RisesThroughVector ==
    priv' > priv => IsTrapEntry(event') /\ pc' \in HandlerEntries(priv')

LEMMA RisesStep == TypeOK /\ [Next]_vars => [RisesThroughVector]_vars
  <1> SUFFICES ASSUME TypeOK, Next
               PROVE  RisesThroughVector
    BY DEF vars
  <1>0. priv \in Int
    BY DEF TypeOK, PrivLevels, User, Machine
  <1>1. CASE TrapStep
    <2> PICK interrupt \in BOOLEAN, code \in 0 .. 15, l \in Levels :
            /\ interrupt => code \in Interrupts /\ EnableBit(priv) \in status
            /\ ProcessTrapEnter(interrupt, code, l)
      BY <1>1 DEF TrapStep
    <2>1. IsTrapEntry(event')
      BY DEF ProcessTrapEnter, IsTrapEntry
    <2>2. pc' = TrapPc(l, interrupt, code) /\ priv' = l
      BY DEF ProcessTrapEnter
    <2>3. TrapPc(l, interrupt, code) \in HandlerEntries(l)
      <3>1. CASE interrupt /\ tvec[l].mode = 1
        <4>1. code \in {i \in Interrupts : tvec[l].mode = 1}
          BY <3>1
        <4> QED  BY <3>1, <4>1 DEF TrapPc, HandlerEntries
      <3>2. CASE ~(interrupt /\ tvec[l].mode = 1)
        BY <3>2 DEF TrapPc, HandlerEntries
      <3> QED  BY <3>1, <3>2
    <2> QED  BY <2>1, <2>2, <2>3 DEF RisesThroughVector
  <1>2. CASE ReturnStep
    BY <1>0, <1>2 DEF ReturnStep, ProcessTrapReturn, GetMPP, GetSPP, Supervisor,
                      Machine, RisesThroughVector
  <1>3. CASE CsrStep
    BY <1>0, <1>3 DEF CsrStep, CsrOp, RisesThroughVector
  <1>4. CASE QuietStep
    BY <1>0, <1>4 DEF QuietStep, RisesThroughVector
  <1> QED  BY <1>1, <1>2, <1>3, <1>4, StepShape

(* The property PrivilegeRisesThroughVector of Hart: no instruction and no *)
(* return from a trap raises the privilege level.                          *)
THEOREM PrivilegeRises == Spec => PrivilegeRisesThroughVector
  BY TypeCorrect, RisesStep, PTL
     DEF Spec, PrivilegeRisesThroughVector, RisesThroughVector

-----------------------------------------------------------------------------
(* Machine state is out of reach of the lower levels.                      *)

MachineIntact ==
    priv # Machine /\ priv' # Machine =>
        /\ deleg'["medeleg"] = deleg["medeleg"]
        /\ deleg'["mideleg"] = deleg["mideleg"]
        /\ tvec'[Machine] = tvec[Machine]
        /\ epc'[Machine] = epc[Machine]
        /\ ie' \cap {MSI, MTI, MEI} = ie \cap {MSI, MTI, MEI}

FieldsNotSet ==
    priv # Machine /\ priv' # Machine =>
        status' \cap StatusMachineFields \subseteq status

(* Below machine level CheckTrap only lets accesses to CSRs of the lower   *)
(* levels through.                                                         *)
LEMMA LowCsr ==
    ASSUME TypeOK, priv # Machine, NEW t, NEW c \in CsrNames, CsrOp(t, c)
    PROVE  CsrLevel(c) \in {User, Supervisor}
  <1>1. priv \in {User, Supervisor} /\ ~CheckTrap(c, priv, status)
    BY DEF CsrOp, Levels
  <1>2. CsrLevel(c) # Machine
    BY <1>1 DEF CheckTrap
  <1> QED
    BY <1>2 DEF CsrLevel

LEMMA MachineIntactStep == TypeOK /\ [Next]_vars => [MachineIntact]_vars
  <1> SUFFICES ASSUME TypeOK, Next, priv # Machine, priv' # Machine
               PROVE  MachineIntact
    BY DEF vars, MachineIntact
  <1>1. CASE TrapStep
    BY <1>1 DEF TrapStep, ProcessTrapEnter, TypeOK, regs, MachineIntact
  <1>2. CASE ReturnStep
    BY <1>2 DEF ReturnStep, ProcessTrapReturn, regs, MachineIntact
  <1>3. CASE CsrStep
    <2> PICK t \in BOOLEAN, c \in CsrNames : CsrOp(t, c)
      BY <1>3 DEF CsrStep
    <2> DEFINE pd == UpdateCsr(t)
    <2>1. CsrLevel(c) \in {User, Supervisor} /\ CsrLevel(c) # Machine
      BY LowCsr DEF User, Supervisor, Machine
    <2>2. c # "medeleg" /\ c # "mideleg"
      BY <2>1 DEF CsrLevel
    <2>3. InterruptMask(CsrLevel(c)) \cap {MSI, MTI, MEI} = {}
      BY <2>1 DEF InterruptMask, User, Supervisor, Machine, USI, UTI, UEI, MSI,
                  MTI, MEI
    <2>4. ASSUME NEW v, WriteBits(c, v, pd)
          PROVE  MachineIntact
      BY <2>2, <2>3, <2>4 DEF WriteBits, WriteEnable, SetWithMask, TypeOK,
                              MachineIntact
    <2>5. ASSUME NEW v, WriteTvec(c, v, pd)
          PROVE  MachineIntact
      BY <2>1, <2>5 DEF WriteTvec, TypeOK, MachineIntact
    <2>6. ASSUME NEW v, WriteEpc(c, v, pd)
          PROVE  MachineIntact
      BY <2>1, <2>6 DEF WriteEpc, TypeOK, MachineIntact
    <2>7. CASE WriteSatp(pd)
      BY <2>7 DEF WriteSatp, MachineIntact
    <2> QED  BY <2>4, <2>5, <2>6, <2>7 DEF CsrOp
  <1>4. CASE QuietStep
    BY <1>4 DEF QuietStep, regs, MachineIntact
  <1> QED  BY <1>1, <1>2, <1>3, <1>4, StepShape

(* The property MachineStateProtected of Hart.                             *)
THEOREM MachineProtected == Spec => MachineStateProtected
  BY TypeCorrect, MachineIntactStep, PTL
     DEF Spec, MachineStateProtected, MachineIntact

(* Writing through the views of the lower levels sets no machine field.    *)
LEMMA LowStatusWrite ==
    ASSUME NEW v, NEW l \in {User, Supervisor}, status \subseteq StatusWriteMask
    PROVE  WriteStatus(status, v, l) \cap StatusMachineFields = {}
  <1>1. StatusMask(l) \subseteq StatusSupervisorMask
    BY DEF StatusMask, StatusSupervisorMask, StatusUserMask, User, Supervisor,
           Machine
  <1> QED
    BY <1>1 DEF WriteStatus, StatusMachineFields

LEMMA FieldsStep == TypeOK /\ [Next]_vars => [FieldsNotSet]_vars
  <1> SUFFICES ASSUME TypeOK, Next, priv # Machine, priv' # Machine
               PROVE  FieldsNotSet
    BY DEF vars, FieldsNotSet
  <1>0. status \subseteq StatusWriteMask
    BY DEF TypeOK
  <1>1. CASE TrapStep
    <2> PICK interrupt \in BOOLEAN, code \in 0 .. 15, l \in Levels :
            ProcessTrapEnter(interrupt, code, l)
      BY <1>1 DEF TrapStep
    <2>1. l \in {User, Supervisor} /\ status' = TrapStatus(priv, l)
      BY DEF ProcessTrapEnter, Levels
    <2>2. \E v : TrapStatus(priv, l) = WriteStatus(status, v, l)
      BY DEF TrapStatus
    <2> QED  BY <1>0, <2>1, <2>2, LowStatusWrite DEF FieldsNotSet
  <1>2. CASE ReturnStep
    <2>1. ProcessTrapReturn(Supervisor)
      BY <1>2 DEF ReturnStep, Supervisor, Machine
    <2>2. \E v : status' = WriteStatus(status, v, Supervisor)
      BY <2>1 DEF ProcessTrapReturn, ReturnStatus, Supervisor, Machine
    <2> QED  BY <1>0, <2>2, LowStatusWrite DEF FieldsNotSet
  <1>3. CASE CsrStep
    <2> PICK t \in BOOLEAN, c \in CsrNames : CsrOp(t, c)
      BY <1>3 DEF CsrStep
    <2>1. CsrLevel(c) \in {User, Supervisor}
      BY LowCsr
    <2>2. status' = status \/ \E v : status' = WriteStatus(status, v, CsrLevel(c))
      BY DEF CsrOp, WriteBits, WriteTvec, WriteEpc, WriteSatp
    <2> QED  BY <1>0, <2>1, <2>2, LowStatusWrite DEF FieldsNotSet
  <1>4. CASE QuietStep
    BY <1>4 DEF QuietStep, FieldsNotSet, StatusMachineFields,
                StatusSupervisorMask
  <1> QED  BY <1>1, <1>2, <1>3, <1>4, StepShape

(* The property MachineFieldsNeverSetBelow of Hart.                        *)
THEOREM MachineFieldsNotSet == Spec => MachineFieldsNeverSetBelow
  BY TypeCorrect, FieldsStep, PTL
     DEF Spec, MachineFieldsNeverSetBelow, FieldsNotSet

-----------------------------------------------------------------------------
(* Data accesses below machine level.                                      *)

(* The inductive invariant: MPP is clear whenever the hart is below M.     *)
MppClear == priv # Machine => status \cap MPP = {}

LEMMA MppClearStep == TypeOK /\ MppClear /\ [Next]_vars => MppClear'
  <1> SUFFICES ASSUME TypeOK, MppClear, [Next]_vars
               PROVE  MppClear'
    OBVIOUS
  <1>0. /\ status \subseteq StatusWriteMask
        /\ MPP \subseteq StatusMachineFields
    BY DEF TypeOK, StatusMachineFields, StatusSupervisorMask, StatusWriteMask,
           MPP, FS, XS, MXR, SUM, SPP, SPIE, UPIE, SIE, UIE
  <1>1. CASE UNCHANGED vars
    BY <1>1 DEF vars, MppClear
  <1> SUFFICES ASSUME Next, priv' # Machine
               PROVE  status' \cap MPP = {}
    BY <1>1 DEF MppClear
  <1>2. CASE TrapStep
    <2> PICK interrupt \in BOOLEAN, code \in 0 .. 15, l \in Levels :
            ProcessTrapEnter(interrupt, code, l)
      BY <1>2 DEF TrapStep
    <2>1. l \in {User, Supervisor} /\ status' = TrapStatus(priv, l)
      BY DEF ProcessTrapEnter, Levels
    <2>2. \E v : TrapStatus(priv, l) = WriteStatus(status, v, l)
      BY DEF TrapStatus
    <2> QED  BY <1>0, <2>1, <2>2, LowStatusWrite
  <1>3. CASE ReturnStep
    <2>1. CASE ProcessTrapReturn(Machine)
      BY <2>1 DEF ProcessTrapReturn, ReturnStatus, WriteStatus, SetMPP, User,
                  MPP, TypeOK
    <2>2. CASE ProcessTrapReturn(Supervisor)
      <3>1. \E v : status' = WriteStatus(status, v, Supervisor)
        BY <2>2 DEF ProcessTrapReturn, ReturnStatus, Supervisor, Machine
      <3> QED  BY <1>0, <3>1, LowStatusWrite
    <2> QED  BY <1>3, <2>1, <2>2 DEF ReturnStep
  <1>4. CASE CsrStep
    <2> PICK t \in BOOLEAN, c \in CsrNames : CsrOp(t, c)
      BY <1>4 DEF CsrStep
    <2>1. priv # Machine
      BY DEF CsrOp
    <2>2. CsrLevel(c) \in {User, Supervisor}
      BY <2>1, LowCsr
    <2>3. status' = status \/ \E v : status' = WriteStatus(status, v, CsrLevel(c))
      BY DEF CsrOp, WriteBits, WriteTvec, WriteEpc, WriteSatp
    <2> QED  BY <1>0, <2>1, <2>2, <2>3, LowStatusWrite DEF MppClear
  <1>5. CASE QuietStep
    BY <1>5 DEF QuietStep, MppClear, MPP, FS
  <1> QED  BY <1>2, <1>3, <1>4, <1>5, StepShape

(* The property DataLevelBounded of Hart: MPRV never lends code below the  *)
(* machine level more than its own permissions.                            *)
THEOREM DataLevelNeverAbove == Spec => []DataLevelBounded
  <1>1. Init => MppClear
    BY DEF Init, MppClear
  <1>2. TypeOK /\ MppClear => DataLevelBounded
    BY DEF TypeOK, MppClear, DataLevelBounded, DataLevel, GetMPP, MPP,
           PrivLevels, User, Machine
  <1> QED
    BY <1>1, <1>2, TypeCorrect, MppClearStep, PTL DEF Spec

-----------------------------------------------------------------------------
(* Interrupts are masked when a handler starts.                            *)

(* The inductive invariant: a trap entry left the enable bit clear.        *)
EntryMasked == IsTrapEntry(event) => EnableBit(priv) \notin status

LEMMA EntryMaskedStep ==
    TypeOK /\ EntryMasked /\ [Next]_vars
        => EntryMasked' /\ [IsTrapEntry(event) => event'.type # "Interrupt"]_vars
  <1> SUFFICES ASSUME TypeOK, EntryMasked, [Next]_vars
               PROVE  /\ EntryMasked'
                      /\ [IsTrapEntry(event) => event'.type # "Interrupt"]_vars
    OBVIOUS
  <1>1. CASE UNCHANGED vars
    BY <1>1 DEF vars, EntryMasked, IsTrapEntry, EnableBit
  <1> SUFFICES ASSUME Next
               PROVE  /\ EntryMasked'
                      /\ IsTrapEntry(event) => event'.type # "Interrupt"
    BY <1>1
  <1>2. CASE TrapStep
    <2> PICK interrupt \in BOOLEAN, code \in 0 .. 15, l \in Levels :
            /\ interrupt => code \in Interrupts /\ EnableBit(priv) \in status
            /\ ProcessTrapEnter(interrupt, code, l)
      BY <1>2 DEF TrapStep
    <2>1. IsTrapEntry(event) => ~interrupt
      BY DEF EntryMasked
    <2>2. event'.type = IF interrupt THEN "Interrupt" ELSE "Exception"
      BY DEF ProcessTrapEnter
    <2>3. EnableBit(l) \notin TrapStatus(priv, l)
      BY DEF EnableBit, TrapStatus, SaveContext, TypeOK, WriteStatus,
              SetMPP, SetSPP, SetBit,
             Levels, User, Supervisor, Machine, StatusWriteMask, MIE, SIE, UIE,
             MPIE, SPIE, UPIE, MPP, SPP
    <2> QED  BY <2>1, <2>2, <2>3 DEF ProcessTrapEnter, EntryMasked, EnableBit
  <1>3. CASE ReturnStep
    BY <1>3 DEF ReturnStep, ProcessTrapReturn, EntryMasked, IsTrapEntry
  <1>4. CASE CsrStep
    BY <1>4 DEF CsrStep, CsrOp, NoEvent, EntryMasked, IsTrapEntry
  <1>5. CASE QuietStep
    BY <1>5 DEF QuietStep, NoEvent, EntryMasked, IsTrapEntry
  <1> QED  BY <1>2, <1>3, <1>4, <1>5, StepShape

(* The property HandlerStartsMasked of Hart.                               *)
THEOREM HandlerMasked == Spec => HandlerStartsMasked
  <1>1. Init => EntryMasked
    BY DEF Init, EntryMasked, NoEvent, IsTrapEntry
  <1> QED
    BY <1>1, TypeCorrect, EntryMaskedStep, PTL DEF Spec, HandlerStartsMasked

-----------------------------------------------------------------------------
(* The timer bits.                                                         *)

LEMMA UpdateOneTimer ==
    ASSUME NEW t
    PROVE  \A i, j \in UpdateCsr(t) \cap TimerBits : i = j
  <1> DEFINE m == PendingBit(MTI, STI, UTI)
             x == PendingBit(MEI, SEI, UEI)
  <1>1. x \notin TimerBits
    BY DEF PendingBit, TimerBits, MTI, STI, UTI, MEI, SEI, UEI
  <1>2. UpdateCsr(t) \subseteq (ip \ TimerBits) \cup {m, x}
    BY DEF UpdateCsr
  <1> HIDE DEF m, x
  <1> QED  BY <1>1, <1>2

(* However a cycle ends, its timer bits are the ones UpdateCsr computed.   *)
LEMMA TimerBitsStep ==
    ASSUME Next
    PROVE  \E t \in BOOLEAN : ip' \cap TimerBits = UpdateCsr(t) \cap TimerBits
  <1> PICK t \in BOOLEAN : Cycle(t)
    BY DEF Next
  <1> DEFINE pd == UpdateCsr(t)
  <1>1. CASE \E c \in SoftwareCsrs : CsrOp(t, c)
    <2> PICK c \in SoftwareCsrs : CsrOp(t, c)
      BY <1>1
    <2>1. ip' = pd \/ \E v : ip' = WritePending(pd, v, CsrLevel(c))
      BY DEF CsrOp, WriteBits, WriteTvec, WriteEpc, WriteSatp
    <2>2. PendingWriteMask \cap TimerBits = {}
      BY DEF PendingWriteMask, ExternalBits, SoftwareBits, TimerBits,
             USI, SSI, MSI, UTI, STI, MTI, UEI, SEI, MEI
    <2> QED  BY <2>1, <2>2 DEF WritePending, SetWithMask
  <1>2. CASE \E set \in BOOLEAN : StoreMsip(t, set)
    <2>1. MSI \notin TimerBits
      BY DEF TimerBits, MSI, UTI, STI, MTI
    <2> QED  BY <1>2, <2>1 DEF StoreMsip, SetBit
  <1>3. CASE ip' = pd
    BY <1>3
  <1> QED
    BY <1>1, <1>2, <1>3 DEF Cycle, Interrupt, ReservedLevel, Fault, Ecall,
       Ebreak, Mret, Sret, Uret, Wfi, SfenceVma, FpOp, Ordinary, CsrIllegal,
       Execute

(* The property OneTimerPending of Hart.                                   *)
THEOREM TimerPendingOnce == Spec => []OneTimerPending
  <1>1. Init => OneTimerPending
    BY DEF Init, OneTimerPending
  <1>2. OneTimerPending /\ [Next]_vars => OneTimerPending'
    <2> SUFFICES ASSUME OneTimerPending, [Next]_vars
                 PROVE  OneTimerPending'
      OBVIOUS
    <2>1. CASE UNCHANGED vars
      BY <2>1 DEF vars, OneTimerPending
    <2>2. CASE Next
      <3> PICK t \in BOOLEAN : ip' \cap TimerBits = UpdateCsr(t) \cap TimerBits
        BY <2>2, TimerBitsStep
      <3> QED  BY UpdateOneTimer DEF OneTimerPending
    <2> QED  BY <2>1, <2>2
  <1> QED  BY <1>1, <1>2, PTL DEF Spec

-----------------------------------------------------------------------------
(* Trap frames.                                                            *)

(* Every step of HartFrames is a step of Hart.                             *)
LEMMA FramedStep == ASSUME FNext PROVE Next
  BY DEF FNext, FTrap, FMret, FSret, FCsrOp, FOther, Next, Cycle

LEMMA FramedTypes == FSpec => []TypeOK
  <1>1. FInit => TypeOK
    BY InitType DEF FInit
  <1>2. TypeOK /\ [FNext]_fvars => TypeOK'
    BY FramedStep, NextType DEF fvars
  <1> QED  BY <1>1, <1>2, PTL DEF FSpec

-----------------------------------------------------------------------------
(* What the trap processor writes to the status register, bit by bit.      *)

(* Entering M records the level and the enable bit in MPP and MPIE and     *)
(* keeps the supervisor's SPP and SPIE.                                    *)
LEMMA EnterMachine ==
    ASSUME status \in SUBSET StatusWriteMask, NEW p \in PrivLevels
    PROVE  LET st == TrapStatus(p, Machine) IN
           /\ GetMPP(st) = p
           /\ (MPIE \in st) = (MIE \in status)
           /\ (SPP \in st) = (SPP \in status)
           /\ (SPIE \in st) = (SPIE \in status)
  <1> DEFINE w  == SetMPP(SetBit(SetBit(status, MPIE, MIE \in status), MIE, FALSE), p)
             st == TrapStatus(p, Machine)
  <1>1. st = w
    <2>1. StatusMask(Machine) = StatusWriteMask
      BY DEF StatusMask, Supervisor, Machine
    <2>2. ReadStatus(status, Machine) = status
      BY <2>1 DEF ReadStatus
    <2>3. SaveContext(status, p, Machine) = w
      BY DEF SaveContext, Supervisor, Machine
    <2>4. w \subseteq StatusWriteMask
      BY DEF SetMPP, SetBit, StatusWriteMask, MPP
    <2> HIDE DEF w
    <2> QED
      BY <2>1, <2>2, <2>3, <2>4 DEF TrapStatus, WriteStatus
  <1> HIDE DEF st
  <1>2. GetMPP(st) = p
    BY <1>1 DEF GetMPP, SetMPP, MPP, PrivLevels, User, Machine
  <1>3. /\ (MPIE \in st) = (MIE \in status)
        /\ (SPP \in st) = (SPP \in status)
        /\ (SPIE \in st) = (SPIE \in status)
    BY <1>1 DEF SetMPP, SetBit, MPP, MPIE, MIE, SPP, SPIE
  <1> QED  BY <1>2, <1>3 DEF st

(* Entering S records the level, as one bit, and the enable bit.           *)
LEMMA EnterSupervisor ==
    ASSUME status \in SUBSET StatusWriteMask, NEW p \in Levels
    PROVE  LET st == TrapStatus(p, Supervisor) IN
           /\ GetSPP(st) = SppLevel(p)
           /\ (SPIE \in st) = (SIE \in status)
  <1> DEFINE v  == ReadStatus(status, Supervisor)
             w  == SetSPP(SetBit(SetBit(v, SPIE, SIE \in v), SIE, FALSE), p)
             st == TrapStatus(p, Supervisor)
  <1>1. v = status \cap StatusSupervisorMask
    BY DEF ReadStatus, StatusMask, Supervisor, Machine
  <1>2. SaveContext(v, p, Supervisor) = w
    BY DEF SaveContext, Supervisor, Machine
  <1>3. w \subseteq StatusSupervisorMask /\ w \subseteq StatusWriteMask
    BY <1>1 DEF SetSPP, SetBit, StatusSupervisorMask, StatusWriteMask
  <1>4. st = w
    BY <1>2, <1>3 DEF TrapStatus, WriteStatus, StatusMask, Supervisor, Machine
  <1> HIDE DEF st, w
  <1>5. GetSPP(w) = SppLevel(p)
    BY DEF GetSPP, SetSPP, SppLevel, Levels, User, Supervisor, Machine, w
  <1>6. (SPIE \in w) = (SIE \in v)
    BY DEF SetSPP, SetBit, SPP, SPIE, SIE, w
  <1>7. (SIE \in v) = (SIE \in status)
    BY <1>1 DEF StatusSupervisorMask
  <1> QED  BY <1>4, <1>5, <1>6, <1>7 DEF st

(* mret restores MIE and keeps the supervisor's SPP and SPIE.              *)
LEMMA LeaveMachine ==
    ASSUME status \in SUBSET StatusWriteMask
    PROVE  LET st == ReturnStatus(Machine) IN
           /\ (MIE \in st) = (MPIE \in status)
           /\ (SPP \in st) = (SPP \in status)
           /\ (SPIE \in st) = (SPIE \in status)
  <1> DEFINE w  == SetMPP(SetBit(status, MIE, MPIE \in status), User)
             st == ReturnStatus(Machine)
  <1>1. ReadStatus(status, Machine) = status
    BY DEF ReadStatus, StatusMask, Supervisor, Machine
  <1>2. w \subseteq StatusWriteMask
    BY DEF SetMPP, SetBit, StatusWriteMask, MPP
  <1>3. st = w
    BY <1>1, <1>2 DEF ReturnStatus, WriteStatus, StatusMask, Supervisor, Machine
  <1> HIDE DEF st
  <1>4. /\ (MIE \in w) = (MPIE \in status)
        /\ (SPP \in w) = (SPP \in status)
        /\ (SPIE \in w) = (SPIE \in status)
    BY DEF SetMPP, SetBit, MPP, MPIE, MIE, SPP, SPIE
  <1> QED  BY <1>3, <1>4 DEF st

(* sret restores SIE.                                                      *)
LEMMA LeaveSupervisor ==
    ASSUME status \in SUBSET StatusWriteMask
    PROVE  (SIE \in ReturnStatus(Supervisor)) = (SPIE \in status)
  <1> DEFINE v  == ReadStatus(status, Supervisor)
             w  == SetSPP(SetBit(v, SIE, SPIE \in v), User)
  <1>1. v = status \cap StatusSupervisorMask
    BY DEF ReadStatus, StatusMask, Supervisor, Machine
  <1>2. w \subseteq StatusSupervisorMask /\ w \subseteq StatusWriteMask
    BY <1>1 DEF SetSPP, SetBit, StatusSupervisorMask, StatusWriteMask
  <1>3. ReturnStatus(Supervisor) = w
    BY <1>2 DEF ReturnStatus, WriteStatus, StatusMask, Supervisor, Machine
  <1> HIDE DEF v
  <1>4. (SIE \in w) = (SPIE \in v)
    BY DEF SetSPP, SetBit, SPP, SPIE, SIE
  <1>5. (SPIE \in v) = (SPIE \in status)
    BY <1>1 DEF StatusSupervisorMask
  <1> QED  BY <1>3, <1>4, <1>5

-----------------------------------------------------------------------------
(* The frame of M and the frame of S, as the registers keep them.          *)
MachineFrameKept ==
    frame[Machine].held =>
        /\ GetMPP(status) = frame[Machine].priv
        /\ epc[Machine] = frame[Machine].pc
        /\ (MPIE \in status) = frame[Machine].enabled

SupervisorFrameKept ==
    frame[Supervisor].held =>
        /\ GetSPP(status) = SppLevel(frame[Supervisor].priv)
        /\ epc[Supervisor] = frame[Supervisor].pc
        /\ (SPIE \in status) = frame[Supervisor].enabled

LEMMA FrameParts == FrameKept <=> MachineFrameKept /\ SupervisorFrameKept
  BY DEF FrameKept, MachineFrameKept, SupervisorFrameKept

LEMMA FrameFacts ==
    /\ Supervisor \in FrameLevels /\ Machine \in FrameLevels
    /\ Supervisor # Machine
    /\ ~NoFrame.held
  BY DEF FrameLevels, NoFrame, Supervisor, Machine

(* A cycle that enters a handler starts at one of the three levels.        *)
LEMMA TrapFromLevel ==
    ASSUME NEW t \in BOOLEAN, Cycle(t), IsTrapEntry(event')
    PROVE  priv \in Levels
  BY DEF Cycle, Interrupt, ReservedLevel, Fault, Ecall, Ebreak, Mret, Sret, Uret,
         Wfi, SfenceVma, FpOp, Ordinary, StoreMsip, CsrIllegal, CsrOp, Execute,
         IsTrapEntry, NoEvent

LEMMA FrameTrap ==
    ASSUME TypeOK, FrameKept, NEW t \in BOOLEAN, FTrap(t)
    PROVE  FrameKept'
  <1>1. priv \in Levels /\ priv \in PrivLevels
    BY TrapFromLevel DEF FTrap, TypeOK
  <1>2. PICK interrupt \in BOOLEAN, code \in 0 .. 15, l \in Levels :
            ProcessTrapEnter(interrupt, code, l)
    <2>1. Next /\ event'.type \in {"Interrupt", "Exception"}
      BY DEF FTrap, Next, IsTrapEntry
    <2>2. ~ReturnStep /\ ~CsrStep /\ ~QuietStep
      BY <2>1 DEF ReturnStep, ProcessTrapReturn, CsrStep, CsrOp, QuietStep, NoEvent
    <2>3. TrapStep
      BY <2>1, <2>2, StepShape
    <2> QED  BY <2>3 DEF TrapStep
  <1>3. /\ status' = TrapStatus(priv, l) /\ priv' = l
        /\ epc' = [epc EXCEPT ![l] = pc]
        /\ frame' = EnterFrame(l)
    BY <1>2 DEF ProcessTrapEnter, FTrap
  <1>4. status \in SUBSET StatusWriteMask /\ epc \in [Levels -> Address]
    BY DEF TypeOK
  <1>5. CASE l = Machine
    <2>1. frame'[Machine] = Interrupted(Machine)
      BY <1>3, <1>5, FrameFacts DEF EnterFrame
    <2>2. frame'[Supervisor] = frame[Supervisor]
      BY <1>3, <1>5, FrameFacts DEF EnterFrame, Supervisor, Machine
    <2>3. MachineFrameKept'
      <3>1. GetMPP(status') = priv /\ (MPIE \in status') = (MIE \in status)
        BY <1>1, <1>3, <1>4, <1>5, EnterMachine
      <3>2. EnableBit(Machine) = MIE
        BY DEF EnableBit, Supervisor, Machine
      <3>3. epc'[Machine] = pc
        BY <1>3, <1>4, <1>5 DEF Levels
      <3> QED
        BY <2>1, <3>1, <3>2, <3>3
           DEF MachineFrameKept, Interrupted, GetMPP
    <2>4. SupervisorFrameKept'
      <3>1. (SPP \in status') = (SPP \in status)
            /\ (SPIE \in status') = (SPIE \in status)
        BY <1>1, <1>3, <1>4, <1>5, EnterMachine
      <3>2. epc'[Supervisor] = epc[Supervisor]
        BY <1>3, <1>4, <1>5, FrameFacts DEF Levels
      <3> QED
        BY <2>2, <3>1, <3>2, FrameParts DEF SupervisorFrameKept, GetSPP, SppLevel
    <2> QED  BY <2>3, <2>4 DEF FrameKept, MachineFrameKept, SupervisorFrameKept
  <1>6. CASE l = Supervisor
    <2>1. ~frame'[Machine].held
      BY <1>3, <1>6, FrameFacts DEF EnterFrame, Supervisor, Machine
    <2>2. frame'[Supervisor] = Interrupted(Supervisor)
      BY <1>3, <1>6, FrameFacts DEF EnterFrame
    <2>3. /\ GetSPP(status') = SppLevel(priv)
          /\ (SPIE \in status') = (SIE \in status)
      BY <1>1, <1>3, <1>4, <1>6, EnterSupervisor
    <2>4. EnableBit(Supervisor) = SIE
      BY DEF EnableBit, Supervisor, Machine
    <2>5. epc'[Supervisor] = pc
      BY <1>3, <1>4, <1>6 DEF Levels
    <2>6. SupervisorFrameKept'
      BY <2>2, <2>3, <2>4, <2>5 DEF SupervisorFrameKept, Interrupted, GetSPP,
                                    SppLevel
    <2> QED  BY <2>1, <2>6 DEF FrameKept, SupervisorFrameKept
  <1>7. CASE l = User
    <2>1. ~frame'[Machine].held /\ ~frame'[Supervisor].held
      BY <1>3, <1>7, FrameFacts DEF EnterFrame, User, Supervisor, Machine
    <2> QED  BY <2>1 DEF FrameKept
  <1> QED  BY <1>2, <1>5, <1>6, <1>7 DEF Levels

LEMMA FrameMret ==
    ASSUME TypeOK, FrameKept, NEW t \in BOOLEAN, FMret(t)
    PROVE  FrameKept' /\ ProcessTrapReturn(Machine)
  <1>1. ProcessTrapReturn(Machine)
    <2>1. ~ProcessException(IllegalInstruction)
      <3>1. event'.type = "Return"
        BY DEF FMret
      <3>2. ASSUME ProcessException(IllegalInstruction)
            PROVE  event'.type = "Exception"
        BY <3>2 DEF ProcessException, ProcessTrapEnter
      <3> QED  BY <3>1, <3>2
    <2> QED  BY <2>1 DEF FMret, Mret
  <1>2. ~frame'[Machine].held /\ frame'[Supervisor] = frame[Supervisor]
    BY FrameFacts DEF FMret, Drop
  <1>3. /\ (SPP \in status') = (SPP \in status)
        /\ (SPIE \in status') = (SPIE \in status)
    BY <1>1, LeaveMachine DEF ProcessTrapReturn, TypeOK
  <1>4. epc' = epc
    BY <1>1 DEF ProcessTrapReturn
  <1>5. SupervisorFrameKept'
    BY <1>2, <1>3, <1>4, FrameParts DEF SupervisorFrameKept, GetSPP, SppLevel
  <1> QED  BY <1>1, <1>2, <1>5 DEF FrameKept, SupervisorFrameKept

LEMMA FrameSret ==
    ASSUME NEW t \in BOOLEAN, FSret(t)
    PROVE  FrameKept' /\ ProcessTrapReturn(Supervisor)
  <1>1. ProcessTrapReturn(Supervisor)
    <2>1. ~ProcessException(IllegalInstruction)
      <3>1. event'.type = "Return"
        BY DEF FSret
      <3>2. ASSUME ProcessException(IllegalInstruction)
            PROVE  event'.type = "Exception"
        BY <3>2 DEF ProcessException, ProcessTrapEnter
      <3> QED  BY <3>1, <3>2
    <2> QED  BY <2>1 DEF FSret, Sret
  <1>2. ~frame'[Machine].held /\ ~frame'[Supervisor].held
    BY FrameFacts DEF FSret, Drop
  <1> QED  BY <1>1, <1>2 DEF FrameKept

LEMMA FrameCsrOp ==
    ASSUME TypeOK, FrameKept, NEW t \in BOOLEAN, FCsrOp(t)
    PROVE  FrameKept'
  <1> PICK c \in SoftwareCsrs : CsrOp(t, c) /\ frame' = Drop(Clobbered(c))
    BY DEF FCsrOp
  <1>0. c \in CsrNames
    BY ValuesAssumption
  <1>1. CASE c \in StatusCsrs
    <2>1. Clobbered(c) = FrameLevels
      BY <1>1 DEF Clobbered, StatusCsrs
    <2>2. ~frame'[Machine].held /\ ~frame'[Supervisor].held
      BY <2>1, FrameFacts DEF Drop
    <2> QED  BY <2>2 DEF FrameKept
  <1>2. CASE c \notin StatusCsrs
    <2>1. status' = status
      BY <1>2 DEF CsrOp, WriteBits, WriteTvec, WriteEpc, WriteSatp
    <2>2. \A f \in FrameLevels :
             frame'[f] = frame[f] \/ ~frame'[f].held
      BY FrameFacts DEF Drop
    <2>3. ASSUME NEW f \in FrameLevels, frame'[f].held
          PROVE  epc'[f] = epc[f] /\ frame'[f] = frame[f]
      <3>1. f \notin Clobbered(c)
        BY <2>3, FrameFacts DEF Drop
      <3>2. epc' = epc \/ (c \in EpcCsrs /\ \E v : epc' = [epc EXCEPT ![CsrLevel(c)] = v])
        BY DEF CsrOp, WriteBits, WriteTvec, WriteEpc, WriteSatp
      <3>3. c \in EpcCsrs => CsrLevel(c) # f
        BY <3>1 DEF EpcCsrs, StatusCsrs, Clobbered, CsrLevel, FrameLevels,
                    User, Supervisor, Machine
      <3>4. f \in Levels
        BY DEF FrameLevels, Levels
      <3> QED  BY <2>2, <2>3, <3>2, <3>3, <3>4 DEF TypeOK
    <2> QED
      BY <2>1, <2>3, FrameFacts DEF FrameKept, GetMPP, GetSPP, SppLevel
  <1> QED  BY <1>1, <1>2

LEMMA FrameOther ==
    ASSUME TypeOK, FrameKept, NEW t \in BOOLEAN, FOther(t)
    PROVE  FrameKept'
  <1>1. Next /\ event' = NoEvent
    BY DEF FOther, Next, Cycle
  <1>2. QuietStep
    <2>1. ~ProcessException(IllegalInstruction)
      BY <1>1 DEF ProcessException, ProcessTrapEnter, NoEvent
    <2> QED
      BY <1>1, <2>1 DEF FOther, ReservedLevel, Uret, Wfi, SfenceVma, FpOp, Ordinary,
                  StoreMsip, Retire, QuietStep
  <1>3. \A b \in {11, 12, MPIE, SPP, SPIE} : (b \in status') = (b \in status)
    BY <1>2 DEF QuietStep, FS, MPIE, SPP, SPIE
  <1>4. epc' = epc /\ frame' = frame
    BY <1>2 DEF QuietStep, FOther
  <1> QED
    BY <1>3, <1>4 DEF FrameKept, GetMPP, GetSPP, SppLevel

LEMMA FrameStep == TypeOK /\ FrameKept /\ [FNext]_fvars => FrameKept'
  <1> SUFFICES ASSUME TypeOK, FrameKept, [FNext]_fvars
               PROVE  FrameKept'
    OBVIOUS
  <1>1. CASE UNCHANGED fvars
    BY <1>1 DEF fvars, vars, FrameKept, GetMPP, GetSPP, SppLevel
  <1>2. CASE FNext
    BY <1>2, FrameTrap, FrameMret, FrameSret, FrameCsrOp, FrameOther DEF FNext
  <1> QED  BY <1>1, <1>2

(* The registers of M and S keep the interrupted context for as long as    *)
(* nothing overwrites them: FrameKept of HartFrames.                       *)
THEOREM FramesKept == FSpec => []FrameKept
  <1>1. FInit => FrameKept
    BY FrameFacts DEF FInit, FrameKept
  <1> QED
    BY <1>1, FrameStep, FramedTypes, PTL DEF FSpec

(* mret and sret resume what the trap interrupted: ReturnResumes of        *)
(* HartFrames.                                                             *)
THEOREM ReturnsResume == FSpec => ReturnResumes
  <1> DEFINE R ==
        \A t \in BOOLEAN :
         /\ FMret(t) /\ frame[Machine].held =>
               /\ priv' = frame[Machine].priv
               /\ pc' = frame[Machine].pc
               /\ (MIE \in status') = frame[Machine].enabled
         /\ FSret(t) /\ frame[Supervisor].held =>
               /\ priv' = SppLevel(frame[Supervisor].priv)
               /\ pc' = frame[Supervisor].pc
               /\ (SIE \in status') = frame[Supervisor].enabled
  <1>1. ASSUME TypeOK, FrameKept
        PROVE  R
    <2>1. ASSUME NEW t \in BOOLEAN, FMret(t), frame[Machine].held
          PROVE  /\ priv' = frame[Machine].priv
                 /\ pc' = frame[Machine].pc
                 /\ (MIE \in status') = frame[Machine].enabled
      <3>1. ProcessTrapReturn(Machine)
        BY <1>1, <2>1, FrameMret
      <3>2. (MIE \in status') = (MPIE \in status)
        BY <1>1, <3>1, LeaveMachine DEF ProcessTrapReturn, TypeOK
      <3> QED  BY <1>1, <2>1, <3>1, <3>2 DEF ProcessTrapReturn, FrameKept
    <2>2. ASSUME NEW t \in BOOLEAN, FSret(t), frame[Supervisor].held
          PROVE  /\ priv' = SppLevel(frame[Supervisor].priv)
                 /\ pc' = frame[Supervisor].pc
                 /\ (SIE \in status') = frame[Supervisor].enabled
      <3>1. ProcessTrapReturn(Supervisor)
        BY <2>2, FrameSret
      <3>2. (SIE \in status') = (SPIE \in status)
        BY <1>1, <3>1, LeaveSupervisor DEF ProcessTrapReturn, TypeOK
      <3> QED
        BY <1>1, <2>2, <3>1, <3>2, FrameFacts DEF ProcessTrapReturn, FrameKept
    <2> QED  BY <2>1, <2>2
  <1> HIDE DEF R
  <1>2. FSpec => [][R]_fvars
    BY <1>1, FramesKept, FramedTypes, PTL
  <1> QED  BY <1>2 DEF ReturnResumes, R
=============================================================================
