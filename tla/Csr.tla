------------------------------- MODULE Csr -------------------------------
(***************************************************************************)
(* The control and status registers of the hart: the bit layout of xstatus,*)
(* xie and xip (include/rafi/common/RvCsr.h) and the masked views and      *)
(* writes of cpu/Csr.cpp.                                                  *)
(*                                                                         *)
(* A bit-field register is the set of the numbers of the bits that are 1:  *)
(* `a & b' is intersection, `a | b' is union and `a & ~b' is difference.   *)
(***************************************************************************)
EXTENDS Integers

-----------------------------------------------------------------------------
(* Privilege levels (PrivilegeLevel); 2 is the encoding the ISA reserves.  *)
User       == 0
Supervisor == 1
Reserved   == 2
Machine    == 3

Levels     == {User, Supervisor, Machine}
PrivLevels == User .. Machine

-----------------------------------------------------------------------------
(* Bits of xstatus (struct xstatus_t).                                     *)
UIE  == 0
SIE  == 1
MIE  == 3
UPIE == 4
SPIE == 5
MPIE == 7
SPP  == 8
MPP  == {11, 12}
FS   == {13, 14}
XS   == {15, 16}
MPRV == 17
SUM  == 18
MXR  == 19
TVM  == 20
TW   == 21
TSR  == 22

StatusUserMask == {UPIE, UIE}

StatusSupervisorMask ==
    {MXR, SUM, SPP, SPIE, UPIE, SIE, UIE} \cup XS \cup FS

StatusWriteMask ==
    {TSR, TW, TVM, MXR, SUM, MPRV, SPP, MPIE, SPIE, UPIE, MIE, SIE, UIE}
        \cup XS \cup FS \cup MPP

(* The fields no supervisor view of the register contains.                 *)
StatusMachineFields == StatusWriteMask \ StatusSupervisorMask

(* The view of the status register that software at level l reads and      *)
(* writes (mstatus, sstatus, ustatus). SD is derived from FS and XS on     *)
(* every read and never stored, so it is left out.                         *)
StatusMask(l) ==
    CASE l = Machine    -> StatusWriteMask
      [] l = Supervisor -> StatusSupervisorMask
      [] OTHER          -> StatusUserMask

ReadStatus(st, l) == st \cap StatusMask(l)

WriteStatusUnmasked(st, v, l) ==    \* defect: the view's mask is forgotten
    (st \ StatusWriteMask) \cup (v \cap StatusWriteMask)

WriteStatusMerged(st, v, l) ==      \* defect: bits outside the view survive
    (st \ StatusMask(l)) \cup (v \cap StatusMask(l))

(* Csr::WriteStatus stores value under WriteMask, and sstatus and ustatus  *)
(* writes mask the value, not the bits that are replaced: every writable   *)
(* bit outside the view is cleared.                                        *)
WriteStatus(st, v, l) ==
    (st \ StatusWriteMask) \cup (v \cap StatusMask(l) \cap StatusWriteMask)

(* GetMember and SetMember of the two-bit field MPP and the bit SPP.       *)
GetMPP(st) == (IF 11 \in st THEN 1 ELSE 0) + (IF 12 \in st THEN 2 ELSE 0)

SetMPP(st, p) ==
    (st \ MPP) \cup (IF p \in {1, 3} THEN {11} ELSE {})
               \cup (IF p \in {2, 3} THEN {12} ELSE {})

GetSPP(st) == IF SPP \in st THEN 1 ELSE 0

(* Only the lowest bit of the level fits in SPP.                           *)
SetSPP(st, p) == (st \ {SPP}) \cup (IF p \in {1, 3} THEN {SPP} ELSE {})

(* One-bit field b takes the value of the condition v.                     *)
SetBit(st, b, v) == (st \ {b}) \cup (IF v THEN {b} ELSE {})

-----------------------------------------------------------------------------
(* Bits of xie and xip are the codes of the interrupts (InterruptType).    *)
USI == 0
SSI == 1
MSI == 3
UTI == 4
STI == 5
MTI == 7
UEI == 8
SEI == 9
MEI == 11

TimerBits    == {UTI, STI, MTI}
ExternalBits == {UEI, SEI, MEI}
SoftwareBits == {USI, SSI, MSI}
Interrupts   == TimerBits \cup ExternalBits \cup SoftwareBits

(* UserMask, SupervisorMask and MachineMask of xie_t and xip_t.            *)
InterruptMask(l) ==
    CASE l = Machine    -> Interrupts
      [] l = Supervisor -> Interrupts \ {MSI, MTI, MEI}
      [] OTHER          -> {USI, UTI, UEI}

PendingWriteAll == Interrupts       \* defect: timer bits are writable

(* WriteMask of xip_t: the timer bits cannot be written by software.       *)
PendingWriteMask == ExternalBits \cup SoftwareBits

(* SetWithMask of BitField.h.                                              *)
SetWithMask(r, v, mask) == (r \ mask) \cup (v \cap mask)

WriteEnable(r, v, l) == SetWithMask(r, v, InterruptMask(l))

WritePending(r, v, l) ==
    SetWithMask(r, v, InterruptMask(l) \cap PendingWriteMask)

-----------------------------------------------------------------------------
(* Exception codes (ExceptionType) the modelled operations raise.          *)
IllegalInstruction   == 2
Breakpoint           == 3
EcallFrom(l)         == 8 + l
InstructionPageFault == 12
LoadPageFault        == 13
StorePageFault       == 15

Exceptions == {IllegalInstruction, Breakpoint, InstructionPageFault,
               LoadPageFault, StorePageFault}
                   \cup {EcallFrom(l) : l \in Levels}

-----------------------------------------------------------------------------
(* The CSRs whose value the emulator itself reads back, by kind, and the   *)
(* lowest level that may access each of them (bits 9:8 of its address).    *)
StatusCsrs  == {"mstatus", "sstatus", "ustatus"}
EnableCsrs  == {"mie", "sie", "uie"}
PendingCsrs == {"mip", "sip", "uip"}
DelegCsrs   == {"medeleg", "mideleg", "sedeleg", "sideleg"}
TvecCsrs    == {"mtvec", "stvec", "utvec"}
EpcCsrs     == {"mepc", "sepc", "uepc"}

BitCsrs  == StatusCsrs \cup EnableCsrs \cup PendingCsrs \cup DelegCsrs
CsrNames == BitCsrs \cup TvecCsrs \cup EpcCsrs \cup {"satp"}

CsrLevelDeleg(c) ==                 \* defect: medeleg is taken for sedeleg
    CASE c \in {"mstatus", "mie", "mip", "mideleg", "mtvec", "mepc"} -> Machine
      [] c \in {"sstatus", "sie", "sip", "medeleg", "sedeleg", "sideleg",
                "stvec", "sepc", "satp"} -> Supervisor
      [] OTHER -> User

CsrLevel(c) ==
    CASE c \in {"mstatus", "mie", "mip", "medeleg", "mideleg", "mtvec", "mepc"}
             -> Machine
      [] c \in {"sstatus", "sie", "sip", "sedeleg", "sideleg", "stvec", "sepc",
                "satp"}
             -> Supervisor
      [] OTHER -> User

(* Csr::CheckTrap: an access to CSR c at level p under status st that is   *)
(* an illegal instruction.                                                 *)
CheckTrap(c, p, st) ==
    \/ CsrLevel(c) = Supervisor /\ p = User
    \/ CsrLevel(c) = Machine /\ p \in {User, Supervisor}
    \/ c = "satp" /\ p = Supervisor /\ TVM \in st
=============================================================================
