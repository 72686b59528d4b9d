---------------------------- MODULE HartFrames ----------------------------
(***************************************************************************)
(* The trap frames of Hart: what the trap registers of a level are meant   *)
(* to remember. frame is an auxiliary variable: it records the context a   *)
(* trap into level l interrupted, until software or another trap overwrites*)
(* the registers that hold it or a return consumes it. It never restricts  *)
(* the steps of Hart.                                                      *)
(***************************************************************************)
EXTENDS Hart

VARIABLE frame

fvars == <<vars, frame>>

FrameLevels == {Supervisor, Machine}

NoFrame == [held |-> FALSE, priv |-> User, pc |-> 0, enabled |-> FALSE]

(* The context a trap into level l interrupts.                             *)
Interrupted(l) == [held |-> TRUE, priv |-> priv, pc |-> pc,
                   enabled |-> EnableBit(l) \in status]

(* A trap into l fills the frame of l. One into S or U goes through        *)
(* sstatus or ustatus and so loses MPP and MPIE, one into U also SPP and   *)
(* SPIE; one into M leaves the supervisor's frame alone.                   *)
EnterFrame(l) ==
    [f \in FrameLevels |->
        IF f = l THEN Interrupted(l)
        ELSE IF f < l THEN frame[f] ELSE NoFrame]

(* The frames whose registers a write of CSR c overwrites.                 *)
Clobbered(c) ==
    CASE c \in StatusCsrs -> FrameLevels
      [] c = "mepc"       -> {Machine}
      [] c = "sepc"       -> {Supervisor}
      [] OTHER            -> {}

Drop(ls) == [f \in FrameLevels |-> IF f \in ls THEN NoFrame ELSE frame[f]]

FInit == Init /\ frame = [f \in FrameLevels |-> NoFrame]

FTrap(t) == Cycle(t) /\ IsTrapEntry(event') /\ frame' = EnterFrame(priv')

FMret(t) == Mret(t) /\ event'.type = "Return" /\ frame' = Drop({Machine})

FSret(t) == Sret(t) /\ event'.type = "Return" /\ frame' = Drop(FrameLevels)

FCsrOp(t) == \E c \in SoftwareCsrs : CsrOp(t, c) /\ frame' = Drop(Clobbered(c))

FOther(t) ==
    /\ \/ ReservedLevel(t) \/ Uret(t) \/ Wfi(t) \/ SfenceVma(t) \/ FpOp(t)
       \/ Ordinary(t) \/ \E set \in BOOLEAN : StoreMsip(t, set)
    /\ event' = NoEvent
    /\ UNCHANGED frame

FNext == \E t \in BOOLEAN :
            FTrap(t) \/ FMret(t) \/ FSret(t) \/ FCsrOp(t) \/ FOther(t)

FSpec == FInit /\ [][FNext]_fvars

-----------------------------------------------------------------------------
(* SPP is one bit wide: a trap from M is remembered as a trap from S.      *)
SppLevel(p) == IF p = User THEN User ELSE Supervisor

(* While a frame is held, the registers of its level still describe the    *)
(* interrupted context: MPP, mepc and MPIE, and SPP, sepc and SPIE, survive*)
(* every trap, return and instruction in between.                          *)
FrameKept ==
    /\ frame[Machine].held =>
          /\ GetMPP(status) = frame[Machine].priv
          /\ epc[Machine] = frame[Machine].pc
          /\ (MPIE \in status) = frame[Machine].enabled
    /\ frame[Supervisor].held =>
          /\ GetSPP(status) = SppLevel(frame[Supervisor].priv)
          /\ epc[Supervisor] = frame[Supervisor].pc
          /\ (SPIE \in status) = frame[Supervisor].enabled

(* A return from a trap resumes what that trap interrupted: mret the level,*)
(* the instruction and the interrupt enable of the code an M-level handler *)
(* interrupted; sret those of the code an S-level handler interrupted, also*)
(* when that handler was itself interrupted by traps into M (but code of   *)
(* level M resumes at level S, SPP being one bit).                         *)
ReturnResumes ==
    [][\A t \in BOOLEAN :
         /\ FMret(t) /\ frame[Machine].held =>
               /\ priv' = frame[Machine].priv
               /\ pc' = frame[Machine].pc
               /\ (MIE \in status') = frame[Machine].enabled
         /\ FSret(t) /\ frame[Supervisor].held =>
               /\ priv' = SppLevel(frame[Supervisor].priv)
               /\ pc' = frame[Supervisor].pc
               /\ (SIE \in status') = frame[Supervisor].enabled]_fvars
=============================================================================
