--------------------------- MODULE MCHartFrames ---------------------------
(* Small values for the parameters of HartFrames: software moves between   *)
(* the levels through every view of the status register, delegates an      *)
(* exception and writes the trap registers; the software interrupt of the  *)
(* machine level nests in all of it.                                       *)
EXTENDS HartFrames

TrapCsrs == {"mstatus", "sstatus", "ustatus", "medeleg", "mtvec", "mepc",
             "sepc", "satp"}
TrapStatusValues == {{MIE, SIE, 11, MPRV}, {TSR, TVM, 12}}
TrapDelegValues == {{}, {IllegalInstruction}}
TrapTvecValues == {[base |-> 2, mode |-> 0]}
=============================================================================
