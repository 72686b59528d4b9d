------------------------------- MODULE MCHart -------------------------------
(* Small values for the parameters of Hart. Interrupts: software enables,  *)
(* delegates and raises them.                                              *)
EXTENDS Hart

InterruptCsrs == {"mstatus", "mie", "sie", "sip", "mideleg", "sideleg"}
InterruptStatusValues == {{MIE, SIE, 11, TVM}, {UIE, TW, 13}}
InterruptMaskValues == {{MTI, STI, SSI}, {MEI}}
InterruptDelegValues == {{}, {MTI, UEI}}
=============================================================================
